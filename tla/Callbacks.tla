------------------------------ MODULE Callbacks ------------------------------
(***************************************************************************)
(* jQuery.Callbacks("once memory"), the lists behind deferreds and         *)
(* requests: a list is fired once, runs its callbacks in order, and runs   *)
(* at once what is added to it later.  The callbacks themselves may do     *)
(* anything, also to the list that runs them, so a pass over a list is a   *)
(* sequence of steps: each advances the index and runs one callback.       *)
(***************************************************************************)
EXTENDS Naturals, Sequences

Lists(Callback) == [list : Seq(Callback), index : Nat, fired : BOOLEAN,
                    firing : BOOLEAN, disabled : BOOLEAN]

EmptyList == [list |-> <<>>, index |-> 0, fired |-> FALSE, firing |-> FALSE,
              disabled |-> FALSE]

\* Mutant of add: a callback added after the list was fired waits for the next time.
add_forgetful(l, c) == IF l.disabled THEN l ELSE [l EXCEPT !.list = Append(@, c)]

\* add: with a memory of having been fired, and no pass under way, a pass begins
\* at the added callback.
add(l, c) ==
  IF l.disabled THEN l
  ELSE [l EXCEPT !.list = Append(@, c),
                 !.index = IF l.fired /\ ~l.firing THEN Len(l.list) ELSE @,
                 !.firing = l.fired]

\* fireWith: a fired or disabled list is locked.
fire(l) ==
  IF l.fired \/ l.disabled THEN l ELSE [l EXCEPT !.fired = TRUE, !.firing = TRUE]

\* disable: the list forgets everything, for good.
disable(l) == [l EXCEPT !.list = <<>>, !.fired = FALSE, !.disabled = TRUE]

More(l) == l.index < Len(l.list)
nextCallback(l) == l.list[l.index + 1]
advance(l) == [l EXCEPT !.index = @ + 1]

\* The end of a pass.
endPass(l) == [l EXCEPT !.list = <<>>, !.index = 0, !.firing = FALSE]
=============================================================================
