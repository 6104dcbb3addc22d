------------------------------- MODULE Deferred -------------------------------
(***************************************************************************)
(* jQuery.Deferred, and the thread of a page that runs it.                 *)
(*                                                                         *)
(* A deferred runs its done or its fail callbacks inside the call that     *)
(* settles it, or that adds one later; a handler given to then runs in a   *)
(* task of its own and settles the promise that then returned.  Whatever   *)
(* runs is on the stack of the one thread; a piece of the page's code may  *)
(* do several things before it returns or throws.  An exception unwinds    *)
(* the stack down to a task of then, which catches it, or altogether, and  *)
(* leaves the lists it was running as they are.                            *)
(***************************************************************************)
EXTENDS Callbacks, Functions

CONSTANTS
  Deferreds,  \* promises and deferreds
  Promises,   \* those among them that then returns
  Cbs,        \* the page's pieces of code, each of which is added to one list at most
  Nothing

ASSUME DeferredAssumption ==
  /\ Promises \subseteq Deferreds
  /\ Nothing \notin Deferreds \union Cbs
  /\ Cbs \intersect Deferreds = {}

VARIABLES
  state,    \* of each deferred
  lists,    \* the done and fail callbacks of each deferred, and the complete
            \* callbacks of a request
  waiting,  \* the promises whose handlers wait for a deferred, in order
  source,   \* the deferred a promise waits for: the one its handler is added to
            \* or, later, the promise its handler has returned
  handles,  \* which handlers of then a promise has
  tasks,    \* setTimeout: the promises whose handlers run next
  stack,    \* what the thread is at, the innermost first
  added,    \* history: the callbacks added to each list,
  ran       \* and those it has run, in order

chains == <<waiting, source, handles, tasks>>
deferredVars == <<state, lists, chains, stack, added, ran>>

Kinds == {"done", "fail", "complete"}
Outcome == [done |-> "resolved", fail |-> "rejected"]
Other == [done |-> "fail", fail |-> "done"]

\* Code of the page (a callback, a handler of then, a script or a hook), a pass
\* over a list, a task of then, and a request being sent or completed (Ajax).
Frames == [at   : {"code", "list", "task", "send", "sent", "completing", "completed"},
           of   : Deferreds \union Cbs \union {Nothing},
           kind : Kinds \union {Nothing}]
Frame(at, of, kind) == [at |-> at, of |-> of, kind |-> kind]
Code(c) == Frame("code", c, Nothing)

DeferredTypeOK ==
  /\ state \in [Deferreds -> {"pending", "resolved", "rejected"}]
  /\ lists \in [Deferreds -> [Kinds -> Lists(Cbs)]]
  /\ waiting \in [Deferreds -> Seq(Promises)]
  /\ source \in [Promises -> Deferreds \union {Nothing}]
  /\ handles \in [Promises -> SUBSET {"done", "fail"}]
  /\ tasks \in Seq(Promises)
  /\ stack \in Seq(Frames)
  /\ added \in [Deferreds -> [Kinds -> Seq(Cbs)]]
  /\ ran \in [Deferreds -> [Kinds -> Seq(Cbs)]]

DeferredInit ==
  /\ state = [d \in Deferreds |-> "pending"]
  /\ lists = [d \in Deferreds |-> [k \in Kinds |-> EmptyList]]
  /\ waiting = [d \in Deferreds |-> <<>>]
  /\ source = [p \in Promises |-> Nothing]
  /\ handles = [p \in Promises |-> {}]
  /\ tasks = <<>> /\ stack = <<>>
  /\ added = [d \in Deferreds |-> [k \in Kinds |-> <<>>]]
  /\ ran = added

Idle == stack = <<>>
Running(at) == stack # <<>> /\ Head(stack).at = at
Top == Head(stack)
Coding == Running("code")
Unadded(c) == \A d \in Deferreds, k \in Kinds : c \notin Range(added[d][k])

-----------------------------------------------------------------------------
(* Settling a deferred. *)

\* resolveWith (done) or rejectWith (fail), called with rest behind it on the
\* stack: the state changes, the other list is disabled, the handlers of then are
\* put off, and the pass over the callbacks begins.  Nothing happens to a deferred
\* that is settled.
settle(d, k, rest) ==
  IF state[d] # "pending"
    THEN stack' = rest /\ UNCHANGED <<state, lists, waiting, tasks>>
    ELSE /\ state' = [state EXCEPT ![d] = Outcome[k]]
         /\ lists' = [lists EXCEPT ![d][k] = fire(@), ![d][Other[k]] = disable(@)]
         /\ tasks' = tasks \o waiting[d]
         /\ waiting' = [waiting EXCEPT ![d] = <<>>]
         /\ stack' = <<Frame("list", d, k)>> \o rest

\* A pass over a list runs the next callback,
fireNext ==
  /\ Running("list")
  /\ LET d == Top.of  k == Top.kind  l == lists[d][k] IN
     /\ More(l)
     /\ lists' = [lists EXCEPT ![d][k] = advance(@)]
     /\ stack' = <<Code(nextCallback(l))>> \o stack
     /\ ran' = [ran EXCEPT ![d][k] = Append(@, nextCallback(l))]
  /\ UNCHANGED <<state, chains, added>>

\* Mutant of fireEnd: a callback that returns FALSE ends the pass.
fireEnd_stopOnFalse ==
  /\ Running("list")
  /\ LET d == Top.of  k == Top.kind IN
     lists' = [lists EXCEPT ![d][k] = endPass(@)]
  /\ stack' = Tail(stack)
  /\ UNCHANGED <<state, chains, added, ran>>

\* or ends.
fireEnd ==
  /\ Running("list")
  /\ LET d == Top.of  k == Top.kind IN
     /\ ~More(lists[d][k])
     /\ lists' = [lists EXCEPT ![d][k] = endPass(@)]
  /\ stack' = Tail(stack)
  /\ UNCHANGED <<state, chains, added, ran>>

-----------------------------------------------------------------------------
(* What the page's code does. *)

\* done, fail, or always's part of it: the callback may run at once.
addCallback(d, k, c) ==
  /\ Unadded(c)
  /\ lists' = [lists EXCEPT ![d][k] = add(@, c)]
  /\ added' = [added EXCEPT ![d][k] = Append(@, c)]
  /\ stack' = IF ~lists[d][k].firing /\ lists'[d][k].firing
                THEN <<Frame("list", d, k)>> \o stack ELSE stack
  /\ UNCHANGED <<state, chains, ran>>

\* Mutant of waitFor: the handlers of a deferred that is settled already are forgotten.
waitFor_late(p, d) ==
  /\ source' = [source EXCEPT ![p] = d]
  /\ waiting' = [waiting EXCEPT ![d] = Append(@, p)] /\ UNCHANGED tasks

\* p's handlers are to run when d is settled: put off now if it is.
waitFor(p, d) ==
  /\ source' = [source EXCEPT ![p] = d]
  /\ IF state[d] = "pending"
       THEN waiting' = [waiting EXCEPT ![d] = Append(@, p)] /\ UNCHANGED tasks
       ELSE tasks' = Append(tasks, p) /\ UNCHANGED waiting

\* then.
then(d, p, given) ==
  /\ source[p] = Nothing
  /\ waitFor(p, d)
  /\ handles' = [handles EXCEPT ![p] = given]
  /\ UNCHANGED <<state, lists, stack, added, ran>>

\* The code returns.  What a handler of then returns resolves its promise,
return ==
  /\ Coding
  /\ IF Top.of \in Promises
       THEN settle(Top.of, "done", Tail(stack)) /\ UNCHANGED <<source, handles>>
       ELSE stack' = Tail(stack) /\ UNCHANGED <<state, lists, chains>>
  /\ UNCHANGED <<added, ran>>

\* unless it is a promise, which the handler's promise follows from then on.  To
\* follow itself is a TypeError.
returnPromise(e) ==
  /\ Coding /\ Top.of \in Promises
  /\ IF e = Top.of
       THEN settle(e, "fail", Tail(stack)) /\ UNCHANGED <<source, handles>>
       ELSE /\ waitFor(Top.of, e)
            /\ handles' = [handles EXCEPT ![Top.of] = {}]
            /\ stack' = Tail(stack)
            /\ UNCHANGED <<state, lists>>
  /\ UNCHANGED <<added, ran>>

\* An exception reaches the task at the bottom of the stack, whose promise is
\* rejected unless it is settled, or is reported.
unwind ==
  LET bottom == stack[Len(stack)] IN
  IF bottom.at = "task"
    THEN settle(bottom.of, "fail", <<bottom>>)
    ELSE stack' = <<>> /\ UNCHANGED <<state, lists, waiting, tasks>>

throw ==
  /\ Coding
  /\ unwind
  /\ UNCHANGED <<source, handles, added, ran>>

-----------------------------------------------------------------------------
(* Tasks. *)

\* Mutant of runTask: a rejection without a handler is taken for handled.
runTask_swallow ==
  /\ Idle /\ tasks # <<>>
  /\ LET p == Head(tasks)
         k == IF state[source[p]] = "resolved" THEN "done" ELSE "fail" IN
     /\ state' = [state EXCEPT ![p] = IF k \in handles[p] THEN @ ELSE "resolved"]
     /\ stack' = IF k \in handles[p] THEN <<Code(p), Frame("task", p, Nothing)>> ELSE <<>>
  /\ tasks' = Tail(tasks)
  /\ UNCHANGED <<lists, waiting, source, handles, added, ran>>

\* The task of p: the handler for the outcome of its source or, without one, the
\* outcome itself.
runTask ==
  /\ Idle /\ tasks # <<>>
  /\ LET p == Head(tasks)
         k == IF state[source[p]] = "resolved" THEN "done" ELSE "fail"
         task == Frame("task", p, Nothing) IN
     IF k \in handles[p]
       THEN /\ stack' = <<Code(p), task>> /\ tasks' = Tail(tasks)
            /\ UNCHANGED <<state, lists, waiting>>
       ELSE /\ state' = [state EXCEPT ![p] = Outcome[k]]
            /\ lists' = [lists EXCEPT ![p][k] = fire(@), ![p][Other[k]] = disable(@)]
            /\ tasks' = Tail(tasks) \o waiting[p]
            /\ waiting' = [waiting EXCEPT ![p] = <<>>]
            /\ stack' = <<Frame("list", p, k), task>>
  /\ UNCHANGED <<source, handles, added, ran>>

endTask ==
  /\ Running("task")
  /\ stack' = Tail(stack)
  /\ UNCHANGED <<state, lists, chains, added, ran>>

-----------------------------------------------------------------------------
(* Properties. *)

Fired(d, k) == IF k = "complete" THEN lists[d][k].fired ELSE state[d] = Outcome[k]

\* Each list runs its callbacks in the order in which they were added, each once,
\* and only when it was fired; when the thread rests it has run them all, unless one
\* of them threw: those behind it, and those added later, are never run.
CallbacksInOrder ==
  \A d \in Deferreds, k \in Kinds :
    /\ ran[d][k] = SubSeq(added[d][k], 1, Len(ran[d][k]))
    /\ ran[d][k] # <<>> => Fired(d, k)
    /\ Idle /\ Fired(d, k) /\ ~lists[d][k].firing => ran[d][k] = added[d][k]

\* A promise of then without a handler for what its source has come to comes to the
\* same: no rejection is lost on its way along a chain.
OutcomesArePassedOn ==
  \A p \in Promises : \A k \in DOMAIN Outcome \ handles[p] :
    source[p] # Nothing /\ state[p] # "pending" =>
      (state[source[p]] = Outcome[k] => state[p] = Outcome[k])

\* A promise whose source is settled is settled as well, whatever its handler does,
\* unless the handler returns a promise that is pending.
Pending(p) == source[p] # Nothing => state[source[p]] = "pending"
ChainsSettle == \A p \in Promises : ~Pending(p) ~> state[p] # "pending" \/ Pending(p)
=============================================================================
