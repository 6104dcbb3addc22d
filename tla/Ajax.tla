-------------------------------- MODULE Ajax --------------------------------
(***************************************************************************)
(* jQuery.ajax on top of Deferred: a request is a deferred with a third    *)
(* list, of complete callbacks, that is fired after the other two.  The    *)
(* answer, the timeout and abort all end in one function that lets only    *)
(* the first of them through; the hook beforeSend may cancel the request   *)
(* before it has any callback.  The page's code starts in scripts and      *)
(* when the document is ready; it may do anything with the deferreds and   *)
(* requests it has, in any callback, and throw anywhere.                   *)
(***************************************************************************)
EXTENDS Deferred, FiniteSets

CONSTANTS
  Requests,                  \* the deferreds that are requests
  Dom,                       \* the deferred of $(f), settled when the document is ready
  Success, Error, Complete,  \* the callbacks given to a request, or Nothing
  BeforeSend,                \* its hook, or Nothing
  Timed,                     \* the requests with a timeout
  Scripts                    \* the scripts of the page

Hooks == {BeforeSend[r] : r \in Requests} \ {Nothing}
Given == [done |-> Success, fail |-> Error, complete |-> Complete]

\* The callbacks that the page's code adds by itself.
Free == Cbs \ (Scripts \union Hooks \union UNION {Range(Given[k]) : k \in Kinds})

\* A hook is code of its own: only above its request does returning FALSE mean anything.
ASSUME AjaxAssumption ==
  /\ Requests \subseteq Deferreds \ Promises /\ Timed \subseteq Requests
  /\ Dom \in Deferreds \ (Requests \union Promises)
  /\ {Success, Error, Complete, BeforeSend} \subseteq [Requests -> Cbs \union {Nothing}]
  /\ Scripts \subseteq Cbs
  /\ Hooks \intersect (Scripts \union UNION {Range(Given[k]) : k \in Kinds}) = {}

VARIABLES
  phase,   \* of each request: is it new, not sent yet, open or closed
  active,  \* jQuery.active
  started  \* the scripts the browser has run

vars == <<deferredVars, phase, active, started>>

\* What each variable may be: the thread's stack, the lists and the requests' phases.
TypeOK ==
  /\ DeferredTypeOK
  /\ phase \in [Requests -> {"new", "hook", "open", "closed"}]
  /\ active \in Nat
  /\ started \subseteq Scripts

Init ==
  /\ DeferredInit
  /\ phase = [r \in Requests |-> "new"]
  /\ active = 0 /\ started = {}

-----------------------------------------------------------------------------
(* A request. *)

\* ajax calls the hook, if there is one, and goes on when the hook has returned.
ajax(r) ==
  /\ Coding /\ phase[r] = "new"
  /\ phase' = [phase EXCEPT ![r] = "hook"]
  /\ active' = active + 1
  /\ LET sending == <<Frame("send", r, Nothing)>> \o stack IN
     stack' = IF BeforeSend[r] = Nothing THEN sending
              ELSE <<Code(BeforeSend[r])>> \o sending
  /\ UNCHANGED <<state, lists, chains, added, ran, started>>

\* Mutant of close: what comes second completes the request again.
close_again(r, k, rest) ==
  LET completing == <<Frame("completing", r, Nothing)>> \o rest IN
  IF phase[r] = "closed"
    THEN stack' = completing /\ UNCHANGED <<state, lists, waiting, tasks, phase>>
    ELSE phase' = [phase EXCEPT ![r] = "closed"] /\ settle(r, k, completing)

\* The end of the request r, called with rest behind it on the stack: what comes
\* second changes nothing.
close(r, k, rest) ==
  IF phase[r] = "closed"
    THEN stack' = rest /\ UNCHANGED <<state, lists, waiting, tasks, phase>>
    ELSE /\ phase' = [phase EXCEPT ![r] = "closed"]
         /\ settle(r, k, <<Frame("completing", r, Nothing)>> \o rest)

\* Mutant of hookRefuses: nobody is told, and nothing is counted.
hookRefuses_quiet ==
  /\ Coding /\ Top.of \in Hooks
  /\ phase' = [phase EXCEPT ![stack[2].of] = "closed"]
  /\ stack' = Tail(Tail(stack))
  /\ UNCHANGED <<state, lists, chains, added, ran, active, started>>

\* The hook returns FALSE: the request is cancelled, before the callbacks given to
\* it are added.
hookRefuses ==
  /\ Coding /\ Top.of \in Hooks
  /\ close(stack[2].of, "fail", Tail(Tail(stack)))
  /\ UNCHANGED <<source, handles, added, ran, active, started>>

\* The hook has let the request through: the callbacks given to it are added and it is
\* handed to the browser, unless the hook has aborted it.
send ==
  /\ Running("send")
  /\ LET r == Top.of
         given(k) == Given[k][r] # Nothing IN
     IF phase[r] = "closed"
       THEN stack' = Tail(stack) /\ UNCHANGED <<phase, lists, added>>
       ELSE /\ phase' = [phase EXCEPT ![r] = "open"]
            /\ lists' = [lists EXCEPT ![r] =
                 [k \in Kinds |-> IF given(k) THEN add(@[k], Given[k][r]) ELSE @[k]]]
            /\ added' = [added EXCEPT ![r] =
                 [k \in Kinds |-> IF given(k) THEN Append(@[k], Given[k][r]) ELSE @[k]]]
            /\ stack' = <<Frame("sent", r, Nothing)>> \o Tail(stack)
  /\ UNCHANGED <<state, chains, ran, active, started>>

\* The browser takes it,
sent ==
  /\ Running("sent")
  /\ stack' = Tail(stack)
  /\ UNCHANGED <<state, lists, chains, added, ran, phase, active, started>>

\* or throws at once, for an address or a header it cannot use.
sendThrows ==
  /\ Running("sent")
  /\ close(Top.of, "fail", Tail(stack))
  /\ UNCHANGED <<source, handles, added, ran, active, started>>

\* The browser has an answer, or an error, for an open request; or its timeout has
\* come.
Answer(r) ==
  /\ Idle /\ phase[r] = "open"
  /\ \E k \in {"done", "fail"} : close(r, k, <<>>)
  /\ UNCHANGED <<source, handles, added, ran, active, started>>

Timeout(r) ==
  /\ Idle /\ phase[r] = "open" /\ r \in Timed
  /\ close(r, "fail", <<>>)
  /\ UNCHANGED <<source, handles, added, ran, active, started>>

\* abort: of a request that was begun; the hook has it already.
abort(r) ==
  /\ Coding /\ phase[r] # "new"
  /\ close(r, "fail", stack)
  /\ UNCHANGED <<source, handles, added, ran, active, started>>

\* Its callbacks have run: the complete callbacks are next,
complete ==
  /\ Running("completing")
  /\ LET r == Top.of
         completing == <<Frame("completed", r, Nothing)>> \o Tail(stack) IN
     /\ lists' = [lists EXCEPT ![r]["complete"] = fire(@)]
     /\ stack' = <<Frame("list", r, "complete")>> \o completing
  /\ UNCHANGED <<state, chains, added, ran, phase, active, started>>

\* and then the request is no longer counted.
completed ==
  /\ Running("completed")
  /\ active' = active - 1
  /\ stack' = Tail(stack)
  /\ UNCHANGED <<state, lists, chains, added, ran, phase, started>>

-----------------------------------------------------------------------------
(* The page. *)

Script(c) ==
  /\ Idle /\ c \notin started
  /\ started' = started \union {c}
  /\ stack' = <<Code(c)>>
  /\ UNCHANGED <<state, lists, chains, added, ran, phase, active>>

\* DOMContentLoaded, when every script has run.
ready ==
  /\ Idle /\ started = Scripts /\ state[Dom] = "pending"
  /\ settle(Dom, "done", <<>>)
  /\ UNCHANGED <<source, handles, added, ran, phase, active, started>>

\* The deferreds there are.
Known == (Deferreds \ (Requests \union Promises))
           \union {r \in Requests : phase[r] # "new"}
           \union {p \in Promises : source[p] # Nothing}

\* What a piece of code may do before it returns.
Act ==
  /\ Coding
  /\ \/ /\ \/ \E d \in Known \ {Dom}, k \in {"done", "fail"}, c \in Free :
                addCallback(d, k, c)
           \/ \E d \in Known, p \in Promises, given \in SUBSET {"done", "fail"} :
                then(d, p, given)
        /\ UNCHANGED <<phase, active, started>>
     \/ \E r \in Requests : ajax(r) \/ abort(r)

Thread ==
  \/ hookRefuses \/ send \/ sent \/ sendThrows \/ complete \/ completed
  \/ /\ \/ fireNext \/ fireEnd \/ return \/ throw \/ runTask \/ endTask
        \/ \E e \in Known \ {Dom} : returnPromise(e)
     /\ UNCHANGED <<phase, active, started>>

Events ==
  \/ \E r \in Requests : Answer(r) \/ Timeout(r)
  \/ \E c \in Scripts : Script(c)
  \/ ready

Next == Act \/ Thread \/ Events

\* The thread goes on while there is something to do, and the browser runs its timers.
Spec == Init /\ [][Next]_vars /\ WF_vars(Thread)

-----------------------------------------------------------------------------
(* Properties. *)

\* A request was cut off: an exception in one of its callbacks ended it before its
\* complete callbacks had run.
Cut(r) == phase[r] = "closed" /\ (~lists[r]["complete"].fired \/ lists[r]["complete"].firing)

\* jQuery.active counts the requests that are under way and, for good, those that
\* were cut off; it takes an exception in a callback of the request to cut it off.
ActiveCounts ==
  Idle =>
    /\ active = Cardinality({r \in Requests : phase[r] \in {"hook", "open"} \/ Cut(r)})
    /\ \A r \in Requests : Cut(r) => \E k \in Kinds : lists[r][k].firing

\* A complete callback runs when all the callbacks for the outcome have run.
CompleteIsLast ==
  [][\A r \in Requests : ran'[r]["complete"] # ran[r]["complete"] =>
       \E k \in DOMAIN Outcome : state[r] = Outcome[k] /\ ran[r][k] = added[r][k]]_vars
=============================================================================
