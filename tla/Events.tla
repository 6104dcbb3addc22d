-------------------------------- MODULE Events --------------------------------
(***************************************************************************)
(* The events of jQuery: the date picker shows itself on the focus of its  *)
(* input, and hides on what is pressed anywhere in the document.           *)
(* Each element has one list of handlers for a type, the delegated ones    *)
(* first, and one listener of the browser for the whole list.  An event    *)
(* comes from the browser or from a script (trigger), which goes through   *)
(* the elements itself and calls the browser's method afterwards; in a     *)
(* focus, the method is called first, by a handler that jQuery puts at     *)
(* the head of the list.                                                   *)
(*                                                                         *)
(* One type of event is modelled, either one that bubbles or the focus     *)
(* (leveraged), on the elements from an input (1) to the document (Depth). *)
(* The calls under way are a stack: a handler may bind, unbind and         *)
(* trigger, and so may the handlers of what it triggers.                   *)
(***************************************************************************)
EXTENDS Integers, SequencesExt, FiniteSets

CONSTANTS
  Depth,     \* how many elements there are, one inside the other
  Ids,       \* the bindings there can be at one time
  Fns,       \* the functions that are bound
  MaxCalls,  \* bound: the events under way at one time, one inside the other
  MaxChanges \* bound: what the handlers bind and unbind in one event

ASSUME EventsAssumption ==
  /\ Depth \in Nat \ {0} /\ MaxCalls \in Nat \ {0} /\ MaxChanges \in Nat
  /\ {"stub", "true"} \intersect (Ids \union Fns) = {}

VARIABLES
  leveraged, \* is the type focus?
  events,    \* of each element, the list of handlers
  listening, \* the elements with a listener of the browser
  triggered, \* jQuery.event.triggered: is the browser's method called for a trigger?
  saved,     \* what jQuery keeps of the focus under way in the data of the input
  active,    \* does the input have the focus?
  late,      \* is its focus event still to come?
  objects,   \* the event objects of the calls under way
  stack,     \* what these calls are doing, the last one running
  history,   \* of each call under way, what was due and what was done
  changes    \* what their handlers have bound and unbound

vars ==
  <<leveraged, events, listening, triggered, saved, active, late, objects, stack, history,
    changes>>
calls == <<triggered, objects, stack, history>>
bindings == <<events, listening>>
focus == <<saved, active, late>>

Elements == 1..Depth
Bindable == IF leveraged THEN {1} ELSE Elements

-----------------------------------------------------------------------------
(* The lists of handlers. *)

\* sel: the element a delegated handler is for, 0 for a handler of the element's own.
Handlers == [id : Ids, fn : Fns, sel : 0..Depth, once : BOOLEAN]

\* What jQuery itself binds: Stub calls the browser's method, ReturnTrue does nothing.
Stub == [id |-> "stub", fn |-> "stub", sel |-> 0, once |-> FALSE]
ReturnTrue == [id |-> "true", fn |-> "true", sel |-> 0, once |-> FALSE]

\* What jQuery keeps of a focus: nothing yet, that none is under way, the event with which
\* it was called for, or what the handlers returned.
Saved(is, obj, result) == [is |-> is, obj |-> obj, result |-> result]

EmptyList == [list |-> <<>>, delegateCount |-> 0]

Delegated(n) == SubSeq(events[n].list, 1, events[n].delegateCount)
Own(n) == SubSeq(events[n].list, events[n].delegateCount + 1, Len(events[n].list))

BoundAt(n) == {h \in ToSet(events[n].list) : h.id \in Ids}
BoundIds == {h.id : h \in UNION {BoundAt(n) : n \in Elements}}

\* A delegated handler goes after the delegated ones, before the element's own.
added(l, h) ==
  IF h.sel = 0 THEN [l EXCEPT !.list = Append(@, h)]
  ELSE [list |-> InsertAt(l.list, l.delegateCount + 1, h), delegateCount |-> l.delegateCount + 1]

\* The first handler of a focus brings the stub with it.
add(n, h) ==
  /\ events' = [events EXCEPT ![n] =
       added(IF leveraged /\ @.list = <<>> THEN added(@, Stub) ELSE @, h)]
  /\ listening' = listening \union {n}
  /\ saved' = IF leveraged /\ events[n].list = <<>> THEN Saved("no", 0, "none") ELSE saved

\* Mutant of removed: the handlers go, the count of the delegated ones stays.
removed_count(l, gone) == [l EXCEPT !.list = SelectSeq(@, LAMBDA h : h \notin gone)]

\* The list without the handler at i, if that is to go.
spliced(l, i, gone) ==
  IF l.list[i] \notin gone THEN l
  ELSE [list |-> RemoveAt(l.list, i),
        delegateCount |-> IF l.list[i].sel = 0 THEN l.delegateCount ELSE l.delegateCount - 1]

\* It is gone through from its end.
removed(l, gone) ==
  LET after[k \in 0..Len(l.list)] ==
        IF k = 0 THEN l ELSE spliced(after[k - 1], Len(l.list) + 1 - k, gone)
  IN  after[Len(l.list)]

\* Mutant of remove: the browser's listener stays when the list is empty.
remove_deaf(n, gone) ==
  /\ events' = [events EXCEPT ![n] = removed(@, gone)]
  /\ UNCHANGED listening

\* The listener goes with the last handler.
remove(n, gone) ==
  /\ events' = [events EXCEPT ![n] = removed(@, gone)]
  /\ listening' = IF events'[n].list = <<>> THEN listening \ {n} ELSE listening

-----------------------------------------------------------------------------
(* The event objects, and the calls. *)

Results == {"none", "true", "false"}

\* native: the browser's event behind it, 0 for the browser's own events and for those
\* of trigger.
EventObject(isTrigger, native) ==
  [isTrigger |-> isTrigger, native |-> native, stopped |-> FALSE, immediate |-> FALSE,
   prevented |-> FALSE, result |-> "none"]

\* Mutant of stopPropagation: the browser is not told.
stopPropagation_own(os, k) == [os EXCEPT ![k].stopped = TRUE]

\* What happens to an event happens to the browser's event behind it.
stopPropagation(os, k) ==
  [i \in DOMAIN os |-> IF i \in {k, os[k].native} THEN [os[i] EXCEPT !.stopped = TRUE] ELSE os[i]]

preventDefault(os, k) ==
  [i \in DOMAIN os |-> IF i \in {k, os[k].native} THEN [os[i] EXCEPT !.prevented = TRUE] ELSE os[i]]

stopImmediatePropagation(os, k) == [stopPropagation(os, k) EXCEPT ![k].immediate = TRUE]

\* What a handler returns; FALSE also stops and prevents.
answered(os, k, result) ==
  LET noted == [os EXCEPT ![k].result = IF result = "none" THEN @ ELSE result] IN
  IF result = "false" THEN stopPropagation(preventDefault(noted, k), k) ELSE noted

Top == Last(stack)
Running(kind) == stack # <<>> /\ Top.kind = kind
Phase(kind, phase) == Running(kind) /\ Top.phase = phase

\* A script runs when nothing does, and in a handler.
Script == stack = <<>> \/ Running("handler")

Change ==
  \/ stack = <<>> /\ UNCHANGED changes
  \/ Running("handler") /\ changes < MaxChanges /\ changes' = changes + 1

\* The call that runs, and the one that begins next.
ThisCall == Len(history)
NextCall == Len(history) + 1

\* The way of an event: every element from its target on, or the target alone.
End(f) == IF leveraged \/ f.only THEN f.node ELSE Depth

\* due: the handlers bound to the way of an event when it begins; log: those that were
\* called for it, where, and whether they stopped it.
due(n, end) ==
  {h \in UNION {BoundAt(m) : m \in n..end} : h.sel = 0 \/ h.sel >= n}
begun(expected) == history' = Append(history, [due |-> expected, log |-> <<>>])
logged(entry) == history' = [history EXCEPT ![ThisCall].log = Append(@, entry)]
excused == history' = [history EXCEPT ![ThisCall].due = {}]
stopping(log, how) == [log EXCEPT ![Len(log)].stops = IF @ = "now" THEN @ ELSE how]
stops(how) == history' = [history EXCEPT ![ThisCall].log = stopping(@, how)]

\* What a call does: goes through the elements, gives an event to the handlers of one,
\* runs a handler, or the stub.
Trigger(k, n, only, call) ==
  [kind |-> "trigger", obj |-> k, node |-> n, at |-> n, only |-> only, phase |-> "path", call |-> call]
Native(k, n, call) ==
  [kind |-> "native", obj |-> k, node |-> n, at |-> n, only |-> FALSE, phase |-> "path", call |-> call]
Dispatch(k, n, call, queue) ==
  [kind |-> "dispatch", obj |-> k, node |-> n, elem |-> 0, call |-> call, queue |-> queue]
Handler(k, call) == [kind |-> "handler", obj |-> k, call |-> call]
Controller(k, phase, sync, call) ==
  [kind |-> "controller", obj |-> k, phase |-> phase, sync |-> sync, again |-> saved.obj, call |-> call]

\* The objects that are still referred to.
Kept(os, stk) ==
  SubSeq(os, 1, Max({stk[i].obj : i \in DOMAIN stk} \union {IF saved.is = "args" THEN saved.obj ELSE 0}))

Lists == [list : Seq(Handlers \union {Stub, ReturnTrue}), delegateCount : Nat]
EventObjects ==
  [isTrigger : BOOLEAN, native : Nat, stopped : BOOLEAN, immediate : BOOLEAN, prevented : BOOLEAN,
   result : Results]
Queued == [h : Handlers \union {Stub, ReturnTrue}, elem : Elements]
Frames ==
  [kind : {"trigger", "native"}, obj : Nat, node : Elements, at : 1..(Depth + 1), only : BOOLEAN,
   phase : {"path", "tail", "method", "over"}, call : Nat]
  \union [kind : {"dispatch"}, obj : Nat, node : Elements, elem : 0..Depth, call : Nat, queue : Seq(Queued)]
  \union [kind : {"handler"}, obj : Nat, call : Nat]
  \union [kind : {"controller"}, obj : Nat, phase : {"method", "again"}, sync : BOOLEAN, again : Nat,
          call : Nat]
Entries == [id : Ids, node : Elements, elem : Elements, stops : {"no", "stop", "now"}]
Calls == [due : SUBSET Handlers, log : Seq(Entries)]

\* What each variable may be: a list counts no more delegated handlers than it has, every
\* frame has its event object, and every object the browser's event behind it.
TypeOK ==
  /\ leveraged \in BOOLEAN /\ triggered \in BOOLEAN /\ active \in BOOLEAN /\ late \in BOOLEAN
  /\ events \in [Elements -> Lists] /\ listening \subseteq Elements
  /\ \A n \in Elements : events[n].delegateCount <= Len(events[n].list)
  /\ saved \in [is : {"unset", "no", "args", "value"}, obj : 0..Len(objects), result : Results]
  /\ objects \in Seq(EventObjects) /\ \A k \in DOMAIN objects : objects[k].native <= Len(objects)
  /\ stack \in Seq(Frames) /\ \A i \in DOMAIN stack : stack[i].obj \in DOMAIN objects
  /\ history \in Seq(Calls) /\ changes \in 0..MaxChanges

Init ==
  /\ leveraged \in BOOLEAN
  /\ events = [n \in Elements |-> EmptyList]
  /\ listening = {} /\ triggered = FALSE
  /\ saved = Saved("unset", 0, "none")
  /\ active \in (IF leveraged THEN BOOLEAN ELSE {FALSE}) /\ late = FALSE
  /\ objects = <<>> /\ stack = <<>> /\ history = <<>> /\ changes = 0

-----------------------------------------------------------------------------
(* What scripts do, in a handler or on their own. *)

on(n, h) ==
  /\ Change /\ n \in Bindable /\ h.id \notin BoundIds /\ h.sel < n
  /\ \A i \in DOMAIN stack :
       stack[i].kind = "dispatch" => \A j \in DOMAIN stack[i].queue : stack[i].queue[j].h.id # h.id
  /\ \A c \in DOMAIN history :
       /\ \A d \in history[c].due : d.id # h.id
       /\ \A j \in DOMAIN history[c].log : history[c].log[j].id # h.id
  /\ add(n, h)
  /\ UNCHANGED <<leveraged, active, late, calls>>

\* One function of an element's, or whatever it has.
off(n, f) ==
  /\ Change /\ \E h \in BoundAt(n) : h.fn = f
  /\ remove(n, {h \in BoundAt(n) : h.fn = f})
  /\ UNCHANGED <<leveraged, focus, calls>>

offAll(n) ==
  /\ Change /\ BoundAt(n) # {}
  /\ remove(n, ToSet(events[n].list))
  /\ UNCHANGED <<leveraged, focus, calls>>

\* trigger, or triggerHandler (only): no bubbling, nothing of the browser's.  The first
\* focus that is triggered on an input brings a handler of jQuery's with it.
trigger(n, only) ==
  /\ Script /\ n \in Bindable /\ ThisCall < MaxCalls /\ ~(only /\ leveraged)
  /\ objects' = Append(objects, EventObject(~only, 0))
  /\ stack' = Append(stack, Trigger(Len(objects) + 1, n, only, NextCall))
  /\ begun(due(n, IF leveraged \/ only THEN n ELSE Depth))
  /\ IF leveraged /\ saved.is = "unset" THEN add(n, ReturnTrue) ELSE UNCHANGED <<bindings, saved>>
  /\ UNCHANGED <<leveraged, changes, triggered, active, late>>

\* An event of the browser's own; a focus may be one that comes late.
Arrive(n) ==
  /\ stack = <<>> /\ n \in Bindable
  /\ leveraged => ~active \/ late
  /\ active' = leveraged /\ late' = FALSE
  /\ objects' = Append(objects, EventObject(FALSE, 0))
  /\ stack' = <<Native(Len(objects) + 1, n, NextCall)>>
  /\ begun(due(n, IF leveraged THEN n ELSE Depth))
  /\ UNCHANGED <<leveraged, changes, bindings, triggered, saved>>

Blur ==
  /\ Script /\ active /\ active' = FALSE /\ late' = FALSE
  /\ UNCHANGED <<leveraged, changes, bindings, triggered, saved, objects, stack, history>>

-----------------------------------------------------------------------------
(* The way of an event through the elements. *)

At(hs, m) == [i \in DOMAIN hs |-> [h |-> hs[i], elem |-> m]]

\* The handlers of hs that are delegated for m.
delegatedFor(hs, m) ==
  LET first[k \in 0..Len(hs)] ==
        IF k = 0 THEN <<>>
        ELSE IF hs[k].sel = m THEN Append(first[k - 1], hs[k]) ELSE first[k - 1]
  IN  first[Len(hs)]

\* What an element has to call: for each element from the target up to it the handlers
\* that are delegated for that one, then its own.
handlers(n, target) ==
  LET below[k \in 0..(n - target)] ==
        IF k = 0 THEN <<>>
        ELSE below[k - 1] \o At(delegatedFor(Delegated(n), target + k - 1), target + k - 1)
  IN  below[n - target] \o At(Own(n), n)

\* The handle of an element.  Mutant: what trigger has done is done again.
handle_again(stk, os, n, k) ==
  stack' = Append(stk, Dispatch(k, n, ThisCall, handlers(n, Top.node))) /\ objects' = os

handle(stk, os, n, k) ==
  IF triggered
  THEN stack' = stk /\ UNCHANGED objects
  ELSE handle_again(stk, os, n, k)

atEnd == Top.at > End(Top) \/ objects[Top.obj].stopped
Further == [stack EXCEPT ![Len(stack)].at = @ + 1]
InPhase(phase) == [stack EXCEPT ![Len(stack)].phase = phase]

\* trigger calls the handle of each element that has handlers.
visit ==
  /\ Phase("trigger", "path") /\ ~atEnd
  /\ IF events[Top.at].list # <<>>
     THEN handle(Further, objects, Top.at, Top.obj)
     ELSE stack' = Further /\ UNCHANGED objects
  /\ UNCHANGED <<leveraged, changes, bindings, triggered, focus, history>>

\* The browser calls its listeners, which make an object of jQuery's of the event.
listener ==
  /\ Phase("native", "path") /\ ~atEnd
  /\ IF Top.at \in listening
     THEN handle(Further, Append(objects, EventObject(FALSE, Top.obj)), Top.at, Len(objects) + 1)
     ELSE stack' = Further /\ UNCHANGED objects
  /\ UNCHANGED <<leveraged, changes, bindings, triggered, focus, history>>

\* The browser's method.  That of the focus does nothing where the focus is already;
\* elsewhere the event comes at once, or late (the window is in the background), or
\* never (the input cannot have the focus).
method(stk, os, n) ==
  \/ /\ leveraged => ~active
     /\ active' = leveraged /\ late' = FALSE
     /\ objects' = Append(os, EventObject(FALSE, 0))
     /\ stack' = Append(stk, Native(Len(os) + 1, n, ThisCall)) /\ UNCHANGED history
  \/ /\ leveraged /\ active
     /\ stack' = stk /\ objects' = os /\ UNCHANGED <<active, late, history>>
  \/ /\ leveraged /\ ~active /\ active' \in BOOLEAN /\ late' = active'
     /\ stack' = stk /\ objects' = os /\ excused

popped == stack' = Front(stack) /\ objects' = Kept(objects, Front(stack))

pathEnd ==
  /\ (Phase("trigger", "path") \/ Phase("native", "path")) /\ atEnd
  /\ stack' = InPhase(IF Top.kind = "trigger" THEN "tail" ELSE "over")
  /\ UNCHANGED <<leveraged, changes, bindings, triggered, focus, objects, history>>

\* What trigger leaves to the browser, and what it does not: a focus that jQuery has
\* saved something of is done, or under way.
Default == ~Top.only /\ ~objects[Top.obj].prevented /\ ~(leveraged /\ saved.is # "no")

tail ==
  /\ Phase("trigger", "tail")
  /\ \/ /\ ~Default
        /\ stack' = InPhase("over") /\ UNCHANGED <<triggered, active, late, objects, history>>
     \/ /\ Default /\ triggered' = TRUE
        /\ method(InPhase("method"), objects, Top.node)
  /\ UNCHANGED <<leveraged, changes, bindings, saved>>

tailEnd ==
  /\ Phase("trigger", "method")
  /\ triggered' = FALSE /\ stack' = InPhase("over")
  /\ UNCHANGED <<leveraged, changes, bindings, focus, objects, history>>

over ==
  /\ Phase("trigger", "over") \/ Phase("native", "over")
  /\ \/ /\ Len(stack) > 1 /\ popped /\ UNCHANGED <<saved, changes>>
        /\ history' = SubSeq(history, 1, stack[Len(stack) - 1].call)
     \/ /\ Len(stack) = 1 /\ stack' = <<>> /\ history' = <<>> /\ changes' = 0
        /\ IF saved.is = "args"
           THEN objects' = <<objects[saved.obj]>> /\ saved' = [saved EXCEPT !.obj = 1]
           ELSE objects' = <<>> /\ UNCHANGED saved
  /\ UNCHANGED <<leveraged, bindings, triggered, active, late>>

-----------------------------------------------------------------------------
(* The dispatch of an event to the handlers there are when it begins.  Those of an      *)
(* element are not called any more after one stops the event at once; those of the      *)
(* elements further out are not called after one stops it.                              *)

Next1 == Head(Top.queue)
goesOn ==
  /\ Top.queue # <<>> /\ ~objects[Top.obj].immediate
  /\ objects[Top.obj].stopped => Next1.elem = Top.elem

Passed == [stack EXCEPT ![Len(stack)].queue = Tail(@), ![Len(stack)].elem = Next1.elem]

Calling(fns) ==
  Running("dispatch") /\ goesOn /\ Next1.h.fn \in fns

\* A handler that was bound with one unbinds its function first.
call ==
  /\ Calling(Fns)
  /\ stack' = Append(Passed, Handler(Top.obj, ThisCall))
  /\ logged([id |-> Next1.h.id, node |-> Top.node, elem |-> Next1.elem, stops |-> "no"])
  /\ IF Next1.h.once
     THEN remove(Top.node, {h \in BoundAt(Top.node) :
                         h.fn = Next1.h.fn /\ Next1.h.sel \in {0, h.sel}})
     ELSE UNCHANGED bindings
  /\ UNCHANGED <<leveraged, changes, triggered, focus, objects>>

\* A handler may stop what is stopped already, at once or not: by itself, by another
\* handler of the element, or by the stub.
stop(how) ==
  /\ Running("handler")
  /\ objects' = IF how = "now" THEN stopImmediatePropagation(objects, Top.obj)
                               ELSE stopPropagation(objects, Top.obj)
  /\ stops(how)
  /\ UNCHANGED <<leveraged, changes, bindings, triggered, focus, stack>>

return(result) ==
  /\ Running("handler")
  /\ objects' = answered(objects, Top.obj, result)
  /\ stack' = Front(stack)
  /\ IF result = "false" THEN stops("stop") ELSE UNCHANGED history
  /\ UNCHANGED <<leveraged, changes, bindings, triggered, focus>>

returnTrue ==
  /\ Calling({"true"})
  /\ objects' = answered(objects, Top.obj, "true") /\ stack' = Passed
  /\ UNCHANGED <<leveraged, changes, bindings, triggered, focus, history>>

dispatched ==
  /\ Running("dispatch") /\ ~goesOn /\ popped
  /\ UNCHANGED <<leveraged, changes, bindings, triggered, focus, history>>

-----------------------------------------------------------------------------
(* The stub at the head of the handlers of a focus.                        *)

\* A focus that is triggered calls the browser's method, to be handled when the
\* browser's event comes of it.
stubTriggered ==
  /\ Calling({"stub"}) /\ objects[Top.obj].isTrigger /\ saved.is # "args"
  /\ saved' = Saved("args", Top.obj, "none")
  /\ method(Append(Passed, Controller(Top.obj, "method", active, ThisCall)), objects, Top.node)
  /\ UNCHANGED <<leveraged, changes, bindings, triggered>>

\* The focus is under way, or its event never came: the handlers are called.
stubUnderWay ==
  /\ Calling({"stub"}) /\ objects[Top.obj].isTrigger /\ saved.is = "args"
  /\ objects' = stopPropagation(objects, Top.obj) /\ stack' = Passed
  /\ UNCHANGED <<leveraged, changes, bindings, triggered, focus, history>>

\* The event of the browser's is here: the focus that was triggered is triggered again.
stubArrived ==
  /\ Calling({"stub"}) /\ ~objects[Top.obj].isTrigger /\ saved.is = "args"
  /\ objects' = [objects EXCEPT ![saved.obj] = EventObject(TRUE, 0)]
  /\ stack' = Passed \o <<Controller(Top.obj, "again", FALSE, ThisCall),
                          Trigger(saved.obj, Top.node, FALSE, ThisCall)>>
  /\ UNCHANGED <<leveraged, changes, bindings, triggered, focus, history>>

stubIdle ==
  /\ Calling({"stub"}) /\ ~objects[Top.obj].isTrigger /\ saved.is # "args"
  /\ stack' = Passed
  /\ UNCHANGED <<leveraged, changes, bindings, triggered, focus, objects, history>>

\* Mutant of methodReturned: the event is taken to come, though the input had the focus.
methodReturned_wait ==
  /\ Phase("controller", "method")
  /\ saved' = IF saved # Saved("args", Top.obj, "none") \/ Top.sync
              THEN Saved("no", 0, "none") ELSE saved
  /\ objects' = preventDefault(stopImmediatePropagation(objects, Top.obj), Top.obj)
  /\ stack' = Front(stack)
  /\ UNCHANGED <<leveraged, changes, bindings, triggered, active, late, history>>

\* The method has returned.  If the event came, or is to come, the handlers after the stub are not called; if the
\* input had the focus, they are.
methodReturned ==
  /\ Phase("controller", "method")
  /\ LET came == saved # Saved("args", Top.obj, "none") IN
     /\ saved' = IF came \/ Top.sync THEN Saved("no", 0, "none") ELSE saved
     /\ objects' = IF came \/ ~Top.sync
                   THEN answered(preventDefault(stopImmediatePropagation(objects, Top.obj), Top.obj),
                                 Top.obj, saved.result)
                   ELSE objects
  /\ stack' = Front(stack)
  /\ UNCHANGED <<leveraged, changes, bindings, triggered, active, late, history>>

triggeredAgain ==
  /\ Phase("controller", "again")
  /\ saved' = Saved("value", 0, objects[Top.again].result)
  /\ objects' = stopImmediatePropagation(objects, Top.obj)
  /\ stack' = Front(stack)
  /\ UNCHANGED <<leveraged, changes, bindings, triggered, active, late, history>>

-----------------------------------------------------------------------------

Next ==
  \/ \E n \in Elements :
       \/ \E i \in Ids, f \in Fns, s \in 0..Depth, o \in BOOLEAN :
            on(n, [id |-> i, fn |-> f, sel |-> s, once |-> o])
       \/ \E f \in Fns : off(n, f)
       \/ offAll(n)
       \/ \E only \in BOOLEAN : trigger(n, only)
       \/ Arrive(n)
  \/ Blur
  \/ visit \/ listener \/ pathEnd \/ tail \/ tailEnd \/ over
  \/ call \/ returnTrue \/ dispatched
  \/ \E how \in {"stop", "now"} : stop(how)
  \/ \E result \in {"none", "false"} : return(result)
  \/ stubTriggered \/ stubUnderWay \/ stubArrived \/ stubIdle
  \/ methodReturned \/ triggeredAgain

Spec == Init /\ [][Next]_vars

-----------------------------------------------------------------------------
(* Properties. *)

\* The browser's listener is on an element exactly as long as there are handlers, and the
\* delegated ones come first, as many as are counted, whatever is bound and unbound in
\* the handlers of an event (add, remove): otherwise an element is deaf, or handles
\* the events of others.
ListsAreKept ==
  \A n \in Elements :
    /\ n \in listening <=> events[n].list # <<>>
    /\ \A h \in ToSet(Delegated(n)) : h.sel # 0
    /\ \A h \in ToSet(Own(n)) : h.sel = 0

\* No handler is called twice for one event, though trigger calls the handlers and the
\* browser's method, whose event comes to the same handlers (jQuery.event.triggered; in
\* a focus, the stub).
HandledOnce ==
  \A c \in DOMAIN history : \A i, j \in DOMAIN history[c].log :
    history[c].log[i].id = history[c].log[j].id => i = j

\* An event that a handler has stopped reaches no other element, and none at all when it
\* is stopped at once, though each element's handlers have an object of their own of the
\* browser's event (stopPropagation, stopImmediatePropagation).
StoppedIsStopped ==
  \A c \in DOMAIN history : \A i, j \in DOMAIN history[c].log :
    LET first == history[c].log[i]  second == history[c].log[j] IN
    i < j => /\ first.stops # "now"
             /\ first.stops = "stop" => <<second.node, second.elem>> = <<first.node, first.elem>>

\* Every handler that is bound when an event begins, and still when it is over, has been
\* called for it, unless one has stopped it; so has it for a focus that is triggered,
\* unless the browser has not given it, or has it come late.
NoneMissed ==
  \A i \in DOMAIN stack :
    LET this == history[stack[i].call] IN
    /\ stack[i].kind \in {"trigger", "native"} /\ stack[i].phase = "over"
    /\ i = 1 \/ stack[i - 1].call # stack[i].call
    /\ \A j \in DOMAIN this.log : this.log[j].stops = "no"
    => \A h \in this.due : h.id \in BoundIds => \E j \in DOMAIN this.log : this.log[j].id = h.id
=============================================================================
