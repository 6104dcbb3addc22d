---------------------------------- MODULE Fx ----------------------------------
(***************************************************************************)
(* The effects of jQuery: the date picker fades in and out with them.      *)
(* Each element has a queue of requests, whose head says that one is in    *)
(* progress; the animations of all the elements are in one list of timers, *)
(* which each frame of the browser goes through, while the animations that *)
(* end are taken out of it and those that follow them are put in.          *)
(*                                                                         *)
(* Modelled are fadeIn, fadeOut, stop and finish, whose animations change  *)
(* the opacity of the element; the element's own opacity is kept in its    *)
(* data (fxshow) as long as a fade has not come to its end.  show and hide *)
(* without a duration change the element at once, whatever is going on,    *)
(* and promise waits for the queues of elements to run dry.                *)
(***************************************************************************)
EXTENDS Naturals, SequencesExt, FiniteSets

CONSTANTS
  Elements,
  MaxRequests, \* bound: how often fadeIn and fadeOut are called
  Nothing

Fades == {"show", "hide"}
Opacities == {"own", "part"}

ASSUME FxAssumption ==
  MaxRequests \in Nat /\ Nothing \notin Elements \union Fades \union Opacities

VARIABLES
  element,   \* of each element: its queue, its style and its data
  timers,    \* jQuery.timers, in order
  running,   \* is a frame of the browser awaited, or under way?
  cursor,    \* where the frame under way is in timers, or 0
  requests,  \* how many there were
  awaited    \* the elements whose queues a promise waits for

vars == <<element, timers, running, cursor, requests, awaited>>

\* hooks: has it the hooks that are fired when its queue is empty?  last and halted are
\* history: what was asked for last, and whether a fade was stopped half-way.
ElementState ==
  [queue : Seq(Fades \union {"inprogress"}), hooks : BOOLEAN, shown : BOOLEAN,
   opacity : Opacities, fxshow : Opacities \union {Nothing}, last : Fades \union {Nothing}, halted : BOOLEAN]

\* tween: is there anything to animate?  elem is Nothing when the animation has been
\* brought to its end by finish and is still in the list.
Animations ==
  [elem : Elements \union {Nothing}, fade : Fades, tween : BOOLEAN, own : Opacities]

\* What each variable may be: the cursor stays within the list of timers or just behind it.
TypeOK ==
  /\ element \in [Elements -> ElementState]
  /\ timers \in Seq(Animations)
  /\ running \in BOOLEAN
  /\ cursor \in 0..(Len(timers) + 1)
  /\ requests \in 0..MaxRequests
  /\ awaited \subseteq Elements

Init ==
  /\ element \in [Elements -> [queue : {<<>>}, hooks : {FALSE}, shown : BOOLEAN,
                               opacity : {"own"}, fxshow : {Nothing}, last : {Nothing}, halted : {FALSE}]]
  /\ timers = <<>> /\ running = FALSE /\ cursor = 0 /\ requests = 0
  /\ awaited = {}

Resting == cursor = 0

-----------------------------------------------------------------------------
(* An animation, from what is known of its element to what becomes of it. *)

\* A hidden element is not hidden, nor a shown one shown, unless a fade has left it
\* half-way.
Animates(el, fade) ==
  IF fade = "show" THEN ~el.shown \/ el.fxshow # Nothing ELSE el.shown

\* Mutant of Own: the opacity is read again when a fade begins.
Own_again(el) == el.opacity

\* The opacity to come back to.
Own(el) == IF el.fxshow = Nothing THEN el.opacity ELSE el.fxshow

Animation(e, el, fade) ==
  [elem |-> e, fade |-> fade, tween |-> Animates(el, fade), own |-> Own(el)]

\* The style's display; whatever it was before, an element is shown as it was.
showHide(el, show) == [el EXCEPT !.shown = show]


\* The prefilter: the element whose fade begins; to fade out what is hidden changes
\* nothing.
begin(el, fade) ==
  LET begun == [el EXCEPT !.last = fade,
                          !.halted = @ /\ fade = "hide" /\ ~el.shown] IN
  IF Animates(el, fade) THEN showHide([begun EXCEPT !.fxshow = Own(el)], TRUE) ELSE begun

\* Mutant of end: an element that has faded in is shown.
end_shown(el, a) ==
  IF a.tween
    THEN showHide([el EXCEPT !.opacity = a.own, !.fxshow = Nothing], a.fade = "show")
    ELSE el

\* The element whose fade has come to its end: what was hidden while it faded in is
\* not shown again.
end(el, a) ==
  IF a.tween
    THEN showHide([el EXCEPT !.opacity = a.own, !.fxshow = Nothing],
                  a.fade = "show" /\ el.shown)
    ELSE el

-----------------------------------------------------------------------------
(* The queue. *)

\* Mutant of fireEmpty: the hooks are fired when the last request begins.
fireEmpty_early(e, waiting) ==
  awaited' = IF Len(waiting) <= 1 THEN awaited \ {e} ELSE awaited

\* The hooks of a queue are fired when nothing is left in it.
fireEmpty(e, waiting) ==
  awaited' = IF waiting = <<>> THEN awaited \ {e} ELSE awaited

\* Mutant of dequeue: what is in progress is not marked.
dequeue_unmarked(e, el, ts, at) ==
  /\ cursor' = at /\ running' = TRUE /\ UNCHANGED awaited
  /\ IF el.queue = <<>>
       THEN element' = [element EXCEPT ![e] = el] /\ timers' = ts
       ELSE /\ element' = [element EXCEPT ![e] =
                 begin([el EXCEPT !.queue = Tail(@)], Head(el.queue))]
            /\ timers' = Append(ts, Animation(e, el, Head(el.queue)))

\* The requests of a queue that have not begun; the mark stands at its head.
Waiting(queue) == IF queue # <<>> /\ Head(queue) = "inprogress" THEN Tail(queue) ELSE queue

\* dequeue: the first request begins.  el and ts are what the caller has made of the
\* element e and of the timers, and at is where it leaves the cursor; the first timer
\* also starts the frames, with one at once.
dequeue(e, el, ts, at) ==
  LET waiting == Waiting(el.queue)
      next == Head(waiting) IN
  /\ fireEmpty(e, waiting)
  /\ IF waiting = <<>>
       THEN /\ element' = [element EXCEPT ![e] =
                 [el EXCEPT !.queue = <<>>, !.hooks = FALSE]]
            /\ timers' = ts /\ cursor' = at
            /\ UNCHANGED running
       ELSE /\ element' = [element EXCEPT ![e] =
                 begin([el EXCEPT !.queue = <<"inprogress">> \o Tail(waiting)], next)]
            /\ timers' = Append(ts, Animation(e, el, next))
            /\ cursor' = IF running THEN at ELSE 1
            /\ running' = TRUE

\* queue: the request is added, and begins if nothing is in progress.
queue(e, fade) ==
  LET el == [element[e] EXCEPT !.queue = Append(@, fade), !.hooks = TRUE] IN
  IF Head(el.queue) = "inprogress"
    THEN element' = [element EXCEPT ![e] = el] /\ UNCHANGED <<timers, running, cursor, awaited>>
    ELSE dequeue(e, el, timers, 0)

\* fadeIn and fadeOut.
animate(e, fade) ==
  /\ Resting /\ requests < MaxRequests
  /\ requests' = requests + 1
  /\ queue(e, fade)

Live(e) == {k \in DOMAIN timers : timers[k].elem = e}
Without(e) ==
  IF Live(e) = {} THEN timers ELSE RemoveAt(timers, CHOOSE k \in Live(e) : TRUE)

\* The animation of e, if there is one, is brought to its end, or left where it is.
stopped(e, toEnd) ==
  IF Live(e) = {} THEN element[e]
  ELSE LET a == timers[CHOOSE k \in Live(e) : TRUE] IN
       IF toEnd THEN end(element[e], a) ELSE [element[e] EXCEPT !.halted = TRUE]

\* stop: the next request begins, unless the queue was cleared.
stop(e, clear, toEnd) ==
  /\ Resting
  /\ LET el == stopped(e, toEnd) IN
     dequeue(e, [el EXCEPT !.queue = IF clear THEN <<>> ELSE @], Without(e), 0)
  /\ UNCHANGED requests

\* The element after the requests of rest, each of which begins and ends at once.
over(e, el, rest) ==
  LET after[k \in 0..Len(rest)] ==
        IF k = 0 THEN el
        ELSE end(begin(after[k - 1], rest[k]), Animation(e, after[k - 1], rest[k]))
  IN  after[Len(rest)]

\* finish: so is every request after it, one by one.
finish(e) ==
  /\ Resting
  /\ LET rest == Waiting(element[e].queue) IN
     /\ element' = [element EXCEPT ![e] =
          over(e, [stopped(e, TRUE) EXCEPT !.queue = <<>>, !.hooks = FALSE], rest)]
     /\ awaited' = awaited \ {e}
     /\ timers' = Without(e) \o
          [k \in DOMAIN rest |-> [Animation(e, element[e], rest[k]) EXCEPT !.elem = Nothing]]
  /\ UNCHANGED <<running, cursor, requests>>

FadesOut(e) == \E k \in Live(e) : timers[k].tween /\ timers[k].fade = "hide"

\* show and hide.  An element that is fading out will be hidden all the same.
show(e) ==
  /\ Resting
  /\ element' = [element EXCEPT ![e] =
       [showHide(element[e], TRUE) EXCEPT !.last = IF FadesOut(e) THEN @ ELSE "show"]]
  /\ UNCHANGED <<timers, running, cursor, requests, awaited>>

hide(e) ==
  /\ Resting
  /\ element' = [element EXCEPT ![e] = [showHide(@, FALSE) EXCEPT !.last = "hide"]]
  /\ UNCHANGED <<timers, running, cursor, requests, awaited>>

\* promise: of the elements es, those that have hooks are waited for.
promise(es) ==
  /\ Resting /\ awaited = {}
  /\ awaited' = {e \in es : element[e].hooks}
  /\ UNCHANGED <<element, timers, running, cursor, requests>>

-----------------------------------------------------------------------------
(* The frames. *)

frame ==
  /\ Resting /\ running
  /\ cursor' = 1
  /\ UNCHANGED <<element, timers, running, requests, awaited>>

\* The animation at the cursor goes on,
step ==
  /\ cursor \in DOMAIN timers
  /\ LET a == timers[cursor] IN
     /\ a.elem # Nothing /\ a.tween
     /\ element' = [element EXCEPT ![a.elem].opacity = "part"]
  /\ cursor' = cursor + 1
  /\ UNCHANGED <<timers, running, requests, awaited>>

\* or it ends, and the next request of its element begins,
done ==
  /\ cursor \in DOMAIN timers
  /\ LET a == timers[cursor] IN
     /\ a.elem # Nothing
     /\ dequeue(a.elem, end(element[a.elem], a), RemoveAt(timers, cursor), cursor)
  /\ UNCHANGED requests

\* Mutant of gone: the cursor moves on although the list has closed up.
gone_past ==
  /\ cursor \in DOMAIN timers /\ timers[cursor].elem = Nothing
  /\ timers' = RemoveAt(timers, cursor)
  /\ cursor' = cursor + 1
  /\ UNCHANGED <<element, running, requests, awaited>>

\* or it has ended before.
gone ==
  /\ cursor \in DOMAIN timers /\ timers[cursor].elem = Nothing
  /\ timers' = RemoveAt(timers, cursor)
  /\ UNCHANGED <<element, running, cursor, requests, awaited>>

\* Mutant of frameEnd: there is no frame after this one.
frameEnd_last ==
  /\ cursor > Len(timers)
  /\ cursor' = 0 /\ running' = FALSE
  /\ UNCHANGED <<element, timers, requests, awaited>>

\* The end of the frame, and of the frames when no timer is left.
frameEnd ==
  /\ cursor > Len(timers)
  /\ cursor' = 0 /\ running' = (timers # <<>>)
  /\ UNCHANGED <<element, timers, requests, awaited>>

Next ==
  \/ \E e \in Elements, fade \in Fades : animate(e, fade)
  \/ \E e \in Elements, clear, toEnd \in BOOLEAN : stop(e, clear, toEnd)
  \/ \E e \in Elements : finish(e) \/ show(e) \/ hide(e)
  \/ \E es \in SUBSET Elements : promise(es)
  \/ frame \/ step \/ done \/ gone \/ frameEnd

\* The browser shows frame after frame, and no fade goes on for ever.
Fairness ==
  /\ WF_vars(frame \/ step \/ done \/ gone \/ frameEnd)
  /\ SF_vars(done)

Spec == Init /\ [][Next]_vars /\ Fairness

-----------------------------------------------------------------------------
(* Properties. *)

\* Between two calls of the library a queue is either empty or in progress with just
\* one animation, for which a frame is awaited; no queue waits for nothing, and
\* no two animations fight over an element.
NeverStuck ==
  Resting => \A e \in Elements :
    /\ element[e].queue = <<>> <=> Live(e) = {}
    /\ element[e].queue # <<>> =>
         Head(element[e].queue) = "inprogress" /\ running /\ Cardinality(Live(e)) = 1

\* However fades are interrupted and follow one another, the element's own opacity is
\* never lost: it has it, or comes back to it.
OwnOpacityKept ==
  Resting => \A e \in Elements : Own(element[e]) = "own"

\* An element with nothing in progress is as the fade that began last wanted it, or as
\* it was shown or hidden since, unless a fade was stopped half-way.
LastFadeWins ==
  \A e \in Elements :
    LET el == element[e] IN
    Resting /\ el.queue = <<>> /\ el.last # Nothing /\ ~el.halted =>
      el.shown = (el.last = "show") /\ el.opacity = "own" /\ el.fxshow = Nothing

\* A promise waits for the queues of its elements as long as they are in progress, and
\* not longer: however they are interrupted, it is not forgotten.
PromiseIsKept ==
  [][\A e \in awaited : e \in awaited' <=> element'[e].queue # <<>>]_vars

\* A queue that is in progress becomes empty in the end.
QueuesRunDry == \A e \in Elements : element[e].queue # <<>> ~> element[e].queue = <<>>
=============================================================================
