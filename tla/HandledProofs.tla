----------------------------- MODULE HandledProofs -----------------------------
(***************************************************************************)
(* For any elements, any bindings and any number of calls, whatever the    *)
(* handlers bind, unbind, trigger and stop, whatever focus is moved and    *)
(* however often the browser gives focus late: a call calls no handler     *)
(* twice, what a handler has stopped reaches no further element, and what  *)
(* is bound from its beginning to its end is called, unless one stops it.  *)
(*                                                                         *)
(* The types of EventsProofs say nothing of what a call is to do next.     *)
(* HInv says it: which frames may lie on which, where a dispatch's queue   *)
(* comes from and that nothing in it was called yet, that nothing bound    *)
(* further on an event's way was called yet, and that an object counts as  *)
(* stopped exactly when a handler of its call has stopped it.  NInv says   *)
(* that what was due for a call, and is bound, was called or is still to   *)
(* come: in the queue of a dispatch, or further on the event's way.        *)
(***************************************************************************)
EXTENDS EventsProofs

-----------------------------------------------------------------------------
(* What the calls under way have to do with what was done for their events. *)

\* Below the first frame and above the last one there is none.
NoFrame == [kind |-> "none"]
Lower(stk, i) == IF i = 1 THEN NoFrame ELSE stk[i - 1]
Upper(stk, i) == IF i = Len(stk) THEN NoFrame ELSE stk[i + 1]

\* The handlers of a list, without those of jQuery itself.
Bound(l) == {h \in ToSet(l.list) : h.id \in Ids}

\* The last element of an event's way.
LastOf(lev, f) == IF lev \/ f.only THEN f.node ELSE Depth

\* The handler bound as x was not called; no handler has stopped the event.
Unlogged(x, log) == \A i \in 1..Len(log) : log[i].id # x
Clean(log) == \A i \in 1..Len(log) : log[i].stops = "no"

\* g is what a call with the frame f may have begun: a dispatch its handlers and, in a
\* focus, what the stub does; a handler the events it triggers; an event the dispatch at an
\* element, and the browser's method; a controller, unless there was nothing to wait for,
\* the browser's event or the one that is triggered again.
Under(lev, os, f, g) ==
  \/ f.kind = "dispatch" /\ g.kind = "handler" /\ g.obj = f.obj
  \/ f.kind = "dispatch" /\ g.kind = "controller" /\ g.obj = f.obj /\ lev
  \/ f.kind = "handler" /\ g.kind = "trigger" /\ g.call > f.call
  \/ /\ Root(f) /\ f.phase = "path" /\ g.kind = "dispatch" /\ g.node = f.at - 1
     /\ os[g.obj].native = (IF f.kind = "native" THEN f.obj ELSE 0)
     /\ f.kind = "trigger" => g.obj = f.obj
  \/ f.kind = "trigger" /\ f.phase = "method" /\ g.kind = "native" /\ g.call = f.call
  \/ f.kind = "controller" /\ ~f.sync /\ Root(g) /\ g.call = f.call

Chain(lev, os, stk) == \A i \in 1..(Len(stk) - 1) : Under(lev, os, stk[i], stk[i + 1])

\* k is younger than the objects of the calls before c.
Fresh(stk, c, k) == \A i \in 1..Len(stk) : stk[i].call < c => stk[i].obj < k

\* Each call has objects of its own, younger than those of the calls before it.
FreshCalls(stk) == \A j \in 1..Len(stk) : Fresh(stk, stk[j].call, stk[j].obj)

\* While triggered is set, the browser's method is called by the event on top or the one
\* below it.
InMethod(f) == f.kind = "trigger" /\ f.phase = "method"
Methods(tr, stk) ==
  /\ \A i \in 1..Len(stk) : InMethod(stk[i]) => tr /\ i >= Len(stk) - 1
  /\ tr => \E i \in 1..Len(stk) : InMethod(stk[i])

\* An event that is given to the handlers on its way: one that the browser's method
\* for a trigger brings is not.
OnWay(lw, f) == Root(f) /\ f.phase = "path" /\ lw.kind # "trigger"

\* A dispatch that has still to call what is in its queue.
Live(os, f, up) ==
  /\ f.kind = "dispatch"
  /\ up.kind = "none" => ~os[f.obj].immediate
  /\ up.kind = "controller" => up.sync

\* Of the queue, no handler is there twice, and what is still bound is bound there.
QueueFits(lev, es, f) ==
  /\ Once(f.queue)
  /\ \A q \in 1..Len(f.queue), m \in Elements : \A h \in Bound(es[m]) :
       h.id = f.queue[q].h.id => m = f.node /\ h = f.queue[q].h
  /\ lev => \A q \in 1..Len(f.queue) : f.queue[q].elem = 1

\* What has stopped the event was at this element, and has not stopped it at once.
StoppedHere(f, stopped, log) ==
  \A e \in 1..Len(log) : /\ log[e].stops # "now"
                         /\ log[e].stops = "stop" => stopped /\ log[e].node = f.node /\ log[e].elem = f.elem

\* What a dispatch has still to call was not called.
DispatchFits(lev, es, os, f, up, log) ==
  /\ QueueFits(lev, es, f)
  /\ Live(os, f, up) =>
       /\ \A q \in 1..Len(f.queue) : Unlogged(f.queue[q].h.id, log)
       /\ ~os[f.obj].immediate => StoppedHere(f, os[f.obj].stopped, log)
       /\ os[f.obj].stopped /\ Clean(log) => \A q \in 1..Len(f.queue) : f.queue[q].elem = f.elem
  /\ up.kind = "handler" /\ os[f.obj].immediate => ~Clean(log)

\* What is bound further on an event's way was not called, and the event is stopped exactly
\* if one has stopped it.
RootFits(lev, es, os, lw, f, c) ==
  /\ f.kind = "trigger" => os[f.obj].native = 0
  /\ OnWay(lw, f) =>
       /\ \A m \in f.at..LastOf(lev, f) : \A h \in Bound(es[m]) : Unlogged(h.id, c.log)
       /\ f.at <= LastOf(lev, f) => (os[f.obj].stopped <=> ~Clean(c.log))
       /\ \A d \in c.due : d.sel = 0 \/ d.sel >= f.node

\* The handler that runs is the last one that was called.
HandlerFits(lw, log) ==
  /\ log # <<>>
  /\ log[Len(log)].node = lw.node /\ log[Len(log)].elem = lw.elem

FrameFits(lev, es, os, lw, f, up, c) ==
  /\ f.kind = "dispatch" => DispatchFits(lev, es, os, f, up, c.log)
  /\ Root(f) => RootFits(lev, es, os, lw, f, c)
  /\ f.kind = "handler" => HandlerFits(lw, c.log)

FramesFit(lev, es, os, stk, hist) ==
  \A i \in 1..Len(stk) :
    FrameFits(lev, es, os, Lower(stk, i), stk[i], Upper(stk, i), hist[stk[i].call])

\* Nothing was called for an event whose way begins, or whose stub is still to be called or
\* has just found that the input has the focus; and the focus that the event of the browser's
\* answers is younger than the objects of other calls.
Begins(lev, sv, os, stk, lw, f, log) ==
  /\ lev /\ OnWay(lw, f) /\ f.at = 1 => log = <<>>
  /\ ~Stubless(f) => log = <<>>
  /\ f.kind = "controller" /\ f.sync =>
       log = <<>> /\ sv = Saved("args", f.obj, "none") /\ f.phase = "method"
  /\ (lev /\ OnWay(lw, f) /\ f.kind = "native" /\ f.at = 1) \/ (~Stubless(f) /\ ~os[f.obj].isTrigger)
       => (sv.is = "args" => Fresh(stk, f.call, sv.obj))

Beginning(lev, sv, os, stk, hist) ==
  stk # <<>> =>
    LET m == Len(stk) IN Begins(lev, sv, os, stk, Lower(stk, m), stk[m], hist[stk[m].call].log)

\* No binding is listed twice, neither at one element nor at two.
BindingsFit(lev, es, sv) ==
  /\ \A n \in Elements : Distinct(es[n].list)
  /\ \A n, m \in Elements : \A g \in Bound(es[n]), h \in Bound(es[m]) : g.id = h.id => n = m
  /\ \A n \in Elements : \A h \in Bound(es[n]) : h.sel < n
  /\ lev /\ sv.is = "unset" => es[1].list = <<>>

\* What was called was called once, and not after the event was stopped.
LogFits(log) ==
  /\ \A i, j \in 1..Len(log) : log[i].id = log[j].id => i = j
  /\ \A i, j \in 1..Len(log) :
       i < j => /\ log[i].stops # "now"
                /\ log[i].stops = "stop" => log[j].node = log[i].node /\ log[j].elem = log[i].elem

\* The second inductive invariant, of what the variables may be.
Held(lev, es, sv, tr, os, stk, hist) ==
  /\ BindingsFit(lev, es, sv)
  /\ Chain(lev, os, stk) /\ FreshCalls(stk) /\ Methods(tr, stk)
  /\ Beginning(lev, sv, os, stk, hist)
  /\ FramesFit(lev, es, os, stk, hist)
  /\ \A c \in 1..Len(hist) : LogFits(hist[c].log)

HInv == Held(leveraged, events, saved, triggered, objects, stack, history)

-----------------------------------------------------------------------------
(* The frames that a step leaves. *)

\* What the handlers are told of an event is the same.
Same(a, b) == b.native = a.native /\ b.stopped = a.stopped /\ b.immediate = a.immediate

\* A frame that has nothing more to call for its event.
Idle(lev, f, up) ==
  /\ f.kind # "handler"
  /\ f.kind = "dispatch" => up.kind = "controller" /\ ~up.sync
  /\ Root(f) => f.phase # "path" \/ f.at > LastOf(lev, f)

\* The last element of a way is an element.
LEMMA LastElement ==
  ASSUME NEW lev, NEW f \in Frames, Root(f)
  PROVE  LastOf(lev, f) \in Elements /\ LastOf(lev, f) \in Nat /\ f.node \in 1..LastOf(lev, f)
<1>1. f.node \in Elements
  BY FrameFields
<1>. QED
  BY <1>1, EventsAssumption DEF LastOf, Elements

\* What stays of a frame when the frames above it go on.
LEMMA FrameStays ==
  ASSUME NEW lev, NEW es, NEW os, NEW new, NEW lw, NEW f, NEW up, NEW top, NEW c, NEW d,
         f \in Frames, FrameFits(lev, es, os, lw, f, up, c), new[f.obj].native = os[f.obj].native,
         top = up \/ f.kind # "dispatch", d.due \subseteq c.due,
         Idle(lev, f, up) \/ (Same(os[f.obj], new[f.obj]) /\ d.log = c.log)
  PROVE  FrameFits(lev, es, new, lw, f, top, d)
<1>1. CASE f.kind = "dispatch"
  <2>1. DispatchFits(lev, es, os, f, up, c.log) /\ top = up /\ f.kind # "handler" /\ ~Root(f)
    BY <1>1 DEF FrameFits, Root
  <2>2. CASE Idle(lev, f, up)
    <3>1. ~Live(new, f, up) /\ up.kind = "controller"
      BY <1>1, <2>2 DEF Idle, Live
    <3>2. DispatchFits(lev, es, new, f, up, d.log)
      BY <2>1, <3>1 DEF DispatchFits
    <3>. QED
      BY <1>1, <2>1, <3>2 DEF FrameFits
  <2>3. CASE Same(os[f.obj], new[f.obj]) /\ d.log = c.log
    <3>1. DispatchFits(lev, es, new, f, up, d.log)
      BY <2>1, <2>3 DEF DispatchFits, Same, Live
    <3>. QED
      BY <1>1, <2>1, <3>1 DEF FrameFits
  <2>. QED
    BY <2>2, <2>3
<1>2. CASE Root(f)
  <2>1. RootFits(lev, es, os, lw, f, c) /\ f.kind # "handler" /\ f.kind # "dispatch"
    BY <1>2 DEF FrameFits, Root
  <2>2. f.at \in Nat /\ LastOf(lev, f) \in Nat
    BY <1>2, FrameFields, LastElement, EventsAssumption
  <2>3. CASE Idle(lev, f, up)
    <3>1. OnWay(lw, f) => ~(f.at <= LastOf(lev, f)) /\ f.at..LastOf(lev, f) = {}
      BY <1>2, <2>2, <2>3 DEF Idle, OnWay
    <3>2. RootFits(lev, es, new, lw, f, d)
      BY <2>1, <3>1 DEF RootFits
    <3>. QED
      BY <1>2, <2>1, <3>2 DEF FrameFits
  <2>4. CASE Same(os[f.obj], new[f.obj]) /\ d.log = c.log
    <3>1. RootFits(lev, es, new, lw, f, d)
      BY <2>1, <2>4 DEF RootFits, Same
    <3>. QED
      BY <1>2, <2>1, <3>1 DEF FrameFits
  <2>. QED
    BY <2>3, <2>4
<1>3. CASE f.kind = "handler"
  <2>1. ~Root(f) /\ f.kind # "dispatch" /\ d.log = c.log /\ HandlerFits(lw, c.log)
    BY <1>3 DEF FrameFits, Root, Idle
  <2>. QED
    BY <1>3, <2>1 DEF FrameFits
<1>4. CASE f.kind = "controller"
  BY <1>4 DEF FrameFits, Root
<1>. QED
  BY <1>1, <1>2, <1>3, <1>4, FrameFields DEF Kinds, Root

\* What is under an event of the same call has nothing more to call.
LEMMA IdleBelow ==
  ASSUME NEW lev \in BOOLEAN, NEW stk, NEW os, NEW n, StackFits(lev, stk, os, n),
         Chain(lev, os, stk),
         NEW r \in 1..Len(stk), Root(stk[r]), NEW i \in 1..(r - 1), stk[i].call = stk[r].call
  PROVE  Idle(lev, stk[i], stk[i + 1])
<1>. DEFINE m == Len(stk)
<1>1. m \in Nat /\ \A j \in 1..m : stk[j] \in Frames /\ stk[j].call \in Nat /\ Fits(lev, stk[j], os)
  BY LenProperties, ElementOfSeq, FrameFields DEF StackFits
<1>2. \A j \in 1..(m - 1) : Under(lev, os, stk[j], stk[j + 1])
  BY DEF Chain
<1>3. \A j, k \in 1..m : j <= k => stk[j].call <= stk[k].call
  BY DEF StackFits, Linked
<1>4. r \in Nat /\ i \in 1..m /\ i + 1 \in 1..m /\ i + 1 <= r /\ i \in 1..(m - 1)
  BY <1>1
<1>5. ASSUME NEW j \in i..(r - 1) PROVE stk[j].kind # "handler"
  <2>1. j \in 1..(m - 1) /\ j \in 1..m /\ j + 1 \in 1..m /\ j + 1 <= r /\ i <= j
    BY <1>1, <1>4
  <2>2. SUFFICES ASSUME stk[j].kind = "handler" PROVE FALSE
    OBVIOUS
  <2>3. stk[j + 1].call > stk[j].call
    BY <1>2, <2>1, <2>2 DEF Under, Root
  <2>4. stk[i].call <= stk[j].call /\ stk[j + 1].call <= stk[r].call
    BY <1>3, <1>4, <2>1
  <2>. QED
    BY <1>1, <1>4, <2>1, <2>3, <2>4
<1>6. ASSUME NEW j \in i..(r - 1), stk[j].kind = "dispatch"
      PROVE  /\ stk[j + 1].kind = "controller" /\ ~stk[j + 1].sync /\ lev
  <2>1. j \in 1..(m - 1) /\ j \in 1..m /\ j + 1 \in 1..m /\ j + 1 <= r
    BY <1>1, <1>4
  <2>2. Under(lev, os, stk[j], stk[j + 1])
    BY <1>2, <2>1
  <2>3. stk[j + 1].kind \in {"handler", "controller"} /\ (stk[j + 1].kind = "controller" => lev)
    BY <1>6, <2>2 DEF Under, Root
  <2>4. j + 1 # r
    BY <2>3 DEF Root
  <2>5. j + 1 \in i..(r - 1) /\ j + 1 \in 1..(m - 1)
    BY <1>1, <1>4, <2>1, <2>4
  <2>6. stk[j + 1].kind = "controller"
    BY <1>5, <2>3, <2>5
  <2>7. Under(lev, os, stk[j + 1], stk[(j + 1) + 1])
    BY <1>2, <2>5
  <2>8. ~stk[j + 1].sync
    BY <2>6, <2>7 DEF Under, Root
  <2>. QED
    BY <2>3, <2>6, <2>8
<1>7. stk[i].kind # "handler"
  BY <1>4, <1>5
<1>8. ASSUME stk[i].kind = "dispatch" PROVE stk[i + 1].kind = "controller" /\ ~stk[i + 1].sync
  BY <1>4, <1>6, <1>8
<1>9. ASSUME Root(stk[i]), stk[i].phase = "path" PROVE stk[i].at > LastOf(lev, stk[i])
  <2>1. Under(lev, os, stk[i], stk[i + 1])
    BY <1>2, <1>4
  <2>2. stk[i + 1].kind = "dispatch" /\ stk[i + 1].node = stk[i].at - 1
    BY <1>9, <2>1 DEF Under, Root
  <2>3. i + 1 # r
    BY <2>2 DEF Root
  <2>4. i + 1 \in i..(r - 1)
    BY <1>1, <1>4, <2>3
  <2>5. lev /\ stk[i + 1].node = 1
    BY <1>1, <1>4, <1>6, <2>2, <2>4 DEF Fits
  <2>6. stk[i].node = 1 /\ stk[i].at \in Nat
    BY <1>1, <1>4, <1>9, <2>5, FrameFields, EventsAssumption DEF Fits
  <2>. QED
    BY <2>2, <2>5, <2>6 DEF LastOf
<1>. QED
  BY <1>7, <1>8, <1>9 DEF Idle

\* What a step of a call leaves of the frames below its topmost event, r, and of the calls
\* before it.
Below(os, s, hist, r, new, t, later) ==
  /\ Len(t) >= r /\ t[r].kind = s[r].kind
  /\ \A i \in 1..(r - 1) : t[i] = s[i] /\ new[s[i].obj].native = os[s[i].obj].native
  /\ \A i \in 1..(r - 1) : s[i].call < s[r].call =>
       Same(os[s[i].obj], new[s[i].obj]) /\ later[s[i].call] = hist[s[i].call]
  /\ later[s[r].call].due \subseteq hist[s[r].call].due

\* The frames below the topmost event of a call, when the frames from that on go on.
LEMMA LowerStay ==
  ASSUME NEW lev \in BOOLEAN, NEW es, NEW os, NEW s, NEW hist, NEW n, StackFits(lev, s, os, n),
         Chain(lev, os, s), FramesFit(lev, es, os, s, hist),
         NEW r \in 1..Len(s), Root(s[r]),
         NEW new, NEW t, NEW later, Len(t) \in Nat, Below(os, s, hist, r, new, t, later)
  PROVE  \A i \in 1..(r - 1) :
           FrameFits(lev, es, new, Lower(t, i), t[i], Upper(t, i), later[t[i].call])
<1>. SUFFICES ASSUME NEW i \in 1..(r - 1)
              PROVE  FrameFits(lev, es, new, Lower(t, i), t[i], Upper(t, i), later[t[i].call])
  OBVIOUS
<1>. DEFINE m == Len(s)
<1>0. /\ Len(t) >= r /\ t[r].kind = s[r].kind
      /\ \A j \in 1..(r - 1) : t[j] = s[j] /\ new[s[j].obj].native = os[s[j].obj].native
      /\ \A j \in 1..(r - 1) : s[j].call < s[r].call =>
           Same(os[s[j].obj], new[s[j].obj]) /\ later[s[j].call] = hist[s[j].call]
      /\ later[s[r].call].due \subseteq hist[s[r].call].due
  BY DEF Below
<1>1. m \in Nat /\ \A j \in 1..m : s[j] \in Frames /\ s[j].call \in Nat
  BY LenProperties, ElementOfSeq, FrameFields DEF StackFits
<1>2. /\ i \in 1..m /\ i \in 1..(m - 1) /\ i + 1 \in 1..m /\ i # m /\ i # Len(t) /\ i <= r
      /\ (i = 1 \/ i - 1 \in 1..(r - 1))
      /\ (i + 1 = r \/ i + 1 \in 1..(r - 1))
  BY <1>0, <1>1
<1>3. t[i] = s[i] /\ Lower(t, i) = Lower(s, i) /\ Upper(s, i) = s[i + 1] /\ Upper(t, i) = t[i + 1]
  BY <1>0, <1>2 DEF Lower, Upper
<1>4. Under(lev, os, s[i], s[i + 1])
  BY <1>2 DEF Chain
<1>5. Upper(t, i) = Upper(s, i) \/ s[i].kind # "dispatch"
  <2>1. CASE i + 1 = r
    BY <1>0, <1>3, <1>4, <2>1 DEF Under, Root
  <2>2. CASE i + 1 \in 1..(r - 1)
    BY <1>0, <1>3, <2>2
  <2>. QED
    BY <1>2, <2>1, <2>2
<1>6. FrameFits(lev, es, os, Lower(s, i), s[i], Upper(s, i), hist[s[i].call])
  BY <1>2 DEF FramesFit
<1>7. s[i].call <= s[r].call
  BY <1>2 DEF StackFits, Linked
<1>8. \/ Idle(lev, s[i], Upper(s, i))
      \/ Same(os[s[i].obj], new[s[i].obj]) /\ later[s[i].call].log = hist[s[i].call].log
  <2>1. CASE s[i].call = s[r].call
    BY <1>3, <2>1, IdleBelow
  <2>2. CASE s[i].call < s[r].call
    BY <1>0, <2>2
  <2>. QED
    BY <1>1, <1>2, <1>7, <2>1, <2>2
<1>9. later[s[i].call].due \subseteq hist[s[i].call].due
  <2>1. CASE s[i].call = s[r].call
    BY <1>0, <2>1
  <2>2. CASE s[i].call < s[r].call
    BY <1>0, <2>2
  <2>. QED
    BY <1>1, <1>2, <1>7, <2>1, <2>2
<1>10. new[s[i].obj].native = os[s[i].obj].native /\ s[i] \in Frames
  BY <1>0, <1>1, <1>2
<1>. HIDE DEF m
<1>11. FrameFits(lev, es, new, Lower(s, i), s[i], Upper(t, i), later[s[i].call])
  BY <1>5, <1>6, <1>8, <1>9, <1>10, FrameStays
<1>. QED
  BY <1>3, <1>11

\* What the events of a call may come to, while its frames from the topmost event on go on:
\* what there is of the other calls is left as it is.
LEMMA Resumed ==
  ASSUME NEW lev \in BOOLEAN, NEW es, NEW os, NEW s, NEW hist, NEW n, StackFits(lev, s, os, n),
         Chain(lev, os, s), FreshCalls(s), FramesFit(lev, es, os, s, hist),
         NEW r \in 1..Len(s), Root(s[r]),
         NEW new, NEW t, NEW later, t \in Seq(Frames), Below(os, s, hist, r, new, t, later),
         \A j \in r..Len(t) : t[j].call = s[r].call /\ Fresh(s, s[r].call, t[j].obj),
         \A i \in r..(Len(t) - 1) : Under(lev, new, t[i], t[i + 1]),
         \A i \in r..Len(t) :
           FrameFits(lev, es, new, Lower(t, i), t[i], Upper(t, i), later[t[i].call])
  PROVE  Chain(lev, new, t) /\ FreshCalls(t) /\ FramesFit(lev, es, new, t, later)
<1>. DEFINE m == Len(s)
            k == Len(t)
<1>0. /\ k >= r /\ t[r].kind = s[r].kind
      /\ \A i \in 1..(r - 1) : t[i] = s[i] /\ new[s[i].obj].native = os[s[i].obj].native
  BY DEF Below
<1>1. /\ m \in Nat /\ \A j \in 1..m : s[j] \in Frames /\ s[j].call \in Nat /\ s[j].obj \in Nat
      /\ k \in Nat /\ \A j \in 1..k : t[j] \in Frames /\ t[j].call \in Nat
  BY LenProperties, ElementOfSeq, FrameFields DEF StackFits
<1>2. /\ r \in Nat /\ \A i \in 1..k : i \in 1..(r - 1) \/ i \in r..k
      /\ \A i \in 1..(r - 1) : i \in 1..m /\ i \in 1..k /\ i \in 1..(m - 1) /\ i <= r
                               /\ (i + 1 \in 1..(r - 1) \/ i + 1 = r)
      /\ r \in r..k
  BY <1>0, <1>1
<1>3. Len(t) \in Nat
  BY <1>1
<1>4. \A i \in 1..(r - 1) :
        FrameFits(lev, es, new, Lower(t, i), t[i], Upper(t, i), later[t[i].call])
  BY <1>3, LowerStay
<1>5. FramesFit(lev, es, new, t, later)
  BY <1>2, <1>4 DEF FramesFit
<1>6. Chain(lev, new, t)
  <2>1. SUFFICES ASSUME NEW i \in 1..(k - 1) PROVE Under(lev, new, t[i], t[i + 1])
    BY DEF Chain
  <2>2. CASE i \in r..k
    <3>1. i \in r..(k - 1)
      BY <1>1, <2>2
    <3>. QED
      BY <3>1
  <2>3. CASE i \in 1..(r - 1)
    <3>1. Under(lev, os, s[i], s[i + 1]) /\ t[i] = s[i]
      BY <1>0, <1>2, <2>3 DEF Chain
    <3>2. CASE i + 1 \in 1..(r - 1)
      <4>1. t[i + 1] = s[i + 1] /\ new[s[i + 1].obj].native = os[s[i + 1].obj].native
        BY <1>0, <3>2
      <4>. QED
        BY <3>1, <4>1 DEF Under
    <3>3. CASE i + 1 = r
      <4>1. t[r].kind = s[r].kind /\ t[r].call = s[r].call /\ Root(t[r])
        BY <1>0, <1>2 DEF Root
      <4>. QED
        BY <3>1, <3>3, <4>1 DEF Under, Root
    <3>. QED
      BY <1>2, <2>3, <3>2, <3>3
  <2>4. i \in 1..k
    BY <1>1
  <2>. QED
    BY <1>2, <2>2, <2>3, <2>4
<1>7. FreshCalls(t)
  <2>1. SUFFICES ASSUME NEW j \in 1..k, NEW i \in 1..k, t[i].call < t[j].call
                 PROVE  t[i].obj < t[j].obj
    BY DEF FreshCalls, Fresh
  <2>2. \A x \in 1..(r - 1) : t[x] = s[x] /\ s[x].call <= s[r].call
    BY <1>0, <1>2 DEF StackFits, Linked
  <2>3. \A x \in r..k : t[x].call = s[r].call
    OBVIOUS
  <2>4. i \in 1..(r - 1)
    <3>1. SUFFICES ASSUME i \in r..k PROVE FALSE
      BY <1>2
    <3>2. t[i].call = s[r].call
      BY <2>3, <3>1
    <3>3. t[j].call <= s[r].call
      <4>1. CASE j \in 1..(r - 1)
        BY <2>2, <4>1
      <4>2. CASE j \in r..k
        BY <1>1, <2>3, <4>2
      <4>. QED
        BY <1>2, <4>1, <4>2
    <3>. QED
      BY <1>1, <2>1, <3>2, <3>3
  <2>5. CASE j \in 1..(r - 1)
    <3>1. Fresh(s, s[j].call, s[j].obj) /\ t[j] = s[j] /\ t[i] = s[i] /\ i \in 1..m
      BY <1>0, <1>2, <2>4, <2>5 DEF FreshCalls
    <3>. QED
      BY <2>1, <3>1 DEF Fresh
  <2>6. CASE j \in r..k
    <3>1. Fresh(s, s[r].call, t[j].obj) /\ t[j].call = s[r].call /\ t[i] = s[i] /\ i \in 1..m
      BY <1>0, <1>2, <2>4, <2>6
    <3>. QED
      BY <2>1, <3>1 DEF Fresh
  <2>. QED
    BY <1>2, <2>5, <2>6
<1>. QED
  BY <1>5, <1>6, <1>7

-----------------------------------------------------------------------------
(* What the event objects tell the handlers. *)

\* Only the event k, and the browser's event behind it, may have been stopped.
Touches(os, new, k) ==
  /\ Alike(os, new)
  /\ \A o \in 1..Len(os) : o \notin {k, os[k].native} => Same(os[o], new[o])

\* None has been, the event k has been, or it has been at once.
Quiet(os, new) == Alike(os, new) /\ \A o \in 1..Len(os) : Same(os[o], new[o])
Stopping(os, new, k) ==
  /\ Touches(os, new, k) /\ new[k].stopped = TRUE /\ new[k].immediate = os[k].immediate
  /\ os[k].native \in 1..Len(os) => new[os[k].native].stopped = TRUE
Ending(os, new, k) ==
  /\ Touches(os, new, k) /\ new[k].stopped = TRUE /\ new[k].immediate = TRUE
  /\ os[k].native \in 1..Len(os) => new[os[k].native].stopped = TRUE

\* One after the other.
LEMMA Together ==
  ASSUME NEW a, NEW b, NEW c, NEW k
  PROVE  /\ Quiet(a, b) /\ Quiet(b, c) => Quiet(a, c)
         /\ k \in 1..Len(a) /\ Quiet(a, b) /\ Stopping(b, c, k) => Stopping(a, c, k)
         /\ k \in 1..Len(a) /\ Ending(a, b, k) /\ Quiet(b, c) => Ending(a, c, k)
         /\ k \in 1..Len(a) /\ Ending(a, b, k) /\ Stopping(b, c, k) => Ending(a, c, k)
         /\ Quiet(a, b) => Touches(a, b, k)
<1>1. Quiet(a, b) /\ Quiet(b, c) => Quiet(a, c)
  BY DEF Quiet, Alike, Same
<1>2. ASSUME k \in 1..Len(a), Quiet(a, b), Stopping(b, c, k) PROVE Stopping(a, c, k)
  <2>1. Alike(a, c) /\ b[k].native = a[k].native /\ Len(b) = Len(a) /\ b[k].immediate = a[k].immediate
    BY <1>2 DEF Quiet, Stopping, Touches, Alike, Same
  <2>2. \A o \in 1..Len(a) : o \notin {k, a[k].native} => Same(a[o], c[o])
    BY <1>2, <2>1 DEF Quiet, Stopping, Touches, Same
  <2>. QED
    BY <1>2, <2>1, <2>2 DEF Stopping, Touches
<1>3. ASSUME k \in 1..Len(a), Ending(a, b, k), Quiet(b, c) PROVE Ending(a, c, k)
  <2>1. Alike(a, c) /\ Len(b) = Len(a)
    BY <1>3 DEF Quiet, Ending, Touches, Alike
  <2>2. \A o \in 1..Len(a) : o \notin {k, a[k].native} => Same(a[o], c[o])
    BY <1>3, <2>1 DEF Quiet, Ending, Touches, Same
  <2>3. \A o \in 1..Len(a) : c[o].stopped = b[o].stopped /\ c[o].immediate = b[o].immediate
    BY <1>3, <2>1 DEF Quiet, Same
  <2>. QED
    BY <1>3, <2>1, <2>2, <2>3 DEF Ending, Touches
<1>4. ASSUME k \in 1..Len(a), Ending(a, b, k), Stopping(b, c, k) PROVE Ending(a, c, k)
  <2>1. Alike(a, c) /\ b[k].native = a[k].native /\ Len(b) = Len(a)
    BY <1>4 DEF Ending, Stopping, Touches, Alike
  <2>2. \A o \in 1..Len(a) : o \notin {k, a[k].native} => Same(a[o], c[o])
    BY <1>4, <2>1 DEF Ending, Stopping, Touches, Same
  <2>. QED
    BY <1>4, <2>1, <2>2 DEF Ending, Stopping, Touches
<1>5. Quiet(a, b) => Touches(a, b, k)
  BY DEF Quiet, Touches
<1>. QED
  BY <1>1, <1>2, <1>3, <1>4, <1>5

\* What stopPropagation, stopImmediatePropagation and preventDefault do to an event.
LEMMA HappensTo ==
  ASSUME NEW os \in Seq(EventObjects), NEW k \in 1..Len(os), os[k].native < k
  PROVE  /\ Stopping(os, stopPropagation(os, k), k) /\ Quiet(os, preventDefault(os, k))
         /\ Ending(os, stopImmediatePropagation(os, k), k)
<1>1. /\ Len(os) \in Nat /\ DOMAIN os = 1..Len(os) /\ \A i \in 1..Len(os) : os[i] \in EventObjects
      /\ k \in Nat /\ os[k].native \in Nat
  <2>1. /\ Len(os) \in Nat /\ DOMAIN os = 1..Len(os) /\ \A i \in 1..Len(os) : os[i] \in EventObjects
    BY LenProperties, ElementOfSeq
  <2>2. os[k].native \in Nat
    BY <2>1 DEF EventObjects
  <2>. QED
    BY <2>1, <2>2
<1>2. \A o \in EventObjects :
        /\ [o EXCEPT !.stopped = TRUE].stopped = TRUE
        /\ [o EXCEPT !.stopped = TRUE].immediate = o.immediate
        /\ [o EXCEPT !.immediate = TRUE].stopped = o.stopped
        /\ [o EXCEPT !.immediate = TRUE].immediate = TRUE
        /\ [o EXCEPT !.immediate = TRUE].native = o.native
        /\ Same(o, [o EXCEPT !.prevented = TRUE])
        /\ Same(o, o)
  BY DEF EventObjects, Same
<1>3. /\ Alike(os, stopPropagation(os, k)) /\ Alike(os, preventDefault(os, k))
  BY <1>1, HappensAlike
<1>4. Stopping(os, stopPropagation(os, k), k)
  <2>. DEFINE new == stopPropagation(os, k)
  <2>1. \A i \in 1..Len(os) :
          new[i] = IF i \in {k, os[k].native} THEN [os[i] EXCEPT !.stopped = TRUE] ELSE os[i]
    BY <1>1 DEF stopPropagation
  <2>2. Alike(os, new)
    BY <1>3
  <2>. HIDE DEF new
  <2>3. Touches(os, new, k)
    BY <1>1, <1>2, <2>1, <2>2 DEF Touches
  <2>4. new[k].stopped = TRUE /\ new[k].immediate = os[k].immediate
    <3>1. os[k] \in EventObjects /\ new[k] = [os[k] EXCEPT !.stopped = TRUE]
      BY <1>1, <2>1
    <3>. QED
      BY <1>2, <3>1
  <2>5. ASSUME os[k].native \in 1..Len(os) PROVE new[os[k].native].stopped = TRUE
    <3>. DEFINE j == os[k].native
    <3>1. os[j] \in EventObjects /\ new[j] = [os[j] EXCEPT !.stopped = TRUE]
      BY <1>1, <2>1, <2>5
    <3>. HIDE DEF j
    <3>2. new[j].stopped = TRUE
      BY <1>2, <3>1
    <3>. QED
      BY <3>2 DEF j
  <2>6. Stopping(os, new, k)
    BY <2>3, <2>4, <2>5 DEF Stopping
  <2>. QED
    BY <2>6 DEF new
<1>5. Quiet(os, preventDefault(os, k))
  <2>. DEFINE new == preventDefault(os, k)
  <2>1. \A i \in 1..Len(os) :
          new[i] = IF i \in {k, os[k].native} THEN [os[i] EXCEPT !.prevented = TRUE] ELSE os[i]
    BY <1>1 DEF preventDefault
  <2>2. Alike(os, new)
    BY <1>3
  <2>. HIDE DEF new
  <2>3. ASSUME NEW i \in 1..Len(os) PROVE Same(os[i], new[i])
    <3>1. os[i] \in EventObjects /\ (new[i] = [os[i] EXCEPT !.prevented = TRUE] \/ new[i] = os[i])
      BY <1>1, <2>1
    <3>. QED
      BY <1>2, <3>1
  <2>4. Quiet(os, new)
    BY <2>2, <2>3 DEF Quiet
  <2>. QED
    BY <2>4 DEF new
<1>6. Ending(os, stopImmediatePropagation(os, k), k)
  <2>. DEFINE a == stopPropagation(os, k)
              new == stopImmediatePropagation(os, k)
  <2>1. Stopping(os, a, k) /\ a \in Seq(EventObjects) /\ Len(a) = Len(os) /\ a[k].native = os[k].native
    BY <1>3, <1>4 DEF Alike
  <2>2. "none" \in Results /\ k \in Nat
    BY <1>1 DEF Results
  <2>3. Alike(os, new)
    BY <2>2, AnsweredAlike
  <2>4. a[k] \in EventObjects
    BY <2>1, ElementOfSeq
  <2>5. new = [a EXCEPT ![k] = [a[k] EXCEPT !.immediate = TRUE]]
    BY DEF stopImmediatePropagation
  <2>6. [a[k] EXCEPT !.immediate = TRUE] \in EventObjects
    BY <2>4 DEF EventObjects
  <2>. HIDE DEF a, new
  <2>7. \A i \in 1..Len(os) : new[i] = IF i = k THEN [a[k] EXCEPT !.immediate = TRUE] ELSE a[i]
    BY <2>1, <2>5, <2>6, ExceptSeq
  <2>8. Touches(os, new, k)
    BY <2>1, <2>3, <2>7 DEF Touches, Stopping
  <2>9. new[k].stopped = TRUE /\ new[k].immediate = TRUE
    BY <1>2, <2>1, <2>4, <2>7 DEF Stopping
  <2>10. os[k].native \in 1..Len(os) => new[os[k].native].stopped = TRUE
    BY <1>1, <2>1, <2>7 DEF Stopping
  <2>11. Ending(os, new, k)
    BY <2>8, <2>9, <2>10 DEF Ending
  <2>. QED
    BY <2>11 DEF new
<1>. QED
  BY <1>4, <1>5, <1>6

\* What a handler's answer does, and the end of a method that was waited for.
LEMMA AnsweredTo ==
  ASSUME NEW os \in Seq(EventObjects), NEW k \in 1..Len(os), os[k].native < k, NEW r \in Results
  PROVE  /\ IF r = "false" THEN Stopping(os, answered(os, k, r), k) ELSE Quiet(os, answered(os, k, r))
         /\ Ending(os, answered(preventDefault(stopImmediatePropagation(os, k), k), k, r), k)
<1>1. ASSUME NEW o \in Seq(EventObjects), k \in 1..Len(o), o[k].native < k
      PROVE  IF r = "false" THEN Stopping(o, answered(o, k, r), k) ELSE Quiet(o, answered(o, k, r))
  <2>. DEFINE e == [o[k] EXCEPT !.result = IF r = "none" THEN @ ELSE r]
              noted == [o EXCEPT ![k] = e]
  <2>1. o[k] \in EventObjects /\ \A i \in 1..Len(o) : o[i] \in EventObjects
    BY <1>1, ElementOfSeq
  <2>2. e \in EventObjects /\ Same(o[k], e) /\ e.isTrigger = o[k].isTrigger
    <3>1. e = [o[k] EXCEPT !.result = IF r = "none" THEN o[k].result ELSE r]
      OBVIOUS
    <3>2. \A x \in Results : LET z == [o[k] EXCEPT !.result = x] IN
            z \in EventObjects /\ Same(o[k], z) /\ z.isTrigger = o[k].isTrigger
      BY <2>1 DEF EventObjects, Same
    <3>3. (IF r = "none" THEN o[k].result ELSE r) \in Results
      BY <2>1 DEF EventObjects
    <3>. QED
      BY <3>1, <3>2, <3>3
  <2>3. answered(o, k, r) = IF r = "false" THEN stopPropagation(preventDefault(noted, k), k) ELSE noted
    BY DEF answered
  <2>. HIDE DEF e
  <2>4. /\ noted \in Seq(EventObjects) /\ Len(noted) = Len(o)
        /\ \A i \in 1..Len(o) : noted[i] = IF i = k THEN e ELSE o[i]
    BY <1>1, <2>2, ExceptSeq
  <2>. HIDE DEF noted
  <2>5. Quiet(o, noted)
    <3>1. \A i \in 1..Len(o) : Same(o[i], noted[i]) /\ noted[i].isTrigger = o[i].isTrigger
      BY <2>1, <2>2, <2>4 DEF Same
    <3>2. Alike(o, noted)
      BY <2>4, <3>1 DEF Alike, Same
    <3>. QED
      BY <3>1, <3>2 DEF Quiet
  <2>6. noted[k].native < k /\ k \in 1..Len(noted)
    BY <1>1, <2>2, <2>4 DEF Same
  <2>7. Quiet(noted, preventDefault(noted, k))
    BY <2>4, <2>6, HappensTo
  <2>. DEFINE p == preventDefault(noted, k)
  <2>8. Quiet(o, p) /\ p \in Seq(EventObjects) /\ k \in 1..Len(p) /\ p[k].native < k
    <3>1. Quiet(o, p)
      BY <2>5, <2>7, Together
    <3>2. Alike(noted, p)
      BY <2>7 DEF Quiet
    <3>. QED
      BY <2>6, <3>1, <3>2 DEF Alike
  <2>. HIDE DEF p
  <2>9. Stopping(p, stopPropagation(p, k), k)
    BY <2>8, HappensTo
  <2>10. Stopping(o, stopPropagation(p, k), k)
    BY <1>1, <2>8, <2>9, Together
  <2>11. r = "false" => Stopping(o, answered(o, k, r), k)
    BY <2>3, <2>10 DEF p
  <2>12. r # "false" => Quiet(o, answered(o, k, r))
    BY <2>3, <2>5
  <2>. QED
    BY <2>11, <2>12
<1>2. Ending(os, answered(preventDefault(stopImmediatePropagation(os, k), k), k, r), k)
  <2>. DEFINE a == stopImmediatePropagation(os, k)
              b == preventDefault(a, k)
              c == answered(b, k, r)
  <2>1. Ending(os, a, k)
    BY HappensTo
  <2>2. a \in Seq(EventObjects) /\ k \in 1..Len(a) /\ a[k].native < k
    BY <2>1 DEF Ending, Touches, Alike
  <2>. HIDE DEF a
  <2>3. Quiet(a, b)
    BY <2>2, HappensTo
  <2>4. b \in Seq(EventObjects) /\ k \in 1..Len(b) /\ b[k].native < k
    BY <2>2, <2>3 DEF Quiet, Alike
  <2>5. Ending(os, b, k)
    BY <2>1, <2>3, Together
  <2>. HIDE DEF b
  <2>6. IF r = "false" THEN Stopping(b, c, k) ELSE Quiet(b, c)
    BY <1>1, <2>4
  <2>. HIDE DEF c
  <2>7. Ending(os, c, k)
    BY <2>5, <2>6, Together
  <2>. QED
    BY <2>7 DEF a, b, c
<1>. QED
  BY <1>1, <1>2

-----------------------------------------------------------------------------
(* What is bound when handlers bind and unbind. *)

\* What is listed twice when one is added was listed twice.
LEMMA AddedDistinct ==
  ASSUME NEW l \in Lists, NEW h \in Listed, Sorted(l), Distinct(l.list),
         \A i \in 1..Len(l.list) : l.list[i].id # h.id
  PROVE  Distinct(added(l, h).list)
<1>. DEFINE s == added(l, h).list
            n == Len(l.list)
<1>0. l.list \in Seq(Listed) /\ l.delegateCount \in Nat /\ n \in Nat /\ Len(s) = n + 1
  BY LenProperties, AddedSorted DEF Lists, Listed
<1>1. CASE h.sel = 0
  <2>1. s = Append(l.list, h)
    BY <1>1 DEF added, Lists
  <2>2. /\ \A j \in 1..n : s[j] = l.list[j]
        /\ s[n + 1] = h
    BY <1>0, <2>1, AppendProperties
  <2>. HIDE DEF s
  <2>3. \A i \in 1..(n + 1) : i = n + 1 \/ i \in 1..n
    BY <1>0
  <2>4. ASSUME NEW i \in 1..(n + 1), NEW j \in 1..(n + 1), s[i].id = s[j].id PROVE i = j
    BY <2>2, <2>3, <2>4 DEF Distinct
  <2>. QED
    BY <1>0, <2>4 DEF Distinct, s
<1>2. CASE h.sel # 0
  <2>. DEFINE c == l.delegateCount
              from(i) == IF i <= c THEN i ELSE i - 1
  <2>1. c <= n
    BY DEF Sorted
  <2>2. /\ \A m \in 1..c : s[m] = l.list[m]
        /\ s[c + 1] = h
        /\ \A m \in (c + 2)..(n + 1) : s[m] = l.list[m - 1]
    BY <1>2, AddedDelegated
  <2>. HIDE DEF s
  <2>3. ASSUME NEW i \in 1..(n + 1), i # c + 1
        PROVE  from(i) \in 1..n /\ s[i] = l.list[from(i)]
    <3>1. i \in 1..c \/ i \in (c + 2)..(n + 1)
      BY <1>0, <2>1, <2>3
    <3>. QED
      BY <1>0, <2>1, <2>2, <3>1
  <2>4. \A i, j \in 1..(n + 1) : i # c + 1 /\ j # c + 1 /\ from(i) = from(j) => i = j
    BY <1>0, <2>1
  <2>. HIDE DEF from
  <2>5. ASSUME NEW i \in 1..(n + 1), NEW j \in 1..(n + 1), s[i].id = s[j].id PROVE i = j
    <3>1. CASE i = c + 1 /\ j # c + 1
      BY <2>2, <2>3, <2>5, <3>1
    <3>2. CASE i # c + 1 /\ j = c + 1
      BY <2>2, <2>3, <2>5, <3>2
    <3>3. CASE i # c + 1 /\ j # c + 1
      <4>1. l.list[from(i)].id = l.list[from(j)].id /\ from(i) \in 1..n /\ from(j) \in 1..n
        BY <2>3, <2>5, <3>3
      <4>2. from(i) = from(j)
        BY <4>1 DEF Distinct
      <4>. QED
        BY <2>4, <3>3, <4>2
    <3>. QED
      BY <3>1, <3>2, <3>3
  <2>. QED
    BY <1>0, <2>5 DEF Distinct, s
<1>. QED
  BY <1>1, <1>2

\* What is bound is as it was, but what is bound with one of the ids.
Fewer(es, new, ids) ==
  \A m \in Elements : \A g \in Bound(new[m]) : g \in Bound(es[m]) \/ g.id \in ids

\* What is bound at an element is in its list.
LEMMA BoundIndex ==
  ASSUME NEW l \in Lists, NEW h
  PROVE  h \in Bound(l) <=> h.id \in Ids /\ \E i \in 1..Len(l.list) : h = l.list[i]
<1>1. DOMAIN l.list = 1..Len(l.list)
  BY LenProperties DEF Lists
<1>. QED
  BY <1>1 DEF Bound, ToSet

\* The frames have what they have for what is bound now.
LEMMA FewerFit ==
  ASSUME NEW lev \in BOOLEAN, NEW es, NEW os, NEW stk, NEW hist, NEW n, StackFits(lev, stk, os, n),
         NEW new, NEW ids, Fewer(es, new, ids), FramesFit(lev, es, os, stk, hist),
         \A i \in 1..Len(stk) : stk[i].kind = "dispatch" =>
           \A q \in 1..Len(stk[i].queue) : stk[i].queue[q].h.id \notin ids,
         \A i \in 1..Len(stk) : \A x \in ids : Unlogged(x, hist[stk[i].call].log)
  PROVE  FramesFit(lev, new, os, stk, hist)
<1>. SUFFICES ASSUME NEW i \in 1..Len(stk)
              PROVE  FrameFits(lev, new, os, Lower(stk, i), stk[i], Upper(stk, i), hist[stk[i].call])
  BY DEF FramesFit
<1>. DEFINE f == stk[i]
            lw == Lower(stk, i)
            up == Upper(stk, i)
            c == hist[f.call]
<1>1. FrameFits(lev, es, os, lw, f, up, c) /\ f \in Frames
  BY ElementOfSeq DEF FramesFit, StackFits
<1>2. /\ f.kind = "dispatch" => \A q \in 1..Len(f.queue) : f.queue[q].h.id \notin ids
      /\ \A x \in ids : Unlogged(x, c.log)
  OBVIOUS
<1>. HIDE DEF f, lw, up, c
<1>3. f.kind = "dispatch" => DispatchFits(lev, new, os, f, up, c.log)
  <2>. SUFFICES ASSUME f.kind = "dispatch" PROVE DispatchFits(lev, new, os, f, up, c.log)
    OBVIOUS
  <2>1. DispatchFits(lev, es, os, f, up, c.log)
    BY <1>1 DEF FrameFits
  <2>2. QueueFits(lev, new, f)
    BY <1>2, <2>1 DEF DispatchFits, QueueFits, Fewer
  <2>. QED
    BY <2>1, <2>2 DEF DispatchFits
<1>4. Root(f) => RootFits(lev, new, os, lw, f, c)
  <2>. SUFFICES ASSUME Root(f) PROVE RootFits(lev, new, os, lw, f, c)
    OBVIOUS
  <2>1. RootFits(lev, es, os, lw, f, c)
    BY <1>1 DEF FrameFits
  <2>2. f.at \in 1..(Depth + 1) /\ LastOf(lev, f) \in Elements
    BY <1>1, FrameFields, LastElement
  <2>3. \A m \in f.at..LastOf(lev, f) : m \in Elements
    BY <2>2, EventsAssumption DEF Elements
  <2>4. OnWay(lw, f) =>
          \A m \in f.at..LastOf(lev, f) : \A h \in Bound(new[m]) : Unlogged(h.id, c.log)
    BY <1>2, <2>1, <2>3 DEF RootFits, Fewer
  <2>. QED
    BY <2>1, <2>4 DEF RootFits
<1>5. f.kind = "handler" => HandlerFits(lw, c.log)
  BY <1>1 DEF FrameFits
<1>6. FrameFits(lev, new, os, lw, f, up, c)
  BY <1>3, <1>4, <1>5 DEF FrameFits
<1>. QED
  BY <1>6 DEF f, lw, up, c

\* remove.
LEMMA RemoveFits ==
  ASSUME NEW n \in Elements, NEW gone, remove(n, gone), leveraged \in BOOLEAN,
         ListsFit(leveraged, events, listening), BindingsFit(leveraged, events, saved)
  PROVE  BindingsFit(leveraged, events', saved) /\ Fewer(events, events', {})
<1>. DEFINE l == events[n]
            new == removed(l, gone)
<1>1. l \in Lists /\ Sorted(l) /\ Distinct(l.list)
  BY DEF ListsFit, ListFits, BindingsFit
<1>2. events' = [events EXCEPT ![n] = new] /\ events \in [Elements -> Lists]
  BY DEF remove, ListsFit
<1>. HIDE DEF l
<1>3. Left(new, l, gone, Len(l.list))
  BY <1>1, RemovedLeft
<1>. HIDE DEF new
<1>4. /\ new \in Lists /\ Distinct(new.list) /\ Len(new.list) \in Nat /\ Len(l.list) \in Nat
      /\ \A i \in 1..Len(new.list) : \E j \in i..Len(l.list) : new.list[i] = l.list[j]
  BY <1>1, <1>3, LenProperties DEF Left, Lists
<1>5. \A i \in 1..Len(new.list) : \E j \in 1..Len(l.list) : new.list[i] = l.list[j]
  <2>1. \A i \in 1..Len(new.list) : i..Len(l.list) \subseteq 1..Len(l.list)
    BY <1>4
  <2>. QED
    BY <1>4, <2>1
<1>6. ASSUME NEW h \in Bound(new) PROVE h \in Bound(l)
  <2>1. h.id \in Ids /\ \E i \in 1..Len(new.list) : h = new.list[i]
    BY <1>4, BoundIndex
  <2>2. \E j \in 1..Len(l.list) : h = l.list[j]
    BY <1>5, <2>1
  <2>. QED
    BY <1>1, <2>1, <2>2, BoundIndex
<1>7. events'[n] = new /\ \A m \in Elements : m # n => events'[m] = events[m]
  BY <1>2
<1>8. \A m \in Elements : Bound(events'[m]) \subseteq Bound(events[m])
  BY <1>6, <1>7 DEF l
<1>9. \A m \in Elements : Distinct(events'[m].list)
  BY <1>4, <1>7 DEF BindingsFit
<1>10. leveraged /\ saved.is = "unset" => events'[1].list = <<>>
  <2>1. 1 \in Elements
    BY EventsAssumption DEF Elements
  <2>2. CASE n = 1
    <3>1. SUFFICES ASSUME leveraged, saved.is = "unset" PROVE new.list = <<>>
      BY <1>7, <2>2
    <3>2. l.list = <<>>
      BY <2>2, <3>1 DEF BindingsFit, l
    <3>3. Len(new.list) = 0
      <4>1. \A i \in 1..Len(new.list) : FALSE
        BY <1>5, <3>2
      <4>. QED
        BY <1>4, <4>1
    <3>. QED
      BY <1>4, <3>3, EmptySeq DEF Lists
  <2>3. CASE n # 1
    BY <1>7, <2>1, <2>3 DEF BindingsFit
  <2>. QED
    BY <2>2, <2>3
<1>. QED
  BY <1>8, <1>9, <1>10 DEF BindingsFit, Fewer

\* add.
LEMMA AddFits ==
  ASSUME NEW n \in Elements, NEW h \in Listed, add(n, h), h # Stub,
         leveraged => h.sel = 0 /\ n = 1, h.sel < n,
         leveraged \in BOOLEAN, ListsFit(leveraged, events, listening),
         BindingsFit(leveraged, events, saved), h.id # "stub",
         \A m \in Elements : \A g \in Bound(events[m]) : g.id # h.id,
         \A i \in 1..Len(events[n].list) : events[n].list[i].id # h.id
  PROVE  BindingsFit(leveraged, events', saved') /\ Fewer(events, events', {h.id} \intersect Ids)
<1>. DEFINE l == events[n]
            start == IF leveraged /\ l.list = <<>> THEN added(l, Stub) ELSE l
            new == added(start, h)
<1>1. l \in Lists /\ Sorted(l) /\ Distinct(l.list)
  BY DEF ListsFit, ListFits, BindingsFit
<1>2. Stub \in Listed /\ Stub.id = "stub" /\ "stub" \notin Ids
  BY EventsAssumption DEF Listed, Stub
<1>3. events' = [events EXCEPT ![n] = new] /\ events \in [Elements -> Lists]
  BY DEF add, ListsFit
<1>4. \A i \in 1..Len(l.list) : l.list[i].id # h.id
  OBVIOUS
<1>. HIDE DEF l
<1>5. /\ start \in Lists /\ Sorted(start) /\ Distinct(start.list)
      /\ \A i \in 1..Len(start.list) :
           start.list[i] = Stub \/ \E j \in 1..Len(l.list) : start.list[i] = l.list[j]
  <2>1. CASE leveraged /\ l.list = <<>>
    <3>1. \A i \in 1..Len(l.list) : l.list[i].id # Stub.id
      BY <2>1
    <3>2. added(l, Stub) \in Lists /\ Sorted(added(l, Stub)) /\ Distinct(added(l, Stub).list)
      BY <1>1, <1>2, <3>1, AddedSorted, AddedDistinct
    <3>3. \A i \in 1..Len(added(l, Stub).list) :
           added(l, Stub).list[i] = Stub \/ \E j \in 1..Len(l.list) : added(l, Stub).list[i] = l.list[j]
      BY <1>1, <1>2, AddedListed
    <3>. QED
      BY <2>1, <3>2, <3>3
  <2>2. CASE ~(leveraged /\ l.list = <<>>)
    BY <1>1, <2>2
  <2>. QED
    BY <2>1, <2>2
<1>. HIDE DEF start
<1>6. \A i \in 1..Len(start.list) : start.list[i].id # h.id
  BY <1>2, <1>4, <1>5
<1>7. new \in Lists /\ Distinct(new.list)
  BY <1>5, <1>6, AddedSorted, AddedDistinct
<1>8. \A i \in 1..Len(new.list) :
        new.list[i] = h \/ new.list[i] = Stub \/ \E j \in 1..Len(l.list) : new.list[i] = l.list[j]
  <2>1. \A i \in 1..Len(new.list) :
          new.list[i] = h \/ \E j \in 1..Len(start.list) : new.list[i] = start.list[j]
    BY <1>5, AddedListed
  <2>. QED
    BY <1>5, <2>1
<1>. HIDE DEF new
<1>9. \A g \in Bound(new) : g = h \/ g \in Bound(l)
  BY <1>1, <1>2, <1>7, <1>8, BoundIndex
<1>10. events'[n] = new /\ \A m \in Elements : m # n => events'[m] = events[m]
  BY <1>3
<1>11. \A m \in Elements : \A g \in Bound(events'[m]) : (g = h /\ m = n) \/ g \in Bound(events[m])
  BY <1>9, <1>10 DEF l
<1>12. \A m \in Elements : \A g \in Bound(events'[m]) : g.id \in Ids
  BY DEF Bound
<1>13. Fewer(events, events', {h.id} \intersect Ids)
  BY <1>11, <1>12 DEF Fewer
<1>14. \A m \in Elements : Distinct(events'[m].list)
  BY <1>7, <1>10 DEF BindingsFit
<1>15. ASSUME NEW a \in Elements, NEW b \in Elements, NEW g \in Bound(events'[a]),
              NEW k \in Bound(events'[b]), g.id = k.id
       PROVE  a = b
  <2>1. (g = h /\ a = n) \/ g \in Bound(events[a])
    BY <1>11
  <2>2. (k = h /\ b = n) \/ k \in Bound(events[b])
    BY <1>11
  <2>. QED
    BY <1>15, <2>1, <2>2 DEF BindingsFit
<1>16. \A m \in Elements : \A g \in Bound(events'[m]) : g.sel < m
  BY <1>11 DEF BindingsFit
<1>17. leveraged => saved'.is # "unset"
  <2>1. SUFFICES ASSUME leveraged PROVE saved'.is # "unset"
    OBVIOUS
  <2>2. CASE l.list = <<>>
    BY <2>1, <2>2 DEF add, l, Saved
  <2>3. CASE l.list # <<>>
    <3>1. saved' = saved /\ n = 1
      BY <2>1, <2>3 DEF add, l
    <3>. QED
      BY <2>1, <2>3, <3>1 DEF BindingsFit, l
  <2>. QED
    BY <2>2, <2>3
<1>. QED
  BY <1>13, <1>14, <1>15, <1>16, <1>17 DEF BindingsFit

-----------------------------------------------------------------------------
(* What runs, and what is below it. *)

\* The objects there were are what they were, but for two of them.
Leaves(os, new, k, b) ==
  \A o \in 1..Len(os) :
    new[o].native = os[o].native /\ (o \notin {k, b} => Same(os[o], new[o]))

\* What a step of the last call leaves of the calls before it.
LEMMA BelowLeft ==
  ASSUME NEW lev, NEW os, NEW s, NEW hist, NEW n, StackFits(lev, s, os, n), FreshCalls(s),
         NEW r \in 1..Len(s), Root(s[r]), s[r].call = n,
         NEW x, Fresh(s, n, x), NEW new, Leaves(os, new, x, s[r].obj),
         NEW t, Len(t) >= r, t[r].kind = s[r].kind, \A i \in 1..(r - 1) : t[i] = s[i],
         NEW later, \A c \in 1..(n - 1) : later[c] = hist[c], later[n].due \subseteq hist[n].due
  PROVE  Below(os, s, hist, r, new, t, later)
<1>. DEFINE m == Len(s)
<1>1. /\ m \in Nat /\ n \in Nat
      /\ \A j \in 1..m : s[j] \in Frames /\ s[j].call \in Nat /\ s[j].obj \in Nat /\ Fits(lev, s[j], os)
  BY LenProperties, ElementOfSeq, FrameFields DEF StackFits
<1>2. r \in Nat /\ \A i \in 1..(r - 1) : i \in 1..m /\ i <= r
  BY <1>1
<1>4. ASSUME NEW i \in 1..(r - 1)
      PROVE  /\ new[s[i].obj].native = os[s[i].obj].native
             /\ s[i].call < s[r].call =>
                  Same(os[s[i].obj], new[s[i].obj]) /\ later[s[i].call] = hist[s[i].call]
  <2>1. i \in 1..m /\ s[i].obj \in 1..Len(os) /\ s[i].call \in Nat /\ s[i].call >= 1 /\ s[i].obj \in Nat
    BY <1>1, <1>2 DEF Fits
  <2>2. ASSUME s[i].call < s[r].call
        PROVE  Same(os[s[i].obj], new[s[i].obj]) /\ later[s[i].call] = hist[s[i].call]
    <3>1. s[i].obj < x /\ s[i].obj < s[r].obj
      BY <2>1, <2>2 DEF FreshCalls, Fresh
    <3>2. s[i].obj # x /\ s[i].obj # s[r].obj
      BY <2>1, <3>1
    <3>3. s[i].call \in 1..(n - 1)
      BY <1>1, <2>1, <2>2
    <3>. QED
      BY <2>1, <3>2, <3>3 DEF Leaves
  <2>. QED
    BY <2>1, <2>2 DEF Leaves
<1>. QED
  BY <1>4 DEF Below

\* What happens to an event leaves the others.
LEMMA TouchesLeaves ==
  ASSUME NEW os, NEW new, NEW k, Touches(os, new, k), NEW b, os[k].native \in {0, b}
  PROVE  Leaves(os, new, k, b)
  BY DEF Touches, Alike, Leaves

\* Nor does one more object change them.
LEMMA AppendLeaves ==
  ASSUME NEW os \in Seq(EventObjects), NEW o \in EventObjects, NEW k, NEW b
  PROVE  /\ Leaves(os, Append(os, o), k, b) /\ Len(os) \in Nat
         /\ Append(os, o)[Len(os) + 1] = o /\ \A i \in 1..Len(os) : Append(os, o)[i] = os[i]
<1>1. \A i \in 1..Len(os) : Append(os, o)[i] = os[i]
  BY AppendProperties, LenProperties
<1>2. Append(os, o)[Len(os) + 1] = o
  BY AppendProperties
<1>. QED
  BY <1>1, <1>2, LenProperties DEF Leaves, Same

\* The frame that runs, and the one below it.
LEMMA TopHeld ==
  ASSUME IInv, HInv, stack # <<>>
  PROVE  LET m == Len(stack) IN
         /\ FrameFits(leveraged, events, objects, Lower(stack, m), Top, NoFrame, history[ThisCall])
         /\ Begins(leveraged, saved, objects, stack, Lower(stack, m), Top, history[ThisCall].log)
         /\ m \in Nat /\ m >= 1 /\ Top = stack[m] /\ Top.call = ThisCall /\ Top \in Frames
         /\ m > 1 => Under(leveraged, objects, stack[m - 1], Top) /\ Lower(stack, m) = stack[m - 1]
                     /\ stack[m - 1] \in Frames
         /\ m = 1 => Lower(stack, m) = NoFrame /\ Root(Top)
         /\ ThisCall \in 1..Len(history) /\ LogFits(history[ThisCall].log)
         /\ history[ThisCall] \in Calls /\ ThisCall = Len(history)
<1>. DEFINE m == Len(stack)
<1>1. /\ m \in Nat /\ m >= 1 /\ Top = stack[m] /\ Top.call = ThisCall /\ Top \in Frames
      /\ ThisCall \in 1..Len(history) /\ (~Root(Top) => m > 1)
  BY OnTop
<1>2. m \in 1..m /\ (m > 1 => m - 1 \in 1..(m - 1)) /\ (m > 1 => m - 1 \in 1..m) /\ (m - 1) + 1 = m
  BY <1>1
<1>3. FrameFits(leveraged, events, objects, Lower(stack, m), Top, NoFrame, history[ThisCall])
  BY <1>1, <1>2 DEF HInv, Held, FramesFit, Upper
<1>4. Begins(leveraged, saved, objects, stack, Lower(stack, m), Top, history[ThisCall].log)
  BY <1>1 DEF HInv, Held, Beginning
<1>5. m > 1 => Under(leveraged, objects, stack[m - 1], Top) /\ Lower(stack, m) = stack[m - 1]
  BY <1>1, <1>2 DEF HInv, Held, Chain, Lower
<1>6. m = 1 => Lower(stack, m) = NoFrame /\ Root(Top)
  BY <1>1 DEF Lower
<1>7. m > 1 => stack[m - 1] \in Frames
  BY <1>2, ElementOfSeq DEF IInv, StackFits
<1>8. LogFits(history[ThisCall].log) /\ history[ThisCall] \in Calls
  BY <1>1, ElementOfSeq DEF HInv, Held, IInv
<1>. QED
  BY <1>1, <1>3, <1>4, <1>5, <1>6, <1>7, <1>8 DEF ThisCall

\* A dispatch is called by an event on its way.
LEMMA UnderDispatch ==
  ASSUME IInv, HInv, NEW k \in 1..Len(stack), stack[k].kind = "dispatch"
  PROVE  LET f == stack[k - 1] IN
         /\ k - 1 \in 1..Len(stack) /\ Root(f) /\ f \in Frames /\ f.phase = "path"
         /\ f.call = stack[k].call /\ stack[k].node = f.at - 1
         /\ objects[stack[k].obj].native = (IF f.kind = "native" THEN f.obj ELSE 0)
         /\ f.kind = "trigger" => stack[k].obj = f.obj
         /\ objects[stack[k].obj].native \in {0, f.obj}
         /\ Lower(stack, k) = f /\ Upper(stack, k - 1) = stack[k]
<1>1. Len(stack) \in Nat /\ k # 1
  BY LenProperties DEF IInv, StackFits, Linked, Root
<1>2. /\ k - 1 \in 1..Len(stack) /\ k - 1 \in 1..(Len(stack) - 1) /\ (k - 1) + 1 = k
      /\ k \in 2..Len(stack) /\ k - 1 # Len(stack)
  BY <1>1
<1>3. Under(leveraged, objects, stack[k - 1], stack[k])
  BY <1>2 DEF HInv, Held, Chain
<1>4. stack[k].call = stack[k - 1].call /\ stack[k - 1] \in Frames
  BY <1>2, ElementOfSeq DEF IInv, StackFits, Linked, Root
<1>. QED
  BY <1>1, <1>2, <1>3, <1>4 DEF Under, Root, Lower, Upper

\* A handler and the stub's controller are called by a dispatch.
LEMMA UnderHandler ==
  ASSUME IInv, HInv, stack # <<>>, Top.kind \in {"handler", "controller"}
  PROVE  LET m == Len(stack)  d == stack[m - 1]  f == stack[m - 2] IN
         /\ m - 1 \in 1..m /\ m - 2 \in 1..m /\ m \in Nat
         /\ d.kind = "dispatch" /\ d.obj = Top.obj /\ d \in Frames /\ d.call = ThisCall
         /\ Top.kind = "controller" => leveraged
         /\ Root(f) /\ f \in Frames /\ f.phase = "path" /\ f.call = ThisCall /\ d.node = f.at - 1
         /\ objects[Top.obj].native = (IF f.kind = "native" THEN f.obj ELSE 0)
         /\ f.kind = "trigger" => Top.obj = f.obj
         /\ objects[Top.obj].native \in {0, f.obj}
         /\ Lower(stack, m) = d /\ Lower(stack, m - 1) = f /\ Upper(stack, m - 1) = Top
         /\ Upper(stack, m - 2) = d
<1>. DEFINE m == Len(stack)
<1>1. /\ m \in Nat /\ m >= 1 /\ Top = stack[m] /\ Top.call = ThisCall /\ ~Root(Top) /\ m > 1
      /\ Under(leveraged, objects, stack[m - 1], Top) /\ Lower(stack, m) = stack[m - 1]
      /\ stack[m - 1] \in Frames
  <2>1. ~Root(Top)
    BY DEF Root
  <2>2. m \in Nat /\ m > 1
    BY <2>1, OnTop
  <2>. QED
    BY <2>1, <2>2, TopHeld
<1>2. m - 1 \in 1..m /\ m \in 2..m /\ (m - 1) - 1 = m - 2 /\ m - 1 # m /\ (m - 1) + 1 = m
  BY <1>1
<1>3. stack[m - 1].kind = "dispatch" /\ stack[m - 1].obj = Top.obj /\ (Top.kind = "controller" => leveraged)
  BY <1>1 DEF Under, Root
<1>4. stack[m].call = stack[m - 1].call
  BY <1>1, <1>2 DEF IInv, StackFits, Linked
<1>5. LET f == stack[m - 2] IN
      /\ m - 2 \in 1..m /\ Root(f) /\ f \in Frames /\ f.phase = "path"
      /\ f.call = stack[m - 1].call /\ stack[m - 1].node = f.at - 1
      /\ objects[stack[m - 1].obj].native = (IF f.kind = "native" THEN f.obj ELSE 0)
      /\ f.kind = "trigger" => stack[m - 1].obj = f.obj
      /\ objects[stack[m - 1].obj].native \in {0, f.obj}
      /\ Lower(stack, m - 1) = f /\ Upper(stack, m - 2) = stack[m - 1]
  <2>. DEFINE k == m - 1
  <2>1. k \in 1..Len(stack) /\ stack[k].kind = "dispatch"
    BY <1>2, <1>3
  <2>. HIDE DEF k
  <2>2. LET f == stack[k - 1] IN
        /\ k - 1 \in 1..Len(stack) /\ Root(f) /\ f \in Frames /\ f.phase = "path"
        /\ f.call = stack[k].call /\ stack[k].node = f.at - 1
        /\ objects[stack[k].obj].native = (IF f.kind = "native" THEN f.obj ELSE 0)
        /\ f.kind = "trigger" => stack[k].obj = f.obj
        /\ objects[stack[k].obj].native \in {0, f.obj}
        /\ Lower(stack, k) = f /\ Upper(stack, k - 1) = stack[k]
    BY <2>1, UnderDispatch
  <2>3. k = m - 1 /\ k - 1 = m - 2
    BY <1>1, <1>2 DEF k
  <2>. QED
    BY <2>2, <2>3
<1>6. Upper(stack, m - 1) = Top
  BY <1>1, <1>2 DEF Upper
<1>. QED
  BY <1>1, <1>2, <1>3, <1>4, <1>5, <1>6

\* The browser's method is not called for a trigger while a dispatch, a handler or a
\* controller runs.
LEMMA NoMethod ==
  ASSUME IInv, HInv, stack # <<>>, ~Root(Top)
  PROVE  ~triggered /\ \A i \in 1..Len(stack) : ~InMethod(stack[i])
<1>. DEFINE m == Len(stack)
<1>1. m \in Nat /\ m > 1 /\ Top = stack[m] /\ Under(leveraged, objects, stack[m - 1], Top)
  BY OnTop, TopHeld
<1>2. ~InMethod(stack[m]) /\ ~InMethod(stack[m - 1])
  BY <1>1 DEF InMethod, Under, Root
<1>3. ASSUME NEW i \in 1..m PROVE ~InMethod(stack[i])
  <2>1. InMethod(stack[i]) => i >= m - 1
    BY DEF HInv, Held, Methods
  <2>2. i >= m - 1 => i = m \/ i = m - 1
    BY <1>1
  <2>. QED
    BY <1>2, <2>1, <2>2
<1>. QED
  BY <1>3 DEF HInv, Held, Methods, IInv

-----------------------------------------------------------------------------
(* What scripts do. *)

\* A frame that begins nothing.
LEMMA BeginsNothing ==
  ASSUME NEW lev, NEW sv, NEW os, NEW stk, NEW lw, NEW f, NEW log,
         ~(lev /\ OnWay(lw, f) /\ f.at = 1), Stubless(f), ~(f.kind = "controller" /\ f.sync)
  PROVE  Begins(lev, sv, os, stk, lw, f, log)
  BY DEF Begins

\* What a script begins.
LEMMA ScriptBegins ==
  ASSUME IInv, Script, NEW sv, NEW os, NEW hist
  PROVE  Beginning(leveraged, sv, os, stack, hist)
<1>1. SUFFICES ASSUME stack # <<>>
               PROVE  Begins(leveraged, sv, os, stack, Lower(stack, Len(stack)), stack[Len(stack)],
                             hist[stack[Len(stack)].call].log)
  BY DEF Beginning
<1>2. Top = stack[Len(stack)] /\ Top.kind = "handler"
  BY <1>1, OnTop DEF Script, Running
<1>3. ~OnWay(Lower(stack, Len(stack)), stack[Len(stack)]) /\ Stubless(stack[Len(stack)])
  BY <1>2 DEF OnWay, Root, Stubless
<1>. QED
  BY <1>2, <1>3, BeginsNothing

\* No handler runs but the last one that was called is on top, so what is unbound there
\* and bound anew leaves what is under way.
LEMMA BindingHeld ==
  ASSUME IInv, HInv, Script, NEW ids,
         UNCHANGED <<leveraged, triggered, objects, stack, history>>,
         BindingsFit(leveraged, events', saved'), Fewer(events, events', ids),
         \A i \in 1..Len(stack) : stack[i].kind = "dispatch" =>
           \A q \in 1..Len(stack[i].queue) : stack[i].queue[q].h.id \notin ids,
         \A i \in 1..Len(stack) : \A x \in ids : Unlogged(x, history[stack[i].call].log)
  PROVE  HInv'
<1>1. FramesFit(leveraged, events', objects, stack, history)
  BY FewerFit DEF IInv, HInv, Held
<1>2. Beginning(leveraged, saved', objects, stack, history)
  BY ScriptBegins
<1>. QED
  BY <1>1, <1>2 DEF HInv, Held

\* Each frame's call is one of those noted.
LEMMA CallsNoted ==
  ASSUME IInv, NEW i \in 1..Len(stack)
  PROVE  stack[i].call \in 1..Len(history) /\ stack[i] \in Frames /\ Fits(leveraged, stack[i], objects)
<1>1. /\ Len(stack) \in Nat /\ \A j \in 1..Len(stack) : stack[j] \in Frames /\ stack[j].call \in Nat
      /\ Fits(leveraged, stack[i], objects)
  BY LenProperties, ElementOfSeq, FrameFields DEF IInv, StackFits
<1>2. Len(stack) \in 1..Len(stack) /\ i <= Len(stack) /\ stack # <<>>
  BY <1>1
<1>3. stack[i].call <= stack[Len(stack)].call /\ stack[Len(stack)].call = Len(history)
  BY <1>2 DEF IInv, StackFits, Linked
<1>4. stack[i].call >= 1
  BY <1>1 DEF Fits
<1>. QED
  BY <1>1, <1>2, <1>3, <1>4

\* on: what is bound has an id that is not in use.
LEMMA OnHeld ==
  ASSUME IInv, HInv, NEW n \in Elements, NEW i \in Ids, NEW f \in Fns, NEW s \in 0..Depth,
         NEW o \in BOOLEAN, on(n, [id |-> i, fn |-> f, sel |-> s, once |-> o])
  PROVE  HInv'
<1>. DEFINE h == [id |-> i, fn |-> f, sel |-> s, once |-> o]
<1>1. /\ Change /\ n \in Bindable /\ h.sel < n /\ add(n, h) /\ h.id \notin BoundIds
      /\ UNCHANGED <<leveraged, triggered, objects, stack, history>>
      /\ \A j \in DOMAIN stack :
           stack[j].kind = "dispatch" => \A q \in DOMAIN stack[j].queue : stack[j].queue[q].h.id # h.id
      /\ \A c \in DOMAIN history : \A q \in DOMAIN history[c].log : history[c].log[q].id # h.id
  BY DEF on, calls
<1>2. Script
  BY <1>1, ChangeCounts
<1>3. h \in Handlers /\ h \in Listed /\ h.id \in Ids /\ h.id # "stub"
  BY EventsAssumption DEF Handlers, Listed
<1>. HIDE DEF h
<1>4. h # Stub /\ (leveraged => h.sel = 0 /\ n = 1)
  <2>1. leveraged => n = 1
    BY <1>1 DEF Bindable
  <2>2. h.sel \in Nat
    BY <1>3, EventsAssumption DEF Handlers
  <2>. QED
    BY <1>1, <1>3, <2>1, <2>2 DEF Stub
<1>5. \A m \in Elements : \A g \in Bound(events[m]) : g.id # h.id
  BY <1>1 DEF BoundIds, BoundAt, Bound
<1>6. \A j \in 1..Len(events[n].list) : events[n].list[j].id # h.id
  <2>1. events[n] \in Lists
    BY DEF IInv, ListsFit
  <2>2. SUFFICES ASSUME NEW j \in 1..Len(events[n].list), events[n].list[j].id = h.id PROVE FALSE
    OBVIOUS
  <2>3. events[n].list[j] \in Bound(events[n])
    BY <1>3, <2>1, <2>2, BoundIndex
  <2>. QED
    BY <1>5, <2>2, <2>3
<1>7. BindingsFit(leveraged, events', saved') /\ Fewer(events, events', {h.id} \intersect Ids)
  BY <1>1, <1>3, <1>4, <1>5, <1>6, AddFits DEF IInv, HInv, Held
<1>8. ASSUME NEW j \in 1..Len(stack), stack[j].kind = "dispatch"
      PROVE  \A q \in 1..Len(stack[j].queue) : stack[j].queue[q].h.id \notin {h.id} \intersect Ids
  <2>1. stack[j] \in Frames /\ stack \in Seq(Frames)
    BY CallsNoted DEF IInv, StackFits
  <2>2. DOMAIN stack = 1..Len(stack) /\ DOMAIN stack[j].queue = 1..Len(stack[j].queue)
    BY <1>8, <2>1, FrameFields, LenProperties
  <2>. QED
    BY <1>1, <1>8, <2>2
<1>9. ASSUME NEW j \in 1..Len(stack), NEW x \in {h.id} \intersect Ids
      PROVE  Unlogged(x, history[stack[j].call].log)
  <2>1. stack[j].call \in 1..Len(history) /\ history \in Seq(Calls)
    BY CallsNoted DEF IInv
  <2>2. history[stack[j].call] \in Calls /\ DOMAIN history = 1..Len(history)
    BY <2>1, ElementOfSeq, LenProperties
  <2>3. DOMAIN history[stack[j].call].log = 1..Len(history[stack[j].call].log)
    BY <2>2, LenProperties DEF Calls
  <2>. QED
    BY <1>1, <2>1, <2>2, <2>3 DEF Unlogged
<1>. QED
  BY <1>1, <1>2, <1>7, <1>8, <1>9, BindingHeld

\* off.
LEMMA OffHeld ==
  ASSUME IInv, HInv, NEW n \in Elements, offAll(n) \/ \E f \in Fns : off(n, f)
  PROVE  HInv'
<1>1. PICK gone :
        /\ Change /\ remove(n, gone)
        /\ UNCHANGED <<leveraged, saved, triggered, objects, stack, history>>
  BY DEF off, offAll, focus, calls
<1>2. Script
  BY <1>1, ChangeCounts
<1>3. BindingsFit(leveraged, events', saved) /\ Fewer(events, events', {})
  BY <1>1, RemoveFits DEF IInv, HInv, Held
<1>. QED
  BY <1>1, <1>2, <1>3, BindingHeld

\* Blur.
LEMMA BlurHeld == ASSUME IInv, HInv, Blur PROVE HInv'
  BY DEF HInv, Blur, bindings

\* An event begins that nothing was called for.
LEMMA EventHeld ==
  ASSUME NEW lev \in BOOLEAN, NEW es, NEW sv, NEW os, NEW s, NEW hist, ObjectsFit(os),
         hist \in Seq(Calls), StackFits(lev, s, os, Len(hist)),
         BindingsFit(lev, es, sv), Chain(lev, os, s), FreshCalls(s), FramesFit(lev, es, os, s, hist),
         \A i \in 1..Len(s) : ~InMethod(s[i]),
         \A c \in 1..Len(hist) : LogFits(hist[c].log),
         NEW f \in Frames, Root(f), f.phase = "path", f.call = Len(hist) + 1, f.obj = Len(os) + 1,
         NEW o \in EventObjects, o.native = 0, o.stopped = FALSE,
         s # <<>> => s[Len(s)].kind = "handler" /\ f.kind = "trigger",
         NEW expected \in SUBSET Handlers, \A d \in expected : d.sel = 0 \/ d.sel >= f.node
  PROVE  Held(lev, es, sv, FALSE, Append(os, o), Append(s, f),
              Append(hist, [due |-> expected, log |-> <<>>]))
<1>. DEFINE m == Len(s)
            t == Append(s, f)
            new == Append(os, o)
            this == [due |-> expected, log |-> <<>>]
            later == Append(hist, this)
            n == Len(hist)
<1>1. /\ m \in Nat /\ n \in Nat /\ Len(os) \in Nat /\ s \in Seq(Frames) /\ os \in Seq(EventObjects)
      /\ \A i \in 1..m : s[i] \in Frames /\ s[i].call \in Nat /\ s[i].obj \in 1..Len(os)
                         /\ s[i].call >= 1 /\ s[i].obj \in Nat
      /\ (m = 0 <=> s = <<>>)
  BY LenProperties, ElementOfSeq, EmptySeq, FrameFields DEF StackFits, Fits, ObjectsFit
<1>2. /\ t \in Seq(Frames) /\ Len(t) = m + 1 /\ t[m + 1] = f /\ \A i \in 1..m : t[i] = s[i]
  BY <1>1, AppendProperties
<1>3. new[Len(os) + 1] = o /\ \A i \in 1..Len(os) : new[i] = os[i]
  BY <1>1, AppendLeaves
<1>4. this \in Calls /\ this.log = <<>> /\ this.due = expected
  BY EmptySeq DEF Calls
<1>. HIDE DEF this
<1>5. Len(later) = n + 1 /\ later[n + 1] = this /\ \A c \in 1..n : later[c] = hist[c]
  BY <1>1, <1>4, AppendProperties
<1>. HIDE DEF t, new, later
<1>6. \A i \in 1..(m + 1) : i = m + 1 \/ i \in 1..m
  BY <1>1
<1>7. \A i \in 1..m : s[i].call \in 1..n
  <2>. SUFFICES ASSUME NEW i \in 1..m PROVE s[i].call \in 1..n
    OBVIOUS
  <2>1. m \in 1..m /\ i <= m /\ s # <<>>
    BY <1>1
  <2>2. s[i].call <= s[m].call /\ s[m].call = n
    BY <2>1 DEF StackFits, Linked
  <2>. QED
    BY <1>1, <2>2
<1>8. ASSUME NEW i \in 1..m
      PROVE  FrameFits(lev, es, new, Lower(t, i), t[i], Upper(t, i), later[t[i].call])
  <2>1. FrameFits(lev, es, os, Lower(s, i), s[i], Upper(s, i), hist[s[i].call])
    BY DEF FramesFit
  <2>2. t[i] = s[i] /\ Lower(t, i) = Lower(s, i) /\ later[s[i].call] = hist[s[i].call]
    <3>1. i = 1 \/ i - 1 \in 1..m
      BY <1>1
    <3>. QED
      BY <1>2, <1>5, <1>7, <3>1 DEF Lower
  <2>3. Upper(t, i) = Upper(s, i) \/ s[i].kind # "dispatch"
    <3>1. CASE i = m
      BY <1>1, <3>1
    <3>2. CASE i # m
      <4>1. i + 1 \in 1..m /\ i # Len(t)
        BY <1>1, <1>2, <3>2
      <4>. QED
        BY <1>2, <3>2, <4>1 DEF Upper
    <3>. QED
      BY <3>1, <3>2
  <2>4. new[s[i].obj] = os[s[i].obj] /\ s[i] \in Frames
    BY <1>1, <1>3
  <2>5. Same(os[s[i].obj], new[s[i].obj])
    BY <2>4 DEF Same
  <2>6. FrameFits(lev, es, new, Lower(s, i), s[i], Upper(t, i), hist[s[i].call])
    BY <2>1, <2>3, <2>4, <2>5, FrameStays
  <2>. QED
    BY <2>2, <2>6
<1>9. FrameFits(lev, es, new, Lower(t, m + 1), t[m + 1], Upper(t, m + 1), later[t[m + 1].call])
  <2>1. \A h : Unlogged(h, this.log)
    BY <1>4 DEF Unlogged
  <2>2. Clean(this.log)
    BY <1>4 DEF Clean
  <2>3. RootFits(lev, es, new, Lower(t, m + 1), f, this)
    BY <1>3, <1>4, <2>1, <2>2 DEF RootFits
  <2>. QED
    BY <1>2, <1>5, <2>3 DEF FrameFits, Root
<1>10. FramesFit(lev, es, new, t, later)
  BY <1>2, <1>6, <1>8, <1>9 DEF FramesFit
<1>11. Chain(lev, new, t)
  <2>1. SUFFICES ASSUME NEW i \in 1..m PROVE Under(lev, new, t[i], t[i + 1])
    BY <1>1, <1>2 DEF Chain
  <2>2. CASE i = m
    <3>1. s[m].kind = "handler" /\ f.kind = "trigger" /\ f.call > s[m].call
      BY <1>1, <1>7, <2>2
    <3>. QED
      BY <1>1, <1>2, <2>2, <3>1 DEF Under
  <2>3. CASE i # m
    <3>1. i \in 1..(m - 1) /\ i + 1 \in 1..m
      BY <1>1, <2>3
    <3>2. Under(lev, os, s[i], s[i + 1]) /\ new[s[i + 1].obj] = os[s[i + 1].obj]
      BY <1>1, <1>3, <3>1 DEF Chain
    <3>. QED
      BY <1>2, <3>1, <3>2 DEF Under
  <2>. QED
    BY <2>2, <2>3
<1>12. FreshCalls(t)
  <2>1. SUFFICES ASSUME NEW j \in 1..(m + 1), NEW i \in 1..(m + 1), t[i].call < t[j].call
                 PROVE  t[i].obj < t[j].obj
    BY <1>2 DEF FreshCalls, Fresh
  <2>2. i \in 1..m
    <3>1. CASE i = m + 1 /\ j = m + 1
      BY <1>1, <1>2, <2>1, <3>1
    <3>2. CASE i = m + 1 /\ j \in 1..m
      BY <1>1, <1>2, <1>7, <2>1, <3>2
    <3>. QED
      BY <1>6, <3>1, <3>2
  <2>3. CASE j = m + 1
    BY <1>1, <1>2, <2>2, <2>3
  <2>4. CASE j \in 1..m
    BY <1>2, <2>1, <2>2, <2>4 DEF FreshCalls, Fresh
  <2>. QED
    BY <1>6, <2>3, <2>4
<1>13. Methods(FALSE, t)
  <2>1. \A i \in 1..(m + 1) : ~InMethod(t[i])
    BY <1>2, <1>6 DEF InMethod
  <2>. QED
    BY <1>2, <2>1 DEF Methods
<1>14. Beginning(lev, sv, new, t, later)
  <2>1. Stubless(f) /\ f.kind # "controller"
    BY DEF Root, Stubless
  <2>2. f.kind = "native" => Fresh(t, f.call, sv.obj)
    <3>1. f.kind = "native" => m = 0
      BY <1>1
    <3>. QED
      BY <1>1, <1>2, <3>1 DEF Fresh
  <2>3. Begins(lev, sv, new, t, Lower(t, m + 1), f, this.log)
    BY <1>4, <2>1, <2>2 DEF Begins
  <2>. QED
    BY <1>2, <1>5, <2>3 DEF Beginning
<1>15. \A c \in 1..Len(later) : LogFits(later[c].log)
  <2>1. LogFits(<<>>)
    BY DEF LogFits
  <2>2. \A c \in 1..(n + 1) : c = n + 1 \/ c \in 1..n
    BY <1>1
  <2>. QED
    BY <1>4, <1>5, <2>1, <2>2
<1>16. Held(lev, es, sv, FALSE, new, t, later)
  BY <1>10, <1>11, <1>12, <1>13, <1>14, <1>15 DEF Held
<1>. QED
  BY <1>16 DEF new, t, later, this

\* trigger.
LEMMA TriggerHeld ==
  ASSUME IInv, HInv, NEW n \in Elements, NEW only \in BOOLEAN, trigger(n, only)
  PROVE  HInv'
<1>. DEFINE end == IF leveraged \/ only THEN n ELSE Depth
            k == Len(objects) + 1
            f == Trigger(k, n, only, NextCall)
            o == EventObject(~only, 0)
<1>1. /\ Script /\ n \in Bindable
      /\ objects' = Append(objects, o) /\ stack' = Append(stack, f)
      /\ history' = Append(history, [due |-> due(n, end), log |-> <<>>])
      /\ UNCHANGED <<leveraged, triggered>>
      /\ IF leveraged /\ saved.is = "unset" THEN add(n, ReturnTrue) ELSE UNCHANGED <<events, listening, saved>>
  BY DEF trigger, bindings, begun
<1>2. end \in 0..Depth /\ n \in Nat
  BY EventsAssumption DEF Elements
<1>3. due(n, end) \in SUBSET Handlers /\ \A d \in due(n, end) : d.sel = 0 \/ d.sel >= n
  <2>1. due(n, end) \in SUBSET Handlers
    BY <1>2, DueBound
  <2>. QED
    BY <2>1 DEF due
<1>. HIDE DEF end
<1>4. BindingsFit(leveraged, events', saved') /\ Fewer(events, events', {})
  <2>1. CASE leveraged /\ saved.is = "unset"
    <3>1. ReturnTrue \in Listed /\ ReturnTrue # Stub /\ ReturnTrue.sel = 0 /\ ReturnTrue.id = "true"
      BY DEF Listed, ReturnTrue, Stub
    <3>2. n = 1 /\ 0 < n
      BY <1>1, <2>1 DEF Bindable
    <3>3. events[n].list = <<>>
      BY <2>1, <3>2 DEF HInv, Held, BindingsFit
    <3>4. \A i \in 1..Len(events[n].list) : events[n].list[i].id # ReturnTrue.id
      BY <3>3
    <3>5. "true" \notin Ids
      BY EventsAssumption
    <3>6. \A m \in Elements : \A g \in Bound(events[m]) : g.id # ReturnTrue.id
      BY <3>1, <3>5 DEF Bound
    <3>7. add(n, ReturnTrue)
      BY <1>1, <2>1
    <3>8. {ReturnTrue.id} \intersect Ids = {}
      BY <3>1, <3>5
    <3>. QED
      BY <2>1, <3>1, <3>2, <3>4, <3>6, <3>7, <3>8, AddFits DEF IInv, HInv, Held
  <2>2. CASE ~(leveraged /\ saved.is = "unset")
    BY <1>1, <2>2 DEF HInv, Held, Fewer
  <2>. QED
    BY <2>1, <2>2
<1>5. FramesFit(leveraged, events', objects, stack, history)
  BY <1>4, FewerFit DEF IInv, HInv, Held
<1>6. /\ o \in EventObjects /\ o.native = 0 /\ o.stopped = FALSE
  BY DEF EventObject, EventObjects, Results
<1>7. /\ ObjectsFit(objects) /\ history \in Seq(Calls) /\ leveraged \in BOOLEAN
      /\ StackFits(leveraged, stack, objects, Len(history))
      /\ Len(history) \in Nat /\ NextCall = Len(history) + 1 /\ Len(objects) \in Nat
  BY LenProperties DEF IInv, NextCall, ObjectsFit
<1>8. f \in Frames /\ f.kind = "trigger" /\ f.obj = k /\ f.node = n /\ f.phase = "path" /\ f.call = NextCall
  BY <1>7, FramesBegin DEF Trigger
<1>. HIDE DEF f, o
<1>9. ~triggered /\ (\A i \in 1..Len(stack) : ~InMethod(stack[i]))
      /\ (stack # <<>> => stack[Len(stack)].kind = "handler")
  <2>1. CASE stack = <<>>
    BY <2>1 DEF HInv, Held, Methods, IInv
  <2>2. CASE stack # <<>>
    <3>1. Top.kind = "handler" /\ Top = stack[Len(stack)] /\ ~Root(Top)
      BY <1>1, <2>2, OnTop DEF Script, Running, Root
    <3>. QED
      BY <2>2, <3>1, NoMethod
  <2>. QED
    BY <2>1, <2>2
<1>10. Held(leveraged, events', saved', FALSE, objects', stack', history')
  <2>1. Root(f) /\ f.call = Len(history) + 1 /\ f.obj = Len(objects) + 1
    BY <1>7, <1>8 DEF Root
  <2>2. /\ Chain(leveraged, objects, stack) /\ FreshCalls(stack)
        /\ \A c \in 1..Len(history) : LogFits(history[c].log)
        /\ BindingsFit(leveraged, events, saved) /\ FramesFit(leveraged, events, objects, stack, history)
    BY DEF HInv, Held
  <2>. QED
    BY <1>1, <1>3, <1>4, <1>5, <1>6, <1>7, <1>8, <1>9, <2>1, <2>2, EventHeld
<1>11. triggered' = FALSE
  BY <1>1, <1>9, <1>10 DEF IInv
<1>. QED
  BY <1>1, <1>10, <1>11 DEF HInv

\* An event of the browser's own.
LEMMA ArriveHeld ==
  ASSUME IInv, HInv, NEW n \in Elements, Arrive(n)
  PROVE  HInv'
<1>. DEFINE end == IF leveraged THEN n ELSE Depth
            k == Len(objects) + 1
            f == Native(k, n, NextCall)
            o == EventObject(FALSE, 0)
<1>1. /\ stack = <<>>
      /\ objects' = Append(objects, o) /\ stack' = <<f>>
      /\ history' = Append(history, [due |-> due(n, end), log |-> <<>>])
      /\ UNCHANGED <<leveraged, events, listening, triggered, saved>>
  BY DEF Arrive, bindings, begun
<1>2. end \in 0..Depth /\ n \in Nat
  BY EventsAssumption DEF Elements
<1>3. due(n, end) \in SUBSET Handlers /\ \A d \in due(n, end) : d.sel = 0 \/ d.sel >= n
  <2>1. due(n, end) \in SUBSET Handlers
    BY <1>2, DueBound
  <2>. QED
    BY <2>1 DEF due
<1>. HIDE DEF end
<1>6. /\ o \in EventObjects /\ o.native = 0 /\ o.stopped = FALSE
  BY DEF EventObject, EventObjects, Results
<1>7. /\ ObjectsFit(objects) /\ history \in Seq(Calls) /\ leveraged \in BOOLEAN
      /\ StackFits(leveraged, stack, objects, Len(history))
      /\ Len(history) \in Nat /\ NextCall = Len(history) + 1 /\ Len(objects) \in Nat
  BY LenProperties DEF IInv, NextCall, ObjectsFit
<1>8. f \in Frames /\ f.kind = "native" /\ f.obj = k /\ f.node = n /\ f.phase = "path" /\ f.call = NextCall
  BY <1>7, FramesBegin DEF Native
<1>. HIDE DEF f, o
<1>9. triggered = FALSE /\ stack' = Append(stack, f)
      /\ \A i \in 1..Len(stack) : ~InMethod(stack[i])
  BY <1>1 DEF HInv, Held, Methods, IInv
<1>10. Held(leveraged, events, saved, FALSE, objects', stack', history')
  <2>1. Root(f) /\ f.call = Len(history) + 1 /\ f.obj = Len(objects) + 1
    BY <1>7, <1>8 DEF Root
  <2>2. /\ Chain(leveraged, objects, stack) /\ FreshCalls(stack)
        /\ \A c \in 1..Len(history) : LogFits(history[c].log)
        /\ BindingsFit(leveraged, events, saved) /\ FramesFit(leveraged, events, objects, stack, history)
    BY DEF HInv, Held
  <2>. QED
    BY <1>1, <1>3, <1>6, <1>7, <1>8, <1>9, <2>1, <2>2, EventHeld
<1>. QED
  BY <1>1, <1>9, <1>10 DEF HInv

-----------------------------------------------------------------------------
(* What returns to the frame below. *)

\* The frame below goes on where it was.
LEMMA PoppedHeld ==
  ASSUME IInv, IInv', HInv, Len(stack) > 1, popped,
         UNCHANGED <<leveraged, events, triggered, saved>>,
         stack[Len(stack) - 1].kind # "dispatch", ~InMethod(stack[Len(stack)]),
         stack[Len(stack) - 1].call <= Len(history'),
         \A c \in 1..Len(history') : c \in 1..Len(history) /\ history'[c] = history[c],
         LET f == stack[Len(stack) - 1] IN
         /\ ~(leveraged /\ Root(f) /\ f.phase = "path" /\ f.at = 1)
         /\ ~(f.kind = "controller" /\ f.sync)
  PROVE  HInv'
<1>. DEFINE m == Len(stack) - 1
            t == Front(stack)
            n == stack[m].call
<1>1. /\ StackFits(leveraged, stack, objects, Len(history)) /\ ObjectsFit(objects)
      /\ SavedFits(saved, objects)
      /\ Len(stack) \in Nat /\ Len(stack) = m + 1 /\ m \in Nat /\ m >= 1
      /\ \A i \in 1..(m + 1) : stack[i] \in Frames
  BY LenProperties, ElementOfSeq DEF IInv, StackFits
<1>2. /\ StackFits(leveraged, t, objects, n) /\ t # <<>> /\ Len(t) = m
      /\ \A i \in 1..m : t[i] = stack[i]
  BY <1>1, PopFits
<1>3. stack' = t /\ objects' = Kept(objects, t)
  BY DEF popped
<1>. HIDE DEF t
<1>4. /\ StackFits(leveraged, t, objects', n) /\ \A i \in 1..Len(objects') : objects'[i] = objects[i]
  BY <1>1, <1>2, <1>3, KeptFits
<1>5. ASSUME NEW i \in 1..m PROVE objects'[stack[i].obj] = objects[stack[i].obj]
  <2>1. Fits(leveraged, t[i], objects')
    BY <1>2, <1>4 DEF StackFits
  <2>2. stack[i].obj \in 1..Len(objects')
    BY <1>2, <2>1 DEF Fits
  <2>. QED
    BY <1>4, <2>2
<1>6. ASSUME NEW i \in 1..m PROVE stack[i].call \in 1..Len(history') /\ i \in 1..(m + 1)
  <2>1. i \in 1..(m + 1) /\ m \in 1..(m + 1) /\ i <= m
    BY <1>1
  <2>2. stack[i].call <= stack[m].call /\ stack[i].call \in 1..Len(history)
        /\ stack[m].call \in 1..Len(history)
    BY <1>1, <2>1, CallsNoted DEF StackFits, Linked
  <2>3. Len(history) \in Nat /\ Len(history') \in Nat
    BY LenProperties DEF IInv
  <2>. QED
    BY <2>1, <2>2, <2>3
<1>7. ASSUME NEW i \in 1..m
      PROVE  FrameFits(leveraged, events, objects', Lower(t, i), t[i], Upper(t, i), history'[t[i].call])
  <2>1. FrameFits(leveraged, events, objects, Lower(stack, i), stack[i], Upper(stack, i),
                  history[stack[i].call])
    BY <1>1, <1>6 DEF HInv, Held, FramesFit
  <2>2. t[i] = stack[i] /\ Lower(t, i) = Lower(stack, i)
        /\ history'[stack[i].call] = history[stack[i].call]
    <3>1. i = 1 \/ i - 1 \in 1..m
      BY <1>1
    <3>. QED
      BY <1>2, <1>6, <3>1 DEF Lower
  <2>3. Upper(t, i) = Upper(stack, i) \/ stack[i].kind # "dispatch"
    <3>1. CASE i = m
      BY <3>1
    <3>2. CASE i # m
      <4>0. \A x \in Nat : \A j \in 1..x : j # x => j + 1 \in 1..x /\ j # x + 1
        OBVIOUS
      <4>1. i + 1 \in 1..m /\ i # Len(stack)
        BY <1>1, <3>2, <4>0
      <4>2. i # Len(t)
        BY <1>2, <3>2
      <4>. QED
        BY <1>2, <4>1, <4>2 DEF Upper
    <3>. QED
      BY <3>1, <3>2
  <2>4. objects'[stack[i].obj] = objects[stack[i].obj] /\ stack[i] \in Frames
    BY <1>1, <1>5, <1>6
  <2>5. Same(objects[stack[i].obj], objects'[stack[i].obj])
    BY <2>4 DEF Same
  <2>6. FrameFits(leveraged, events, objects', Lower(stack, i), stack[i], Upper(t, i),
                  history[stack[i].call])
    BY <2>1, <2>3, <2>4, <2>5, FrameStays
  <2>. QED
    BY <2>2, <2>6
<1>8. FramesFit(leveraged, events, objects', t, history')
  BY <1>2, <1>7 DEF FramesFit
<1>9. Chain(leveraged, objects', t)
  <2>1. SUFFICES ASSUME NEW i \in 1..(m - 1) PROVE Under(leveraged, objects', t[i], t[i + 1])
    BY <1>2 DEF Chain
  <2>2. i \in 1..m /\ i + 1 \in 1..m /\ i \in 1..(Len(stack) - 1)
    BY <1>1
  <2>3. Under(leveraged, objects, stack[i], stack[i + 1])
        /\ objects'[stack[i + 1].obj] = objects[stack[i + 1].obj]
    BY <1>5, <2>2 DEF HInv, Held, Chain
  <2>. QED
    BY <1>2, <2>2, <2>3 DEF Under
<1>10. FreshCalls(t)
  BY <1>1, <1>2, <1>6 DEF HInv, Held, FreshCalls, Fresh
<1>11. Methods(triggered, t)
  <2>1. ASSUME NEW i \in 1..m, InMethod(t[i]) PROVE triggered /\ i >= m - 1
    <3>1. triggered /\ i >= (m + 1) - 1
      BY <1>1, <1>2, <1>6, <2>1 DEF HInv, Held, Methods
    <3>. QED
      BY <1>1, <3>1
  <2>2. ASSUME triggered PROVE \E i \in 1..m : InMethod(t[i])
    <3>1. PICK i \in 1..(m + 1) : InMethod(stack[i])
      BY <1>1, <2>2 DEF HInv, Held, Methods
    <3>2. i \in 1..m
      BY <1>1, <3>1
    <3>. QED
      BY <1>2, <3>1, <3>2
  <2>. QED
    BY <1>2, <2>1, <2>2 DEF Methods
<1>12. Beginning(leveraged, saved, objects', t, history')
  <2>1. t[m] = stack[m]
    BY <1>1, <1>2
  <2>2. Stubless(stack[m]) /\ ~(leveraged /\ OnWay(Lower(t, m), stack[m]) /\ stack[m].at = 1)
        /\ ~(stack[m].kind = "controller" /\ stack[m].sync)
    BY DEF Stubless, OnWay
  <2>3. Begins(leveraged, saved, objects', t, Lower(t, m), stack[m], history'[stack[m].call].log)
    BY <2>2, BeginsNothing
  <2>. QED
    BY <1>2, <2>1, <2>3 DEF Beginning
<1>13. \A c \in 1..Len(history') : LogFits(history'[c].log)
  BY DEF HInv, Held
<1>14. Held(leveraged, events, saved, triggered, objects', t, history')
  BY <1>8, <1>9, <1>10, <1>11, <1>12, <1>13 DEF HInv, Held
<1>. QED
  BY <1>3, <1>14 DEF HInv

\* dispatched.
LEMMA DispatchedHeld == ASSUME IInv, IInv', HInv, dispatched PROVE HInv'
<1>. DEFINE m == Len(stack)
            f == stack[m - 1]
<1>1. /\ stack # <<>> /\ Top.kind = "dispatch" /\ ~Root(Top) /\ popped
      /\ UNCHANGED <<leveraged, events, triggered, saved, history>>
  BY DEF dispatched, Running, Root, bindings, focus
<1>2. /\ m \in Nat /\ m > 1 /\ Top = stack[m] /\ Top \in Frames /\ m \in 1..m
  <2>1. m \in Nat /\ m > 1 /\ Top = stack[m] /\ Top \in Frames
    BY <1>1, OnTop
  <2>. QED
    BY <2>1
<1>3. /\ m - 1 \in 1..m /\ Root(f) /\ f \in Frames /\ f.call = Top.call /\ Top.node = f.at - 1
  BY <1>1, <1>2, UnderDispatch
<1>4. Top.node \in Nat /\ Top.node >= 1 /\ f.at \in Nat
  BY <1>1, <1>2, <1>3, FrameFields, EventsAssumption DEF Elements
<1>5. f.at # 1 /\ f.kind # "dispatch" /\ f.kind # "controller" /\ ~InMethod(stack[m])
  BY <1>1, <1>2, <1>3, <1>4 DEF Root, InMethod
<1>6. f.call \in 1..Len(history) /\ Len(history) \in Nat
  BY <1>3, CallsNoted, LenProperties DEF IInv
<1>7. f.call <= Len(history')
  BY <1>1, <1>6
<1>. QED
  BY <1>1, <1>2, <1>5, <1>7, PoppedHeld

\* over.
LEMMA OverHeld == ASSUME IInv, IInv', HInv, over PROVE HInv'
<1>. DEFINE m == Len(stack)
            f == stack[m - 1]
<1>1. /\ stack # <<>> /\ Root(Top) /\ Top.phase = "over"
      /\ UNCHANGED <<leveraged, triggered, events>>
  BY DEF over, Phase, Running, Root, bindings
<1>2. /\ m \in Nat /\ m >= 1 /\ Top = stack[m] /\ m \in 1..m
      /\ m > 1 => Under(leveraged, objects, f, Top)
      /\ ~InMethod(stack[m])
  <2>1. /\ m \in Nat /\ m >= 1 /\ Top = stack[m] /\ (m > 1 => Under(leveraged, objects, f, Top))
    BY <1>1, TopHeld
  <2>. QED
    BY <1>1, <2>1 DEF InMethod
<1>3. CASE /\ m > 1 /\ popped /\ UNCHANGED <<saved, changes>>
           /\ history' = SubSeq(history, 1, f.call)
  <2>1. f.kind # "dispatch" /\ ~(f.kind = "controller" /\ f.sync) /\ ~(Root(f) /\ f.phase = "path")
    BY <1>1, <1>2, <1>3 DEF Under, Root
  <2>2. m - 1 \in 1..m
    BY <1>2, <1>3
  <2>3. /\ f.call \in 1..Len(history) /\ history \in Seq(Calls) /\ Len(history) \in Nat
    BY <2>2, CallsNoted, LenProperties DEF IInv
  <2>. DEFINE c == f.call
  <2>4. c \in 1..Len(history) /\ history' = SubSeq(history, 1, c)
    BY <1>3, <2>3
  <2>. HIDE DEF c
  <2>5. Len(history') = c /\ \A i \in 1..c : i \in 1..Len(history) /\ history'[i] = history[i]
    <3>1. c \in Nat /\ c >= 1 /\ \A i \in 1..c : i \in 1..Len(history)
      BY <2>3, <2>4
    <3>2. \A i \in 1..c : history[i] \in Calls
      BY <2>3, <3>1, ElementOfSeq
    <3>3. 1 \in Int /\ c \in Int
      BY <3>1
    <3>4. /\ Len(history') = IF 1 <= c THEN c - 1 + 1 ELSE 0
          /\ \A i \in 1..(c - 1 + 1) : history'[i] = history[1 + i - 1]
      BY <2>4, <3>2, <3>3, SubSeqProperties
    <3>5. c - 1 + 1 = c /\ 1 <= c /\ \A i \in 1..c : 1 + i - 1 = i
      BY <3>1
    <3>. QED
      BY <3>1, <3>4, <3>5
  <2>6. f.call <= Len(history')
    BY <2>3, <2>5 DEF c
  <2>. QED
    BY <1>1, <1>2, <1>3, <2>1, <2>5, <2>6, PoppedHeld
<1>4. CASE /\ m = 1 /\ stack' = <<>> /\ history' = <<>> /\ saved'.is = saved.is
  <2>1. ~triggered
    <3>1. \A i \in 1..m : ~InMethod(stack[i])
      BY <1>2, <1>4
    <3>. QED
      BY <3>1 DEF HInv, Held, Methods
  <2>2. Len(<<>>) = 0 /\ 1..0 = {} /\ 1..(0 - 1) = {}
    OBVIOUS
  <2>3. BindingsFit(leveraged, events, saved')
    BY <1>4 DEF HInv, Held, BindingsFit
  <2>4. Held(leveraged, events, saved', triggered, objects', <<>>, <<>>)
    BY <2>1, <2>2, <2>3 DEF Held, Chain, FreshCalls, Methods, Beginning, FramesFit
  <2>. QED
    BY <1>1, <1>4, <2>4 DEF HInv
<1>5. ASSUME m = 1, stack' = <<>>, history' = <<>>,
             IF saved.is = "args"
             THEN objects' = <<objects[saved.obj]>> /\ saved' = [saved EXCEPT !.obj = 1]
             ELSE objects' = <<>> /\ UNCHANGED saved
      PROVE  saved'.is = saved.is
  <2>1. saved \in [is : {"unset", "no", "args", "value"}, obj : Nat, result : Results]
    BY DEF IInv, SavedFits
  <2>. QED
    BY <1>5, <2>1
<1>. QED
  BY <1>3, <1>4, <1>5 DEF over

-----------------------------------------------------------------------------
(* The event that runs goes on. *)

\* The last frame becomes another.
LEMMA LastBecomes ==
  ASSUME NEW s \in Seq(Frames), s # <<>>, NEW f \in Frames
  PROVE  LET t == [s EXCEPT ![Len(s)] = f] IN
         /\ t \in Seq(Frames) /\ Len(t) = Len(s) /\ Len(s) \in Nat /\ Len(s) >= 1
         /\ t[Len(s)] = f /\ \A i \in 1..(Len(s) - 1) : t[i] = s[i]
<1>1. Len(s) \in Nat /\ Len(s) >= 1
  BY LenProperties, EmptySeq
<1>2. Len(s) \in 1..Len(s) /\ \A i \in 1..(Len(s) - 1) : i \in 1..Len(s) /\ i # Len(s)
  BY <1>1
<1>. QED
  BY <1>1, <1>2, ExceptSeq

\* One more frame.
LEMMA AppendLast ==
  ASSUME NEW s \in Seq(Frames), NEW m \in Nat, Len(s) = m, NEW f
  PROVE  LET t == Append(s, f) IN
         Len(t) = m + 1 /\ t[m + 1] = f /\ \A i \in 1..m : t[i] = s[i]
  BY AppendProperties

\* The objects there were are the same, and one may have come.
Keeps(os, new) == \A o \in 1..Len(os) : new[o] = os[o]

\* Nothing was called, and the calls before the last one are what they were.
Uncalled(hist, later) ==
  /\ Len(later) = Len(hist)
  /\ \A c \in 1..Len(hist) : later[c].log = hist[c].log /\ later[c].due \subseteq hist[c].due
  /\ \A c \in 1..(Len(hist) - 1) : later[c] = hist[c]

\* f is what the event that runs becomes.
Goes(f, top) ==
  /\ f.kind = top.kind /\ f.call = top.call /\ f.obj = top.obj /\ f.node = top.node /\ f.only = top.only
  /\ f.phase = "path" => top.phase = "path" /\ f.at = top.at + 1

\* An event goes on, and may give way to what it calls.
LEMMA RootGoesOn ==
  ASSUME IInv, IInv', HInv, stack # <<>>, Root(Top), UNCHANGED <<leveraged, events, saved>>,
         Keeps(objects, objects'), Uncalled(history, history'),
         LET m == Len(stack)  t == stack' IN
         /\ Len(t) \in {m, m + 1} /\ \A i \in 1..(m - 1) : t[i] = stack[i]
         /\ Goes(t[m], Top)
         /\ Len(t) = m + 1 =>
              /\ t[m + 1].call = ThisCall /\ Fresh(stack, ThisCall, t[m + 1].obj)
              /\ Under(leveraged, objects', t[m], t[m + 1])
              /\ FrameFits(leveraged, events, objects', t[m], t[m + 1], NoFrame, history'[ThisCall]),
         Methods(triggered', stack'), Beginning(leveraged, saved, objects', stack', history')
  PROVE  HInv'
<1>. DEFINE m == Len(stack)
            t == stack'
            f == t[m]
            n == Len(history)
<1>1. /\ m \in Nat /\ m >= 1 /\ Top = stack[m] /\ Top \in Frames /\ Top.call = n /\ ThisCall = n
      /\ n \in 1..n /\ n \in Nat /\ Top.obj \in 1..Len(objects)
      /\ FrameFits(leveraged, events, objects, Lower(stack, m), Top, NoFrame, history[n])
  <2>1. /\ m \in Nat /\ m >= 1 /\ Top = stack[m] /\ Top \in Frames /\ Top.call = ThisCall
        /\ FrameFits(leveraged, events, objects, Lower(stack, m), Top, NoFrame, history[ThisCall])
        /\ ThisCall \in 1..Len(history) /\ ThisCall = Len(history)
    BY TopHeld
  <2>2. ThisCall \in Nat /\ Top.obj \in 1..Len(objects)
    BY OnTop
  <2>. QED
    BY <2>1, <2>2
<1>2. /\ StackFits(leveraged, stack, objects, n) /\ t \in Seq(Frames)
      /\ leveraged \in BOOLEAN /\ Len(t) \in Nat
  BY LenProperties DEF IInv, StackFits
<1>3. m \in 1..m /\ m <= Len(t) /\ Goes(f, Top) /\ \A i \in 1..(m - 1) : t[i] = stack[i]
  BY <1>1, <1>2
<1>4. Leaves(objects, objects', stack[m].obj, stack[m].obj)
  BY <1>1 DEF Keeps, Leaves, Same
<1>5. Below(objects, stack, history, m, objects', t, history')
  <2>1. FreshCalls(stack) /\ Root(stack[m]) /\ stack[m].call = n /\ Fresh(stack, n, stack[m].obj)
    BY <1>1, <1>3 DEF HInv, Held, FreshCalls
  <2>2. Len(t) >= m /\ t[m].kind = stack[m].kind
    BY <1>1, <1>2, <1>3 DEF Goes
  <2>3. (\A c \in 1..(n - 1) : history'[c] = history[c]) /\ history'[n].due \subseteq history[n].due
    BY <1>1 DEF Uncalled
  <2>. HIDE DEF m, n
  <2>. QED
    BY <1>2, <1>3, <1>4, <2>1, <2>2, <2>3, BelowLeft DEF m, t
<1>6. RootFits(leveraged, events, objects', Lower(stack, m), f, history'[n])
  <2>1. RootFits(leveraged, events, objects, Lower(stack, m), Top, history[n])
    BY <1>1 DEF FrameFits
  <2>2. history'[n].log = history[n].log /\ history'[n].due \subseteq history[n].due
    BY <1>1 DEF Uncalled
  <2>3. objects'[f.obj] = objects[Top.obj] /\ f.kind = Top.kind /\ f.node = Top.node
        /\ LastOf(leveraged, f) = LastOf(leveraged, Top)
    BY <1>1, <1>3 DEF Keeps, Goes, LastOf
  <2>4. CASE f.phase = "path"
    <3>1. Top.phase = "path" /\ f.at = Top.at + 1
      BY <1>3, <2>4 DEF Goes
    <3>2. Top.at \in Nat /\ LastOf(leveraged, Top) \in Nat
      BY <1>1, FrameFields, LastElement, EventsAssumption
    <3>3. /\ f.at..LastOf(leveraged, f) \subseteq Top.at..LastOf(leveraged, Top)
          /\ f.at <= LastOf(leveraged, f) => Top.at <= LastOf(leveraged, Top)
      BY <2>3, <3>1, <3>2
    <3>4. OnWay(Lower(stack, m), f) => OnWay(Lower(stack, m), Top)
      BY <3>1 DEF OnWay
    <3>. QED
      BY <2>1, <2>2, <2>3, <3>3, <3>4 DEF RootFits
  <2>5. CASE f.phase # "path"
    BY <2>1, <2>3, <2>5 DEF RootFits, OnWay
  <2>. QED
    BY <2>4, <2>5
<1>7. f.call = n /\ f.kind = Top.kind /\ Root(f) /\ Fresh(stack, n, f.obj)
  <2>1. Fresh(stack, n, stack[m].obj)
    BY <1>1, <1>3 DEF HInv, Held, FreshCalls
  <2>. QED
    BY <1>1, <1>3, <2>1 DEF Goes, Root
<1>8. /\ Lower(t, m) = Lower(stack, m)
      /\ Len(t) = m + 1 => Lower(t, m + 1) = f /\ Upper(t, m + 1) = NoFrame
  <2>0. \A x \in Nat : x >= 1 => x = 1 \/ x - 1 \in 1..(x - 1)
    OBVIOUS
  <2>1. m = 1 \/ m - 1 \in 1..(m - 1)
    BY <1>1, <2>0
  <2>2. m + 1 # 1 /\ (m + 1) - 1 = m
    BY <1>1
  <2>. QED
    BY <1>3, <2>1, <2>2 DEF Lower, Upper
<1>9. \A i \in m..Len(t) : i = m \/ (i = m + 1 /\ Len(t) = m + 1)
  BY <1>1
<1>10. ASSUME NEW i \in m..Len(t)
       PROVE  /\ t[i].call = stack[m].call /\ Fresh(stack, stack[m].call, t[i].obj)
              /\ FrameFits(leveraged, events, objects', Lower(t, i), t[i], Upper(t, i), history'[t[i].call])
  <2>1. CASE i = m
    <3>1. FrameFits(leveraged, events, objects', Lower(stack, m), f, Upper(t, m), history'[n])
      BY <1>6, <1>7 DEF FrameFits, Root
    <3>. QED
      BY <1>1, <1>7, <1>8, <2>1, <3>1
  <2>2. CASE i = m + 1 /\ Len(t) = m + 1
    BY <1>1, <1>8, <2>2
  <2>. QED
    BY <1>9, <2>1, <2>2
<1>11. ASSUME NEW i \in m..(Len(t) - 1) PROVE Under(leveraged, objects', t[i], t[i + 1])
  <2>1. i = m /\ Len(t) = m + 1
    BY <1>1, <1>2
  <2>. QED
    BY <2>1
<1>12. Root(stack[m])
  BY <1>1
<1>13. Chain(leveraged, objects', t) /\ FreshCalls(t) /\ FramesFit(leveraged, events, objects', t, history')
  <2>1. Chain(leveraged, objects, stack) /\ FreshCalls(stack)
        /\ FramesFit(leveraged, events, objects, stack, history)
    BY DEF HInv, Held
  <2>. HIDE DEF m, n
  <2>. QED
    BY <1>2, <1>3, <1>5, <1>10, <1>11, <1>12, <2>1, Resumed DEF m, t
<1>14. \A c \in 1..Len(history') : LogFits(history'[c].log)
  BY DEF HInv, Held, Uncalled
<1>15. Held(leveraged, events, saved, triggered', objects', t, history')
  BY <1>13, <1>14 DEF HInv, Held
<1>. QED
  BY <1>15 DEF HInv

\* The event that runs, one element further and in its next phase.
LEMMA GoesFurther ==
  ASSUME IInv, stack # <<>>, Root(Top)
  PROVE  LET m == Len(stack) IN
         /\ m \in Nat /\ m >= 1 /\ Top = stack[m] /\ Top \in Frames
         /\ Top.phase = "path" /\ Top.at <= Depth =>
              /\ Further \in Seq(Frames) /\ Len(Further) = m /\ Further[m].phase = "path"
              /\ Goes(Further[m], Top) /\ \A i \in 1..(m - 1) : Further[i] = stack[i]
         /\ \A p \in {"tail", "method", "over"} :
              /\ InPhase(p) \in Seq(Frames) /\ Len(InPhase(p)) = m /\ InPhase(p)[m].phase = p
              /\ Goes(InPhase(p)[m], Top) /\ \A i \in 1..(m - 1) : InPhase(p)[i] = stack[i]
<1>. DEFINE m == Len(stack)
<1>1. stack \in Seq(Frames) /\ Top = stack[m] /\ Top \in Frames /\ m \in Nat /\ m >= 1
  BY OnTop DEF IInv, StackFits
<1>2. ASSUME Top.phase = "path", Top.at <= Depth
      PROVE  /\ Further \in Seq(Frames) /\ Len(Further) = m /\ Further[m].phase = "path"
             /\ Goes(Further[m], Top) /\ \A i \in 1..(m - 1) : Further[i] = stack[i]
  <2>. DEFINE f == [Top EXCEPT !.at = @ + 1]
  <2>1. f \in Frames /\ Goes(f, Top) /\ f.phase = "path"
    BY <1>1, <1>2, RootSteps DEF Goes
  <2>2. Further = [stack EXCEPT ![m] = f]
    BY <1>1 DEF Further
  <2>. HIDE DEF f
  <2>. QED
    BY <1>1, <2>1, <2>2, LastBecomes
<1>3. ASSUME NEW p \in {"tail", "method", "over"}
      PROVE  /\ InPhase(p) \in Seq(Frames) /\ Len(InPhase(p)) = m /\ InPhase(p)[m].phase = p
             /\ Goes(InPhase(p)[m], Top) /\ \A i \in 1..(m - 1) : InPhase(p)[i] = stack[i]
  <2>. DEFINE f == [Top EXCEPT !.phase = p]
  <2>1. p \in Phases /\ p # "path"
    BY DEF Phases
  <2>2. f \in Frames /\ Goes(f, Top) /\ f.phase = p
    BY <1>1, <2>1, PhaseSteps DEF Goes
  <2>3. InPhase(p) = [stack EXCEPT ![m] = f]
    BY <1>1 DEF InPhase
  <2>. HIDE DEF f
  <2>. QED
    BY <1>1, <2>2, <2>3, LastBecomes
<1>. QED
  BY <1>1, <1>2, <1>3

\* No method of the browser's is called or returns.
LEMMA MethodsStay ==
  ASSUME IInv, HInv, stack # <<>>, ~InMethod(Top),
         NEW t, \A i \in 1..(Len(stack) - 1) : t[i] = stack[i], ~InMethod(t[Len(stack)]),
         Len(t) = Len(stack) \/ (Len(t) = Len(stack) + 1 /\ ~triggered /\ ~InMethod(t[Len(t)]))
  PROVE  Methods(triggered, t)
<1>. DEFINE m == Len(stack)
<1>1. m \in Nat /\ m >= 1 /\ Top = stack[m]
  BY OnTop
<1>2. ASSUME NEW i \in 1..m, InMethod(stack[i]) PROVE triggered /\ i >= m - 1 /\ i \in 1..(m - 1)
  <2>1. i # m
    BY <1>1, <1>2
  <2>2. triggered /\ i >= m - 1
    BY <1>2 DEF HInv, Held, Methods
  <2>. QED
    BY <1>1, <2>1, <2>2
<1>3. ASSUME triggered PROVE \E i \in 1..m : InMethod(stack[i])
  BY <1>3 DEF HInv, Held, Methods
<1>4. ASSUME NEW i \in 1..Len(t), InMethod(t[i]) PROVE i \in 1..(m - 1) /\ InMethod(stack[i]) /\ i \in 1..m
  <2>1. i \in 1..(m - 1) \/ i = m \/ i = Len(t)
    BY <1>1
  <2>2. i = Len(t) => Len(t) = m
    BY <1>4
  <2>. QED
    BY <1>1, <1>4, <2>1, <2>2
<1>5. CASE triggered
  <2>1. Len(t) = m
    BY <1>5
  <2>2. PICK i \in 1..m : InMethod(stack[i])
    BY <1>3, <1>5
  <2>3. i \in 1..(m - 1) /\ i \in 1..Len(t)
    BY <1>1, <1>2, <2>1, <2>2
  <2>4. InMethod(t[i])
    BY <2>2, <2>3
  <2>5. \A j \in 1..Len(t) : InMethod(t[j]) => j >= m - 1
    BY <1>2, <1>4
  <2>. QED
    BY <1>5, <2>1, <2>3, <2>4, <2>5 DEF Methods
<1>6. CASE ~triggered
  BY <1>2, <1>4, <1>6 DEF Methods
<1>. QED
  BY <1>5, <1>6

\* The browser's method is not called for a trigger that is under another's.
LEMMA NoMethodBelow ==
  ASSUME IInv, HInv, stack # <<>>, Top.kind = "trigger"
  PROVE  \A i \in 1..(Len(stack) - 1) : ~InMethod(stack[i])
<1>. DEFINE m == Len(stack)
<1>1. m \in Nat /\ m >= 1 /\ Top = stack[m] /\ (m > 1 => Under(leveraged, objects, stack[m - 1], Top))
  BY TopHeld
<1>2. SUFFICES ASSUME NEW i \in 1..(m - 1), InMethod(stack[i]) PROVE FALSE
  OBVIOUS
<1>3. i \in 1..m
  BY <1>1
<1>4. i >= m - 1
  BY <1>2, <1>3 DEF HInv, Held, Methods
<1>5. i = m - 1 /\ m > 1
  BY <1>1, <1>4
<1>. QED
  BY <1>1, <1>2, <1>5 DEF Under, InMethod, Root

\* The event that runs goes through the elements while no method is called.
LEMMA OnItsWay ==
  ASSUME IInv, HInv, stack # <<>>, Root(Top), Top.phase = "path", ~triggered
  PROVE  OnWay(Lower(stack, Len(stack)), Top)
<1>. DEFINE m == Len(stack)
<1>1. /\ m \in Nat /\ m >= 1 /\ (m = 1 => Lower(stack, m) = NoFrame)
      /\ (m > 1 => Under(leveraged, objects, stack[m - 1], Top) /\ Lower(stack, m) = stack[m - 1])
  BY TopHeld
<1>2. CASE m = 1
  BY <1>1, <1>2 DEF OnWay, NoFrame
<1>3. CASE m > 1
  <2>1. m - 1 \in 1..m
    BY <1>1, <1>3
  <2>2. ~InMethod(stack[m - 1])
    BY <2>1 DEF HInv, Held, Methods
  <2>3. stack[m - 1].kind # "trigger"
    BY <1>1, <1>3, <2>2 DEF Under, InMethod, Root
  <2>. QED
    BY <1>1, <1>3, <2>3 DEF OnWay
<1>4. m = 1 \/ m > 1
  <2>1. \A x \in Nat : x >= 1 => x = 1 \/ x > 1
    OBVIOUS
  <2>. QED
    BY <1>1, <2>1
<1>. QED
  BY <1>2, <1>3, <1>4

\* An event that has something above it, or is further on its way, begins nothing.
LEMMA RootBegins ==
  ASSUME IInv, stack # <<>>, Root(Top), NEW t, NEW sv, NEW os, NEW hist, Len(t) = Len(stack),
         Goes(t[Len(stack)], Top)
  PROVE  Beginning(leveraged, sv, os, t, hist)
<1>. DEFINE m == Len(stack)
            f == t[m]
<1>1. Top \in Frames /\ m \in Nat /\ m >= 1
  BY OnTop
<1>2. Top.at \in Nat /\ Top.at >= 1
  BY <1>1, FrameFields, EventsAssumption
<1>3. f.phase = "path" => f.at # 1
  BY <1>2 DEF Goes
<1>4. f.kind # "dispatch" /\ f.kind # "controller"
  BY DEF Goes, Root
<1>5. Begins(leveraged, sv, os, t, Lower(t, m), f, hist[f.call].log)
  BY <1>3, <1>4, BeginsNothing DEF OnWay, Stubless
<1>. QED
  BY <1>5 DEF Beginning

\* pathEnd.
LEMMA PathEndHeld == ASSUME IInv, IInv', HInv, pathEnd PROVE HInv'
<1>. DEFINE p == IF Top.kind = "trigger" THEN "tail" ELSE "over"
            m == Len(stack)
<1>1. /\ stack # <<>> /\ Root(Top) /\ Top.phase = "path" /\ stack' = InPhase(p)
      /\ UNCHANGED <<leveraged, events, triggered, saved, objects, history>>
  BY DEF pathEnd, Phase, Running, Root, bindings, focus
<1>2. p \in {"tail", "method", "over"} /\ p # "method"
  OBVIOUS
<1>. HIDE DEF p
<1>3. /\ m \in Nat /\ m >= 1 /\ Len(stack') = m /\ stack'[m].phase = p /\ Goes(stack'[m], Top)
      /\ \A i \in 1..(m - 1) : stack'[i] = stack[i]
  BY <1>1, <1>2, GoesFurther
<1>4. ~InMethod(Top) /\ ~InMethod(stack'[m])
  BY <1>1, <1>2, <1>3 DEF InMethod
<1>5. Methods(triggered, stack')
  BY <1>1, <1>3, <1>4, MethodsStay
<1>6. Beginning(leveraged, saved, objects', stack', history')
  BY <1>1, <1>3, RootBegins
<1>7. Keeps(objects, objects') /\ Uncalled(history, history') /\ Len(stack') # m + 1
  BY <1>1, <1>3 DEF Keeps, Uncalled
<1>. QED
  BY <1>1, <1>3, <1>5, <1>6, <1>7, RootGoesOn

\* tailEnd.
LEMMA TailEndHeld == ASSUME IInv, IInv', HInv, tailEnd PROVE HInv'
<1>. DEFINE m == Len(stack)
<1>1. /\ stack # <<>> /\ Root(Top) /\ Top.kind = "trigger" /\ stack' = InPhase("over")
      /\ triggered' = FALSE /\ UNCHANGED <<leveraged, events, saved, objects, history>>
  BY DEF tailEnd, Phase, Running, Root, bindings, focus
<1>2. /\ m \in Nat /\ m >= 1 /\ Len(stack') = m /\ stack'[m].phase = "over" /\ Goes(stack'[m], Top)
      /\ \A i \in 1..(m - 1) : stack'[i] = stack[i]
  BY <1>1, GoesFurther
<1>3. Methods(triggered', stack')
  <2>1. \A i \in 1..m : i = m \/ i \in 1..(m - 1)
    BY <1>2
  <2>2. \A i \in 1..m : ~InMethod(stack'[i])
    BY <1>1, <1>2, <2>1, NoMethodBelow DEF InMethod
  <2>. QED
    BY <1>1, <1>2, <2>2 DEF Methods
<1>4. Beginning(leveraged, saved, objects', stack', history')
  BY <1>1, <1>2, RootBegins
<1>5. Keeps(objects, objects') /\ Uncalled(history, history') /\ Len(stack') # m + 1
  BY <1>1, <1>2 DEF Keeps, Uncalled
<1>. QED
  BY <1>1, <1>2, <1>3, <1>4, <1>5, RootGoesOn

\* What an element has to call for the event that comes to it was not called, and is not
\* called further on its way.
LEMMA DispatchBegins ==
  ASSUME IInv, HInv, stack # <<>>, Root(Top), Top.phase = "path", ~atEnd, ~triggered,
         NEW os, Keeps(objects, os), NEW k \in Nat, Fresh(stack, ThisCall, k), ~os[k].stopped,
         IF Top.kind = "trigger" THEN k = Top.obj ELSE os[k].native = Top.obj,
         NEW t, Len(t) = Len(stack) + 1, \A i \in 1..(Len(stack) - 1) : t[i] = stack[i],
         Goes(t[Len(stack)], Top), t[Len(stack)].phase = "path",
         t[Len(t)] = Dispatch(k, Top.at, ThisCall, handlers(Top.at, Top.node))
  PROVE  LET m == Len(stack)  f == t[m]  g == t[m + 1] IN
         /\ g.call = ThisCall /\ Fresh(stack, ThisCall, g.obj) /\ Under(leveraged, os, f, g)
         /\ FrameFits(leveraged, events, os, f, g, NoFrame, history[ThisCall])
         /\ Beginning(leveraged, saved, os, t, history)
<1>. DEFINE m == Len(stack)
            f == t[m]
            at == Top.at
            q == handlers(at, Top.node)
            g == Dispatch(k, at, ThisCall, q)
            log == history[ThisCall].log
            l == events[at]
<1>1. /\ m \in Nat /\ m >= 1 /\ Top = stack[m] /\ Top \in Frames /\ Top.call = ThisCall
      /\ RootFits(leveraged, events, objects, Lower(stack, m), Top, history[ThisCall])
      /\ Begins(leveraged, saved, objects, stack, Lower(stack, m), Top, log)
      /\ history[ThisCall] \in Calls
  <2>1. /\ m \in Nat /\ m >= 1 /\ Top = stack[m] /\ Top \in Frames /\ Top.call = ThisCall
        /\ FrameFits(leveraged, events, objects, Lower(stack, m), Top, NoFrame, history[ThisCall])
        /\ Begins(leveraged, saved, objects, stack, Lower(stack, m), Top, log)
        /\ history[ThisCall] \in Calls
    BY TopHeld
  <2>. QED
    BY <2>1 DEF FrameFits
<1>2. Fits(leveraged, Top, objects) /\ Top.obj \in 1..Len(objects)
  BY OnTop
<1>3. OnWay(Lower(stack, m), Top)
  BY OnItsWay
<1>4. at \in Elements /\ at <= Depth
  BY OnTheWay
<1>5. at \in Nat /\ at <= LastOf(leveraged, Top) /\ ~objects[Top.obj].stopped
      /\ LastOf(leveraged, Top) \in Nat /\ Top.node \in 1..at /\ Top.node \in Elements
  <2>1. End(Top) = LastOf(leveraged, Top)
    BY DEF End, LastOf
  <2>2. ~(at > LastOf(leveraged, Top)) /\ ~objects[Top.obj].stopped
    BY <2>1 DEF atEnd
  <2>3. LastOf(leveraged, Top) \in Nat /\ Top.node \in Elements
    BY <1>1, LastElement, FrameFields
  <2>4. Top.node <= at
    BY <1>2 DEF Fits
  <2>. QED
    BY <1>4, <2>2, <2>3, <2>4, EventsAssumption DEF Elements
<1>6. leveraged => at = 1 /\ Top.node = 1
  <2>. SUFFICES ASSUME leveraged PROVE at = 1 /\ Top.node = 1
    OBVIOUS
  <2>1. Top.node = 1 /\ LastOf(leveraged, Top) = Top.node
    BY <1>2 DEF Fits, LastOf
  <2>2. \A x \in Nat : 1 \in 1..x /\ x <= 1 => x = 1
    OBVIOUS
  <2>. QED
    BY <1>5, <2>1, <2>2
<1>7. l \in Lists /\ Sorted(l) /\ Distinct(l.list) /\ (~leveraged => \A i \in 1..Len(l.list) : l.list[i] # Stub)
  BY <1>4 DEF IInv, ListsFit, ListFits, HInv, Held, BindingsFit
<1>8. Queue(q, l, at, Top.node)
  BY <1>4, <1>5, <1>7, HandlersQueue
<1>. HIDE DEF q, l
<1>9. /\ Once(q) /\ \A j \in 1..Len(q) : \E i \in 1..Len(l.list) : q[j].h = l.list[i]
      /\ leveraged => \A j \in 1..Len(q) : q[j].elem = 1
  <2>1. /\ Once(q) /\ \A j \in 1..Len(q) : \E i \in 1..Len(l.list) : q[j].h = l.list[i]
        /\ \A j \in 1..Len(q) : /\ q[j].elem = (IF q[j].h.sel = 0 THEN at ELSE q[j].h.sel)
                                /\ q[j].h.sel # 0 => q[j].h.sel \in Top.node..(at - 1)
    BY <1>7, <1>8 DEF Queue
  <2>2. leveraged => Top.node..(at - 1) = {}
    BY <1>6
  <2>. QED
    BY <1>6, <2>1, <2>2
<1>10. \A j \in 1..Len(q) : q[j].h.id \in Ids => q[j].h \in Bound(l)
  BY <1>7, <1>9, BoundIndex
<1>11. g.kind = "dispatch" /\ g.obj = k /\ g.node = at /\ g.elem = 0 /\ g.call = ThisCall /\ g.queue = q
       /\ t[m + 1] = g
  <2>1. Len(t) = m + 1 /\ t[Len(t)] = g
    BY DEF q
  <2>2. t[m + 1] = g
    BY <2>1
  <2>. HIDE DEF m
  <2>. QED
    BY <2>2 DEF Dispatch
<1>. HIDE DEF g
<1>12. QueueFits(leveraged, events, g)
  <2>1. SUFFICES ASSUME NEW j \in 1..Len(q), NEW n \in Elements, NEW h \in Bound(events[n]),
                        h.id = q[j].h.id
                 PROVE  n = at /\ h = q[j].h
    BY <1>9, <1>11 DEF QueueFits
  <2>2. q[j].h \in Bound(l)
    BY <1>10, <2>1 DEF Bound
  <2>3. n = at
    BY <1>4, <2>1, <2>2 DEF HInv, Held, BindingsFit, l
  <2>4. h \in Bound(l)
    BY <2>1, <2>3 DEF l
  <2>. HIDE DEF l, q, at
  <2>5. PICK x \in 1..Len(l.list) : h = l.list[x]
    BY <1>7, <2>4, BoundIndex
  <2>6. PICK y \in 1..Len(l.list) : q[j].h = l.list[y]
    BY <1>7, <2>2, BoundIndex
  <2>. QED
    BY <1>7, <2>1, <2>3, <2>5, <2>6 DEF Distinct
<1>13. ASSUME NEW j \in 1..Len(q) PROVE Unlogged(q[j].h.id, log)
  <2>1. CASE q[j].h.id \in Ids
    <3>1. at \in at..LastOf(leveraged, Top)
      BY <1>5
    <3>2. q[j].h \in Bound(events[at])
      BY <1>10, <2>1 DEF l
    <3>. QED
      BY <1>1, <1>3, <3>1, <3>2 DEF RootFits
  <2>2. CASE q[j].h.id \notin Ids
    <3>1. log \in Seq(Entries)
      BY <1>1 DEF Calls
    <3>2. \A i \in 1..Len(log) : log[i] \in Entries
      BY <3>1, ElementOfSeq
    <3>. QED
      BY <2>2, <3>2 DEF Unlogged, Entries
  <2>. QED
    BY <2>1, <2>2
<1>14. Clean(log)
  BY <1>1, <1>3, <1>5 DEF RootFits
<1>15. DispatchFits(leveraged, events, os, g, NoFrame, log)
  BY <1>11, <1>12, <1>13, <1>14 DEF DispatchFits, StoppedHere, Clean, NoFrame
<1>16. FrameFits(leveraged, events, os, f, g, NoFrame, history[ThisCall])
  BY <1>11, <1>15 DEF FrameFits, Root
<1>17. Under(leveraged, os, f, g)
  <2>1. Root(f) /\ f.at = at + 1 /\ f.kind = Top.kind /\ f.obj = Top.obj /\ f.phase = "path"
    BY DEF Goes, Root
  <2>2. g.node = f.at - 1
    BY <1>5, <1>11, <2>1
  <2>3. CASE Top.kind = "trigger"
    <3>1. objects[Top.obj].native = 0 /\ os[Top.obj] = objects[Top.obj]
      BY <1>1, <1>2, <2>3 DEF RootFits, Keeps
    <3>. QED
      BY <1>11, <2>1, <2>2, <2>3, <3>1 DEF Under
  <2>4. CASE Top.kind = "native"
    BY <1>11, <2>1, <2>2, <2>4 DEF Under
  <2>. QED
    BY <2>3, <2>4 DEF Root
<1>18. Begins(leveraged, saved, os, t, f, g, log)
  <2>1. ~Stubless(g) => leveraged
    <3>1. SUFFICES ASSUME NEW j \in 1..Len(q), q[j].h = Stub, ~leveraged PROVE FALSE
      BY <1>11 DEF Stubless
    <3>. QED
      BY <1>7, <1>9, <3>1
  <2>2. ~Stubless(g) => log = <<>>
    BY <1>1, <1>3, <1>6, <2>1 DEF Begins
  <2>3. ASSUME ~Stubless(g), ~os[g.obj].isTrigger, saved.is = "args" PROVE Fresh(t, g.call, saved.obj)
    <3>1. Top.kind # "trigger"
      <4>1. SUFFICES ASSUME Top.kind = "trigger" PROVE FALSE
        OBVIOUS
      <4>2. objects[Top.obj].isTrigger /\ os[Top.obj] = objects[Top.obj] /\ g.obj = Top.obj
        BY <1>2, <1>11, <2>1, <2>3, <4>1 DEF Fits, Keeps
      <4>. QED
        BY <2>3, <4>2
    <3>2. Top.kind = "native"
      BY <3>1 DEF Root
    <3>3. Fresh(stack, ThisCall, saved.obj)
      BY <1>1, <1>3, <1>6, <2>1, <2>3, <3>2 DEF Begins
    <3>4. SUFFICES ASSUME NEW i \in 1..Len(t), t[i].call < ThisCall PROVE t[i].obj < saved.obj
      BY <1>11 DEF Fresh
    <3>5. i \in 1..(m - 1)
      <4>1. i \in 1..(m - 1) \/ i = m \/ i = m + 1
        BY <1>1
      <4>2. f.call = ThisCall /\ g.call = ThisCall /\ ThisCall \in Nat
        BY <1>1, <1>11, OnTop DEF Goes
      <4>. QED
        BY <1>11, <3>4, <4>1, <4>2
    <3>6. i \in 1..m /\ t[i] = stack[i]
      BY <1>1, <3>5
    <3>. QED
      BY <3>3, <3>4, <3>6 DEF Fresh
  <2>. QED
    BY <1>11, <2>2, <2>3 DEF Begins, OnWay, Root
<1>19. Beginning(leveraged, saved, os, t, history)
  <2>1. Lower(t, m + 1) = f
    <3>1. m + 1 # 1 /\ (m + 1) - 1 = m
      BY <1>1
    <3>. QED
      BY <3>1 DEF Lower
  <2>. QED
    BY <1>11, <1>18, <2>1 DEF Beginning
<1>. QED
  BY <1>11, <1>16, <1>17, <1>19

\* The event that runs goes to the next element, where nothing is called.
LEMMA FurtherHeld ==
  ASSUME IInv, IInv', HInv, stack # <<>>, Root(Top), Top.phase = "path", Top.at <= Depth,
         UNCHANGED <<leveraged, events, triggered, saved, objects, history>>, stack' = Further
  PROVE  HInv'
<1>. DEFINE m == Len(stack)
<1>1. /\ m \in Nat /\ m >= 1 /\ Len(stack') = m /\ stack'[m].phase = "path" /\ Goes(stack'[m], Top)
      /\ \A i \in 1..(m - 1) : stack'[i] = stack[i]
  BY GoesFurther
<1>2. ~InMethod(Top) /\ ~InMethod(stack'[m])
  BY <1>1 DEF InMethod
<1>3. Methods(triggered, stack')
  BY <1>1, <1>2, MethodsStay
<1>4. Beginning(leveraged, saved, objects', stack', history')
  BY <1>1, RootBegins
<1>5. Keeps(objects, objects') /\ Uncalled(history, history') /\ Len(stack') # m + 1
  BY <1>1 DEF Keeps, Uncalled
<1>. QED
  BY <1>1, <1>3, <1>4, <1>5, RootGoesOn

\* The event that runs goes to the next element, where it is handled.
LEMMA HandleHeld ==
  ASSUME IInv, IInv', HInv, stack # <<>>, Root(Top), Top.phase = "path", ~atEnd,
         UNCHANGED <<leveraged, events, triggered, saved, history>>,
         NEW os, Keeps(objects, os), NEW k \in Nat, Fresh(stack, ThisCall, k), ~os[k].stopped,
         IF Top.kind = "trigger" THEN k = Top.obj ELSE os[k].native = Top.obj,
         handle(Further, os, Top.at, k)
  PROVE  HInv'
<1>. DEFINE m == Len(stack)
            g == Dispatch(k, Top.at, ThisCall, handlers(Top.at, Top.node))
<1>1. Top.at <= Depth
  BY OnTheWay
<1>2. CASE triggered
  <2>1. stack' = Further /\ UNCHANGED objects
    BY <1>2 DEF handle
  <2>. QED
    BY <1>1, <2>1, FurtherHeld
<1>3. CASE ~triggered
  <2>1. stack' = Append(Further, g) /\ objects' = os
    BY <1>3 DEF handle, handle_again
  <2>2. g.kind = "dispatch" /\ g = Dispatch(k, Top.at, ThisCall, handlers(Top.at, Top.node))
    BY DEF Dispatch
  <2>. HIDE DEF g
  <2>3. /\ m \in Nat /\ m >= 1 /\ Further \in Seq(Frames) /\ Len(Further) = m
        /\ Further[m].phase = "path" /\ Goes(Further[m], Top)
        /\ \A i \in 1..(m - 1) : Further[i] = stack[i]
    BY <1>1, GoesFurther
  <2>4. Len(stack') = m + 1 /\ stack'[m + 1] = g /\ \A i \in 1..m : stack'[i] = Further[i]
    BY <2>1, <2>3, AppendLast
  <2>5. /\ \A i \in 1..(m - 1) : stack'[i] = stack[i]
        /\ stack'[m].phase = "path" /\ Goes(stack'[m], Top)
    <3>1. m \in 1..m /\ \A i \in 1..(m - 1) : i \in 1..m
      BY <2>3
    <3>. QED
      BY <2>3, <2>4, <3>1
  <2>6. stack'[Len(stack')] = g
    BY <2>4
  <2>7. /\ stack'[m + 1].call = ThisCall /\ Fresh(stack, ThisCall, stack'[m + 1].obj)
        /\ Under(leveraged, objects', stack'[m], stack'[m + 1])
        /\ FrameFits(leveraged, events, objects', stack'[m], stack'[m + 1], NoFrame, history[ThisCall])
        /\ Beginning(leveraged, saved, objects', stack', history)
    BY <1>3, <2>1, <2>2, <2>4, <2>5, <2>6, DispatchBegins
  <2>8. ~InMethod(Top) /\ ~InMethod(stack'[m]) /\ ~InMethod(stack'[m + 1])
    BY <2>2, <2>4, <2>5 DEF InMethod
  <2>9. Methods(triggered, stack')
    BY <1>3, <2>4, <2>5, <2>8, MethodsStay
  <2>10. Keeps(objects, objects') /\ Uncalled(history, history')
    BY <2>1 DEF Uncalled
  <2>. QED
    BY <2>4, <2>5, <2>7, <2>9, <2>10, RootGoesOn
<1>. QED
  BY <1>2, <1>3

\* visit.
LEMMA VisitHeld == ASSUME IInv, IInv', HInv, visit PROVE HInv'
<1>1. /\ stack # <<>> /\ Root(Top) /\ Top.kind = "trigger" /\ Top.phase = "path" /\ ~atEnd
      /\ UNCHANGED <<leveraged, events, triggered, saved, history>>
  BY DEF visit, Phase, Running, Root, bindings, focus
<1>2. Top.at <= Depth
  BY <1>1, OnTheWay
<1>3. CASE events[Top.at].list # <<>>
  <2>1. handle(Further, objects, Top.at, Top.obj)
    BY <1>3 DEF visit
  <2>2. ~objects[Top.obj].stopped
    BY <1>1 DEF atEnd
  <2>3. Top.obj \in Nat /\ Fresh(stack, ThisCall, Top.obj)
    <3>1. /\ Top.obj \in Nat /\ Top.call = ThisCall /\ Top = stack[Len(stack)]
          /\ Len(stack) \in Nat /\ Len(stack) >= 1
      BY <1>1, OnTop
    <3>2. Len(stack) \in 1..Len(stack)
      BY <3>1
    <3>. QED
      BY <3>1, <3>2 DEF HInv, Held, FreshCalls
  <2>4. Keeps(objects, objects)
    BY DEF Keeps
  <2>. QED
    BY <1>1, <2>1, <2>2, <2>3, <2>4, HandleHeld
<1>4. CASE events[Top.at].list = <<>>
  <2>1. stack' = Further /\ UNCHANGED objects
    BY <1>4 DEF visit
  <2>. QED
    BY <1>1, <1>2, <2>1, FurtherHeld
<1>. QED
  BY <1>3, <1>4

\* A new object is younger than all.
LEMMA NewFresh ==
  ASSUME IInv, NEW c
  PROVE  Fresh(stack, c, Len(objects) + 1) /\ Len(objects) \in Nat /\ objects \in Seq(EventObjects)
<1>1. Len(objects) \in Nat /\ objects \in Seq(EventObjects)
  BY LenProperties DEF IInv, ObjectsFit
<1>2. \A i \in 1..Len(stack) : stack[i].obj \in 1..Len(objects)
  BY CallsNoted DEF Fits
<1>. QED
  BY <1>1, <1>2 DEF Fresh

\* listener.
LEMMA ListenerHeld == ASSUME IInv, IInv', HInv, listener PROVE HInv'
<1>1. /\ stack # <<>> /\ Root(Top) /\ Top.kind = "native" /\ Top.phase = "path" /\ ~atEnd
      /\ UNCHANGED <<leveraged, events, triggered, saved, history>>
  BY DEF listener, Phase, Running, Root, bindings, focus
<1>2. Top.at <= Depth
  BY <1>1, OnTheWay
<1>3. CASE Top.at \in listening
  <2>. DEFINE o == EventObject(FALSE, Top.obj)
              os == Append(objects, o)
              k == Len(objects) + 1
  <2>1. handle(Further, os, Top.at, k)
    BY <1>3 DEF listener
  <2>2. Top.obj \in Nat
    BY <1>1, OnTop
  <2>3. o \in EventObjects /\ o.native = Top.obj /\ ~o.stopped
    BY <2>2, ObjectBegins DEF EventObject
  <2>. HIDE DEF o
  <2>4. Len(objects) \in Nat /\ objects \in Seq(EventObjects) /\ Fresh(stack, ThisCall, k)
    BY NewFresh
  <2>5. os[k] = o /\ Keeps(objects, os)
    BY <2>3, <2>4, AppendLeaves DEF Keeps
  <2>6. k \in Nat
    BY <2>4
  <2>. HIDE DEF os, k
  <2>. QED
    BY <1>1, <2>1, <2>3, <2>4, <2>5, <2>6, HandleHeld
<1>4. CASE Top.at \notin listening
  <2>1. stack' = Further /\ UNCHANGED objects
    BY <1>4 DEF listener
  <2>. QED
    BY <1>1, <1>2, <2>1, FurtherHeld
<1>. QED
  BY <1>3, <1>4

\* What is excused was not called for all that.
LEMMA ExcusedUncalled ==
  ASSUME IInv, history = history' \/ excused
  PROVE  Uncalled(history, history')
<1>1. history \in Seq(Calls) /\ ThisCall = Len(history) /\ Len(history) \in Nat
  BY LenProperties DEF IInv, ThisCall
<1>2. CASE history = history'
  BY <1>2 DEF Uncalled
<1>3. CASE excused
  <2>. DEFINE e == [history[ThisCall] EXCEPT !.due = {}]
  <2>1. history' = [history EXCEPT ![ThisCall] = e]
    BY <1>3 DEF excused
  <2>2. CASE ThisCall \in 1..Len(history)
    <3>1. history[ThisCall] \in Calls
      BY <1>1, <2>2, ElementOfSeq
    <3>2. e \in Calls /\ e.due = {} /\ e.log = history[ThisCall].log
      BY <3>1 DEF Calls
    <3>. HIDE DEF e
    <3>3. Len(history') = Len(history)
          /\ \A c \in 1..Len(history) : history'[c] = IF c = ThisCall THEN e ELSE history[c]
      BY <1>1, <2>1, <2>2, <3>2, ExceptSeq
    <3>4. \A c \in 1..(Len(history) - 1) : c \in 1..Len(history) /\ c # ThisCall
      BY <1>1
    <3>. QED
      BY <3>2, <3>3, <3>4 DEF Uncalled
  <2>3. CASE ThisCall \notin 1..Len(history)
    <3>1. DOMAIN history = 1..Len(history)
      BY <1>1, LenProperties
    <3>2. history' = history
      <4>1. history = [c \in DOMAIN history |-> history[c]]
        BY <1>1
      <4>. QED
        BY <2>1, <2>3, <3>1, <4>1
    <3>. QED
      BY <3>2 DEF Uncalled
  <2>. QED
    BY <2>2, <2>3
<1>. QED
  BY <1>2, <1>3

\* tail.
LEMMA TailHeld == ASSUME IInv, IInv', HInv, tail PROVE HInv'
<1>. DEFINE m == Len(stack)
<1>1. /\ stack # <<>> /\ Root(Top) /\ Top.kind = "trigger" /\ Top.phase = "tail"
      /\ UNCHANGED <<leveraged, events, saved>>
  BY DEF tail, Phase, Running, Root, bindings
<1>2. m \in Nat /\ m >= 1
  BY <1>1, GoesFurther
<1>3. CASE stack' = InPhase("over") /\ UNCHANGED <<triggered, active, late, objects, history>>
  <2>1. /\ Len(stack') = m /\ stack'[m].phase = "over" /\ Goes(stack'[m], Top)
        /\ \A i \in 1..(m - 1) : stack'[i] = stack[i]
    BY <1>1, <1>3, GoesFurther
  <2>2. ~InMethod(Top) /\ ~InMethod(stack'[m])
    BY <1>1, <2>1 DEF InMethod
  <2>3. Methods(triggered', stack')
    BY <1>1, <1>3, <2>1, <2>2, MethodsStay
  <2>4. Beginning(leveraged, saved, objects', stack', history')
    BY <1>1, <2>1, RootBegins
  <2>5. Keeps(objects, objects') /\ Uncalled(history, history') /\ Len(stack') # m + 1
    BY <1>2, <1>3, <2>1 DEF Keeps, Uncalled
  <2>. QED
    BY <1>1, <2>1, <2>3, <2>4, <2>5, RootGoesOn
<1>4. ASSUME triggered' = TRUE, method(InPhase("method"), objects, Top.node)
      PROVE  HInv'
  <2>. DEFINE t == InPhase("method")
              k == Len(objects) + 1
              g == Native(k, Top.node, ThisCall)
              o == EventObject(FALSE, 0)
  <2>1. /\ t \in Seq(Frames) /\ Len(t) = m /\ t[m].phase = "method" /\ Goes(t[m], Top)
        /\ \A i \in 1..(m - 1) : t[i] = stack[i]
    BY <1>1, GoesFurther
  <2>. HIDE DEF t
  <2>2. t[m].kind = "trigger" /\ t[m].call = ThisCall /\ InMethod(t[m])
    BY <1>1, <2>1, OnTop DEF Goes, InMethod
  <2>3. \A i \in 1..(m - 1) : ~InMethod(t[i])
    BY <1>1, <2>1, NoMethodBelow
  <2>4. ASSUME stack' = t, objects' = objects, Uncalled(history, history') PROVE HInv'
    <3>1. Methods(triggered', t)
      <4>1. m \in 1..m /\ m >= m - 1 /\ \A i \in 1..m : i = m \/ i \in 1..(m - 1)
        BY <1>2
      <4>. QED
        BY <1>4, <2>1, <2>2, <2>3, <4>1 DEF Methods
    <3>2. Beginning(leveraged, saved, objects', t, history')
      BY <1>1, <2>1, RootBegins
    <3>3. Keeps(objects, objects') /\ Len(stack') # m + 1
      BY <1>2, <2>1, <2>4 DEF Keeps
    <3>. QED
      BY <1>1, <2>1, <2>4, <3>1, <3>2, <3>3, RootGoesOn
  <2>5. CASE objects' = Append(objects, o) /\ stack' = Append(t, g) /\ UNCHANGED history
    <3>1. o \in EventObjects
      BY ObjectBegins
    <3>. HIDE DEF o
    <3>2. Fresh(stack, ThisCall, k) /\ Len(objects) \in Nat /\ objects \in Seq(EventObjects)
      BY NewFresh
    <3>3. Keeps(objects, objects') /\ Uncalled(history, history')
      BY <2>5, <3>1, <3>2, AppendLeaves DEF Keeps, Uncalled
    <3>4. g.kind = "native" /\ g.obj = k /\ g.call = ThisCall
      BY DEF Native
    <3>. HIDE DEF g, k
    <3>5. Len(stack') = m + 1 /\ stack'[m + 1] = g /\ \A i \in 1..m : stack'[i] = t[i]
      BY <2>1, <2>5, AppendLast
    <3>6. m \in 1..m /\ \A i \in 1..(m - 1) : i \in 1..m
      BY <1>2
    <3>7. stack'[m] = t[m] /\ \A i \in 1..(m - 1) : stack'[i] = stack[i] /\ stack'[i] = t[i]
      BY <2>1, <3>5, <3>6
    <3>8. Under(leveraged, objects', t[m], g)
      BY <2>2, <3>4 DEF Under, InMethod
    <3>9. FrameFits(leveraged, events, objects', t[m], g, NoFrame, history'[ThisCall])
      BY <2>2, <3>4 DEF FrameFits, RootFits, OnWay, Root
    <3>10. Methods(triggered', stack')
      <4>1. m \in 1..(m + 1) /\ m >= (m + 1) - 1 /\ (m + 1) >= (m + 1) - 1
            /\ \A i \in 1..(m + 1) : i = m \/ i = m + 1 \/ i \in 1..(m - 1)
        BY <1>2
      <4>2. \A i \in 1..(m + 1) : InMethod(stack'[i]) => i >= (m + 1) - 1
        BY <2>3, <3>7, <4>1
      <4>. QED
        BY <1>4, <2>2, <3>5, <3>7, <4>1, <4>2 DEF Methods
    <3>11. Beginning(leveraged, saved, objects', stack', history')
      <4>1. Lower(stack', m + 1) = t[m]
        <5>1. m + 1 # 1 /\ (m + 1) - 1 = m
          BY <1>2
        <5>. QED
          BY <3>7, <5>1 DEF Lower
      <4>2. ~OnWay(t[m], g) /\ Stubless(g) /\ g.kind # "controller"
        BY <2>2, <3>4 DEF OnWay, Stubless
      <4>3. Begins(leveraged, saved, objects', stack', t[m], g, history'[g.call].log)
        BY <4>2, BeginsNothing
      <4>. QED
        BY <3>5, <4>1, <4>3 DEF Beginning
    <3>. QED
      BY <1>1, <2>1, <3>2, <3>3, <3>4, <3>5, <3>7, <3>8, <3>9, <3>10, <3>11, RootGoesOn
  <2>6. CASE stack' = t /\ objects' = objects /\ (history' = history \/ excused)
    BY <2>4, <2>6, ExcusedUncalled
  <2>. QED
    BY <1>4, <2>5, <2>6 DEF method, t
<1>. QED
  BY <1>3, <1>4 DEF tail

-----------------------------------------------------------------------------
(* What a dispatch calls, and what returns to it. *)

\* Of the calls, only the last one changes: fewer handlers are due, none is called twice.
Follow(hist, later) ==
  LET n == Len(hist) IN
  /\ Len(later) = n /\ \A c \in 1..(n - 1) : later[c] = hist[c]
  /\ later[n].due \subseteq hist[n].due /\ LogFits(later[n].log)

\* The frames of t from r on are those of the call n, and fit.
GoOn(lev, es, os, s, t, r, n, later) ==
  /\ \A i \in r..Len(t) : /\ t[i].call = n /\ Fresh(s, n, t[i].obj)
                          /\ FrameFits(lev, es, os, Lower(t, i), t[i], Upper(t, i), later[n])
  /\ \A i \in r..(Len(t) - 1) : Under(lev, os, t[i], t[i + 1])

\* The frames of the last call go on, from its topmost event.
LEMMA CallGoesOn ==
  ASSUME IInv, IInv', HInv, stack # <<>>, UNCHANGED leveraged,
         BindingsFit(leveraged, events', saved'), Fewer(events, events', {}),
         NEW r \in 1..Len(stack), Root(stack[r]), stack[r].call = ThisCall,
         NEW x, Fresh(stack, ThisCall, x), Leaves(objects, objects', x, stack[r].obj),
         Len(stack') >= r, stack'[r].kind = stack[r].kind, \A i \in 1..(r - 1) : stack'[i] = stack[i],
         Follow(history, history'),
         GoOn(leveraged, events', objects', stack, stack', r, ThisCall, history'),
         Methods(triggered', stack'), Beginning(leveraged, saved', objects', stack', history')
  PROVE  HInv'
<1>. DEFINE t == stack'
            n == Len(history)
<1>1. /\ StackFits(leveraged, stack, objects, n) /\ t \in Seq(Frames) /\ leveraged \in BOOLEAN
      /\ n \in Nat /\ ThisCall = n
  BY LenProperties DEF IInv, StackFits, ThisCall
<1>2. /\ Chain(leveraged, objects, stack) /\ FreshCalls(stack)
      /\ FramesFit(leveraged, events, objects, stack, history)
      /\ \A c \in 1..n : LogFits(history[c].log)
  BY DEF HInv, Held
<1>3. FramesFit(leveraged, events', objects, stack, history)
  BY <1>1, <1>2, FewerFit
<1>4. (\A c \in 1..(n - 1) : history'[c] = history[c]) /\ history'[n].due \subseteq history[n].due
      /\ LogFits(history'[n].log) /\ Len(history') = n
  BY DEF Follow
<1>. HIDE DEF n
<1>5. Below(objects, stack, history, r, objects', t, history')
  BY <1>1, <1>2, <1>4, BelowLeft
<1>6. /\ \A i \in r..Len(t) : t[i].call = stack[r].call /\ Fresh(stack, stack[r].call, t[i].obj)
      /\ \A i \in r..(Len(t) - 1) : Under(leveraged, objects', t[i], t[i + 1])
      /\ \A i \in r..Len(t) : FrameFits(leveraged, events', objects', Lower(t, i), t[i], Upper(t, i),
                                        history'[t[i].call])
  BY <1>1 DEF GoOn
<1>7. Chain(leveraged, objects', t) /\ FreshCalls(t) /\ FramesFit(leveraged, events', objects', t, history')
  BY <1>1, <1>2, <1>3, <1>5, <1>6, Resumed
<1>8. \A c \in 1..Len(history') : LogFits(history'[c].log)
  <2>1. \A c \in 1..n : c = n \/ c \in 1..(n - 1)
    BY <1>1
  <2>. QED
    BY <1>2, <1>4, <2>1
<1>9. Held(leveraged, events', saved', triggered', objects', t, history')
  BY <1>7, <1>8 DEF Held
<1>. QED
  BY <1>9 DEF HInv

\* What is younger than the calls before remains so when the last call goes on.
LEMMA FreshStays ==
  ASSUME IInv, NEW r \in 1..Len(stack), NEW c \in Nat, NEW x, Fresh(stack, c, x), NEW t,
         \A i \in 1..(r - 1) : t[i] = stack[i], \A i \in r..Len(t) : t[i].call = c, Len(t) \in Nat
  PROVE  Fresh(t, c, x)
<1>1. Len(stack) \in Nat
  BY LenProperties DEF IInv, StackFits
<1>2. SUFFICES ASSUME NEW i \in 1..Len(t), t[i].call < c PROVE t[i].obj < x
  BY DEF Fresh
<1>3. i \notin r..Len(t)
  BY <1>2
<1>4. i \in 1..(r - 1) /\ i \in 1..Len(stack)
  BY <1>1, <1>3
<1>. QED
  BY <1>2, <1>4 DEF Fresh

\* What a dispatch that goes on has, and the event that it is of.
LEMMA DispatchRuns ==
  ASSUME IInv, HInv, Running("dispatch"), goesOn
  PROVE  LET m == Len(stack)  f == stack[m - 1]  e == Passed[m]  this == history[ThisCall] IN
         /\ stack # <<>> /\ ~Root(Top) /\ m \in Nat /\ m >= 2 /\ Top = stack[m] /\ Top.kind = "dispatch"
         /\ Top \in Frames /\ Top.call = ThisCall /\ ThisCall \in Nat /\ ThisCall = Len(history)
         /\ ThisCall \in 1..Len(history) /\ this \in Calls /\ LogFits(this.log)
         /\ Top.obj \in 1..Len(objects) /\ Fresh(stack, ThisCall, Top.obj)
         /\ m - 1 \in 1..m /\ Root(f) /\ f \in Frames /\ f.phase = "path" /\ f.call = ThisCall
         /\ Fresh(stack, ThisCall, f.obj)
         /\ Top.node = f.at - 1 /\ (leveraged => f.at > LastOf(leveraged, f))
         /\ objects[Top.obj].native \in {0, f.obj}
         /\ RootFits(leveraged, events, objects, Lower(stack, m - 1), f, this)
         /\ Under(leveraged, objects, f, Top)
         /\ Passed \in Seq(Frames) /\ Len(Passed) = m /\ \A i \in 1..(m - 1) : Passed[i] = stack[i]
         /\ e.kind = "dispatch" /\ e.obj = Top.obj /\ e.node = Top.node /\ e.call = ThisCall
         /\ e.queue = Tail(Top.queue) /\ e.elem = Next1.elem /\ Stubless(e)
<1>. DEFINE m == Len(stack)
            f == stack[m - 1]
            e == Passed[m]
            this == history[ThisCall]
<1>1. stack # <<>> /\ ~Root(Top) /\ Top.kind = "dispatch" /\ Top.queue # <<>>
  BY DEF Running, Root, goesOn
<1>2. /\ m \in Nat /\ m > 1 /\ Top = stack[m] /\ Top \in Frames /\ Top.call = ThisCall
      /\ ThisCall \in Nat /\ Top.obj \in 1..Len(objects) /\ Fits(leveraged, Top, objects)
  <2>1. /\ m \in Nat /\ Top = stack[m] /\ Top \in Frames /\ Top.call = ThisCall
        /\ ThisCall \in Nat /\ Top.obj \in 1..Len(objects) /\ Fits(leveraged, Top, objects)
    BY <1>1, OnTop
  <2>2. m > 1
    BY <1>1, OnTop
  <2>. QED
    BY <2>1, <2>2
<1>3. /\ ThisCall \in 1..Len(history) /\ LogFits(this.log) /\ this \in Calls /\ ThisCall = Len(history)
      /\ Under(leveraged, objects, f, Top)
  BY <1>1, <1>2, TopHeld
<1>4. m \in 1..m /\ m >= 2 /\ stack[m].kind = "dispatch" /\ m - 1 \in 1..m
  BY <1>1, <1>2
<1>5. /\ Root(f) /\ f \in Frames /\ f.phase = "path" /\ f.call = ThisCall /\ Top.node = f.at - 1
      /\ objects[Top.obj].native \in {0, f.obj}
  BY <1>2, <1>4, UnderDispatch
<1>6. Fresh(stack, ThisCall, Top.obj) /\ Fresh(stack, ThisCall, f.obj)
  BY <1>2, <1>4, <1>5 DEF HInv, Held, FreshCalls
<1>7. RootFits(leveraged, events, objects, Lower(stack, m - 1), f, this)
  <2>. DEFINE k == m - 1
  <2>1. k \in 1..Len(stack) /\ stack[k].call = ThisCall /\ Root(stack[k])
    BY <1>4, <1>5
  <2>. HIDE DEF k
  <2>2. RootFits(leveraged, events, objects, Lower(stack, k), stack[k], this)
    BY <2>1 DEF HInv, Held, FramesFit, FrameFits
  <2>. QED
    BY <2>2 DEF k
<1>8. leveraged => f.at > LastOf(leveraged, f)
  <2>. SUFFICES ASSUME leveraged PROVE f.at > LastOf(leveraged, f)
    OBVIOUS
  <2>1. Top.node = 1 /\ f.at \in Nat
    BY <1>1, <1>2, <1>5, FrameFields, EventsAssumption DEF Fits
  <2>2. Fits(leveraged, f, objects)
    BY <1>4, CallsNoted
  <2>3. f.node = 1
    BY <1>5, <2>2 DEF Fits
  <2>. QED
    BY <1>5, <2>1, <2>3 DEF LastOf
<1>9. /\ Passed \in Seq(Frames) /\ Len(Passed) = m /\ \A i \in 1..(m - 1) : Passed[i] = stack[i]
      /\ e.kind = "dispatch" /\ e.obj = Top.obj /\ e.node = Top.node /\ e.call = ThisCall
      /\ e.queue = Tail(Top.queue) /\ e.elem = Next1.elem
  <2>. DEFINE d == [Top EXCEPT !.queue = Tail(@), !.elem = Head(Top.queue).elem]
  <2>1. /\ d \in Frames /\ d.kind = "dispatch" /\ d.obj = Top.obj /\ d.node = Top.node
        /\ d.call = Top.call /\ d.queue = Tail(Top.queue) /\ d.elem = Next1.elem
    BY <1>1, <1>2, DispatchSteps DEF Next1
  <2>2. Passed = [stack EXCEPT ![m] = d]
    BY <1>2 DEF Passed, Next1
  <2>. HIDE DEF d
  <2>3. stack \in Seq(Frames)
    BY DEF IInv, StackFits
  <2>. QED
    BY <1>1, <1>2, <2>1, <2>2, <2>3, LastBecomes
<1>10. Stubless(e)
  BY <1>1, <1>9, PassedFits
<1>. QED
  BY <1>1, <1>2, <1>3, <1>4, <1>5, <1>6, <1>7, <1>8, <1>9, <1>10

\* What is left of a queue fits as all of it did, and none of it is what was first.
LEMMA QueueGoesOn ==
  ASSUME IInv, HInv, Running("dispatch"), goesOn, NEW es, Fewer(events, es, {})
  PROVE  LET e == Passed[Len(stack)]  q == Top.queue IN
         /\ QueueFits(leveraged, es, e) /\ Len(q) \in Nat /\ Len(q) >= 1 /\ Next1 = q[1]
         /\ Next1 \in Queued
         /\ \A j \in 1..Len(e.queue) : /\ j + 1 \in 1..Len(q) /\ e.queue[j] = q[j + 1]
                                       /\ q[j + 1].h.id # Next1.h.id
         /\ DispatchFits(leveraged, events, objects, Top, NoFrame, history[ThisCall].log)
         /\ Live(objects, Top, NoFrame) /\ ~objects[Top.obj].immediate
<1>. DEFINE e == Passed[Len(stack)]
            q == Top.queue
            s == e.queue
<1>1. /\ Top \in Frames /\ Top.kind = "dispatch" /\ q # <<>> /\ s = Tail(q) /\ e.node = Top.node
      /\ stack # <<>> /\ ~objects[Top.obj].immediate
  BY DispatchRuns DEF goesOn
<1>2. DispatchFits(leveraged, events, objects, Top, NoFrame, history[ThisCall].log)
  BY <1>1, TopHeld DEF FrameFits
<1>. HIDE DEF e
<1>3. /\ Len(q) \in Nat /\ Len(q) >= 1 /\ Len(s) = Len(q) - 1 /\ Next1 = q[1] /\ Next1 \in Queued
      /\ \A j \in 1..Len(s) : s[j] = q[j + 1]
  BY <1>1, DispatchSteps DEF Next1
<1>4. QueueFits(leveraged, events, Top)
  BY <1>2 DEF DispatchFits
<1>. HIDE DEF q, s
<1>5. \A j \in 1..Len(s) : j + 1 \in 1..Len(q) /\ j + 1 # 1 /\ 1 \in 1..Len(q)
  BY <1>3
<1>6. Once(q) /\ (leveraged => \A j \in 1..Len(q) : q[j].elem = 1)
  BY <1>4 DEF QueueFits, q
<1>7. \A j \in 1..Len(s) : q[j + 1].h.id # q[1].h.id
  BY <1>5, <1>6 DEF Once
<1>8. Once(s)
  <2>1. SUFFICES ASSUME NEW i \in 1..Len(s), NEW j \in 1..Len(s), s[i].h.id = s[j].h.id PROVE i = j
    BY DEF Once
  <2>2. i + 1 = j + 1
    <3>1. i + 1 \in 1..Len(q) /\ j + 1 \in 1..Len(q) /\ q[i + 1].h.id = q[j + 1].h.id
      BY <1>3, <1>5, <2>1
    <3>2. \A a, b \in 1..Len(q) : q[a].h.id = q[b].h.id => a = b
      BY <1>6 DEF Once
    <3>. QED
      BY <3>1, <3>2
  <2>. QED
    BY <1>3, <2>2
<1>9. QueueFits(leveraged, es, e)
  <2>1. ASSUME NEW j \in 1..Len(s), NEW n \in Elements, NEW h \in Bound(es[n]), h.id = s[j].h.id
        PROVE  n = e.node /\ h = s[j].h
    <3>1. h \in Bound(events[n])
      BY DEF Fewer
    <3>2. j + 1 \in 1..Len(q) /\ s[j] = q[j + 1]
      BY <1>3, <1>5
    <3>. QED
      BY <1>1, <1>4, <2>1, <3>1, <3>2 DEF QueueFits, q
  <2>2. leveraged => \A j \in 1..Len(s) : s[j].elem = 1
    BY <1>3, <1>5, <1>6
  <2>. QED
    BY <1>8, <2>1, <2>2 DEF QueueFits, s
<1>10. ~objects[Top.obj].immediate /\ Live(objects, Top, NoFrame)
  BY <1>1 DEF Live, NoFrame
<1>. QED
  BY <1>2, <1>3, <1>5, <1>7, <1>9, <1>10 DEF e, q, s

\* The handler bound as x was called, and has not stopped the event; or none was.
LogGoesOn(old, x, log) ==
  \/ log = old
  \/ \E entry \in Entries : entry.id = x /\ entry.stops = "no" /\ log = Append(old, entry)

\* A dispatch that has called the first of its queue, or had nothing to call there, has
\* what it has for the rest.
LEMMA PassingFits ==
  ASSUME IInv, HInv, Running("dispatch"), goesOn, NEW es, Fewer(events, es, {}),
         NEW os, Same(objects[Top.obj], os[Top.obj]), NEW up, up.kind \in {"none", "handler"},
         NEW log, LogGoesOn(history[ThisCall].log, Next1.h.id, log)
  PROVE  /\ DispatchFits(leveraged, es, os, Passed[Len(stack)], up, log)
         /\ Clean(log) <=> Clean(history[ThisCall].log)
<1>. DEFINE e == Passed[Len(stack)]
            q == Top.queue
            s == e.queue
            old == history[ThisCall].log
<1>1. /\ e.kind = "dispatch" /\ e.obj = Top.obj /\ e.node = Top.node /\ e.elem = Next1.elem
      /\ history[ThisCall] \in Calls
  BY DispatchRuns
<1>2. /\ QueueFits(leveraged, es, e) /\ Len(q) \in Nat /\ Len(q) >= 1 /\ Next1 = q[1]
      /\ \A j \in 1..Len(s) : j + 1 \in 1..Len(q) /\ s[j] = q[j + 1] /\ q[j + 1].h.id # Next1.h.id
      /\ DispatchFits(leveraged, events, objects, Top, NoFrame, old)
      /\ Live(objects, Top, NoFrame) /\ ~objects[Top.obj].immediate
  BY QueueGoesOn
<1>. HIDE DEF e
<1>3. /\ \A j \in 1..Len(q) : Unlogged(q[j].h.id, old)
      /\ StoppedHere(Top, objects[Top.obj].stopped, old)
      /\ objects[Top.obj].stopped /\ Clean(old) => \A j \in 1..Len(q) : q[j].elem = Top.elem
  BY <1>2 DEF DispatchFits
<1>4. old \in Seq(Entries)
  BY <1>1 DEF Calls
<1>5. /\ Len(old) \in Nat /\ Len(old) <= Len(log) /\ \A i \in 1..Len(old) : log[i] = old[i] /\ i \in 1..Len(log)
      /\ \A i \in 1..Len(log) : i \in 1..Len(old) \/ (log[i].id = Next1.h.id /\ log[i].stops = "no")
  <2>1. Len(old) \in Nat
    BY <1>4, LenProperties
  <2>2. CASE log = old
    BY <2>1, <2>2
  <2>3. ASSUME NEW entry \in Entries, entry.id = Next1.h.id, entry.stops = "no", log = Append(old, entry)
        PROVE  /\ Len(old) <= Len(log) /\ \A i \in 1..Len(old) : log[i] = old[i] /\ i \in 1..Len(log)
               /\ \A i \in 1..Len(log) : i \in 1..Len(old) \/ (log[i].id = Next1.h.id /\ log[i].stops = "no")
    <3>1. Len(log) = Len(old) + 1 /\ log[Len(old) + 1] = entry /\ \A i \in 1..Len(old) : log[i] = old[i]
      BY <1>4, <2>3, AppendProperties
    <3>2. \A i \in 1..Len(log) : i \in 1..Len(old) \/ i = Len(old) + 1
      BY <2>1, <3>1
    <3>. QED
      BY <2>1, <2>3, <3>1, <3>2
  <2>. QED
    BY <2>1, <2>2, <2>3 DEF LogGoesOn
<1>. HIDE DEF q, s, old
<1>6. ASSUME NEW j \in 1..Len(s) PROVE Unlogged(s[j].h.id, log)
  BY <1>2, <1>3, <1>5 DEF Unlogged
<1>7. objects[Top.obj].stopped => Next1.elem = Top.elem
  BY DEF goesOn
<1>8. StoppedHere(e, objects[Top.obj].stopped, log)
  <2>1. SUFFICES ASSUME NEW i \in 1..Len(log)
                 PROVE  /\ log[i].stops # "now"
                        /\ log[i].stops = "stop" =>
                             objects[Top.obj].stopped /\ log[i].node = e.node /\ log[i].elem = e.elem
    BY DEF StoppedHere
  <2>2. CASE i \in 1..Len(old)
    BY <1>1, <1>3, <1>5, <1>7, <2>2 DEF StoppedHere
  <2>3. CASE log[i].stops = "no"
    BY <2>3
  <2>. QED
    BY <1>5, <2>2, <2>3
<1>9. Clean(log) <=> Clean(old)
  BY <1>5 DEF Clean
<1>10. ASSUME objects[Top.obj].stopped, Clean(log) PROVE \A j \in 1..Len(s) : s[j].elem = e.elem
  BY <1>1, <1>2, <1>3, <1>7, <1>9, <1>10
<1>11. os[e.obj].stopped = objects[Top.obj].stopped /\ ~os[e.obj].immediate
  BY <1>1, <1>2 DEF Same
<1>12. DispatchFits(leveraged, es, os, e, up, log)
  BY <1>2, <1>6, <1>8, <1>10, <1>11 DEF DispatchFits, s
<1>. QED
  BY <1>9, <1>12 DEF e, old

\* So it has when it was the stub that was first: then nothing was called at all.
LEMMA PassingStub ==
  ASSUME IInv, HInv, Calling({"stub"})
  PROVE  LET log == history[ThisCall].log IN
         /\ leveraged /\ log = <<>> /\ goesOn /\ Running("dispatch") /\ stack # <<>> /\ Next1.h = Stub
         /\ \A h : Unlogged(h, log)
         /\ Clean(log)
         /\ \A os, up : up.kind # "handler" =>
              DispatchFits(leveraged, events, os, Passed[Len(stack)], up, log)
         /\ saved.is = "args" /\ ~objects[Top.obj].isTrigger => Fresh(stack, ThisCall, saved.obj)
<1>. DEFINE e == Passed[Len(stack)]
            log == history[ThisCall].log
<1>1. /\ leveraged /\ goesOn /\ Running("dispatch") /\ stack # <<>> /\ Next1.h = Stub /\ ~Stubless(Top)
  BY StubCalled DEF Calling
<1>2. /\ log = <<>> /\ (saved.is = "args" /\ ~objects[Top.obj].isTrigger => Fresh(stack, ThisCall, saved.obj))
  BY <1>1, TopHeld DEF Begins
<1>3. (\A h : Unlogged(h, log)) /\ Clean(log)
  BY <1>2 DEF Unlogged, Clean
<1>4. Fewer(events, events, {})
  BY DEF Fewer
<1>5. /\ QueueFits(leveraged, events, e) /\ Next1 = Top.queue[1] /\ Len(Top.queue) \in Nat
      /\ Len(Top.queue) >= 1
      /\ QueueFits(leveraged, events, Top)
  BY <1>1, <1>4, QueueGoesOn DEF DispatchFits
<1>6. e.elem = Next1.elem
  BY <1>1, DispatchRuns
<1>. HIDE DEF e
<1>7. e.elem = 1 /\ \A j \in 1..Len(e.queue) : e.queue[j].elem = 1
  <2>1. 1 \in 1..Len(Top.queue)
    BY <1>5
  <2>. QED
    BY <1>1, <1>5, <1>6, <2>1 DEF QueueFits
<1>8. ASSUME NEW os, NEW up, up.kind # "handler" PROVE DispatchFits(leveraged, events, os, e, up, log)
  <2>1. StoppedHere(e, os[e.obj].stopped, log)
    BY <1>2 DEF StoppedHere
  <2>. QED
    BY <1>3, <1>5, <1>7, <1>8, <2>1 DEF DispatchFits
<1>. QED
  BY <1>1, <1>2, <1>3, <1>8 DEF e

\* A dispatch goes on, and may give way to what it calls.
LEMMA DispatchGoesOn ==
  ASSUME IInv, IInv', HInv, Running("dispatch"), goesOn, UNCHANGED <<leveraged, triggered>>,
         BindingsFit(leveraged, events', saved'), Fewer(events, events', {}),
         NEW x, Fresh(stack, ThisCall, x),
         Leaves(objects, objects', x, stack[Len(stack) - 1].obj), Follow(history, history'),
         LET m == Len(stack)  f == stack[m - 1]  t == stack'  this == history'[ThisCall] IN
         /\ Len(t) >= m /\ \A i \in 1..m : t[i] = Passed[i]
         /\ RootFits(leveraged, events', objects', Lower(stack, m - 1), f, this)
         /\ DispatchFits(leveraged, events', objects', Passed[m], Upper(t, m), this.log)
         /\ \A i \in (m + 1)..Len(t) :
              /\ t[i].call = ThisCall /\ Fresh(stack, ThisCall, t[i].obj) /\ ~InMethod(t[i])
              /\ Under(leveraged, objects', t[i - 1], t[i])
              /\ FrameFits(leveraged, events', objects', t[i - 1], t[i], Upper(t, i), this),
         Beginning(leveraged, saved', objects', stack', history')
  PROVE  HInv'
<1>. DEFINE m == Len(stack)
            r == m - 1
            f == stack[m - 1]
            e == Passed[m]
            t == stack'
            this == history'[ThisCall]
<1>1. /\ stack # <<>> /\ ~Root(Top) /\ m \in Nat /\ m >= 2 /\ Top.call = ThisCall
      /\ Top.obj \in 1..Len(objects) /\ Fresh(stack, ThisCall, Top.obj)
      /\ r \in 1..m /\ Root(f) /\ f.call = ThisCall /\ Fresh(stack, ThisCall, f.obj)
      /\ Under(leveraged, objects, f, Top)
      /\ \A i \in 1..(m - 1) : Passed[i] = stack[i]
      /\ e.kind = "dispatch" /\ e.obj = Top.obj /\ e.node = Top.node /\ e.call = ThisCall
      /\ Top.kind = "dispatch"
  BY DispatchRuns
<1>2. Len(t) \in Nat /\ Len(t) >= m
  BY LenProperties DEF IInv, StackFits
<1>3. /\ t[m] = e /\ \A i \in 1..(m - 1) : t[i] = stack[i]
      /\ t[m - 1] = f /\ \A i \in 1..(r - 1) : t[i] = stack[i]
  <2>1. m \in 1..m /\ m - 1 \in 1..m /\ m - 1 \in 1..(m - 1)
        /\ (\A i \in 1..(m - 1) : i \in 1..m) /\ \A i \in 1..((m - 1) - 1) : i \in 1..(m - 1)
    BY <1>1
  <2>. QED
    BY <1>1, <2>1
<1>4. Lower(t, m) = f /\ Upper(t, r) = e /\ Lower(t, r) = Lower(stack, r)
  <2>1. m # 1 /\ r # Len(t) /\ r + 1 = m /\ (r = 1 \/ r - 1 \in 1..(r - 1))
    <3>1. \A y \in Nat : y >= 2 => /\ y # 1 /\ (y - 1) + 1 = y /\ y - 1 # y
                                   /\ (y - 1 = 1 \/ (y - 1) - 1 \in 1..((y - 1) - 1))
      OBVIOUS
    <3>2. r # Len(t)
      BY <1>1, <1>2
    <3>. QED
      BY <1>1, <3>1, <3>2
  <2>. QED
    BY <1>3, <2>1 DEF Lower, Upper
<1>5. \A i \in r..Len(t) : i = r \/ i = m \/ i \in (m + 1)..Len(t)
  BY <1>1, <1>2
<1>6. ASSUME NEW i \in r..Len(t)
      PROVE  /\ t[i].call = ThisCall /\ Fresh(stack, ThisCall, t[i].obj)
             /\ FrameFits(leveraged, events', objects', Lower(t, i), t[i], Upper(t, i), this)
  <2>1. CASE i = r
    <3>1. FrameFits(leveraged, events', objects', Lower(stack, r), f, Upper(t, r), this)
      BY <1>1 DEF FrameFits, Root
    <3>. QED
      BY <1>1, <1>3, <1>4, <2>1, <3>1
  <2>2. CASE i = m
    <3>1. FrameFits(leveraged, events', objects', f, e, Upper(t, m), this)
      BY <1>1 DEF FrameFits, Root
    <3>. QED
      BY <1>1, <1>3, <1>4, <2>2, <3>1
  <2>3. CASE i \in (m + 1)..Len(t)
    <3>1. i # 1
      BY <1>1, <2>3
    <3>. QED
      BY <2>3, <3>1 DEF Lower
  <2>. QED
    BY <1>5, <2>1, <2>2, <2>3
<1>7. ASSUME NEW i \in r..(Len(t) - 1) PROVE Under(leveraged, objects', t[i], t[i + 1])
  <2>1. CASE i = r
    <3>1. objects'[Top.obj].native = objects[Top.obj].native
      BY <1>1 DEF Leaves
    <3>2. Under(leveraged, objects', f, e)
      BY <1>1, <3>1 DEF Under, Root
    <3>3. t[i + 1] = e /\ t[i] = f
      BY <1>1, <1>3, <2>1
    <3>. QED
      BY <3>2, <3>3
  <2>2. CASE i # r
    <3>1. i + 1 \in (m + 1)..Len(t) /\ (i + 1) - 1 = i
      BY <1>1, <1>2, <2>2
    <3>. QED
      BY <3>1
  <2>. QED
    BY <2>1, <2>2
<1>8. GoOn(leveraged, events', objects', stack, t, r, ThisCall, history')
  BY <1>6, <1>7 DEF GoOn
<1>9. Methods(triggered', t)
  <2>1. ~triggered /\ \A i \in 1..m : ~InMethod(stack[i])
    BY <1>1, NoMethod
  <2>2. ~InMethod(e)
    BY <1>1 DEF InMethod
  <2>3. \A i \in 1..Len(t) : (i \in 1..(m - 1) /\ i \in 1..m) \/ i = m \/ i \in (m + 1)..Len(t)
    BY <1>1, <1>2
  <2>4. \A i \in 1..Len(t) : ~InMethod(t[i])
    BY <1>3, <2>1, <2>2, <2>3
  <2>. QED
    BY <2>1, <2>4 DEF Methods
<1>10. Len(t) >= r /\ t[r].kind = stack[r].kind /\ r \in 1..Len(stack) /\ Root(stack[r])
       /\ stack[r].call = ThisCall /\ Leaves(objects, objects', x, stack[r].obj)
  BY <1>1, <1>2, <1>3
<1>. HIDE DEF r, t, m
<1>. QED
  BY <1>1, <1>3, <1>8, <1>9, <1>10, CallGoesOn DEF t

\* Fewer handlers are due, and the log goes on, of the last call.
LEMMA FollowExcept ==
  ASSUME history \in Seq(Calls), ThisCall \in 1..Len(history), ThisCall = Len(history),
         NEW this \in Calls, this.due \subseteq history[ThisCall].due, LogFits(this.log),
         history' = [history EXCEPT ![ThisCall] = this]
  PROVE  Follow(history, history') /\ history'[ThisCall] = this
<1>1. Len(history) \in Nat
  BY LenProperties
<1>2. /\ Len(history') = Len(history)
      /\ \A c \in 1..Len(history) : history'[c] = IF c = ThisCall THEN this ELSE history[c]
  BY ExceptSeq
<1>3. \A c \in 1..(Len(history) - 1) : c \in 1..Len(history) /\ c # ThisCall
  BY <1>1
<1>. QED
  BY <1>2, <1>3 DEF Follow

\* Nothing is noted.
LEMMA FollowSame ==
  ASSUME HInv, ThisCall \in 1..Len(history), ThisCall = Len(history), UNCHANGED history
  PROVE  Follow(history, history')
  BY DEF Follow, HInv, Held

\* A dispatch whose next handler is passed over begins nothing.
LEMMA PassedBegins ==
  ASSUME IInv, HInv, Running("dispatch"), goesOn, NEW sv, NEW os, NEW hist
  PROVE  Beginning(leveraged, sv, os, Passed, hist)
<1>. DEFINE m == Len(stack)
            e == Passed[m]
<1>1. Len(Passed) = m /\ e.kind = "dispatch" /\ Stubless(e)
  BY DispatchRuns
<1>2. ~OnWay(Lower(Passed, m), e) /\ e.kind # "controller"
  BY <1>1 DEF OnWay, Root
<1>. HIDE DEF e
<1>3. Begins(leveraged, sv, os, Passed, Lower(Passed, m), e, hist[e.call].log)
  BY <1>1, <1>2, BeginsNothing
<1>. QED
  BY <1>1, <1>3 DEF Beginning, e

\* What a focus does that has its input alone: nothing further on its way.
LEMMA FocusFits ==
  ASSUME IInv, HInv, Running("dispatch"), goesOn, NEW es, NEW os, NEW c,
         LET f == stack[Len(stack) - 1] IN f.kind = "trigger" => os[f.obj].native = 0,
         c.due \subseteq history[ThisCall].due
  PROVE  LET m == Len(stack) IN
         leveraged => RootFits(leveraged, es, os, Lower(stack, m - 1), stack[m - 1], c)
<1>. DEFINE m == Len(stack)
            f == stack[m - 1]
<1>1. /\ Root(f) /\ f \in Frames /\ (leveraged => f.at > LastOf(leveraged, f))
      /\ RootFits(leveraged, events, objects, Lower(stack, m - 1), f, history[ThisCall])
  BY DispatchRuns
<1>4. f.kind = "trigger" => os[f.obj].native = 0
  OBVIOUS
<1>. HIDE DEF f, m
<1>2. f.at \in Nat /\ LastOf(leveraged, f) \in Nat
  <2>1. f \in Frames /\ Root(f)
    BY <1>1
  <2>2. f.at \in 1..(Depth + 1) /\ LastOf(leveraged, f) \in Nat
    BY <2>1, FrameFields, LastElement
  <2>. QED
    BY <2>2, EventsAssumption
<1>3. leveraged => f.at..LastOf(leveraged, f) = {} /\ ~(f.at <= LastOf(leveraged, f))
  <2>1. leveraged => f.at > LastOf(leveraged, f)
    BY <1>1
  <2>2. \A a, b \in Nat : a > b => a..b = {} /\ ~(a <= b)
    OBVIOUS
  <2>. QED
    BY <1>2, <2>1, <2>2
<1>. QED
  BY <1>1, <1>3, <1>4 DEF RootFits, f, m

\* call: what is called was not called before, and nothing has stopped the event before that.
LEMMA CallHeld == ASSUME IInv, IInv', HInv, call PROVE HInv'
<1>. DEFINE m == Len(stack)
            f == stack[m - 1]
            e == Passed[m]
            h == Handler(Top.obj, ThisCall)
            entry == [id |-> Next1.h.id, node |-> Top.node, elem |-> Next1.elem, stops |-> "no"]
            old == history[ThisCall].log
            log == Append(old, entry)
            this == [history[ThisCall] EXCEPT !.log = log]
            t == stack'
<1>1. /\ Running("dispatch") /\ goesOn /\ Next1.h.fn \in Fns
      /\ stack' = Append(Passed, h) /\ logged(entry)
      /\ UNCHANGED <<leveraged, triggered, saved, objects>>
      /\ UNCHANGED events \/ \E gone : remove(Top.node, gone)
  BY DEF call, Calling, focus, bindings
<1>2. /\ stack # <<>> /\ m \in Nat /\ m >= 2 /\ Top.kind = "dispatch" /\ Top \in Frames
      /\ ThisCall \in 1..Len(history) /\ history[ThisCall] \in Calls /\ LogFits(old)
      /\ ThisCall = Len(history) /\ ThisCall \in Nat
      /\ Top.obj \in 1..Len(objects) /\ Fresh(stack, ThisCall, Top.obj)
      /\ Root(f) /\ f \in Frames /\ Top.node = f.at - 1
      /\ RootFits(leveraged, events, objects, Lower(stack, m - 1), f, history[ThisCall])
      /\ Passed \in Seq(Frames) /\ Len(Passed) = m
      /\ e.kind = "dispatch" /\ e.obj = Top.obj /\ e.node = Top.node /\ e.elem = Next1.elem
      /\ e.call = ThisCall
  BY <1>1, DispatchRuns
<1>3. Top.node \in Elements /\ f.at \in Nat
  BY <1>2, FrameFields, EventsAssumption
<1>4. Fewer(events, events, {})
  BY DEF Fewer
<1>5. BindingsFit(leveraged, events', saved) /\ Fewer(events, events', {})
  <2>1. ASSUME NEW gone, remove(Top.node, gone)
        PROVE  BindingsFit(leveraged, events', saved) /\ Fewer(events, events', {})
    BY <1>3, <2>1, RemoveFits DEF IInv, HInv, Held
  <2>2. CASE UNCHANGED events
    BY <1>4, <2>2 DEF HInv, Held
  <2>. QED
    BY <1>1, <2>1, <2>2
<1>6. /\ Next1 = Top.queue[1] /\ Next1 \in Queued /\ Len(Top.queue) \in Nat /\ Len(Top.queue) >= 1
      /\ DispatchFits(leveraged, events, objects, Top, NoFrame, old)
      /\ Live(objects, Top, NoFrame) /\ ~objects[Top.obj].immediate
  BY <1>1, <1>4, QueueGoesOn
<1>7. entry \in Entries /\ entry.id = Next1.h.id /\ entry.node = Top.node /\ entry.elem = Next1.elem
      /\ entry.stops = "no"
  <2>1. Next1.h \in Handlers
    BY <1>1, <1>6, EventsAssumption DEF Queued, Stub, ReturnTrue
  <2>. QED
    BY <1>3, <1>6, <2>1 DEF Entries, Handlers, Queued
<1>8. old \in Seq(Entries)
  BY <1>2 DEF Calls
<1>. HIDE DEF entry
<1>9. history' = [history EXCEPT ![ThisCall] = this] /\ this \in Calls
      /\ this.log = log /\ this.due = history[ThisCall].due
  <2>1. history' = [history EXCEPT ![ThisCall] = this]
    BY <1>1 DEF logged
  <2>2. log \in Seq(Entries)
    BY <1>7, <1>8, AppendProperties
  <2>. HIDE DEF log
  <2>. QED
    BY <1>2, <2>1, <2>2 DEF Calls, this
<1>. HIDE DEF this
<1>10. /\ Len(old) \in Nat /\ Len(log) = Len(old) + 1 /\ log[Len(old) + 1] = entry
       /\ \A i \in 1..Len(old) : log[i] = old[i]
       /\ \A i \in 1..Len(log) : i \in 1..Len(old) \/ i = Len(old) + 1
  BY <1>7, <1>8, AppendProperties, LenProperties
<1>11. /\ Unlogged(Next1.h.id, old) /\ StoppedHere(Top, objects[Top.obj].stopped, old)
       /\ objects[Top.obj].stopped => Next1.elem = Top.elem
  <2>1. 1 \in 1..Len(Top.queue)
    BY <1>6
  <2>. QED
    BY <1>1, <1>6, <2>1 DEF DispatchFits, goesOn
<1>12. e.kind = "dispatch" /\ h.kind = "handler" /\ h.obj = Top.obj /\ h.call = ThisCall
  BY <1>2 DEF Handler
<1>. HIDE DEF h
<1>13. DispatchFits(leveraged, events', objects', e, h, log) /\ (Clean(log) <=> Clean(old))
  <2>1. Same(objects[Top.obj], objects'[Top.obj])
    BY <1>1 DEF Same
  <2>2. LogGoesOn(history[ThisCall].log, Next1.h.id, log)
    BY <1>7 DEF LogGoesOn
  <2>3. Running("dispatch") /\ goesOn /\ Fewer(events, events', {}) /\ h.kind \in {"none", "handler"}
    BY <1>1, <1>5, <1>12
  <2>. HIDE DEF log, old, e, m
  <2>4. /\ DispatchFits(leveraged, events', objects', Passed[Len(stack)], h, log)
        /\ Clean(log) <=> Clean(history[ThisCall].log)
    BY <2>1, <2>2, <2>3, PassingFits
  <2>. QED
    BY <2>4 DEF e, m, old
<1>. HIDE DEF e, log, old
<1>14. LogFits(log)
  <2>1. SUFFICES ASSUME NEW i \in 1..Len(log), NEW j \in 1..Len(log)
                 PROVE  /\ log[i].id = log[j].id => i = j
                        /\ i < j => /\ log[i].stops # "now"
                                    /\ log[i].stops = "stop" =>
                                         log[j].node = log[i].node /\ log[j].elem = log[i].elem
    BY DEF LogFits
  <2>2. CASE i \in 1..Len(old) /\ j \in 1..Len(old)
    BY <1>2, <1>10, <2>2 DEF LogFits
  <2>3. CASE i \in 1..Len(old) /\ j = Len(old) + 1
    <3>1. log[i] = old[i] /\ log[j] = entry
      BY <1>10, <2>3
    <3>2. old[i].id # Next1.h.id
      BY <1>11, <2>3 DEF Unlogged
    <3>3. old[i].stops # "now" /\ (old[i].stops = "stop" => old[i].node = Top.node /\ old[i].elem = Next1.elem)
      BY <1>11, <2>3 DEF StoppedHere
    <3>. QED
      BY <1>7, <3>1, <3>2, <3>3
  <2>4. CASE i = Len(old) + 1 /\ j \in 1..Len(old)
    <3>1. log[j] = old[j] /\ log[i] = entry /\ ~(i < j)
      BY <1>10, <2>4
    <3>2. old[j].id # Next1.h.id
      BY <1>11, <2>4 DEF Unlogged
    <3>. QED
      BY <1>7, <3>1, <3>2
  <2>5. CASE i = Len(old) + 1 /\ j = Len(old) + 1
    BY <1>10, <2>5
  <2>. QED
    BY <1>10, <2>2, <2>3, <2>4, <2>5
<1>15. Follow(history, history') /\ history'[ThisCall] = this
  BY <1>2, <1>9, <1>14, FollowExcept DEF IInv
<1>16. RootFits(leveraged, events', objects', Lower(stack, m - 1), f, this)
  <2>. DEFINE end == LastOf(leveraged, f)
  <2>1. end \in Nat
    BY <1>2, LastElement
  <2>2. ASSUME OnWay(Lower(stack, m - 1), f), NEW n \in f.at..end, NEW g \in Bound(events'[n])
        PROVE  Unlogged(g.id, log)
    <3>1. n \in Elements
      <4>1. f.at >= 1 /\ end \in Elements
        BY <1>2, FrameFields, LastElement, EventsAssumption
      <4>. QED
        BY <1>3, <2>1, <4>1, EventsAssumption DEF Elements
    <3>2. g \in Bound(events[n])
      BY <1>5, <3>1 DEF Fewer
    <3>3. Unlogged(g.id, old)
      BY <1>2, <2>2, <3>2 DEF RootFits, old
    <3>4. g.id # Next1.h.id
      <4>1. 1 \in 1..Len(Top.queue) /\ n # Top.node
        BY <1>2, <1>3, <1>6, <2>1
      <4>2. \A q \in 1..Len(Top.queue), a \in Elements : \A b \in Bound(events[a]) :
              b.id = Top.queue[q].h.id => a = Top.node
        BY <1>6 DEF DispatchFits, QueueFits
      <4>3. g.id = Top.queue[1].h.id => n = Top.node
        BY <3>1, <3>2, <4>1, <4>2
      <4>. QED
        BY <1>6, <4>1, <4>3
    <3>. QED
      BY <1>7, <1>10, <3>3, <3>4 DEF Unlogged
  <2>. QED
    BY <1>1, <1>2, <1>9, <1>13, <2>2 DEF RootFits, old
<1>17. Len(t) = m + 1 /\ t[m + 1] = h /\ \A i \in 1..m : t[i] = Passed[i]
  BY <1>1, <1>2, AppendLast
<1>18. m + 1 # 1 /\ (m + 1) - 1 = m /\ m # m + 1 /\ m \in 1..m /\ Len(t) >= m
       /\ \A i \in (m + 1)..Len(t) : i = m + 1
  BY <1>2, <1>17
<1>19. t[m] = e /\ Lower(t, m + 1) = e /\ Upper(t, m) = h
  BY <1>17, <1>18 DEF Lower, Upper, e
<1>20. Under(leveraged, objects', e, h)
  BY <1>2, <1>12 DEF Under
<1>21. FrameFits(leveraged, events', objects', e, h, Upper(t, m + 1), this)
  <2>1. log # <<>> /\ log[Len(log)] = entry
    BY <1>10, EmptySeq
  <2>2. HandlerFits(e, log)
    BY <1>2, <1>7, <2>1 DEF HandlerFits
  <2>. QED
    BY <1>9, <1>12, <2>2 DEF FrameFits, Root
<1>22. Beginning(leveraged, saved', objects', t, history')
  <2>1. ~OnWay(e, h) /\ Stubless(h) /\ h.kind # "controller"
    BY <1>12 DEF OnWay, Stubless, Root
  <2>2. Begins(leveraged, saved', objects', t, e, h, history'[h.call].log)
    BY <2>1, BeginsNothing
  <2>. QED
    BY <1>17, <1>19, <2>2 DEF Beginning
<1>23. Leaves(objects, objects', Top.obj, f.obj)
  BY <1>1 DEF Leaves, Same
<1>24. ~InMethod(h)
  BY <1>12 DEF InMethod
<1>25. \A i \in (m + 1)..Len(t) :
         /\ t[i].call = ThisCall /\ Fresh(stack, ThisCall, t[i].obj) /\ ~InMethod(t[i])
         /\ Under(leveraged, objects', t[i - 1], t[i])
         /\ FrameFits(leveraged, events', objects', t[i - 1], t[i], Upper(t, i), this)
  BY <1>2, <1>12, <1>17, <1>18, <1>19, <1>20, <1>21, <1>24
<1>26. BindingsFit(leveraged, events', saved')
  BY <1>1, <1>5
<1>27. DispatchFits(leveraged, events', objects', Passed[m], Upper(t, m), this.log)
  BY <1>9, <1>13, <1>19 DEF e
<1>. QED
  BY <1>1, <1>2, <1>5, <1>15, <1>16, <1>17, <1>18, <1>22, <1>23, <1>25, <1>26, <1>27, DispatchGoesOn

\* A dispatch passes over the first of its queue, which may tell its event.
LEMMA PassedHeld ==
  ASSUME IInv, IInv', HInv, Running("dispatch"), goesOn, stack' = Passed,
         UNCHANGED <<leveraged, events, triggered, saved, history>>,
         Touches(objects, objects', Top.obj),
         LET m == Len(stack)  this == history[ThisCall] IN
         /\ RootFits(leveraged, events, objects', Lower(stack, m - 1), stack[m - 1], this)
         /\ DispatchFits(leveraged, events, objects', Passed[m], NoFrame, this.log)
  PROVE  HInv'
<1>. DEFINE m == Len(stack)
            f == stack[m - 1]
<1>1. /\ m \in Nat /\ ThisCall \in 1..Len(history) /\ ThisCall = Len(history)
      /\ Fresh(stack, ThisCall, Top.obj) /\ objects[Top.obj].native \in {0, f.obj}
      /\ Len(Passed) = m
  BY DispatchRuns
<1>2. Leaves(objects, objects', Top.obj, f.obj)
  BY <1>1, TouchesLeaves
<1>3. Follow(history, history')
  BY <1>1, FollowSame
<1>4. Beginning(leveraged, saved', objects', stack', history')
  BY PassedBegins
<1>5. BindingsFit(leveraged, events', saved') /\ Fewer(events, events', {})
  BY DEF HInv, Held, Fewer
<1>6. Upper(stack', m) = NoFrame /\ Len(stack') >= m /\ (m + 1)..Len(stack') = {}
  BY <1>1 DEF Upper
<1>7. ThisCall' = ThisCall
  BY DEF ThisCall
<1>. QED
  BY <1>1, <1>2, <1>3, <1>4, <1>5, <1>6, <1>7, DispatchGoesOn

\* The first of a queue, passed over: nothing further on the event's way has changed.
LEMMA QuietFits ==
  ASSUME IInv, HInv, Running("dispatch"), goesOn, NEW os, Quiet(objects, os)
  PROVE  LET m == Len(stack)  this == history[ThisCall] IN
         /\ RootFits(leveraged, events, os, Lower(stack, m - 1), stack[m - 1], this)
         /\ DispatchFits(leveraged, events, os, Passed[m], NoFrame, this.log)
         /\ Touches(objects, os, Top.obj)
<1>. DEFINE m == Len(stack)
            f == stack[m - 1]
            this == history[ThisCall]
<1>1. /\ RootFits(leveraged, events, objects, Lower(stack, m - 1), f, this)
      /\ Top.obj \in 1..Len(objects) /\ m - 1 \in 1..m
  BY DispatchRuns
<1>2. f.obj \in 1..Len(objects)
  BY <1>1, CallsNoted DEF Fits
<1>3. RootFits(leveraged, events, os, Lower(stack, m - 1), f, this)
  BY <1>1, <1>2 DEF RootFits, Quiet, Same
<1>4. Fewer(events, events, {}) /\ NoFrame.kind \in {"none", "handler"}
      /\ Same(objects[Top.obj], os[Top.obj]) /\ LogGoesOn(this.log, Next1.h.id, this.log)
  BY <1>1 DEF Fewer, NoFrame, Quiet, LogGoesOn
<1>5. DispatchFits(leveraged, events, os, Passed[m], NoFrame, this.log)
  BY <1>4, PassingFits
<1>6. Touches(objects, os, Top.obj)
  BY Together
<1>. QED
  BY <1>3, <1>5, <1>6

\* returnTrue.
LEMMA ReturnTrueHeld == ASSUME IInv, IInv', HInv, returnTrue PROVE HInv'
<1>1. /\ Running("dispatch") /\ goesOn /\ stack' = Passed
      /\ objects' = answered(objects, Top.obj, "true")
      /\ UNCHANGED <<leveraged, events, triggered, saved, history>>
  BY DEF returnTrue, Calling, bindings, focus
<1>2. Top.obj \in 1..Len(objects)
  BY <1>1, DispatchRuns
<1>3. objects \in Seq(EventObjects) /\ objects[Top.obj].native < Top.obj
  BY <1>2 DEF IInv, ObjectsFit
<1>4. "true" \in Results /\ "true" # "false"
  BY DEF Results
<1>5. Quiet(objects, objects')
  BY <1>1, <1>2, <1>3, <1>4, AnsweredTo
<1>. QED
  BY <1>1, <1>5, QuietFits, PassedHeld

\* stubIdle.
LEMMA StubIdleHeld == ASSUME IInv, IInv', HInv, stubIdle PROVE HInv'
<1>1. /\ Running("dispatch") /\ goesOn /\ stack' = Passed
      /\ UNCHANGED <<leveraged, events, triggered, saved, objects, history>>
  BY DEF stubIdle, Calling, bindings, focus
<1>2. Alike(objects, objects)
  BY DEF Alike, IInv, ObjectsFit
<1>3. Quiet(objects, objects')
  BY <1>1, <1>2 DEF Quiet, Same
<1>. QED
  BY <1>1, <1>3, QuietFits, PassedHeld

\* stubUnderWay: the event is stopped, and the handlers of the input are called.
LEMMA StubUnderWayHeld == ASSUME IInv, IInv', HInv, stubUnderWay PROVE HInv'
<1>. DEFINE m == Len(stack)
            f == stack[m - 1]
<1>1. /\ Calling({"stub"}) /\ Running("dispatch") /\ goesOn /\ stack' = Passed
      /\ objects' = stopPropagation(objects, Top.obj)
      /\ UNCHANGED <<leveraged, events, triggered, saved, history>>
  BY DEF stubUnderWay, Calling, bindings, focus
<1>2. /\ Top.obj \in 1..Len(objects) /\ m - 1 \in 1..m
      /\ RootFits(leveraged, events, objects, Lower(stack, m - 1), f, history[ThisCall])
  BY <1>1, DispatchRuns
<1>3. objects \in Seq(EventObjects) /\ objects[Top.obj].native < Top.obj
  BY <1>2 DEF IInv, ObjectsFit
<1>4. Touches(objects, objects', Top.obj)
  BY <1>1, <1>2, <1>3, HappensTo DEF Stopping
<1>5. f.obj \in 1..Len(objects)
  BY <1>2, CallsNoted DEF Fits
<1>6. f.kind = "trigger" => objects'[f.obj].native = 0
  BY <1>2, <1>4, <1>5 DEF RootFits, Touches, Alike
<1>7. leveraged => RootFits(leveraged, events, objects', Lower(stack, m - 1), f, history[ThisCall])
  BY <1>1, <1>6, FocusFits
<1>8. /\ leveraged
      /\ DispatchFits(leveraged, events, objects', Passed[m], NoFrame, history[ThisCall].log)
  BY <1>1, PassingStub DEF NoFrame
<1>. QED
  BY <1>1, <1>4, <1>7, <1>8, PassedHeld

\* The stub brings an event, to which nothing was called of the input's.
LEMMA StubBrings ==
  ASSUME IInv, IInv', HInv, Calling({"stub"}), UNCHANGED <<leveraged, events, triggered, history>>,
         NEW x, Fresh(stack, ThisCall, x),
         Leaves(objects, objects', x, stack[Len(stack) - 1].obj),
         NEW c, c.kind = "controller", c.obj = Top.obj, c.call = ThisCall, ~c.sync,
         NEW g, Root(g), g.phase = "path", g.call = ThisCall, g.node = Top.node,
         Fresh(stack, ThisCall, g.obj), objects'[g.obj].stopped = FALSE,
         g.kind = "trigger" => objects'[g.obj].native = 0,
         Len(stack') = Len(stack) + 2, \A i \in 1..Len(stack) : stack'[i] = Passed[i],
         stack'[Len(stack) + 1] = c, stack'[Len(stack) + 2] = g,
         saved'.is # "unset",
         g.kind = "native" /\ saved'.is = "args" => Fresh(stack, ThisCall, saved'.obj)
  PROVE  HInv'
<1>. DEFINE m == Len(stack)
            f == stack[m - 1]
            e == Passed[m]
            t == stack'
            this == history[ThisCall]
<1>1. /\ Running("dispatch") /\ goesOn /\ leveraged /\ this.log = <<>> /\ stack # <<>>
      /\ \A h : Unlogged(h, this.log)
      /\ Clean(this.log)
      /\ DispatchFits(leveraged, events, objects', e, c, this.log)
  BY PassingStub
<1>2. /\ m \in Nat /\ m >= 2 /\ ThisCall \in 1..Len(history) /\ ThisCall = Len(history)
      /\ ThisCall \in Nat
      /\ Fresh(stack, ThisCall, Top.obj) /\ m - 1 \in 1..m /\ this \in Calls
      /\ RootFits(leveraged, events, objects, Lower(stack, m - 1), f, this)
      /\ e.kind = "dispatch" /\ e.obj = Top.obj /\ e.node = Top.node /\ e.call = ThisCall
  BY <1>1, DispatchRuns
<1>3. f.obj \in 1..Len(objects)
  BY <1>2, CallsNoted DEF Fits
<1>4. f.kind = "trigger" => objects'[f.obj].native = 0
  BY <1>2, <1>3 DEF RootFits, Leaves
<1>5. RootFits(leveraged, events, objects', Lower(stack, m - 1), f, this)
  BY <1>1, <1>4, FocusFits
<1>. HIDE DEF e
<1>6. g.node = 1
  BY <1>1, PassedFits DEF goesOn
<1>7. /\ m + 1 # 1 /\ m + 2 # 1 /\ (m + 1) - 1 = m /\ (m + 2) - 1 = m + 1 /\ m # Len(t) /\ m + 1 # Len(t)
      /\ Len(t) >= m /\ m \in 1..m /\ m + 2 = Len(t) /\ (m + 1) + 1 = m + 2
      /\ \A i \in (m + 1)..Len(t) : i = m + 1 \/ i = m + 2
  <2>1. \A y \in Nat : y >= 2 =>
          /\ y + 1 # 1 /\ y + 2 # 1 /\ (y + 1) - 1 = y /\ (y + 2) - 1 = y + 1 /\ y # y + 2 /\ y + 1 # y + 2
          /\ y + 2 >= y /\ y \in 1..y /\ (y + 1) + 1 = y + 2
          /\ \A i \in (y + 1)..(y + 2) : i = y + 1 \/ i = y + 2
    OBVIOUS
  <2>2. Len(t) = m + 2 /\ m \in Nat /\ m >= 2
    BY <1>2
  <2>. HIDE DEF m, t
  <2>. QED
    BY <2>1, <2>2
<1>8. t[m] = e /\ Upper(t, m) = c /\ Lower(t, m + 2) = c
  BY <1>7 DEF Upper, Lower, e
<1>9. /\ FrameFits(leveraged, events, objects', e, c, g, this)
      /\ FrameFits(leveraged, events, objects', c, g, NoFrame, this)
  <2>1. FrameFits(leveraged, events, objects', e, c, g, this)
    BY DEF FrameFits, Root
  <2>2. \A d \in this.due : d.sel = 0 \/ d.sel >= g.node
    <3>1. SUFFICES ASSUME NEW d \in this.due PROVE d.sel = 0 \/ d.sel >= 1
      BY <1>6
    <3>2. d.sel \in 0..Depth
      BY <1>2 DEF Calls, Handlers
    <3>. QED
      BY <3>2, EventsAssumption
  <2>3. RootFits(leveraged, events, objects', c, g, this)
    BY <1>1, <2>2 DEF RootFits
  <2>. QED
    BY <2>1, <2>3 DEF FrameFits, Root
<1>10. Under(leveraged, objects', e, c) /\ Under(leveraged, objects', c, g)
  BY <1>1, <1>2 DEF Under
<1>11. ~InMethod(c) /\ ~InMethod(g)
  BY DEF InMethod
<1>12. Upper(t, m + 2) = NoFrame /\ Upper(t, m + 1) = g
  BY <1>7 DEF Upper
<1>13. \A i \in (m + 1)..Len(t) :
         /\ t[i].call = ThisCall /\ Fresh(stack, ThisCall, t[i].obj) /\ ~InMethod(t[i])
         /\ Under(leveraged, objects', t[i - 1], t[i])
         /\ FrameFits(leveraged, events, objects', t[i - 1], t[i], Upper(t, i), this)
  <2>. SUFFICES ASSUME NEW i \in (m + 1)..Len(t)
                PROVE  /\ t[i].call = ThisCall /\ Fresh(stack, ThisCall, t[i].obj) /\ ~InMethod(t[i])
                       /\ Under(leveraged, objects', t[i - 1], t[i])
                       /\ FrameFits(leveraged, events, objects', t[i - 1], t[i], Upper(t, i), this)
    OBVIOUS
  <2>1. CASE i = m + 1
    BY <1>2, <1>7, <1>8, <1>9, <1>10, <1>11, <1>12, <2>1
  <2>2. CASE i = m + 2
    BY <1>2, <1>7, <1>8, <1>9, <1>10, <1>11, <1>12, <2>2
  <2>. QED
    BY <1>7, <2>1, <2>2
<1>14. Beginning(leveraged, saved', objects', t, history')
  <2>1. Stubless(g) /\ g.kind # "controller"
    BY DEF Stubless, Root
  <2>2. g.kind = "native" /\ saved'.is = "args" => Fresh(t, g.call, saved'.obj)
    <3>1. SUFFICES ASSUME Fresh(stack, ThisCall, saved'.obj) PROVE Fresh(t, ThisCall, saved'.obj)
      OBVIOUS
    <3>2. \A i \in 1..(m - 1) : t[i] = stack[i]
      <4>1. \A i \in 1..(m - 1) : i \in 1..m /\ Passed[i] = stack[i]
        BY <1>1, <1>2, DispatchRuns
      <4>. QED
        BY <4>1
    <3>3. \A i \in m..Len(t) : t[i].call = ThisCall
      <4>1. \A a, b \in Nat : \A i \in a..b : i = a \/ i \in (a + 1)..b
        OBVIOUS
      <4>2. m \in Nat /\ Len(t) \in Nat
        BY <1>2
      <4>3. \A i \in m..Len(t) : i = m \/ i \in (m + 1)..Len(t)
        BY <4>1, <4>2
      <4>. QED
        BY <1>2, <1>8, <1>13, <4>3
    <3>4. Len(t) \in Nat /\ m \in 1..Len(stack)
      BY <1>2
    <3>. HIDE DEF m, t
    <3>. QED
      BY <1>2, <3>1, <3>2, <3>3, <3>4, FreshStays
  <2>3. Begins(leveraged, saved', objects', t, c, g, history'[g.call].log)
    BY <1>1, <2>1, <2>2 DEF Begins
  <2>. QED
    BY <1>7, <1>8, <2>3 DEF Beginning
<1>15. BindingsFit(leveraged, events', saved') /\ Fewer(events, events', {})
  BY DEF HInv, Held, Fewer, BindingsFit
<1>16. Follow(history, history')
  BY <1>2, FollowSame
<1>17. DispatchFits(leveraged, events', objects', Passed[m], Upper(t, m), this.log)
  BY <1>1, <1>8 DEF e
<1>. QED
  BY <1>1, <1>5, <1>7, <1>13, <1>14, <1>15, <1>16, <1>17, DispatchGoesOn

\* stubArrived: the focus that was triggered, and that nothing was called for, is triggered
\* again, with the event object it had.
LEMMA StubArrivedHeld == ASSUME IInv, IInv', HInv, stubArrived PROVE HInv'
<1>. DEFINE m == Len(stack)
            f == stack[m - 1]
            c == Controller(Top.obj, "again", FALSE, ThisCall)
            g == Trigger(saved.obj, Top.node, FALSE, ThisCall)
            o == EventObject(TRUE, 0)
            x == saved.obj
<1>1. /\ Calling({"stub"}) /\ ~objects[Top.obj].isTrigger /\ saved.is = "args"
      /\ objects' = [objects EXCEPT ![x] = o] /\ stack' = Passed \o <<c, g>>
      /\ UNCHANGED <<leveraged, events, triggered, saved, history>>
  BY DEF stubArrived, bindings, focus
<1>2. Running("dispatch") /\ goesOn /\ Fresh(stack, ThisCall, x)
  BY <1>1, PassingStub
<1>3. m \in Nat /\ Passed \in Seq(Frames) /\ Len(Passed) = m
  BY <1>2, DispatchRuns
<1>4. /\ x \in 1..Len(objects) /\ objects[x].native = 0 /\ objects \in Seq(EventObjects)
  BY <1>1 DEF IInv, SavedFits, ObjectsFit
<1>5. o \in EventObjects /\ o.native = 0 /\ o.stopped = FALSE
  BY ObjectBegins DEF EventObject
<1>6. /\ c.kind = "controller" /\ c.obj = Top.obj /\ c.call = ThisCall /\ ~c.sync
      /\ Root(g) /\ g.phase = "path" /\ g.call = ThisCall /\ g.node = Top.node /\ g.obj = x
      /\ g.kind = "trigger"
  BY DEF Controller, Trigger, Root
<1>7. Len(stack') = m + 2 /\ (\A i \in 1..m : stack'[i] = Passed[i]) /\ stack'[m + 1] = c /\ stack'[m + 2] = g
  <2>1. c \in Frames /\ g \in Frames
    <3>1. stack' \in Seq(Frames)
      BY DEF IInv, StackFits
    <3>2. x \in Nat /\ Top.node \in Elements /\ Top.obj \in Nat /\ ThisCall \in Nat
      <4>1. stack # <<>>
        BY <1>2, DispatchRuns
      <4>. QED
        BY <1>2, <1>4, <4>1, OnTop, PassedFits DEF goesOn
    <3>. QED
      BY <3>2, FramesBegin
  <2>. HIDE DEF c, g
  <2>2. stack' = Append(Append(Passed, c), g)
    BY <1>1, <1>3, <2>1
  <2>. DEFINE s == Append(Passed, c)
  <2>3. s \in Seq(Frames) /\ Len(s) = m + 1 /\ s[m + 1] = c /\ \A i \in 1..m : s[i] = Passed[i]
    BY <1>3, <2>1, AppendProperties
  <2>. HIDE DEF s
  <2>4. /\ Len(stack') = (m + 1) + 1 /\ stack'[(m + 1) + 1] = g
        /\ \A i \in 1..(m + 1) : stack'[i] = s[i]
    BY <1>3, <2>1, <2>2, <2>3, AppendProperties DEF s
  <2>5. (\A i \in 1..m : i \in 1..(m + 1)) /\ m + 1 \in 1..(m + 1) /\ (m + 1) + 1 = m + 2
    BY <1>3
  <2>. QED
    BY <2>3, <2>4, <2>5
<1>. HIDE DEF c, g, o, x
<1>8. /\ objects'[x] = o /\ \A i \in 1..Len(objects) : i # x => objects'[i] = objects[i]
  BY <1>1, <1>4, <1>5, ExceptSeq
<1>9. Leaves(objects, objects', x, f.obj)
  BY <1>4, <1>5, <1>8 DEF Leaves, Same
<1>10. /\ Calling({"stub"}) /\ UNCHANGED <<leveraged, events, triggered, history>>
       /\ Fresh(stack, ThisCall, x) /\ Leaves(objects, objects', x, stack[Len(stack) - 1].obj)
       /\ Fresh(stack, ThisCall, g.obj)
       /\ objects'[g.obj].stopped = FALSE /\ objects'[g.obj].native = 0
       /\ g.kind # "native" /\ saved'.is # "unset"
  BY <1>1, <1>2, <1>5, <1>6, <1>8, <1>9
<1>11. /\ Len(stack') = Len(stack) + 2 /\ (\A i \in 1..Len(stack) : stack'[i] = Passed[i])
       /\ stack'[Len(stack) + 1] = c /\ stack'[Len(stack) + 2] = g
  BY <1>7
<1>. HIDE DEF m, f
<1>. QED
  BY <1>6, <1>10, <1>11, StubBrings

\* The stub has called the method, and no event has come, or it comes late.
LEMMA StubWaits ==
  ASSUME IInv, IInv', HInv, Calling({"stub"}),
         UNCHANGED <<leveraged, events, triggered, objects>>, saved' = Saved("args", Top.obj, "none"),
         NEW c, c = Controller(Top.obj, "method", active, ThisCall), c \in Frames,
         stack' = Append(Passed, c), UNCHANGED history \/ excused
  PROVE  HInv'
<1>. DEFINE m == Len(stack)
            f == stack[m - 1]
            e == Passed[m]
            t == stack'
            this == history'[ThisCall]
            log == history[ThisCall].log
<1>1. /\ Running("dispatch") /\ goesOn /\ leveraged /\ log = <<>> /\ stack # <<>>
      /\ \A up : up.kind # "handler" => DispatchFits(leveraged, events, objects, e, up, log)
  BY PassingStub
<1>2. /\ m \in Nat /\ m >= 2 /\ ThisCall \in 1..Len(history) /\ ThisCall = Len(history)
      /\ Fresh(stack, ThisCall, Top.obj) /\ m - 1 \in 1..m /\ history[ThisCall] \in Calls
      /\ LogFits(log) /\ Len(Passed) = m /\ Passed \in Seq(Frames)
      /\ RootFits(leveraged, events, objects, Lower(stack, m - 1), f, history[ThisCall])
      /\ e.kind = "dispatch" /\ e.obj = Top.obj /\ e.call = ThisCall
  BY <1>1, DispatchRuns
<1>3. Follow(history, history') /\ this.log = log /\ this.due \subseteq history[ThisCall].due
  <2>1. CASE UNCHANGED history
    BY <1>2, <2>1, FollowSame
  <2>2. CASE excused
    <3>. DEFINE new == [history[ThisCall] EXCEPT !.due = {}]
    <3>1. new \in Calls /\ new.log = log /\ new.due = {}
      BY <1>2 DEF Calls
    <3>2. history' = [history EXCEPT ![ThisCall] = new]
      BY <2>2 DEF excused
    <3>. HIDE DEF new
    <3>3. Follow(history, history') /\ this = new
      BY <1>2, <3>1, <3>2, FollowExcept DEF IInv
    <3>. QED
      BY <3>1, <3>3
  <2>. QED
    BY <2>1, <2>2
<1>. HIDE DEF this
<1>4. f.obj \in 1..Len(objects)
  BY <1>2, CallsNoted DEF Fits
<1>5. f.kind = "trigger" => objects'[f.obj].native = 0
  BY <1>2 DEF RootFits
<1>6. RootFits(leveraged, events, objects', Lower(stack, m - 1), f, this)
  BY <1>1, <1>3, <1>5, FocusFits
<1>. HIDE DEF e, log
<1>7. Len(t) = m + 1 /\ t[m + 1] = c /\ \A i \in 1..m : t[i] = Passed[i]
  BY <1>2, AppendLast
<1>8. m + 1 # 1 /\ (m + 1) - 1 = m /\ m # m + 1 /\ m \in 1..m /\ Len(t) >= m
      /\ \A i \in (m + 1)..Len(t) : i = m + 1
  BY <1>2, <1>7
<1>9. t[m] = e /\ Lower(t, m + 1) = e /\ Upper(t, m) = c
  BY <1>7, <1>8 DEF Lower, Upper, e
<1>10. /\ c.kind = "controller" /\ c.obj = Top.obj /\ c.call = ThisCall /\ c.phase = "method"
       /\ ~InMethod(c) /\ ~Root(c) /\ Stubless(c)
  BY DEF Controller, InMethod, Root, Stubless
<1>11. Under(leveraged, objects', e, c)
  BY <1>1, <1>2, <1>10 DEF Under
<1>12. FrameFits(leveraged, events, objects', e, c, Upper(t, m + 1), this)
  BY <1>10 DEF FrameFits
<1>13. \A i \in (m + 1)..Len(t) :
         /\ t[i].call = ThisCall /\ Fresh(stack, ThisCall, t[i].obj) /\ ~InMethod(t[i])
         /\ Under(leveraged, objects', t[i - 1], t[i])
         /\ FrameFits(leveraged, events, objects', t[i - 1], t[i], Upper(t, i), this)
  BY <1>2, <1>7, <1>8, <1>9, <1>10, <1>11, <1>12
<1>14. Beginning(leveraged, saved', objects', t, history')
  <2>1. ~OnWay(e, c)
    BY <1>10 DEF OnWay
  <2>2. Begins(leveraged, saved', objects', t, e, c, history'[c.call].log)
    BY <1>1, <1>3, <1>10, <2>1 DEF Begins, this
  <2>. QED
    BY <1>7, <1>9, <2>2 DEF Beginning
<1>15. BindingsFit(leveraged, events', saved') /\ Fewer(events, events', {})
  BY DEF HInv, Held, Fewer, BindingsFit, Saved
<1>16. DispatchFits(leveraged, events', objects', Passed[m], Upper(t, m), this.log)
  BY <1>1, <1>3, <1>9, <1>10 DEF e
<1>17. Leaves(objects, objects', Top.obj, f.obj)
  BY DEF Leaves, Same
<1>. HIDE DEF m, f, t
<1>18. Len(t) >= m /\ \A i \in 1..m : t[i] = Passed[i]
  BY <1>7, <1>8
<1>. QED
  BY <1>1, <1>2, <1>3, <1>6, <1>13, <1>14, <1>15, <1>16, <1>17, <1>18, DispatchGoesOn
     DEF m, f, t, this

\* stubTriggered.
LEMMA StubTriggeredHeld == ASSUME IInv, IInv', HInv, stubTriggered PROVE HInv'
<1>. DEFINE m == Len(stack)
            f == stack[m - 1]
            c == Controller(Top.obj, "method", active, ThisCall)
            o == EventObject(FALSE, 0)
            k == Len(objects) + 1
            g == Native(k, Top.node, ThisCall)
            s == Append(Passed, c)
<1>1. /\ Calling({"stub"}) /\ saved' = Saved("args", Top.obj, "none")
      /\ method(s, objects, Top.node) /\ UNCHANGED <<leveraged, events, triggered>>
  BY DEF stubTriggered, bindings
<1>2. Running("dispatch") /\ goesOn /\ leveraged
  BY <1>1, PassingStub
<1>3. /\ m \in Nat /\ Passed \in Seq(Frames) /\ Len(Passed) = m /\ stack # <<>>
      /\ Fresh(stack, ThisCall, Top.obj) /\ ThisCall \in Nat
  BY <1>2, DispatchRuns
<1>4. Top.node \in Elements /\ Top.obj \in Nat
  BY <1>2, <1>3, OnTop, PassedFits DEF goesOn
<1>5. o \in EventObjects /\ o.native = 0 /\ o.stopped = FALSE
  BY ObjectBegins DEF EventObject
<1>6. Fresh(stack, ThisCall, k) /\ Len(objects) \in Nat /\ objects \in Seq(EventObjects)
  BY NewFresh
<1>7. c \in Frames /\ (active = FALSE => ~c.sync)
  <2>1. saved.obj \in Nat /\ active \in BOOLEAN
    BY DEF IInv, SavedFits
  <2>. QED
    BY <1>3, <1>4, <2>1, FramesBegin DEF Controller
<1>8. g \in Frames
  BY <1>3, <1>4, <1>6, FramesBegin
<1>9. /\ c.kind = "controller" /\ c.obj = Top.obj /\ c.call = ThisCall
      /\ Root(g) /\ g.phase = "path" /\ g.call = ThisCall /\ g.node = Top.node /\ g.obj = k
      /\ g.kind = "native"
  BY DEF Controller, Native, Root
<1>. HIDE DEF c, g, o, k
<1>10. s \in Seq(Frames) /\ Len(s) = m + 1 /\ s[m + 1] = c /\ \A i \in 1..m : s[i] = Passed[i]
  BY <1>3, <1>7, AppendLast
<1>11. CASE /\ leveraged => ~active
            /\ objects' = Append(objects, o) /\ stack' = Append(s, g) /\ UNCHANGED history
  <2>. HIDE DEF s
  <2>1. /\ Len(stack') = (m + 1) + 1 /\ stack'[(m + 1) + 1] = g
        /\ \A i \in 1..(m + 1) : stack'[i] = s[i]
    BY <1>3, <1>8, <1>10, <1>11, AppendLast
  <2>2. (\A i \in 1..m : i \in 1..(m + 1)) /\ m + 1 \in 1..(m + 1) /\ (m + 1) + 1 = m + 2
    BY <1>3
  <2>3. Len(stack') = m + 2 /\ (\A i \in 1..m : stack'[i] = Passed[i]) /\ stack'[m + 1] = c /\ stack'[m + 2] = g
    BY <1>10, <2>1, <2>2
  <2>4. Leaves(objects, objects', Top.obj, f.obj) /\ objects'[k] = o
    BY <1>5, <1>6, <1>11, AppendLeaves DEF k
  <2>5. saved'.is = "args" /\ saved'.obj = Top.obj
    BY <1>1 DEF Saved
  <2>6. ~c.sync
    <3>1. active \in BOOLEAN
      BY DEF IInv
    <3>. QED
      BY <1>2, <1>7, <1>11, <3>1
  <2>. QED
    BY <1>1, <1>3, <1>5, <1>6, <1>9, <1>11, <2>3, <2>4, <2>5, <2>6, StubBrings
<1>12. CASE stack' = s /\ UNCHANGED objects /\ (UNCHANGED history \/ excused)
  BY <1>1, <1>7, <1>12, StubWaits DEF c
<1>. QED
  BY <1>1, <1>11, <1>12 DEF method, o, g, k

-----------------------------------------------------------------------------
(* What a handler does, and what the stub waits for. *)

\* What runs for a dispatch: the dispatch, and the event that it is of.
LEMMA HandlerRuns ==
  ASSUME IInv, HInv, stack # <<>>, Top.kind \in {"handler", "controller"}
  PROVE  LET m == Len(stack)  d == stack[m - 1]  f == stack[m - 2]  this == history[ThisCall] IN
         /\ m \in Nat /\ m >= 3 /\ Top = stack[m] /\ ~Root(Top) /\ Top.call = ThisCall
         /\ ThisCall \in 1..Len(history) /\ ThisCall = Len(history) /\ this \in Calls /\ LogFits(this.log)
         /\ Top.obj \in 1..Len(objects) /\ Fresh(stack, ThisCall, Top.obj)
         /\ objects \in Seq(EventObjects) /\ objects[Top.obj].native < Top.obj
         /\ m - 1 \in 1..m /\ d.kind = "dispatch" /\ d.obj = Top.obj /\ d.call = ThisCall /\ Stubless(d)
         /\ m - 2 \in 1..m /\ Root(f) /\ f.call = ThisCall /\ Fresh(stack, ThisCall, f.obj)
         /\ f.obj \in 1..Len(objects) /\ f \in Frames
         /\ objects[Top.obj].native = (IF f.kind = "native" THEN f.obj ELSE 0)
         /\ f.kind = "trigger" => Top.obj = f.obj
         /\ Under(leveraged, objects, f, d) /\ Under(leveraged, objects, d, Top)
         /\ RootFits(leveraged, events, objects, Lower(stack, m - 2), f, this)
         /\ DispatchFits(leveraged, events, objects, d, Top, this.log)
         /\ Top.kind = "handler" => HandlerFits(d, this.log)
<1>. DEFINE m == Len(stack)
            d == stack[m - 1]
            f == stack[m - 2]
            this == history[ThisCall]
<1>1. /\ m - 1 \in 1..m /\ m - 2 \in 1..m /\ m \in Nat
      /\ d.kind = "dispatch" /\ d.obj = Top.obj /\ d.call = ThisCall
      /\ Root(f) /\ f \in Frames /\ f.call = ThisCall
      /\ objects[Top.obj].native = (IF f.kind = "native" THEN f.obj ELSE 0)
      /\ f.kind = "trigger" => Top.obj = f.obj
      /\ Lower(stack, m) = d /\ Lower(stack, m - 1) = f /\ Upper(stack, m - 1) = Top
  BY UnderHandler
<1>2. /\ FrameFits(leveraged, events, objects, Lower(stack, m), Top, NoFrame, this)
      /\ Top = stack[m] /\ Top.call = ThisCall
      /\ ThisCall \in 1..Len(history) /\ LogFits(this.log) /\ this \in Calls /\ ThisCall = Len(history)
  BY TopHeld
<1>3. Top.obj \in 1..Len(objects)
  BY OnTop
<1>4. objects \in Seq(EventObjects) /\ objects[Top.obj].native < Top.obj
  BY <1>3 DEF IInv, ObjectsFit
<1>5. m >= 3 /\ m \in 1..m
  BY <1>1
<1>6. Fresh(stack, ThisCall, Top.obj) /\ Fresh(stack, ThisCall, f.obj)
  BY <1>1, <1>2, <1>5 DEF HInv, Held, FreshCalls
<1>7. f.obj \in 1..Len(objects)
  BY <1>1, CallsNoted DEF Fits
<1>8. /\ FrameFits(leveraged, events, objects, f, d, Top, this)
      /\ FrameFits(leveraged, events, objects, Lower(stack, m - 2), f, Upper(stack, m - 2), this)
  BY <1>1 DEF HInv, Held, FramesFit
<1>9. Under(leveraged, objects, f, d) /\ Under(leveraged, objects, d, Top)
  <2>1. m - 1 \in 1..(m - 1) /\ m - 2 \in 1..(m - 1) /\ (m - 1) + 1 = m /\ (m - 2) + 1 = m - 1
    BY <1>5
  <2>2. \A i \in 1..(m - 1) : Under(leveraged, objects, stack[i], stack[i + 1])
    BY DEF HInv, Held, Chain
  <2>3. /\ Under(leveraged, objects, stack[m - 2], stack[(m - 2) + 1])
        /\ Under(leveraged, objects, stack[m - 1], stack[(m - 1) + 1])
    BY <2>1, <2>2
  <2>. QED
    BY <1>2, <2>1, <2>3
<1>10. Stubless(d)
  <2>1. m - 1 \in 1..(m - 1)
    BY <1>5
  <2>. QED
    BY <2>1 DEF IInv, StackFits, Linked
<1>. HIDE DEF m, d, f
<1>11. /\ DispatchFits(leveraged, events, objects, d, Top, this.log)
       /\ RootFits(leveraged, events, objects, Lower(stack, m - 2), f, this)
       /\ Top.kind = "handler" => HandlerFits(d, this.log)
  BY <1>1, <1>2, <1>8 DEF FrameFits
<1>12. ~Root(Top)
  BY DEF Root
<1>. QED
  BY <1>1, <1>2, <1>3, <1>4, <1>5, <1>6, <1>7, <1>9, <1>10, <1>11, <1>12 DEF m, d, f

\* What runs for a dispatch goes on, or returns to it.
LEMMA HandlerGoesOn ==
  ASSUME IInv, IInv', HInv, stack # <<>>, Top.kind \in {"handler", "controller"},
         UNCHANGED <<leveraged, events, triggered>>, BindingsFit(leveraged, events, saved'),
         Touches(objects, objects', Top.obj), Follow(history, history'), NEW up,
         LET m == Len(stack)  d == stack[m - 1]  f == stack[m - 2]  this == history'[ThisCall] IN
         /\ \/ stack' = stack /\ up = Top /\ Top.kind = "handler" /\ HandlerFits(d, this.log)
            \/ stack' = Front(stack) /\ up = NoFrame
         /\ RootFits(leveraged, events, objects', Lower(stack, m - 2), f, this)
         /\ DispatchFits(leveraged, events, objects', d, up, this.log)
  PROVE  HInv'
<1>. DEFINE m == Len(stack)
            d == stack[m - 1]
            f == stack[m - 2]
            r == m - 2
            t == stack'
            this == history'[ThisCall]
<1>1. /\ m \in Nat /\ m >= 3 /\ Top = stack[m] /\ ~Root(Top) /\ Top.call = ThisCall
      /\ Top.obj \in 1..Len(objects) /\ Fresh(stack, ThisCall, Top.obj)
      /\ d.kind = "dispatch" /\ d.obj = Top.obj /\ d.call = ThisCall /\ Stubless(d)
      /\ r \in 1..m /\ Root(f) /\ f.call = ThisCall /\ Fresh(stack, ThisCall, f.obj)
      /\ objects[Top.obj].native = (IF f.kind = "native" THEN f.obj ELSE 0)
      /\ Under(leveraged, objects, f, d) /\ Under(leveraged, objects, d, Top)
  BY HandlerRuns
<1>2. \/ t = stack /\ Len(t) = m /\ up = Top /\ Top.kind = "handler" /\ HandlerFits(d, this.log)
      \/ t = Front(stack) /\ Len(t) = m - 1 /\ up = NoFrame
  <2>1. Len(stack) > 1
    BY <1>1
  <2>2. Len(Front(stack)) = m - 1
    BY <2>1, PopFits DEF IInv
  <2>. QED
    BY <2>2
<1>3. \A i \in 1..(m - 1) : t[i] = stack[i]
  <2>1. Len(stack) > 1
    BY <1>1
  <2>2. \A i \in 1..(m - 1) : Front(stack)[i] = stack[i]
    BY <2>1, PopFits DEF IInv
  <2>. QED
    BY <1>2, <2>2
<1>4. \A y \in Nat : y >= 3 =>
        /\ y # 1 /\ y - 1 # 1 /\ (y - 2) + 1 = y - 1 /\ (y - 1) + 1 = y /\ y - 1 \in 1..(y - 1) /\ y - 2 \in 1..(y - 1)
        /\ (y - 1) - 1 = y - 2
        /\ (y - 2 = 1 \/ (y - 2) - 1 \in 1..(y - 1)) /\ \A i \in 1..((y - 2) - 1) : i \in 1..(y - 1)
        /\ y - 2 # y /\ y - 2 # y - 1 /\ y - 1 # y
        /\ \A l \in {y, y - 1} : l >= y - 2 /\ \A i \in (y - 2)..l : i = y - 2 \/ i = y - 1 \/ (i = y /\ l = y)
        /\ \A l \in {y, y - 1} : \A i \in (y - 2)..(l - 1) : i = y - 2 \/ (i = y - 1 /\ l = y)
  OBVIOUS
<1>5. /\ t[r] = f /\ t[m - 1] = d /\ (Len(t) = m => t[m] = Top)
      /\ Lower(t, r) = Lower(stack, r) /\ Lower(t, m - 1) = f /\ Lower(t, m) = d
      /\ Upper(t, r) = d /\ Upper(t, m - 1) = up
  <2>1. t[r] = f /\ t[m - 1] = d /\ (Len(t) = m => t[m] = Top)
    BY <1>1, <1>2, <1>3, <1>4
  <2>2. Lower(t, r) = Lower(stack, r)
    BY <1>1, <1>3, <1>4 DEF Lower
  <2>3. Lower(t, m - 1) = f /\ Lower(t, m) = d
    BY <1>1, <1>4, <2>1 DEF Lower
  <2>4. Upper(t, r) = d
    BY <1>1, <1>2, <1>4, <2>1 DEF Upper
  <2>5. Upper(t, m - 1) = up
    BY <1>1, <1>2, <1>4, <2>1 DEF Upper
  <2>. QED
    BY <2>1, <2>2, <2>3, <2>4, <2>5
<1>6. objects'[Top.obj].native = objects[Top.obj].native
  BY <1>1 DEF Touches, Alike
<1>7. Under(leveraged, objects', f, d) /\ (Top.kind = "handler" => Under(leveraged, objects', d, Top))
  BY <1>1, <1>6 DEF Under, Root
<1>8. ASSUME NEW i \in r..Len(t)
      PROVE  /\ t[i].call = ThisCall /\ Fresh(stack, ThisCall, t[i].obj)
             /\ FrameFits(leveraged, events', objects', Lower(t, i), t[i], Upper(t, i), this)
  <2>1. CASE i = r
    <3>1. FrameFits(leveraged, events, objects', Lower(stack, r), f, Upper(t, r), this)
      BY <1>1 DEF FrameFits, Root
    <3>. QED
      BY <1>1, <1>5, <2>1, <3>1
  <2>2. CASE i = m - 1
    <3>1. FrameFits(leveraged, events, objects', f, d, up, this)
      BY <1>1 DEF FrameFits, Root
    <3>. QED
      BY <1>1, <1>5, <2>2, <3>1
  <2>3. CASE i = m /\ Len(t) = m
    <3>1. Top.kind = "handler" /\ HandlerFits(d, this.log)
      BY <1>1, <1>2, <1>4, <2>3
    <3>2. FrameFits(leveraged, events, objects', d, Top, Upper(t, m), this)
      BY <3>1 DEF FrameFits, Root
    <3>. QED
      BY <1>1, <1>5, <2>3, <3>2
  <2>. QED
    BY <1>1, <1>2, <1>4, <2>1, <2>2, <2>3
<1>9. ASSUME NEW i \in r..(Len(t) - 1) PROVE Under(leveraged, objects', t[i], t[i + 1])
  <2>1. CASE i = r
    BY <1>1, <1>4, <1>5, <1>7, <2>1
  <2>2. CASE i = m - 1 /\ Len(t) = m
    BY <1>1, <1>2, <1>4, <1>5, <1>7, <2>2
  <2>. QED
    BY <1>1, <1>2, <1>4, <2>1, <2>2
<1>10. GoOn(leveraged, events', objects', stack, t, r, ThisCall, history')
  BY <1>8, <1>9 DEF GoOn
<1>11. Methods(triggered', t)
  <2>1. ~triggered /\ \A i \in 1..m : ~InMethod(stack[i])
    BY <1>1, NoMethod
  <2>2. \A i \in 1..Len(t) : i \in 1..m /\ (i \in 1..(m - 1) \/ t = stack)
    BY <1>1, <1>2
  <2>3. \A i \in 1..Len(t) : ~InMethod(t[i])
    BY <1>3, <2>1, <2>2
  <2>. QED
    BY <2>1, <2>3 DEF Methods
<1>12. Beginning(leveraged, saved', objects', t, history')
  <2>1. CASE Len(t) = m /\ Top.kind = "handler"
    <3>1. ~OnWay(d, Top) /\ Stubless(Top) /\ Top.kind # "controller"
      BY <1>1, <2>1 DEF OnWay, Stubless
    <3>2. Begins(leveraged, saved', objects', t, d, Top, history'[Top.call].log)
      BY <3>1, BeginsNothing
    <3>. QED
      BY <1>5, <2>1, <3>2 DEF Beginning
  <2>2. CASE Len(t) = m - 1
    <3>1. ~OnWay(f, d) /\ d.kind # "controller"
      BY <1>1 DEF OnWay, Root
    <3>2. Begins(leveraged, saved', objects', t, f, d, history'[d.call].log)
      BY <1>1, <3>1, BeginsNothing
    <3>. QED
      BY <1>5, <2>2, <3>2 DEF Beginning
  <2>. QED
    BY <1>2, <2>1, <2>2
<1>13. Fewer(events, events', {}) /\ BindingsFit(leveraged, events', saved')
  BY DEF Fewer
<1>14. Leaves(objects, objects', Top.obj, f.obj)
  <2>1. objects[Top.obj].native \in {0, f.obj}
    BY <1>1
  <2>. QED
    BY <2>1, TouchesLeaves
<1>15. /\ r \in 1..Len(stack) /\ Root(stack[r]) /\ stack[r].call = ThisCall
       /\ Len(t) >= r /\ t[r].kind = stack[r].kind /\ \A i \in 1..(r - 1) : t[i] = stack[i]
       /\ Leaves(objects, objects', Top.obj, stack[r].obj)
  BY <1>1, <1>2, <1>3, <1>4, <1>5, <1>14
<1>. HIDE DEF r, t, m
<1>. QED
  BY <1>1, <1>10, <1>11, <1>12, <1>13, <1>15, CallGoesOn DEF t

\* The log of an event that its last handler stops, or stops at once: it has the entries it
\* had, of which the last one says so.
StoppedLast(log, new, how) ==
  /\ Len(new) = Len(log) /\ new \in Seq(Entries)
  /\ \A i \in 1..Len(log) :
       /\ new[i].id = log[i].id /\ new[i].node = log[i].node /\ new[i].elem = log[i].elem
       /\ i # Len(log) => new[i].stops = log[i].stops
       /\ i = Len(log) => new[i].stops = IF log[i].stops = "now" THEN "now" ELSE how

\* What stops does.
LEMMA StopsLast ==
  ASSUME history \in Seq(Calls), ThisCall \in 1..Len(history), ThisCall = Len(history),
         history[ThisCall] \in Calls, history[ThisCall].log # <<>>, LogFits(history[ThisCall].log),
         NEW how \in {"stop", "now"}, stops(how)
  PROVE  /\ Follow(history, history') /\ history'[ThisCall].due = history[ThisCall].due
         /\ StoppedLast(history[ThisCall].log, history'[ThisCall].log, how)
<1>. DEFINE log == history[ThisCall].log
            n == Len(log)
            old == log[n]
            last == [old EXCEPT !.stops = IF @ = "now" THEN @ ELSE how]
            new == stopping(log, how)
            this == [history[ThisCall] EXCEPT !.log = new]
<1>1. log \in Seq(Entries) /\ log # <<>> /\ n \in Nat
  BY LenProperties DEF Calls
<1>2. n \in 1..n /\ old \in Entries
  <2>1. n # 0
    BY <1>1, EmptySeq
  <2>2. n \in 1..n
    BY <1>1, <2>1
  <2>. QED
    BY <1>1, <2>2, ElementOfSeq
<1>3. last \in Entries /\ last.id = old.id /\ last.node = old.node /\ last.elem = old.elem
      /\ last.stops = IF old.stops = "now" THEN "now" ELSE how
  BY <1>2 DEF Entries
<1>4. new = [log EXCEPT ![n] = last]
  BY DEF stopping
<1>. HIDE DEF last, new
<1>5. /\ new \in Seq(Entries) /\ Len(new) = n
      /\ \A i \in 1..n : new[i] = IF i = n THEN last ELSE log[i]
  BY <1>1, <1>2, <1>3, <1>4, ExceptSeq
<1>6. StoppedLast(log, new, how)
  BY <1>3, <1>5 DEF StoppedLast
<1>7. LogFits(new)
  <2>1. SUFFICES ASSUME NEW i \in 1..n, NEW j \in 1..n
                 PROVE  /\ new[i].id = new[j].id => i = j
                        /\ i < j => /\ new[i].stops # "now"
                                    /\ new[i].stops = "stop" =>
                                         new[j].node = new[i].node /\ new[j].elem = new[i].elem
    BY <1>5 DEF LogFits
  <2>2. /\ new[i].id = log[i].id /\ new[i].node = log[i].node /\ new[i].elem = log[i].elem
        /\ new[j].id = log[j].id /\ new[j].node = log[j].node /\ new[j].elem = log[j].elem
        /\ i # n => new[i].stops = log[i].stops
    BY <1>6 DEF StoppedLast
  <2>3. i < j => i # n
    BY <1>1
  <2>4. /\ log[i].id = log[j].id => i = j
        /\ i < j => /\ log[i].stops # "now"
                    /\ log[i].stops = "stop" => log[j].node = log[i].node /\ log[j].elem = log[i].elem
    BY DEF LogFits
  <2>. QED
    BY <2>2, <2>3, <2>4
<1>8. this \in Calls /\ this.log = new /\ this.due = history[ThisCall].due
  BY <1>5 DEF Calls
<1>9. history' = [history EXCEPT ![ThisCall] = this]
  BY DEF stops, new
<1>. HIDE DEF this
<1>10. Follow(history, history') /\ history'[ThisCall] = this
  <2>1. this.due \subseteq history[ThisCall].due /\ LogFits(this.log)
    BY <1>7, <1>8
  <2>. QED
    BY <1>8, <1>9, <2>1, FollowExcept
<1>. QED
  BY <1>6, <1>8, <1>10

\* A handler has stopped its event: it is noted where, and that it is stopped.
LEMMA StoppingFits ==
  ASSUME IInv, HInv, Running("handler"), NEW how \in {"stop", "now"}, stops(how),
         NEW os, IF how = "now" THEN Ending(objects, os, Top.obj) ELSE Stopping(objects, os, Top.obj),
         NEW up
  PROVE  LET m == Len(stack)  d == stack[m - 1]  f == stack[m - 2]  this == history'[ThisCall] IN
         /\ Follow(history, history') /\ HandlerFits(d, this.log)
         /\ RootFits(leveraged, events, os, Lower(stack, m - 2), f, this)
         /\ DispatchFits(leveraged, events, os, d, up, this.log)
<1>. DEFINE m == Len(stack)
            d == stack[m - 1]
            f == stack[m - 2]
            c == history[ThisCall]
            this == history'[ThisCall]
            log == c.log
            new == this.log
<1>1. stack # <<>> /\ Top.kind = "handler"
  BY DEF Running
<1>2. /\ ThisCall \in 1..Len(history) /\ ThisCall = Len(history) /\ c \in Calls /\ LogFits(log)
      /\ Top.obj \in 1..Len(objects) /\ d.kind = "dispatch" /\ d.obj = Top.obj
      /\ f.obj \in 1..Len(objects) /\ Root(f)
      /\ objects[Top.obj].native = (IF f.kind = "native" THEN f.obj ELSE 0)
      /\ f.kind = "trigger" => Top.obj = f.obj
      /\ RootFits(leveraged, events, objects, Lower(stack, m - 2), f, c)
      /\ DispatchFits(leveraged, events, objects, d, Top, log)
      /\ HandlerFits(d, log)
  BY <1>1, HandlerRuns
<1>. HIDE DEF d, f, m
<1>3. Follow(history, history') /\ this.due = c.due /\ StoppedLast(log, new, how)
  <2>1. history \in Seq(Calls) /\ log # <<>>
    BY <1>2 DEF IInv, HandlerFits
  <2>. QED
    BY <1>2, <2>1, StopsLast
<1>. HIDE DEF this, c
<1>4. Len(log) \in 1..Len(log)
  <2>1. log \in Seq(Entries) /\ log # <<>>
    BY <1>2 DEF Calls, HandlerFits
  <2>2. Len(log) \in Nat /\ Len(log) # 0
    BY <2>1, LenProperties, EmptySeq
  <2>. QED
    BY <2>2
<1>5. Len(new) = Len(log) /\ new[Len(log)].stops # "no" /\ ~Clean(new)
  BY <1>3, <1>4 DEF StoppedLast, Clean
<1>6. HandlerFits(d, new)
  <2>1. new # <<>>
    BY <1>4, <1>5
  <2>. QED
    BY <1>2, <1>3, <1>4, <1>5, <2>1 DEF HandlerFits, StoppedLast
<1>7. \A x : Unlogged(x, log) => Unlogged(x, new)
  BY <1>3 DEF Unlogged, StoppedLast
<1>8. /\ os[Top.obj].stopped = TRUE /\ Touches(objects, os, Top.obj)
      /\ how = "now" => os[Top.obj].immediate = TRUE
      /\ how # "now" => os[Top.obj].immediate = objects[Top.obj].immediate
      /\ objects[Top.obj].native \in 1..Len(objects) => os[objects[Top.obj].native].stopped = TRUE
  BY DEF Ending, Stopping
<1>9. RootFits(leveraged, events, os, Lower(stack, m - 2), f, this)
  <2>1. os[f.obj].stopped = TRUE /\ os[f.obj].native = objects[f.obj].native
    BY <1>2, <1>8 DEF Root, Touches, Alike
  <2>. QED
    BY <1>2, <1>3, <1>5, <1>7, <2>1 DEF RootFits
<1>10. DispatchFits(leveraged, events, os, d, up, new)
  <2>1. Live(objects, d, Top)
    BY <1>1, <1>2 DEF Live
  <2>2. ASSUME ~os[d.obj].immediate PROVE StoppedHere(d, os[d.obj].stopped, new)
    <3>1. how = "stop" /\ ~objects[d.obj].immediate
      BY <1>2, <1>8, <2>2
    <3>2. StoppedHere(d, objects[d.obj].stopped, log)
      BY <1>2, <2>1, <3>1 DEF DispatchFits
    <3>3. SUFFICES ASSUME NEW e \in 1..Len(log)
                   PROVE  /\ new[e].stops # "now"
                          /\ new[e].stops = "stop" => new[e].node = d.node /\ new[e].elem = d.elem
      BY <1>2, <1>5, <1>8 DEF StoppedHere
    <3>4. CASE e = Len(log)
      BY <1>2, <1>3, <3>1, <3>2, <3>4 DEF StoppedHere, StoppedLast, HandlerFits
    <3>5. CASE e # Len(log)
      BY <1>3, <3>2, <3>5 DEF StoppedHere, StoppedLast
    <3>. QED
      BY <3>4, <3>5
  <2>. QED
    BY <1>2, <1>5, <1>7, <2>1, <2>2 DEF DispatchFits
<1>. QED
  BY <1>3, <1>6, <1>9, <1>10 DEF d, f, m, this

\* stop.
LEMMA StopHeld ==
  ASSUME IInv, IInv', HInv, NEW how \in {"stop", "now"}, stop(how)
  PROVE  HInv'
<1>1. /\ Running("handler") /\ stack # <<>> /\ Top.kind = "handler" /\ stops(how)
      /\ objects' = IF how = "now" THEN stopImmediatePropagation(objects, Top.obj)
                                   ELSE stopPropagation(objects, Top.obj)
      /\ UNCHANGED <<leveraged, events, triggered, saved, stack>>
  BY DEF stop, Running, bindings, focus
<1>2. Top.obj \in 1..Len(objects) /\ objects \in Seq(EventObjects) /\ objects[Top.obj].native < Top.obj
  BY <1>1, HandlerRuns
<1>3. IF how = "now" THEN Ending(objects, objects', Top.obj) ELSE Stopping(objects, objects', Top.obj)
  BY <1>1, <1>2, HappensTo
<1>4. Touches(objects, objects', Top.obj)
  BY <1>3 DEF Ending, Stopping
<1>5. LET m == Len(stack)  d == stack[m - 1]  f == stack[m - 2]  this == history'[ThisCall] IN
      /\ Follow(history, history') /\ HandlerFits(d, this.log)
      /\ RootFits(leveraged, events, objects', Lower(stack, m - 2), f, this)
      /\ DispatchFits(leveraged, events, objects', d, Top, this.log)
  BY <1>1, <1>3, StoppingFits
<1>6. BindingsFit(leveraged, events, saved')
  BY <1>1 DEF HInv, Held
<1>. QED
  BY <1>1, <1>4, <1>5, <1>6, HandlerGoesOn

\* return: FALSE stops the event too.
LEMMA ReturnHeld ==
  ASSUME IInv, IInv', HInv, NEW result \in Results, return(result)
  PROVE  HInv'
<1>. DEFINE m == Len(stack)
            d == stack[m - 1]
            f == stack[m - 2]
            this == history[ThisCall]
<1>1. /\ Running("handler") /\ stack # <<>> /\ Top.kind = "handler"
      /\ objects' = answered(objects, Top.obj, result) /\ stack' = Front(stack)
      /\ IF result = "false" THEN stops("stop") ELSE UNCHANGED history
      /\ UNCHANGED <<leveraged, events, triggered, saved>>
  BY DEF return, Running, bindings, focus
<1>2. /\ Top.obj \in 1..Len(objects) /\ objects \in Seq(EventObjects) /\ objects[Top.obj].native < Top.obj
      /\ ThisCall \in 1..Len(history) /\ ThisCall = Len(history)
      /\ d.kind = "dispatch" /\ d.obj = Top.obj /\ f.obj \in 1..Len(objects)
      /\ RootFits(leveraged, events, objects, Lower(stack, m - 2), f, this)
      /\ DispatchFits(leveraged, events, objects, d, Top, this.log)
  BY <1>1, HandlerRuns
<1>3. IF result = "false" THEN Stopping(objects, objects', Top.obj) ELSE Quiet(objects, objects')
  BY <1>1, <1>2, AnsweredTo
<1>4. BindingsFit(leveraged, events, saved')
  BY <1>1 DEF HInv, Held
<1>5. CASE result = "false"
  <2>1. Touches(objects, objects', Top.obj)
    BY <1>3, <1>5 DEF Stopping
  <2>2. LET e == stack[Len(stack) - 1]  g == stack[Len(stack) - 2]  c == history'[ThisCall] IN
        /\ Follow(history, history') /\ HandlerFits(e, c.log)
        /\ RootFits(leveraged, events, objects', Lower(stack, Len(stack) - 2), g, c)
        /\ DispatchFits(leveraged, events, objects', e, NoFrame, c.log)
    BY <1>1, <1>3, <1>5, StoppingFits
  <2>. QED
    BY <1>1, <1>4, <2>1, <2>2, HandlerGoesOn
<1>6. CASE result # "false"
  <2>1. Quiet(objects, objects') /\ UNCHANGED history
    BY <1>1, <1>3, <1>6
  <2>2. Touches(objects, objects', Top.obj)
    BY <2>1, Together
  <2>3. Follow(history, history')
    BY <1>2, <2>1, FollowSame
  <2>. HIDE DEF m, d, f, this
  <2>4. Same(objects[Top.obj], objects'[Top.obj]) /\ Same(objects[f.obj], objects'[f.obj])
    BY <1>2, <2>1 DEF Quiet
  <2>5. RootFits(leveraged, events, objects', Lower(stack, m - 2), f, this)
    BY <1>2, <2>4 DEF RootFits, Same
  <2>6. Live(objects, d, Top) /\ Live(objects', d, NoFrame) => ~objects[d.obj].immediate
    BY <1>1, <1>2, <2>4 DEF Live, NoFrame, Same
  <2>7. Live(objects, d, Top)
    BY <1>1, <1>2 DEF Live
  <2>8. DispatchFits(leveraged, events, objects', d, NoFrame, this.log)
    BY <1>2, <2>4, <2>7 DEF DispatchFits, Same, NoFrame
  <2>9. history'[ThisCall] = this
    BY <2>1 DEF this
  <2>. QED
    BY <1>1, <1>4, <2>2, <2>3, <2>5, <2>8, <2>9, HandlerGoesOn DEF m, d, f
<1>. QED
  BY <1>5, <1>6

\* The stub has waited: nothing further on the event's way is called for a focus.
LEMMA WaitedFits ==
  ASSUME IInv, HInv, stack # <<>>, Top.kind = "controller",
         NEW os, Touches(objects, os, Top.obj), UNCHANGED history
  PROVE  LET m == Len(stack) IN
         /\ Follow(history, history')
         /\ RootFits(leveraged, events, os, Lower(stack, m - 2), stack[m - 2], history'[ThisCall])
<1>. DEFINE m == Len(stack)
            d == stack[m - 1]
            f == stack[m - 2]
            this == history[ThisCall]
<1>1. /\ ThisCall \in 1..Len(history) /\ ThisCall = Len(history) /\ f.obj \in 1..Len(objects)
      /\ Root(f) /\ f \in Frames /\ Under(leveraged, objects, f, d) /\ m - 1 \in 1..m /\ m - 2 \in 1..m
      /\ RootFits(leveraged, events, objects, Lower(stack, m - 2), f, this)
      /\ d.kind = "dispatch"
  BY HandlerRuns
<1>2. leveraged /\ d.node = f.at - 1
  BY UnderHandler
<1>3. leveraged => d.node = 1 /\ f.node = 1
  BY <1>1, CallsNoted DEF Fits
<1>4. Follow(history, history')
  BY <1>1, FollowSame
<1>. HIDE DEF m, d, f, this
<1>5. f.at \in Nat
  BY <1>1, FrameFields, EventsAssumption
<1>6. f.at = 2 /\ LastOf(leveraged, f) = 1
  BY <1>2, <1>3, <1>5 DEF LastOf
<1>7. os[f.obj].native = objects[f.obj].native
  BY <1>1 DEF Touches, Alike
<1>8. RootFits(leveraged, events, os, Lower(stack, m - 2), f, this)
  BY <1>1, <1>6, <1>7 DEF RootFits
<1>. QED
  BY <1>4, <1>8 DEF m, f, this

\* The event has ended at once: its dispatch calls nothing more.
LEMMA EndedFits ==
  ASSUME NEW lev, NEW es, NEW os, NEW new, NEW f, f.kind = "dispatch", NEW up, NEW log,
         DispatchFits(lev, es, os, f, up, log), new[f.obj].immediate = TRUE
  PROVE  DispatchFits(lev, es, new, f, NoFrame, log)
  BY DEF DispatchFits, Live, NoFrame

\* methodReturned.
LEMMA MethodReturnedHeld == ASSUME IInv, IInv', HInv, methodReturned PROVE HInv'
<1>. DEFINE m == Len(stack)
            d == stack[m - 1]
            log == history[ThisCall].log
            came == saved # Saved("args", Top.obj, "none")
<1>1. /\ stack # <<>> /\ Top.kind = "controller"
      /\ saved' = IF came \/ Top.sync THEN Saved("no", 0, "none") ELSE saved
      /\ objects' = IF came \/ ~Top.sync
                    THEN answered(preventDefault(stopImmediatePropagation(objects, Top.obj), Top.obj),
                                  Top.obj, saved.result)
                    ELSE objects
      /\ stack' = Front(stack) /\ UNCHANGED <<leveraged, events, triggered, history>>
  BY DEF methodReturned, Phase, Running, bindings
<1>2. /\ Top.obj \in 1..Len(objects) /\ objects \in Seq(EventObjects) /\ objects[Top.obj].native < Top.obj
      /\ d.kind = "dispatch" /\ d.obj = Top.obj
      /\ DispatchFits(leveraged, events, objects, d, Top, log)
  BY <1>1, HandlerRuns
<1>. HIDE DEF d, m
<1>3. BindingsFit(leveraged, events, saved')
  BY <1>1 DEF HInv, Held, BindingsFit, Saved
<1>4. saved.result \in Results
  BY DEF IInv, SavedFits
<1>5. Touches(objects, objects', Top.obj) /\ DispatchFits(leveraged, events, objects', d, NoFrame, log)
  <2>1. CASE came \/ ~Top.sync
    <3>1. Ending(objects, objects', Top.obj)
      BY <1>1, <1>2, <1>4, <2>1, AnsweredTo
    <3>2. objects'[d.obj].immediate = TRUE
      BY <1>2, <3>1 DEF Ending
    <3>3. Touches(objects, objects', Top.obj)
      BY <3>1 DEF Ending
    <3>. QED
      BY <1>2, <3>2, <3>3, EndedFits
  <2>2. CASE ~came /\ Top.sync
    <3>1. UNCHANGED objects
      BY <1>1, <2>2
    <3>2. Alike(objects, objects)
      BY <1>2 DEF Alike
    <3>3. Quiet(objects, objects')
      BY <3>1, <3>2 DEF Quiet, Same
    <3>4. Touches(objects, objects', Top.obj)
      BY <3>3, Together
    <3>5. Live(objects, d, Top)
      BY <1>1, <1>2, <2>2 DEF Live
    <3>6. DispatchFits(leveraged, events, objects', d, NoFrame, log)
      BY <1>2, <3>1, <3>5 DEF DispatchFits, NoFrame
    <3>. QED
      BY <3>4, <3>6
  <2>. QED
    BY <2>1, <2>2
<1>6. LET k == Len(stack) IN
      /\ Follow(history, history')
      /\ RootFits(leveraged, events, objects', Lower(stack, k - 2), stack[k - 2], history'[ThisCall])
  BY <1>1, <1>5, WaitedFits
<1>7. history'[ThisCall].log = log
  BY <1>1
<1>. QED
  BY <1>1, <1>3, <1>5, <1>6, <1>7, HandlerGoesOn DEF d, m

\* triggeredAgain.
LEMMA TriggeredAgainHeld == ASSUME IInv, IInv', HInv, triggeredAgain PROVE HInv'
<1>. DEFINE m == Len(stack)
            d == stack[m - 1]
            log == history[ThisCall].log
<1>1. /\ stack # <<>> /\ Top.kind = "controller"
      /\ saved' = Saved("value", 0, objects[Top.again].result)
      /\ objects' = stopImmediatePropagation(objects, Top.obj)
      /\ stack' = Front(stack) /\ UNCHANGED <<leveraged, events, triggered, history>>
  BY DEF triggeredAgain, Phase, Running, bindings
<1>2. /\ Top.obj \in 1..Len(objects) /\ objects \in Seq(EventObjects) /\ objects[Top.obj].native < Top.obj
      /\ d.kind = "dispatch" /\ d.obj = Top.obj
      /\ DispatchFits(leveraged, events, objects, d, Top, log)
  BY <1>1, HandlerRuns
<1>. HIDE DEF d, m
<1>3. BindingsFit(leveraged, events, saved')
  BY <1>1 DEF HInv, Held, BindingsFit, Saved
<1>4. Ending(objects, objects', Top.obj)
  BY <1>1, <1>2, HappensTo
<1>5. Touches(objects, objects', Top.obj) /\ objects'[d.obj].immediate = TRUE
  BY <1>2, <1>4 DEF Ending
<1>6. DispatchFits(leveraged, events, objects', d, NoFrame, log)
  BY <1>2, <1>5, EndedFits
<1>7. LET k == Len(stack) IN
      /\ Follow(history, history')
      /\ RootFits(leveraged, events, objects', Lower(stack, k - 2), stack[k - 2], history'[ThisCall])
  BY <1>1, <1>5, WaitedFits
<1>8. history'[ThisCall].log = log
  BY <1>1
<1>. QED
  BY <1>1, <1>3, <1>5, <1>6, <1>7, <1>8, HandlerGoesOn DEF d, m

-----------------------------------------------------------------------------
(* The second invariant, and what follows. *)

\* Nothing is bound, and nothing was called.
LEMMA InitHeld == Init => HInv
<1>. SUFFICES ASSUME Init PROVE HInv
  OBVIOUS
<1>1. /\ stack = <<>> /\ history = <<>> /\ triggered = FALSE
      /\ \A n \in Elements : events[n] = EmptyList
  BY DEF Init
<1>2. Len(stack) = 0 /\ Len(history) = 0 /\ 1..0 = {} /\ 1..(0 - 1) = {}
  BY <1>1, EmptySeq
<1>3. EmptyList \in Lists /\ EmptyList.list = <<>> /\ Len(EmptyList.list) = 0
  BY EmptySeq DEF EmptyList, Lists
<1>4. \A n \in Elements : Bound(events[n]) = {}
  <2>1. \A h : h \notin Bound(EmptyList)
    BY <1>2, <1>3, BoundIndex
  <2>. QED
    BY <1>1, <2>1
<1>5. Distinct(EmptyList.list)
  BY <1>2, <1>3 DEF Distinct
<1>6. BindingsFit(leveraged, events, saved)
  <2>1. 1 \in Elements
    BY EventsAssumption DEF Elements
  <2>. QED
    BY <1>1, <1>3, <1>4, <1>5, <2>1 DEF BindingsFit
<1>7. Chain(leveraged, objects, stack) /\ FreshCalls(stack) /\ Methods(triggered, stack)
  BY <1>1, <1>2 DEF Chain, FreshCalls, Methods
<1>8. /\ Beginning(leveraged, saved, objects, stack, history)
      /\ FramesFit(leveraged, events, objects, stack, history)
      /\ \A c \in 1..Len(history) : LogFits(history[c].log)
  BY <1>1, <1>2 DEF Beginning, FramesFit
<1>. QED
  BY <1>6, <1>7, <1>8 DEF HInv, Held

\* Every step keeps it.
LEMMA NextHeld == IInv /\ IInv' /\ HInv /\ [Next]_vars => HInv'
<1>. SUFFICES ASSUME IInv, IInv', HInv, [Next]_vars PROVE HInv'
  OBVIOUS
<1>1. CASE UNCHANGED vars
  BY <1>1 DEF vars, calls, bindings, focus, HInv
<1>2. ASSUME NEW n \in Elements,
             \/ \E i \in Ids, f \in Fns, s \in 0..Depth, o \in BOOLEAN :
                  on(n, [id |-> i, fn |-> f, sel |-> s, once |-> o])
             \/ \E f \in Fns : off(n, f)
             \/ offAll(n)
             \/ \E only \in BOOLEAN : trigger(n, only)
             \/ Arrive(n)
      PROVE  HInv'
  <2>1. CASE \E i \in Ids, f \in Fns, s \in 0..Depth, o \in BOOLEAN :
               on(n, [id |-> i, fn |-> f, sel |-> s, once |-> o])
    BY <2>1, OnHeld
  <2>2. CASE offAll(n) \/ \E f \in Fns : off(n, f)
    BY <2>2, OffHeld
  <2>3. CASE \E only \in BOOLEAN : trigger(n, only)
    BY <2>3, TriggerHeld
  <2>4. CASE Arrive(n)
    BY <2>4, ArriveHeld
  <2>. QED
    BY <1>2, <2>1, <2>2, <2>3, <2>4
<1>3. CASE Blur
  BY <1>3, BlurHeld
<1>4. CASE visit \/ listener \/ pathEnd \/ tail \/ tailEnd \/ over
  BY <1>4, VisitHeld, ListenerHeld, PathEndHeld, TailHeld, TailEndHeld, OverHeld
<1>5. CASE call \/ returnTrue \/ dispatched
  BY <1>5, CallHeld, ReturnTrueHeld, DispatchedHeld
<1>6. CASE \E how \in {"stop", "now"} : stop(how)
  BY <1>6, StopHeld
<1>7. CASE \E result \in {"none", "false"} : return(result)
  <2>1. PICK result \in {"none", "false"} : return(result)
    BY <1>7
  <2>2. result \in Results
    BY DEF Results
  <2>. QED
    BY <2>1, <2>2, ReturnHeld
<1>8. CASE stubTriggered \/ stubUnderWay \/ stubArrived \/ stubIdle
  BY <1>8, StubTriggeredHeld, StubUnderWayHeld, StubArrivedHeld, StubIdleHeld
<1>9. CASE methodReturned \/ triggeredAgain
  BY <1>9, MethodReturnedHeld, TriggeredAgainHeld
<1>. QED
  BY <1>1, <1>2, <1>3, <1>4, <1>5, <1>6, <1>7, <1>8, <1>9 DEF Next

\* It is an invariant.
LEMMA HeldAlways == Spec => []HInv
<1>1. IInv /\ IInv' /\ HInv /\ [Next]_vars => HInv'
  BY NextHeld
<1>. QED
  BY <1>1, InitHeld, Invariant, PTL DEF Spec

\* The log of a call under way fits.
LEMMA LogsFit ==
  ASSUME IInv, HInv, NEW c \in DOMAIN history
  PROVE  LogFits(history[c].log) /\ DOMAIN history[c].log = 1..Len(history[c].log)
<1>1. c \in 1..Len(history) /\ history[c] \in Calls
  <2>1. DOMAIN history = 1..Len(history)
    BY LenProperties DEF IInv
  <2>. QED
    BY <2>1, ElementOfSeq DEF IInv
<1>2. history[c].log \in Seq(Entries)
  BY <1>1 DEF Calls
<1>. QED
  BY <1>1, <1>2, LenProperties DEF HInv, Held

\* No handler is called twice for one event, whatever the handlers bind, unbind, stop and
\* trigger, and though trigger calls the handlers and the browser's method, whose event
\* comes to the same handlers (trigger, dispatch, jQuery.event.triggered; in a focus,
\* leverageNative).
THEOREM CalledOnce == Spec => []HandledOnce
<1>1. IInv /\ HInv => HandledOnce
  <2>. SUFFICES ASSUME IInv, HInv, NEW c \in DOMAIN history,
                       NEW i \in DOMAIN history[c].log, NEW j \in DOMAIN history[c].log,
                       history[c].log[i].id = history[c].log[j].id
                PROVE  i = j
    BY DEF HandledOnce
  <2>. QED
    BY LogsFit DEF LogFits
<1>. QED
  BY <1>1, Invariant, HeldAlways, PTL

\* An event that a handler has stopped reaches no other element, and none at all when it
\* is stopped at once, whatever its handlers bind, unbind and trigger: the object that is
\* stopped may be one element's, and the browser's event behind it is stopped too
\* (stopPropagation, stopImmediatePropagation, dispatch, trigger, leverageNative).
THEOREM StoppedGoesNoFurther == Spec => []StoppedIsStopped
<1>1. IInv /\ HInv => StoppedIsStopped
  <2>. SUFFICES ASSUME IInv, HInv, NEW c \in DOMAIN history,
                       NEW i \in DOMAIN history[c].log, NEW j \in DOMAIN history[c].log, i < j
                PROVE  LET first == history[c].log[i]  second == history[c].log[j] IN
                       /\ first.stops # "now"
                       /\ first.stops = "stop" =>
                            <<second.node, second.elem>> = <<first.node, first.elem>>
    BY DEF StoppedIsStopped
  <2>. QED
    BY LogsFit DEF LogFits
<1>. QED
  BY <1>1, Invariant, HeldAlways, PTL

-----------------------------------------------------------------------------
(* What was due, and is still to be called. *)

\* The frame f has h still to call: it is in the queue of a dispatch, or bound further on
\* the way of an event.
StillCalls(lev, es, os, lw, f, up, h) ==
  \/ Live(os, f, up) /\ \E q \in 1..Len(f.queue) : f.queue[q].h = h
  \/ OnWay(lw, f) /\ \E m \in f.at..LastOf(lev, f) : h \in Bound(es[m])

StillCallsAt(lev, es, os, stk, i, h) ==
  StillCalls(lev, es, os, Lower(stk, i), stk[i], Upper(stk, i), h)

\* One of the frames from r on has.
Coming(lev, es, os, stk, r, h) == \E i \in r..Len(stk) : StillCallsAt(lev, es, os, stk, i, h)

\* Of what was due for the call c and is bound, what is still to come was not called, or is
\* still to be.
NoneLost(lev, es, os, stk, c, this) ==
  Clean(this.log) =>
    \A m \in Elements : \A h \in Bound(es[m]) : h \in this.due =>
      \/ ~Unlogged(h.id, this.log)
      \/ \E i \in 1..Len(stk) : stk[i].call = c /\ StillCallsAt(lev, es, os, stk, i, h)

\* As it is for the last call, of which the topmost event is at r.
LastLost(lev, es, os, stk, r, this) ==
  Clean(this.log) =>
    \A m \in Elements : \A h \in Bound(es[m]) : h \in this.due =>
      ~Unlogged(h.id, this.log) \/ Coming(lev, es, os, stk, r, h)

\* A handler that is due, and bound, is the one that was.
Owns(es, this) == \A d \in this.due, m \in Elements : \A h \in Bound(es[m]) : h.id = d.id => h = d

\* A stub that has not waited goes on with its dispatch.
GoesAhead(os, f, up) ==
  f.kind = "dispatch" /\ up.kind = "controller" /\ up.sync => ~os[f.obj].immediate

\* An event that is stopped at once is stopped.
StoppedAtOnce(os) == \A o \in 1..Len(os) : os[o].immediate => os[o].stopped

\* The third inductive invariant, of what the variables may be.
Due(lev, es, os, stk, hist) ==
  /\ StoppedAtOnce(os)
  /\ \A i \in 1..Len(stk) : GoesAhead(os, stk[i], Upper(stk, i))
  /\ \A c \in 1..Len(hist) : Owns(es, hist[c]) /\ NoneLost(lev, es, os, stk, c, hist[c])

NInv == Due(leveraged, events, objects, stack, history)

\* What a frame has still to call, and is bound, it has still to call when less is bound.
LEMMA StillThere ==
  ASSUME NEW lev, NEW es, NEW sv, BindingsFit(lev, es, sv), NEW new, NEW ids, Fewer(es, new, ids),
         NEW os, NEW later, NEW lw, NEW f \in Frames, NEW up, NEW top, NEW h,
         StillCalls(lev, es, os, lw, f, up, h), Live(os, f, up) => Live(later, f, top),
         NEW m \in Elements, h \in Bound(new[m]), h.id \notin ids
  PROVE  StillCalls(lev, new, later, lw, f, top, h)
<1>1. CASE Live(os, f, up) /\ \E q \in 1..Len(f.queue) : f.queue[q].h = h
  BY <1>1 DEF StillCalls
<1>2. CASE OnWay(lw, f) /\ \E k \in f.at..LastOf(lev, f) : h \in Bound(es[k])
  <2>1. PICK k \in f.at..LastOf(lev, f) : h \in Bound(es[k])
    BY <1>2
  <2>2. Root(f)
    BY <1>2 DEF OnWay
  <2>3. k \in Elements
    <3>1. f.at \in 1..(Depth + 1) /\ LastOf(lev, f) \in 1..Depth
      BY <2>2, LastElement, FrameFields DEF Elements, Root
    <3>. QED
      BY <3>1, EventsAssumption DEF Elements
  <2>4. h \in Bound(es[m])
    BY DEF Fewer
  <2>5. k = m
    BY <2>1, <2>3, <2>4 DEF BindingsFit
  <2>. QED
    BY <1>2, <2>1, <2>5 DEF StillCalls
<1>. QED
  BY <1>1, <1>2 DEF StillCalls

\* The frames below the topmost event of the last call call nothing more for it.
LEMMA LastDue ==
  ASSUME IInv, HInv, NInv, stack # <<>>,
         NEW r \in 1..Len(stack), Root(stack[r]), stack[r].call = ThisCall
  PROVE  LastLost(leveraged, events, objects, stack, r, history[ThisCall])
<1>. DEFINE this == history[ThisCall]
<1>1. SUFFICES ASSUME Clean(this.log), NEW m \in Elements, NEW h \in Bound(events[m]), h \in this.due,
                      Unlogged(h.id, this.log)
               PROVE  Coming(leveraged, events, objects, stack, r, h)
  BY DEF LastLost
<1>2. ThisCall \in 1..Len(history) /\ Len(stack) \in Nat
  BY OnTop
<1>3. PICK i \in 1..Len(stack) : stack[i].call = ThisCall
                                 /\ StillCallsAt(leveraged, events, objects, stack, i, h)
  BY <1>1, <1>2 DEF NInv, Due, NoneLost
<1>4. CASE i >= r
  <2>1. i \in r..Len(stack)
    BY <1>2, <1>4
  <2>. QED
    BY <1>3, <2>1 DEF Coming
<1>5. CASE i < r
  <2>1. i \in 1..(r - 1) /\ i # Len(stack)
    BY <1>2, <1>5
  <2>2. Idle(leveraged, stack[i], stack[i + 1])
    BY <1>3, <2>1, IdleBelow DEF IInv, HInv, Held
  <2>3. Upper(stack, i) = stack[i + 1] /\ stack[i] \in Frames
    BY <2>1, CallsNoted DEF Upper
  <2>4. ~Live(objects, stack[i], Upper(stack, i))
    BY <2>2, <2>3 DEF Idle, Live
  <2>5. ASSUME OnWay(Lower(stack, i), stack[i]) PROVE stack[i].at..LastOf(leveraged, stack[i]) = {}
    <3>1. Root(stack[i]) /\ stack[i].phase = "path"
      BY <2>5 DEF OnWay
    <3>2. stack[i].at > LastOf(leveraged, stack[i])
      BY <2>2, <3>1 DEF Idle
    <3>3. stack[i].at \in Nat /\ LastOf(leveraged, stack[i]) \in Nat
      BY <2>3, <3>1, LastElement, FrameFields, EventsAssumption DEF Root
    <3>. QED
      BY <3>2, <3>3
  <2>. QED
    BY <1>3, <2>4, <2>5 DEF StillCallsAt, StillCalls
<1>. QED
  BY <1>2, <1>4, <1>5

-----------------------------------------------------------------------------
(* What is still to come when the last call goes on. *)

\* Of the calls, only the last one changes, and fewer handlers are due for it.
Onward(hist, later) ==
  LET n == Len(hist) IN
  /\ Len(later) = n /\ \A c \in 1..(n - 1) : later[c] = hist[c]
  /\ later[n].due \subseteq hist[n].due

\* The frames of the last call go on, from its topmost event: what is due for it is still to
\* be called there, and the calls before it are left as they are.
LEMMA DueGoesOn ==
  ASSUME IInv, IInv', HInv, NInv, stack # <<>>, UNCHANGED leveraged, Fewer(events, events', {}),
         NEW r \in 1..Len(stack), Root(stack[r]), stack[r].call = ThisCall,
         NEW x, Fresh(stack, ThisCall, x), Leaves(objects, objects', x, stack[r].obj),
         StoppedAtOnce(objects'),
         Len(stack') >= r, stack'[r].kind = stack[r].kind, \A i \in 1..(r - 1) : stack'[i] = stack[i],
         \A i \in r..Len(stack') : stack'[i].call = ThisCall,
         \A i \in r..Len(stack') : GoesAhead(objects', stack'[i], Upper(stack', i)),
         Onward(history, history'),
         LastLost(leveraged, events', objects', stack', r, history'[ThisCall])
  PROVE  NInv'
<1>. DEFINE m == Len(stack)
            t == stack'
            n == Len(history)
<1>1. /\ StackFits(leveraged, stack, objects, n) /\ leveraged \in BOOLEAN
      /\ n \in Nat /\ ThisCall = n /\ m \in Nat /\ Len(t) \in Nat /\ r \in Nat
      /\ Chain(leveraged, objects, stack) /\ FreshCalls(stack)
      /\ BindingsFit(leveraged, events, saved)
      /\ n \in 1..n
  <2>1. /\ StackFits(leveraged, stack, objects, n) /\ leveraged \in BOOLEAN
        /\ n \in Nat /\ ThisCall = n /\ m \in Nat /\ Len(t) \in Nat
        /\ Chain(leveraged, objects, stack) /\ FreshCalls(stack)
        /\ BindingsFit(leveraged, events, saved)
    BY LenProperties DEF IInv, StackFits, ThisCall, HInv, Held
  <2>2. n \in 1..n
    BY OnTop, <2>1
  <2>. QED
    BY <2>1, <2>2
<1>2. /\ Len(history') = n /\ \A c \in 1..(n - 1) : history'[c] = history[c]
      /\ history'[n].due \subseteq history[n].due
  BY DEF Onward
<1>3. Below(objects, stack, history, r, objects', t, history')
  <2>. HIDE DEF n, t
  <2>. QED
    BY <1>1, <1>2, BelowLeft DEF t
<1>4. \A i \in 1..(r - 1) : i \in 1..m /\ i \in 1..Len(t) /\ i # m /\ i # Len(t)
                            /\ (i = 1 \/ i - 1 \in 1..(r - 1)) /\ (i + 1 = r \/ i + 1 \in 1..(r - 1))
  BY <1>1
<1>5. \A i \in 1..m : stack[i].call \in 1..n /\ stack[i] \in Frames
  BY CallsNoted
<1>6. ASSUME NEW i \in 1..(r - 1)
      PROVE  /\ t[i] = stack[i] /\ Lower(t, i) = Lower(stack, i)
             /\ Upper(stack, i) = stack[i + 1] /\ Upper(t, i) = t[i + 1]
             /\ i + 1 = r \/ Upper(t, i) = Upper(stack, i)
  BY <1>4 DEF Lower, Upper
<1>7. ASSUME NEW i \in 1..(r - 1), stack[i].call # n
      PROVE  /\ Same(objects[stack[i].obj], objects'[stack[i].obj])
             /\ Live(objects, stack[i], Upper(stack, i)) => Live(objects', stack[i], Upper(t, i))
  <2>1. stack[i].call < stack[r].call
    BY <1>1, <1>4, <1>5, <1>7
  <2>2. Same(objects[stack[i].obj], objects'[stack[i].obj])
    BY <1>3, <2>1 DEF Below
  <2>3. CASE i + 1 = r
    <3>1. Root(t[r]) /\ Upper(t, i) = t[r]
      BY <1>6, <2>3 DEF Root
    <3>. QED
      BY <2>2, <3>1 DEF Live, Root
  <2>4. CASE Upper(t, i) = Upper(stack, i)
    BY <2>2, <2>4 DEF Live, Same
  <2>. QED
    BY <1>6, <2>2, <2>3, <2>4
<1>8. ASSUME NEW i \in 1..Len(t) PROVE GoesAhead(objects', t[i], Upper(t, i))
  <2>1. CASE i \in r..Len(t)
    BY <2>1
  <2>2. CASE i \in 1..(r - 1)
    <3>1. CASE i + 1 = r
      <4>1. Root(t[r]) /\ Upper(t, i) = t[r]
        BY <1>6, <2>2, <3>1 DEF Root
      <4>. QED
        BY <4>1 DEF GoesAhead, Root
    <3>2. CASE Upper(t, i) = Upper(stack, i)
      <4>1. CASE stack[i].call = n
        <5>1. Idle(leveraged, stack[i], stack[i + 1])
          BY <1>1, <2>2, <4>1, IdleBelow
        <5>. QED
          BY <1>6, <2>2, <3>2, <5>1 DEF Idle, GoesAhead
      <4>2. CASE stack[i].call # n
        <5>1. Same(objects[stack[i].obj], objects'[stack[i].obj])
          BY <1>7, <2>2, <4>2
        <5>2. GoesAhead(objects, stack[i], Upper(stack, i))
          BY <1>4, <2>2 DEF NInv, Due
        <5>. QED
          BY <1>6, <2>2, <3>2, <5>1, <5>2 DEF GoesAhead, Same
      <4>. QED
        BY <4>1, <4>2
    <3>. QED
      BY <1>6, <2>2, <3>1, <3>2
  <2>. QED
    BY <1>1, <2>1, <2>2
<1>9. ASSUME NEW c \in 1..n PROVE Owns(events', history'[c])
  <2>1. Owns(events, history[c])
    BY DEF NInv, Due
  <2>2. history'[c].due \subseteq history[c].due
    BY <1>1, <1>2
  <2>3. \A k \in Elements : \A h \in Bound(events'[k]) : h \in Bound(events[k])
    BY DEF Fewer
  <2>. QED
    BY <2>1, <2>2, <2>3 DEF Owns
<1>10. NoneLost(leveraged, events', objects', t, n, history'[n])
  <2>1. SUFFICES ASSUME Clean(history'[n].log), NEW k \in Elements, NEW h \in Bound(events'[k]),
                        h \in history'[n].due, Unlogged(h.id, history'[n].log)
                 PROVE  \E i \in 1..Len(t) : t[i].call = n /\ StillCallsAt(leveraged, events', objects', t, i, h)
    BY DEF NoneLost
  <2>2. PICK i \in r..Len(t) : StillCallsAt(leveraged, events', objects', t, i, h)
    BY <1>1, <2>1 DEF LastLost, Coming
  <2>3. i \in 1..Len(t)
    BY <1>1
  <2>. QED
    BY <1>1, <2>2, <2>3
<1>11. ASSUME NEW c \in 1..(n - 1) PROVE NoneLost(leveraged, events', objects', t, c, history'[c])
  <2>1. SUFFICES ASSUME Clean(history[c].log), NEW k \in Elements, NEW h \in Bound(events'[k]),
                        h \in history[c].due, Unlogged(h.id, history[c].log)
                 PROVE  \E i \in 1..Len(t) : t[i].call = c /\ StillCallsAt(leveraged, events', objects', t, i, h)
    BY <1>2 DEF NoneLost
  <2>2. h \in Bound(events[k]) /\ c \in 1..n /\ c # n /\ c < n
    <3>1. h \in Bound(events[k])
      BY <2>1 DEF Fewer
    <3>. HIDE DEF n
    <3>. QED
      BY <1>1, <3>1
  <2>3. PICK i \in 1..m : stack[i].call = c /\ StillCallsAt(leveraged, events, objects, stack, i, h)
    BY <2>1, <2>2 DEF NInv, Due, NoneLost
  <2>4. i \in 1..(r - 1)
    <3>1. SUFFICES ASSUME i >= r PROVE FALSE
      BY <1>1
    <3>2. stack[r].call <= stack[i].call
      BY <3>1 DEF IInv, StackFits, Linked
    <3>. QED
      BY <1>1, <1>5, <2>2, <2>3, <3>2
  <2>5. StillCalls(leveraged, events', objects', Lower(stack, i), stack[i], Upper(t, i), h)
    <3>1. StillCalls(leveraged, events, objects, Lower(stack, i), stack[i], Upper(stack, i), h)
      BY <2>3 DEF StillCallsAt
    <3>2. Live(objects, stack[i], Upper(stack, i)) => Live(objects', stack[i], Upper(t, i))
      BY <1>7, <2>2, <2>3, <2>4
    <3>3. /\ stack[i] \in Frames /\ h.id \notin {} /\ h \in Bound(events'[k])
          /\ BindingsFit(leveraged, events, saved)
      BY <1>1, <1>5, <2>1
    <3>. DEFINE below == Lower(stack, i)
                up    == Upper(stack, i)
                top   == Upper(t, i)
                f     == stack[i]
    <3>4. /\ StillCalls(leveraged, events, objects, below, f, up, h) /\ f \in Frames
          /\ Live(objects, f, up) => Live(objects', f, top)
      BY <3>1, <3>2, <3>3
    <3>. HIDE DEF m, t, n, below, up, top, f
    <3>5. StillCalls(leveraged, events', objects', below, f, top, h)
      BY <3>3, <3>4, StillThere
    <3>. QED
      BY <3>5 DEF below, up, top, f
  <2>. QED
    BY <1>4, <1>6, <2>3, <2>4, <2>5 DEF StillCallsAt
<1>12. \A c \in 1..n : c = n \/ c \in 1..(n - 1)
  BY <1>1
<1>13. Due(leveraged, events', objects', t, history')
  BY <1>2, <1>8, <1>9, <1>10, <1>11, <1>12 DEF Due
<1>. QED
  BY <1>13 DEF NInv

-----------------------------------------------------------------------------
(* What is still to come on an event's way. *)

\* What the last frame has still to call further on its event's way is still to be called
\* by it, or by the frame that it has brought.
HandsOn(lev, es, stk, this, new, t) ==
  LET m == Len(stk)  f == stk[m] IN
  OnWay(Lower(stk, m), f) /\ Clean(this.log) =>
    \A k \in f.at..LastOf(lev, f) : \A h \in Bound(es[k]) :
      h \in this.due => Coming(lev, es, new, t, m, h)

\* No object there was is stopped at once, and the one that has come is not.
LEMMA StillStopped ==
  ASSUME NInv, NEW new, Keeps(objects, new),
         \A o \in 1..Len(new) : o \in 1..Len(objects) \/ ~new[o].immediate
  PROVE  StoppedAtOnce(new)
BY DEF NInv, Due, StoppedAtOnce, Keeps

\* What was not called, and is due for less, is going on.
LEMMA UncalledOnward ==
  ASSUME NEW hist, Len(hist) \in 1..Len(hist), NEW later, Uncalled(hist, later)
  PROVE  Onward(hist, later)
BY DEF Uncalled, Onward

\* Nothing that is due is lost when an event goes on.
LEMMA RootDue ==
  ASSUME IInv, IInv', HInv, NInv, stack # <<>>, Root(Top), UNCHANGED <<leveraged, events>>,
         Keeps(objects, objects'), StoppedAtOnce(objects'), Uncalled(history, history'),
         LET m == Len(stack)  t == stack' IN
         /\ Len(t) \in {m, m + 1} /\ \A i \in 1..(m - 1) : t[i] = stack[i]
         /\ Goes(t[m], Top)
         /\ Len(t) = m + 1 => t[m + 1].call = ThisCall,
         HandsOn(leveraged, events, stack, history[ThisCall], objects', stack')
  PROVE  NInv'
<1>. DEFINE m == Len(stack)
            t == stack'
            n == Len(history)
<1>1. /\ m \in Nat /\ m >= 1 /\ Top = stack[m] /\ Top \in Frames /\ Top.call = n /\ ThisCall = n
      /\ n \in 1..n /\ n \in Nat /\ Top.obj \in 1..Len(objects) /\ Len(t) \in Nat
  <2>1. /\ m \in Nat /\ m >= 1 /\ Top = stack[m] /\ Top \in Frames /\ Top.call = ThisCall
        /\ ThisCall \in 1..Len(history) /\ ThisCall = Len(history)
    BY TopHeld
  <2>2. ThisCall \in Nat /\ Top.obj \in 1..Len(objects)
    BY OnTop
  <2>3. Len(t) \in Nat
    BY LenProperties DEF IInv, StackFits
  <2>. QED
    BY <2>1, <2>2, <2>3
<1>2. m \in 1..m /\ Len(t) >= m /\ Goes(t[m], Top) /\ \A i \in 1..(m - 1) : t[i] = stack[i]
  BY <1>1
<1>3. Leaves(objects, objects', stack[m].obj, stack[m].obj)
  BY <1>1 DEF Keeps, Leaves, Same
<1>4. Fresh(stack, ThisCall, stack[m].obj) /\ Root(stack[m]) /\ stack[m].call = ThisCall
  BY <1>1, <1>2 DEF HInv, Held, FreshCalls
<1>5. Fewer(events, events', {})
  BY DEF Fewer
<1>6. Root(t[m]) /\ t[m].kind = stack[m].kind
  BY <1>1, <1>2 DEF Goes, Root
<1>7. \A i \in m..Len(t) : i = m \/ (i = m + 1 /\ Len(t) = m + 1)
  BY <1>1
<1>8. ASSUME NEW i \in m..Len(t) PROVE t[i].call = ThisCall /\ GoesAhead(objects', t[i], Upper(t, i))
  <2>1. CASE i = m
    BY <1>1, <1>2, <1>6, <2>1 DEF Goes, GoesAhead, Root
  <2>2. CASE i = m + 1 /\ Len(t) = m + 1
    <3>1. Upper(t, i) = NoFrame
      BY <2>2 DEF Upper
    <3>. QED
      BY <2>2, <3>1 DEF GoesAhead, NoFrame
  <2>. QED
    BY <1>7, <2>1, <2>2
<1>9. Onward(history, history')
  BY <1>1, UncalledOnward
<1>10. LastLost(leveraged, events, objects', t, m, history'[ThisCall])
  <2>1. history'[n].log = history[n].log /\ history'[n].due \subseteq history[n].due
    BY <1>1 DEF Uncalled
  <2>2. SUFFICES ASSUME Clean(history[n].log), NEW k \in Elements, NEW h \in Bound(events[k]),
                        h \in history[n].due, Unlogged(h.id, history[n].log)
                 PROVE  Coming(leveraged, events, objects', t, m, h)
    BY <1>1, <2>1 DEF LastLost
  <2>3. LastLost(leveraged, events, objects, stack, m, history[n])
    BY <1>1, <1>2, <1>4, LastDue
  <2>4. PICK i \in m..m : StillCallsAt(leveraged, events, objects, stack, i, h)
    BY <2>2, <2>3 DEF LastLost, Coming
  <2>5. i = m /\ ~Live(objects, stack[m], Upper(stack, m))
    BY <1>1, <1>4 DEF Live, Root
  <2>6. OnWay(Lower(stack, m), stack[m])
        /\ \E j \in stack[m].at..LastOf(leveraged, stack[m]) : h \in Bound(events[j])
    BY <2>4, <2>5 DEF StillCallsAt, StillCalls
  <2>. QED
    BY <1>1, <2>2, <2>6 DEF HandsOn
<1>. HIDE DEF m, n
<1>. QED
  BY <1>1, <1>2, <1>3, <1>4, <1>5, <1>6, <1>8, <1>9, <1>10, DueGoesOn DEF m, t

\* What is bound further on than the next element is called there, when nothing is bound at
\* this one, or no handler is called on this way.
LEMMA FurtherHands ==
  ASSUME IInv, HInv, stack # <<>>, Root(Top), NEW t, NEW new,
         Len(t) >= Len(stack), Len(t) \in Nat, \A i \in 1..(Len(stack) - 1) : t[i] = stack[i],
         Goes(t[Len(stack)], Top), t[Len(stack)].phase = "path",
         NEW h, NEW k \in Top.at..LastOf(leveraged, Top), h \in Bound(events[k]), k # Top.at,
         OnWay(Lower(stack, Len(stack)), Top)
  PROVE  Coming(leveraged, events, new, t, Len(stack), h)
<1>. DEFINE m == Len(stack)
            f == t[m]
<1>1. m \in Nat /\ m >= 1 /\ Top = stack[m] /\ Top \in Frames
  BY OnTop
<1>2. Top.at \in Nat /\ LastOf(leveraged, Top) \in Nat
  BY <1>1, FrameFields, LastElement, EventsAssumption
<1>3. LastOf(leveraged, f) = LastOf(leveraged, Top) /\ f.at = Top.at + 1 /\ Root(f)
  BY DEF Goes, LastOf, Root
<1>4. k \in f.at..LastOf(leveraged, f)
  BY <1>2, <1>3
<1>5. Lower(t, m) = Lower(stack, m)
  <2>0. \A x \in Nat : x >= 1 => x = 1 \/ x - 1 \in 1..(x - 1)
    OBVIOUS
  <2>1. m = 1 \/ m - 1 \in 1..(m - 1)
    BY <1>1, <2>0
  <2>. QED
    BY <2>1 DEF Lower
<1>6. OnWay(Lower(t, m), f)
  BY <1>3, <1>5 DEF OnWay
<1>7. StillCallsAt(leveraged, events, new, t, m, h)
  BY <1>4, <1>6 DEF StillCallsAt, StillCalls
<1>8. m \in m..Len(t)
  BY <1>1
<1>. QED
  BY <1>7, <1>8 DEF Coming

\* While the browser's method is called, the event it brings is not on its way.
LEMMA NotOnWay ==
  ASSUME IInv, HInv, stack # <<>>, Top.phase = "path", triggered, Root(Top)
  PROVE  ~OnWay(Lower(stack, Len(stack)), Top)
<1>. DEFINE m == Len(stack)
<1>1. m \in Nat /\ m >= 1 /\ Top = stack[m]
  BY OnTop
<1>2. PICK i \in 1..m : InMethod(stack[i]) /\ i >= m - 1
  BY DEF HInv, Held, Methods
<1>3. i # m
  BY <1>1, <1>2 DEF InMethod
<1>4. i = m - 1 /\ m # 1
  BY <1>1, <1>2, <1>3
<1>. QED
  BY <1>2, <1>4 DEF OnWay, Lower, InMethod

-----------------------------------------------------------------------------
(* The steps of an event on its way. *)

\* What is due and bound at an element is in the queue of the dispatch that begins there.
LEMMA DispatchHands ==
  ASSUME IInv, HInv, stack # <<>>, Root(Top), Top.phase = "path", ~atEnd,
         OnWay(Lower(stack, Len(stack)), Top),
         NEW new, NEW k, ~new[k].immediate,
         NEW t, Len(t) = Len(stack) + 1,
         t[Len(t)] = Dispatch(k, Top.at, ThisCall, handlers(Top.at, Top.node)),
         NEW h \in Bound(events[Top.at]), h \in history[ThisCall].due
  PROVE  Coming(leveraged, events, new, t, Len(stack), h)
<1>. DEFINE m == Len(stack)
            at == Top.at
            q == handlers(at, Top.node)
            g == Dispatch(k, at, ThisCall, q)
            l == events[at]
<1>1. /\ m \in Nat /\ m >= 1 /\ Top = stack[m] /\ Top \in Frames
      /\ RootFits(leveraged, events, objects, Lower(stack, m), Top, history[ThisCall])
  <2>1. /\ m \in Nat /\ m >= 1 /\ Top = stack[m] /\ Top \in Frames
        /\ FrameFits(leveraged, events, objects, Lower(stack, m), Top, NoFrame, history[ThisCall])
    BY TopHeld
  <2>. QED
    BY <2>1 DEF FrameFits
<1>2. at \in Elements /\ at \in Nat /\ Top.node \in 1..at
  <2>1. at \in Elements /\ Top.node \in Elements /\ Fits(leveraged, Top, objects)
    BY <1>1, OnTheWay, OnTop, FrameFields
  <2>2. Top.node <= at
    BY <2>1 DEF Fits
  <2>. QED
    BY <2>1, <2>2, EventsAssumption DEF Elements
<1>3. l \in Lists /\ Sorted(l)
  BY <1>2 DEF IInv, ListsFit, ListFits
<1>4. Queue(q, l, at, Top.node)
  BY <1>2, <1>3, HandlersQueue
<1>5. h \in Handlers /\ h.sel \in Nat /\ h.sel < at /\ (h.sel = 0 \/ h.sel >= Top.node)
  <2>1. h \in Handlers
    BY <1>1, TopHeld DEF Calls
  <2>2. h.sel \in Nat
    BY <2>1, EventsAssumption DEF Handlers
  <2>3. h.sel < at
    BY <1>2 DEF HInv, Held, BindingsFit
  <2>4. h.sel = 0 \/ h.sel >= Top.node
    BY <1>1 DEF RootFits
  <2>. QED
    BY <2>1, <2>2, <2>3, <2>4
<1>6. h.sel \in {0} \union (Top.node..(at - 1))
  BY <1>2, <1>5
<1>. HIDE DEF q, l
<1>7. PICK i \in 1..Len(l.list) : h = l.list[i]
  BY <1>3, BoundIndex DEF l
<1>8. PICK j \in 1..Len(q) : q[j].h = h
  BY <1>4, <1>6, <1>7 DEF Queue
<1>9. g.kind = "dispatch" /\ g.obj = k /\ g.queue = q
  BY DEF Dispatch
<1>10. t[m + 1] = g
  <2>1. Len(t) = m + 1 /\ t[Len(t)] = g
    BY DEF q
  <2>2. t[m + 1] = g
    BY <2>1
  <2>. QED
    BY <2>2
<1>. HIDE DEF g
<1>11. Live(new, g, NoFrame)
  BY <1>9 DEF Live, NoFrame
<1>12. Upper(t, m + 1) = NoFrame
  BY DEF Upper
<1>13. StillCallsAt(leveraged, events, new, t, m + 1, h)
  BY <1>8, <1>9, <1>10, <1>11, <1>12 DEF StillCallsAt, StillCalls
<1>14. m + 1 \in m..Len(t)
  BY <1>1
<1>. QED
  BY <1>13, <1>14 DEF Coming

\* The event that runs goes to the next element, where nothing is called.
LEMMA FurtherDue ==
  ASSUME IInv, IInv', HInv, NInv, stack # <<>>, Root(Top), Top.phase = "path", Top.at <= Depth,
         UNCHANGED <<leveraged, events, objects, history>>, stack' = Further,
         OnWay(Lower(stack, Len(stack)), Top) => Bound(events[Top.at]) = {}
  PROVE  NInv'
<1>. DEFINE m == Len(stack)
<1>1. /\ m \in Nat /\ m >= 1 /\ Len(stack') = m /\ stack'[m].phase = "path" /\ Goes(stack'[m], Top)
      /\ \A i \in 1..(m - 1) : stack'[i] = stack[i]
  BY GoesFurther
<1>2. Keeps(objects, objects') /\ Uncalled(history, history') /\ Len(stack') # m + 1
  BY <1>1 DEF Keeps, Uncalled
<1>3. StoppedAtOnce(objects')
  BY DEF NInv, Due, StoppedAtOnce
<1>4. HandsOn(leveraged, events, stack, history[ThisCall], objects', stack')
  <2>1. Top = stack[m]
    BY OnTop
  <2>2. SUFFICES ASSUME OnWay(Lower(stack, m), Top), NEW k \in Top.at..LastOf(leveraged, Top),
                        NEW h \in Bound(events[k])
                 PROVE  Coming(leveraged, events, objects', stack', m, h)
    BY <2>1 DEF HandsOn
  <2>3. k # Top.at
    BY <2>2
  <2>4. Len(stack') >= m /\ Len(stack') \in Nat
    BY <1>1
  <2>. QED
    BY <1>1, <2>2, <2>3, <2>4, FurtherHands
<1>. QED
  BY <1>1, <1>2, <1>3, <1>4, RootDue

\* The event that runs goes to the next element, where it is handled.
LEMMA HandleDue ==
  ASSUME IInv, IInv', HInv, NInv, stack # <<>>, Root(Top), Top.phase = "path", ~atEnd,
         UNCHANGED <<leveraged, events, history>>,
         NEW os, Keeps(objects, os), StoppedAtOnce(os), NEW k \in Nat, ~os[k].immediate,
         handle(Further, os, Top.at, k)
  PROVE  NInv'
<1>. DEFINE m == Len(stack)
            g == Dispatch(k, Top.at, ThisCall, handlers(Top.at, Top.node))
<1>1. Top.at <= Depth
  BY OnTheWay
<1>2. CASE triggered
  <2>1. stack' = Further /\ UNCHANGED objects
    BY <1>2 DEF handle
  <2>. QED
    BY <1>1, <1>2, <2>1, NotOnWay, FurtherDue
<1>3. CASE ~triggered
  <2>1. stack' = Append(Further, g) /\ objects' = os
    BY <1>3 DEF handle, handle_again
  <2>2. g.call = ThisCall /\ g = Dispatch(k, Top.at, ThisCall, handlers(Top.at, Top.node))
    BY DEF Dispatch
  <2>. HIDE DEF g
  <2>3. /\ m \in Nat /\ m >= 1 /\ Further \in Seq(Frames) /\ Len(Further) = m
        /\ Further[m].phase = "path" /\ Goes(Further[m], Top)
        /\ \A i \in 1..(m - 1) : Further[i] = stack[i]
    BY <1>1, GoesFurther
  <2>4. Len(stack') = m + 1 /\ stack'[m + 1] = g /\ \A i \in 1..m : stack'[i] = Further[i]
    BY <2>1, <2>3, AppendLast
  <2>5. /\ \A i \in 1..(m - 1) : stack'[i] = stack[i]
        /\ stack'[m].phase = "path" /\ Goes(stack'[m], Top)
    <3>1. m \in 1..m /\ \A i \in 1..(m - 1) : i \in 1..m
      BY <2>3
    <3>. QED
      BY <2>3, <2>4, <3>1
  <2>6. stack'[Len(stack')] = g /\ Len(stack') >= m /\ Len(stack') \in Nat
    BY <2>3, <2>4
  <2>7. HandsOn(leveraged, events, stack, history[ThisCall], os, stack')
    <3>1. Top = stack[m]
      BY OnTop
    <3>2. SUFFICES ASSUME OnWay(Lower(stack, m), Top), NEW j \in Top.at..LastOf(leveraged, Top),
                          NEW h \in Bound(events[j]), h \in history[ThisCall].due
                   PROVE  Coming(leveraged, events, os, stack', m, h)
      BY <3>1 DEF HandsOn
    <3>3. CASE j = Top.at
      <4>1. h \in Bound(events[Top.at])
        BY <3>2, <3>3
      <4>. QED
        BY <2>2, <2>4, <2>6, <3>2, <4>1, DispatchHands
    <3>4. CASE j # Top.at
      BY <2>5, <2>6, <3>2, <3>4, FurtherHands
    <3>. QED
      BY <3>3, <3>4
  <2>8. Keeps(objects, objects') /\ Uncalled(history, history') /\ StoppedAtOnce(objects')
    BY <2>1 DEF Uncalled
  <2>. QED
    BY <2>1, <2>2, <2>4, <2>5, <2>7, <2>8, RootDue
<1>. QED
  BY <1>2, <1>3

\* An element without handlers has none bound.
LEMMA NoneBound ==
  ASSUME IInv, NEW n \in Elements, events[n].list = <<>>
  PROVE  Bound(events[n]) = {}
<1>1. events[n] \in Lists
  BY DEF IInv, ListsFit, ListFits
<1>2. Len(events[n].list) = 0
  OBVIOUS
<1>3. \A h \in Bound(events[n]) : \E i \in 1..Len(events[n].list) : h = events[n].list[i]
  BY <1>1, BoundIndex
<1>. QED
  BY <1>2, <1>3

\* visit.
LEMMA VisitDue == ASSUME IInv, IInv', HInv, NInv, visit PROVE NInv'
<1>1. /\ stack # <<>> /\ Root(Top) /\ Top.kind = "trigger" /\ Top.phase = "path" /\ ~atEnd
      /\ UNCHANGED <<leveraged, events, history>>
  BY DEF visit, Phase, Running, Root, bindings, focus
<1>2. Top.at <= Depth /\ Top.at \in Elements
  BY <1>1, OnTheWay
<1>3. CASE events[Top.at].list # <<>>
  <2>1. handle(Further, objects, Top.at, Top.obj)
    BY <1>3 DEF visit
  <2>2. Top.obj \in Nat /\ Top.obj \in 1..Len(objects) /\ StoppedAtOnce(objects)
    BY <1>1, OnTop DEF NInv, Due
  <2>3. ~objects[Top.obj].immediate
    BY <1>1, <2>2 DEF atEnd, StoppedAtOnce
  <2>4. Keeps(objects, objects)
    BY DEF Keeps
  <2>. QED
    BY <1>1, <2>1, <2>2, <2>3, <2>4, HandleDue
<1>4. CASE events[Top.at].list = <<>>
  <2>1. stack' = Further /\ UNCHANGED objects
    BY <1>4 DEF visit
  <2>. QED
    BY <1>1, <1>2, <1>4, <2>1, NoneBound, FurtherDue
<1>. QED
  BY <1>3, <1>4

\* listener.
LEMMA ListenerDue == ASSUME IInv, IInv', HInv, NInv, listener PROVE NInv'
<1>1. /\ stack # <<>> /\ Root(Top) /\ Top.kind = "native" /\ Top.phase = "path" /\ ~atEnd
      /\ UNCHANGED <<leveraged, events, history>>
  BY DEF listener, Phase, Running, Root, bindings, focus
<1>2. Top.at <= Depth /\ Top.at \in Elements
  BY <1>1, OnTheWay
<1>3. CASE Top.at \in listening
  <2>. DEFINE o == EventObject(FALSE, Top.obj)
              os == Append(objects, o)
              k == Len(objects) + 1
  <2>1. handle(Further, os, Top.at, k)
    BY <1>3 DEF listener
  <2>2. Top.obj \in Nat
    BY <1>1, OnTop
  <2>3. o \in EventObjects /\ ~o.immediate
    BY <2>2, ObjectBegins DEF EventObject
  <2>. HIDE DEF o
  <2>4. Len(objects) \in Nat /\ objects \in Seq(EventObjects)
    BY NewFresh
  <2>5. os[k] = o /\ Keeps(objects, os) /\ Len(os) = k /\ k \in Nat
    BY <2>3, <2>4, AppendLeaves, AppendProperties DEF Keeps
  <2>6. StoppedAtOnce(os)
    <3>1. \A j \in 1..Len(os) : j \in 1..Len(objects) \/ j = k
      BY <2>4, <2>5
    <3>. HIDE DEF os, k
    <3>. QED
      BY <2>3, <2>5, <3>1, StillStopped
  <2>. HIDE DEF os, k
  <2>. QED
    BY <1>1, <2>1, <2>3, <2>5, <2>6, HandleDue
<1>4. CASE Top.at \notin listening
  <2>1. stack' = Further /\ UNCHANGED objects
    BY <1>4 DEF listener
  <2>2. events[Top.at].list = <<>>
    BY <1>2, <1>4 DEF IInv, ListsFit
  <2>. QED
    BY <1>1, <1>2, <2>1, <2>2, NoneBound, FurtherDue
<1>. QED
  BY <1>3, <1>4

\* pathEnd.
LEMMA PathEndDue == ASSUME IInv, IInv', HInv, NInv, pathEnd PROVE NInv'
<1>. DEFINE p == IF Top.kind = "trigger" THEN "tail" ELSE "over"
            m == Len(stack)
<1>1. /\ stack # <<>> /\ Root(Top) /\ Top.phase = "path" /\ stack' = InPhase(p) /\ atEnd
      /\ UNCHANGED <<leveraged, events, objects, history>>
  BY DEF pathEnd, Phase, Running, Root, bindings, focus
<1>2. p \in {"tail", "method", "over"}
  OBVIOUS
<1>. HIDE DEF p
<1>3. /\ m \in Nat /\ m >= 1 /\ Len(stack') = m /\ Goes(stack'[m], Top)
      /\ \A i \in 1..(m - 1) : stack'[i] = stack[i]
  BY <1>1, <1>2, GoesFurther
<1>4. Keeps(objects, objects') /\ Uncalled(history, history') /\ Len(stack') # m + 1
  BY <1>1, <1>3 DEF Keeps, Uncalled
<1>5. StoppedAtOnce(objects')
  BY <1>1 DEF NInv, Due, StoppedAtOnce
<1>6. HandsOn(leveraged, events, stack, history[ThisCall], objects', stack')
  <2>1. /\ Top = stack[m] /\ Top \in Frames
        /\ FrameFits(leveraged, events, objects, Lower(stack, m), Top, NoFrame, history[ThisCall])
    BY <1>1, TopHeld
  <2>2. SUFFICES ASSUME OnWay(Lower(stack, m), Top), Clean(history[ThisCall].log),
                        NEW k \in Top.at..LastOf(leveraged, Top)
                 PROVE  FALSE
    BY <2>1 DEF HandsOn
  <2>3. Top.at \in Nat /\ LastOf(leveraged, Top) \in Nat
    BY <1>1, <2>1, FrameFields, LastElement, EventsAssumption
  <2>4. Top.at <= LastOf(leveraged, Top)
    BY <2>2, <2>3
  <2>5. ~objects[Top.obj].stopped
    BY <1>1, <2>1, <2>2, <2>4 DEF FrameFits, RootFits
  <2>6. End(Top) = LastOf(leveraged, Top)
    BY DEF End, LastOf
  <2>. QED
    BY <1>1, <2>3, <2>4, <2>5, <2>6 DEF atEnd
<1>. QED
  BY <1>1, <1>3, <1>4, <1>5, <1>6, RootDue

\* An event whose way is over has nothing to hand on.
LEMMA HandsNothing ==
  ASSUME IInv, stack # <<>>, Top.phase # "path", NEW this, NEW new, NEW t
  PROVE  HandsOn(leveraged, events, stack, this, new, t)
<1>1. Top = stack[Len(stack)]
  BY OnTop
<1>. QED
  BY <1>1 DEF HandsOn, OnWay

\* tailEnd.
LEMMA TailEndDue == ASSUME IInv, IInv', HInv, NInv, tailEnd PROVE NInv'
<1>. DEFINE m == Len(stack)
<1>1. /\ stack # <<>> /\ Root(Top) /\ Top.phase = "method" /\ stack' = InPhase("over")
      /\ UNCHANGED <<leveraged, events, objects, history>>
  BY DEF tailEnd, Phase, Running, Root, bindings, focus
<1>2. /\ m \in Nat /\ m >= 1 /\ Len(stack') = m /\ Goes(stack'[m], Top)
      /\ \A i \in 1..(m - 1) : stack'[i] = stack[i]
  BY <1>1, GoesFurther
<1>3. Keeps(objects, objects') /\ Uncalled(history, history') /\ Len(stack') # m + 1
  BY <1>1, <1>2 DEF Keeps, Uncalled
<1>4. StoppedAtOnce(objects')
  BY <1>1 DEF NInv, Due, StoppedAtOnce
<1>5. HandsOn(leveraged, events, stack, history[ThisCall], objects', stack')
  BY <1>1, HandsNothing
<1>. QED
  BY <1>1, <1>2, <1>3, <1>4, <1>5, RootDue

\* tail.
LEMMA TailDue == ASSUME IInv, IInv', HInv, NInv, tail PROVE NInv'
<1>. DEFINE m == Len(stack)
<1>1. /\ stack # <<>> /\ Root(Top) /\ Top.phase = "tail" /\ UNCHANGED <<leveraged, events>>
  BY DEF tail, Phase, Running, Root, bindings
<1>2. m \in Nat /\ m >= 1 /\ HandsOn(leveraged, events, stack, history[ThisCall], objects', stack')
  BY <1>1, GoesFurther, HandsNothing
<1>3. ASSUME NEW p \in {"tail", "method", "over"}, stack' = InPhase(p), objects' = objects,
             Uncalled(history, history')
      PROVE  NInv'
  <2>1. /\ Len(stack') = m /\ Goes(stack'[m], Top)
        /\ \A i \in 1..(m - 1) : stack'[i] = stack[i]
    BY <1>1, <1>3, GoesFurther
  <2>2. Keeps(objects, objects') /\ Len(stack') # m + 1
    BY <1>2, <1>3, <2>1 DEF Keeps
  <2>3. StoppedAtOnce(objects')
    BY <1>3 DEF NInv, Due, StoppedAtOnce
  <2>. QED
    BY <1>1, <1>2, <1>3, <2>1, <2>2, <2>3, RootDue
<1>4. ASSUME method(InPhase("method"), objects, Top.node)
      PROVE  NInv'
  <2>. DEFINE t == InPhase("method")
              g == Native(Len(objects) + 1, Top.node, ThisCall)
              o == EventObject(FALSE, 0)
  <2>1. /\ t \in Seq(Frames) /\ Len(t) = m /\ Goes(t[m], Top)
        /\ \A i \in 1..(m - 1) : t[i] = stack[i]
    BY <1>1, GoesFurther
  <2>. HIDE DEF t
  <2>2. CASE objects' = Append(objects, o) /\ stack' = Append(t, g) /\ UNCHANGED history
    <3>1. o \in EventObjects /\ ~o.immediate
      BY ObjectBegins DEF EventObject
    <3>. HIDE DEF o
    <3>2. Len(objects) \in Nat /\ objects \in Seq(EventObjects)
      BY NewFresh
    <3>3. Keeps(objects, objects') /\ Uncalled(history, history')
      BY <2>2, <3>1, <3>2, AppendLeaves DEF Keeps, Uncalled
    <3>4. StoppedAtOnce(objects')
      <4>1. Len(objects') = Len(objects) + 1 /\ objects'[Len(objects) + 1] = o
        BY <2>2, <3>1, <3>2, AppendProperties
      <4>2. \A j \in 1..Len(objects') : j \in 1..Len(objects) \/ j = Len(objects) + 1
        BY <3>2, <4>1
      <4>. QED
        BY <3>1, <3>3, <4>1, <4>2, StillStopped
    <3>5. g.call = ThisCall
      BY DEF Native
    <3>. HIDE DEF g
    <3>6. Len(stack') = m + 1 /\ stack'[m + 1] = g /\ \A i \in 1..m : stack'[i] = t[i]
      BY <1>2, <2>1, <2>2, AppendLast
    <3>7. m \in 1..m /\ \A i \in 1..(m - 1) : i \in 1..m
      BY <1>2
    <3>8. Goes(stack'[m], Top) /\ \A i \in 1..(m - 1) : stack'[i] = stack[i]
      BY <2>1, <3>6, <3>7
    <3>. QED
      BY <1>1, <1>2, <3>3, <3>4, <3>5, <3>6, <3>8, RootDue
  <2>3. CASE stack' = t /\ objects' = objects /\ (history' = history \/ excused)
    BY <1>3, <2>3, ExcusedUncalled DEF t
  <2>. QED
    BY <1>4, <2>2, <2>3 DEF method, t
<1>5. CASE stack' = InPhase("over") /\ UNCHANGED <<triggered, active, late, objects, history>>
  BY <1>3, <1>5 DEF Uncalled
<1>. QED
  BY <1>4, <1>5 DEF tail

-----------------------------------------------------------------------------
(* What a dispatch has still to call. *)

\* What has stopped no event had not, and what was not called was not before.
Longer(old, log) == (Clean(log) => Clean(old)) /\ \A h : Unlogged(h, log) => Unlogged(h, old)

\* What is in the queue of the dispatch on top was called, or is still to be called by one
\* of the frames from its event on.
QueueHands(lev, es, new, t, this) ==
  Clean(this.log) =>
    \A q \in 1..Len(Top.queue), k \in Elements : \A h \in Bound(es[k]) :
      h = Top.queue[q].h /\ h \in this.due /\ Unlogged(h.id, this.log) =>
        Coming(lev, es, new, t, Len(stack) - 1, h)

\* Nothing that is due is lost when a dispatch goes on.
LEMMA DispatchDue ==
  ASSUME IInv, IInv', HInv, NInv, Running("dispatch"), goesOn, UNCHANGED leveraged,
         Fewer(events, events', {}),
         NEW x, Fresh(stack, ThisCall, x),
         Leaves(objects, objects', x, stack[Len(stack) - 1].obj), StoppedAtOnce(objects'),
         Onward(history, history'), Longer(history[ThisCall].log, history'[ThisCall].log),
         LET m == Len(stack)  t == stack' IN
         /\ Len(t) >= m /\ \A i \in 1..m : t[i] = Passed[i]
         /\ \A i \in (m + 1)..Len(t) : t[i].call = ThisCall /\ ~(t[i].kind = "dispatch")
         /\ GoesAhead(objects', Passed[m], Upper(t, m)),
         QueueHands(leveraged, events', objects', stack', history'[ThisCall])
  PROVE  NInv'
<1>. DEFINE m == Len(stack)
            r == m - 1
            f == stack[m - 1]
            e == Passed[m]
            t == stack'
            old == history[ThisCall]
            this == history'[ThisCall]
<1>1. /\ stack # <<>> /\ m \in Nat /\ m >= 2 /\ Top = stack[m] /\ Top.kind = "dispatch"
      /\ r \in 1..m /\ Root(f) /\ f \in Frames /\ f.call = ThisCall
      /\ \A i \in 1..(m - 1) : Passed[i] = stack[i]
      /\ e.call = ThisCall /\ ThisCall = Len(history)
  BY DispatchRuns
<1>2. Len(t) \in Nat /\ Len(t) >= m
  BY LenProperties DEF IInv, StackFits
<1>3. /\ t[m] = e /\ \A i \in 1..(m - 1) : t[i] = stack[i]
      /\ t[m - 1] = f /\ \A i \in 1..(r - 1) : t[i] = stack[i]
  <2>1. m \in 1..m /\ m - 1 \in 1..m /\ m - 1 \in 1..(m - 1)
        /\ (\A i \in 1..(m - 1) : i \in 1..m) /\ \A i \in 1..((m - 1) - 1) : i \in 1..(m - 1)
    BY <1>1
  <2>. QED
    BY <1>1, <2>1
<1>4. Lower(t, r) = Lower(stack, r) /\ m - 1 = r
  <2>1. r = 1 \/ r - 1 \in 1..(r - 1)
    <3>1. \A y \in Nat : y >= 2 => y - 1 = 1 \/ (y - 1) - 1 \in 1..((y - 1) - 1)
      OBVIOUS
    <3>. QED
      BY <1>1, <3>1
  <2>. QED
    BY <1>3, <2>1 DEF Lower
<1>5. \A i \in r..Len(t) : i = r \/ i = m \/ i \in (m + 1)..Len(t)
  BY <1>1, <1>2
<1>6. ASSUME NEW i \in r..Len(t)
      PROVE  t[i].call = ThisCall /\ GoesAhead(objects', t[i], Upper(t, i))
  <2>1. CASE i = r
    BY <1>1, <1>3, <2>1 DEF GoesAhead, Root
  <2>2. CASE i = m
    BY <1>1, <1>3, <2>2
  <2>3. CASE i \in (m + 1)..Len(t)
    BY <2>3 DEF GoesAhead
  <2>. QED
    BY <1>5, <2>1, <2>2, <2>3
<1>7. LastLost(leveraged, events', objects', t, r, this)
  <2>1. SUFFICES ASSUME Clean(this.log), NEW k \in Elements, NEW h \in Bound(events'[k]),
                        h \in this.due, Unlogged(h.id, this.log)
                 PROVE  Coming(leveraged, events', objects', t, r, h)
    BY DEF LastLost
  <2>2. Clean(old.log) /\ Unlogged(h.id, old.log) /\ h \in old.due
    BY <1>1, <2>1 DEF Longer, Onward
  <2>3. h \in Bound(events[k])
    BY DEF Fewer
  <2>4. LastLost(leveraged, events, objects, stack, r, old)
    BY <1>1, LastDue
  <2>5. PICK i \in r..m : StillCallsAt(leveraged, events, objects, stack, i, h)
    BY <2>2, <2>3, <2>4 DEF LastLost, Coming
  <2>6. CASE i = r
    <3>1. BindingsFit(leveraged, events, saved) /\ h.id \notin {} /\ f \in Frames
      BY <1>1 DEF HInv, Held
    <3>2. StillCalls(leveraged, events, objects, Lower(stack, r), f, Upper(stack, r), h)
      BY <2>5, <2>6 DEF StillCallsAt
    <3>3. ~Live(objects, f, Upper(stack, r))
      BY <1>1 DEF Live, Root
    <3>4. StillCalls(leveraged, events', objects', Lower(stack, r), f, Upper(t, r), h)
      <4>. HIDE DEF m, r, f, e, t, old, this
      <4>. QED
        BY <2>1, <3>1, <3>2, <3>3, StillThere
    <3>5. StillCallsAt(leveraged, events', objects', t, r, h)
      BY <1>3, <1>4, <3>4 DEF StillCallsAt
    <3>6. r \in r..Len(t)
      BY <1>1, <1>2
    <3>. QED
      BY <3>5, <3>6 DEF Coming
  <2>7. CASE i = m
    <3>1. ~OnWay(Lower(stack, m), Top)
      BY <1>1 DEF OnWay, Root
    <3>2. PICK q \in 1..Len(Top.queue) : Top.queue[q].h = h
      BY <1>1, <2>5, <2>7, <3>1 DEF StillCallsAt, StillCalls
    <3>. QED
      BY <1>4, <2>1, <3>2 DEF QueueHands
  <2>8. i = r \/ i = m
    BY <1>1
  <2>. QED
    BY <2>6, <2>7, <2>8
<1>8. Len(t) >= r /\ t[r].kind = stack[r].kind /\ r \in 1..Len(stack) /\ Root(stack[r])
      /\ stack[r].call = ThisCall /\ Leaves(objects, objects', x, stack[r].obj)
  BY <1>1, <1>2, <1>3
<1>. HIDE DEF r, t, m
<1>. QED
  BY <1>1, <1>3, <1>6, <1>7, <1>8, DueGoesOn DEF t

\* What is left of the queue of a dispatch that goes on is still to be called.
LEMMA PassedHands ==
  ASSUME IInv, HInv, Running("dispatch"), goesOn, NEW es, NEW new, NEW t, NEW this,
         Len(t) >= Len(stack), Len(t) \in Nat, t[Len(stack)] = Passed[Len(stack)],
         Live(new, Passed[Len(stack)], Upper(t, Len(stack))),
         ~Unlogged(Next1.h.id, this.log) \/ Next1.h.id \notin Ids
  PROVE  QueueHands(leveraged, es, new, t, this)
<1>. DEFINE m == Len(stack)
            e == Passed[m]
            q == Top.queue
            s == e.queue
<1>1. /\ Top \in Frames /\ Top.kind = "dispatch" /\ q # <<>> /\ s = Tail(q)
      /\ m \in Nat /\ m >= 2
  BY DispatchRuns DEF goesOn
<1>. HIDE DEF e
<1>2. /\ Len(q) \in Nat /\ Len(q) >= 1 /\ Len(s) = Len(q) - 1 /\ Next1 = q[1]
      /\ \A j \in 1..Len(s) : s[j] = q[j + 1]
  BY <1>1, DispatchSteps DEF Next1
<1>. HIDE DEF s
<1>3. SUFFICES ASSUME NEW j \in 1..Len(q), NEW k \in Elements, NEW h \in Bound(es[k]),
                      h = q[j].h, Unlogged(h.id, this.log)
               PROVE  Coming(leveraged, es, new, t, m - 1, h)
  BY DEF QueueHands
<1>4. j # 1
  BY <1>2, <1>3 DEF Bound
<1>5. j - 1 \in 1..Len(s) /\ (j - 1) + 1 = j
  BY <1>2, <1>4
<1>6. s[j - 1].h = h
  BY <1>2, <1>3, <1>5
<1>7. StillCalls(leveraged, es, new, Lower(t, m), e, Upper(t, m), h)
  BY <1>5, <1>6 DEF StillCalls, e, s
<1>8. StillCallsAt(leveraged, es, new, t, m, h)
  BY <1>7 DEF StillCallsAt, e
<1>9. m \in (m - 1)..Len(t)
  BY <1>1
<1>. QED
  BY <1>8, <1>9 DEF Coming

\* Of the last call, less is due, and the log goes on.
LEMMA OnwardExcept ==
  ASSUME history \in Seq(Calls), ThisCall \in 1..Len(history), ThisCall = Len(history),
         NEW this \in Calls, this.due \subseteq history[ThisCall].due,
         history' = [history EXCEPT ![ThisCall] = this]
  PROVE  Onward(history, history') /\ history'[ThisCall] = this
<1>1. Len(history) \in Nat
  BY LenProperties
<1>2. /\ Len(history') = Len(history)
      /\ \A c \in 1..Len(history) : history'[c] = IF c = ThisCall THEN this ELSE history[c]
  BY ExceptSeq
<1>3. \A c \in 1..(Len(history) - 1) : c \in 1..Len(history) /\ c # ThisCall
  BY <1>1
<1>. QED
  BY <1>2, <1>3 DEF Onward

\* Nothing is noted.
LEMMA OnwardSame ==
  ASSUME UNCHANGED history
  PROVE  Onward(history, history') /\ Longer(history[ThisCall].log, history'[ThisCall].log)
  BY DEF Onward, Longer

\* An event that is told to stop, or is not, is stopped where it is stopped at once.
LEMMA ToldStops ==
  ASSUME NInv, NEW new, NEW k \in 1..Len(objects),
         Quiet(objects, new) \/ Stopping(objects, new, k) \/ Ending(objects, new, k)
  PROVE  StoppedAtOnce(new)
<1>1. StoppedAtOnce(objects)
  BY DEF NInv, Due
<1>2. Touches(objects, new, k) /\ Len(new) = Len(objects)
  BY Together DEF Touches, Alike, Stopping, Ending, Quiet
<1>3. SUFFICES ASSUME NEW o \in 1..Len(objects), new[o].immediate PROVE new[o].stopped
  BY <1>2 DEF StoppedAtOnce
<1>4. CASE Same(objects[o], new[o])
  BY <1>1, <1>3, <1>4 DEF Same, StoppedAtOnce
<1>5. CASE ~Same(objects[o], new[o])
  <2>1. o \in {k, objects[k].native} /\ ~Quiet(objects, new)
    BY <1>2, <1>5 DEF Touches, Quiet
  <2>. QED
    BY <2>1 DEF Stopping, Ending
<1>. QED
  BY <1>4, <1>5

\* call.
LEMMA CallDue == ASSUME IInv, IInv', HInv, NInv, call PROVE NInv'
<1>. DEFINE m == Len(stack)
            f == stack[m - 1]
            e == Passed[m]
            h == Handler(Top.obj, ThisCall)
            entry == [id |-> Next1.h.id, node |-> Top.node, elem |-> Next1.elem, stops |-> "no"]
            old == history[ThisCall].log
            log == Append(old, entry)
            this == [history[ThisCall] EXCEPT !.log = log]
            t == stack'
<1>1. /\ Running("dispatch") /\ goesOn /\ Next1.h.fn \in Fns
      /\ stack' = Append(Passed, h) /\ logged(entry)
      /\ UNCHANGED <<leveraged, objects>>
      /\ UNCHANGED events \/ \E gone : remove(Top.node, gone)
  BY DEF call, Calling, focus, bindings
<1>2. /\ stack # <<>> /\ m \in Nat /\ m >= 2 /\ Top.kind = "dispatch" /\ Top \in Frames
      /\ ThisCall \in 1..Len(history) /\ history[ThisCall] \in Calls
      /\ ThisCall = Len(history)
      /\ Fresh(stack, ThisCall, Top.obj)
      /\ Passed \in Seq(Frames) /\ Len(Passed) = m /\ e.kind = "dispatch"
  BY <1>1, DispatchRuns
<1>3. Top.node \in Elements
  BY <1>2, FrameFields
<1>4. Fewer(events, events, {})
  BY DEF Fewer
<1>5. Fewer(events, events', {})
  <2>1. ASSUME NEW gone, remove(Top.node, gone) PROVE Fewer(events, events', {})
    BY <1>3, <2>1, RemoveFits DEF IInv, HInv, Held
  <2>2. CASE UNCHANGED events
    BY <1>4, <2>2
  <2>. QED
    BY <1>1, <2>1, <2>2
<1>6. Next1 \in Queued
  BY <1>1, <1>4, QueueGoesOn
<1>7. entry \in Entries /\ entry.id = Next1.h.id
  <2>1. Next1.h \in Handlers
    BY <1>1, <1>6, EventsAssumption DEF Queued, Stub, ReturnTrue
  <2>. QED
    BY <1>3, <1>6, <2>1 DEF Entries, Handlers, Queued
<1>8. old \in Seq(Entries)
  BY <1>2 DEF Calls
<1>. HIDE DEF entry
<1>9. history' = [history EXCEPT ![ThisCall] = this] /\ this \in Calls
      /\ this.log = log /\ this.due = history[ThisCall].due
  <2>1. history' = [history EXCEPT ![ThisCall] = this]
    BY <1>1 DEF logged
  <2>2. log \in Seq(Entries)
    BY <1>7, <1>8, AppendProperties
  <2>. HIDE DEF log
  <2>. QED
    BY <1>2, <2>1, <2>2 DEF Calls, this
<1>. HIDE DEF this
<1>10. /\ Len(old) \in Nat /\ Len(log) = Len(old) + 1 /\ log[Len(old) + 1] = entry
       /\ \A i \in 1..Len(old) : log[i] = old[i] /\ i \in 1..Len(log)
       /\ Len(old) + 1 \in 1..Len(log)
  BY <1>7, <1>8, AppendProperties, LenProperties
<1>. HIDE DEF log, old
<1>11. Longer(old, log) /\ ~Unlogged(Next1.h.id, log)
  BY <1>7, <1>10 DEF Longer, Clean, Unlogged
<1>12. Onward(history, history') /\ history'[ThisCall] = this
  BY <1>2, <1>9, OnwardExcept DEF IInv
<1>13. h.call = ThisCall /\ h.kind = "handler"
  BY DEF Handler
<1>. HIDE DEF h
<1>14. Len(t) = m + 1 /\ t[m + 1] = h /\ \A i \in 1..m : t[i] = Passed[i]
  BY <1>1, <1>2, AppendLast
<1>15. m # m + 1 /\ m \in 1..m /\ Len(t) >= m /\ Len(t) \in Nat /\ \A i \in (m + 1)..Len(t) : i = m + 1
  BY <1>2, <1>14
<1>16. Upper(t, m) = h /\ t[m] = Passed[m]
  BY <1>14, <1>15 DEF Upper
<1>17. GoesAhead(objects', Passed[m], Upper(t, m))
  BY <1>13, <1>16 DEF GoesAhead
<1>18. Live(objects', Passed[m], Upper(t, m))
  BY <1>2, <1>13, <1>16 DEF Live
<1>19. QueueHands(leveraged, events', objects', t, history'[ThisCall])
  <2>1. ~Unlogged(Next1.h.id, history'[ThisCall].log)
    BY <1>9, <1>11, <1>12
  <2>. HIDE DEF m, t
  <2>. QED
    BY <1>1, <1>15, <1>16, <1>18, <2>1, PassedHands DEF m
<1>20. Leaves(objects, objects', Top.obj, f.obj) /\ StoppedAtOnce(objects')
  BY <1>1 DEF Leaves, Same, NInv, Due, StoppedAtOnce
<1>21. Longer(history[ThisCall].log, history'[ThisCall].log)
  BY <1>9, <1>11, <1>12 DEF old
<1>22. \A i \in (m + 1)..Len(t) : t[i].call = ThisCall /\ ~(t[i].kind = "dispatch")
  BY <1>13, <1>14, <1>15
<1>. QED
  BY <1>1, <1>2, <1>5, <1>12, <1>14, <1>15, <1>17, <1>19, <1>20, <1>21, <1>22, DispatchDue

\* A dispatch passes over the first of its queue, which is jQuery's own.
LEMMA PassedDue ==
  ASSUME IInv, IInv', HInv, NInv, Running("dispatch"), goesOn, stack' = Passed,
         UNCHANGED <<leveraged, events, history>>, Next1.h.id \notin Ids,
         Quiet(objects, objects') \/ Stopping(objects, objects', Top.obj)
  PROVE  NInv'
<1>. DEFINE m == Len(stack)
            f == stack[m - 1]
<1>1. /\ m \in Nat /\ m >= 2 /\ Top.obj \in 1..Len(objects)
      /\ Fresh(stack, ThisCall, Top.obj) /\ objects[Top.obj].native \in {0, f.obj}
      /\ Len(Passed) = m /\ Passed[m].kind = "dispatch" /\ Passed[m].obj = Top.obj
  BY DispatchRuns
<1>2. Touches(objects, objects', Top.obj) /\ objects'[Top.obj].immediate = objects[Top.obj].immediate
  BY <1>1, Together DEF Stopping, Quiet, Same
<1>3. Leaves(objects, objects', Top.obj, f.obj)
  BY <1>1, <1>2, TouchesLeaves
<1>4. StoppedAtOnce(objects')
  BY <1>1, ToldStops
<1>5. Onward(history, history') /\ Longer(history[ThisCall].log, history'[ThisCall].log)
  BY OnwardSame
<1>6. Fewer(events, events', {})
  BY DEF Fewer
<1>7. Upper(stack', m) = NoFrame /\ Len(stack') >= m /\ Len(stack') \in Nat
      /\ (m + 1)..Len(stack') = {}
  BY <1>1 DEF Upper
<1>8. ~objects[Top.obj].immediate
  BY DEF goesOn
<1>9. Live(objects', Passed[m], Upper(stack', m)) /\ GoesAhead(objects', Passed[m], Upper(stack', m))
  BY <1>1, <1>2, <1>7, <1>8 DEF Live, GoesAhead, NoFrame
<1>10. QueueHands(leveraged, events', objects', stack', history'[ThisCall])
  BY <1>7, <1>9, PassedHands
<1>11. \A i \in 1..m : stack'[i] = Passed[i]
  OBVIOUS
<1>. QED
  BY <1>1, <1>3, <1>4, <1>5, <1>6, <1>7, <1>9, <1>10, <1>11, DispatchDue

\* returnTrue.
LEMMA ReturnTrueDue == ASSUME IInv, IInv', HInv, NInv, returnTrue PROVE NInv'
<1>1. /\ Running("dispatch") /\ goesOn /\ stack' = Passed /\ Next1.h.fn = "true"
      /\ objects' = answered(objects, Top.obj, "true")
      /\ UNCHANGED <<leveraged, events, history>>
  BY DEF returnTrue, Calling, bindings, focus
<1>2. Top.obj \in 1..Len(objects)
  BY <1>1, DispatchRuns
<1>3. objects \in Seq(EventObjects) /\ objects[Top.obj].native < Top.obj
  BY <1>2 DEF IInv, ObjectsFit
<1>4. "true" \in Results /\ "true" # "false"
  BY DEF Results
<1>5. Quiet(objects, objects')
  BY <1>1, <1>2, <1>3, <1>4, AnsweredTo
<1>6. Next1.h.id \notin Ids
  <2>1. Fewer(events, events, {})
    BY DEF Fewer
  <2>2. Next1.h \in Handlers \union {Stub, ReturnTrue}
    BY <1>1, <2>1, QueueGoesOn DEF Queued
  <2>. QED
    BY <1>1, <2>2, EventsAssumption DEF Handlers, Stub, ReturnTrue
<1>. QED
  BY <1>1, <1>5, <1>6, PassedDue

\* The stub is nothing that is bound.
LEMMA StubUnbound ==
  ASSUME IInv, HInv, Calling({"stub"})
  PROVE  Next1.h.id \notin Ids /\ goesOn /\ Running("dispatch")
<1>1. Next1.h = Stub /\ goesOn /\ Running("dispatch")
  BY PassingStub
<1>. QED
  BY <1>1, EventsAssumption DEF Stub

\* stubIdle.
LEMMA StubIdleDue == ASSUME IInv, IInv', HInv, NInv, stubIdle PROVE NInv'
<1>1. /\ Calling({"stub"}) /\ stack' = Passed
      /\ UNCHANGED <<leveraged, events, objects, history>>
  BY DEF stubIdle, bindings, focus
<1>2. Alike(objects, objects)
  BY DEF Alike, IInv, ObjectsFit
<1>3. Quiet(objects, objects')
  BY <1>1, <1>2 DEF Quiet, Same
<1>. QED
  BY <1>1, <1>3, StubUnbound, PassedDue

\* stubUnderWay.
LEMMA StubUnderWayDue == ASSUME IInv, IInv', HInv, NInv, stubUnderWay PROVE NInv'
<1>1. /\ Calling({"stub"}) /\ stack' = Passed
      /\ objects' = stopPropagation(objects, Top.obj)
      /\ UNCHANGED <<leveraged, events, history>>
  BY DEF stubUnderWay, bindings, focus
<1>2. goesOn /\ Running("dispatch")
  BY <1>1, StubUnbound
<1>3. Top.obj \in 1..Len(objects)
  BY <1>2, DispatchRuns
<1>4. objects \in Seq(EventObjects) /\ objects[Top.obj].native < Top.obj
  BY <1>3 DEF IInv, ObjectsFit
<1>5. Stopping(objects, objects', Top.obj)
  BY <1>1, <1>3, <1>4, HappensTo
<1>. QED
  BY <1>1, <1>5, StubUnbound, PassedDue

\* The stub brings an event: what was to be called after the stub is on the way of that.
LEMMA StubBringsDue ==
  ASSUME IInv, IInv', HInv, NInv, Calling({"stub"}), UNCHANGED <<leveraged, events, history>>,
         NEW x, Fresh(stack, ThisCall, x),
         Leaves(objects, objects', x, stack[Len(stack) - 1].obj), StoppedAtOnce(objects'),
         NEW c, c.kind = "controller", c.call = ThisCall, ~c.sync,
         NEW g, Root(g), g.phase = "path", g.call = ThisCall, g.node = Top.node, g.at = Top.node,
         Len(stack') = Len(stack) + 2, \A i \in 1..Len(stack) : stack'[i] = Passed[i],
         stack'[Len(stack) + 1] = c, stack'[Len(stack) + 2] = g
  PROVE  NInv'
<1>. DEFINE m == Len(stack)
            f == stack[m - 1]
            e == Passed[m]
            t == stack'
            this == history[ThisCall]
<1>1. Running("dispatch") /\ goesOn /\ leveraged /\ stack # <<>> /\ Next1.h = Stub
  BY PassingStub
<1>2. m \in Nat /\ m >= 2
  BY <1>1, DispatchRuns
<1>3. g.node = 1 /\ g.at = 1
  BY <1>1, PassedFits DEF goesOn
<1>4. /\ m \in 1..m /\ Len(t) >= m /\ m # Len(t) /\ m + 2 # 1 /\ (m + 2) - 1 = m + 1
      /\ m + 2 \in (m - 1)..Len(t)
      /\ \A i \in (m + 1)..Len(t) : i = m + 1 \/ i = m + 2
  <2>1. \A y \in Nat : y >= 2 =>
          /\ y \in 1..y /\ y + 2 >= y /\ y # y + 2 /\ y + 2 # 1 /\ (y + 2) - 1 = y + 1
          /\ y + 2 \in (y - 1)..(y + 2)
          /\ \A i \in (y + 1)..(y + 2) : i = y + 1 \/ i = y + 2
    OBVIOUS
  <2>2. Len(t) = m + 2
    OBVIOUS
  <2>. HIDE DEF m, t
  <2>. QED
    BY <1>2, <2>1, <2>2
<1>5. Upper(t, m) = c /\ Lower(t, m + 2) = c
  BY <1>4 DEF Upper, Lower
<1>6. GoesAhead(objects', Passed[m], Upper(t, m))
  BY <1>5 DEF GoesAhead
<1>7. \A i \in (m + 1)..Len(t) : t[i].call = ThisCall /\ ~(t[i].kind = "dispatch")
  <2>1. c.kind # "dispatch" /\ g.kind # "dispatch"
    BY DEF Root
  <2>. QED
    BY <1>4, <2>1
<1>8. QueueHands(leveraged, events, objects', t, this)
  <2>1. SUFFICES ASSUME NEW q \in 1..Len(Top.queue), NEW k \in Elements, NEW h \in Bound(events[k]),
                        h = Top.queue[q].h
                 PROVE  Coming(leveraged, events, objects', t, m - 1, h)
    BY DEF QueueHands
  <2>2. Fewer(events, events, {})
    BY DEF Fewer
  <2>3. QueueFits(leveraged, events, Top)
    BY <1>1, <2>2, QueueGoesOn DEF DispatchFits
  <2>4. k = Top.node
    BY <2>1, <2>3 DEF QueueFits
  <2>5. k = 1 /\ LastOf(leveraged, g) = 1 /\ 1 \in 1..1
    <3>1. leveraged => LastOf(leveraged, g) = g.node
      BY DEF LastOf
    <3>2. LastOf(leveraged, g) = g.node
      BY <1>1, <3>1
    <3>3. LastOf(leveraged, g) = 1 /\ k = 1
      BY <1>3, <2>4, <3>2, Zenon
    <3>4. 1 \in 1..1
      OBVIOUS
    <3>. QED
      BY <3>3, <3>4, Zenon
  <2>6. OnWay(c, g)
    BY DEF OnWay
  <2>7. 1 \in g.at..LastOf(leveraged, g) /\ h \in Bound(events[1])
    BY <1>3, <2>1, <2>5
  <2>8. StillCalls(leveraged, events, objects', c, g, Upper(t, m + 2), h)
    BY <2>6, <2>7 DEF StillCalls
  <2>9. StillCallsAt(leveraged, events, objects', t, m + 2, h)
    BY <1>5, <2>8 DEF StillCallsAt
  <2>. QED
    BY <1>4, <2>9 DEF Coming
<1>9. Onward(history, history') /\ Longer(history[ThisCall].log, history'[ThisCall].log)
  BY OnwardSame
<1>10. Fewer(events, events', {}) /\ UNCHANGED leveraged
  BY DEF Fewer
<1>11. QueueHands(leveraged, events', objects', t, history'[ThisCall])
  BY <1>8
<1>12. \A i \in 1..m : t[i] = Passed[i]
  OBVIOUS
<1>. HIDE DEF m, t
<1>. QED
  BY <1>1, <1>4, <1>6, <1>7, <1>9, <1>10, <1>11, <1>12, DispatchDue DEF m, t

\* stubArrived.
LEMMA StubArrivedDue == ASSUME IInv, IInv', HInv, NInv, stubArrived PROVE NInv'
<1>. DEFINE m == Len(stack)
            f == stack[m - 1]
            c == Controller(Top.obj, "again", FALSE, ThisCall)
            g == Trigger(saved.obj, Top.node, FALSE, ThisCall)
            o == EventObject(TRUE, 0)
            x == saved.obj
<1>1. /\ Calling({"stub"}) /\ ~objects[Top.obj].isTrigger /\ saved.is = "args"
      /\ objects' = [objects EXCEPT ![x] = o] /\ stack' = Passed \o <<c, g>>
      /\ UNCHANGED <<leveraged, events, history>>
  BY DEF stubArrived, bindings, focus
<1>2. Running("dispatch") /\ goesOn /\ Fresh(stack, ThisCall, x)
  BY <1>1, PassingStub
<1>3. m \in Nat /\ Passed \in Seq(Frames) /\ Len(Passed) = m
  BY <1>2, DispatchRuns
<1>4. /\ x \in 1..Len(objects) /\ objects[x].native = 0 /\ objects \in Seq(EventObjects)
  BY <1>1 DEF IInv, SavedFits, ObjectsFit
<1>5. o \in EventObjects /\ o.native = 0 /\ ~o.immediate
  BY ObjectBegins DEF EventObject
<1>6. /\ c.kind = "controller" /\ c.call = ThisCall /\ ~c.sync
      /\ Root(g) /\ g.phase = "path" /\ g.call = ThisCall /\ g.node = Top.node /\ g.at = Top.node
  BY DEF Controller, Trigger, Root
<1>7. Len(stack') = m + 2 /\ (\A i \in 1..m : stack'[i] = Passed[i]) /\ stack'[m + 1] = c /\ stack'[m + 2] = g
  <2>1. c \in Frames /\ g \in Frames
    <3>1. x \in Nat /\ Top.node \in Elements /\ Top.obj \in Nat /\ ThisCall \in Nat
      <4>1. stack # <<>>
        BY <1>2, DispatchRuns
      <4>. QED
        BY <1>2, <1>4, <4>1, OnTop, PassedFits DEF goesOn
    <3>. QED
      BY <3>1, FramesBegin
  <2>. HIDE DEF c, g
  <2>2. stack' = Append(Append(Passed, c), g)
    BY <1>1, <1>3, <2>1
  <2>. DEFINE s == Append(Passed, c)
  <2>3. s \in Seq(Frames) /\ Len(s) = m + 1 /\ s[m + 1] = c /\ \A i \in 1..m : s[i] = Passed[i]
    BY <1>3, <2>1, AppendProperties
  <2>. HIDE DEF s
  <2>4. /\ Len(stack') = (m + 1) + 1 /\ stack'[(m + 1) + 1] = g
        /\ \A i \in 1..(m + 1) : stack'[i] = s[i]
    BY <1>3, <2>1, <2>2, <2>3, AppendProperties DEF s
  <2>5. (\A i \in 1..m : i \in 1..(m + 1)) /\ m + 1 \in 1..(m + 1) /\ (m + 1) + 1 = m + 2
    BY <1>3
  <2>. QED
    BY <2>3, <2>4, <2>5
<1>. HIDE DEF c, g, o, x
<1>8. /\ objects'[x] = o /\ \A i \in 1..Len(objects) : i # x => objects'[i] = objects[i]
      /\ Len(objects') = Len(objects)
  BY <1>1, <1>4, <1>5, ExceptSeq
<1>9. Leaves(objects, objects', x, f.obj)
  BY <1>4, <1>5, <1>8 DEF Leaves, Same
<1>10. StoppedAtOnce(objects')
  BY <1>5, <1>8 DEF NInv, Due, StoppedAtOnce
<1>. QED
  BY <1>1, <1>2, <1>6, <1>7, <1>9, <1>10, StubBringsDue

\* The stub has called the method, and no event has come: what is in the queue is still to be
\* called if the input had the focus; otherwise nothing is due any more.
LEMMA StubWaitsDue ==
  ASSUME IInv, IInv', HInv, NInv, Calling({"stub"}), UNCHANGED <<leveraged, events, objects>>,
         NEW c, c = Controller(Top.obj, "method", active, ThisCall), c \in Frames,
         stack' = Append(Passed, c), (active /\ UNCHANGED history) \/ (~active /\ excused)
  PROVE  NInv'
<1>. DEFINE m == Len(stack)
            f == stack[m - 1]
            e == Passed[m]
            t == stack'
<1>1. /\ Running("dispatch") /\ goesOn /\ stack # <<>> /\ Next1.h.id \notin Ids
  BY StubUnbound, PassingStub
<1>2. /\ m \in Nat /\ m >= 2 /\ ThisCall \in 1..Len(history) /\ ThisCall = Len(history)
      /\ Fresh(stack, ThisCall, Top.obj) /\ history[ThisCall] \in Calls
      /\ Len(Passed) = m /\ Passed \in Seq(Frames)
      /\ e.kind = "dispatch" /\ e.obj = Top.obj
  BY <1>1, DispatchRuns
<1>3. Len(t) = m + 1 /\ t[m + 1] = c /\ \A i \in 1..m : t[i] = Passed[i]
  BY <1>2, AppendLast
<1>4. m # m + 1 /\ m \in 1..m /\ Len(t) >= m /\ Len(t) \in Nat /\ \A i \in (m + 1)..Len(t) : i = m + 1
  BY <1>2, <1>3
<1>5. t[m] = e /\ Upper(t, m) = c
  BY <1>3, <1>4 DEF Upper
<1>6. /\ c.kind = "controller" /\ c.call = ThisCall /\ c.sync = active
  BY DEF Controller
<1>7. \A i \in (m + 1)..Len(t) : t[i].call = ThisCall /\ ~(t[i].kind = "dispatch")
  BY <1>3, <1>4, <1>6
<1>8. ~objects[Top.obj].immediate
  BY <1>1 DEF goesOn
<1>9. GoesAhead(objects', e, Upper(t, m))
  BY <1>2, <1>8 DEF GoesAhead
<1>10. Onward(history, history') /\ Longer(history[ThisCall].log, history'[ThisCall].log)
  <2>1. CASE UNCHANGED history
    BY <2>1, OnwardSame
  <2>2. CASE excused
    <3>. DEFINE new == [history[ThisCall] EXCEPT !.due = {}]
    <3>1. new \in Calls /\ new.log = history[ThisCall].log /\ new.due = {}
      BY <1>2 DEF Calls
    <3>2. history' = [history EXCEPT ![ThisCall] = new]
      BY <2>2 DEF excused
    <3>. HIDE DEF new
    <3>3. Onward(history, history') /\ history'[ThisCall] = new
      BY <1>2, <3>1, <3>2, OnwardExcept DEF IInv
    <3>. QED
      BY <3>1, <3>3 DEF Longer
  <2>. QED
    BY <2>1, <2>2
<1>11. QueueHands(leveraged, events', objects', t, history'[ThisCall])
  <2>1. CASE active /\ UNCHANGED history
    <3>1. Live(objects', e, Upper(t, m))
      BY <1>2, <1>5, <1>6, <2>1 DEF Live
    <3>. HIDE DEF m, t
    <3>. QED
      BY <1>1, <1>4, <1>5, <3>1, PassedHands DEF m
  <2>2. CASE ~active /\ excused
    <3>1. history'[ThisCall].due = {}
      <4>1. history \in Seq(Calls)
        BY DEF IInv
      <4>. QED
        BY <1>2, <2>2, <4>1 DEF excused, Calls
    <3>. QED
      BY <3>1 DEF QueueHands
  <2>. QED
    BY <2>1, <2>2
<1>12. Fewer(events, events', {}) /\ Leaves(objects, objects', Top.obj, f.obj) /\ StoppedAtOnce(objects')
  BY DEF Fewer, Leaves, Same, NInv, Due, StoppedAtOnce
<1>. HIDE DEF m, f, t
<1>13. Len(t) >= m /\ \A i \in 1..m : t[i] = Passed[i]
  BY <1>3, <1>4
<1>. QED
  BY <1>1, <1>2, <1>7, <1>9, <1>10, <1>11, <1>12, <1>13, DispatchDue DEF m, f, t

\* stubTriggered.
LEMMA StubTriggeredDue == ASSUME IInv, IInv', HInv, NInv, stubTriggered PROVE NInv'
<1>. DEFINE m == Len(stack)
            f == stack[m - 1]
            c == Controller(Top.obj, "method", active, ThisCall)
            o == EventObject(FALSE, 0)
            k == Len(objects) + 1
            g == Native(k, Top.node, ThisCall)
            s == Append(Passed, c)
<1>1. /\ Calling({"stub"}) /\ method(s, objects, Top.node) /\ UNCHANGED <<leveraged, events>>
  BY DEF stubTriggered, bindings
<1>2. Running("dispatch") /\ goesOn /\ leveraged
  BY <1>1, PassingStub
<1>3. /\ m \in Nat /\ Passed \in Seq(Frames) /\ Len(Passed) = m /\ stack # <<>>
      /\ Fresh(stack, ThisCall, Top.obj) /\ ThisCall \in Nat
  BY <1>2, DispatchRuns
<1>4. Top.node \in Elements /\ Top.obj \in Nat
  BY <1>2, <1>3, OnTop, PassedFits DEF goesOn
<1>5. o \in EventObjects /\ ~o.immediate
  BY ObjectBegins DEF EventObject
<1>6. Len(objects) \in Nat /\ objects \in Seq(EventObjects) /\ k \in Nat
  BY NewFresh
<1>7. c \in Frames /\ (active = FALSE => ~c.sync)
  <2>1. saved.obj \in Nat /\ active \in BOOLEAN
    BY DEF IInv, SavedFits
  <2>. QED
    BY <1>3, <1>4, <2>1, FramesBegin DEF Controller
<1>8. g \in Frames
  BY <1>3, <1>4, <1>6, FramesBegin
<1>9. /\ c.kind = "controller" /\ c.call = ThisCall
      /\ Root(g) /\ g.phase = "path" /\ g.call = ThisCall /\ g.node = Top.node /\ g.at = Top.node
  BY DEF Controller, Native, Root
<1>. HIDE DEF c, g, o, k
<1>10. s \in Seq(Frames) /\ Len(s) = m + 1 /\ s[m + 1] = c /\ \A i \in 1..m : s[i] = Passed[i]
  BY <1>3, <1>7, AppendLast
<1>11. CASE /\ leveraged => ~active
            /\ objects' = Append(objects, o) /\ stack' = Append(s, g) /\ UNCHANGED history
  <2>. HIDE DEF s
  <2>1. /\ Len(stack') = (m + 1) + 1 /\ stack'[(m + 1) + 1] = g
        /\ \A i \in 1..(m + 1) : stack'[i] = s[i]
    BY <1>3, <1>8, <1>10, <1>11, AppendLast
  <2>2. (\A i \in 1..m : i \in 1..(m + 1)) /\ m + 1 \in 1..(m + 1) /\ (m + 1) + 1 = m + 2
    BY <1>3
  <2>3. Len(stack') = m + 2 /\ (\A i \in 1..m : stack'[i] = Passed[i]) /\ stack'[m + 1] = c /\ stack'[m + 2] = g
    BY <1>10, <2>1, <2>2
  <2>4. Leaves(objects, objects', Top.obj, f.obj) /\ Keeps(objects, objects')
        /\ objects'[k] = o /\ Len(objects') = k
    BY <1>5, <1>6, <1>11, AppendLeaves, AppendProperties DEF k, Keeps
  <2>5. StoppedAtOnce(objects')
    <3>1. \A j \in 1..Len(objects') : j \in 1..Len(objects) \/ j = k
      BY <1>6, <2>4 DEF k
    <3>. QED
      BY <1>5, <2>4, <3>1, StillStopped
  <2>6. ~c.sync
    <3>1. active \in BOOLEAN
      BY DEF IInv
    <3>. QED
      BY <1>2, <1>7, <1>11, <3>1
  <2>. QED
    BY <1>1, <1>3, <1>9, <1>11, <2>3, <2>4, <2>5, <2>6, StubBringsDue
<1>12. CASE /\ stack' = s /\ objects' = objects
            /\ (active /\ UNCHANGED history) \/ (~active /\ excused)
  BY <1>1, <1>7, <1>12, StubWaitsDue DEF c
<1>. QED
  BY <1>1, <1>11, <1>12 DEF method, o, g, k

-----------------------------------------------------------------------------
(* What is still to be called when a handler, or the stub's controller, goes on. *)

\* Nothing that is due is lost when what a dispatch has called goes on, or returns to it.
LEMMA HandlerDue ==
  ASSUME IInv, IInv', HInv, NInv, stack # <<>>, Top.kind \in {"handler", "controller"},
         UNCHANGED <<leveraged, events>>,
         Touches(objects, objects', Top.obj), StoppedAtOnce(objects'),
         Onward(history, history'), Longer(history[ThisCall].log, history'[ThisCall].log), NEW up,
         LET d == stack[Len(stack) - 1] IN
         /\ (stack' = stack /\ up = Top) \/ (stack' = Front(stack) /\ up = NoFrame)
         /\ Clean(history'[ThisCall].log) /\ Live(objects, d, Top) => Live(objects', d, up)
         /\ GoesAhead(objects', d, up)
  PROVE  NInv'
<1>. DEFINE m == Len(stack)
            d == stack[m - 1]
            f == stack[m - 2]
            r == m - 2
            t == stack'
            old == history[ThisCall]
            this == history'[ThisCall]
<1>1. /\ m \in Nat /\ m >= 3 /\ Top = stack[m] /\ ~Root(Top) /\ Top.call = ThisCall
      /\ ThisCall = Len(history)
      /\ Fresh(stack, ThisCall, Top.obj)
      /\ d.kind = "dispatch" /\ d.call = ThisCall
      /\ r \in 1..m /\ Root(f) /\ f.call = ThisCall /\ f \in Frames
      /\ objects[Top.obj].native = (IF f.kind = "native" THEN f.obj ELSE 0)
  BY HandlerRuns
<1>2. \/ t = stack /\ Len(t) = m /\ up = Top
      \/ t = Front(stack) /\ Len(t) = m - 1 /\ up = NoFrame
  <2>1. Len(stack) > 1
    BY <1>1
  <2>2. Len(Front(stack)) = m - 1
    BY <2>1, PopFits DEF IInv
  <2>. QED
    BY <2>2
<1>3. \A i \in 1..(m - 1) : t[i] = stack[i]
  <2>1. Len(stack) > 1
    BY <1>1
  <2>2. \A i \in 1..(m - 1) : Front(stack)[i] = stack[i]
    BY <2>1, PopFits DEF IInv
  <2>. QED
    BY <1>2, <2>2
<1>4. \A y \in Nat : y >= 3 =>
        /\ y # 1 /\ y - 1 # 1 /\ (y - 2) + 1 = y - 1 /\ (y - 1) + 1 = y /\ y - 1 \in 1..(y - 1) /\ y - 2 \in 1..(y - 1)
        /\ (y - 2 = 1 \/ (y - 2) - 1 \in 1..(y - 1)) /\ \A i \in 1..((y - 2) - 1) : i \in 1..(y - 1)
        /\ y - 2 # y /\ y - 2 # y - 1 /\ y - 1 # y
        /\ \A l \in {y, y - 1} : /\ l >= y - 2 /\ y - 2 \in (y - 2)..l /\ y - 1 \in (y - 2)..l
                                 /\ \A i \in (y - 2)..l : i = y - 2 \/ i = y - 1 \/ (i = y /\ l = y)
  OBVIOUS
<1>5. /\ t[r] = f /\ t[m - 1] = d /\ (Len(t) = m => t[m] = Top)
      /\ Lower(t, r) = Lower(stack, r) /\ Upper(t, m - 1) = up /\ Upper(stack, m - 1) = Top
  <2>1. t[r] = f /\ t[m - 1] = d /\ (Len(t) = m => t[m] = Top)
    BY <1>1, <1>2, <1>3, <1>4
  <2>2. Lower(t, r) = Lower(stack, r)
    BY <1>1, <1>3, <1>4 DEF Lower
  <2>3. Upper(t, m - 1) = up /\ Upper(stack, m - 1) = Top
    BY <1>1, <1>2, <1>4, <2>1 DEF Upper
  <2>. QED
    BY <2>1, <2>2, <2>3
<1>6. /\ r \in r..Len(t) /\ m - 1 \in r..Len(t) /\ Len(t) >= r
      /\ \A i \in r..Len(t) : i = r \/ i = m - 1 \/ (i = m /\ Len(t) = m)
      /\ \A i \in r..m : i = r \/ i = m - 1 \/ i = m
      /\ \A i \in 1..(r - 1) : i \in 1..(m - 1)
  BY <1>1, <1>2, <1>4
<1>7. ASSUME NEW i \in r..Len(t)
      PROVE  t[i].call = ThisCall /\ GoesAhead(objects', t[i], Upper(t, i))
  <2>1. CASE i = r
    BY <1>1, <1>5, <2>1 DEF GoesAhead, Root
  <2>2. CASE i = m - 1
    BY <1>1, <1>5, <2>2
  <2>3. CASE i = m /\ Len(t) = m
    BY <1>1, <1>5, <2>3 DEF GoesAhead
  <2>. QED
    BY <1>6, <2>1, <2>2, <2>3
<1>8. Fewer(events, events', {}) /\ BindingsFit(leveraged, events, saved)
  BY DEF Fewer, HInv, Held
<1>9. LastLost(leveraged, events', objects', t, r, this)
  <2>1. SUFFICES ASSUME Clean(this.log), NEW k \in Elements, NEW h \in Bound(events'[k]),
                        h \in this.due, Unlogged(h.id, this.log)
                 PROVE  Coming(leveraged, events', objects', t, r, h)
    BY DEF LastLost
  <2>2. Clean(old.log) /\ Unlogged(h.id, old.log) /\ h \in old.due /\ h \in Bound(events[k])
    BY <1>1, <2>1 DEF Longer, Onward
  <2>3. LastLost(leveraged, events, objects, stack, r, old)
    BY <1>1, LastDue
  <2>4. PICK i \in r..m : StillCallsAt(leveraged, events, objects, stack, i, h)
    BY <2>2, <2>3 DEF LastLost, Coming
  <2>5. CASE i = r
    <3>1. StillCalls(leveraged, events, objects, Lower(stack, r), f, Upper(stack, r), h)
      BY <2>4, <2>5 DEF StillCallsAt
    <3>2. ~Live(objects, f, Upper(stack, r)) /\ h.id \notin {} /\ f \in Frames
      BY <1>1 DEF Live, Root
    <3>3. StillCalls(leveraged, events', objects', Lower(stack, r), f, Upper(t, r), h)
      <4>. HIDE DEF m, d, f, r, t, old, this
      <4>. QED
        BY <1>8, <2>1, <3>1, <3>2, StillThere
    <3>4. StillCallsAt(leveraged, events', objects', t, r, h)
      BY <1>5, <3>3 DEF StillCallsAt
    <3>. QED
      BY <1>6, <3>4 DEF Coming
  <2>6. CASE i = m - 1
    <3>1. ~OnWay(Lower(stack, m - 1), d)
      BY <1>1 DEF OnWay, Root
    <3>2. Live(objects, d, Top) /\ \E q \in 1..Len(d.queue) : d.queue[q].h = h
      BY <1>5, <2>4, <2>6, <3>1 DEF StillCallsAt, StillCalls
    <3>3. Live(objects', d, up)
      BY <2>1, <3>2
    <3>4. StillCallsAt(leveraged, events', objects', t, m - 1, h)
      BY <1>5, <3>2, <3>3 DEF StillCallsAt, StillCalls
    <3>. QED
      BY <1>6, <3>4 DEF Coming
  <2>7. CASE i = m
    <3>1. ~OnWay(Lower(stack, m), Top) /\ ~Live(objects, Top, Upper(stack, m))
      BY <1>1 DEF OnWay, Live
    <3>. QED
      BY <1>1, <2>4, <2>7, <3>1 DEF StillCallsAt, StillCalls
  <2>. QED
    BY <1>6, <2>5, <2>6, <2>7
<1>10. Leaves(objects, objects', Top.obj, f.obj)
  <2>1. objects[Top.obj].native \in {0, f.obj}
    BY <1>1
  <2>. QED
    BY <2>1, TouchesLeaves
<1>11. /\ r \in 1..Len(stack) /\ Root(stack[r]) /\ stack[r].call = ThisCall
       /\ Len(t) >= r /\ t[r].kind = stack[r].kind /\ \A i \in 1..(r - 1) : t[i] = stack[i]
       /\ Leaves(objects, objects', Top.obj, stack[r].obj)
  BY <1>1, <1>3, <1>5, <1>6, <1>10
<1>. HIDE DEF r, t, m
<1>. QED
  BY <1>1, <1>7, <1>8, <1>9, <1>11, DueGoesOn DEF t

\* What stops an event leaves none that is due.
LEMMA StoppedDue ==
  ASSUME IInv, IInv', HInv, NInv, Running("handler"), UNCHANGED <<leveraged, events>>,
         NEW how \in {"stop", "now"}, stops(how),
         IF how = "now" THEN Ending(objects, objects', Top.obj) ELSE Stopping(objects, objects', Top.obj),
         NEW up, (stack' = stack /\ up = Top) \/ (stack' = Front(stack) /\ up = NoFrame)
  PROVE  NInv'
<1>. DEFINE d == stack[Len(stack) - 1]
            log == history[ThisCall].log
            new == history'[ThisCall].log
<1>1. stack # <<>> /\ Top.kind = "handler"
  BY DEF Running
<1>2. /\ ThisCall \in 1..Len(history) /\ ThisCall = Len(history) /\ history[ThisCall] \in Calls
      /\ LogFits(log) /\ HandlerFits(d, log) /\ Top.obj \in 1..Len(objects)
  BY <1>1, HandlerRuns
<1>. HIDE DEF d
<1>3. log # <<>>
  BY <1>2 DEF HandlerFits
<1>4. Follow(history, history') /\ StoppedLast(log, new, how)
  BY <1>2, <1>3, StopsLast DEF IInv
<1>5. Onward(history, history')
  BY <1>4 DEF Follow, Onward
<1>. HIDE DEF log, new
<1>6. Len(log) \in 1..Len(log)
  <2>1. log \in Seq(Entries)
    BY <1>2 DEF Calls, log
  <2>2. Len(log) \in Nat /\ Len(log) # 0
    BY <1>3, <2>1, LenProperties, EmptySeq
  <2>. QED
    BY <2>2
<1>7. ~Clean(new) /\ \A x : Unlogged(x, new) => Unlogged(x, log)
  BY <1>4, <1>6 DEF StoppedLast, Clean, Unlogged
<1>8. Longer(log, new)
  BY <1>7 DEF Longer
<1>9. Touches(objects, objects', Top.obj)
  BY DEF Ending, Stopping
<1>10. StoppedAtOnce(objects')
  BY <1>2, ToldStops
<1>11. GoesAhead(objects', d, up)
  BY <1>1 DEF GoesAhead, NoFrame
<1>. QED
  BY <1>1, <1>5, <1>7, <1>8, <1>9, <1>10, <1>11, HandlerDue DEF d, log, new

\* stop.
LEMMA StopDue ==
  ASSUME IInv, IInv', HInv, NInv, NEW how \in {"stop", "now"}, stop(how)
  PROVE  NInv'
<1>1. /\ Running("handler") /\ stack # <<>> /\ Top.kind = "handler" /\ stops(how)
      /\ objects' = IF how = "now" THEN stopImmediatePropagation(objects, Top.obj)
                                   ELSE stopPropagation(objects, Top.obj)
      /\ UNCHANGED <<leveraged, events, stack>>
  BY DEF stop, Running, bindings
<1>2. Top.obj \in 1..Len(objects) /\ objects \in Seq(EventObjects) /\ objects[Top.obj].native < Top.obj
  BY <1>1, HandlerRuns
<1>3. IF how = "now" THEN Ending(objects, objects', Top.obj) ELSE Stopping(objects, objects', Top.obj)
  BY <1>1, <1>2, HappensTo
<1>. QED
  BY <1>1, <1>3, StoppedDue

\* return.
LEMMA ReturnDue ==
  ASSUME IInv, IInv', HInv, NInv, NEW result \in Results, return(result)
  PROVE  NInv'
<1>. DEFINE d == stack[Len(stack) - 1]
<1>1. /\ Running("handler") /\ stack # <<>> /\ Top.kind = "handler"
      /\ objects' = answered(objects, Top.obj, result) /\ stack' = Front(stack)
      /\ IF result = "false" THEN stops("stop") ELSE UNCHANGED history
      /\ UNCHANGED <<leveraged, events>>
  BY DEF return, Running, bindings
<1>2. /\ Top.obj \in 1..Len(objects) /\ objects \in Seq(EventObjects) /\ objects[Top.obj].native < Top.obj
      /\ d.kind = "dispatch" /\ d.obj = Top.obj
      /\ DispatchFits(leveraged, events, objects, d, Top, history[ThisCall].log)
  BY <1>1, HandlerRuns
<1>3. IF result = "false" THEN Stopping(objects, objects', Top.obj) ELSE Quiet(objects, objects')
  BY <1>1, <1>2, AnsweredTo
<1>. HIDE DEF d
<1>4. CASE result = "false"
  BY <1>1, <1>3, <1>4, StoppedDue
<1>5. CASE result # "false"
  <2>1. Quiet(objects, objects') /\ UNCHANGED history
    BY <1>1, <1>3, <1>5
  <2>2. Touches(objects, objects', Top.obj) /\ StoppedAtOnce(objects')
    BY <1>2, <2>1, Together, ToldStops
  <2>3. Onward(history, history') /\ Longer(history[ThisCall].log, history'[ThisCall].log)
    BY <2>1, OnwardSame
  <2>4. objects'[d.obj].immediate = objects[d.obj].immediate
    BY <1>2, <2>1 DEF Quiet, Same
  <2>5. ASSUME Clean(history'[ThisCall].log) PROVE Live(objects', d, NoFrame)
    BY <1>1, <1>2, <2>1, <2>4, <2>5 DEF DispatchFits, Live, NoFrame
  <2>6. GoesAhead(objects', d, NoFrame)
    BY DEF GoesAhead, NoFrame
  <2>. QED
    BY <1>1, <2>2, <2>3, <2>5, <2>6, HandlerDue DEF d
<1>. QED
  BY <1>4, <1>5

\* methodReturned.
LEMMA MethodReturnedDue == ASSUME IInv, IInv', HInv, NInv, methodReturned PROVE NInv'
<1>. DEFINE m == Len(stack)
            d == stack[m - 1]
            came == saved # Saved("args", Top.obj, "none")
<1>1. /\ stack # <<>> /\ Top.kind = "controller"
      /\ objects' = IF came \/ ~Top.sync
                    THEN answered(preventDefault(stopImmediatePropagation(objects, Top.obj), Top.obj),
                                  Top.obj, saved.result)
                    ELSE objects
      /\ stack' = Front(stack) /\ UNCHANGED <<leveraged, events, history>>
  BY DEF methodReturned, Phase, Running, bindings
<1>2. /\ Top.obj \in 1..Len(objects) /\ objects \in Seq(EventObjects) /\ objects[Top.obj].native < Top.obj
      /\ d.kind = "dispatch" /\ d.obj = Top.obj /\ m \in Nat /\ m >= 3 /\ m - 1 \in 1..m /\ Top = stack[m]
  BY <1>1, HandlerRuns
<1>3. Upper(stack, m - 1) = Top
  <2>1. (m - 1) + 1 = m /\ m - 1 # m
    BY <1>2
  <2>. QED
    BY <1>2, <2>1 DEF Upper
<1>4. GoesAhead(objects, d, Top)
  BY <1>2, <1>3 DEF NInv, Due
<1>5. Top.sync => ~came
  <2>1. m \in 1..m
    BY <1>2
  <2>2. Begins(leveraged, saved, objects, stack, Lower(stack, m), Top, history[Top.call].log)
    BY <1>1, <1>2 DEF HInv, Held, Beginning
  <2>. QED
    BY <1>1, <2>2 DEF Begins
<1>6. Onward(history, history') /\ Longer(history[ThisCall].log, history'[ThisCall].log)
  BY <1>1, OnwardSame
<1>7. saved.result \in Results
  BY DEF IInv, SavedFits
<1>. HIDE DEF m, d
<1>8. GoesAhead(objects', d, NoFrame)
  BY DEF GoesAhead, NoFrame
<1>9. CASE Top.sync
  <2>1. UNCHANGED objects
    BY <1>1, <1>5, <1>9
  <2>2. Quiet(objects, objects')
    BY <1>2, <2>1 DEF Quiet, Same, Alike
  <2>3. Touches(objects, objects', Top.obj) /\ StoppedAtOnce(objects')
    BY <1>2, <2>2, Together, ToldStops
  <2>4. Live(objects', d, NoFrame)
    BY <1>1, <1>2, <1>4, <1>9, <2>1 DEF GoesAhead, Live, NoFrame
  <2>. QED
    BY <1>1, <1>6, <1>8, <2>3, <2>4, HandlerDue DEF d, m
<1>10. CASE ~Top.sync
  <2>1. Ending(objects, objects', Top.obj)
    BY <1>1, <1>2, <1>7, <1>10, AnsweredTo
  <2>2. Touches(objects, objects', Top.obj) /\ StoppedAtOnce(objects')
    BY <1>2, <2>1, ToldStops DEF Ending
  <2>3. ~Live(objects, d, Top)
    BY <1>1, <1>10 DEF Live
  <2>. QED
    BY <1>1, <1>6, <1>8, <2>2, <2>3, HandlerDue DEF d, m
<1>. QED
  BY <1>9, <1>10

\* triggeredAgain.
LEMMA TriggeredAgainDue == ASSUME IInv, IInv', HInv, NInv, triggeredAgain PROVE NInv'
<1>. DEFINE m == Len(stack)
            d == stack[m - 1]
<1>1. /\ stack # <<>> /\ Top.kind = "controller" /\ Top.phase = "again"
      /\ objects' = stopImmediatePropagation(objects, Top.obj)
      /\ stack' = Front(stack) /\ UNCHANGED <<leveraged, events, history>>
  BY DEF triggeredAgain, Phase, Running, bindings
<1>2. /\ Top.obj \in 1..Len(objects) /\ objects \in Seq(EventObjects) /\ objects[Top.obj].native < Top.obj
      /\ m \in Nat /\ m >= 3 /\ Top = stack[m]
  BY <1>1, HandlerRuns
<1>3. ~Top.sync
  <2>1. Begins(leveraged, saved, objects, stack, Lower(stack, m), Top, history[Top.call].log)
    BY <1>1, <1>2 DEF HInv, Held, Beginning
  <2>. QED
    BY <1>1, <2>1 DEF Begins
<1>4. Onward(history, history') /\ Longer(history[ThisCall].log, history'[ThisCall].log)
  BY <1>1, OnwardSame
<1>. HIDE DEF m, d
<1>5. Ending(objects, objects', Top.obj)
  BY <1>1, <1>2, HappensTo
<1>6. Touches(objects, objects', Top.obj) /\ StoppedAtOnce(objects')
  BY <1>2, <1>5, ToldStops DEF Ending
<1>7. ~Live(objects, d, Top) /\ GoesAhead(objects', d, NoFrame)
  BY <1>1, <1>3 DEF Live, GoesAhead, NoFrame
<1>. QED
  BY <1>1, <1>4, <1>6, <1>7, HandlerDue DEF d, m

-----------------------------------------------------------------------------
(* What is still to be called when a frame returns to the one below. *)

\* Nothing that is due is lost with a frame that calls nothing more, unless its event was
\* stopped.
LEMMA PoppedDue ==
  ASSUME IInv, IInv', HInv, NInv, Len(stack) > 1, popped, UNCHANGED <<leveraged, events>>,
         stack[Len(stack) - 1].kind # "dispatch",
         \A c \in 1..Len(history') : c \in 1..Len(history) /\ history'[c] = history[c],
         \A h : StillCallsAt(leveraged, events, objects, stack, Len(stack), h)
                  => ~Clean(history[Top.call].log)
  PROVE  NInv'
<1>. DEFINE m == Len(stack) - 1
            t == Front(stack)
            n == stack[m].call
<1>1. /\ StackFits(leveraged, stack, objects, Len(history)) /\ ObjectsFit(objects)
      /\ SavedFits(saved, objects)
      /\ Len(stack) \in Nat /\ Len(stack) = m + 1 /\ m \in Nat /\ m >= 1
      /\ Top = stack[Len(stack)]
  <2>1. stack # <<>>
    BY EmptySeq
  <2>. QED
    BY <2>1, OnTop DEF IInv
<1>2. /\ StackFits(leveraged, t, objects, n) /\ t # <<>> /\ Len(t) = m
      /\ \A i \in 1..m : t[i] = stack[i]
  BY <1>1, PopFits
<1>3. stack' = t /\ objects' = Kept(objects, t)
  BY DEF popped
<1>. HIDE DEF t
<1>4. /\ StackFits(leveraged, t, objects', n) /\ \A i \in 1..Len(objects') : objects'[i] = objects[i]
      /\ Len(objects') <= Len(objects)
  <2>1. LET new == Kept(objects, t) IN
        /\ StackFits(leveraged, t, new, n) /\ \A i \in 1..Len(new) : new[i] = objects[i]
        /\ Len(new) <= Len(objects)
    BY <1>1, <1>2, KeptFits
  <2>. QED
    BY <1>3, <2>1
<1>5. ASSUME NEW i \in 1..m PROVE objects'[stack[i].obj] = objects[stack[i].obj]
  <2>1. Fits(leveraged, t[i], objects')
    BY <1>2, <1>4 DEF StackFits
  <2>2. stack[i].obj \in 1..Len(objects')
    BY <1>2, <2>1 DEF Fits
  <2>. QED
    BY <1>4, <2>2
<1>6. ASSUME NEW i \in 1..m
      PROVE  /\ i \in 1..Len(stack) /\ t[i] = stack[i] /\ Lower(t, i) = Lower(stack, i)
             /\ Upper(t, i) = Upper(stack, i) \/ stack[i].kind # "dispatch"
  <2>1. i \in 1..(m + 1) /\ (i = 1 \/ i - 1 \in 1..m)
    BY <1>1
  <2>2. Lower(t, i) = Lower(stack, i)
    BY <1>2, <2>1 DEF Lower
  <2>3. Upper(t, i) = Upper(stack, i) \/ stack[i].kind # "dispatch"
    <3>1. CASE i = m
      BY <3>1
    <3>2. CASE i # m
      <4>0. \A x \in Nat : \A j \in 1..x : j # x => j + 1 \in 1..x /\ j # x + 1
        OBVIOUS
      <4>1. i + 1 \in 1..m /\ i # Len(stack)
        BY <1>1, <3>2, <4>0
      <4>2. i # Len(t)
        BY <1>2, <3>2
      <4>. QED
        BY <1>2, <4>1, <4>2 DEF Upper
    <3>. QED
      BY <3>1, <3>2
  <2>. QED
    BY <1>1, <1>2, <2>1, <2>2, <2>3
<1>7. StoppedAtOnce(objects')
  <2>1. SUFFICES ASSUME NEW o \in 1..Len(objects'), objects'[o].immediate PROVE objects'[o].stopped
    BY DEF StoppedAtOnce
  <2>2. o \in 1..Len(objects) /\ objects'[o] = objects[o]
    <3>1. Len(objects) \in Nat /\ Len(objects') \in Nat
      BY LenProperties DEF IInv, ObjectsFit
    <3>. QED
      BY <1>4, <3>1
  <2>. QED
    BY <2>1, <2>2 DEF NInv, Due, StoppedAtOnce
<1>8. ASSUME NEW i \in 1..m PROVE GoesAhead(objects', t[i], Upper(t, i))
  <2>1. GoesAhead(objects, stack[i], Upper(stack, i))
    BY <1>6 DEF NInv, Due
  <2>. QED
    BY <1>5, <1>6, <2>1 DEF GoesAhead
<1>9. ASSUME NEW c \in 1..Len(history')
      PROVE  Owns(events, history'[c]) /\ NoneLost(leveraged, events, objects', t, c, history'[c])
  <2>1. c \in 1..Len(history) /\ history'[c] = history[c]
    OBVIOUS
  <2>2. Owns(events, history[c]) /\ NoneLost(leveraged, events, objects, stack, c, history[c])
    BY <2>1 DEF NInv, Due
  <2>3. SUFFICES ASSUME Clean(history[c].log), NEW k \in Elements, NEW h \in Bound(events[k]),
                        h \in history[c].due, Unlogged(h.id, history[c].log)
                 PROVE  \E i \in 1..Len(t) : t[i].call = c /\ StillCallsAt(leveraged, events, objects', t, i, h)
    BY <2>1, <2>2 DEF NoneLost
  <2>4. PICK i \in 1..Len(stack) : stack[i].call = c /\ StillCallsAt(leveraged, events, objects, stack, i, h)
    BY <2>2, <2>3 DEF NoneLost
  <2>5. i # Len(stack)
    BY <1>1, <2>3, <2>4
  <2>6. i \in 1..m
    <3>1. \A x \in Nat : \A j \in 1..x : j # x => j \in 1..(x - 1)
      OBVIOUS
    <3>. QED
      BY <1>1, <2>5, <3>1
  <2>7. StillCallsAt(leveraged, events, objects', t, i, h)
    <3>1. Live(objects, stack[i], Upper(stack, i)) => Live(objects', stack[i], Upper(t, i))
      BY <1>5, <1>6, <2>6 DEF Live
    <3>. QED
      BY <1>6, <2>4, <2>6, <3>1 DEF StillCallsAt, StillCalls
  <2>. QED
    BY <1>2, <1>6, <2>4, <2>6, <2>7
<1>10. Due(leveraged, events, objects', t, history')
  BY <1>2, <1>7, <1>8, <1>9 DEF Due
<1>. QED
  BY <1>3, <1>10 DEF NInv

\* dispatched.
LEMMA DispatchedDue == ASSUME IInv, IInv', HInv, NInv, dispatched PROVE NInv'
<1>. DEFINE m == Len(stack)
            f == stack[m - 1]
            log == history[ThisCall].log
<1>1. /\ stack # <<>> /\ Top.kind = "dispatch" /\ ~Root(Top) /\ ~goesOn /\ popped
      /\ UNCHANGED <<leveraged, events, history>>
  BY DEF dispatched, Running, Root, bindings
<1>2. /\ m \in Nat /\ m > 1 /\ Top = stack[m] /\ Top \in Frames /\ m \in 1..m /\ Top.call = ThisCall
      /\ FrameFits(leveraged, events, objects, Lower(stack, m), Top, NoFrame, history[ThisCall])
  <2>1. /\ m \in Nat /\ m > 1 /\ Top = stack[m] /\ Top \in Frames /\ Top.call = ThisCall
    BY <1>1, OnTop
  <2>2. FrameFits(leveraged, events, objects, Lower(stack, m), Top, NoFrame, history[ThisCall])
    BY <1>1, TopHeld
  <2>. QED
    BY <2>1, <2>2
<1>3. Root(f)
  BY <1>1, <1>2, UnderDispatch
<1>4. DispatchFits(leveraged, events, objects, Top, NoFrame, log)
  BY <1>1, <1>2 DEF FrameFits
<1>5. Top.queue \in Seq(Queued)
  BY <1>1, <1>2 DEF Frames
<1>6. ASSUME NEW h, StillCallsAt(leveraged, events, objects, stack, m, h) PROVE ~Clean(log)
  <2>1. Upper(stack, m) = NoFrame
    BY DEF Upper
  <2>2. Live(objects, Top, NoFrame) /\ \E q \in 1..Len(Top.queue) : Top.queue[q].h = h
    BY <1>1, <1>2, <1>6, <2>1 DEF StillCallsAt, StillCalls, OnWay
  <2>3. ~objects[Top.obj].immediate
    BY <2>2 DEF Live, NoFrame
  <2>4. Top.queue # <<>> /\ 1 \in 1..Len(Top.queue) /\ Next1 = Top.queue[1]
    <3>1. Len(Top.queue) \in Nat
      BY <1>5, LenProperties
    <3>2. Len(Top.queue) >= 1
      BY <2>2, <3>1
    <3>3. Len(<<>>) = 0
      OBVIOUS
    <3>. QED
      BY <1>5, <3>1, <3>2, <3>3 DEF Next1
  <2>5. objects[Top.obj].stopped /\ Next1.elem # Top.elem
    BY <1>1, <2>3, <2>4 DEF goesOn
  <2>. QED
    BY <1>4, <2>2, <2>4, <2>5 DEF DispatchFits
<1>7. f.kind # "dispatch"
  BY <1>3 DEF Root
<1>. HIDE DEF log, f
<1>8. Len(stack) > 1 /\ stack[Len(stack) - 1].kind # "dispatch"
  BY <1>2, <1>7 DEF f
<1>9. \A c \in 1..Len(history') : c \in 1..Len(history) /\ history'[c] = history[c]
  BY <1>1
<1>10. \A h : StillCallsAt(leveraged, events, objects, stack, Len(stack), h)
                => ~Clean(history[Top.call].log)
  BY <1>2, <1>6 DEF log
<1>. QED
  BY <1>1, <1>8, <1>9, <1>10, PoppedDue

\* over.
LEMMA OverDue == ASSUME IInv, IInv', HInv, NInv, over PROVE NInv'
<1>. DEFINE m == Len(stack)
            f == stack[m - 1]
<1>1. /\ stack # <<>> /\ Root(Top) /\ Top.phase = "over"
      /\ UNCHANGED <<leveraged, events>>
  BY DEF over, Phase, Running, Root, bindings
<1>2. /\ m \in Nat /\ m >= 1 /\ Top = stack[m] /\ m \in 1..m
      /\ m > 1 => Under(leveraged, objects, f, Top)
  <2>1. /\ m \in Nat /\ m >= 1 /\ Top = stack[m] /\ (m > 1 => Under(leveraged, objects, f, Top))
    BY <1>1, TopHeld
  <2>. QED
    BY <1>1, <2>1
<1>3. CASE m > 1 /\ popped /\ history' = SubSeq(history, 1, f.call)
  <2>1. f.kind # "dispatch"
    BY <1>1, <1>2, <1>3 DEF Under, Root
  <2>2. m - 1 \in 1..m
    BY <1>2, <1>3
  <2>3. /\ f.call \in 1..Len(history) /\ history \in Seq(Calls) /\ Len(history) \in Nat
    BY <2>2, CallsNoted, LenProperties DEF IInv
  <2>. DEFINE c == f.call
  <2>4. c \in 1..Len(history) /\ history' = SubSeq(history, 1, c)
    BY <1>3, <2>3
  <2>. HIDE DEF c
  <2>5. Len(history') = c /\ \A i \in 1..c : i \in 1..Len(history) /\ history'[i] = history[i]
    <3>1. c \in Nat /\ c >= 1 /\ \A i \in 1..c : i \in 1..Len(history)
      BY <2>3, <2>4
    <3>2. \A i \in 1..c : history[i] \in Calls
      BY <2>3, <3>1, ElementOfSeq
    <3>3. 1 \in Int /\ c \in Int
      BY <3>1
    <3>4. /\ Len(history') = IF 1 <= c THEN c - 1 + 1 ELSE 0
          /\ \A i \in 1..(c - 1 + 1) : history'[i] = history[1 + i - 1]
      BY <2>4, <3>2, <3>3, SubSeqProperties
    <3>5. c - 1 + 1 = c /\ 1 <= c /\ \A i \in 1..c : 1 + i - 1 = i
      BY <3>1
    <3>. QED
      BY <3>1, <3>4, <3>5
  <2>6. \A h : ~StillCallsAt(leveraged, events, objects, stack, m, h)
    BY <1>1, <1>2 DEF StillCallsAt, StillCalls, Live, OnWay, Root
  <2>. QED
    BY <1>1, <1>3, <2>1, <2>5, <2>6, PoppedDue
<1>4. CASE /\ m = 1 /\ stack' = <<>> /\ history' = <<>>
           /\ objects' = IF saved.is = "args" THEN <<objects[saved.obj]>> ELSE <<>>
  <2>1. Len(<<>>) = 0 /\ 1..0 = {}
    OBVIOUS
  <2>2. StoppedAtOnce(objects')
    <3>1. CASE saved.is = "args"
      <4>1. saved.obj \in 1..Len(objects)
        BY <3>1 DEF IInv, SavedFits
      <4>2. objects[saved.obj].immediate => objects[saved.obj].stopped
        BY <4>1 DEF NInv, Due, StoppedAtOnce
      <4>3. Len(objects') = 1 /\ objects'[1] = objects[saved.obj] /\ \A o \in 1..1 : o = 1
        BY <1>4, <3>1
      <4>. QED
        BY <4>2, <4>3 DEF StoppedAtOnce
    <3>2. CASE saved.is # "args"
      BY <1>4, <2>1, <3>2 DEF StoppedAtOnce
    <3>. QED
      BY <3>1, <3>2
  <2>3. Due(leveraged, events, objects', <<>>, <<>>)
    BY <2>1, <2>2 DEF Due
  <2>. QED
    BY <1>1, <1>4, <2>3 DEF NInv
<1>. QED
  BY <1>3, <1>4 DEF over

-----------------------------------------------------------------------------
(* What is still to be called when a script binds, unbinds and triggers. *)

\* What is bound anew is due for no event under way.
LEMMA BindingDue ==
  ASSUME IInv, HInv, NInv, NEW ids, UNCHANGED <<leveraged, objects, stack, history>>,
         Fewer(events, events', ids),
         \A c \in 1..Len(history) : \A d \in history[c].due : d.id \notin ids
  PROVE  NInv'
<1>1. ASSUME NEW c \in 1..Len(history), NEW k \in Elements, NEW h \in Bound(events'[k]),
             h.id \notin ids
      PROVE  h \in Bound(events[k])
  BY <1>1 DEF Fewer
<1>2. ASSUME NEW c \in 1..Len(history) PROVE Owns(events', history[c])
  <2>1. SUFFICES ASSUME NEW d \in history[c].due, NEW k \in Elements, NEW h \in Bound(events'[k]),
                        h.id = d.id
                 PROVE  h = d
    BY DEF Owns
  <2>2. h \in Bound(events[k])
    BY <1>1, <2>1
  <2>. QED
    BY <2>1, <2>2 DEF NInv, Due, Owns
<1>3. ASSUME NEW c \in 1..Len(history)
      PROVE  NoneLost(leveraged, events', objects, stack, c, history[c])
  <2>1. SUFFICES ASSUME Clean(history[c].log), NEW k \in Elements, NEW h \in Bound(events'[k]),
                        h \in history[c].due, Unlogged(h.id, history[c].log)
                 PROVE  \E i \in 1..Len(stack) :
                          stack[i].call = c /\ StillCallsAt(leveraged, events', objects, stack, i, h)
    BY DEF NoneLost
  <2>2. h.id \notin ids /\ h \in Bound(events[k])
    BY <1>1, <2>1
  <2>3. PICK i \in 1..Len(stack) :
               stack[i].call = c /\ StillCallsAt(leveraged, events, objects, stack, i, h)
    BY <2>1, <2>2 DEF NInv, Due, NoneLost
  <2>4. stack[i] \in Frames /\ BindingsFit(leveraged, events, saved)
    BY CallsNoted DEF HInv, Held
  <2>5. StillCalls(leveraged, events, objects, Lower(stack, i), stack[i], Upper(stack, i), h)
    BY <2>3 DEF StillCallsAt
  <2>6. StillCalls(leveraged, events', objects, Lower(stack, i), stack[i], Upper(stack, i), h)
    BY <2>2, <2>4, <2>5, StillThere
  <2>. QED
    BY <2>3, <2>6 DEF StillCallsAt
<1>4. Due(leveraged, events', objects, stack, history)
  BY <1>2, <1>3 DEF NInv, Due
<1>. QED
  BY <1>4 DEF NInv

\* on: what is bound has an id that is not in use.
LEMMA OnDue ==
  ASSUME IInv, HInv, NInv, NEW n \in Elements, NEW i \in Ids, NEW f \in Fns, NEW s \in 0..Depth,
         NEW o \in BOOLEAN, on(n, [id |-> i, fn |-> f, sel |-> s, once |-> o])
  PROVE  NInv'
<1>. DEFINE h == [id |-> i, fn |-> f, sel |-> s, once |-> o]
<1>1. /\ n \in Bindable /\ h.sel < n /\ add(n, h) /\ h.id \notin BoundIds
      /\ UNCHANGED <<leveraged, objects, stack, history>>
      /\ \A c \in DOMAIN history : \A d \in history[c].due : d.id # h.id
  BY DEF on, calls
<1>2. h \in Handlers /\ h \in Listed /\ h.id \in Ids /\ h.id # "stub"
  BY EventsAssumption DEF Handlers, Listed
<1>. HIDE DEF h
<1>3. h # Stub /\ (leveraged => h.sel = 0 /\ n = 1)
  <2>1. leveraged => n = 1
    BY <1>1 DEF Bindable
  <2>2. h.sel \in Nat
    BY <1>2, EventsAssumption DEF Handlers
  <2>. QED
    BY <1>1, <1>2, <2>1, <2>2 DEF Stub
<1>4. \A m \in Elements : \A g \in Bound(events[m]) : g.id # h.id
  BY <1>1 DEF BoundIds, BoundAt, Bound
<1>5. \A j \in 1..Len(events[n].list) : events[n].list[j].id # h.id
  <2>1. events[n] \in Lists
    BY DEF IInv, ListsFit
  <2>2. SUFFICES ASSUME NEW j \in 1..Len(events[n].list), events[n].list[j].id = h.id PROVE FALSE
    OBVIOUS
  <2>3. events[n].list[j] \in Bound(events[n])
    BY <1>2, <2>1, <2>2, BoundIndex
  <2>. QED
    BY <1>4, <2>2, <2>3
<1>6. Fewer(events, events', {h.id} \intersect Ids)
  BY <1>1, <1>2, <1>3, <1>4, <1>5, AddFits DEF IInv, HInv, Held
<1>7. \A c \in 1..Len(history) : \A d \in history[c].due : d.id \notin {h.id} \intersect Ids
  <2>1. DOMAIN history = 1..Len(history)
    BY LenProperties DEF IInv
  <2>. QED
    BY <1>1, <2>1
<1>. QED
  BY <1>1, <1>6, <1>7, BindingDue

\* off.
LEMMA OffDue ==
  ASSUME IInv, HInv, NInv, NEW n \in Elements, offAll(n) \/ \E f \in Fns : off(n, f)
  PROVE  NInv'
<1>1. PICK gone : remove(n, gone) /\ UNCHANGED <<leveraged, objects, stack, history>>
  BY DEF off, offAll, calls
<1>2. Fewer(events, events', {})
  BY <1>1, RemoveFits DEF IInv, HInv, Held
<1>3. \A c \in 1..Len(history) : \A d \in history[c].due : d.id \notin {}
  OBVIOUS
<1>. QED
  BY <1>1, <1>2, <1>3, BindingDue

\* Blur.
LEMMA BlurDue == ASSUME NInv, Blur PROVE NInv'
  BY DEF NInv, Blur, bindings

\* An event begins, alone or in a handler: what is bound on its way is due for it.
BeginsEvent(f, o, this) ==
  /\ stack # <<>> => Top.kind = "handler"
  /\ f \in Frames /\ Root(f) /\ f.phase = "path" /\ f.at = f.node /\ f.call = Len(history) + 1
  /\ o \in EventObjects /\ ~o.immediate
  /\ this \in Calls /\ this = [due |-> due(f.node, LastOf(leveraged, f)), log |-> <<>>]
  /\ objects' = Append(objects, o) /\ stack' = Append(stack, f) /\ history' = Append(history, this)

\* What is due for an event that begins is still to come.
LEMMA EventDue ==
  ASSUME IInv, HInv, NInv, UNCHANGED leveraged, Fewer(events, events', {}),
         NEW f, NEW o, NEW this, BeginsEvent(f, o, this)
  PROVE  NInv'
<1>. DEFINE m == Len(stack)
            n == Len(history)
            t == stack'
            new == objects'
            later == history'
<1>1. /\ m \in Nat /\ n \in Nat /\ Len(objects) \in Nat /\ (m = 0 <=> stack = <<>>)
      /\ stack \in Seq(Frames) /\ objects \in Seq(EventObjects) /\ history \in Seq(Calls)
      /\ BindingsFit(leveraged, events, saved)
  BY LenProperties, EmptySeq DEF IInv, StackFits, ObjectsFit, HInv, Held
<1>0. /\ stack # <<>> => Top.kind = "handler"
      /\ f \in Frames /\ Root(f) /\ f.phase = "path" /\ f.at = f.node /\ f.call = n + 1
      /\ o \in EventObjects /\ ~o.immediate
      /\ this \in Calls /\ this.due = due(f.node, LastOf(leveraged, f)) /\ this.log = <<>>
      /\ t = Append(stack, f) /\ new = Append(objects, o) /\ later = Append(history, this)
  BY DEF BeginsEvent
<1>2. /\ Len(t) = m + 1 /\ t[m + 1] = f /\ \A i \in 1..m : t[i] = stack[i]
  BY <1>0, <1>1, AppendProperties
<1>3. Len(new) = Len(objects) + 1 /\ new[Len(objects) + 1] = o /\ \A i \in 1..Len(objects) : new[i] = objects[i]
  BY <1>0, <1>1, AppendProperties
<1>4. Len(later) = n + 1 /\ later[n + 1] = this /\ \A c \in 1..n : later[c] = history[c]
  BY <1>0, <1>1, AppendProperties
<1>5. /\ \A i \in 1..(m + 1) : i = m + 1 \/ i \in 1..m
      /\ \A c \in 1..(n + 1) : c = n + 1 \/ c \in 1..n
      /\ \A i \in 1..(Len(objects) + 1) : i = Len(objects) + 1 \/ i \in 1..Len(objects)
      /\ m + 1 \in 1..(m + 1)
  BY <1>1
<1>. HIDE DEF t, new, later, n
<1>6. StoppedAtOnce(new)
  BY <1>0, <1>3, <1>5 DEF NInv, Due, StoppedAtOnce
<1>7. stack # <<>> => stack[m].kind = "handler"
  BY <1>0, OnTop
<1>8. ASSUME NEW i \in 1..m
      PROVE  /\ t[i] = stack[i] /\ Lower(t, i) = Lower(stack, i)
             /\ Upper(t, i) = Upper(stack, i) \/ stack[i].kind = "handler"
             /\ new[stack[i].obj] = objects[stack[i].obj]
             /\ stack[i] \in Frames /\ stack[i].call \in 1..n /\ i \in 1..(m + 1)
  <2>1. i = 1 \/ i - 1 \in 1..m
    BY <1>1
  <2>2. Lower(t, i) = Lower(stack, i)
    BY <1>2, <2>1 DEF Lower
  <2>3. Upper(t, i) = Upper(stack, i) \/ stack[i].kind = "handler"
    <3>1. CASE i = m
      BY <1>1, <1>7, <3>1
    <3>2. CASE i # m
      <4>1. i + 1 \in 1..m /\ i # Len(t)
        BY <1>1, <1>2, <3>2
      <4>. QED
        BY <1>2, <3>2, <4>1 DEF Upper
    <3>. QED
      BY <3>1, <3>2
  <2>4. stack[i].obj \in 1..Len(objects)
    BY CallsNoted DEF Fits
  <2>. QED
    BY <1>1, <1>2, <1>3, <2>2, <2>3, <2>4, CallsNoted DEF n
<1>9. ASSUME NEW i \in 1..(m + 1) PROVE GoesAhead(new, t[i], Upper(t, i))
  <2>1. CASE i = m + 1
    BY <1>0, <1>2, <2>1 DEF GoesAhead, Root
  <2>2. CASE i \in 1..m
    <3>1. GoesAhead(objects, stack[i], Upper(stack, i))
      BY <2>2 DEF NInv, Due
    <3>. QED
      BY <1>8, <2>2, <3>1 DEF GoesAhead
  <2>. QED
    BY <1>5, <2>1, <2>2
<1>10. ASSUME NEW c \in 1..n
       PROVE  Owns(events', later[c]) /\ NoneLost(leveraged, events', new, t, c, later[c])
  <2>1. later[c] = history[c] /\ Owns(events, history[c])
        /\ NoneLost(leveraged, events, objects, stack, c, history[c])
    BY <1>4 DEF NInv, Due, n
  <2>2. \A k \in Elements : \A h \in Bound(events'[k]) : h \in Bound(events[k])
    BY DEF Fewer
  <2>3. Owns(events', history[c])
    BY <2>1, <2>2 DEF Owns
  <2>4. SUFFICES ASSUME Clean(history[c].log), NEW k \in Elements, NEW h \in Bound(events'[k]),
                        h \in history[c].due, Unlogged(h.id, history[c].log)
                 PROVE  \E i \in 1..(m + 1) : t[i].call = c /\ StillCallsAt(leveraged, events', new, t, i, h)
    BY <1>2, <2>1, <2>3 DEF NoneLost
  <2>5. PICK i \in 1..m : stack[i].call = c /\ StillCallsAt(leveraged, events, objects, stack, i, h)
    BY <2>1, <2>2, <2>4 DEF NoneLost
  <2>6. StillCalls(leveraged, events, objects, Lower(stack, i), stack[i], Upper(stack, i), h)
    BY <2>5 DEF StillCallsAt
  <2>7. Live(objects, stack[i], Upper(stack, i)) => Live(new, stack[i], Upper(t, i))
    BY <1>8 DEF Live
  <2>8. stack[i] \in Frames /\ h.id \notin {} /\ h \in Bound(events'[k])
    BY <1>8, <2>4
  <2>9. StillCalls(leveraged, events', new, Lower(stack, i), stack[i], Upper(t, i), h)
    BY <1>1, <2>6, <2>7, <2>8, StillThere
  <2>. QED
    BY <1>8, <2>5, <2>9 DEF StillCallsAt
<1>11. \A d \in this.due : \E j \in f.node..LastOf(leveraged, f) : j \in Elements /\ d \in Bound(events[j])
  <2>1. this.due = due(f.node, LastOf(leveraged, f))
    BY <1>0
  <2>2. LastOf(leveraged, f) \in 1..Depth /\ f.node \in 1..Depth /\ Depth \in Nat
    BY <1>0, LastElement, FrameFields, EventsAssumption DEF Elements
  <2>3. \A j \in f.node..LastOf(leveraged, f) : j \in Elements
    BY <2>2 DEF Elements
  <2>. QED
    BY <2>1, <2>3 DEF due, BoundAt, Bound
<1>12. ASSUME NEW d \in this.due, NEW k \in Elements, NEW h \in Bound(events'[k]), h.id = d.id
       PROVE  h = d /\ k \in f.node..LastOf(leveraged, f)
  <2>1. PICK j \in f.node..LastOf(leveraged, f) : j \in Elements /\ d \in Bound(events[j])
    BY <1>11
  <2>2. h \in Bound(events[k])
    BY DEF Fewer
  <2>3. k = j
    BY <1>1, <1>12, <2>1, <2>2 DEF BindingsFit
  <2>4. events[k] \in Lists /\ Distinct(events[k].list)
    BY <1>1 DEF IInv, ListsFit, BindingsFit
  <2>5. PICK x \in 1..Len(events[k].list) : h = events[k].list[x]
    BY <2>2, <2>4, BoundIndex
  <2>6. PICK y \in 1..Len(events[k].list) : d = events[k].list[y]
    BY <2>1, <2>3, <2>4, BoundIndex
  <2>7. x = y
    BY <1>12, <2>4, <2>5, <2>6 DEF Distinct
  <2>. QED
    BY <2>1, <2>3, <2>5, <2>6, <2>7
<1>13. Owns(events', this)
  BY <1>12 DEF Owns
<1>14. NoneLost(leveraged, events', new, t, n + 1, this)
  <2>1. SUFFICES ASSUME NEW k \in Elements, NEW h \in Bound(events'[k]), h \in this.due
                 PROVE  \E i \in 1..(m + 1) :
                          t[i].call = n + 1 /\ StillCallsAt(leveraged, events', new, t, i, h)
    BY <1>2 DEF NoneLost
  <2>2. k \in f.at..LastOf(leveraged, f)
    BY <1>0, <1>12, <2>1
  <2>3. Lower(t, m + 1).kind # "trigger"
    <3>1. CASE m = 0
      BY <3>1 DEF Lower, NoFrame
    <3>2. CASE m # 0
      <4>1. m \in 1..m /\ (m + 1) - 1 = m /\ m + 1 # 1 /\ stack # <<>>
        BY <1>1, <3>2
      <4>. QED
        BY <1>2, <1>7, <4>1 DEF Lower
    <3>. QED
      BY <3>1, <3>2
  <2>4. OnWay(Lower(t, m + 1), f)
    BY <1>0, <2>3 DEF OnWay
  <2>5. StillCallsAt(leveraged, events', new, t, m + 1, h)
    BY <1>2, <2>2, <2>4 DEF StillCallsAt, StillCalls
  <2>. QED
    BY <1>0, <1>2, <1>5, <2>5
<1>15. Due(leveraged, events', new, t, later)
  BY <1>2, <1>4, <1>5, <1>6, <1>9, <1>10, <1>13, <1>14 DEF Due
<1>. QED
  BY <1>15 DEF NInv, new, t, later

\* trigger.
LEMMA TriggerDue ==
  ASSUME IInv, HInv, NInv, NEW n \in Elements, NEW only \in BOOLEAN, trigger(n, only)
  PROVE  NInv'
<1>. DEFINE end == IF leveraged \/ only THEN n ELSE Depth
            k == Len(objects) + 1
            f == Trigger(k, n, only, NextCall)
            o == EventObject(~only, 0)
            this == [due |-> due(n, end), log |-> <<>>]
<1>1. /\ Script /\ n \in Bindable
      /\ objects' = Append(objects, o) /\ stack' = Append(stack, f)
      /\ history' = Append(history, this)
      /\ UNCHANGED leveraged
      /\ IF leveraged /\ saved.is = "unset" THEN add(n, ReturnTrue) ELSE UNCHANGED <<events, listening, saved>>
  BY DEF trigger, bindings, begun
<1>2. end \in 0..Depth /\ n \in Nat
  BY EventsAssumption DEF Elements
<1>3. this \in Calls
  <2>1. due(n, end) \in SUBSET Handlers
    BY <1>2, DueBound
  <2>. QED
    BY <2>1, EmptySeq DEF Calls
<1>4. Fewer(events, events', {})
  <2>1. CASE leveraged /\ saved.is = "unset"
    <3>1. ReturnTrue \in Listed /\ ReturnTrue # Stub /\ ReturnTrue.sel = 0 /\ ReturnTrue.id = "true"
      BY DEF Listed, ReturnTrue, Stub
    <3>2. n = 1 /\ 0 < n
      BY <1>1, <2>1 DEF Bindable
    <3>3. events[n].list = <<>>
      BY <2>1, <3>2 DEF HInv, Held, BindingsFit
    <3>4. \A i \in 1..Len(events[n].list) : events[n].list[i].id # ReturnTrue.id
      BY <3>3
    <3>5. "true" \notin Ids
      BY EventsAssumption
    <3>6. \A m \in Elements : \A g \in Bound(events[m]) : g.id # ReturnTrue.id
      BY <3>1, <3>5 DEF Bound
    <3>7. add(n, ReturnTrue)
      BY <1>1, <2>1
    <3>8. {ReturnTrue.id} \intersect Ids = {}
      BY <3>1, <3>5
    <3>. QED
      BY <2>1, <3>1, <3>2, <3>4, <3>6, <3>7, <3>8, AddFits DEF IInv, HInv, Held
  <2>2. CASE ~(leveraged /\ saved.is = "unset")
    BY <1>1, <2>2 DEF Fewer
  <2>. QED
    BY <2>1, <2>2
<1>5. o \in EventObjects /\ ~o.immediate
  BY ObjectBegins DEF EventObject
<1>6. Len(history) \in Nat /\ NextCall = Len(history) + 1 /\ k \in Nat
  BY LenProperties DEF IInv, NextCall, ObjectsFit
<1>7. /\ f \in Frames /\ f.kind = "trigger" /\ f.node = n /\ f.at = n /\ f.phase = "path"
      /\ f.call = NextCall /\ f.only = only
  BY <1>6, FramesBegin DEF Trigger
<1>8. Root(f) /\ LastOf(leveraged, f) = end
  BY <1>7 DEF Root, LastOf
<1>9. stack # <<>> => Top.kind = "handler"
  BY <1>1 DEF Script, Running
<1>. HIDE DEF f, o, end
<1>10. BeginsEvent(f, o, this)
  BY <1>1, <1>3, <1>5, <1>6, <1>7, <1>8, <1>9 DEF BeginsEvent
<1>. HIDE DEF this
<1>. QED
  BY <1>1, <1>4, <1>10, EventDue

\* An event of the browser's own.
LEMMA ArriveDue ==
  ASSUME IInv, HInv, NInv, NEW n \in Elements, Arrive(n)
  PROVE  NInv'
<1>. DEFINE end == IF leveraged THEN n ELSE Depth
            k == Len(objects) + 1
            f == Native(k, n, NextCall)
            o == EventObject(FALSE, 0)
            this == [due |-> due(n, end), log |-> <<>>]
<1>1. /\ stack = <<>> /\ objects' = Append(objects, o) /\ stack' = <<f>>
      /\ history' = Append(history, this)
      /\ UNCHANGED <<leveraged, events>>
  BY DEF Arrive, bindings, begun
<1>2. end \in 0..Depth /\ n \in Nat
  BY EventsAssumption DEF Elements
<1>3. this \in Calls
  <2>1. due(n, end) \in SUBSET Handlers
    BY <1>2, DueBound
  <2>. QED
    BY <2>1, EmptySeq DEF Calls
<1>4. Fewer(events, events', {})
  BY <1>1 DEF Fewer
<1>5. o \in EventObjects /\ ~o.immediate
  BY ObjectBegins DEF EventObject
<1>6. Len(history) \in Nat /\ NextCall = Len(history) + 1 /\ k \in Nat
  BY LenProperties DEF IInv, NextCall, ObjectsFit
<1>7. /\ f \in Frames /\ f.kind = "native" /\ f.node = n /\ f.at = n /\ f.phase = "path"
      /\ f.call = NextCall /\ f.only = FALSE
  BY <1>6, FramesBegin DEF Native
<1>8. Root(f) /\ LastOf(leveraged, f) = end
  BY <1>7 DEF Root, LastOf
<1>. HIDE DEF f, o, end
<1>9. stack' = Append(stack, f)
  BY <1>1
<1>10. BeginsEvent(f, o, this)
  BY <1>1, <1>3, <1>5, <1>6, <1>7, <1>8, <1>9 DEF BeginsEvent
<1>. HIDE DEF this
<1>. QED
  BY <1>1, <1>4, <1>10, EventDue

-----------------------------------------------------------------------------
(* The third invariant, and what follows. *)

\* Nothing is bound, and nothing is due.
LEMMA InitDue == Init => NInv
<1>. SUFFICES ASSUME Init PROVE NInv
  OBVIOUS
<1>1. objects = <<>> /\ stack = <<>> /\ history = <<>>
  BY DEF Init
<1>2. Len(<<>>) = 0 /\ 1..0 = {}
  OBVIOUS
<1>. QED
  BY <1>1, <1>2 DEF NInv, Due, StoppedAtOnce

\* Every step keeps it.
LEMMA NextDue == IInv /\ IInv' /\ HInv /\ NInv /\ [Next]_vars => NInv'
<1>. SUFFICES ASSUME IInv, IInv', HInv, NInv, [Next]_vars PROVE NInv'
  OBVIOUS
<1>1. CASE UNCHANGED vars
  BY <1>1 DEF vars, calls, bindings, focus, NInv
<1>2. ASSUME NEW n \in Elements,
             \/ \E i \in Ids, f \in Fns, s \in 0..Depth, o \in BOOLEAN :
                  on(n, [id |-> i, fn |-> f, sel |-> s, once |-> o])
             \/ \E f \in Fns : off(n, f)
             \/ offAll(n)
             \/ \E only \in BOOLEAN : trigger(n, only)
             \/ Arrive(n)
      PROVE  NInv'
  <2>1. CASE \E i \in Ids, f \in Fns, s \in 0..Depth, o \in BOOLEAN :
               on(n, [id |-> i, fn |-> f, sel |-> s, once |-> o])
    BY <2>1, OnDue
  <2>2. CASE offAll(n) \/ \E f \in Fns : off(n, f)
    BY <2>2, OffDue
  <2>3. CASE \E only \in BOOLEAN : trigger(n, only)
    BY <2>3, TriggerDue
  <2>4. CASE Arrive(n)
    BY <2>4, ArriveDue
  <2>. QED
    BY <1>2, <2>1, <2>2, <2>3, <2>4
<1>3. CASE Blur
  BY <1>3, BlurDue
<1>4. CASE visit \/ listener \/ pathEnd \/ tail \/ tailEnd \/ over
  BY <1>4, VisitDue, ListenerDue, PathEndDue, TailDue, TailEndDue, OverDue
<1>5. CASE call \/ returnTrue \/ dispatched
  BY <1>5, CallDue, ReturnTrueDue, DispatchedDue
<1>6. CASE \E how \in {"stop", "now"} : stop(how)
  BY <1>6, StopDue
<1>7. CASE \E result \in {"none", "false"} : return(result)
  <2>1. PICK result \in {"none", "false"} : return(result)
    BY <1>7
  <2>2. result \in Results
    BY DEF Results
  <2>. QED
    BY <2>1, <2>2, ReturnDue
<1>8. CASE stubTriggered \/ stubUnderWay \/ stubArrived \/ stubIdle
  BY <1>8, StubTriggeredDue, StubUnderWayDue, StubArrivedDue, StubIdleDue
<1>9. CASE methodReturned \/ triggeredAgain
  BY <1>9, MethodReturnedDue, TriggeredAgainDue
<1>. QED
  BY <1>1, <1>2, <1>3, <1>4, <1>5, <1>6, <1>7, <1>8, <1>9 DEF Next

\* It is an invariant.
LEMMA DueAlways == Spec => []NInv
<1>1. IInv /\ IInv' /\ HInv /\ NInv /\ [Next]_vars => NInv'
  BY NextDue
<1>. QED
  BY <1>1, InitDue, Invariant, HeldAlways, PTL DEF Spec

\* When an event is over nothing more is called for it.
LEMMA OverCalls ==
  ASSUME IInv, HInv, NEW i \in 1..Len(stack), Root(stack[i]), stack[i].phase = "over",
         i = 1 \/ stack[i - 1].call # stack[i].call
  PROVE  \A j \in 1..Len(stack) : \A h :
           ~(stack[j].call = stack[i].call /\ StillCallsAt(leveraged, events, objects, stack, j, h))
<1>1. /\ Len(stack) \in Nat
      /\ \A j \in 1..Len(stack) : stack[j].call \in Nat
  BY LenProperties, CallsNoted DEF IInv, StackFits
<1>2. i = Len(stack)
  <2>1. SUFFICES ASSUME i # Len(stack) PROVE FALSE
    OBVIOUS
  <2>2. i \in 1..(Len(stack) - 1)
    BY <1>1, <2>1
  <2>3. Under(leveraged, objects, stack[i], stack[i + 1])
    BY <2>2 DEF HInv, Held, Chain
  <2>. QED
    BY <2>3 DEF Under, Root
<1>3. SUFFICES ASSUME NEW j \in 1..Len(stack), NEW h, stack[j].call = stack[i].call,
                      StillCallsAt(leveraged, events, objects, stack, j, h)
               PROVE  FALSE
  OBVIOUS
<1>4. CASE j = i
  BY <1>3, <1>4 DEF StillCallsAt, StillCalls, Live, OnWay, Root
<1>5. CASE j # i
  <2>1. i # 1 /\ i - 1 \in 1..Len(stack) /\ j <= i - 1 /\ i - 1 <= i
    BY <1>1, <1>2, <1>5
  <2>2. stack[j].call <= stack[i - 1].call /\ stack[i - 1].call <= stack[i].call
    BY <2>1 DEF IInv, StackFits, Linked
  <2>. QED
    BY <1>1, <1>3, <2>1, <2>2
<1>. QED
  BY <1>4, <1>5

\* Every handler that is bound when an event begins, and still when it is over, has been
\* called for it, unless one has stopped it: whatever is bound and unbound on the way, in
\* whatever list the handler is, and whether the event is triggered by a script or the
\* browser's.  So has it for a focus that is triggered, unless the browser has not given
\* it, or has it come late (on, off, trigger, dispatch, handlers, leverageNative).
THEOREM NoneIsMissed == Spec => []NoneMissed
<1>1. IInv /\ HInv /\ NInv => NoneMissed
  <2>. SUFFICES ASSUME IInv, HInv, NInv, NEW i \in DOMAIN stack,
                       stack[i].kind \in {"trigger", "native"}, stack[i].phase = "over",
                       i = 1 \/ stack[i - 1].call # stack[i].call,
                       \A j \in DOMAIN history[stack[i].call].log :
                         history[stack[i].call].log[j].stops = "no",
                       NEW h \in history[stack[i].call].due, h.id \in BoundIds
                PROVE  \E j \in DOMAIN history[stack[i].call].log :
                         history[stack[i].call].log[j].id = h.id
    BY DEF NoneMissed
  <2>. DEFINE c == stack[i].call
              this == history[c]
  <2>1. i \in 1..Len(stack) /\ Root(stack[i])
    BY LenProperties DEF IInv, StackFits, Root
  <2>2. c \in 1..Len(history) /\ this \in Calls
    BY <2>1, CallsNoted, ElementOfSeq DEF IInv
  <2>3. DOMAIN this.log = 1..Len(this.log)
    BY <2>2, LenProperties DEF Calls
  <2>4. Clean(this.log)
    BY <2>3 DEF Clean
  <2>5. PICK m \in Elements : \E g \in Bound(events[m]) : g.id = h.id
    BY DEF BoundIds, BoundAt, Bound
  <2>6. Owns(events, this) /\ NoneLost(leveraged, events, objects, stack, c, this)
    BY <2>2 DEF NInv, Due
  <2>7. h \in Bound(events[m])
    BY <2>5, <2>6 DEF Owns
  <2>8. ~Unlogged(h.id, this.log)
    BY <2>1, <2>4, <2>6, <2>7, OverCalls DEF NoneLost
  <2>. QED
    BY <2>3, <2>8 DEF Unlogged
<1>. QED
  BY <1>1, Invariant, HeldAlways, DueAlways, PTL

=============================================================================
