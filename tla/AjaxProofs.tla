------------------------------ MODULE AjaxProofs ------------------------------
(***************************************************************************)
(* For any deferreds, requests and callbacks, and whatever the page's code *)
(* does: no outcome is lost on its way along a chain of promises, each     *)
(* list runs its callbacks in order and once, the complete callbacks of a  *)
(* request are its last, and jQuery.active counts what is under way.       *)
(***************************************************************************)
EXTENDS Ajax, TLAPS, SequenceTheorems, FiniteSetTheorems

Outcomes == {"done", "fail"}
States == {"pending", "resolved", "rejected"}

InSeq(x, s) == \E i \in 1..Len(s) : s[i] = x
Distinct(s) == \A i, j \in 1..Len(s) : s[i] = s[j] => i = j

-----------------------------------------------------------------------------
(* Sequences. *)

\* A frame pushed on a stack.
LEMMA Pushed ==
  ASSUME NEW S, NEW s \in Seq(S), NEW f \in S
  PROVE  /\ <<f>> \o s \in Seq(S)
         /\ Len(<<f>> \o s) = Len(s) + 1
         /\ (<<f>> \o s)[1] = f
         /\ \A i \in 2..(Len(s) + 1) : (<<f>> \o s)[i] = s[i - 1]
<1>1. <<f>> \in Seq(S) /\ Len(<<f>>) = 1 /\ <<f>>[1] = f
  OBVIOUS
<1>. QED
  BY <1>1, ConcatProperties, LenProperties

\* A sequence of one element.
LEMMA Single ==
  ASSUME NEW S, NEW s \in Seq(S), NEW e \in S, Len(s) = 1, s[1] = e
  PROVE  s = <<e>>
<1>1. <<e>> \in Seq(S) /\ Len(<<e>>) = 1 /\ <<e>>[1] = e
  OBVIOUS
<1>2. \A i \in 1..Len(s) : s[i] = <<e>>[i]
  <2>1. \A i \in 1..1 : i = 1
    OBVIOUS
  <2>. QED
    BY <1>1, <2>1
<1>. QED
  BY <1>1, <1>2, SeqEqual

\* What is left of a sequence without its head.
LEMMA Popped ==
  ASSUME NEW S, NEW s \in Seq(S), s # <<>>
  PROVE  /\ Head(s) = s[1] /\ s[1] \in S
         /\ Len(s) \in Nat /\ Len(s) >= 1
         /\ Tail(s) \in Seq(S)
         /\ Len(Tail(s)) = Len(s) - 1
         /\ \A i \in 1..(Len(s) - 1) : Tail(s)[i] = s[i + 1]
  OBVIOUS

\* Nothing occurs twice in what is left, and what was taken no longer occurs.
LEMMA PoppedDistinct ==
  ASSUME NEW S, NEW s \in Seq(S), s # <<>>, Distinct(s)
  PROVE  /\ Distinct(Tail(s)) /\ ~InSeq(Head(s), Tail(s)) /\ InSeq(Head(s), s)
         /\ \A x : InSeq(x, Tail(s)) => InSeq(x, s)
  BY Popped DEF Distinct, InSeq

\* What a concatenation holds, and when nothing occurs in it twice.
LEMMA Concatenated ==
  ASSUME NEW S, NEW s \in Seq(S), NEW t \in Seq(S)
  PROVE  /\ s \o t \in Seq(S)
         /\ \A x : InSeq(x, s \o t) <=> InSeq(x, s) \/ InSeq(x, t)
         /\ Distinct(s) /\ Distinct(t) /\ (\A x : ~InSeq(x, s) \/ ~InSeq(x, t)) =>
              Distinct(s \o t)
<1>1. /\ s \o t \in Seq(S) /\ Len(s \o t) = Len(s) + Len(t)
      /\ \A i \in 1..(Len(s) + Len(t)) :
           (s \o t)[i] = IF i <= Len(s) THEN s[i] ELSE t[i - Len(s)]
  BY ConcatProperties
<1>2. Len(s) \in Nat /\ Len(t) \in Nat
  BY LenProperties
<1>3. ASSUME NEW x PROVE InSeq(x, s \o t) <=> InSeq(x, s) \/ InSeq(x, t)
  <2>1. ASSUME InSeq(x, s) PROVE InSeq(x, s \o t)
    BY <2>1, <1>1, <1>2 DEF InSeq
  <2>2. ASSUME InSeq(x, t) PROVE InSeq(x, s \o t)
    <3>1. PICK i \in 1..Len(t) : t[i] = x
      BY <2>2 DEF InSeq
    <3>2. (s \o t)[Len(s) + i] = x /\ Len(s) + i \in 1..Len(s \o t)
      BY <3>1, <1>1, <1>2
    <3>. QED
      BY <3>2 DEF InSeq
  <2>3. ASSUME InSeq(x, s \o t) PROVE InSeq(x, s) \/ InSeq(x, t)
    <3>1. PICK i \in 1..(Len(s) + Len(t)) : (s \o t)[i] = x
      BY <2>3, <1>1 DEF InSeq
    <3>2. CASE i <= Len(s)
      BY <3>1, <3>2, <1>1, <1>2 DEF InSeq
    <3>3. CASE ~(i <= Len(s))
      <4>1. i - Len(s) \in 1..Len(t) /\ t[i - Len(s)] = x
        BY <3>1, <3>3, <1>1, <1>2
      <4>. QED
        BY <4>1 DEF InSeq
    <3>. QED
      BY <3>2, <3>3
  <2>. QED
    BY <2>1, <2>2, <2>3
<1>4. ASSUME Distinct(s), Distinct(t), \A x : ~InSeq(x, s) \/ ~InSeq(x, t),
             NEW i \in 1..Len(s \o t), NEW j \in 1..Len(s \o t), (s \o t)[i] = (s \o t)[j]
      PROVE  i = j
  <2>1. CASE i <= Len(s) /\ j <= Len(s)
    BY <2>1, <1>1, <1>2, <1>4 DEF Distinct
  <2>2. CASE ~(i <= Len(s)) /\ ~(j <= Len(s))
    <3>1. i - Len(s) \in 1..Len(t) /\ j - Len(s) \in 1..Len(t)
      BY <2>2, <1>1, <1>2
    <3>2. t[i - Len(s)] = t[j - Len(s)]
      BY <2>2, <1>1, <1>4
    <3>3. i - Len(s) = j - Len(s)
      BY <3>1, <3>2, <1>4 DEF Distinct
    <3>. QED
      BY <3>3, <1>1, <1>2
  <2>3. ASSUME NEW a \in 1..Len(s \o t), NEW b \in 1..Len(s \o t),
               (s \o t)[a] = (s \o t)[b], a <= Len(s), ~(b <= Len(s))
        PROVE  FALSE
    <3>1. InSeq((s \o t)[a], s)
      BY <2>3, <1>1, <1>2 DEF InSeq
    <3>2. b - Len(s) \in 1..Len(t) /\ t[b - Len(s)] = (s \o t)[b]
      BY <2>3, <1>1, <1>2
    <3>3. InSeq((s \o t)[b], t)
      BY <3>2 DEF InSeq
    <3>. QED
      BY <3>1, <3>3, <2>3, <1>4
  <2>. QED
    BY <2>1, <2>2, <2>3, <1>4
<1>. QED
  BY <1>1, <1>3, <1>4 DEF Distinct

\* The same for one more element.
LEMMA Appended ==
  ASSUME NEW S, NEW s \in Seq(S), NEW e \in S
  PROVE  /\ Append(s, e) \in Seq(S)
         /\ \A x : InSeq(x, Append(s, e)) <=> InSeq(x, s) \/ x = e
         /\ Distinct(s) /\ ~InSeq(e, s) => Distinct(Append(s, e))
<1>1. /\ Append(s, e) \in Seq(S) /\ Len(Append(s, e)) = Len(s) + 1 /\ Len(s) \in Nat
      /\ Append(s, e)[Len(s) + 1] = e
      /\ \A i \in 1..Len(s) : Append(s, e)[i] = s[i]
  OBVIOUS
<1>2. ASSUME NEW i \in 1..Len(Append(s, e)), i \notin 1..Len(s) PROVE i = Len(s) + 1
  BY <1>1, <1>2
<1>3. Len(s) + 1 \in 1..Len(Append(s, e)) /\ 1..Len(s) \subseteq 1..Len(Append(s, e))
  BY <1>1
<1>. QED
  BY <1>1, <1>2, <1>3 DEF InSeq, Distinct

-----------------------------------------------------------------------------
(* Chains. *)

\* The source of p is settled.
Decided(st, src, p) == src[p] \in Deferreds /\ st[src[p]] # "pending"

\* Where a promise of then may be, from the states of the deferreds, the promises'
\* sources and handlers, those that wait, the tasks and the promises whose handlers
\* are running (hs): it waits for a source that is pending, or is in a task or running
\* its handler when its source is settled, and is pending as long; and when it is
\* settled, its source is, with an outcome that it has a handler for or has itself.
Chained(st, src, hnd, wt, ts, hs) ==
  /\ \A p \in Promises :
       /\ src[p] # p
       /\ \A d \in Deferreds : InSeq(p, wt[d]) =>
            src[p] = d /\ st[p] = "pending" /\ st[d] = "pending"
       /\ InSeq(p, ts) => Decided(st, src, p) /\ st[p] = "pending"
       /\ p \in hs =>
            /\ Decided(st, src, p) /\ st[p] = "pending" /\ ~InSeq(p, ts)
            /\ \A k \in Outcomes : st[src[p]] = Outcome[k] => k \in hnd[p]
       /\ st[p] # "pending" =>
            /\ Decided(st, src, p)
            /\ \A k \in Outcomes \ hnd[p] : st[src[p]] = Outcome[k] => st[p] = Outcome[k]
  /\ Distinct(ts)
  /\ \A d \in Deferreds : Distinct(wt[d])

\* Fewer promises are running their handlers.
LEMMA FewerRunning ==
  ASSUME NEW st, NEW src, NEW hnd, NEW wt, NEW ts, NEW hs, NEW hs2,
         hs2 \subseteq hs, Chained(st, src, hnd, wt, ts, hs)
  PROVE  Chained(st, src, hnd, wt, ts, hs2)
  BY DEF Chained

\* A task is taken, whose promise runs its handler only if it has one.
LEMMA TaskTaken ==
  ASSUME NEW st, NEW src, NEW hnd, NEW wt, NEW ts \in Seq(Promises), ts # <<>>,
         NEW hs, hs \subseteq {Head(ts)},
         hs # {} => \A k \in Outcomes : st[src[Head(ts)]] = Outcome[k] => k \in hnd[Head(ts)],
         Chained(st, src, hnd, wt, ts, {})
  PROVE  Chained(st, src, hnd, wt, Tail(ts), hs)
<1>1. Distinct(ts)
  BY DEF Chained
<1>2. /\ Distinct(Tail(ts)) /\ ~InSeq(Head(ts), Tail(ts)) /\ InSeq(Head(ts), ts)
      /\ \A x : InSeq(x, Tail(ts)) => InSeq(x, ts)
  BY <1>1, PoppedDistinct
<1>. QED
  BY <1>2 DEF Chained

\* The deferred d is settled; if it is a promise, its source was, with an outcome that
\* it has a handler for or comes to itself.
LEMMA ChainSettled ==
  ASSUME NEW st \in [Deferreds -> States],
         NEW src \in [Promises -> Deferreds \union {Nothing}], NEW hnd,
         NEW wt \in [Deferreds -> Seq(Promises)], NEW ts \in Seq(Promises), NEW hs,
         NEW d \in Deferreds, NEW k \in Outcomes,
         st[d] = "pending", d \notin hs,
         Chained(st, src, hnd, wt, ts, hs),
         d \in Promises =>
           /\ Decided(st, src, d) /\ ~InSeq(d, ts)
           /\ \A j \in Outcomes \ hnd[d] : st[src[d]] = Outcome[j] => j = k
  PROVE  Chained([st EXCEPT ![d] = Outcome[k]], src, hnd, [wt EXCEPT ![d] = <<>>],
                 ts \o wt[d], hs)
<1> DEFINE st2 == [st EXCEPT ![d] = Outcome[k]]
           wt2 == [wt EXCEPT ![d] = <<>>]
           ts2 == ts \o wt[d]
<1>1. /\ st2[d] = Outcome[k] /\ Outcome[k] # "pending"
      /\ \A e \in Deferreds \ {d} : st2[e] = st[e]
  BY DEF Outcome, Outcomes
<1>2. wt2[d] = <<>> /\ \A e \in Deferreds \ {d} : wt2[e] = wt[e]
  OBVIOUS
<1>3. \A p \in Promises : InSeq(p, ts) => ~InSeq(p, wt[d])
  BY DEF Chained, Decided
<1>4. \A x : InSeq(x, wt[d]) => x \in Promises
  BY ElementOfSeq DEF InSeq
<1>5. /\ \A x : InSeq(x, ts2) <=> InSeq(x, ts) \/ InSeq(x, wt[d])
      /\ Distinct(ts2)
  <2>1. Distinct(ts) /\ Distinct(wt[d])
    BY DEF Chained
  <2>2. wt[d] \in Seq(Promises)
    OBVIOUS
  <2>3. \A x : ~InSeq(x, ts) \/ ~InSeq(x, wt[d])
    BY <1>3, <1>4
  <2>. QED
    BY <2>1, <2>2, <2>3, Concatenated
<1>6. \A x : ~InSeq(x, <<>>)
  BY DEF InSeq
<1>7. ASSUME NEW p \in Promises
      PROVE  /\ src[p] # p
             /\ p # d => (Decided(st, src, p) => Decided(st2, src, p) /\ st2[src[p]] = st[src[p]])
             /\ p = d => (Decided(st, src, p) => Decided(st2, src, p) /\ st2[src[p]] = st[src[p]])
  BY <1>1 DEF Chained, Decided
<1>8. ASSUME NEW p \in Promises, NEW e \in Deferreds, InSeq(p, wt2[e])
      PROVE  src[p] = e /\ st2[p] = "pending" /\ st2[e] = "pending"
  <2>1. e # d /\ InSeq(p, wt[e])
    BY <1>8, <1>2, <1>6
  <2>2. src[p] = e /\ st[p] = "pending" /\ st[e] = "pending"
    BY <2>1 DEF Chained
  <2>3. p # d
    BY <2>2 DEF Decided
  <2>. QED
    BY <2>1, <2>2, <2>3, <1>1, DeferredAssumption
<1>9. ASSUME NEW p \in Promises, InSeq(p, ts2)
      PROVE  Decided(st2, src, p) /\ st2[p] = "pending"
  <2>1. CASE InSeq(p, ts)
    <3>1. Decided(st, src, p) /\ st[p] = "pending" /\ p # d
      BY <2>1 DEF Chained
    <3>. QED
      BY <3>1, <1>1, <1>7, DeferredAssumption
  <2>2. CASE InSeq(p, wt[d])
    <3>1. src[p] = d /\ st[p] = "pending" /\ src[p] # p
      BY <2>2 DEF Chained
    <3>. QED
      BY <3>1, <1>1, DeferredAssumption DEF Decided
  <2>. QED
    BY <2>1, <2>2, <1>5, <1>9
<1>10. ASSUME NEW p \in Promises, p \in hs
       PROVE  /\ Decided(st2, src, p) /\ st2[p] = "pending" /\ ~InSeq(p, ts2)
              /\ \A j \in Outcomes : st2[src[p]] = Outcome[j] => j \in hnd[p]
  <2>1. /\ Decided(st, src, p) /\ st[p] = "pending" /\ ~InSeq(p, ts) /\ p # d
        /\ \A j \in Outcomes : st[src[p]] = Outcome[j] => j \in hnd[p]
    BY <1>10 DEF Chained
  <2>2. ~InSeq(p, wt[d])
    BY <2>1 DEF Chained, Decided
  <2>. QED
    BY <2>1, <2>2, <1>1, <1>5, <1>7, DeferredAssumption
<1>11. ASSUME NEW p \in Promises, st2[p] # "pending"
       PROVE  /\ Decided(st2, src, p)
              /\ \A j \in Outcomes \ hnd[p] : st2[src[p]] = Outcome[j] => st2[p] = Outcome[j]
  <2>1. CASE p = d
    BY <2>1, <1>1, <1>7
  <2>2. CASE p # d
    <3>1. st[p] # "pending" /\ st2[p] = st[p]
      BY <2>2, <1>1, <1>11, DeferredAssumption
    <3>2. /\ Decided(st, src, p)
          /\ \A j \in Outcomes \ hnd[p] : st[src[p]] = Outcome[j] => st[p] = Outcome[j]
      BY <3>1 DEF Chained
    <3>. QED
      BY <2>2, <3>1, <3>2, <1>7
  <2>. QED
    BY <2>1, <2>2
<1>12. ASSUME NEW e \in Deferreds PROVE Distinct(wt2[e])
  <2>1. Distinct(<<>>)
    BY DEF Distinct
  <2>. QED
    BY <2>1, <1>2 DEF Chained
<1>. HIDE DEF st2, wt2, ts2
<1>13. Chained(st2, src, hnd, wt2, ts2, hs)
  BY <1>5, <1>7, <1>8, <1>9, <1>10, <1>11, <1>12 DEF Chained
<1>. QED
  BY <1>13 DEF st2, wt2, ts2

\* The handlers of p are to run when d is settled.
LEMMA ChainWaits ==
  ASSUME NEW st \in [Deferreds -> States],
         NEW src \in [Promises -> Deferreds \union {Nothing}], NEW hnd, NEW hnd2,
         NEW wt \in [Deferreds -> Seq(Promises)], NEW ts \in Seq(Promises),
         NEW wt2, NEW ts2, NEW hs,
         NEW d \in Deferreds, NEW p \in Promises, p # d, p \notin hs,
         st[p] = "pending", ~InSeq(p, ts), \A e \in Deferreds : ~InSeq(p, wt[e]),
         \A q \in Promises \ {p} : hnd2[q] = hnd[q],
         IF st[d] = "pending"
           THEN wt2 = [wt EXCEPT ![d] = Append(@, p)] /\ ts2 = ts
           ELSE ts2 = Append(ts, p) /\ wt2 = wt,
         Chained(st, src, hnd, wt, ts, hs)
  PROVE  Chained(st, [src EXCEPT ![p] = d], hnd2, wt2, ts2, hs)
<1> DEFINE src2 == [src EXCEPT ![p] = d]
<1>1. src2[p] = d /\ \A q \in Promises \ {p} : src2[q] = src[q]
  OBVIOUS
<1>2. /\ \A e \in Deferreds : \A x : InSeq(x, wt2[e]) <=>
           InSeq(x, wt[e]) \/ (x = p /\ e = d /\ st[d] = "pending")
      /\ \A e \in Deferreds : Distinct(wt2[e])
  <2>1. \A e \in Deferreds : Distinct(wt[e])
    BY DEF Chained
  <2>2. CASE st[d] = "pending"
    <3>1. /\ \A x : InSeq(x, Append(wt[d], p)) <=> InSeq(x, wt[d]) \/ x = p
          /\ Distinct(Append(wt[d], p))
      <4>1. wt[d] \in Seq(Promises)
        OBVIOUS
      <4>. QED
        BY <4>1, <2>1, Appended
    <3>2. wt2[d] = Append(wt[d], p) /\ \A e \in Deferreds \ {d} : wt2[e] = wt[e]
      BY <2>2
    <3>. QED
      BY <2>1, <2>2, <3>1, <3>2
  <2>3. CASE st[d] # "pending"
    BY <2>1, <2>3
  <2>. QED
    BY <2>2, <2>3
<1>3. /\ \A x : InSeq(x, ts2) <=> InSeq(x, ts) \/ (x = p /\ st[d] # "pending")
      /\ Distinct(ts2)
  <2>1. Distinct(ts)
    BY DEF Chained
  <2>2. /\ \A x : InSeq(x, Append(ts, p)) <=> InSeq(x, ts) \/ x = p
        /\ Distinct(Append(ts, p))
    BY <2>1, Appended
  <2>. QED
    BY <2>1, <2>2
<1>4. ASSUME NEW q \in Promises, q # p
      PROVE  /\ src2[q] # q
             /\ \A e \in Deferreds : InSeq(q, wt2[e]) =>
                  src2[q] = e /\ st[q] = "pending" /\ st[e] = "pending"
             /\ InSeq(q, ts2) => Decided(st, src2, q) /\ st[q] = "pending"
             /\ q \in hs =>
                  /\ Decided(st, src2, q) /\ st[q] = "pending" /\ ~InSeq(q, ts2)
                  /\ \A k \in Outcomes : st[src2[q]] = Outcome[k] => k \in hnd2[q]
             /\ st[q] # "pending" =>
                  /\ Decided(st, src2, q)
                  /\ \A k \in Outcomes \ hnd2[q] :
                       st[src2[q]] = Outcome[k] => st[q] = Outcome[k]
  <2>1. src2[q] = src[q] /\ hnd2[q] = hnd[q]
    BY <1>1, <1>4
  <2>2. (\A e \in Deferreds : InSeq(q, wt2[e]) <=> InSeq(q, wt[e])) /\ (InSeq(q, ts2) <=> InSeq(q, ts))
    BY <1>2, <1>3, <1>4
  <2>. HIDE DEF src2
  <2>. QED
    BY <2>1, <2>2 DEF Chained, Decided
<1>5. /\ src2[p] # p /\ p \notin hs /\ st[p] = "pending"
      /\ \A e \in Deferreds : InSeq(p, wt2[e]) => src2[p] = e /\ st[e] = "pending"
      /\ InSeq(p, ts2) => Decided(st, src2, p)
  BY <1>1, <1>2, <1>3 DEF Decided
<1>. HIDE DEF src2
<1>6. Chained(st, src2, hnd2, wt2, ts2, hs)
  BY <1>2, <1>3, <1>4, <1>5 DEF Chained
<1>. QED
  BY <1>6 DEF src2

-----------------------------------------------------------------------------
(* The stack. *)

\* The code that may be in a list or run on an empty stack.
Plain == Cbs \ Hooks

\* The promises whose handlers are running: a handler is right above its task.
Handling(s) ==
  {p \in Promises : /\ Len(s) >= 2 /\ s[Len(s)] = Frame("task", p, Nothing)
                    /\ s[Len(s) - 1] = Code(p)}

\* Where a frame may be: a task at the bottom, below its handler or once its promise is
\* settled; a handler above its task; a hook above the request being sent.
Placed(s, i, st) ==
  /\ s[i].at = "code" =>
       /\ s[i] = Code(s[i].of)
       /\ s[i].of \in Promises => i = Len(s) - 1 /\ s[Len(s)] = Frame("task", s[i].of, Nothing)
       /\ s[i].of \in Hooks => i < Len(s) /\ s[i + 1].at = "send"
  /\ s[i].at \in {"send", "sent", "completing", "completed"} => s[i].of \in Requests
  /\ s[i].at = "list" => s[i].of \in Deferreds /\ s[i].kind \in Kinds
  /\ s[i].at = "task" =>
       /\ i = Len(s) /\ s[i].of \in Promises /\ s[i] = Frame("task", s[i].of, Nothing)
       /\ Len(s) >= 2 => s[Len(s) - 1] = Code(s[i].of) \/ st[s[i].of] # "pending"

GoodStack(s, st) == \A i \in 1..Len(s) : Placed(s, i, st)

\* Something may be pushed on s: it is no task whose promise is pending.
Pushable(s, st) == Len(s) = 1 /\ s[1].at = "task" => st[s[1].of] # "pending"

\* A frame that may be pushed on any such stack.
PlainFrame(f) ==
  \/ f.at = "code" /\ f.of \in Plain /\ f = Code(f.of)
  \/ f.at = "list" /\ f.of \in Deferreds /\ f.kind \in Kinds
  \/ f.at \in {"send", "sent", "completing", "completed"} /\ f.of \in Requests

\* Such a frame is pushed: no handler begins.
LEMMA PlainPushed ==
  ASSUME NEW s \in Seq(Frames), NEW f \in Frames, NEW st,
         GoodStack(s, st), Pushable(s, st), PlainFrame(f)
  PROVE  /\ <<f>> \o s \in Seq(Frames) /\ GoodStack(<<f>> \o s, st)
         /\ Handling(<<f>> \o s) \subseteq Handling(s)
         /\ f.at # "task" => Pushable(<<f>> \o s, st)
<1> DEFINE t == <<f>> \o s
<1>1. /\ t \in Seq(Frames) /\ Len(t) = Len(s) + 1 /\ Len(s) \in Nat /\ t[1] = f
      /\ \A i \in 2..(Len(s) + 1) : t[i] = s[i - 1]
  BY Pushed, LenProperties
<1>. HIDE DEF t
<1>2. f.at # "task" /\ (f.at = "code" => f.of \notin Promises \union Hooks)
  BY DeferredAssumption DEF PlainFrame, Plain
<1>3. Placed(t, 1, st)
  BY <1>1, <1>2 DEF PlainFrame, Placed, Plain
<1>4. ASSUME NEW i \in 2..Len(t) PROVE Placed(t, i, st)
  <2>1. i - 1 \in 1..Len(s) /\ t[i] = s[i - 1] /\ Placed(s, i - 1, st)
    BY <1>1 DEF GoodStack
  <2>2. s[i - 1].at = "code" /\ s[i - 1].of \in Promises => Len(s) >= 2
    BY <2>1, <1>1 DEF Placed
  <2>3. t[Len(t)] = s[Len(s)]
    BY <2>1, <1>1
  <2>4. i - 1 < Len(s) => t[i + 1] = s[i]
    BY <2>1, <1>1
  <2>5. Len(s) >= 2 => t[Len(t) - 1] = s[Len(s) - 1]
    BY <1>1
  <2>6. s[i - 1].at = "task" /\ Len(s) = 1 => st[s[i - 1].of] # "pending"
    BY <2>1, <1>1 DEF Pushable
  <2>7. s[i - 1].at = "code" =>
          /\ t[i] = Code(t[i].of)
          /\ t[i].of \in Promises => i = Len(t) - 1 /\ t[Len(t)] = Frame("task", t[i].of, Nothing)
          /\ t[i].of \in Hooks => i < Len(t) /\ t[i + 1].at = "send"
    BY <2>1, <2>3, <2>4, <1>1 DEF Placed
  <2>8. s[i - 1].at = "task" =>
          /\ i = Len(t) /\ t[i].of \in Promises /\ t[i] = Frame("task", t[i].of, Nothing)
          /\ t[Len(t) - 1] = Code(t[i].of) \/ st[t[i].of] # "pending"
    <3>1. SUFFICES ASSUME s[i - 1].at = "task"
                   PROVE  /\ i = Len(t) /\ t[i].of \in Promises
                          /\ t[i] = Frame("task", t[i].of, Nothing)
                          /\ t[Len(t) - 1] = Code(t[i].of) \/ st[t[i].of] # "pending"
      OBVIOUS
    <3>2. /\ i - 1 = Len(s) /\ t[i].of \in Promises /\ t[i] = Frame("task", t[i].of, Nothing)
          /\ Len(s) >= 2 => s[Len(s) - 1] = Code(t[i].of) \/ st[t[i].of] # "pending"
      BY <3>1, <2>1 DEF Placed
    <3>3. Len(s) \in Nat /\ i \in Nat /\ i >= 2 /\ i - 1 = Len(s) /\ Len(t) = Len(s) + 1
      BY <3>2, <1>1
    <3>4. \A m, n \in Nat : m >= 2 /\ m - 1 = n => m = n + 1 /\ (n = 1 \/ n >= 2)
      OBVIOUS
    <3>5. i = Len(s) + 1 /\ (Len(s) = 1 \/ Len(s) >= 2)
      BY <3>3, <3>4
    <3>. QED
      BY <3>1, <3>2, <3>3, <3>5, <2>1, <2>5, <2>6
  <2>. QED
    BY <2>1, <2>7, <2>8 DEF Placed
<1>5. Handling(t) \subseteq Handling(s)
  <2>1. ASSUME NEW p \in Handling(t) PROVE p \in Handling(s)
    <3>1. p \in Promises /\ Len(t) >= 2 /\ t[Len(t)] = Frame("task", p, Nothing)
          /\ t[Len(t) - 1] = Code(p)
      BY DEF Handling
    <3>2. Len(s) # 1
      BY <3>1, <1>1, <1>2 DEF Code, Frame
    <3>3. Len(s) >= 2
      <4>1. Len(s) \in Nat /\ Len(s) + 1 >= 2 /\ Len(s) # 1
        BY <3>1, <3>2, <1>1
      <4>2. \A n \in Nat : n + 1 >= 2 => n = 1 \/ n >= 2
        OBVIOUS
      <4>. QED
        BY <4>1, <4>2
    <3>4. t[Len(t)] = s[Len(s)] /\ t[Len(t) - 1] = s[Len(s) - 1]
      BY <3>3, <1>1
    <3>. QED
      BY <3>1, <3>3, <3>4 DEF Handling
  <2>. QED
    BY <2>1
<1>6. Pushable(t, st)
  BY <1>1, <1>2 DEF Pushable
<1>7. \A i \in 1..Len(t) : i = 1 \/ i \in 2..Len(t)
  BY <1>1
<1>8. GoodStack(t, st)
  BY <1>3, <1>4, <1>7 DEF GoodStack
<1>. QED
  BY <1>1, <1>5, <1>6, <1>8 DEF t

\* The innermost frame is popped; unless it was a handler, something may be pushed.
LEMMA FramePopped ==
  ASSUME NEW s \in Seq(Frames), s # <<>>, NEW st, GoodStack(s, st)
  PROVE  /\ Tail(s) \in Seq(Frames) /\ GoodStack(Tail(s), st)
         /\ Handling(Tail(s)) \subseteq Handling(s)
         /\ ~(Head(s).at = "code" /\ Head(s).of \in Promises) => Pushable(Tail(s), st)
<1> DEFINE t == Tail(s)
<1>1. /\ Head(s) = s[1] /\ Len(s) \in Nat /\ Len(s) >= 1 /\ t \in Seq(Frames)
      /\ Len(t) = Len(s) - 1 /\ \A i \in 1..(Len(s) - 1) : t[i] = s[i + 1]
  BY Popped
<1>. HIDE DEF t
<1>2. ASSUME NEW i \in 1..Len(t) PROVE Placed(t, i, st)
  <2>1. i + 1 \in 1..Len(s) /\ t[i] = s[i + 1] /\ Placed(s, i + 1, st)
    BY <1>1 DEF GoodStack
  <2>2. t[Len(t)] = s[Len(s)]
    BY <1>1
  <2>3. i + 1 < Len(s) => t[i + 1] = s[i + 2]
    BY <1>1
  <2>4. Len(t) >= 2 => t[Len(t) - 1] = s[Len(s) - 1]
    BY <1>1
  <2>5. s[i + 1].at = "code" =>
          /\ t[i] = Code(t[i].of)
          /\ t[i].of \in Promises => i = Len(t) - 1 /\ t[Len(t)] = Frame("task", t[i].of, Nothing)
          /\ t[i].of \in Hooks => i < Len(t) /\ t[i + 1].at = "send"
    BY <2>1, <2>2, <2>3, <1>1 DEF Placed
  <2>6. s[i + 1].at = "task" =>
          /\ i = Len(t) /\ t[i].of \in Promises /\ t[i] = Frame("task", t[i].of, Nothing)
          /\ Len(t) >= 2 => t[Len(t) - 1] = Code(t[i].of) \/ st[t[i].of] # "pending"
    BY <2>1, <2>4, <1>1 DEF Placed
  <2>. QED
    BY <2>1, <2>5, <2>6 DEF Placed
<1>3. Handling(t) \subseteq Handling(s)
  BY <1>1 DEF Handling
<1>4. ASSUME ~(s[1].at = "code" /\ s[1].of \in Promises) PROVE Pushable(t, st)
  <2>1. SUFFICES ASSUME Len(t) = 1, t[1].at = "task" PROVE st[t[1].of] # "pending"
    BY DEF Pushable
  <2>2. Len(s) = 2 /\ t[1] = s[2]
    <3>1. Len(s) \in Nat /\ Len(s) - 1 = 1
      BY <2>1, <1>1
    <3>2. Len(s) = 2
      BY <3>1
    <3>. QED
      BY <3>2, <1>1
  <2>3. Placed(s, 2, st)
    BY <2>2 DEF GoodStack
  <2>4. s[2].of \in Promises /\ (s[1] = Code(s[2].of) \/ st[s[2].of] # "pending")
    BY <2>1, <2>2, <2>3 DEF Placed
  <2>5. s[1] # Code(s[2].of)
    BY <2>4, <1>4 DEF Code, Frame
  <2>. QED
    BY <2>2, <2>4, <2>5
<1>. QED
  BY <1>1, <1>2, <1>3, <1>4 DEF GoodStack, t

\* A settled promise stays settled, so a stack stays good.
LEMMA StackKept ==
  ASSUME NEW s \in Seq(Frames), NEW st, NEW st2,
         \A p \in Promises : st[p] # "pending" => st2[p] # "pending",
         GoodStack(s, st)
  PROVE  GoodStack(s, st2) /\ (Pushable(s, st) => Pushable(s, st2))
<1>1. ASSUME NEW i \in 1..Len(s) PROVE Placed(s, i, st2)
  BY DEF GoodStack, Placed
<1>2. ASSUME Pushable(s, st), Len(s) = 1, s[1].at = "task" PROVE st2[s[1].of] # "pending"
  <2>1. Placed(s, 1, st)
    BY <1>2 DEF GoodStack
  <2>. QED
    BY <2>1, <1>2 DEF Pushable, Placed
<1>. QED
  BY <1>1, <1>2 DEF GoodStack, Pushable

-----------------------------------------------------------------------------
(* The inductive invariant. *)

Types ==
  /\ state \in [Deferreds -> States]
  /\ lists \in [Deferreds -> [Kinds -> Lists(Plain)]]
  /\ waiting \in [Deferreds -> Seq(Promises)]
  /\ source \in [Promises -> Deferreds \union {Nothing}]
  /\ handles \in [Promises -> SUBSET Outcomes]
  /\ tasks \in Seq(Promises)
  /\ stack \in Seq(Frames)

IInv ==
  /\ Types
  /\ GoodStack(stack, state)
  /\ Chained(state, source, handles, waiting, tasks, Handling(stack))

\* A list stays a list of such callbacks.
LEMMA ListKept ==
  ASSUME NEW l \in Lists(Plain)
  PROVE  /\ \A c \in Plain : add(l, c) \in Lists(Plain)
         /\ fire(l) \in Lists(Plain)
         /\ disable(l) \in Lists(Plain) /\ endPass(l) \in Lists(Plain)
         /\ EmptyList \in Lists(Plain)
<1>1. /\ l.list \in Seq(Plain) /\ Len(l.list) \in Nat /\ l.index \in Nat
      /\ <<>> \in Seq(Plain) /\ 0 \in Nat
  BY DEF Lists
<1>2. /\ fire(l) \in Lists(Plain) /\ disable(l) \in Lists(Plain)
      /\ endPass(l) \in Lists(Plain) /\ EmptyList \in Lists(Plain)
  BY <1>1 DEF Lists, fire, disable, endPass, EmptyList
<1>3. ASSUME NEW c \in Plain PROVE add(l, c) \in Lists(Plain)
  <2>1. Append(l.list, c) \in Seq(Plain)
    BY <1>1
  <2>. QED
    BY <1>1, <2>1 DEF Lists, add
<1>. QED
  BY <1>2, <1>3

\* The callback that runs next is one of them.
LEMMA NextInList ==
  ASSUME NEW l \in Lists(Plain), More(l)
  PROVE  nextCallback(l) \in Plain /\ advance(l) \in Lists(Plain)
<1>1. l.list \in Seq(Plain) /\ l.index + 1 \in 1..Len(l.list) /\ l.index \in Nat
  BY LenProperties DEF Lists, More
<1>2. l.list[l.index + 1] \in Plain
  BY <1>1, ElementOfSeq
<1>. QED
  BY <1>1, <1>2 DEF nextCallback, advance, Lists

\* A frame that stands for a pass, a request or such a piece of code.
LEMMA FrameKinds ==
  /\ \A d \in Deferreds, k \in Kinds :
       Frame("list", d, k) \in Frames /\ PlainFrame(Frame("list", d, k))
  /\ \A r \in Requests, at \in {"send", "sent", "completing", "completed"} :
       Frame(at, r, Nothing) \in Frames /\ PlainFrame(Frame(at, r, Nothing))
  /\ \A c \in Plain : Code(c) \in Frames /\ PlainFrame(Code(c))
  BY AjaxAssumption DEF Frame, Frames, PlainFrame, Code, Plain

\* A deferred is settled, or was already, with a stack behind it on which the pass over
\* its callbacks may be pushed.
LEMMA Settles ==
  ASSUME Types, NEW d \in Deferreds, NEW k \in Outcomes, NEW rest \in Seq(Frames),
         settle(d, k, rest), UNCHANGED <<source, handles>>,
         GoodStack(rest, state),
         Pushable(rest, state) \/ (d \in Promises /\ rest = <<Frame("task", d, Nothing)>>),
         Chained(state, source, handles, waiting, tasks, Handling(rest)),
         d \notin Handling(rest),
         d \in Promises /\ state[d] = "pending" =>
           /\ Decided(state, source, d) /\ ~InSeq(d, tasks)
           /\ \A j \in Outcomes \ handles[d] : state[source[d]] = Outcome[j] => j = k
  PROVE  IInv'
<1>1. CASE state[d] # "pending"
  <2>. UNCHANGED <<state, lists, waiting, tasks>> /\ stack' = rest
    BY <1>1 DEF settle
  <2>. QED
    BY DEF IInv, Types
<1>2. CASE state[d] = "pending"
  <2> DEFINE f == Frame("list", d, k)
  <2>1. /\ state' = [state EXCEPT ![d] = Outcome[k]]
        /\ lists' = [lists EXCEPT ![d][k] = fire(@), ![d][Other[k]] = disable(@)]
        /\ tasks' = tasks \o waiting[d]
        /\ waiting' = [waiting EXCEPT ![d] = <<>>]
        /\ stack' = <<f>> \o rest
    BY <1>2 DEF settle
  <2>2. k \in Kinds /\ Other[k] \in Kinds /\ Outcome[k] \in States /\ Outcome[k] # "pending"
    BY DEF Outcomes, Kinds, Other, Outcome, States
  <2>3. f \in Frames /\ PlainFrame(f) /\ f.at # "task"
    BY <2>2, FrameKinds DEF Frame
  <2>. HIDE DEF f
  <2>4. Chained(state', source', handles', waiting', tasks', Handling(rest))
    <3>1. /\ state \in [Deferreds -> States]
          /\ source \in [Promises -> Deferreds \union {Nothing}]
          /\ waiting \in [Deferreds -> Seq(Promises)] /\ tasks \in Seq(Promises)
      BY DEF Types
    <3>2. d \in Promises =>
           /\ Decided(state, source, d) /\ ~InSeq(d, tasks)
           /\ \A j \in Outcomes \ handles[d] : state[source[d]] = Outcome[j] => j = k
      BY <1>2
    <3>3. Chained([state EXCEPT ![d] = Outcome[k]], source, handles,
                  [waiting EXCEPT ![d] = <<>>], tasks \o waiting[d], Handling(rest))
      BY <1>2, <3>1, <3>2, ChainSettled
    <3>. QED
      BY <2>1, <3>3
  <2>5. /\ \A p \in Promises : state[p] # "pending" => state'[p] # "pending"
        /\ state'[d] # "pending"
    BY <2>1, <2>2, DeferredAssumption DEF Types
  <2>6. GoodStack(rest, state') /\ Pushable(rest, state')
    <3>1. GoodStack(rest, state') /\ (Pushable(rest, state) => Pushable(rest, state'))
      BY <2>5, StackKept
    <3>2. rest = <<Frame("task", d, Nothing)>> => Pushable(rest, state')
      BY <2>5 DEF Pushable, Frame
    <3>. QED
      BY <3>1, <3>2
  <2>7. /\ stack' \in Seq(Frames) /\ GoodStack(stack', state')
        /\ Handling(stack') \subseteq Handling(rest)
    BY <2>1, <2>3, <2>6, PlainPushed
  <2>8. Chained(state', source', handles', waiting', tasks', Handling(stack'))
    BY <2>4, <2>7, FewerRunning
  <2>9. /\ state' \in [Deferreds -> States]
        /\ waiting' \in [Deferreds -> Seq(Promises)]
        /\ source' \in [Promises -> Deferreds \union {Nothing}]
        /\ handles' \in [Promises -> SUBSET Outcomes]
        /\ tasks' \in Seq(Promises)
    BY <2>1, <2>2, ConcatProperties DEF Types
  <2>10. lists' \in [Deferreds -> [Kinds -> Lists(Plain)]]
    <3>1. \A l \in Lists(Plain) : fire(l) \in Lists(Plain) /\ disable(l) \in Lists(Plain)
      BY ListKept
    <3>. QED
      BY <2>1, <2>2, <3>1 DEF Types
  <2>. QED
    BY <2>7, <2>8, <2>9, <2>10 DEF IInv, Types
<1>. QED
  BY <1>1, <1>2

\* A step that changes nothing but the stack and the lists, and begins no handler.
LEMMA OnlyStack ==
  ASSUME IInv, UNCHANGED <<state, waiting, source, handles, tasks>>,
         lists' \in [Deferreds -> [Kinds -> Lists(Plain)]],
         stack' \in Seq(Frames), GoodStack(stack', state),
         Handling(stack') \subseteq Handling(stack)
  PROVE  IInv'
<1>1. Chained(state, source, handles, waiting, tasks, Handling(stack'))
  BY FewerRunning DEF IInv
<1>. QED
  BY <1>1 DEF IInv, Types

-----------------------------------------------------------------------------
(* The steps. *)

\* The deferreds that the page's code has.
LEMMA KnownDeferreds ==
  Known \subseteq Deferreds /\ \A d \in Known \intersect Promises : source[d] # Nothing
  BY AjaxAssumption, DeferredAssumption DEF Known

\* The thread is at a frame, and something is under it.
LEMMA AtFrame ==
  ASSUME IInv, stack # <<>>
  PROVE  /\ Top \in Frames /\ Top = stack[1] /\ Placed(stack, 1, state)
         /\ Len(stack) \in Nat /\ Len(stack) >= 1
         /\ Tail(stack) \in Seq(Frames) /\ GoodStack(Tail(stack), state)
         /\ Handling(Tail(stack)) \subseteq Handling(stack)
         /\ ~(Top.at = "code" /\ Top.of \in Promises) => Pushable(Tail(stack), state)
<1>1. stack \in Seq(Frames) /\ GoodStack(stack, state)
  BY DEF IInv, Types
<1>2. stack[1] \in Frames /\ Top = stack[1] /\ Len(stack) \in Nat /\ Len(stack) >= 1
  BY <1>1, Popped DEF Top
<1>3. Placed(stack, 1, state)
  BY <1>1, <1>2 DEF GoodStack
<1>. QED
  BY <1>1, <1>2, <1>3, FramePopped DEF Top

\* A request ends, or had already, with rest behind it on the stack.
LEMMA Closes ==
  ASSUME IInv, NEW r \in Requests, NEW k \in Outcomes, NEW rest \in Seq(Frames),
         close(r, k, rest), UNCHANGED <<source, handles>>,
         GoodStack(rest, state), Pushable(rest, state),
         Handling(rest) \subseteq Handling(stack)
  PROVE  IInv'
<1>1. CASE phase[r] = "closed"
  <2>1. stack' = rest /\ UNCHANGED <<state, lists, waiting, tasks>>
    BY <1>1 DEF close
  <2>. QED
    BY <2>1, OnlyStack DEF IInv, Types
<1>2. CASE phase[r] # "closed"
  <2> DEFINE f == Frame("completing", r, Nothing)
             under == <<f>> \o rest
  <2>1. settle(r, k, under)
    BY <1>2 DEF close
  <2>2. f \in Frames /\ PlainFrame(f) /\ f.at # "task"
    BY FrameKinds DEF Frame
  <2>. HIDE DEF f
  <2>3. /\ under \in Seq(Frames) /\ GoodStack(under, state)
        /\ Handling(under) \subseteq Handling(rest) /\ Pushable(under, state)
    BY <2>2, PlainPushed
  <2>. HIDE DEF under
  <2>4. Chained(state, source, handles, waiting, tasks, Handling(under))
    <3>1. Handling(under) \subseteq Handling(stack)
      BY <2>3
    <3>. QED
      BY <3>1, FewerRunning DEF IInv
  <2>5. r \in Deferreds /\ r \notin Promises /\ r \notin Handling(under)
    BY AjaxAssumption DEF Handling
  <2>. QED
    BY <2>1, <2>3, <2>4, <2>5, Settles DEF IInv
<1>. QED
  BY <1>1, <1>2

\* done and fail: a pass may begin.
LEMMA addCallbackKeeps ==
  ASSUME IInv, NEW d \in Deferreds, NEW k \in Outcomes, NEW c \in Plain,
         Coding, addCallback(d, k, c)
  PROVE  IInv'
<1>1. k \in Kinds
  BY DEF Outcomes, Kinds
<1>2. lists' \in [Deferreds -> [Kinds -> Lists(Plain)]]
  <2>1. lists[d][k] \in Lists(Plain)
    BY <1>1 DEF IInv, Types
  <2>2. add(lists[d][k], c) \in Lists(Plain)
    BY <2>1, ListKept
  <2>. QED
    BY <1>1, <2>2 DEF addCallback, IInv, Types
<1>3. UNCHANGED <<state, waiting, source, handles, tasks>>
  BY DEF addCallback, chains
<1>4. stack # <<>> /\ stack \in Seq(Frames) /\ GoodStack(stack, state) /\ Top.at = "code"
  BY DEF IInv, Types, Coding, Running, Top
<1>5. Pushable(stack, state)
  BY <1>4, AtFrame DEF Pushable
<1>6. Frame("list", d, k) \in Frames /\ PlainFrame(Frame("list", d, k))
  BY <1>1, FrameKinds
<1>7. stack' = stack \/ stack' = <<Frame("list", d, k)>> \o stack
  BY DEF addCallback
<1>8. stack' \in Seq(Frames) /\ GoodStack(stack', state) /\ Handling(stack') \subseteq Handling(stack)
  BY <1>4, <1>5, <1>6, <1>7, PlainPushed
<1>. QED
  BY <1>2, <1>3, <1>8, OnlyStack

\* then: the promise is a new one.
LEMMA thenKeeps ==
  ASSUME IInv, NEW d \in Known, NEW p \in Promises, NEW given \in SUBSET Outcomes,
         then(d, p, given)
  PROVE  IInv'
<1>1. /\ source[p] = Nothing /\ d \in Deferreds /\ p # d
      /\ Types /\ Chained(state, source, handles, waiting, tasks, Handling(stack))
  BY KnownDeferreds DEF then, IInv
<1>2. Nothing \notin Deferreds
  BY DeferredAssumption
<1>3. /\ state[p] = "pending" /\ p \notin Handling(stack) /\ ~InSeq(p, tasks)
      /\ \A e \in Deferreds : ~InSeq(p, waiting[e])
  <2>1. ~Decided(state, source, p)
    BY <1>1, <1>2 DEF Decided
  <2>. QED
    BY <1>1, <1>2, <2>1 DEF Chained
<1>4. /\ source' = [source EXCEPT ![p] = d]
      /\ IF state[d] = "pending"
           THEN waiting' = [waiting EXCEPT ![d] = Append(@, p)] /\ tasks' = tasks
           ELSE tasks' = Append(tasks, p) /\ waiting' = waiting
      /\ handles' = [handles EXCEPT ![p] = given]
      /\ UNCHANGED <<state, lists, stack>>
  BY DEF then, waitFor
<1>5. Chained(state, [source EXCEPT ![p] = d], handles', waiting', tasks', Handling(stack))
  <2>1. \A q \in Promises \ {p} : handles'[q] = handles[q]
    BY <1>1, <1>4 DEF Types
  <2>. QED
    BY <1>1, <1>3, <1>4, <2>1, ChainWaits DEF Types
<1>6. Types'
  <2>1. /\ source' \in [Promises -> Deferreds \union {Nothing}]
        /\ handles' \in [Promises -> SUBSET Outcomes]
    BY <1>1, <1>4 DEF Types
  <2>2. /\ waiting' \in [Deferreds -> Seq(Promises)] /\ tasks' \in Seq(Promises)
    <3>1. Append(waiting[d], p) \in Seq(Promises) /\ Append(tasks, p) \in Seq(Promises)
      <4>1. waiting[d] \in Seq(Promises) /\ tasks \in Seq(Promises)
        BY <1>1 DEF Types
      <4>. QED
        BY <4>1
    <3>. QED
      BY <3>1, <1>1, <1>4 DEF Types
  <2>. QED
    BY <1>1, <1>4, <2>1, <2>2 DEF Types
<1>. QED
  BY <1>4, <1>5, <1>6 DEF IInv

\* A request is begun: its hook, if it has one, runs above it.
LEMMA ajaxKeeps ==
  ASSUME IInv, NEW r \in Requests, ajax(r)
  PROVE  IInv'
<1> DEFINE f == Frame("send", r, Nothing)
           sending == <<f>> \o stack
<1>1. stack # <<>> /\ Top.at = "code" /\ stack \in Seq(Frames) /\ GoodStack(stack, state)
  BY DEF ajax, Coding, Running, Top, IInv, Types
<1>2. Pushable(stack, state)
  BY <1>1, AtFrame DEF Pushable
<1>3. f \in Frames /\ PlainFrame(f) /\ f.at = "send" /\ f.of = r
  BY FrameKinds DEF Frame
<1>. HIDE DEF f
<1>4. /\ sending \in Seq(Frames) /\ Len(sending) = Len(stack) + 1 /\ sending[1] = f
      /\ GoodStack(sending, state) /\ Handling(sending) \subseteq Handling(stack)
      /\ Len(stack) \in Nat /\ Len(stack) >= 1
  BY <1>1, <1>2, <1>3, Pushed, PlainPushed, AtFrame
<1>5. UNCHANGED <<state, lists, waiting, source, handles, tasks>>
      /\ stack' = IF BeforeSend[r] = Nothing THEN sending ELSE <<Code(BeforeSend[r])>> \o sending
  BY DEF ajax, chains, f
<1>. HIDE DEF sending
<1>6. CASE BeforeSend[r] = Nothing
  BY <1>4, <1>5, <1>6, OnlyStack DEF IInv, Types
<1>7. CASE BeforeSend[r] # Nothing
  <2> DEFINE h == BeforeSend[r]
             t == <<Code(h)>> \o sending
  <2>1. h \in Hooks /\ h \in Cbs /\ h \notin Promises
    BY <1>7, AjaxAssumption, DeferredAssumption DEF Hooks
  <2>2. Code(h) \in Frames /\ Code(h).at = "code" /\ Code(h).of = h
    BY <2>1 DEF Code, Frame, Frames
  <2>. HIDE DEF h
  <2>3. /\ t \in Seq(Frames) /\ Len(t) = Len(sending) + 1 /\ t[1] = Code(h)
        /\ \A i \in 2..(Len(sending) + 1) : t[i] = sending[i - 1]
    BY <2>2, <1>4, Pushed
  <2>. HIDE DEF t
  <2>4. Len(sending) \in Nat /\ Len(sending) >= 2
    BY <1>4
  <2>5. t[2] = f /\ t[Len(t)] = sending[Len(sending)] /\ t[Len(t) - 1] = sending[Len(sending) - 1]
    BY <2>3, <2>4, <1>4
  <2>6. Placed(t, 1, state)
    BY <2>1, <2>2, <2>3, <2>4, <2>5, <1>3 DEF Placed
  <2>7. ASSUME NEW i \in 2..Len(t) PROVE Placed(t, i, state)
    <3>1. i - 1 \in 1..Len(sending) /\ t[i] = sending[i - 1] /\ Placed(sending, i - 1, state)
      BY <2>3, <2>4, <1>4 DEF GoodStack
    <3>2. i - 1 < Len(sending) => t[i + 1] = sending[i]
      BY <3>1, <2>3, <2>4
    <3>3. sending[i - 1].at = "code" =>
            /\ t[i] = Code(t[i].of)
            /\ t[i].of \in Promises => i = Len(t) - 1 /\ t[Len(t)] = Frame("task", t[i].of, Nothing)
            /\ t[i].of \in Hooks => i < Len(t) /\ t[i + 1].at = "send"
      BY <3>1, <3>2, <2>3, <2>4, <2>5 DEF Placed
    <3>4. sending[i - 1].at = "task" =>
            /\ i = Len(t) /\ t[i].of \in Promises /\ t[i] = Frame("task", t[i].of, Nothing)
            /\ t[Len(t) - 1] = Code(t[i].of) \/ state[t[i].of] # "pending"
      BY <3>1, <2>3, <2>4, <2>5 DEF Placed
    <3>. QED
      BY <3>1, <3>3, <3>4 DEF Placed
  <2>8. Handling(t) \subseteq Handling(stack)
    BY <1>4, <2>3, <2>4, <2>5 DEF Handling
  <2>9. \A i \in 1..Len(t) : i = 1 \/ i \in 2..Len(t)
    BY <2>3, <2>4
  <2>10. GoodStack(t, state)
    BY <2>6, <2>7, <2>9 DEF GoodStack
  <2>11. stack' = t
    BY <1>5, <1>7 DEF t, h
  <2>. QED
    BY <1>5, <2>3, <2>8, <2>10, <2>11, OnlyStack DEF IInv, Types
<1>. QED
  BY <1>6, <1>7

\* abort, below the code that called it.
LEMMA abortKeeps ==
  ASSUME IInv, NEW r \in Requests, abort(r)
  PROVE  IInv'
<1>1. stack # <<>> /\ Top.at = "code" /\ stack \in Seq(Frames) /\ GoodStack(stack, state)
  BY DEF abort, Coding, Running, Top, IInv, Types
<1>2. Pushable(stack, state)
  BY <1>1, AtFrame DEF Pushable
<1>. QED
  BY <1>1, <1>2, Closes DEF abort, Outcomes

\* The hook cancels the request below it.
LEMMA hookRefusesKeeps ==
  ASSUME IInv, hookRefuses
  PROVE  IInv'
<1>1. stack # <<>> /\ Top.at = "code" /\ Top.of \in Hooks
  BY DEF hookRefuses, Coding, Running, Top
<1>2. /\ Top = stack[1] /\ Placed(stack, 1, state) /\ stack \in Seq(Frames)
      /\ Tail(stack) \in Seq(Frames) /\ GoodStack(Tail(stack), state)
      /\ Handling(Tail(stack)) \subseteq Handling(stack)
  BY <1>1, AtFrame DEF IInv, Types
<1>3. Len(stack) > 1 /\ stack[2].at = "send"
  BY <1>1, <1>2 DEF Placed
<1>4. Len(Tail(stack)) = Len(stack) - 1 /\ Tail(stack)[1] = stack[2] /\ Len(stack) \in Nat
  BY <1>1, <1>2, <1>3, Popped
<1>5. Tail(stack) # <<>> /\ Head(Tail(stack)) = stack[2]
  BY <1>2, <1>3, <1>4, Popped
<1>6. Placed(Tail(stack), 1, state)
  BY <1>2, <1>3, <1>4 DEF GoodStack
<1>7. stack[2].of \in Requests
  BY <1>3, <1>4, <1>6 DEF Placed
<1>8. /\ Tail(Tail(stack)) \in Seq(Frames) /\ GoodStack(Tail(Tail(stack)), state)
      /\ Handling(Tail(Tail(stack))) \subseteq Handling(stack)
      /\ Pushable(Tail(Tail(stack)), state)
  BY <1>2, <1>3, <1>5, FramePopped
<1>. QED
  BY <1>7, <1>8, Closes DEF hookRefuses, Outcomes

\* The callbacks given to the request are added: none of them is a hook.
LEMMA sendKeeps ==
  ASSUME IInv, send
  PROVE  IInv'
<1>1. stack # <<>> /\ Top.at = "send"
  BY DEF send, Running, Top
<1>2. /\ Top = stack[1] /\ Placed(stack, 1, state)
      /\ Tail(stack) \in Seq(Frames) /\ GoodStack(Tail(stack), state)
      /\ Handling(Tail(stack)) \subseteq Handling(stack)
      /\ Pushable(Tail(stack), state)
  BY <1>1, AtFrame
<1>3. Top.of \in Requests /\ Top.of \in Deferreds
  BY <1>1, <1>2, AjaxAssumption DEF Placed
<1>4. UNCHANGED <<state, waiting, source, handles, tasks>>
  BY DEF send, chains
<1>5. CASE phase[Top.of] = "closed"
  <2>1. stack' = Tail(stack) /\ lists' = lists
    BY <1>5 DEF send
  <2>. QED
    BY <1>2, <1>4, <2>1, OnlyStack DEF IInv, Types
<1>6. CASE phase[Top.of] # "closed"
  <2> DEFINE r == Top.of
             f == Frame("sent", r, Nothing)
  <2>1. /\ lists' = [lists EXCEPT ![r] =
              [k \in Kinds |-> IF Given[k][r] # Nothing THEN add(@[k], Given[k][r]) ELSE @[k]]]
        /\ stack' = <<f>> \o Tail(stack)
    BY <1>6 DEF send
  <2>2. f \in Frames /\ PlainFrame(f)
    BY <1>3, FrameKinds
  <2>. HIDE DEF f
  <2>3. stack' \in Seq(Frames) /\ GoodStack(stack', state) /\ Handling(stack') \subseteq Handling(stack)
    BY <1>2, <2>1, <2>2, PlainPushed
  <2>4. ASSUME NEW k \in Kinds, Given[k][r] # Nothing PROVE Given[k][r] \in Plain
    <3>1. Given[k] \in [Requests -> Cbs \union {Nothing}]
      BY AjaxAssumption DEF Given, Kinds
    <3>2. Given[k][r] \in Cbs /\ Given[k][r] \in Range(Given[k])
      BY <3>1, <2>4, <1>3 DEF Range
    <3>3. Given[k][r] \notin Hooks
      BY <3>2, AjaxAssumption
    <3>. QED
      BY <3>2, <3>3 DEF Plain
  <2>5. \A k \in Kinds : lists[r][k] \in Lists(Plain)
    BY <1>3 DEF IInv, Types
  <2>6. \A k \in Kinds : Given[k][r] # Nothing => add(lists[r][k], Given[k][r]) \in Lists(Plain)
    BY <2>4, <2>5, ListKept
  <2>7. lists' \in [Deferreds -> [Kinds -> Lists(Plain)]]
    BY <1>3, <2>1, <2>5, <2>6 DEF IInv, Types
  <2>. QED
    BY <1>4, <2>3, <2>7, OnlyStack
<1>. QED
  BY <1>5, <1>6

\* The browser throws, and the request ends in an error.
LEMMA sendThrowsKeeps ==
  ASSUME IInv, sendThrows
  PROVE  IInv'
<1>1. stack # <<>> /\ Top.at = "sent"
  BY DEF sendThrows, Running, Top
<1>2. /\ Top.of \in Requests
      /\ Tail(stack) \in Seq(Frames) /\ GoodStack(Tail(stack), state)
      /\ Handling(Tail(stack)) \subseteq Handling(stack)
      /\ Pushable(Tail(stack), state)
  BY <1>1, AtFrame DEF Placed
<1>. QED
  BY <1>2, Closes DEF sendThrows, Outcomes

\* An answer or a timeout, with nothing on the stack.
LEMMA ClosedByBrowser ==
  ASSUME IInv, NEW r \in Requests, Answer(r) \/ Timeout(r)
  PROVE  IInv'
<1>1. <<>> \in Seq(Frames) /\ GoodStack(<<>>, state) /\ Pushable(<<>>, state) /\ Handling(<<>>) = {}
  BY DEF GoodStack, Pushable, Handling
<1>2. PICK k \in Outcomes : close(r, k, <<>>) /\ UNCHANGED <<source, handles>>
  BY DEF Answer, Timeout, Outcomes
<1>. QED
  BY <1>1, <1>2, Closes

\* The complete callbacks begin.
LEMMA completeKeeps ==
  ASSUME IInv, complete
  PROVE  IInv'
<1> DEFINE r == Top.of
           f == Frame("list", r, "complete")
           g == Frame("completed", r, Nothing)
<1>1. stack # <<>> /\ Top.at = "completing"
  BY DEF complete, Running, Top
<1>2. /\ r \in Requests /\ r \in Deferreds
      /\ Tail(stack) \in Seq(Frames) /\ GoodStack(Tail(stack), state)
      /\ Handling(Tail(stack)) \subseteq Handling(stack)
      /\ Pushable(Tail(stack), state)
  BY <1>1, AtFrame, AjaxAssumption DEF Placed
<1>3. /\ f \in Frames /\ PlainFrame(f) /\ g \in Frames /\ PlainFrame(g) /\ g.at # "task"
  BY <1>2, FrameKinds DEF Kinds, Frame
<1>4. stack' = <<f>> \o (<<g>> \o Tail(stack)) /\ UNCHANGED <<state, waiting, source, handles, tasks>>
      /\ lists' = [lists EXCEPT ![r]["complete"] = fire(@)]
  BY DEF complete, chains
<1>. HIDE DEF f, g, r
<1>5. stack' \in Seq(Frames) /\ GoodStack(stack', state) /\ Handling(stack') \subseteq Handling(stack)
  <2>1. /\ <<g>> \o Tail(stack) \in Seq(Frames) /\ GoodStack(<<g>> \o Tail(stack), state)
        /\ Handling(<<g>> \o Tail(stack)) \subseteq Handling(stack)
        /\ Pushable(<<g>> \o Tail(stack), state)
    BY <1>2, <1>3, PlainPushed
  <2>. QED
    BY <1>3, <1>4, <2>1, PlainPushed
<1>6. lists' \in [Deferreds -> [Kinds -> Lists(Plain)]]
  <2>1. lists[r]["complete"] \in Lists(Plain)
    BY <1>2 DEF IInv, Types, Kinds
  <2>2. fire(lists[r]["complete"]) \in Lists(Plain)
    BY <2>1, ListKept
  <2>. QED
    BY <1>2, <1>4, <2>2 DEF IInv, Types, Kinds
<1>. QED
  BY <1>4, <1>5, <1>6, OnlyStack

\* The other steps that only take the innermost frame away.
LEMMA popKeeps ==
  ASSUME IInv, stack # <<>>, stack' = Tail(stack),
         UNCHANGED <<state, lists, waiting, source, handles, tasks>>
  PROVE  IInv'
  BY AtFrame, OnlyStack DEF IInv, Types

\* A callback of a list runs: it is neither a hook nor a handler of then.
LEMMA fireNextKeeps ==
  ASSUME IInv, fireNext
  PROVE  IInv'
<1> DEFINE d == Top.of
           k == Top.kind
           c == nextCallback(lists[d][k])
<1>1. stack # <<>> /\ Top.at = "list" /\ More(lists[d][k])
  BY DEF fireNext, Running, Top
<1>2. d \in Deferreds /\ k \in Kinds /\ stack \in Seq(Frames) /\ GoodStack(stack, state)
      /\ Len(stack) \in Nat /\ Top = stack[1]
  BY <1>1, AtFrame DEF Placed, IInv, Types
<1>3. /\ lists' = [lists EXCEPT ![d][k] = advance(@)] /\ stack' = <<Code(c)>> \o stack
      /\ UNCHANGED <<state, waiting, source, handles, tasks>>
  BY DEF fireNext, chains
<1>4. c \in Plain /\ advance(lists[d][k]) \in Lists(Plain)
  <2>1. lists[d][k] \in Lists(Plain)
    BY <1>2 DEF IInv, Types
  <2>. QED
    BY <1>1, <2>1, NextInList
<1>. HIDE DEF c, d, k
<1>5. Pushable(stack, state)
  BY <1>1, <1>2 DEF Pushable
<1>6. stack' \in Seq(Frames) /\ GoodStack(stack', state) /\ Handling(stack') \subseteq Handling(stack)
  BY <1>2, <1>3, <1>4, <1>5, FrameKinds, PlainPushed
<1>7. lists' \in [Deferreds -> [Kinds -> Lists(Plain)]]
  BY <1>2, <1>3, <1>4 DEF IInv, Types
<1>. QED
  BY <1>3, <1>6, <1>7, OnlyStack

\* A pass ends.
LEMMA fireEndKeeps ==
  ASSUME IInv, fireEnd
  PROVE  IInv'
<1> DEFINE d == Top.of
           k == Top.kind
<1>1. stack # <<>> /\ Top.at = "list"
  BY DEF fireEnd, Running, Top
<1>2. /\ d \in Deferreds /\ k \in Kinds
      /\ Tail(stack) \in Seq(Frames) /\ GoodStack(Tail(stack), state)
      /\ Handling(Tail(stack)) \subseteq Handling(stack)
  BY <1>1, AtFrame DEF Placed
<1>3. /\ lists' = [lists EXCEPT ![d][k] = endPass(@)] /\ stack' = Tail(stack)
      /\ UNCHANGED <<state, waiting, source, handles, tasks>>
  BY DEF fireEnd, chains
<1>. HIDE DEF d, k
<1>4. lists' \in [Deferreds -> [Kinds -> Lists(Plain)]]
  <2>1. lists[d][k] \in Lists(Plain)
    BY <1>2 DEF IInv, Types
  <2>2. endPass(lists[d][k]) \in Lists(Plain)
    BY <2>1, ListKept
  <2>. QED
    BY <1>2, <1>3, <2>2 DEF IInv, Types
<1>. QED
  BY <1>2, <1>3, <1>4, OnlyStack

\* A handler of then that is about to return is all there is above its task, and its
\* promise has nothing else to wait for.
LEMMA AtHandler ==
  ASSUME IInv, Coding, Top.of \in Promises
  PROVE  /\ Tail(stack) = <<Frame("task", Top.of, Nothing)>>
         /\ Top.of \in Deferreds /\ Top.of \in Handling(stack)
         /\ Decided(state, source, Top.of) /\ state[Top.of] = "pending"
         /\ ~InSeq(Top.of, tasks)
         /\ \A e \in Deferreds : ~InSeq(Top.of, waiting[e])
         /\ \A k \in Outcomes : state[source[Top.of]] = Outcome[k] => k \in handles[Top.of]
         /\ Handling(Tail(stack)) = {}
         /\ Tail(stack) \in Seq(Frames) /\ GoodStack(Tail(stack), state)
<1> DEFINE p == Top.of
<1>1. stack # <<>> /\ Top.at = "code"
  BY DEF Coding, Running, Top
<1>2. /\ Top = stack[1] /\ Placed(stack, 1, state) /\ stack \in Seq(Frames)
      /\ Tail(stack) \in Seq(Frames) /\ GoodStack(Tail(stack), state)
      /\ Len(stack) \in Nat /\ Len(stack) >= 1
  BY <1>1, AtFrame DEF IInv, Types
<1>3. /\ stack[1] = Code(p) /\ 1 = Len(stack) - 1
      /\ stack[Len(stack)] = Frame("task", p, Nothing)
  BY <1>1, <1>2 DEF Placed
<1>4. Len(stack) = 2
  <2>1. \A n \in Nat : 1 = n - 1 => n = 2
    OBVIOUS
  <2>. QED
    BY <1>2, <1>3, <2>1
<1>5. Len(Tail(stack)) = 1 /\ Tail(stack)[1] = Frame("task", p, Nothing)
  <2>1. /\ Len(Tail(stack)) = Len(stack) - 1
        /\ \A i \in 1..(Len(stack) - 1) : Tail(stack)[i] = stack[i + 1]
    BY <1>1, <1>2, Popped
  <2>2. stack[2] = Frame("task", p, Nothing)
    BY <1>3, <1>4
  <2>. QED
    BY <2>1, <2>2, <1>4
<1>6. Tail(stack) = <<Frame("task", p, Nothing)>>
  <2>1. p \in Deferreds \union Cbs \union {Nothing}
    BY DeferredAssumption
  <2>2. Frame("task", p, Nothing) \in Frames
    BY <2>1 DEF Frame, Frames
  <2>. QED
    BY <1>2, <1>5, <2>2, Single
<1>7. p \in Handling(stack)
  BY <1>3, <1>4 DEF Handling
<1>8. Handling(Tail(stack)) = {}
  BY <1>5 DEF Handling
<1>9. Chained(state, source, handles, waiting, tasks, Handling(stack))
  BY DEF IInv
<1>10. /\ Decided(state, source, p) /\ state[p] = "pending" /\ ~InSeq(p, tasks)
       /\ \A k \in Outcomes : state[source[p]] = Outcome[k] => k \in handles[p]
  BY <1>7, <1>9 DEF Chained
<1>11. \A e \in Deferreds : ~InSeq(p, waiting[e])
  BY <1>9, <1>10 DEF Chained, Decided
<1>. QED
  BY <1>2, <1>6, <1>7, <1>8, <1>10, <1>11, DeferredAssumption

\* The code returns: a handler's promise is resolved.
LEMMA returnKeeps ==
  ASSUME IInv, return
  PROVE  IInv'
<1>1. Coding /\ stack # <<>>
  BY DEF return, Coding, Running
<1>2. CASE Top.of \in Promises
  <2>1. /\ settle(Top.of, "done", Tail(stack)) /\ UNCHANGED <<source, handles>>
    BY <1>2 DEF return
  <2>2. Chained(state, source, handles, waiting, tasks, Handling(Tail(stack)))
    BY <1>1, <1>2, AtHandler, FewerRunning DEF IInv
  <2>. QED
    BY <1>1, <1>2, <2>1, <2>2, AtHandler, Settles DEF IInv, Outcomes
<1>3. CASE Top.of \notin Promises
  <2>1. stack' = Tail(stack) /\ UNCHANGED <<state, lists, waiting, source, handles, tasks>>
    BY <1>3 DEF return, chains
  <2>. QED
    BY <1>1, <2>1, popKeeps
<1>. QED
  BY <1>2, <1>3

\* A handler returns a promise: its own is to follow that one, or is rejected if they
\* are the same.
LEMMA returnPromiseKeeps ==
  ASSUME IInv, NEW e \in Known, returnPromise(e)
  PROVE  IInv'
<1> DEFINE p == Top.of
<1>1. Coding /\ stack # <<>> /\ p \in Promises /\ e \in Deferreds
  BY KnownDeferreds DEF returnPromise, Coding, Running
<1>2. Chained(state, source, handles, waiting, tasks, Handling(Tail(stack)))
  BY <1>1, AtHandler, FewerRunning DEF IInv
<1>3. CASE e = p
  <2>1. settle(p, "fail", Tail(stack)) /\ UNCHANGED <<source, handles>>
    BY <1>3 DEF returnPromise
  <2>. QED
    BY <1>1, <1>2, <2>1, AtHandler, Settles DEF IInv, Outcomes
<1>4. CASE e # p
  <2>1. /\ source' = [source EXCEPT ![p] = e]
        /\ IF state[e] = "pending"
             THEN waiting' = [waiting EXCEPT ![e] = Append(@, p)] /\ tasks' = tasks
             ELSE tasks' = Append(tasks, p) /\ waiting' = waiting
        /\ handles' = [handles EXCEPT ![p] = {}]
        /\ stack' = Tail(stack) /\ UNCHANGED <<state, lists>>
    BY <1>4 DEF returnPromise, waitFor
  <2>2. /\ Types /\ Handling(Tail(stack)) = {} /\ state[p] = "pending" /\ ~InSeq(p, tasks)
        /\ \A d \in Deferreds : ~InSeq(p, waiting[d])
        /\ Tail(stack) \in Seq(Frames) /\ GoodStack(Tail(stack), state)
    BY <1>1, AtHandler DEF IInv
  <2>. HIDE DEF p
  <2>3. Chained(state, [source EXCEPT ![p] = e], handles', waiting', tasks', Handling(Tail(stack)))
    <3>1. \A q \in Promises \ {p} : handles'[q] = handles[q]
      BY <2>1, <2>2 DEF Types
    <3>. QED
      BY <1>1, <1>2, <1>4, <2>1, <2>2, <3>1, ChainWaits DEF Types
  <2>4. Types'
    <3>1. /\ source' \in [Promises -> Deferreds \union {Nothing}]
          /\ handles' \in [Promises -> SUBSET Outcomes]
      BY <1>1, <2>1, <2>2 DEF Types
    <3>2. /\ waiting' \in [Deferreds -> Seq(Promises)] /\ tasks' \in Seq(Promises)
      <4>1. Append(waiting[e], p) \in Seq(Promises) /\ Append(tasks, p) \in Seq(Promises)
        <5>1. waiting[e] \in Seq(Promises) /\ tasks \in Seq(Promises)
          BY <1>1, <2>2 DEF Types
        <5>. QED
          BY <1>1, <5>1
      <4>. QED
        BY <4>1, <1>1, <2>1, <2>2 DEF Types
    <3>. QED
      BY <2>1, <2>2, <3>1, <3>2 DEF Types
  <2>. QED
    BY <2>1, <2>2, <2>3, <2>4 DEF IInv
<1>. QED
  BY <1>3, <1>4

\* A task alone on the stack, and nothing on it.
LEMMA TaskAlone ==
  ASSUME NEW p \in Promises, NEW st
  PROVE  LET task == Frame("task", p, Nothing) IN
         /\ task \in Frames /\ <<task>> \in Seq(Frames) /\ GoodStack(<<task>>, st)
         /\ Handling(<<task>>) = {}
         /\ st[p] # "pending" => Pushable(<<task>>, st)
<1> DEFINE task == Frame("task", p, Nothing)
<1>1. p \in Deferreds \union Cbs \union {Nothing}
  BY DeferredAssumption
<1>2. task \in Frames /\ task.at = "task" /\ task.of = p
  BY <1>1 DEF Frame, Frames
<1>3. <<task>> \in Seq(Frames) /\ Len(<<task>>) = 1 /\ <<task>>[1] = task
  BY <1>2
<1>4. Placed(<<task>>, 1, st)
  BY <1>2, <1>3 DEF Placed
<1>5. \A i \in 1..1 : i = 1
  OBVIOUS
<1>6. GoodStack(<<task>>, st)
  BY <1>3, <1>4, <1>5 DEF GoodStack
<1>7. Handling(<<task>>) = {}
  BY <1>3 DEF Handling
<1>8. st[p] # "pending" => Pushable(<<task>>, st)
  BY <1>2, <1>3 DEF Pushable
<1>. QED
  BY <1>2, <1>3, <1>6, <1>7, <1>8

\* Nothing on the stack.
LEMMA EmptyStack ==
  ASSUME NEW st
  PROVE  <<>> \in Seq(Frames) /\ GoodStack(<<>>, st) /\ Pushable(<<>>, st) /\ Handling(<<>>) = {}
  BY DEF GoodStack, Pushable, Handling

\* The stack is unwound: the promise of the task at the bottom is rejected if its
\* handler threw, and was settled before if something that it ran did.
LEMMA throwKeeps ==
  ASSUME IInv, throw
  PROVE  IInv'
<1> DEFINE bottom == stack[Len(stack)]
           p == bottom.of
<1>1. stack # <<>> /\ Top.at = "code" /\ unwind /\ UNCHANGED <<source, handles>>
  BY DEF throw, Coding, Running, Top
<1>2. /\ Top = stack[1] /\ stack \in Seq(Frames) /\ GoodStack(stack, state)
      /\ Len(stack) \in Nat /\ Len(stack) >= 1
  BY <1>1, AtFrame DEF IInv, Types
<1>3. CASE bottom.at = "task"
  <2>1. Placed(stack, Len(stack), state) /\ Len(stack) # 1
    BY <1>1, <1>2, <1>3 DEF GoodStack
  <2>2. Len(stack) >= 2
    <3>1. \A n \in Nat : n >= 1 /\ n # 1 => n >= 2
      OBVIOUS
    <3>. QED
      BY <1>2, <2>1, <3>1
  <2>3. /\ p \in Promises /\ bottom = Frame("task", p, Nothing)
        /\ stack[Len(stack) - 1] = Code(p) \/ state[p] # "pending"
    BY <1>3, <2>1, <2>2 DEF Placed
  <2>4. settle(p, "fail", <<bottom>>)
    BY <1>1, <1>3 DEF unwind
  <2>5. state[p] = "pending" => p \in Handling(stack)
    BY <2>2, <2>3 DEF Handling
  <2>. HIDE DEF bottom
  <2>6. /\ <<bottom>> \in Seq(Frames) /\ GoodStack(<<bottom>>, state) /\ Handling(<<bottom>>) = {}
    BY <2>3, TaskAlone
  <2>7. Chained(state, source, handles, waiting, tasks, Handling(<<bottom>>))
    BY <2>6, FewerRunning DEF IInv
  <2>8. state[p] = "pending" =>
          /\ Decided(state, source, p) /\ ~InSeq(p, tasks)
          /\ \A j \in Outcomes : state[source[p]] = Outcome[j] => j \in handles[p]
    BY <2>3, <2>5 DEF IInv, Chained
  <2>. QED
    BY <1>1, <2>3, <2>4, <2>6, <2>7, <2>8, DeferredAssumption, Settles DEF IInv, Outcomes
<1>4. CASE bottom.at # "task"
  <2>1. stack' = <<>> /\ UNCHANGED <<state, lists, waiting, tasks>>
    BY <1>1, <1>4 DEF unwind
  <2>. QED
    BY <1>1, <2>1, EmptyStack, OnlyStack DEF IInv, Types
<1>. QED
  BY <1>3, <1>4

\* A task of then: the handler runs, or the promise comes to what its source has.
LEMMA runTaskKeeps ==
  ASSUME IInv, runTask
  PROVE  IInv'
<1> DEFINE p == Head(tasks)
           k == IF state[source[p]] = "resolved" THEN "done" ELSE "fail"
           task == Frame("task", p, Nothing)
<1>1. /\ stack = <<>> /\ tasks # <<>> /\ tasks \in Seq(Promises)
      /\ state \in [Deferreds -> States] /\ waiting \in [Deferreds -> Seq(Promises)]
      /\ source \in [Promises -> Deferreds \union {Nothing}]
      /\ Chained(state, source, handles, waiting, tasks, {})
  BY EmptyStack DEF runTask, Idle, IInv, Types
<1>2. p \in Promises /\ Tail(tasks) \in Seq(Promises)
  BY <1>1, Popped
<1>3. InSeq(p, tasks) /\ ~InSeq(p, Tail(tasks))
  <2>1. Distinct(tasks)
    BY <1>1 DEF Chained
  <2>. QED
    BY <1>1, <2>1, PoppedDistinct
<1>4. Decided(state, source, p) /\ state[p] = "pending" /\ p \in Deferreds
  BY <1>1, <1>2, <1>3, DeferredAssumption DEF Chained
<1>5. k \in Outcomes /\ \A j \in Outcomes : state[source[p]] = Outcome[j] <=> j = k
  <2>1. state[source[p]] \in {"resolved", "rejected"}
    BY <1>1, <1>4 DEF Decided, States
  <2>. QED
    BY <2>1 DEF Outcomes, Outcome
<1>6. UNCHANGED <<source, handles>>
  BY DEF runTask
<1>7. CASE k \in handles[p]
  <2>1. stack' = <<Code(p), task>> /\ tasks' = Tail(tasks) /\ UNCHANGED <<state, lists, waiting>>
    BY <1>7 DEF runTask
  <2> DEFINE s == <<Code(p), task>>
  <2>2. /\ Code(p) \in Frames /\ Code(p).at = "code" /\ Code(p).of = p
        /\ task \in Frames /\ task.at = "task" /\ task.of = p
    BY <1>4, TaskAlone, <1>2 DEF Code, Frame, Frames
  <2>3. s \in Seq(Frames) /\ Len(s) = 2 /\ s[1] = Code(p) /\ s[2] = task
    BY <2>2
  <2>4. p \notin Hooks
    BY <1>4, AjaxAssumption, DeferredAssumption DEF Hooks
  <2>5. Placed(s, 1, state) /\ Placed(s, 2, state)
    BY <1>2, <2>2, <2>3, <2>4 DEF Placed
  <2>6. \A i \in 1..2 : i = 1 \/ i = 2
    OBVIOUS
  <2>7. GoodStack(s, state)
    BY <2>3, <2>5, <2>6 DEF GoodStack
  <2>8. Handling(s) \subseteq {p}
    BY <2>2, <2>3 DEF Handling, Frame
  <2>. HIDE DEF s, task
  <2>9. Chained(state, source, handles, waiting, Tail(tasks), Handling(s))
    BY <1>1, <1>5, <1>7, <2>8, TaskTaken
  <2>. QED
    BY <1>2, <1>6, <2>1, <2>3, <2>7, <2>9 DEF IInv, Types, s, task
<1>8. CASE k \notin handles[p]
  <2> DEFINE f == Frame("list", p, k)
  <2>1. /\ state' = [state EXCEPT ![p] = Outcome[k]]
        /\ lists' = [lists EXCEPT ![p][k] = fire(@), ![p][Other[k]] = disable(@)]
        /\ tasks' = Tail(tasks) \o waiting[p]
        /\ waiting' = [waiting EXCEPT ![p] = <<>>]
        /\ stack' = <<f, task>>
    BY <1>8 DEF runTask
  <2>2. Chained(state, source, handles, waiting, Tail(tasks), {})
    BY <1>1, TaskTaken
  <2>. HIDE DEF k
  <2>3. Chained(state', source', handles', waiting', tasks', {})
    BY <1>1, <1>2, <1>3, <1>4, <1>5, <1>6, <1>8, <2>1, <2>2, ChainSettled
  <2>4. k \in Kinds /\ Other[k] \in Kinds /\ Outcome[k] \in States /\ Outcome[k] # "pending"
    BY <1>5 DEF Outcomes, Kinds, Other, Outcome, States
  <2>5. state'[p] # "pending"
    BY <1>1, <1>4, <2>1, <2>4
  <2>6. f \in Frames /\ PlainFrame(f)
    BY <1>4, <2>4, FrameKinds
  <2>7. /\ <<task>> \in Seq(Frames) /\ GoodStack(<<task>>, state') /\ Handling(<<task>>) = {}
        /\ Pushable(<<task>>, state')
    BY <1>2, <2>5, TaskAlone
  <2>. HIDE DEF f, task
  <2>8. stack' = <<f>> \o <<task>>
    BY <2>1
  <2>9. stack' \in Seq(Frames) /\ GoodStack(stack', state') /\ Handling(stack') = {}
    BY <2>6, <2>7, <2>8, PlainPushed
  <2>10. lists' \in [Deferreds -> [Kinds -> Lists(Plain)]]
    <3>1. \A l \in Lists(Plain) : fire(l) \in Lists(Plain) /\ disable(l) \in Lists(Plain)
      BY ListKept
    <3>. QED
      BY <1>4, <2>1, <2>4, <3>1 DEF IInv, Types
  <2>11. /\ state' \in [Deferreds -> States]
         /\ waiting' \in [Deferreds -> Seq(Promises)]
         /\ tasks' \in Seq(Promises)
    BY <1>1, <1>2, <1>4, <2>1, <2>4, ConcatProperties
  <2>. QED
    BY <1>6, <2>3, <2>9, <2>10, <2>11 DEF IInv, Types
<1>. QED
  BY <1>7, <1>8

\* A script runs, and it is no hook.
LEMMA ScriptKeeps ==
  ASSUME IInv, NEW c \in Scripts, Script(c)
  PROVE  IInv'
<1> DEFINE f == Code(c)
<1>1. /\ stack' = <<f>>
      /\ UNCHANGED <<state, lists, waiting, source, handles, tasks>>
  BY DEF Script, chains
<1>2. f \in Frames /\ PlainFrame(f)
  <2>1. c \in Plain
    BY AjaxAssumption DEF Plain
  <2>. QED
    BY <2>1, FrameKinds
<1>. HIDE DEF f
<1>3. <<f>> \in Seq(Frames)
  BY <1>2
<1>4. <<f>> \o <<>> = <<f>>
  BY <1>3, ConcatEmptySeq
<1>5. /\ <<f>> \o <<>> \in Seq(Frames) /\ GoodStack(<<f>> \o <<>>, state)
      /\ Handling(<<f>> \o <<>>) = {}
  BY <1>2, EmptyStack, PlainPushed
<1>6. stack' \in Seq(Frames) /\ GoodStack(stack', state) /\ Handling(stack') \subseteq Handling(stack)
  BY <1>1, <1>3, <1>4, <1>5
<1>. QED
  BY <1>1, <1>6, OnlyStack DEF IInv, Types

\* The document is ready.
LEMMA readyKeeps ==
  ASSUME IInv, ready
  PROVE  IInv'
<1>1. Chained(state, source, handles, waiting, tasks, Handling(<<>>))
  BY EmptyStack, FewerRunning DEF IInv
<1>. QED
  BY <1>1, EmptyStack, Settles, AjaxAssumption DEF ready, IInv, Outcomes

-----------------------------------------------------------------------------
(* The invariant holds. *)

\* It holds at first,
LEMMA InitHolds == Init => IInv
<1>. SUFFICES ASSUME Init PROVE IInv
  OBVIOUS
<1>1. Types
  <2>1. EmptyList \in Lists(Plain)
    BY DEF EmptyList, Lists
  <2>. QED
    BY <2>1 DEF Init, DeferredInit, Types, States
<1>2. /\ stack = <<>> /\ tasks = <<>> /\ \A d \in Deferreds : waiting[d] = <<>>
      /\ \A p \in Promises : source[p] = Nothing /\ state[p] = "pending"
  BY DeferredAssumption DEF Init, DeferredInit
<1>3. Distinct(<<>>) /\ \A x : ~InSeq(x, <<>>)
  BY DEF Distinct, InSeq
<1>4. \A p \in Promises : source[p] # p
  BY <1>2, DeferredAssumption
<1>5. Chained(state, source, handles, waiting, tasks, {})
  BY <1>2, <1>3, <1>4 DEF Chained
<1>6. GoodStack(stack, state) /\ Handling(stack) = {}
  BY <1>2, EmptyStack
<1>. QED
  BY <1>1, <1>5, <1>6 DEF IInv

\* whatever the page's code does before it returns,
LEMMA ActHolds == IInv /\ Act => IInv'
<1>. SUFFICES ASSUME IInv, Act PROVE IInv'
  OBVIOUS
<1>1. CASE \E d \in Known \ {Dom}, k \in {"done", "fail"}, c \in Free : addCallback(d, k, c)
  <2>1. PICK d \in Known, k \in Outcomes, c \in Free : addCallback(d, k, c)
    BY <1>1 DEF Outcomes
  <2>2. c \in Plain /\ d \in Deferreds
    BY KnownDeferreds DEF Free, Plain
  <2>3. Coding
    BY DEF Act
  <2>. QED
    BY <2>1, <2>2, <2>3, addCallbackKeeps
<1>2. CASE \E d \in Known, p \in Promises, given \in SUBSET {"done", "fail"} : then(d, p, given)
  BY <1>2, thenKeeps DEF Outcomes
<1>3. CASE \E r \in Requests : ajax(r) \/ abort(r)
  BY <1>3, ajaxKeeps, abortKeeps
<1>. QED
  BY <1>1, <1>2, <1>3 DEF Act

\* and whatever the thread does next.
LEMMA ThreadHolds == IInv /\ Thread => IInv'
<1>. SUFFICES ASSUME IInv, Thread PROVE IInv'
  OBVIOUS
<1>1. CASE hookRefuses \/ send \/ sendThrows \/ complete
  BY <1>1, hookRefusesKeeps, sendKeeps, sendThrowsKeeps, completeKeeps
<1>2. CASE sent \/ completed \/ endTask
  <2>1. /\ stack # <<>> /\ stack' = Tail(stack)
        /\ UNCHANGED <<state, lists, waiting, source, handles, tasks>>
    BY <1>2 DEF sent, completed, endTask, Running, chains
  <2>. QED
    BY <2>1, popKeeps
<1>3. CASE fireNext \/ fireEnd \/ return \/ throw \/ runTask
  BY <1>3, fireNextKeeps, fireEndKeeps, returnKeeps, throwKeeps, runTaskKeeps
<1>4. CASE \E e \in Known \ {Dom} : returnPromise(e)
  BY <1>4, returnPromiseKeeps
<1>. QED
  BY <1>1, <1>2, <1>3, <1>4 DEF Thread

\* Every step keeps the invariant.
LEMMA NextHolds == IInv /\ [Next]_vars => IInv'
<1>. SUFFICES ASSUME IInv, [Next]_vars PROVE IInv'
  OBVIOUS
<1>1. CASE Act
  BY <1>1, ActHolds
<1>2. CASE Thread
  BY <1>2, ThreadHolds
<1>3. CASE Events
  BY <1>3, ClosedByBrowser, ScriptKeeps, readyKeeps DEF Events
<1>4. CASE UNCHANGED vars
  BY <1>4 DEF vars, deferredVars, chains, IInv, Types
<1>. QED
  BY <1>1, <1>2, <1>3, <1>4 DEF Next

\* What a promise that is settled has come to agrees with what its source has.
LEMMA InvariantPassesOn == IInv => OutcomesArePassedOn
<1>. SUFFICES ASSUME IInv PROVE OutcomesArePassedOn
  OBVIOUS
<1>1. DOMAIN Outcome = Outcomes
  BY DEF Outcome, Outcomes
<1>2. Chained(state, source, handles, waiting, tasks, Handling(stack))
  BY DEF IInv
<1>. QED
  BY <1>1, <1>2 DEF OutcomesArePassedOn, Chained

\* No rejection, and no resolution, is lost on its way along a chain of promises
\* (resolve and process in deferred.then), whatever the page's code does, throws or
\* returns.
THEOREM OutcomesPassedOn == Spec => []OutcomesArePassedOn
  BY InitHolds, NextHolds, InvariantPassesOn, PTL DEF Spec

-----------------------------------------------------------------------------
(* What the lists have run. *)

\* The history and the requests' phases, which the invariant above does not need.
History ==
  /\ added \in [Deferreds -> [Kinds -> Seq(Cbs)]]
  /\ ran \in [Deferreds -> [Kinds -> Seq(Cbs)]]
  /\ phase \in [Requests -> {"new", "hook", "open", "closed"}]
  /\ started \subseteq Scripts

\* What is left of the list s behind the index n is what was added (a) behind what has run
\* (r), which is the beginning of a.
Rest(s, n, a, r) ==
  /\ n <= Len(s) /\ n + Len(a) = Len(r) + Len(s)
  /\ \A i \in 1..Len(r) : r[i] = a[i]
  /\ \A i \in 1..Len(s), j \in 1..Len(a) : i > n /\ i + Len(r) = j + n => s[i] = a[j]

\* A list l, what was added to it (a) and what of that has run (r): all of it waits until
\* the list is fired; in a pass, or behind an exception that cut it off, what is left in
\* the list is the rest of what was added; and nothing is left after a pass.
InStep(l, a, r) ==
  IF l.fired
    THEN /\ ~l.disabled /\ Rest(l.list, l.index, a, r)
         /\ ~l.firing => l.list = <<>> /\ l.index = 0
    ELSE /\ ~l.firing /\ l.index = 0 /\ r = <<>>
         /\ l.list = IF l.disabled THEN <<>> ELSE a

\* Nothing has run yet, or everything has,
LEMMA RestBegins ==
  ASSUME NEW S, NEW a \in Seq(S)
  PROVE  Rest(a, 0, a, <<>>) /\ Rest(<<>>, 0, a, a)
<1>1. Len(a) \in Nat /\ Len(<<>>) = 0
  OBVIOUS
<1>2. Rest(a, 0, a, <<>>)
  BY <1>1 DEF Rest
<1>3. Rest(<<>>, 0, a, a)
  BY <1>1 DEF Rest
<1>. QED
  BY <1>2, <1>3

\* something is added at the end,
LEMMA RestAdded ==
  ASSUME NEW S, NEW s \in Seq(S), NEW a \in Seq(S), NEW r \in Seq(S), NEW n \in Nat,
         NEW c \in S, Rest(s, n, a, r)
  PROVE  Rest(Append(s, c), n, Append(a, c), r)
<1> DEFINE b == Append(a, c)
           t == Append(s, c)
<1>1. /\ Len(b) = Len(a) + 1 /\ b[Len(a) + 1] = c /\ \A i \in 1..Len(a) : b[i] = a[i]
      /\ Len(t) = Len(s) + 1 /\ t[Len(s) + 1] = c /\ \A i \in 1..Len(s) : t[i] = s[i]
      /\ Len(a) \in Nat /\ Len(s) \in Nat /\ Len(r) \in Nat
      /\ b \in Seq(S) /\ t \in Seq(S)
  OBVIOUS
<1>2. n <= Len(s) /\ n + Len(a) = Len(r) + Len(s) /\ \A i \in 1..Len(r) : r[i] = a[i]
  BY DEF Rest
<1>. HIDE DEF b, t
<1>3. n <= Len(t) /\ n + Len(b) = Len(r) + Len(t)
  <2>1. \A x, y, z \in Nat : n <= z /\ n + x = y + z => n <= z + 1 /\ n + (x + 1) = y + (z + 1)
    OBVIOUS
  <2>2. n <= Len(s) + 1 /\ n + (Len(a) + 1) = Len(r) + (Len(s) + 1)
    BY <1>1, <1>2, <2>1
  <2>. QED
    BY <1>1, <2>2
<1>4. \A i \in 1..Len(r) : r[i] = b[i]
  <2>1. Len(r) <= Len(a)
    BY <1>1, <1>2
  <2>2. \A i \in 1..Len(r) : i \in 1..Len(a)
    BY <1>1, <2>1
  <2>. QED
    BY <1>1, <1>2, <2>2
<1>5. ASSUME NEW i \in 1..Len(t), NEW j \in 1..Len(b), i > n, i + Len(r) = j + n
      PROVE  t[i] = b[j]
  <2>1. CASE i <= Len(s)
    <3>1. i \in 1..Len(s) /\ j \in 1..Len(a)
      BY <1>1, <1>2, <1>5, <2>1
    <3>. QED
      BY <1>1, <1>5, <3>1 DEF Rest
  <2>2. CASE ~(i <= Len(s))
    <3>1. i = Len(s) + 1 /\ j = Len(a) + 1
      BY <1>1, <1>2, <1>5, <2>2
    <3>. QED
      BY <1>1, <3>1
  <2>. QED
    BY <2>1, <2>2
<1>6. Rest(t, n, b, r)
  BY <1>3, <1>4, <1>5 DEF Rest
<1>. QED
  BY <1>6 DEF b, t

\* the next one runs,
LEMMA RestRuns ==
  ASSUME NEW S, NEW s \in Seq(S), NEW a \in Seq(S), NEW r \in Seq(S), NEW n \in Nat,
         Rest(s, n, a, r), n < Len(s)
  PROVE  Rest(s, n + 1, a, Append(r, s[n + 1]))
<1> DEFINE c == s[n + 1]
           q == Append(r, c)
<1>1. Len(a) \in Nat /\ Len(s) \in Nat /\ Len(r) \in Nat /\ c \in S
  <2>1. n + 1 \in 1..Len(s)
    OBVIOUS
  <2>. QED
    BY <2>1, ElementOfSeq
<1>2. n <= Len(s) /\ n + Len(a) = Len(r) + Len(s) /\ \A i \in 1..Len(r) : r[i] = a[i]
  BY DEF Rest
<1>3. c = a[Len(r) + 1]
  <2>1. n + 1 \in 1..Len(s) /\ Len(r) + 1 \in 1..Len(a) /\ n + 1 > n
        /\ (n + 1) + Len(r) = (Len(r) + 1) + n
    BY <1>1, <1>2
  <2>. QED
    BY <2>1 DEF Rest
<1>. HIDE DEF c
<1>4. /\ q \in Seq(S) /\ Len(q) = Len(r) + 1 /\ q[Len(r) + 1] = c
      /\ \A i \in 1..Len(r) : q[i] = r[i]
  BY <1>1
<1>. HIDE DEF q
<1>5. \A i \in 1..Len(q) : q[i] = a[i]
  <2>1. \A i \in 1..Len(q) : i \in 1..Len(r) \/ i = Len(r) + 1
    BY <1>1, <1>4
  <2>2. ASSUME NEW i \in 1..Len(r) PROVE q[i] = a[i]
    BY <1>2, <1>4
  <2>3. q[Len(r) + 1] = a[Len(r) + 1]
    BY <1>3, <1>4
  <2>. QED
    BY <2>1, <2>2, <2>3
<1>6. n + 1 <= Len(s) /\ (n + 1) + Len(a) = Len(q) + Len(s)
  <2>1. n + 1 <= Len(s) /\ (n + 1) + Len(a) = (Len(r) + 1) + Len(s)
    BY <1>1, <1>2
  <2>. QED
    BY <1>4, <2>1
<1>7. ASSUME NEW i \in 1..Len(s), NEW j \in 1..Len(a), i > n + 1, i + Len(q) = j + (n + 1)
      PROVE  s[i] = a[j]
  <2>1. i > n /\ i + Len(r) = j + n
    <3>1. i + (Len(r) + 1) = j + (n + 1)
      BY <1>4, <1>7
    <3>2. \A x \in Nat : i > n + 1 /\ i + (x + 1) = j + (n + 1) => i > n /\ i + x = j + n
      OBVIOUS
    <3>. QED
      BY <1>1, <1>7, <3>1, <3>2
  <2>. QED
    BY <2>1 DEF Rest
<1>8. Rest(s, n + 1, a, q)
  BY <1>5, <1>6, <1>7 DEF Rest
<1>. QED
  BY <1>8 DEF c, q

\* and when none is left, everything has run.
LEMMA RestEnds ==
  ASSUME NEW S, NEW s \in Seq(S), NEW a \in Seq(S), NEW r \in Seq(S), NEW n \in Nat,
         Rest(s, n, a, r), ~(n < Len(s))
  PROVE  r = a
<1>1. n <= Len(s) /\ n + Len(a) = Len(r) + Len(s) /\ \A i \in 1..Len(r) : r[i] = a[i]
  BY DEF Rest
<1>2. Len(a) = Len(r)
  <2>1. Len(a) \in Nat /\ Len(s) \in Nat /\ Len(r) \in Nat
    OBVIOUS
  <2>. QED
    BY <1>1, <2>1
<1>. QED
  BY <1>1, <1>2, SeqEqual

\* What the lists are made of.
LEMMA ListFields ==
  ASSUME NEW l \in Lists(Plain)
  PROVE  /\ l.list \in Seq(Cbs) /\ l.index \in Nat /\ Len(l.list) \in Nat
         /\ l.fired \in BOOLEAN /\ l.firing \in BOOLEAN /\ l.disabled \in BOOLEAN
<1>1. l.list \in Seq(Plain) /\ Plain \subseteq Cbs
  BY DEF Lists, Plain
<1>2. l.list \in Seq(Cbs)
  BY <1>1
<1>. QED
  BY <1>1, <1>2 DEF Lists

\* A callback is added.
LEMMA InStepAdd ==
  ASSUME NEW l \in Lists(Plain), NEW a \in Seq(Cbs), NEW r \in Seq(Cbs), NEW c \in Plain,
         InStep(l, a, r)
  PROVE  InStep(add(l, c), Append(a, c), r)
<1> DEFINE b == Append(a, c)
           m == add(l, c)
<1>1. /\ l.list \in Seq(Cbs) /\ l.index \in Nat /\ c \in Cbs
      /\ l.fired \in BOOLEAN /\ l.firing \in BOOLEAN /\ l.disabled \in BOOLEAN
  BY ListFields DEF Plain
<1>2. CASE l.disabled
  BY <1>1, <1>2 DEF add, InStep
<1>3. CASE ~l.disabled /\ ~l.fired
  <2>1. /\ m.list = Append(l.list, c) /\ m.index = l.index /\ ~m.firing
        /\ ~m.fired /\ ~m.disabled
    BY <1>3 DEF add, Lists
  <2>2. l.list = a /\ l.index = 0 /\ r = <<>>
    BY <1>3 DEF InStep
  <2>. QED
    BY <2>1, <2>2 DEF InStep
<1>4. CASE ~l.disabled /\ l.fired
  <2>1. /\ m.list = Append(l.list, c) /\ m.firing /\ m.fired /\ ~m.disabled
        /\ m.index = IF l.firing THEN l.index ELSE Len(l.list)
    BY <1>4 DEF add, Lists
  <2>2. m.index = l.index
    BY <1>4, <2>1 DEF InStep
  <2>3. Rest(l.list, l.index, a, r)
    BY <1>4 DEF InStep
  <2>4. Rest(Append(l.list, c), l.index, b, r)
    BY <1>1, <2>3, RestAdded
  <2>. QED
    BY <2>1, <2>2, <2>4 DEF InStep
<1>. QED
  BY <1>2, <1>3, <1>4

\* The list is fired, or disabled, for the first time.
LEMMA InStepFire ==
  ASSUME NEW l \in Lists(Plain), NEW a \in Seq(Cbs), NEW r \in Seq(Cbs),
         InStep(l, a, r), ~l.fired
  PROVE  /\ ~l.disabled => InStep(fire(l), a, r)
         /\ InStep(disable(l), a, r)
<1>1. ASSUME ~l.disabled PROVE InStep(fire(l), a, r)
  <2>1. /\ fire(l).list = a /\ fire(l).index = 0 /\ fire(l).fired
        /\ fire(l).firing /\ ~fire(l).disabled /\ r = <<>>
    BY <1>1 DEF fire, Lists, InStep
  <2>. QED
    BY <2>1, RestBegins DEF InStep
<1>2. InStep(disable(l), a, r)
  <2>1. /\ disable(l).list = <<>> /\ disable(l).index = 0 /\ ~disable(l).fired
        /\ ~disable(l).firing /\ disable(l).disabled /\ r = <<>>
    BY DEF disable, Lists, InStep
  <2>. QED
    BY <2>1 DEF InStep
<1>. QED
  BY <1>1, <1>2

\* A callback runs.
LEMMA InStepNext ==
  ASSUME NEW l \in Lists(Plain), NEW a \in Seq(Cbs), NEW r \in Seq(Cbs),
         InStep(l, a, r), l.firing, More(l)
  PROVE  InStep(advance(l), a, Append(r, nextCallback(l)))
<1> DEFINE m == advance(l)
<1>1. l.list \in Seq(Cbs) /\ l.index \in Nat /\ l.index < Len(l.list) /\ l.fired /\ ~l.disabled
  BY ListFields DEF More, InStep
<1>2. m.list = l.list /\ m.index = l.index + 1 /\ m.fired /\ m.firing /\ ~m.disabled
  BY <1>1 DEF advance, Lists
<1>3. Rest(l.list, l.index, a, r)
  BY <1>1 DEF InStep
<1>4. Rest(l.list, l.index + 1, a, Append(r, l.list[l.index + 1]))
  BY <1>1, <1>3, RestRuns
<1>. QED
  BY <1>2, <1>4 DEF InStep, nextCallback

\* A pass ends: everything that was added has run.
LEMMA InStepEnd ==
  ASSUME NEW l \in Lists(Plain), NEW a \in Seq(Cbs), NEW r \in Seq(Cbs),
         InStep(l, a, r), l.firing, ~More(l)
  PROVE  InStep(endPass(l), a, r) /\ r = a
<1> DEFINE m == endPass(l)
<1>1. l.list \in Seq(Cbs) /\ l.index \in Nat /\ ~(l.index < Len(l.list)) /\ l.fired /\ ~l.disabled
  BY ListFields DEF More, InStep
<1>2. Rest(l.list, l.index, a, r)
  BY <1>1 DEF InStep
<1>3. r = a
  BY <1>1, <1>2, RestEnds
<1>4. m.list = <<>> /\ m.index = 0 /\ m.fired /\ ~m.firing /\ ~m.disabled
  BY <1>1 DEF endPass, Lists
<1>5. Rest(<<>>, 0, a, a)
  BY RestBegins
<1>. QED
  BY <1>3, <1>4, <1>5 DEF InStep

\* A list that was fired and is not in a pass has run everything, in order.
LEMMA InStepRan ==
  ASSUME NEW l \in Lists(Plain), NEW a \in Seq(Cbs), NEW r \in Seq(Cbs), InStep(l, a, r)
  PROVE  /\ r = SubSeq(a, 1, Len(r))
         /\ r # <<>> => l.fired
         /\ l.fired /\ ~l.firing => r = a
<1>1. l.list \in Seq(Cbs) /\ l.index \in Nat /\ Len(l.list) \in Nat
  BY ListFields
<1>2. l.fired /\ ~l.firing => r = a
  <2>1. SUFFICES ASSUME l.fired, ~l.firing PROVE r = a
    OBVIOUS
  <2>2. Rest(<<>>, 0, a, r)
    BY <2>1 DEF InStep
  <2>3. <<>> \in Seq(Cbs) /\ ~(0 < Len(<<>>)) /\ 0 \in Nat
    OBVIOUS
  <2>. QED
    BY <2>2, <2>3, RestEnds
<1>3. Len(r) <= Len(a) /\ \A i \in 1..Len(r) : r[i] = a[i]
  <2>1. CASE l.fired
    <3>1. Rest(l.list, l.index, a, r)
      BY <2>1 DEF InStep
    <3>2. /\ l.index <= Len(l.list) /\ l.index + Len(a) = Len(r) + Len(l.list)
          /\ \A i \in 1..Len(r) : r[i] = a[i]
      BY <3>1 DEF Rest
    <3>3. Len(a) \in Nat /\ Len(r) \in Nat
      OBVIOUS
    <3>. QED
      BY <1>1, <3>2, <3>3
  <2>2. CASE ~l.fired
    BY <2>2 DEF InStep
  <2>. QED
    BY <2>1, <2>2
<1>4. r = SubSeq(a, 1, Len(r))
  <2>1. Len(a) \in Nat /\ Len(r) \in Nat
    OBVIOUS
  <2>2. /\ SubSeq(a, 1, Len(r)) \in Seq(Cbs) /\ Len(SubSeq(a, 1, Len(r))) = Len(r)
        /\ \A i \in 1..Len(r) : SubSeq(a, 1, Len(r))[i] = a[i]
    BY <1>3, <2>1
  <2>. QED
    BY <1>3, <2>2, SeqEqual
<1>. QED
  BY <1>2, <1>4 DEF InStep

-----------------------------------------------------------------------------
(* The passes that are under way, and the requests that end. *)

ListFrame(d, k) == Frame("list", d, k)
Completing(r) == Frame("completing", r, Nothing)
Completed(r) == Frame("completed", r, Nothing)

Ends == {"list", "completing", "completed"}

\* No such frame is on the stack twice.
Once(s) == \A i, j \in 1..Len(s) : s[i] = s[j] /\ s[i].at \in Ends => i = j

\* A pass is over a list that is firing.  A request being completed is closed and its
\* complete callbacks are still to come; only a pass over a list of its own is above it.
\* A request that is completed has only its complete callbacks above it, and they have
\* that below them.  Until then any pass over another list of the request is further up.
\* A request being sent was begun.
Ending(s, i, ls, ph) ==
  /\ s[i].at = "list" =>
       s[i].of \in Deferreds /\ s[i].kind \in Kinds /\ ls[s[i].of][s[i].kind].firing
  /\ s[i].at = "completing" =>
       /\ s[i] = Completing(s[i].of) /\ s[i].of \in Requests
       /\ ph[s[i].of] = "closed" /\ ~ls[s[i].of]["complete"].fired
       /\ i > 1 => s[i - 1].at = "list" /\ s[i - 1].of = s[i].of
  /\ s[i].at = "completed" =>
       /\ s[i] = Completed(s[i].of) /\ s[i].of \in Requests
       /\ ph[s[i].of] = "closed" /\ ls[s[i].of]["complete"].fired
       /\ IF i = 1 THEN ~ls[s[i].of]["complete"].firing
                   ELSE s[i - 1] = ListFrame(s[i].of, "complete")
  /\ s[i].at = "list" /\ s[i].kind = "complete" =>
       s[i].of \in Requests /\ i < Len(s) /\ s[i + 1] = Completed(s[i].of)
  /\ s[i].at = "completing" \/ (s[i].at = "list" /\ s[i].kind = "complete") =>
       \A k \in Outcomes : ls[s[i].of][k].firing =>
         \E j \in 1..Len(s) : j < i /\ s[j] = ListFrame(s[i].of, k)
  /\ s[i].at \in {"send", "sent"} => s[i].of \in Requests /\ ph[s[i].of] # "new"

Passes(s, ls, ph) == Once(s) /\ \A i \in 1..Len(s) : Ending(s, i, ls, ph)

\* Anything may be pushed on s: no request that ends is on top.
Open(s) == Len(s) >= 1 => s[1].at \notin {"completing", "completed"}

\* The frames are what they are made of.
LEMMA FrameFields ==
  /\ \A d, k : ListFrame(d, k).at = "list" /\ ListFrame(d, k).of = d /\ ListFrame(d, k).kind = k
  /\ \A r : Completing(r).at = "completing" /\ Completing(r).of = r
  /\ \A r : Completed(r).at = "completed" /\ Completed(r).of = r
  /\ \A f \in Frames : f.at = "list" => f = ListFrame(f.of, f.kind)
  BY DEF ListFrame, Completing, Completed, Frame, Frames

\* What is on a stack when a frame was pushed,
LEMMA InPushed ==
  ASSUME NEW S, NEW s \in Seq(S), NEW f \in S
  PROVE  \A x : InSeq(x, <<f>> \o s) <=> x = f \/ InSeq(x, s)
<1> DEFINE t == <<f>> \o s
<1>1. /\ Len(t) = Len(s) + 1 /\ Len(s) \in Nat /\ t[1] = f
      /\ \A i \in 2..(Len(s) + 1) : t[i] = s[i - 1]
  BY Pushed, LenProperties
<1>. HIDE DEF t
<1>2. ASSUME NEW x, InSeq(x, t) PROVE x = f \/ InSeq(x, s)
  <2>1. PICK i \in 1..Len(t) : t[i] = x
    BY <1>2 DEF InSeq
  <2>2. i # 1 => i - 1 \in 1..Len(s) /\ s[i - 1] = x
    BY <1>1, <2>1
  <2>. QED
    BY <1>1, <2>1, <2>2 DEF InSeq
<1>3. InSeq(f, t)
  BY <1>1 DEF InSeq
<1>4. ASSUME NEW x, InSeq(x, s) PROVE InSeq(x, t)
  <2>1. PICK i \in 1..Len(s) : s[i] = x
    BY <1>4 DEF InSeq
  <2>2. i + 1 \in 1..Len(t) /\ t[i + 1] = x
    BY <1>1, <2>1
  <2>. QED
    BY <2>2 DEF InSeq
<1>. QED
  BY <1>2, <1>3, <1>4 DEF t

\* and when it was popped.
LEMMA InPopped ==
  ASSUME NEW S, NEW s \in Seq(S), s # <<>>
  PROVE  \A x : InSeq(x, s) <=> x = s[1] \/ InSeq(x, Tail(s))
<1>1. /\ Len(s) \in Nat /\ Len(s) >= 1 /\ Len(Tail(s)) = Len(s) - 1
      /\ \A i \in 1..(Len(s) - 1) : Tail(s)[i] = s[i + 1]
  BY Popped
<1>2. ASSUME NEW x, InSeq(x, s) PROVE x = s[1] \/ InSeq(x, Tail(s))
  <2>1. PICK i \in 1..Len(s) : s[i] = x
    BY <1>2 DEF InSeq
  <2>2. i # 1 => i - 1 \in 1..(Len(s) - 1) /\ Tail(s)[i - 1] = x
    BY <1>1, <2>1
  <2>. QED
    BY <1>1, <2>1, <2>2 DEF InSeq
<1>3. InSeq(s[1], s)
  BY <1>1 DEF InSeq
<1>4. ASSUME NEW x, InSeq(x, Tail(s)) PROVE InSeq(x, s)
  <2>1. PICK i \in 1..(Len(s) - 1) : Tail(s)[i] = x
    BY <1>1, <1>4 DEF InSeq
  <2>2. i + 1 \in 1..Len(s) /\ s[i + 1] = x
    BY <1>1, <2>1
  <2>. QED
    BY <2>2 DEF InSeq
<1>. QED
  BY <1>2, <1>3, <1>4

\* A frame f may be on top of s: a request that ends has what it ends with above it.
Fits(f, s) ==
  Len(s) >= 1 =>
    /\ s[1].at = "completing" => f.at = "list" /\ f.of = s[1].of
    /\ s[1].at = "completed" => f = ListFrame(s[1].of, "complete")

\* When f is pushed on s, the lists (ls) and phases (ph) may change (to ls2, ph2), but what is
\* in s keeps what it needs.
Kept(s, f, ls, ls2, ph, ph2) ==
  /\ \A d \in Deferreds, k \in Kinds : InSeq(ListFrame(d, k), s) => ls2[d][k].firing
  /\ \A r \in Requests :
       /\ InSeq(Completing(r), s) => ph2[r] = "closed" /\ ~ls2[r]["complete"].fired
       /\ InSeq(Completed(r), s) => ph2[r] = "closed" /\ ls2[r]["complete"].fired
       /\ ph[r] # "new" => ph2[r] # "new"
       /\ \A k \in Outcomes : ls2[r][k].firing =>
            \/ ls[r][k].firing \/ f = ListFrame(r, k)
            \/ ~InSeq(Completing(r), s) /\ ~InSeq(ListFrame(r, "complete"), s)

\* A frame is pushed; the lists and phases may change at the same time, but what is on the
\* stack keeps what it needs.
LEMMA PassPushed ==
  ASSUME NEW s \in Seq(Frames), NEW f \in Frames, NEW ls, NEW ls2, NEW ph, NEW ph2,
         Passes(s, ls, ph), Fits(f, s), f.at \in Ends => ~InSeq(f, s),
         Ending(<<f>> \o s, 1, ls2, ph2),
         Kept(s, f, ls, ls2, ph, ph2)
  PROVE  Passes(<<f>> \o s, ls2, ph2)
<1> DEFINE t == <<f>> \o s
<1>1. /\ t \in Seq(Frames) /\ Len(t) = Len(s) + 1 /\ Len(s) \in Nat /\ t[1] = f
      /\ \A i \in 2..(Len(s) + 1) : t[i] = s[i - 1]
  BY Pushed, LenProperties
<1>2. Ending(t, 1, ls2, ph2)
  OBVIOUS
<1>. HIDE DEF t
<1>3. \A i \in 1..Len(t) : i = 1 \/ (i \in 2..Len(t) /\ i - 1 \in 1..Len(s) /\ t[i] = s[i - 1] /\ s[i - 1] \in Frames)
  BY <1>1, ElementOfSeq
<1>4. Once(t)
  <2>1. SUFFICES ASSUME NEW i \in 1..Len(t), NEW j \in 1..Len(t), t[i] = t[j], t[i].at \in Ends
                 PROVE  i = j
    BY DEF Once
  <2>2. ASSUME NEW m \in 2..Len(t), t[m] = f, f.at \in Ends PROVE FALSE
    <3>1. m - 1 \in 1..Len(s) /\ s[m - 1] = f
      BY <1>1, <2>2
    <3>2. InSeq(f, s)
      BY <3>1 DEF InSeq
    <3>. QED
      BY <3>2, <2>2
  <2>3. i # 1 /\ j # 1 => i = j
    <3>1. SUFFICES ASSUME i # 1, j # 1 PROVE i = j
      OBVIOUS
    <3>2. i - 1 \in 1..Len(s) /\ j - 1 \in 1..Len(s) /\ s[i - 1] = s[j - 1] /\ s[i - 1].at \in Ends
      BY <1>3, <2>1, <3>1
    <3>3. i - 1 = j - 1
      BY <3>2 DEF Passes, Once
    <3>. QED
      BY <1>1, <3>3
  <2>. QED
    BY <1>1, <1>3, <2>1, <2>2, <2>3
<1>5. ASSUME NEW i \in 2..Len(t) PROVE Ending(t, i, ls2, ph2)
  <2> DEFINE m == i - 1
             d == s[m].of
  <2>1. m \in 1..Len(s) /\ t[i] = s[m] /\ s[m] \in Frames /\ InSeq(s[m], s) /\ i = m + 1
    BY <1>1, <1>3 DEF InSeq
  <2>. HIDE DEF m
  <2>2. Ending(s, m, ls, ph)
    BY <2>1 DEF Passes
  <2>3. m > 1 => i > 1 /\ t[i - 1] = s[m - 1]
    BY <1>1, <2>1
  <2>4. m < Len(s) => i < Len(t) /\ t[i + 1] = s[m + 1]
    BY <1>1, <2>1
  <2>5. m = 1 => t[i - 1] = f /\ Len(s) >= 1
    BY <1>1, <2>1
  <2>6. s[m].at = "list" => d \in Deferreds /\ s[m].kind \in Kinds /\ ls2[d][s[m].kind].firing
    <3>1. SUFFICES ASSUME s[m].at = "list"
                   PROVE  d \in Deferreds /\ s[m].kind \in Kinds /\ ls2[d][s[m].kind].firing
      OBVIOUS
    <3>2. d \in Deferreds /\ s[m].kind \in Kinds
      BY <2>2, <3>1 DEF Ending
    <3>3. InSeq(ListFrame(d, s[m].kind), s)
      BY <2>1, <3>1, FrameFields
    <3>. QED
      BY <3>2, <3>3 DEF Kept
  <2>7. s[m].at = "completing" =>
          /\ s[m] = Completing(d) /\ d \in Requests
          /\ ph2[d] = "closed" /\ ~ls2[d]["complete"].fired
          /\ t[i - 1].at = "list" /\ t[i - 1].of = d
    <3>1. SUFFICES ASSUME s[m].at = "completing"
                   PROVE  /\ s[m] = Completing(d) /\ d \in Requests
                          /\ ph2[d] = "closed" /\ ~ls2[d]["complete"].fired
                          /\ t[i - 1].at = "list" /\ t[i - 1].of = d
      OBVIOUS
    <3>2. s[m] = Completing(d) /\ d \in Requests /\ (m > 1 => s[m - 1].at = "list" /\ s[m - 1].of = d)
      BY <2>2, <3>1 DEF Ending
    <3>3. m = 1 => f.at = "list" /\ f.of = d
      BY <2>5, <3>1 DEF Fits
    <3>4. m = 1 \/ m > 1
      BY <2>1
    <3>. QED
      BY <2>1, <2>3, <2>5, <3>2, <3>3, <3>4 DEF Kept
  <2>8. s[m].at = "completed" =>
          /\ s[m] = Completed(d) /\ d \in Requests
          /\ ph2[d] = "closed" /\ ls2[d]["complete"].fired
          /\ t[i - 1] = ListFrame(d, "complete")
    <3>1. SUFFICES ASSUME s[m].at = "completed"
                   PROVE  /\ s[m] = Completed(d) /\ d \in Requests
                          /\ ph2[d] = "closed" /\ ls2[d]["complete"].fired
                          /\ t[i - 1] = ListFrame(d, "complete")
      OBVIOUS
    <3>2. m = 1 \/ m > 1
      BY <2>1
    <3>3. s[m] = Completed(d) /\ d \in Requests /\ (m > 1 => s[m - 1] = ListFrame(d, "complete"))
      BY <2>2, <3>1, <3>2 DEF Ending
    <3>4. m = 1 => f = ListFrame(d, "complete")
      BY <2>5, <3>1 DEF Fits
    <3>. QED
      BY <2>1, <2>3, <2>5, <3>2, <3>3, <3>4 DEF Kept
  <2>9. s[m].at = "list" /\ s[m].kind = "complete" =>
          d \in Requests /\ i < Len(t) /\ t[i + 1] = Completed(d)
    BY <2>2, <2>4 DEF Ending
  <2>10. ASSUME s[m].at = "completing" \/ (s[m].at = "list" /\ s[m].kind = "complete"),
                NEW k \in Outcomes, ls2[d][k].firing
         PROVE  \E j \in 1..Len(t) : j < i /\ t[j] = ListFrame(d, k)
    <3>1. /\ d \in Requests
          /\ InSeq(Completing(d), s) \/ InSeq(ListFrame(d, "complete"), s)
      BY <2>1, <2>2, <2>10, FrameFields DEF Ending
    <3>2. CASE f = ListFrame(d, k)
      <4>1. 1 \in 1..Len(t) /\ 1 < i
        BY <1>1
      <4>. QED
        BY <1>1, <3>2, <4>1
    <3>3. CASE ls[d][k].firing
      <4>1. PICK j \in 1..Len(s) : j < m /\ s[j] = ListFrame(d, k)
        BY <2>2, <2>10, <3>3 DEF Ending
      <4>2. j + 1 \in 1..Len(t) /\ j + 1 < i /\ t[j + 1] = s[j]
        BY <1>1, <2>1, <4>1
      <4>. QED
        BY <4>1, <4>2
    <3>. QED
      BY <2>10, <3>1, <3>2, <3>3 DEF Kept
  <2>11. s[m].at \in {"send", "sent"} => d \in Requests /\ ph2[d] # "new"
    BY <2>2 DEF Ending, Kept
  <2>12. i # 1
    BY <1>1
  <2>. QED
    BY <2>1, <2>6, <2>7, <2>8, <2>9, <2>10, <2>11, <2>12 DEF Ending
<1>6. Passes(t, ls2, ph2)
  BY <1>2, <1>3, <1>4, <1>5 DEF Passes
<1>. QED
  BY <1>6 DEF t

\* A frame is popped, and with it a pass ends.
LEMMA PassPopped ==
  ASSUME NEW s \in Seq(Frames), s # <<>>, NEW ls, NEW ls2, NEW ph,
         Passes(s, ls, ph),
         \A d \in Deferreds, k \in Kinds : InSeq(ListFrame(d, k), Tail(s)) => ls2[d][k].firing,
         \A r \in Requests :
           /\ ls2[r]["complete"].fired <=> ls[r]["complete"].fired
           /\ \A k \in Kinds : ls2[r][k].firing => ls[r][k].firing /\ s[1] # ListFrame(r, k)
  PROVE  /\ Passes(Tail(s), ls2, ph)
         /\ s[1].at # "list" => Open(Tail(s))
<1> DEFINE t == Tail(s)
<1>1. /\ t \in Seq(Frames) /\ Len(t) = Len(s) - 1 /\ Len(s) \in Nat /\ Len(s) >= 1
      /\ \A i \in 1..(Len(s) - 1) : t[i] = s[i + 1]
  BY Popped
<1>. HIDE DEF t
<1>2. \A i \in 1..Len(t) : i + 1 \in 1..Len(s) /\ t[i] = s[i + 1] /\ t[i] \in Frames /\ InSeq(t[i], t)
  BY <1>1, ElementOfSeq DEF InSeq
<1>3. Once(t)
  <2>1. SUFFICES ASSUME NEW i \in 1..Len(t), NEW j \in 1..Len(t), t[i] = t[j], t[i].at \in Ends
                 PROVE  i = j
    BY DEF Once
  <2>2. i + 1 \in 1..Len(s) /\ j + 1 \in 1..Len(s) /\ s[i + 1] = s[j + 1] /\ s[i + 1].at \in Ends
    BY <1>2, <2>1
  <2>3. i + 1 = j + 1
    BY <2>2 DEF Passes, Once
  <2>. QED
    BY <1>1, <2>3
<1>4. ASSUME NEW i \in 1..Len(t) PROVE Ending(t, i, ls2, ph)
  <2> DEFINE m == i + 1
  <2>1. m \in 1..Len(s) /\ t[i] = s[m] /\ s[m] \in Frames /\ InSeq(s[m], t) /\ i = m - 1 /\ m > 1
    BY <1>1, <1>2
  <2>. HIDE DEF m
  <2>2. Ending(s, m, ls, ph)
    BY <2>1 DEF Passes
  <2>3. i > 1 => t[i - 1] = s[m - 1]
    BY <1>1, <2>1
  <2>4. m < Len(s) => i < Len(t) /\ t[i + 1] = s[m + 1]
    BY <1>1, <2>1
  <2>5. i = 1 => m - 1 = 1
    BY <2>1
  <2>6. s[m].at = "list" =>
          s[m].of \in Deferreds /\ s[m].kind \in Kinds /\ ls2[s[m].of][s[m].kind].firing
    <3>1. SUFFICES ASSUME s[m].at = "list"
                   PROVE  /\ s[m].of \in Deferreds /\ s[m].kind \in Kinds
                          /\ ls2[s[m].of][s[m].kind].firing
      OBVIOUS
    <3>2. s[m].of \in Deferreds /\ s[m].kind \in Kinds
      BY <2>2, <3>1 DEF Ending
    <3>3. InSeq(ListFrame(s[m].of, s[m].kind), Tail(s))
      BY <2>1, <3>1, FrameFields DEF t
    <3>. QED
      BY <3>2, <3>3
  <2>7. s[m].at = "completing" =>
          /\ s[m] = Completing(s[m].of) /\ s[m].of \in Requests
          /\ ph[s[m].of] = "closed" /\ ~ls2[s[m].of]["complete"].fired
          /\ i > 1 => t[i - 1].at = "list" /\ t[i - 1].of = s[m].of
    BY <2>1, <2>2, <2>3 DEF Ending
  <2>8. s[m].at = "completed" =>
          /\ s[m] = Completed(s[m].of) /\ s[m].of \in Requests
          /\ ph[s[m].of] = "closed" /\ ls2[s[m].of]["complete"].fired
          /\ IF i = 1 THEN ~ls2[s[m].of]["complete"].firing
                      ELSE t[i - 1] = ListFrame(s[m].of, "complete")
    <3>1. SUFFICES ASSUME s[m].at = "completed"
                   PROVE  IF i = 1 THEN ~ls2[s[m].of]["complete"].firing
                                   ELSE t[i - 1] = ListFrame(s[m].of, "complete")
      BY <2>2 DEF Ending
    <3>2. s[m - 1] = ListFrame(s[m].of, "complete") /\ s[m].of \in Requests
      BY <2>1, <2>2, <3>1 DEF Ending
    <3>3. i # 1 => i > 1
      BY <1>1
    <3>4. "complete" \in Kinds
      BY DEF Kinds
    <3>. QED
      BY <2>3, <2>5, <3>2, <3>3, <3>4
  <2>9. s[m].at = "list" /\ s[m].kind = "complete" =>
          s[m].of \in Requests /\ i < Len(t) /\ t[i + 1] = Completed(s[m].of)
    BY <2>2, <2>4 DEF Ending
  <2>10. ASSUME s[m].at = "completing" \/ (s[m].at = "list" /\ s[m].kind = "complete"),
                NEW k \in Outcomes, ls2[s[m].of][k].firing
         PROVE  \E j \in 1..Len(t) : j < i /\ t[j] = ListFrame(s[m].of, k)
    <3>1. k \in Kinds /\ s[m].of \in Requests
      BY <2>2, <2>10 DEF Ending, Kinds, Outcomes
    <3>2. ls[s[m].of][k].firing /\ s[1] # ListFrame(s[m].of, k)
      BY <2>10, <3>1
    <3>3. PICK j \in 1..Len(s) : j < m /\ s[j] = ListFrame(s[m].of, k)
      BY <2>2, <2>10, <3>2 DEF Ending
    <3>4. j # 1
      BY <3>2, <3>3
    <3>5. j - 1 \in 1..Len(t) /\ j - 1 < i /\ t[j - 1] = s[j]
      BY <1>1, <2>1, <3>3, <3>4
    <3>. QED
      BY <3>3, <3>5
  <2>11. s[m].at \in {"send", "sent"} => s[m].of \in Requests /\ ph[s[m].of] # "new"
    BY <2>2 DEF Ending
  <2>. QED
    BY <2>1, <2>6, <2>7, <2>8, <2>9, <2>10, <2>11 DEF Ending
<1>5. ASSUME s[1].at # "list" PROVE Open(t)
  <2>1. SUFFICES ASSUME Len(t) >= 1, t[1].at \in {"completing", "completed"} PROVE FALSE
    BY DEF Open
  <2>2. 2 \in 1..Len(s) /\ t[1] = s[2] /\ Ending(s, 2, ls, ph)
    BY <1>1, <2>1 DEF Passes
  <2>3. s[1].at = "list"
    BY <2>1, <2>2, FrameFields DEF Ending
  <2>. QED
    BY <1>5, <2>3
<1>. QED
  BY <1>3, <1>4, <1>5 DEF Passes, t

-----------------------------------------------------------------------------
(* The second inductive invariant: lists, passes and requests together. *)

\* The lists of a deferred in the state st.
Linked(st, ls) ==
  /\ \A k \in Outcomes : ls[k].fired <=> st = Outcome[k]
  /\ \A k \in Outcomes : ls[k].disabled <=> st = Outcome[Other[k]]
  /\ ~ls["complete"].disabled

\* All the lists, with what was added to them and what they have run.
Listed(st, ls, a, r) ==
  \A d \in Deferreds :
    /\ Linked(st[d], ls[d])
    /\ \A k \in Kinds : InStep(ls[d][k], a[d][k], r[d][k])

\* A pass over a list of r for its outcome was cut off.
Broken(s, r, ls) == \E k \in Outcomes : ls[r][k].firing /\ ~InSeq(ListFrame(r, k), s)

\* A request is closed when it is settled; its complete callbacks are fired after that, are
\* still to come, or never come, because of an exception.
Ended(s, r, st, ls, ph) ==
  IF ph[r] = "closed"
    THEN /\ st[r] # "pending"
         /\ ~ls[r]["complete"].fired => InSeq(Completing(r), s) \/ Broken(s, r, ls)
    ELSE st[r] = "pending" /\ ~ls[r]["complete"].fired

\* The requests that jQuery.active counts.
Counted(s, ls, ph) ==
  {r \in Requests :
     \/ ph[r] \in {"hook", "open"}
     \/ ph[r] = "closed" /\ (~ls[r]["complete"].fired \/ ls[r]["complete"].firing)
     \/ InSeq(Completed(r), s)}

JInv ==
  /\ History
  /\ Listed(state, lists, added, ran)
  /\ Passes(stack, lists, phase)
  /\ \A r \in Requests : Ended(stack, r, state, lists, phase)
  /\ IsFiniteSet(Counted(stack, lists, phase))
  /\ active = Cardinality(Counted(stack, lists, phase))

\* The lists are what Types says.
LEMMA ListTypes ==
  ASSUME Types, History, NEW d \in Deferreds, NEW k \in Kinds
  PROVE  /\ lists[d][k] \in Lists(Plain) /\ added[d][k] \in Seq(Cbs) /\ ran[d][k] \in Seq(Cbs)
         /\ lists[d][k].fired \in BOOLEAN /\ lists[d][k].firing \in BOOLEAN
         /\ lists[d][k].disabled \in BOOLEAN
<1>1. lists[d][k] \in Lists(Plain) /\ added[d][k] \in Seq(Cbs) /\ ran[d][k] \in Seq(Cbs)
  BY DEF Types, History
<1>. QED
  BY <1>1, ListFields

\* The kinds of lists, and the outcomes.
LEMMA KindFacts ==
  /\ "complete" \in Kinds /\ Outcomes \subseteq Kinds /\ "complete" \notin Outcomes
  /\ Kinds = Outcomes \union {"complete"}
  /\ \A k \in Outcomes : /\ Other[k] \in Outcomes /\ Other[k] # k /\ Other[Other[k]] = k
                         /\ Outcome[k] \in States /\ Outcome[k] # "pending"
                         /\ Outcome[k] # Outcome[Other[k]]
                         /\ \A j \in Outcomes : j = k \/ j = Other[k]
  /\ \A st \in States : st = "pending" \/ \E k \in Outcomes : st = Outcome[k]
  BY DEF Kinds, Outcomes, Other, Outcome, States

\* Settling a pending deferred fires one list and disables the other, and both were waiting.
LEMMA ListsSettle ==
  ASSUME Types, History, Listed(state, lists, added, ran),
         NEW d \in Deferreds, NEW k \in Outcomes, state[d] = "pending",
         state' = [state EXCEPT ![d] = Outcome[k]],
         lists' = [lists EXCEPT ![d][k] = fire(@), ![d][Other[k]] = disable(@)]
  PROVE  /\ Listed(state', lists', added, ran)
         /\ ~lists[d][k].firing /\ ~lists[d][Other[k]].firing
         /\ \A e \in Deferreds :
              /\ lists'[e]["complete"] = lists[e]["complete"]
              /\ \A j \in Kinds : lists'[e][j].firing <=> lists[e][j].firing \/ (e = d /\ j = k)
<1> DEFINE o == Other[k]
           l == lists[d][k]
           m == lists[d][o]
<1>1. /\ k \in Kinds /\ o \in Kinds /\ o # k /\ k # "complete" /\ o # "complete"
      /\ Kinds = {k, o, "complete"} /\ Outcomes = {k, o}
  BY KindFacts DEF Kinds, Outcomes, Other
<1>2. /\ lists'[d][k] = fire(l) /\ lists'[d][o] = disable(m)
      /\ lists'[d]["complete"] = lists[d]["complete"]
      /\ \A e \in Deferreds \ {d} : lists'[e] = lists[e]
  <2>1. lists \in [Deferreds -> [Kinds -> Lists(Plain)]]
    BY DEF Types
  <2>. HIDE DEF o
  <2>2. lists' = [lists EXCEPT ![d][k] = fire(@), ![d][o] = disable(@)]
    BY DEF o
  <2>. QED
    BY <1>1, <2>1, <2>2
<1>3. state'[d] = Outcome[k] /\ \A e \in Deferreds \ {d} : state'[e] = state[e]
  BY DEF Types
<1>4. /\ l \in Lists(Plain) /\ m \in Lists(Plain)
      /\ added[d][k] \in Seq(Cbs) /\ ran[d][k] \in Seq(Cbs)
      /\ added[d][o] \in Seq(Cbs) /\ ran[d][o] \in Seq(Cbs)
  BY <1>1, ListTypes
<1>. HIDE DEF o
<1>5. /\ ~l.fired /\ ~m.fired /\ ~l.disabled /\ ~m.disabled /\ ~lists[d]["complete"].disabled
      /\ InStep(l, added[d][k], ran[d][k]) /\ InStep(m, added[d][o], ran[d][o])
  <2>1. Linked("pending", lists[d])
    BY DEF Listed
  <2>. QED
    BY <1>1, <2>1, KindFacts DEF Listed, Linked, o
<1>. HIDE DEF l, m
<1>6. ~l.firing /\ ~m.firing
  BY <1>5 DEF InStep
<1>7. /\ fire(l).fired /\ fire(l).firing /\ ~fire(l).disabled
      /\ ~disable(m).fired /\ ~disable(m).firing /\ disable(m).disabled
  BY <1>4, <1>5, <1>6 DEF fire, disable, Lists
<1>8. InStep(fire(l), added[d][k], ran[d][k]) /\ InStep(disable(m), added[d][o], ran[d][o])
  BY <1>4, <1>5, InStepFire
<1>9. Linked(state'[d], lists'[d])
  <2>1. Outcome[k] # Outcome[o] /\ Other[k] = o /\ Other[o] = k
    BY KindFacts DEF o
  <2>. QED
    BY <1>1, <1>2, <1>3, <1>5, <1>7, <2>1 DEF Linked
<1>10. \A j \in Kinds : InStep(lists'[d][j], added[d][j], ran[d][j])
  <2>1. InStep(lists[d]["complete"], added[d]["complete"], ran[d]["complete"])
    BY <1>1 DEF Listed
  <2>. QED
    BY <1>1, <1>2, <1>8, <2>1
<1>11. \A e \in Deferreds \ {d} : /\ Linked(state'[e], lists'[e])
                                  /\ \A j \in Kinds : InStep(lists'[e][j], added[e][j], ran[e][j])
  BY <1>2, <1>3 DEF Listed
<1>12. Listed(state', lists', added, ran)
  BY <1>9, <1>10, <1>11 DEF Listed
<1>13. ASSUME NEW j \in Kinds PROVE lists'[d][j].firing <=> lists[d][j].firing \/ j = k
  BY <1>1, <1>2, <1>6, <1>7 DEF l, m
<1>. QED
  BY <1>2, <1>6, <1>12, <1>13 DEF l, m, o

\* What the frames on the stack say of the lists and the requests.
LEMMA OnStack ==
  ASSUME NEW s \in Seq(Frames), NEW ls, NEW ph, Passes(s, ls, ph)
  PROVE  /\ \A d \in Deferreds, k \in Kinds : InSeq(ListFrame(d, k), s) => ls[d][k].firing
         /\ \A r \in Requests :
              /\ InSeq(Completing(r), s) => ph[r] = "closed" /\ ~ls[r]["complete"].fired
              /\ InSeq(Completed(r), s) => ph[r] = "closed" /\ ls[r]["complete"].fired
              /\ InSeq(ListFrame(r, "complete"), s) => InSeq(Completed(r), s)
<1>1. ASSUME NEW x, InSeq(x, s)
      PROVE  \E i \in 1..Len(s) : s[i] = x /\ Ending(s, i, ls, ph) /\ Len(s) \in Nat
  BY <1>1 DEF InSeq, Passes
<1>2. ASSUME NEW d \in Deferreds, NEW k \in Kinds, InSeq(ListFrame(d, k), s)
      PROVE  ls[d][k].firing
  BY <1>1, <1>2, FrameFields DEF Ending
<1>3. ASSUME NEW r \in Requests
      PROVE  /\ InSeq(Completing(r), s) => ph[r] = "closed" /\ ~ls[r]["complete"].fired
             /\ InSeq(Completed(r), s) => ph[r] = "closed" /\ ls[r]["complete"].fired
  BY <1>1, FrameFields DEF Ending
<1>4. ASSUME NEW r \in Requests, InSeq(ListFrame(r, "complete"), s) PROVE InSeq(Completed(r), s)
  <2>1. PICK i \in 1..Len(s) : s[i] = ListFrame(r, "complete") /\ Ending(s, i, ls, ph) /\ Len(s) \in Nat
    BY <1>1, <1>4
  <2>2. i < Len(s) /\ s[i + 1] = Completed(r)
    BY <2>1, FrameFields DEF Ending
  <2>3. i + 1 \in 1..Len(s)
    BY <2>1, <2>2
  <2>. QED
    BY <2>2, <2>3 DEF InSeq
<1>. QED
  BY <1>2, <1>3, <1>4

\* A pass, or a request that ends, is taken from the stack, and is no longer on it.
LEMMA TakenOnce ==
  ASSUME NEW s \in Seq(Frames), s # <<>>, NEW ls, NEW ph, Passes(s, ls, ph), s[1].at \in Ends
  PROVE  /\ Tail(s) \in Seq(Frames)
         /\ \A x : InSeq(x, s) <=> x = s[1] \/ InSeq(x, Tail(s))
         /\ ~InSeq(s[1], Tail(s))
<1>1. /\ Tail(s) \in Seq(Frames) /\ Len(Tail(s)) = Len(s) - 1 /\ Len(s) \in Nat /\ Len(s) >= 1
      /\ \A i \in 1..(Len(s) - 1) : Tail(s)[i] = s[i + 1]
  BY Popped
<1>2. \A x : InSeq(x, s) <=> x = s[1] \/ InSeq(x, Tail(s))
  BY InPopped
<1>3. ASSUME InSeq(s[1], Tail(s)) PROVE FALSE
  <2>1. PICK i \in 1..(Len(s) - 1) : s[i + 1] = s[1]
    BY <1>1, <1>3 DEF InSeq
  <2>2. i + 1 \in 1..Len(s) /\ 1 \in 1..Len(s) /\ i + 1 # 1
    BY <1>1
  <2>. QED
    BY <2>1, <2>2 DEF Passes, Once
<1>. QED
  BY <1>1, <1>2, <1>3

\* The stacks s and t hold the same passes and the same requests that end.
Alike(s, t) == \A x : x.at \in Ends => (InSeq(x, s) <=> InSeq(x, t))

\* A frame that is none of them is pushed, or popped.
LEMMA OtherPushed ==
  ASSUME NEW s \in Seq(Frames), NEW f \in Frames, f.at \notin Ends,
         NEW ls, NEW ph, NEW ph2,
         \A r \in Requests : /\ ph[r] = "closed" => ph2[r] = "closed"
                             /\ ph[r] # "new" => ph2[r] # "new",
         f.at \in {"send", "sent"} => f.of \in Requests /\ ph2[f.of] # "new",
         Passes(s, ls, ph), Open(s)
  PROVE  /\ <<f>> \o s \in Seq(Frames) /\ Passes(<<f>> \o s, ls, ph2) /\ Open(<<f>> \o s)
         /\ Alike(s, <<f>> \o s)
<1>1. /\ <<f>> \o s \in Seq(Frames) /\ (<<f>> \o s)[1] = f
      /\ \A x : InSeq(x, <<f>> \o s) <=> x = f \/ InSeq(x, s)
  BY Pushed, InPushed
<1>2. Ending(<<f>> \o s, 1, ls, ph2) /\ Open(<<f>> \o s)
  BY <1>1 DEF Ending, Open, Ends
<1>3. Fits(f, s)
  BY DEF Fits, Open
<1>4. Passes(<<f>> \o s, ls, ph2)
  <2>1. Kept(s, f, ls, ls, ph, ph2)
    BY OnStack DEF Kept
  <2>. QED
    BY <1>2, <1>3, <2>1, PassPushed
<1>5. Alike(s, <<f>> \o s)
  BY <1>1 DEF Alike
<1>. QED
  BY <1>1, <1>2, <1>4, <1>5

\* The same when it is popped: and what is below it may be pushed on.
LEMMA OtherPopped ==
  ASSUME NEW s \in Seq(Frames), s # <<>>, s[1].at \notin Ends, NEW ls, NEW ph,
         Passes(s, ls, ph)
  PROVE  /\ Tail(s) \in Seq(Frames) /\ Passes(Tail(s), ls, ph) /\ Open(Tail(s))
         /\ Alike(s, Tail(s))
<1>1. Tail(s) \in Seq(Frames) /\ \A x : InSeq(x, s) <=> x = s[1] \/ InSeq(x, Tail(s))
  BY Popped, InPopped
<1>2. s[1].at # "list" /\ \A r, k : s[1] # ListFrame(r, k)
  BY FrameFields DEF Ends
<1>3. Passes(Tail(s), ls, ph) /\ Open(Tail(s))
  <2>1. \A d \in Deferreds, k \in Kinds : InSeq(ListFrame(d, k), s) => ls[d][k].firing
    BY OnStack
  <2>. QED
    BY <1>1, <1>2, <2>1, PassPopped
<1>4. Alike(s, Tail(s))
  BY <1>1 DEF Alike
<1>. QED
  BY <1>1, <1>3, <1>4

\* The requests end and are counted alike on such stacks.
LEMMA AlikeEnds ==
  ASSUME NEW s, NEW t, Alike(s, t), NEW st, NEW ls, NEW ph
  PROVE  /\ \A r : Ended(s, r, st, ls, ph) => Ended(t, r, st, ls, ph)
         /\ Counted(t, ls, ph) = Counted(s, ls, ph)
<1>1. \A r : /\ InSeq(Completing(r), s) <=> InSeq(Completing(r), t)
             /\ InSeq(Completed(r), s) <=> InSeq(Completed(r), t)
             /\ \A k : InSeq(ListFrame(r, k), s) <=> InSeq(ListFrame(r, k), t)
  BY FrameFields DEF Alike, Ends
<1>2. \A r : Ended(s, r, st, ls, ph) => Ended(t, r, st, ls, ph)
  BY <1>1 DEF Ended, Broken
<1>3. Counted(t, ls, ph) = Counted(s, ls, ph)
  BY <1>1 DEF Counted
<1>. QED
  BY <1>2, <1>3

\* A step that changes nothing but the stack, and begins or ends no pass.
LEMMA Quiet ==
  ASSUME JInv, UNCHANGED <<state, lists, added, ran, phase, active>>, started' \subseteq Scripts,
         Alike(stack, stack'), Passes(stack', lists, phase)
  PROVE  JInv'
<1>1. History'
  BY DEF JInv, History
<1>2. /\ \A r \in Requests : Ended(stack', r, state, lists, phase)
      /\ Counted(stack', lists, phase) = Counted(stack, lists, phase)
  BY AlikeEnds DEF JInv
<1>. QED
  BY <1>1, <1>2 DEF JInv

\* A pass over a list of d begins on top of rest, where d is settled.
LEMMA PassSettles ==
  ASSUME Types, History, Listed(state, lists, added, ran),
         NEW d \in Deferreds, NEW k \in Outcomes, state[d] = "pending",
         state' = [state EXCEPT ![d] = Outcome[k]],
         lists' = [lists EXCEPT ![d][k] = fire(@), ![d][Other[k]] = disable(@)],
         NEW rest \in Seq(Frames), NEW ph, Passes(rest, lists, ph),
         Open(rest) \/ (Len(rest) >= 1 /\ rest[1] = Completing(d))
  PROVE  Passes(<<ListFrame(d, k)>> \o rest, lists', ph)
<1> DEFINE f == ListFrame(d, k)
<1>1. k \in Kinds /\ k # "complete"
  BY KindFacts
<1>2. f \in Frames /\ f.at = "list" /\ f.of = d /\ f.kind = k
  BY <1>1, FrameKinds, FrameFields DEF ListFrame
<1>3. /\ ~lists[d][k].firing
      /\ \A e \in Deferreds :
           /\ lists'[e]["complete"] = lists[e]["complete"]
           /\ \A j \in Kinds : lists'[e][j].firing <=> lists[e][j].firing \/ (e = d /\ j = k)
  BY ListsSettle
<1>4. /\ \A e \in Deferreds, j \in Kinds : InSeq(ListFrame(e, j), rest) => lists[e][j].firing
      /\ \A r \in Requests :
           /\ InSeq(Completing(r), rest) => ph[r] = "closed" /\ ~lists[r]["complete"].fired
           /\ InSeq(Completed(r), rest) => ph[r] = "closed" /\ lists[r]["complete"].fired
  BY OnStack
<1>5. ~InSeq(f, rest)
  BY <1>1, <1>3, <1>4
<1>6. Fits(f, rest)
  BY <1>2, FrameFields DEF Fits, Open
<1>7. (<<f>> \o rest)[1] = f
  BY <1>2, Pushed
<1>. HIDE DEF f
<1>8. Ending(<<f>> \o rest, 1, lists', ph)
  BY <1>1, <1>2, <1>3, <1>7 DEF Ending
<1>9. Kept(rest, f, lists, lists', ph, ph)
  BY <1>3, <1>4, AjaxAssumption, KindFacts DEF Kept, f
<1>10. f \in Frames /\ (f.at \in Ends => ~InSeq(f, rest))
  BY <1>2, <1>5
<1>11. Passes(<<f>> \o rest, lists', ph)
  BY <1>6, <1>8, <1>9, <1>10, PassPushed
<1>. QED
  BY <1>11 DEF f

\* What settling a deferred does to its state, its lists and the stack.
Settling(d, k, rest) ==
  IF state[d] # "pending"
    THEN stack' = rest /\ UNCHANGED <<state, lists>>
    ELSE /\ state' = [state EXCEPT ![d] = Outcome[k]]
         /\ lists' = [lists EXCEPT ![d][k] = fire(@), ![d][Other[k]] = disable(@)]
         /\ stack' = <<ListFrame(d, k)>> \o rest

\* A deferred that is no request is settled, or was already, and rest is behind it on the
\* stack: the requests end as they did.
LEMMA SettlesOther ==
  ASSUME IInv, JInv, NEW d \in Deferreds \ Requests, NEW k \in Outcomes,
         NEW rest \in Seq(Frames), Settling(d, k, rest),
         UNCHANGED <<added, ran, phase, active, started>>,
         Passes(rest, lists, phase), Open(rest),
         \A r \in Requests : Ended(rest, r, state, lists, phase),
         Counted(rest, lists, phase) = Counted(stack, lists, phase)
  PROVE  JInv'
<1>1. History'
  BY DEF JInv, History
<1>2. CASE state[d] # "pending"
  <2>1. stack' = rest /\ UNCHANGED <<state, lists>>
    BY <1>2 DEF Settling
  <2>. QED
    BY <1>1, <2>1 DEF JInv
<1>3. CASE state[d] = "pending"
  <2> DEFINE f == ListFrame(d, k)
  <2>1. /\ state' = [state EXCEPT ![d] = Outcome[k]]
        /\ lists' = [lists EXCEPT ![d][k] = fire(@), ![d][Other[k]] = disable(@)]
        /\ stack' = <<f>> \o rest
    BY <1>3 DEF Settling
  <2>2. Types /\ History /\ Listed(state, lists, added, ran)
    BY DEF IInv, JInv
  <2>3. /\ Listed(state', lists', added, ran)
        /\ \A e \in Deferreds :
             /\ lists'[e]["complete"] = lists[e]["complete"]
             /\ \A j \in Kinds : lists'[e][j].firing <=> lists[e][j].firing \/ (e = d /\ j = k)
    BY <1>3, <2>1, <2>2, ListsSettle
  <2>4. Passes(stack', lists', phase)
    BY <1>3, <2>1, <2>2, PassSettles
  <2>5. \A r \in Requests : r \in Deferreds /\ r # d /\ state'[r] = state[r]
    BY <2>1, <2>2, AjaxAssumption DEF Types
  <2>6. f \in Frames
    BY KindFacts, FrameKinds DEF ListFrame
  <2>7. \A r \in Requests :
          /\ InSeq(Completing(r), stack') <=> InSeq(Completing(r), rest)
          /\ InSeq(Completed(r), stack') <=> InSeq(Completed(r), rest)
          /\ \A j : InSeq(ListFrame(r, j), stack') <=> InSeq(ListFrame(r, j), rest)
    <3>1. \A x : InSeq(x, stack') <=> x = f \/ InSeq(x, rest)
      BY <2>1, <2>6, InPushed
    <3>. QED
      BY <2>5, <3>1, FrameFields
  <2>8. \A r \in Requests : Ended(stack', r, state', lists', phase)
    BY <2>3, <2>5, <2>7, KindFacts DEF Ended, Broken
  <2>9. Counted(stack', lists', phase) = Counted(stack, lists, phase)
    BY <2>3, <2>5, <2>7 DEF Counted
  <2>. HIDE DEF f
  <2>. QED
    BY <1>1, <2>3, <2>4, <2>8, <2>9 DEF JInv
<1>. QED
  BY <1>2, <1>3

\* A request that was begun ends, or had ended, with rest behind it on the stack.
LEMMA ClosesRequest ==
  ASSUME IInv, JInv, NEW r \in Requests, NEW k \in Outcomes, phase[r] # "new",
         NEW rest \in Seq(Frames), close(r, k, rest),
         UNCHANGED <<added, ran, active, started>>,
         Passes(rest, lists, phase), Open(rest), Alike(stack, rest)
  PROVE  JInv'
<1>1. CASE phase[r] = "closed"
  <2>1. stack' = rest /\ UNCHANGED <<state, lists, phase>>
    BY <1>1 DEF close
  <2>. QED
    BY <2>1, Quiet DEF JInv, History
<1>2. CASE phase[r] # "closed"
  <2> DEFINE f == ListFrame(r, k)
             g == Completing(r)
             under == <<g>> \o rest
  <2>1. Types /\ History /\ Listed(state, lists, added, ran) /\ r \in Deferreds
    BY AjaxAssumption DEF IInv, JInv
  <2>2. phase' = [phase EXCEPT ![r] = "closed"] /\ settle(r, k, under)
    BY <1>2 DEF close, Completing
  <2>3. state[r] = "pending" /\ ~lists[r]["complete"].fired
    BY <1>2 DEF JInv, Ended
  <2>4. /\ state' = [state EXCEPT ![r] = Outcome[k]]
        /\ lists' = [lists EXCEPT ![r][k] = fire(@), ![r][Other[k]] = disable(@)]
        /\ stack' = <<f>> \o under
    BY <2>2, <2>3 DEF settle, ListFrame
  <2>5. /\ Listed(state', lists', added, ran)
        /\ ~lists[r][k].firing /\ ~lists[r][Other[k]].firing
        /\ \A e \in Deferreds :
             /\ lists'[e]["complete"] = lists[e]["complete"]
             /\ \A j \in Kinds : lists'[e][j].firing <=> lists[e][j].firing \/ (e = r /\ j = k)
    <3>1. /\ state' = [state EXCEPT ![r] = Outcome[k]]
          /\ lists' = [lists EXCEPT ![r][k] = fire(@), ![r][Other[k]] = disable(@)]
      BY <2>4
    <3>2. /\ Types /\ History /\ Listed(state, lists, added, ran)
          /\ r \in Deferreds /\ state[r] = "pending"
      BY <2>1, <2>3
    <3>. QED
      BY <3>1, <3>2, ListsSettle
  <2>6. /\ phase'[r] = "closed" /\ \A q \in Requests \ {r} : phase'[q] = phase[q]
        /\ phase' \in [Requests -> {"new", "hook", "open", "closed"}]
    BY <2>1, <2>2 DEF History
  <2>7. /\ state'[r] # "pending" /\ \A q \in Requests \ {r} : state'[q] = state[q]
    BY <2>1, <2>4, KindFacts, AjaxAssumption DEF Types
  <2>8. f \in Frames /\ g \in Frames /\ g.at = "completing" /\ g.of = r
    BY KindFacts, FrameKinds, FrameFields, AjaxAssumption DEF ListFrame, Completing
  <2>. HIDE DEF g
  <2>9. under \in Seq(Frames) /\ under[1] = g /\ Len(under) >= 1
        /\ \A x : InSeq(x, under) <=> x = g \/ InSeq(x, rest)
    BY <2>8, Pushed, InPushed, LenProperties
  <2>10. /\ \A d \in Deferreds, j \in Kinds : InSeq(ListFrame(d, j), rest) => lists[d][j].firing
         /\ \A q \in Requests :
              /\ InSeq(Completing(q), rest) => phase[q] = "closed" /\ ~lists[q]["complete"].fired
              /\ InSeq(Completed(q), rest) => phase[q] = "closed" /\ lists[q]["complete"].fired
    BY OnStack
  <2>11. Passes(under, lists, phase')
    <3>1. Ending(<<g>> \o rest, 1, lists, phase')
      BY <2>3, <2>5, <2>6, <2>8, <2>9, KindFacts DEF Ending, g
    <3>2. g.at \in Ends => ~InSeq(g, rest)
      BY <1>2, <2>10 DEF g
    <3>3. Fits(g, rest)
      BY DEF Fits, Open
    <3>4. Kept(rest, g, lists, lists, phase, phase')
      BY <2>6, <2>10 DEF Kept
    <3>. QED
      BY <2>8, <3>1, <3>2, <3>3, <3>4, PassPushed
  <2>12. Passes(stack', lists', phase')
    BY <2>1, <2>3, <2>4, <2>9, <2>11, PassSettles DEF g
  <2>. HIDE DEF under
  <2>13. \A x : InSeq(x, stack') <=> x = f \/ x = g \/ InSeq(x, rest)
    BY <2>4, <2>8, <2>9, InPushed
  <2>14. \A q \in Requests \ {r} :
           /\ InSeq(Completing(q), stack') <=> InSeq(Completing(q), stack)
           /\ InSeq(Completed(q), stack') <=> InSeq(Completed(q), stack)
           /\ \A j : InSeq(ListFrame(q, j), stack') <=> InSeq(ListFrame(q, j), stack)
    BY <2>8, <2>13, FrameFields DEF Alike, Ends
  <2>15. \A q \in Requests \ {r} : Ended(stack', q, state', lists', phase')
    <3>1. \A q \in Requests \ {r} : Ended(stack, q, state, lists, phase) /\ q \in Deferreds
      BY AjaxAssumption DEF JInv
    <3>. QED
      BY <2>5, <2>6, <2>7, <2>14, <3>1, KindFacts DEF Ended, Broken
  <2>16. Ended(stack', r, state', lists', phase')
    BY <2>6, <2>7, <2>13 DEF Ended, g
  <2>17. Counted(stack', lists', phase') = Counted(stack, lists, phase)
    <3> DEFINE A == Counted(stack, lists, phase)
               B == Counted(stack', lists', phase')
    <3>1. \A q \in Requests \ {r} : q \in Deferreds
      BY AjaxAssumption
    <3>2. \A q \in Requests \ {r} : q \in B <=> q \in A
      BY <2>5, <2>6, <2>14, <3>1 DEF Counted
    <3>3. phase[r] \in {"hook", "open"}
      BY <1>2, <2>1 DEF History
    <3>4. r \in A /\ r \in B
      BY <2>1, <2>3, <2>5, <2>6, <3>3 DEF Counted
    <3>5. A \subseteq Requests /\ B \subseteq Requests
      BY DEF Counted
    <3>. HIDE DEF A, B
    <3>6. A = B
      BY <3>2, <3>4, <3>5
    <3>. QED
      BY <3>6 DEF A, B
  <2>18. History'
    BY <2>1, <2>6 DEF History
  <2>. QED
    BY <2>5, <2>12, <2>15, <2>16, <2>17, <2>18 DEF JInv
<1>. QED
  BY <1>1, <1>2

-----------------------------------------------------------------------------
(* The steps keep the second invariant. *)

\* The thread is at a frame that is no request that ends: anything may be pushed on it.
LEMMA AtTop ==
  ASSUME IInv, JInv, stack # <<>>
  PROVE  /\ stack \in Seq(Frames) /\ Top = stack[1] /\ stack[1] \in Frames
         /\ Len(stack) \in Nat /\ Len(stack) >= 1
         /\ Ending(stack, 1, lists, phase) /\ Passes(stack, lists, phase)
         /\ Top.at \notin {"completing", "completed"} => Open(stack)
         /\ Top.at \notin Ends =>
              /\ Tail(stack) \in Seq(Frames) /\ Passes(Tail(stack), lists, phase)
              /\ Open(Tail(stack)) /\ Alike(stack, Tail(stack))
<1>1. /\ stack \in Seq(Frames) /\ Top = stack[1] /\ stack[1] \in Frames
      /\ Len(stack) \in Nat /\ Len(stack) >= 1
  BY AtFrame DEF IInv, Types
<1>2. Passes(stack, lists, phase)
  BY DEF JInv
<1>3. Ending(stack, 1, lists, phase)
  BY <1>1, <1>2 DEF Passes
<1>4. Top.at \notin {"completing", "completed"} => Open(stack)
  BY <1>1 DEF Open
<1>5. Top.at \notin Ends =>
         /\ Tail(stack) \in Seq(Frames) /\ Passes(Tail(stack), lists, phase)
         /\ Open(Tail(stack)) /\ Alike(stack, Tail(stack))
  BY <1>1, <1>2, OtherPopped
<1>. QED
  BY <1>1, <1>2, <1>3, <1>4, <1>5

\* The code that the thread runs is on top, and anything may be pushed on it.
LEMMA AtCode ==
  ASSUME IInv, JInv, Coding
  PROVE  /\ stack # <<>> /\ stack \in Seq(Frames) /\ Top = stack[1] /\ Top.at = "code"
         /\ Passes(stack, lists, phase) /\ Open(stack) /\ Alike(stack, stack)
         /\ Tail(stack) \in Seq(Frames) /\ Passes(Tail(stack), lists, phase)
         /\ Open(Tail(stack)) /\ Alike(stack, Tail(stack))
<1>1. stack # <<>> /\ Top.at = "code"
  BY DEF Coding, Running, Top
<1>2. Top.at \notin Ends /\ Top.at \notin {"completing", "completed"}
  BY <1>1 DEF Ends
<1>. QED
  BY <1>1, <1>2, AtTop DEF Alike

\* The empty stack.
LEMMA AtRest ==
  ASSUME JInv, stack = <<>>
  PROVE  /\ <<>> \in Seq(Frames) /\ Passes(<<>>, lists, phase) /\ Open(<<>>)
         /\ Alike(stack, <<>>) /\ \A x : ~InSeq(x, <<>>)
  BY DEF JInv, Open, Alike, InSeq

\* A request is begun, and counted.
LEMMA ajaxEnds ==
  ASSUME IInv, JInv, NEW r \in Requests, ajax(r)
  PROVE  JInv'
<1> DEFINE f == Frame("send", r, Nothing)
           sending == <<f>> \o stack
           A == Counted(stack, lists, phase)
           B == Counted(stack', lists, phase')
<1>1. /\ Coding /\ phase[r] = "new" /\ phase' = [phase EXCEPT ![r] = "hook"]
      /\ active' = active + 1
      /\ stack' = IF BeforeSend[r] = Nothing THEN sending ELSE <<Code(BeforeSend[r])>> \o sending
      /\ UNCHANGED <<state, lists, added, ran, started>>
  BY DEF ajax
<1>2. stack \in Seq(Frames) /\ Passes(stack, lists, phase) /\ Open(stack)
  BY <1>1, AtCode
<1>3. f \in Frames /\ f.at = "send" /\ f.of = r
  BY FrameKinds DEF Frame
<1>4. /\ phase'[r] = "hook" /\ \A q \in Requests \ {r} : phase'[q] = phase[q]
      /\ phase' \in [Requests -> {"new", "hook", "open", "closed"}]
  BY <1>1 DEF JInv, History
<1>. HIDE DEF f
<1>5. /\ sending \in Seq(Frames) /\ Passes(sending, lists, phase') /\ Open(sending)
      /\ Alike(stack, sending)
  <2>1. f.at \notin Ends /\ (f.at \in {"send", "sent"} => f.of \in Requests /\ phase'[f.of] # "new")
    BY <1>3, <1>4 DEF Ends
  <2>2. \A q \in Requests : /\ phase[q] = "closed" => phase'[q] = "closed"
                            /\ phase[q] # "new" => phase'[q] # "new"
    BY <1>1, <1>4
  <2>. QED
    BY <1>2, <1>3, <2>1, <2>2, OtherPushed
<1>. HIDE DEF sending
<1>6. Passes(stack', lists, phase') /\ Alike(stack, stack')
  <2>1. CASE BeforeSend[r] = Nothing
    BY <1>1, <1>5, <2>1
  <2>2. CASE BeforeSend[r] # Nothing
    <3> DEFINE g == Code(BeforeSend[r])
    <3>1. BeforeSend[r] \in Cbs
      BY <2>2, AjaxAssumption
    <3>2. g \in Frames /\ g.at = "code"
      BY <3>1 DEF Code, Frame, Frames
    <3>3. g.at \notin Ends /\ g.at \notin {"send", "sent"}
      BY <3>2 DEF Ends
    <3>4. stack' = <<g>> \o sending
      BY <1>1, <2>2
    <3>. HIDE DEF g
    <3>5. Passes(<<g>> \o sending, lists, phase') /\ Alike(sending, <<g>> \o sending)
      BY <1>5, <3>2, <3>3, OtherPushed
    <3>. QED
      BY <1>5, <3>4, <3>5 DEF Alike
  <2>. QED
    BY <2>1, <2>2
<1>7. \A q \in Requests : Ended(stack', q, state, lists, phase')
  <2>1. \A q \in Requests : Ended(stack', q, state, lists, phase)
    BY <1>6, AlikeEnds DEF JInv
  <2>2. \A q \in Requests : phase'[q] = "closed" <=> phase[q] = "closed"
    BY <1>1, <1>4
  <2>. QED
    BY <2>1, <2>2 DEF Ended
<1>8. B = A \union {r} /\ r \notin A
  <2>1. Counted(stack', lists, phase) = A
    BY <1>6, AlikeEnds
  <2>2. r \notin A
    BY <1>1, <1>2, OnStack DEF Counted
  <2>3. r \in B
    BY <1>4 DEF Counted
  <2>4. \A q \in Requests \ {r} : q \in B <=> q \in A
    <3>1. \A q \in Requests \ {r} : q \in B <=> q \in Counted(stack', lists, phase)
      BY <1>4 DEF Counted
    <3>. QED
      BY <2>1, <3>1
  <2>5. A \subseteq Requests /\ B \subseteq Requests
    BY DEF Counted
  <2>. HIDE DEF A, B
  <2>. QED
    BY <2>2, <2>3, <2>4, <2>5
<1>9. IsFiniteSet(A) /\ active = Cardinality(A)
  BY DEF JInv
<1>. HIDE DEF A, B
<1>10. IsFiniteSet(B) /\ Cardinality(B) = Cardinality(A) + 1
  BY <1>8, <1>9, FS_AddElement
<1>11. History'
  BY <1>1, <1>4 DEF JInv, History
<1>. QED
  BY <1>1, <1>6, <1>7, <1>9, <1>10, <1>11 DEF JInv, B

\* abort.
LEMMA abortEnds ==
  ASSUME IInv, JInv, NEW r \in Requests, abort(r)
  PROVE  JInv'
  BY AtCode, ClosesRequest DEF abort, Outcomes

\* The hook cancels the request below it.
LEMMA hookRefusesEnds ==
  ASSUME IInv, JInv, hookRefuses
  PROVE  JInv'
<1> DEFINE s == Tail(stack)
<1>1. Coding /\ Top.of \in Hooks
  BY DEF hookRefuses
<1>2. /\ stack # <<>> /\ Top = stack[1] /\ stack \in Seq(Frames) /\ Top.at = "code"
      /\ s \in Seq(Frames) /\ Passes(s, lists, phase) /\ Alike(stack, s)
  BY <1>1, AtCode
<1>3. Len(stack) > 1 /\ stack[2].at = "send"
  <2>1. Placed(stack, 1, state)
    BY <1>2, AtFrame
  <2>. QED
    BY <1>1, <1>2, <2>1 DEF Placed
<1>4. s # <<>> /\ s[1] = stack[2] /\ Ending(s, 1, lists, phase)
  <2>1. Len(s) = Len(stack) - 1 /\ s[1] = stack[2] /\ Len(stack) \in Nat
    BY <1>2, <1>3, Popped
  <2>2. 1 \in 1..Len(s) /\ s # <<>>
    <3>1. \A n \in Nat : n > 1 => 1 \in 1..(n - 1) /\ n - 1 # 0
      OBVIOUS
    <3>2. 1 \in 1..Len(s) /\ Len(s) # 0
      BY <1>3, <2>1, <3>1
    <3>3. Len(<<>>) = 0
      OBVIOUS
    <3>. HIDE DEF s
    <3>. QED
      BY <3>2, <3>3
  <2>. QED
    BY <1>2, <2>1, <2>2 DEF Passes
<1>5. stack[2].of \in Requests /\ phase[stack[2].of] # "new"
  BY <1>3, <1>4 DEF Ending
<1>6. /\ Tail(s) \in Seq(Frames) /\ Passes(Tail(s), lists, phase) /\ Open(Tail(s))
      /\ Alike(stack, Tail(s))
  <2>1. s[1].at \notin Ends
    BY <1>3, <1>4 DEF Ends
  <2>. HIDE DEF s
  <2>2. /\ Tail(s) \in Seq(Frames) /\ Passes(Tail(s), lists, phase) /\ Open(Tail(s))
        /\ Alike(s, Tail(s))
    BY <1>2, <1>4, <2>1, OtherPopped
  <2>. QED
    BY <1>2, <2>2 DEF Alike
<1>. QED
  BY <1>5, <1>6, ClosesRequest DEF hookRefuses, Outcomes

\* The browser throws, and the request ends in an error.
LEMMA sendThrowsEnds ==
  ASSUME IInv, JInv, sendThrows
  PROVE  JInv'
<1>1. stack # <<>> /\ Top.at = "sent" /\ Top.at \notin Ends
  BY DEF sendThrows, Running, Top, Ends
<1>2. /\ Top = stack[1] /\ Ending(stack, 1, lists, phase)
      /\ Tail(stack) \in Seq(Frames) /\ Passes(Tail(stack), lists, phase)
      /\ Open(Tail(stack)) /\ Alike(stack, Tail(stack))
  BY <1>1, AtTop
<1>3. Top.of \in Requests /\ phase[Top.of] # "new"
  BY <1>1, <1>2 DEF Ending
<1>. QED
  BY <1>2, <1>3, ClosesRequest DEF sendThrows, Outcomes

\* An answer or a timeout, with nothing on the stack.
LEMMA BrowserEnds ==
  ASSUME IInv, JInv, NEW r \in Requests, Answer(r) \/ Timeout(r)
  PROVE  JInv'
<1>1. stack = <<>> /\ phase[r] # "new" /\ UNCHANGED <<added, ran, active, started>>
  BY DEF Answer, Timeout, Idle
<1>2. PICK k \in Outcomes : close(r, k, <<>>)
  BY DEF Answer, Timeout, Outcomes
<1>. QED
  BY <1>1, <1>2, AtRest, ClosesRequest

\* The other steps that only take the innermost frame away.
LEMMA popEnds ==
  ASSUME IInv, JInv, stack # <<>>, Top.at \notin Ends, stack' = Tail(stack),
         UNCHANGED <<state, lists, added, ran, phase, active, started>>
  PROVE  JInv'
  BY AtTop, Quiet DEF JInv, History

\* A script runs.
LEMMA ScriptEnds ==
  ASSUME IInv, JInv, NEW c \in Scripts, Script(c)
  PROVE  JInv'
<1> DEFINE f == Code(c)
<1>1. /\ stack = <<>> /\ stack' = <<f>> /\ started' \subseteq Scripts
      /\ UNCHANGED <<state, lists, added, ran, phase, active>>
  BY DEF Script, Idle, JInv, History
<1>2. f \in Frames /\ f.at = "code"
  BY AjaxAssumption DEF Code, Frame, Frames
<1>. HIDE DEF f
<1>3. f.at \notin Ends /\ f.at \notin {"send", "sent"} /\ <<f>> \o <<>> = <<f>>
  BY <1>2 DEF Ends
<1>4. Passes(<<f>> \o <<>>, lists, phase) /\ Alike(<<>>, <<f>> \o <<>>)
  BY <1>1, <1>2, <1>3, AtRest, OtherPushed
<1>. QED
  BY <1>1, <1>3, <1>4, Quiet

\* The lists fire, and are fired, as they did: nothing changes for the passes and requests.
LEMMA SameFlags ==
  ASSUME NEW s \in Seq(Frames), NEW ls, NEW ls2, NEW ph,
         \A d \in Deferreds, k \in Kinds : /\ ls2[d][k].firing <=> ls[d][k].firing
                                           /\ ls2[d][k].fired <=> ls[d][k].fired,
         Passes(s, ls, ph)
  PROVE  /\ Passes(s, ls2, ph)
         /\ \A r \in Requests : \A st : Ended(s, r, st, ls, ph) => Ended(s, r, st, ls2, ph)
         /\ Counted(s, ls2, ph) = Counted(s, ls, ph)
<1>1. /\ Requests \subseteq Deferreds
      /\ \A r \in Requests, k \in Kinds : /\ ls2[r][k].firing <=> ls[r][k].firing
                                          /\ ls2[r][k].fired <=> ls[r][k].fired
  BY AjaxAssumption
<1>2. ASSUME NEW i \in 1..Len(s), Ending(s, i, ls, ph) PROVE Ending(s, i, ls2, ph)
  BY <1>1, <1>2, KindFacts DEF Ending
<1>3. Passes(s, ls2, ph)
  BY <1>2 DEF Passes
<1>4. \A r \in Requests : \A st : Ended(s, r, st, ls, ph) => Ended(s, r, st, ls2, ph)
  BY <1>1, KindFacts DEF Ended, Broken
<1>5. Counted(s, ls2, ph) = Counted(s, ls, ph)
  BY <1>1, KindFacts DEF Counted
<1>. QED
  BY <1>3, <1>4, <1>5

\* The callbacks given to the request are added to its lists, none of which is fired.
LEMMA sendEnds ==
  ASSUME IInv, JInv, send
  PROVE  JInv'
<1> DEFINE r == Top.of
           f == Frame("sent", r, Nothing)
<1>1. stack # <<>> /\ Top.at = "send" /\ Top.at \notin Ends
  BY DEF send, Running, Top, Ends
<1>2. /\ Top = stack[1] /\ Ending(stack, 1, lists, phase)
      /\ Tail(stack) \in Seq(Frames) /\ Passes(Tail(stack), lists, phase)
      /\ Open(Tail(stack)) /\ Alike(stack, Tail(stack))
  BY <1>1, AtTop
<1>3. r \in Requests /\ r \in Deferreds /\ phase[r] # "new"
  BY <1>1, <1>2, AjaxAssumption DEF Ending
<1>4. CASE phase[r] = "closed"
  <2>1. stack' = Tail(stack) /\ UNCHANGED <<state, lists, added, ran, phase, active, started>>
    BY <1>4 DEF send
  <2>. QED
    BY <1>1, <2>1, popEnds
<1>5. CASE phase[r] # "closed"
  <2>1. /\ phase' = [phase EXCEPT ![r] = "open"]
        /\ lists' = [lists EXCEPT ![r] =
              [k \in Kinds |-> IF Given[k][r] # Nothing THEN add(@[k], Given[k][r]) ELSE @[k]]]
        /\ added' = [added EXCEPT ![r] =
              [k \in Kinds |-> IF Given[k][r] # Nothing THEN Append(@[k], Given[k][r]) ELSE @[k]]]
        /\ stack' = <<f>> \o Tail(stack)
        /\ UNCHANGED <<state, ran, active, started>>
    BY <1>5 DEF send
  <2>2. f \in Frames /\ f.at = "sent" /\ f.of = r
    BY <1>3, FrameKinds DEF Frame
  <2>3. /\ phase'[r] = "open" /\ \A q \in Requests \ {r} : phase'[q] = phase[q]
        /\ phase' \in [Requests -> {"new", "hook", "open", "closed"}]
    BY <1>3, <2>1 DEF JInv, History
  <2>. HIDE DEF f, r
  <2>4. /\ \A e \in Deferreds \ {r} : lists'[e] = lists[e] /\ added'[e] = added[e]
        /\ \A k \in Kinds :
             /\ lists'[r][k] = IF Given[k][r] # Nothing THEN add(lists[r][k], Given[k][r])
                                                        ELSE lists[r][k]
             /\ added'[r][k] = IF Given[k][r] # Nothing THEN Append(added[r][k], Given[k][r])
                                                        ELSE added[r][k]
    BY <1>3, <2>1 DEF IInv, Types, JInv, History
  <2>5. ASSUME NEW k \in Kinds, Given[k][r] # Nothing PROVE Given[k][r] \in Plain
    <3>1. Given[k] \in [Requests -> Cbs \union {Nothing}]
      BY AjaxAssumption DEF Given, Kinds
    <3>2. Given[k][r] \in Cbs /\ Given[k][r] \in Range(Given[k])
      BY <3>1, <2>5, <1>3 DEF Range
    <3>3. Given[k][r] \notin Hooks
      BY <3>2, AjaxAssumption
    <3>. QED
      BY <3>2, <3>3 DEF Plain
  <2>6. \A k \in Kinds : /\ lists[r][k] \in Lists(Plain)
                         /\ added[r][k] \in Seq(Cbs) /\ ran[r][k] \in Seq(Cbs)
                         /\ InStep(lists[r][k], added[r][k], ran[r][k])
    BY <1>3, ListTypes DEF IInv, JInv, Listed
  <2>7. \A k \in Kinds : ~lists[r][k].fired /\ ~lists[r][k].firing
    <3>1. state[r] = "pending" /\ ~lists[r]["complete"].fired
      BY <1>3, <1>5 DEF JInv, Ended
    <3>2. \A k \in Outcomes : ~lists[r][k].fired
      BY <1>3, <3>1, KindFacts DEF JInv, Listed, Linked
    <3>. QED
      BY <2>6, <3>1, <3>2, KindFacts DEF InStep
  <2>8. ASSUME NEW k \in Kinds
        PROVE  /\ lists'[r][k].fired <=> lists[r][k].fired
               /\ lists'[r][k].firing <=> lists[r][k].firing
               /\ lists'[r][k].disabled <=> lists[r][k].disabled
               /\ InStep(lists'[r][k], added'[r][k], ran[r][k])
               /\ added'[r][k] \in Seq(Cbs)
    <3>1. CASE Given[k][r] = Nothing
      BY <2>4, <2>6, <3>1
    <3>2. CASE Given[k][r] # Nothing
      <4> DEFINE c == Given[k][r]
                 l == lists[r][k]
      <4>1. c \in Plain /\ c \in Cbs
        BY <2>5, <3>2 DEF Plain
      <4>2. lists'[r][k] = add(l, c) /\ added'[r][k] = Append(added[r][k], c)
        BY <2>4, <3>2
      <4>3. l \in Lists(Plain) /\ ~l.fired /\ ~l.firing
        BY <2>6, <2>7
      <4>. HIDE DEF c, l
      <4>4. /\ add(l, c).fired = l.fired /\ add(l, c).disabled = l.disabled
            /\ ~add(l, c).firing
        BY <4>3 DEF add, Lists
      <4>5. InStep(add(l, c), Append(added[r][k], c), ran[r][k])
        BY <2>6, <4>1, <4>3, InStepAdd DEF l
      <4>6. Append(added[r][k], c) \in Seq(Cbs)
        BY <2>6, <4>1
      <4>. QED
        BY <2>7, <4>2, <4>4, <4>5, <4>6 DEF l
    <3>. QED
      BY <3>1, <3>2
  <2>9. \A d \in Deferreds, k \in Kinds : /\ lists'[d][k].firing <=> lists[d][k].firing
                                          /\ lists'[d][k].fired <=> lists[d][k].fired
    BY <2>4, <2>8
  <2>10. Listed(state', lists', added', ran')
    <3>1. \A k \in Kinds : InStep(lists'[r][k], added'[r][k], ran[r][k])
      BY <2>8
    <3>2. Linked(state[r], lists'[r])
      <4>1. Linked(state[r], lists[r])
        BY <1>3 DEF JInv, Listed
      <4>. QED
        BY <2>8, <4>1, KindFacts DEF Linked
    <3>3. \A e \in Deferreds \ {r} :
            /\ Linked(state[e], lists'[e])
            /\ \A k \in Kinds : InStep(lists'[e][k], added'[e][k], ran[e][k])
      BY <2>4 DEF JInv, Listed
    <3>. QED
      BY <2>1, <3>1, <3>2, <3>3 DEF Listed
  <2>11. Passes(stack', lists', phase') /\ Alike(stack, stack')
    <3>1. Passes(Tail(stack), lists', phase)
      BY <1>2, <2>9, SameFlags
    <3>2. f.at \notin Ends /\ (f.at \in {"send", "sent"} => f.of \in Requests /\ phase'[f.of] # "new")
      BY <1>3, <2>2, <2>3 DEF Ends
    <3>3. \A q \in Requests : /\ phase[q] = "closed" => phase'[q] = "closed"
                              /\ phase[q] # "new" => phase'[q] # "new"
      BY <1>5, <2>3 DEF r
    <3>4. Passes(<<f>> \o Tail(stack), lists', phase') /\ Alike(Tail(stack), <<f>> \o Tail(stack))
      BY <1>2, <2>2, <3>1, <3>2, <3>3, OtherPushed
    <3>. QED
      BY <1>2, <2>1, <3>4 DEF Alike
  <2>12. \A q \in Requests : Ended(stack', q, state, lists', phase')
    <3>1. stack \in Seq(Frames) /\ Passes(stack, lists, phase)
      BY DEF JInv, IInv, Types
    <3>2. \A q \in Requests : Ended(stack, q, state, lists', phase)
      BY <2>9, <3>1, SameFlags DEF JInv
    <3>3. \A q \in Requests : Ended(stack', q, state, lists', phase)
      BY <2>11, <3>2, AlikeEnds
    <3>4. \A q \in Requests : phase'[q] = "closed" <=> phase[q] = "closed"
      BY <1>5, <2>3 DEF r
    <3>. QED
      BY <3>3, <3>4 DEF Ended
  <2>13. Counted(stack', lists', phase') = Counted(stack, lists, phase)
    <3>1. stack \in Seq(Frames) /\ Passes(stack, lists, phase)
      BY DEF JInv, IInv, Types
    <3>2. Counted(stack', lists', phase) = Counted(stack, lists, phase)
      <4>1. Counted(stack, lists', phase) = Counted(stack, lists, phase)
        BY <2>9, <3>1, SameFlags
      <4>. QED
        BY <2>11, <4>1, AlikeEnds
    <3>3. phase[r] \in {"hook", "open"}
      BY <1>3, <1>5 DEF JInv, History, r
    <3>4. Counted(stack', lists', phase') = Counted(stack', lists', phase)
      BY <2>3, <3>3 DEF Counted
    <3>. QED
      BY <3>2, <3>4
  <2>14. History'
    <3>1. added' \in [Deferreds -> [Kinds -> Seq(Cbs)]]
      <4>1. \A k \in Kinds : (IF Given[k][r] # Nothing THEN Append(added[r][k], Given[k][r])
                                                       ELSE added[r][k]) \in Seq(Cbs)
        BY <2>4, <2>8
      <4>. QED
        BY <1>3, <2>1, <4>1 DEF JInv, History, r
    <3>. QED
      BY <2>1, <2>3, <3>1 DEF JInv, History
  <2>. QED
    BY <2>1, <2>10, <2>11, <2>12, <2>13, <2>14 DEF JInv
<1>. QED
  BY <1>4, <1>5

\* A callback of a list runs.
LEMMA fireNextEnds ==
  ASSUME IInv, JInv, fireNext, UNCHANGED <<phase, active, started>>
  PROVE  JInv'
<1> DEFINE d == Top.of
           k == Top.kind
           l == lists[d][k]
           c == nextCallback(l)
<1>1. /\ stack # <<>> /\ Top.at = "list" /\ More(l)
      /\ lists' = [lists EXCEPT ![d][k] = advance(@)] /\ stack' = <<Code(c)>> \o stack
      /\ ran' = [ran EXCEPT ![d][k] = Append(@, c)]
      /\ UNCHANGED <<state, added>>
  BY DEF fireNext, Running, Top
<1>2. /\ Top = stack[1] /\ Ending(stack, 1, lists, phase) /\ stack \in Seq(Frames)
      /\ Passes(stack, lists, phase) /\ Open(stack)
  BY <1>1, AtTop
<1>3. d \in Deferreds /\ k \in Kinds /\ l.firing
  BY <1>1, <1>2 DEF Ending
<1>4. /\ l \in Lists(Plain) /\ added[d][k] \in Seq(Cbs) /\ ran[d][k] \in Seq(Cbs)
      /\ InStep(l, added[d][k], ran[d][k])
  BY <1>3, ListTypes DEF IInv, JInv, Listed
<1>5. c \in Plain /\ c \in Cbs /\ InStep(advance(l), added[d][k], Append(ran[d][k], c))
  BY <1>1, <1>3, <1>4, InStepNext, NextInList DEF Plain
<1>6. /\ advance(l).fired = l.fired /\ advance(l).firing = l.firing
      /\ advance(l).disabled = l.disabled
  BY <1>4 DEF advance, Lists
<1>7. /\ lists'[d][k] = advance(l) /\ ran'[d][k] = Append(ran[d][k], c)
      /\ \A e \in Deferreds, j \in Kinds : e # d \/ j # k =>
           lists'[e][j] = lists[e][j] /\ ran'[e][j] = ran[e][j]
  <2>. HIDE DEF d, k, c
  <2>. QED
    BY <1>1, <1>3 DEF IInv, Types, JInv, History, l
<1>. HIDE DEF d, k, c, l
<1>8. \A e \in Deferreds, j \in Kinds : /\ lists'[e][j].firing <=> lists[e][j].firing
                                        /\ lists'[e][j].fired <=> lists[e][j].fired
                                        /\ lists'[e][j].disabled <=> lists[e][j].disabled
  BY <1>6, <1>7 DEF l
<1>9. Listed(state', lists', added', ran')
  <2>1. \A e \in Deferreds : Linked(state[e], lists'[e])
    <3>1. \A e \in Deferreds : Linked(state[e], lists[e])
      BY DEF JInv, Listed
    <3>. QED
      BY <1>8, <3>1, KindFacts DEF Linked
  <2>2. \A e \in Deferreds, j \in Kinds : InStep(lists[e][j], added[e][j], ran[e][j])
    BY DEF JInv, Listed
  <2>3. \A e \in Deferreds, j \in Kinds : InStep(lists'[e][j], added[e][j], ran'[e][j])
    BY <1>5, <1>7, <2>2
  <2>. QED
    BY <1>1, <2>1, <2>3 DEF Listed
<1>10. Passes(stack', lists', phase) /\ Alike(stack, stack')
  <2>1. Code(c) \in Frames /\ Code(c).at = "code"
    BY <1>5, FrameKinds DEF Code, Frame
  <2>2. Code(c).at \notin Ends /\ Code(c).at \notin {"send", "sent"}
    BY <2>1 DEF Ends
  <2>3. Passes(stack, lists', phase)
    BY <1>2, <1>8, SameFlags
  <2>4. Passes(<<Code(c)>> \o stack, lists', phase) /\ Alike(stack, <<Code(c)>> \o stack)
    BY <1>2, <2>1, <2>2, <2>3, OtherPushed
  <2>. QED
    BY <1>1, <2>4
<1>11. /\ \A q \in Requests : Ended(stack', q, state, lists', phase)
       /\ Counted(stack', lists', phase) = Counted(stack, lists, phase)
  <2>1. /\ \A q \in Requests : Ended(stack, q, state, lists', phase)
        /\ Counted(stack, lists', phase) = Counted(stack, lists, phase)
    BY <1>2, <1>8, SameFlags DEF JInv
  <2>. QED
    BY <1>10, <2>1, AlikeEnds
<1>12. History'
  <2>1. Append(ran[d][k], c) \in Seq(Cbs)
    BY <1>4, <1>5
  <2>2. ran' \in [Deferreds -> [Kinds -> Seq(Cbs)]]
    BY <1>1, <1>3, <2>1 DEF JInv, History
  <2>. QED
    BY <1>1, <2>2 DEF JInv, History
<1>. QED
  BY <1>1, <1>9, <1>10, <1>11, <1>12 DEF JInv

\* A pass ends: if it was over the complete callbacks, the request is still on the stack.
LEMMA fireEndEnds ==
  ASSUME IInv, JInv, fireEnd, UNCHANGED <<phase, active, started>>
  PROVE  JInv'
<1> DEFINE d == Top.of
           k == Top.kind
           l == lists[d][k]
           t == Tail(stack)
<1>1. /\ stack # <<>> /\ Top.at = "list" /\ ~More(l)
      /\ lists' = [lists EXCEPT ![d][k] = endPass(@)] /\ stack' = t
      /\ UNCHANGED <<state, added, ran>>
  BY DEF fireEnd, Running, Top
<1>2. /\ Top = stack[1] /\ Ending(stack, 1, lists, phase) /\ stack \in Seq(Frames)
      /\ Passes(stack, lists, phase) /\ stack[1] \in Frames
  BY <1>1, AtTop
<1>3. d \in Deferreds /\ k \in Kinds /\ l.firing /\ Top = ListFrame(d, k)
  BY <1>1, <1>2, FrameFields DEF Ending
<1>4. /\ l \in Lists(Plain) /\ added[d][k] \in Seq(Cbs) /\ ran[d][k] \in Seq(Cbs)
      /\ InStep(l, added[d][k], ran[d][k])
  BY <1>3, ListTypes DEF IInv, JInv, Listed
<1>5. InStep(endPass(l), added[d][k], ran[d][k])
  BY <1>1, <1>3, <1>4, InStepEnd
<1>6. /\ endPass(l).fired = l.fired /\ ~endPass(l).firing
      /\ endPass(l).disabled = l.disabled
  BY <1>4 DEF endPass, Lists
<1>7. /\ lists'[d][k] = endPass(l)
      /\ \A e \in Deferreds, j \in Kinds : e # d \/ j # k => lists'[e][j] = lists[e][j]
  <2>. HIDE DEF d, k
  <2>. QED
    BY <1>1, <1>3 DEF IInv, Types, l
<1>8. /\ t \in Seq(Frames)
      /\ \A x : InSeq(x, stack) <=> x = Top \/ InSeq(x, t)
      /\ ~InSeq(Top, t)
  <2>1. Top.at \in Ends
    BY <1>1 DEF Ends
  <2>. QED
    BY <1>1, <1>2, <2>1, TakenOnce
<1>. HIDE DEF d, k, l, t
<1>9. \A e \in Deferreds, j \in Kinds :
        /\ lists'[e][j].fired <=> lists[e][j].fired
        /\ lists'[e][j].disabled <=> lists[e][j].disabled
        /\ lists'[e][j].firing <=> lists[e][j].firing /\ Top # ListFrame(e, j)
  BY <1>3, <1>6, <1>7, FrameFields DEF l
<1>10. Listed(state', lists', added', ran')
  <2>1. \A e \in Deferreds : Linked(state[e], lists'[e])
    <3>1. \A e \in Deferreds : Linked(state[e], lists[e])
      BY DEF JInv, Listed
    <3>. QED
      BY <1>9, <3>1, KindFacts DEF Linked
  <2>2. \A e \in Deferreds, j \in Kinds : InStep(lists[e][j], added[e][j], ran[e][j])
    BY DEF JInv, Listed
  <2>3. \A e \in Deferreds, j \in Kinds : InStep(lists'[e][j], added[e][j], ran[e][j])
    BY <1>5, <1>7, <2>2
  <2>. QED
    BY <1>1, <2>1, <2>3 DEF Listed
<1>11. Passes(stack', lists', phase)
  <2>1. \A e \in Deferreds, j \in Kinds : InSeq(ListFrame(e, j), t) => lists'[e][j].firing
    BY <1>2, <1>8, <1>9, OnStack
  <2>2. \A r \in Requests :
          /\ lists'[r]["complete"].fired <=> lists[r]["complete"].fired
          /\ \A j \in Kinds : lists'[r][j].firing => lists[r][j].firing /\ stack[1] # ListFrame(r, j)
    BY <1>2, <1>9, KindFacts, AjaxAssumption
  <2>. QED
    BY <1>1, <1>2, <2>1, <2>2, PassPopped DEF t
<1>12. \A q \in Requests : Ended(stack', q, state, lists', phase)
  <2>1. SUFFICES ASSUME NEW q \in Requests PROVE Ended(t, q, state, lists', phase)
    BY <1>1
  <2>2. Ended(stack, q, state, lists, phase) /\ q \in Deferreds
    BY AjaxAssumption DEF JInv
  <2>3. InSeq(Completing(q), stack) => InSeq(Completing(q), t)
    BY <1>1, <1>8, FrameFields
  <2>4. Broken(stack, q, lists) => Broken(t, q, lists')
    <3>1. SUFFICES ASSUME NEW j \in Outcomes, lists[q][j].firing, ~InSeq(ListFrame(q, j), stack)
                   PROVE  lists'[q][j].firing /\ ~InSeq(ListFrame(q, j), t)
      BY DEF Broken
    <3>. QED
      BY <1>8, <1>9, <2>2, <3>1, KindFacts
  <2>. QED
    BY <1>9, <2>2, <2>3, <2>4, KindFacts DEF Ended
<1>13. Counted(stack', lists', phase) = Counted(stack, lists, phase)
  <2>1. \A q \in Requests : InSeq(Completed(q), stack) <=> InSeq(Completed(q), t)
    BY <1>1, <1>8, FrameFields
  <2>2. ASSUME NEW q \in Requests, Top = ListFrame(q, "complete") PROVE InSeq(Completed(q), t)
    <3>1. InSeq(ListFrame(q, "complete"), stack)
      BY <1>8, <2>2
    <3>. QED
      BY <1>2, <2>1, <3>1, OnStack
  <2>3. \A q \in Requests :
          /\ lists'[q]["complete"].fired <=> lists[q]["complete"].fired
          /\ lists'[q]["complete"].firing <=>
               lists[q]["complete"].firing /\ Top # ListFrame(q, "complete")
    BY <1>9, KindFacts, AjaxAssumption
  <2>. QED
    BY <1>1, <2>1, <2>2, <2>3 DEF Counted
<1>14. History'
  BY <1>1 DEF JInv, History
<1>. QED
  BY <1>1, <1>10, <1>11, <1>12, <1>13, <1>14 DEF JInv

\* The request that is done with is no longer counted.
LEMMA completedEnds ==
  ASSUME IInv, JInv, completed
  PROVE  JInv'
<1> DEFINE r == Top.of
           t == Tail(stack)
           A == Counted(stack, lists, phase)
           B == Counted(t, lists, phase)
<1>1. /\ stack # <<>> /\ Top.at = "completed" /\ active' = active - 1 /\ stack' = t
      /\ UNCHANGED <<state, lists, added, ran, phase, started>>
  BY DEF completed, Running, Top
<1>2. /\ Top = stack[1] /\ Ending(stack, 1, lists, phase) /\ stack \in Seq(Frames)
      /\ Passes(stack, lists, phase) /\ Len(stack) \in Nat /\ Len(stack) >= 1
  BY <1>1, AtTop
<1>3. /\ Top = Completed(r) /\ r \in Requests /\ phase[r] = "closed"
      /\ lists[r]["complete"].fired /\ ~lists[r]["complete"].firing
  BY <1>1, <1>2 DEF Ending
<1>4. /\ t \in Seq(Frames)
      /\ \A x : InSeq(x, stack) <=> x = Top \/ InSeq(x, t)
      /\ ~InSeq(Top, t)
  <2>1. Top.at \in Ends
    BY <1>1 DEF Ends
  <2>. QED
    BY <1>1, <1>2, <2>1, TakenOnce
<1>. HIDE DEF r, t
<1>5. Passes(t, lists, phase)
  <2>1. \A e \in Deferreds, j \in Kinds : InSeq(ListFrame(e, j), t) => lists[e][j].firing
    BY <1>2, <1>4, OnStack
  <2>2. \A q, j : stack[1] # ListFrame(q, j)
    BY <1>1, <1>2, FrameFields
  <2>. QED
    BY <1>1, <1>2, <2>1, <2>2, PassPopped DEF t
<1>6. \A q \in Requests : Ended(t, q, state, lists, phase)
  <2>1. \A q : /\ InSeq(Completing(q), stack) <=> InSeq(Completing(q), t)
               /\ \A j : InSeq(ListFrame(q, j), stack) <=> InSeq(ListFrame(q, j), t)
    BY <1>1, <1>4, FrameFields
  <2>2. \A q \in Requests : Ended(stack, q, state, lists, phase)
    BY DEF JInv
  <2>. QED
    BY <2>1, <2>2 DEF Ended, Broken
<1>7. B = A \ {r} /\ r \in A
  <2>1. \A q \in Requests \ {r} : InSeq(Completed(q), stack) <=> InSeq(Completed(q), t)
    BY <1>3, <1>4, FrameFields
  <2>2. \A q \in Requests \ {r} : q \in B <=> q \in A
    BY <2>1 DEF Counted
  <2>3. r \notin B /\ r \in A
    BY <1>3, <1>4 DEF Counted
  <2>4. A \subseteq Requests /\ B \subseteq Requests
    BY DEF Counted
  <2>. HIDE DEF A, B
  <2>. QED
    BY <2>2, <2>3, <2>4
<1>8. IsFiniteSet(A) /\ active = Cardinality(A)
  BY DEF JInv
<1>. HIDE DEF A, B
<1>9. IsFiniteSet(B) /\ Cardinality(B) = Cardinality(A) - 1
  BY <1>7, <1>8, FS_RemoveElement
<1>10. History'
  BY <1>1 DEF JInv, History
<1>. QED
  BY <1>1, <1>5, <1>6, <1>8, <1>9, <1>10 DEF JInv, B

\* One of the lists is replaced.
LEMMA ListReplaced ==
  ASSUME NEW S, NEW ls \in [Deferreds -> [Kinds -> S]], NEW d \in Deferreds, NEW k \in Kinds, NEW e
  PROVE  LET m == [ls EXCEPT ![d][k] = e] IN
         /\ m[d][k] = e
         /\ \A x \in Deferreds, j \in Kinds : x # d \/ j # k => m[x][j] = ls[x][j]
  OBVIOUS

\* The complete callbacks are fired: every pass over the callbacks for the outcome is over.
LEMMA completeEnds ==
  ASSUME IInv, JInv, complete
  PROVE  JInv'
<1> DEFINE r == Top.of
           t == Tail(stack)
           l == lists[r]["complete"]
           f == ListFrame(r, "complete")
           g == Completed(r)
           under == <<g>> \o t
           ls == [lists EXCEPT ![r]["complete"] = [l EXCEPT !.fired = TRUE]]
<1>1. /\ stack # <<>> /\ Top.at = "completing" /\ stack' = <<f>> \o under
      /\ lists' = [lists EXCEPT ![r]["complete"] = fire(@)]
      /\ UNCHANGED <<state, added, ran, phase, active, started>>
  BY DEF complete, Running, Top, ListFrame, Completed
<1>2. /\ Top = stack[1] /\ Ending(stack, 1, lists, phase) /\ stack \in Seq(Frames)
      /\ Passes(stack, lists, phase)
  BY <1>1, AtTop
<1>3. /\ Top = Completing(r) /\ r \in Requests /\ r \in Deferreds /\ phase[r] = "closed"
      /\ ~l.fired /\ \A k \in Outcomes : ~lists[r][k].firing
  BY <1>1, <1>2, AjaxAssumption DEF Ending
<1>4. /\ t \in Seq(Frames) /\ ~InSeq(Top, t)
      /\ \A x : InSeq(x, stack) <=> x = Top \/ InSeq(x, t)
  <2>1. Top.at \in Ends
    BY <1>1 DEF Ends
  <2>. QED
    BY <1>1, <1>2, <2>1, TakenOnce
<1>5. /\ l \in Lists(Plain) /\ added[r]["complete"] \in Seq(Cbs) /\ ran[r]["complete"] \in Seq(Cbs)
      /\ InStep(l, added[r]["complete"], ran[r]["complete"]) /\ ~l.disabled
  BY <1>3, ListTypes, KindFacts DEF IInv, JInv, Listed, Linked
<1>6. ~l.firing
  BY <1>3, <1>5 DEF InStep
<1>7. /\ lists'[r]["complete"] = fire(l) /\ ls[r]["complete"] = [l EXCEPT !.fired = TRUE]
      /\ \A d \in Deferreds, k \in Kinds : d # r \/ k # "complete" =>
           lists'[d][k] = lists[d][k] /\ ls[d][k] = lists[d][k]
  <2>1. lists \in [Deferreds -> [Kinds -> Lists(Plain)]] /\ "complete" \in Kinds
    BY KindFacts DEF IInv, Types
  <2>2. lists' = [lists EXCEPT ![r]["complete"] = fire(l)]
    BY <1>1, <1>3, <2>1
  <2>. HIDE DEF r, l
  <2>. QED
    BY <1>3, <2>1, <2>2, ListReplaced
<1>8. /\ fire(l).fired /\ fire(l).firing /\ ~fire(l).disabled
      /\ ls[r]["complete"].fired /\ ~ls[r]["complete"].firing
  BY <1>3, <1>5, <1>6, <1>7 DEF fire, Lists
<1>9. /\ f \in Frames /\ f.at = "list" /\ f.of = r /\ f.kind = "complete"
      /\ g \in Frames /\ g.at = "completed" /\ g.of = r
  BY <1>3, FrameKinds, FrameFields, KindFacts DEF ListFrame, Completed
<1>. HIDE DEF r, t, l, ls, f, g
<1>10. Passes(t, lists, phase) /\ Open(t)
  <2>1. \A e \in Deferreds, j \in Kinds : InSeq(ListFrame(e, j), t) => lists[e][j].firing
    BY <1>2, <1>4, OnStack
  <2>2. stack[1].at # "list" /\ \A q, j : stack[1] # ListFrame(q, j)
    BY <1>1, <1>2, FrameFields
  <2>. QED
    BY <1>1, <1>2, <2>1, <2>2, PassPopped DEF t
<1>11. \A q \in Requests :
         /\ q \in Deferreds
         /\ InSeq(Completing(q), t) => phase[q] = "closed" /\ ~lists[q]["complete"].fired /\ q # r
         /\ InSeq(Completed(q), t) => phase[q] = "closed" /\ lists[q]["complete"].fired /\ q # r
  BY <1>3, <1>4, <1>10, OnStack, AjaxAssumption DEF l
<1>12. /\ under \in Seq(Frames) /\ under[1] = g /\ Passes(under, ls, phase)
       /\ \A x : InSeq(x, under) <=> x = g \/ InSeq(x, t)
  <2>1. /\ <<g>> \o t \in Seq(Frames) /\ (<<g>> \o t)[1] = g
        /\ \A x : InSeq(x, <<g>> \o t) <=> x = g \/ InSeq(x, t)
    BY <1>4, <1>9, Pushed, InPushed
  <2>2. g.at \in Ends => ~InSeq(g, t)
    BY <1>3, <1>11 DEF g
  <2>3. Fits(g, t)
    BY <1>10 DEF Fits, Open
  <2>4. Ending(<<g>> \o t, 1, ls, phase)
    BY <1>3, <1>8, <1>9, <2>1 DEF Ending, g
  <2>5. Kept(t, g, lists, ls, phase, phase)
    <3>1. \A d \in Deferreds, k \in Kinds : ls[d][k].firing <=> lists[d][k].firing
      BY <1>6, <1>7, <1>8 DEF l
    <3>2. \A q \in Requests : q # r => ls[q]["complete"].fired = lists[q]["complete"].fired
      BY <1>7, <1>11, KindFacts
    <3>3. \A d \in Deferreds, k \in Kinds : InSeq(ListFrame(d, k), t) => ls[d][k].firing
      BY <1>4, <1>10, <3>1, OnStack
    <3>4. \A q \in Requests : \A k \in Outcomes : ls[q][k].firing => lists[q][k].firing
      BY <1>11, <3>1, KindFacts
    <3>. QED
      BY <1>11, <3>2, <3>3, <3>4 DEF Kept
  <2>6. Passes(<<g>> \o t, ls, phase)
    BY <1>4, <1>9, <1>10, <2>2, <2>3, <2>4, <2>5, PassPushed
  <2>. QED
    BY <2>1, <2>6
<1>. HIDE DEF under
<1>13. /\ stack' \in Seq(Frames) /\ stack'[1] = f /\ stack'[2] = g /\ Len(stack') > 1
       /\ \A x : InSeq(x, stack') <=> x = f \/ x = g \/ InSeq(x, t)
  <2>1. /\ <<f>> \o under \in Seq(Frames) /\ Len(<<f>> \o under) = Len(under) + 1
        /\ (<<f>> \o under)[1] = f
        /\ \A i \in 2..(Len(under) + 1) : (<<f>> \o under)[i] = under[i - 1]
        /\ \A x : InSeq(x, <<f>> \o under) <=> x = f \/ InSeq(x, under)
    BY <1>9, <1>12, Pushed, InPushed
  <2>2. Len(under) \in Nat /\ Len(under) >= 1
    BY <1>4, <1>9, Pushed, LenProperties DEF under
  <2>3. 2 \in 2..(Len(under) + 1)
    BY <2>2
  <2>4. stack'[2] = g
    BY <1>1, <1>12, <2>1, <2>3
  <2>. QED
    BY <1>1, <1>12, <2>1, <2>2, <2>4
<1>14. Passes(stack', lists', phase)
  <2>1. f.at \in Ends => ~InSeq(f, under)
    <3>1. InSeq(ListFrame(r, "complete"), t) => l.firing
      BY <1>3, <1>4, <1>10, OnStack, KindFacts DEF l
    <3>2. ~InSeq(f, t)
      BY <1>6, <3>1 DEF f
    <3>. QED
      BY <1>9, <1>12, <3>2
  <2>2. Fits(f, under)
    BY <1>9, <1>12 DEF Fits, f
  <2>3. Ending(stack', 1, lists', phase)
    <3>1. \A k \in Outcomes : ~lists'[r][k].firing
      BY <1>3, <1>7, KindFacts
    <3>. QED
      BY <1>3, <1>7, <1>8, <1>9, <1>13, <3>1, KindFacts DEF Ending, g
  <2>4. Kept(under, f, ls, lists', phase, phase)
    <3>1. \A d \in Deferreds, k \in Kinds : ls[d][k].firing => lists'[d][k].firing
      BY <1>7, <1>8
    <3>2. \A q \in Requests : \A k \in Outcomes : lists'[q][k].firing => ls[q][k].firing
      BY <1>7, <1>11, KindFacts
    <3>3. \A q \in Requests : q # r => lists'[q]["complete"].fired = lists[q]["complete"].fired
      BY <1>7, <1>11, KindFacts
    <3>4. \A d \in Deferreds, k \in Kinds : InSeq(ListFrame(d, k), under) => lists'[d][k].firing
      BY <1>12, <3>1, OnStack
    <3>5. \A q \in Requests : q = r => phase[q] = "closed" /\ lists'[q]["complete"].fired
      BY <1>3, <1>7, <1>8
    <3>6. \A q \in Requests : /\ InSeq(Completing(q), under) => InSeq(Completing(q), t)
                              /\ InSeq(Completed(q), under) => q = r \/ InSeq(Completed(q), t)
      BY <1>9, <1>12, FrameFields DEF g
    <3>. QED
      BY <1>11, <3>2, <3>3, <3>4, <3>5, <3>6 DEF Kept
  <2>5. Passes(<<f>> \o under, lists', phase)
    BY <1>1, <1>9, <1>12, <2>1, <2>2, <2>3, <2>4, PassPushed
  <2>. QED
    BY <1>1, <2>5
<1>15. Listed(state', lists', added', ran')
  <2>1. \A e \in Deferreds : Linked(state[e], lists'[e])
    <3>1. \A e \in Deferreds : Linked(state[e], lists[e])
      BY DEF JInv, Listed
    <3>2. \A e \in Deferreds, k \in Outcomes : lists'[e][k] = lists[e][k]
      BY <1>7, KindFacts
    <3>3. \A e \in Deferreds : ~lists'[e]["complete"].disabled
      BY <1>7, <1>8, <3>1, KindFacts DEF Linked
    <3>. QED
      BY <3>1, <3>2, <3>3 DEF Linked
  <2>2. \A e \in Deferreds, j \in Kinds : InStep(lists[e][j], added[e][j], ran[e][j])
    BY DEF JInv, Listed
  <2>3. InStep(fire(l), added[r]["complete"], ran[r]["complete"])
    BY <1>3, <1>5, InStepFire
  <2>4. \A e \in Deferreds, j \in Kinds : InStep(lists'[e][j], added[e][j], ran[e][j])
    BY <1>7, <2>2, <2>3
  <2>. QED
    BY <1>1, <2>1, <2>4 DEF Listed
<1>16. \A q \in Requests \ {r} :
         /\ InSeq(Completing(q), stack) <=> InSeq(Completing(q), stack')
         /\ InSeq(Completed(q), stack) <=> InSeq(Completed(q), stack')
         /\ \A j : InSeq(ListFrame(q, j), stack) <=> InSeq(ListFrame(q, j), stack')
         /\ \A k \in Kinds : lists'[q][k] = lists[q][k]
  BY <1>3, <1>4, <1>7, <1>9, <1>11, <1>13, FrameFields
<1>17. \A q \in Requests : Ended(stack', q, state, lists', phase)
  <2>1. \A q \in Requests : Ended(stack, q, state, lists, phase)
    BY DEF JInv
  <2>2. \A q \in Requests \ {r} : Ended(stack', q, state, lists', phase)
    BY <1>16, <2>1, KindFacts DEF Ended, Broken
  <2>3. Ended(stack', r, state, lists', phase)
    BY <1>3, <1>7, <1>8, <2>1 DEF Ended
  <2>. QED
    BY <2>2, <2>3
<1>18. Counted(stack', lists', phase) = Counted(stack, lists, phase)
  <2> DEFINE A == Counted(stack, lists, phase)
             B == Counted(stack', lists', phase)
  <2>1. \A q \in Requests \ {r} : q \in B <=> q \in A
    BY <1>16, KindFacts DEF Counted
  <2>2. r \in A /\ r \in B
    BY <1>3, <1>7, <1>8 DEF Counted, l
  <2>3. A \subseteq Requests /\ B \subseteq Requests
    BY DEF Counted
  <2>. HIDE DEF A, B
  <2>4. A = B
    BY <2>1, <2>2, <2>3
  <2>. QED
    BY <2>4 DEF A, B
<1>19. History'
  BY <1>1 DEF JInv, History
<1>. QED
  BY <1>1, <1>14, <1>15, <1>17, <1>18, <1>19 DEF JInv

\* done and fail: a pass begins, unless one is under way or there is nothing to do.
LEMMA addCallbackEnds ==
  ASSUME IInv, JInv, NEW d \in Deferreds, NEW k \in Outcomes, NEW c \in Plain,
         Coding, addCallback(d, k, c), UNCHANGED <<phase, active, started>>
  PROVE  JInv'
<1> DEFINE l == lists[d][k]
           f == ListFrame(d, k)
<1>1. k \in Kinds /\ k # "complete" /\ c \in Cbs
  BY KindFacts DEF Plain
<1>2. /\ stack # <<>> /\ stack \in Seq(Frames) /\ Passes(stack, lists, phase) /\ Open(stack)
      /\ Alike(stack, stack)
  BY AtCode
<1>3. /\ l \in Lists(Plain) /\ added[d][k] \in Seq(Cbs) /\ ran[d][k] \in Seq(Cbs)
      /\ InStep(l, added[d][k], ran[d][k])
      /\ l.fired \in BOOLEAN /\ l.firing \in BOOLEAN /\ l.disabled \in BOOLEAN
  BY <1>1, ListTypes DEF IInv, JInv, Listed
<1>4. /\ lists' = [lists EXCEPT ![d][k] = add(l, c)]
      /\ added' = [added EXCEPT ![d][k] = Append(added[d][k], c)]
      /\ stack' = IF ~l.firing /\ lists'[d][k].firing THEN <<f>> \o stack ELSE stack
      /\ UNCHANGED <<state, ran>>
  BY <1>1 DEF addCallback, ListFrame, IInv, Types, JInv, History
<1>5. InStep(add(l, c), Append(added[d][k], c), ran[d][k]) /\ Append(added[d][k], c) \in Seq(Cbs)
  BY <1>1, <1>3, InStepAdd
<1>6. /\ add(l, c).fired = l.fired /\ add(l, c).disabled = l.disabled
      /\ l.firing => add(l, c).firing
  <2>1. l.firing => l.fired
    BY <1>3 DEF InStep
  <2>. HIDE DEF l
  <2>. QED
    BY <1>3, <2>1 DEF add, Lists
<1>. HIDE DEF l, f
<1>7. /\ lists'[d][k] = add(l, c)
      /\ \A x \in Deferreds, j \in Kinds : x # d \/ j # k => lists'[x][j] = lists[x][j]
  BY <1>1, <1>4, ListReplaced DEF IInv, Types
<1>8. /\ added'[d][k] = Append(added[d][k], c)
      /\ \A x \in Deferreds, j \in Kinds : x # d \/ j # k => added'[x][j] = added[x][j]
  BY <1>1, <1>4, ListReplaced DEF JInv, History
<1>9. /\ \A x \in Deferreds, j \in Kinds : /\ lists'[x][j].fired <=> lists[x][j].fired
                                           /\ lists'[x][j].disabled <=> lists[x][j].disabled
                                           /\ lists[x][j].firing => lists'[x][j].firing
      /\ \A x \in Deferreds, j \in Kinds : x # d \/ j # k => lists'[x][j] = lists[x][j]
  BY <1>6, <1>7 DEF l
<1>10. Listed(state', lists', added', ran')
  <2>1. \A e \in Deferreds : Linked(state[e], lists'[e])
    <3>1. \A e \in Deferreds : Linked(state[e], lists[e])
      BY DEF JInv, Listed
    <3>. QED
      BY <1>9, <3>1, KindFacts DEF Linked
  <2>2. \A e \in Deferreds, j \in Kinds : InStep(lists[e][j], added[e][j], ran[e][j])
    BY DEF JInv, Listed
  <2>3. InStep(lists'[d][k], added'[d][k], ran[d][k])
    BY <1>5, <1>7, <1>8
  <2>4. ASSUME NEW e \in Deferreds, NEW j \in Kinds
        PROVE  InStep(lists'[e][j], added'[e][j], ran[e][j])
    <3>1. CASE e = d /\ j = k
      BY <2>3, <3>1
    <3>2. CASE e # d \/ j # k
      BY <1>7, <1>8, <2>2, <3>2
    <3>. QED
      BY <3>1, <3>2
  <2>. QED
    BY <1>4, <2>1, <2>4 DEF Listed
<1>11. History'
  <2>1. added' \in [Deferreds -> [Kinds -> Seq(Cbs)]]
    BY <1>1, <1>4, <1>5 DEF JInv, History
  <2>. QED
    BY <1>4, <2>1 DEF JInv, History
<1>12. CASE ~l.firing /\ lists'[d][k].firing
  <2>1. stack' = <<f>> \o stack
    BY <1>4, <1>12
  <2>2. f \in Frames /\ f.at = "list" /\ f.of = d /\ f.kind = k
    BY <1>1, FrameKinds, FrameFields DEF ListFrame, f
  <2>3. /\ stack'[1] = f
        /\ \A x : InSeq(x, stack') <=> x = f \/ InSeq(x, stack)
    BY <1>2, <2>1, <2>2, Pushed, InPushed
  <2>4. f \in Frames /\ (f.at \in Ends => ~InSeq(f, stack))
    BY <1>1, <1>2, <1>12, <2>2, OnStack DEF f, l
  <2>5. Fits(f, stack)
    BY <1>2 DEF Fits, Open
  <2>6. Ending(<<f>> \o stack, 1, lists', phase)
    BY <1>1, <1>12, <2>1, <2>2, <2>3 DEF Ending
  <2>7. Kept(stack, f, lists, lists', phase, phase)
    <3>1. /\ \A e \in Deferreds, j \in Kinds : InSeq(ListFrame(e, j), stack) => lists'[e][j].firing
          /\ \A q \in Requests :
               /\ InSeq(Completing(q), stack) => phase[q] = "closed" /\ ~lists[q]["complete"].fired
               /\ InSeq(Completed(q), stack) => phase[q] = "closed" /\ lists[q]["complete"].fired
      BY <1>2, <1>9, OnStack
    <3>2. \A q \in Requests : lists'[q]["complete"].fired <=> lists[q]["complete"].fired
      BY <1>9, AjaxAssumption, KindFacts
    <3>3. ASSUME NEW q \in Requests, NEW j \in Outcomes, lists'[q][j].firing
          PROVE  lists[q][j].firing \/ f = ListFrame(q, j)
      BY <1>9, <3>3, AjaxAssumption, KindFacts DEF f
    <3>. QED
      BY <3>1, <3>2, <3>3 DEF Kept
  <2>8. Passes(stack', lists', phase)
    BY <1>2, <2>1, <2>4, <2>5, <2>6, <2>7, PassPushed
  <2>9. \A q \in Requests : /\ InSeq(Completing(q), stack) <=> InSeq(Completing(q), stack')
                            /\ InSeq(Completed(q), stack) <=> InSeq(Completed(q), stack')
    BY <2>2, <2>3, FrameFields
  <2>10. \A q \in Requests : q \in Deferreds /\ lists'[q]["complete"] = lists[q]["complete"]
    BY <1>1, <1>9, AjaxAssumption, KindFacts
  <2>11. ASSUME NEW q \in Requests, Broken(stack, q, lists) PROVE Broken(stack', q, lists')
    <3>1. PICK j \in Outcomes : lists[q][j].firing /\ ~InSeq(ListFrame(q, j), stack)
      BY <2>11 DEF Broken
    <3>2. lists'[q][j].firing /\ ListFrame(q, j) # f
      BY <1>9, <1>12, <2>2, <2>10, <3>1, FrameFields, KindFacts DEF l
    <3>. QED
      BY <2>3, <3>1, <3>2 DEF Broken
  <2>12. \A q \in Requests : Ended(stack', q, state, lists', phase)
    BY <2>9, <2>10, <2>11 DEF JInv, Ended
  <2>13. Counted(stack', lists', phase) = Counted(stack, lists, phase)
    BY <2>9, <2>10 DEF Counted
  <2>. QED
    BY <1>4, <1>10, <1>11, <2>8, <2>12, <2>13 DEF JInv
<1>13. CASE ~(~l.firing /\ lists'[d][k].firing)
  <2>1. stack' = stack
    BY <1>4, <1>13
  <2>2. \A x \in Deferreds, j \in Kinds : /\ lists'[x][j].firing <=> lists[x][j].firing
                                          /\ lists'[x][j].fired <=> lists[x][j].fired
    BY <1>6, <1>7, <1>13 DEF l
  <2>3. /\ Passes(stack, lists', phase)
        /\ \A q \in Requests : Ended(stack, q, state, lists', phase)
        /\ Counted(stack, lists', phase) = Counted(stack, lists, phase)
    BY <1>2, <2>2, SameFlags DEF JInv
  <2>. QED
    BY <1>4, <1>10, <1>11, <2>1, <2>3 DEF JInv
<1>. QED
  BY <1>12, <1>13

\* What settle does is settling.
LEMMA SettleSettles ==
  ASSUME NEW d, NEW k, NEW rest, settle(d, k, rest)
  PROVE  Settling(d, k, rest)
  BY DEF settle, Settling, ListFrame

\* The code returns: a handler's promise is resolved.
LEMMA returnEnds ==
  ASSUME IInv, JInv, return, UNCHANGED <<phase, active, started>>
  PROVE  JInv'
<1>1. /\ Coding /\ stack # <<>> /\ Top.at \notin Ends /\ UNCHANGED <<added, ran>>
      /\ Tail(stack) \in Seq(Frames) /\ Passes(Tail(stack), lists, phase)
      /\ Open(Tail(stack)) /\ Alike(stack, Tail(stack))
  BY AtCode DEF return, Ends
<1>2. CASE Top.of \in Promises
  <2>1. Top.of \in Deferreds \ Requests
    BY <1>2, DeferredAssumption, AjaxAssumption
  <2>2. Settling(Top.of, "done", Tail(stack)) /\ "done" \in Outcomes
    BY <1>2, SettleSettles DEF return, Outcomes
  <2>3. /\ \A r \in Requests : Ended(Tail(stack), r, state, lists, phase)
        /\ Counted(Tail(stack), lists, phase) = Counted(stack, lists, phase)
    BY <1>1, AlikeEnds DEF JInv
  <2>. QED
    BY <1>1, <2>1, <2>2, <2>3, SettlesOther
<1>3. CASE Top.of \notin Promises
  <2>1. stack' = Tail(stack) /\ UNCHANGED <<state, lists>>
    BY <1>3 DEF return
  <2>. QED
    BY <1>1, <2>1, popEnds
<1>. QED
  BY <1>2, <1>3

\* A handler returns a promise.
LEMMA returnPromiseEnds ==
  ASSUME IInv, JInv, NEW e \in Known, returnPromise(e), UNCHANGED <<phase, active, started>>
  PROVE  JInv'
<1>1. /\ Coding /\ stack # <<>> /\ Top.at \notin Ends /\ UNCHANGED <<added, ran>>
      /\ Tail(stack) \in Seq(Frames) /\ Passes(Tail(stack), lists, phase)
      /\ Open(Tail(stack)) /\ Alike(stack, Tail(stack))
  BY AtCode DEF returnPromise, Ends
<1>2. CASE e = Top.of
  <2>1. e \in Deferreds \ Requests
    BY <1>2, DeferredAssumption, AjaxAssumption DEF returnPromise
  <2>2. Settling(e, "fail", Tail(stack)) /\ "fail" \in Outcomes
    BY <1>2, SettleSettles DEF returnPromise, Outcomes
  <2>3. /\ \A r \in Requests : Ended(Tail(stack), r, state, lists, phase)
        /\ Counted(Tail(stack), lists, phase) = Counted(stack, lists, phase)
    BY <1>1, AlikeEnds DEF JInv
  <2>. QED
    BY <1>1, <2>1, <2>2, <2>3, SettlesOther
<1>3. CASE e # Top.of
  <2>1. stack' = Tail(stack) /\ UNCHANGED <<state, lists>>
    BY <1>3 DEF returnPromise
  <2>. QED
    BY <1>1, <2>1, popEnds
<1>. QED
  BY <1>2, <1>3

\* An exception unwinds the stack: what was on it above the task is lost, but a request that
\* was being completed is known by the pass that is never resumed.
LEMMA Unwound ==
  ASSUME IInv, JInv, Coding, NEW rest, \A x : InSeq(x, rest) => x.at \notin Ends
  PROVE  /\ \A r \in Requests : Ended(rest, r, state, lists, phase)
         /\ Counted(rest, lists, phase) = Counted(stack, lists, phase)
<1>1. /\ stack \in Seq(Frames) /\ stack[1].at = "code" /\ Passes(stack, lists, phase)
  BY AtCode
<1>2. \A r : /\ ~InSeq(Completing(r), rest) /\ ~InSeq(Completed(r), rest)
             /\ \A k : ~InSeq(ListFrame(r, k), rest)
  BY FrameFields DEF Ends
<1>3. ASSUME NEW x, InSeq(x, stack), x.at \in Ends
      PROVE  \E i \in 1..Len(stack) :
               /\ i > 1 /\ i - 1 \in 1..Len(stack) /\ stack[i] = x
               /\ Ending(stack, i, lists, phase) /\ Ending(stack, i - 1, lists, phase)
  <2>1. PICK i \in 1..Len(stack) : stack[i] = x
    BY <1>3 DEF InSeq
  <2>2. i # 1
    BY <1>1, <1>3, <2>1 DEF Ends
  <2>3. i > 1 /\ i - 1 \in 1..Len(stack)
    BY <1>1, <2>2
  <2>. QED
    BY <1>1, <2>1, <2>3 DEF Passes
<1>4. ASSUME NEW r \in Requests, InSeq(Completing(r), stack) PROVE Broken(rest, r, lists)
  <2>1. PICK i \in 1..Len(stack) :
               /\ i > 1 /\ i - 1 \in 1..Len(stack) /\ stack[i] = Completing(r)
               /\ Ending(stack, i, lists, phase) /\ Ending(stack, i - 1, lists, phase)
    BY <1>3, <1>4, FrameFields DEF Ends
  <2> DEFINE m == i - 1
  <2>2. m \in 1..Len(stack) /\ m + 1 = i /\ Ending(stack, m, lists, phase)
        /\ stack[m].at = "list" /\ stack[m].of = r
    BY <2>1, FrameFields DEF Ending
  <2>. HIDE DEF m
  <2>3. stack[m].kind \in Kinds /\ lists[r][stack[m].kind].firing
    BY <2>2 DEF Ending
  <2>4. stack[m].kind # "complete"
    <3>1. stack[m].kind = "complete" => stack[m + 1] = Completed(r)
      BY <2>2 DEF Ending
    <3>. QED
      BY <2>1, <2>2, <3>1, FrameFields
  <2>. QED
    BY <1>2, <2>3, <2>4, KindFacts DEF Broken
<1>5. ASSUME NEW r \in Requests, InSeq(Completed(r), stack)
      PROVE  phase[r] = "closed" /\ lists[r]["complete"].firing
  <2>1. PICK i \in 1..Len(stack) :
               /\ i > 1 /\ i - 1 \in 1..Len(stack) /\ stack[i] = Completed(r)
               /\ Ending(stack, i, lists, phase) /\ Ending(stack, i - 1, lists, phase)
    BY <1>3, <1>5, FrameFields DEF Ends
  <2>2. phase[r] = "closed" /\ (i # 1 => stack[i - 1] = ListFrame(r, "complete"))
    BY <2>1, FrameFields DEF Ending
  <2>3. stack[i - 1] = ListFrame(r, "complete")
    BY <2>1, <2>2
  <2>. QED
    BY <2>1, <2>2, <2>3, FrameFields DEF Ending
<1>6. \A r \in Requests : Ended(rest, r, state, lists, phase)
  <2>1. \A r \in Requests : Broken(stack, r, lists) => Broken(rest, r, lists)
    BY <1>2 DEF Broken
  <2>. QED
    BY <1>4, <2>1 DEF JInv, Ended
<1>7. Counted(rest, lists, phase) = Counted(stack, lists, phase)
  BY <1>2, <1>5 DEF Counted
<1>. QED
  BY <1>6, <1>7

\* The stack is unwound, down to a task or altogether.
LEMMA throwEnds ==
  ASSUME IInv, JInv, throw, UNCHANGED <<phase, active, started>>
  PROVE  JInv'
<1> DEFINE bottom == stack[Len(stack)]
<1>1. Coding /\ unwind /\ UNCHANGED <<added, ran>>
  BY DEF throw
<1>2. /\ stack # <<>> /\ stack \in Seq(Frames) /\ GoodStack(stack, state)
      /\ Len(stack) \in Nat /\ Len(stack) >= 1
  BY <1>1, AtCode, AtFrame DEF IInv, Types
<1>3. Passes(<<>>, lists, phase) /\ Open(<<>>) /\ <<>> \in Seq(Frames) /\ \A x : ~InSeq(x, <<>>)
  BY DEF Passes, Once, Open, InSeq
<1>4. CASE bottom.at = "task"
  <2>1. /\ bottom \in Frames /\ bottom.of \in Promises /\ settle(bottom.of, "fail", <<bottom>>)
    <3>1. Placed(stack, Len(stack), state) /\ bottom \in Frames
      BY <1>2, ElementOfSeq DEF GoodStack
    <3>. QED
      BY <1>1, <1>4, <3>1 DEF Placed, unwind
  <2>2. bottom.of \in Deferreds \ Requests /\ "fail" \in Outcomes
    BY <2>1, DeferredAssumption, AjaxAssumption DEF Outcomes
  <2>3. bottom.at \notin Ends /\ bottom.at \notin {"send", "sent"}
    BY <1>4 DEF Ends
  <2>. HIDE DEF bottom
  <2>4. <<bottom>> \o <<>> = <<bottom>>
    BY <2>1
  <2>5. /\ Passes(<<bottom>>, lists, phase) /\ Open(<<bottom>>) /\ <<bottom>> \in Seq(Frames)
    BY <1>3, <2>1, <2>3, <2>4, OtherPushed
  <2>6. \A x : InSeq(x, <<bottom>>) => x.at \notin Ends
    BY <1>3, <2>1, <2>3, <2>4, InPushed
  <2>7. /\ \A r \in Requests : Ended(<<bottom>>, r, state, lists, phase)
        /\ Counted(<<bottom>>, lists, phase) = Counted(stack, lists, phase)
    BY <1>1, <2>6, Unwound
  <2>8. Settling(bottom.of, "fail", <<bottom>>)
    BY <2>1, SettleSettles
  <2>. QED
    BY <1>1, <2>2, <2>5, <2>7, <2>8, SettlesOther
<1>5. CASE bottom.at # "task"
  <2>1. stack' = <<>> /\ UNCHANGED <<state, lists>>
    BY <1>1, <1>5 DEF unwind
  <2>2. /\ \A r \in Requests : Ended(<<>>, r, state, lists, phase)
        /\ Counted(<<>>, lists, phase) = Counted(stack, lists, phase)
    BY <1>1, <1>3, Unwound
  <2>3. History'
    BY <1>1 DEF JInv, History
  <2>. QED
    BY <1>1, <1>3, <2>1, <2>2, <2>3 DEF JInv
<1>. QED
  BY <1>4, <1>5

\* A task of then.
LEMMA runTaskEnds ==
  ASSUME IInv, JInv, runTask, UNCHANGED <<phase, active, started>>
  PROVE  JInv'
<1> DEFINE p == Head(tasks)
           k == IF state[source[p]] = "resolved" THEN "done" ELSE "fail"
           task == Frame("task", p, Nothing)
<1>1. stack = <<>> /\ tasks # <<>> /\ tasks \in Seq(Promises) /\ UNCHANGED <<added, ran>>
  BY DEF runTask, Idle, IInv, Types
<1>2. p \in Promises /\ p \in Deferreds \ Requests /\ state[p] = "pending"
  <2>1. p \in Promises /\ InSeq(p, tasks)
    BY <1>1, Popped DEF InSeq
  <2>2. state[p] = "pending"
    BY <2>1 DEF IInv, Chained
  <2>. QED
    BY <2>1, <2>2, DeferredAssumption, AjaxAssumption
<1>3. /\ <<>> \in Seq(Frames) /\ Passes(<<>>, lists, phase) /\ Open(<<>>)
      /\ Alike(stack, <<>>)
  BY <1>1, AtRest
<1>4. task \in Frames /\ task.at = "task"
  BY <1>2, TaskAlone DEF Frame
<1>5. k \in Outcomes
  BY DEF Outcomes
<1>6. IF k \in handles[p]
        THEN stack' = <<Code(p), task>> /\ UNCHANGED <<state, lists>>
        ELSE /\ state' = [state EXCEPT ![p] = Outcome[k]]
             /\ lists' = [lists EXCEPT ![p][k] = fire(@), ![p][Other[k]] = disable(@)]
             /\ stack' = <<Frame("list", p, k), task>>
  BY DEF runTask
<1>. HIDE DEF k, task
<1>7. /\ <<task>> \in Seq(Frames) /\ Passes(<<task>>, lists, phase) /\ Open(<<task>>)
      /\ Alike(stack, <<task>>)
  <2>1. <<task>> \o <<>> = <<task>> /\ task.at \notin Ends /\ task.at \notin {"send", "sent"}
    BY <1>4 DEF Ends
  <2>2. /\ <<task>> \o <<>> \in Seq(Frames) /\ Passes(<<task>> \o <<>>, lists, phase)
        /\ Open(<<task>> \o <<>>) /\ Alike(<<>>, <<task>> \o <<>>)
    BY <1>3, <1>4, <2>1, OtherPushed
  <2>. QED
    BY <1>1, <2>1, <2>2
<1>8. CASE k \in handles[p]
  <2>1. Code(p) \in Frames /\ Code(p).at = "code"
    BY <1>2 DEF Code, Frame, Frames
  <2>2. Code(p).at \notin Ends /\ Code(p).at \notin {"send", "sent"}
    BY <2>1 DEF Ends
  <2>3. stack' = <<Code(p)>> \o <<task>>
    BY <1>4, <1>6, <1>8, <2>1
  <2>4. Passes(stack', lists, phase) /\ Alike(<<task>>, stack')
    BY <1>7, <2>1, <2>2, <2>3, OtherPushed
  <2>5. Alike(stack, stack')
    BY <1>7, <2>4 DEF Alike
  <2>. QED
    BY <1>1, <1>6, <1>8, <2>4, <2>5, Quiet DEF JInv, History
<1>9. CASE k \notin handles[p]
  <2>1. ListFrame(p, k) \in Frames
    BY <1>2, <1>5, FrameKinds, KindFacts DEF ListFrame
  <2>2. stack' = <<ListFrame(p, k)>> \o <<task>>
    BY <1>4, <1>6, <1>9, <2>1 DEF ListFrame
  <2>3. Settling(p, k, <<task>>)
    BY <1>2, <1>6, <1>9, <2>2 DEF Settling
  <2>4. /\ \A r \in Requests : Ended(<<task>>, r, state, lists, phase)
        /\ Counted(<<task>>, lists, phase) = Counted(stack, lists, phase)
    BY <1>7, AlikeEnds DEF JInv
  <2>. HIDE DEF p
  <2>. QED
    BY <1>1, <1>2, <1>5, <1>7, <2>3, <2>4, SettlesOther
<1>. QED
  BY <1>8, <1>9

\* The document is ready.
LEMMA readyEnds ==
  ASSUME IInv, JInv, ready
  PROVE  JInv'
<1>1. stack = <<>> /\ UNCHANGED <<added, ran, phase, active, started>>
  BY DEF ready, Idle
<1>2. Dom \in Deferreds \ Requests /\ "done" \in Outcomes /\ Settling(Dom, "done", <<>>)
  BY AjaxAssumption, SettleSettles DEF ready, Outcomes
<1>3. /\ <<>> \in Seq(Frames) /\ Passes(<<>>, lists, phase) /\ Open(<<>>)
      /\ Alike(stack, <<>>)
  BY <1>1, AtRest
<1>4. /\ \A r \in Requests : Ended(<<>>, r, state, lists, phase)
      /\ Counted(<<>>, lists, phase) = Counted(stack, lists, phase)
  BY <1>3, AlikeEnds DEF JInv
<1>. QED
  BY <1>1, <1>2, <1>3, <1>4, SettlesOther

-----------------------------------------------------------------------------
(* What follows from the second invariant. *)

\* It holds at first,
LEMMA InitEnds == Init => JInv
<1>. SUFFICES ASSUME Init PROVE JInv
  OBVIOUS
<1>1. /\ stack = <<>> /\ active = 0 /\ started = {}
      /\ state = [d \in Deferreds |-> "pending"]
      /\ lists = [d \in Deferreds |-> [k \in Kinds |-> EmptyList]]
      /\ added = [d \in Deferreds |-> [k \in Kinds |-> <<>>]] /\ ran = added
      /\ phase = [r \in Requests |-> "new"]
  BY DEF Init, DeferredInit
<1>2. History
  BY <1>1 DEF History
<1>3. \A d \in Deferreds, k \in Kinds :
        /\ ~lists[d][k].fired /\ ~lists[d][k].firing /\ ~lists[d][k].disabled
        /\ InStep(lists[d][k], added[d][k], ran[d][k])
  BY <1>1 DEF EmptyList, InStep
<1>4. Listed(state, lists, added, ran)
  BY <1>1, <1>3, KindFacts DEF Listed, Linked
<1>5. /\ Passes(stack, lists, phase) /\ \A x : ~InSeq(x, stack)
  BY <1>1 DEF Passes, Once, InSeq
<1>6. \A r \in Requests : phase[r] = "new" /\ state[r] = "pending" /\ ~lists[r]["complete"].fired
  BY <1>1, <1>3, AjaxAssumption, KindFacts
<1>7. \A r \in Requests : Ended(stack, r, state, lists, phase)
  BY <1>6 DEF Ended
<1>8. Counted(stack, lists, phase) = {}
  BY <1>5, <1>6 DEF Counted
<1>. QED
  BY <1>1, <1>2, <1>4, <1>5, <1>7, <1>8, FS_EmptySet DEF JInv

\* and after every step, if the first invariant does.
LEMMA NextEnds == IInv /\ JInv /\ [Next]_vars => JInv'
<1>. SUFFICES ASSUME IInv, JInv, [Next]_vars PROVE JInv'
  OBVIOUS
<1>1. CASE Act
  <2>1. CASE \E d \in Known \ {Dom}, k \in {"done", "fail"}, c \in Free :
               addCallback(d, k, c) /\ UNCHANGED <<phase, active, started>>
    <3>1. PICK d \in Known, k \in Outcomes, c \in Free :
            addCallback(d, k, c) /\ UNCHANGED <<phase, active, started>>
      BY <2>1 DEF Outcomes
    <3>2. c \in Plain /\ d \in Deferreds /\ Coding
      BY <1>1, KnownDeferreds DEF Free, Plain, Act
    <3>. QED
      BY <3>1, <3>2, addCallbackEnds
  <2>2. CASE \E d \in Known, p \in Promises, given \in SUBSET {"done", "fail"} :
               then(d, p, given) /\ UNCHANGED <<phase, active, started>>
    <3>1. UNCHANGED <<state, lists, stack, added, ran, phase, active, started>>
      BY <2>2 DEF then
    <3>. QED
      BY <3>1, Quiet DEF JInv, History, Alike
  <2>3. CASE \E r \in Requests : ajax(r) \/ abort(r)
    BY <2>3, ajaxEnds, abortEnds
  <2>. QED
    BY <1>1, <2>1, <2>2, <2>3 DEF Act
<1>2. CASE Thread
  <2>1. CASE hookRefuses \/ send \/ sendThrows \/ complete \/ completed
    BY <2>1, hookRefusesEnds, sendEnds, sendThrowsEnds, completeEnds, completedEnds
  <2>2. CASE sent \/ (endTask /\ UNCHANGED <<phase, active, started>>)
    <3>1. /\ stack # <<>> /\ Top.at \notin Ends /\ stack' = Tail(stack)
          /\ UNCHANGED <<state, lists, added, ran, phase, active, started>>
      BY <2>2 DEF sent, endTask, Running, Top, Ends
    <3>. QED
      BY <3>1, popEnds
  <2>3. CASE /\ fireNext \/ fireEnd \/ return \/ throw \/ runTask
             /\ UNCHANGED <<phase, active, started>>
    BY <2>3, fireNextEnds, fireEndEnds, returnEnds, throwEnds, runTaskEnds
  <2>4. CASE \E e \in Known \ {Dom} : returnPromise(e) /\ UNCHANGED <<phase, active, started>>
    BY <2>4, returnPromiseEnds
  <2>. QED
    BY <1>2, <2>1, <2>2, <2>3, <2>4 DEF Thread
<1>3. CASE Events
  BY <1>3, BrowserEnds, ScriptEnds, readyEnds DEF Events
<1>4. CASE UNCHANGED vars
  BY <1>4, Quiet DEF vars, deferredVars, chains, JInv, History, Alike
<1>. QED
  BY <1>1, <1>2, <1>3, <1>4 DEF Next

\* Both invariants hold.
LEMMA BothHold == Spec => [](IInv /\ JInv)
  BY InitHolds, NextHolds, InitEnds, NextEnds, PTL DEF Spec

\* The types that a run checks: every frame is of one of the kinds there are, no list holds
\* anything but callbacks, and jQuery.active never falls below zero.
THEOREM AjaxTypes == Spec => []TypeOK
<1>1. IInv /\ JInv => TypeOK
  <2>. SUFFICES ASSUME IInv, JInv PROVE TypeOK
    OBVIOUS
  <2>1. Lists(Plain) \subseteq Lists(Cbs)
    <3>1. Plain \subseteq Cbs
      BY DEF Plain
    <3>2. Seq(Plain) \subseteq Seq(Cbs)
      BY <3>1
    <3>. QED
      BY <3>2 DEF Lists
  <2>2. lists \in [Deferreds -> [Kinds -> Lists(Cbs)]]
    BY <2>1 DEF IInv, Types
  <2>3. active \in Nat
    BY FS_CardinalityType DEF JInv
  <2>. QED
    BY <2>2, <2>3 DEF IInv, Types, JInv, History, TypeOK, DeferredTypeOK, States, Outcomes
<1>. QED
  BY <1>1, BothHold, PTL

\* Every list runs its callbacks in the order in which they were added, each once, only when
\* it was fired, and all of them unless an exception cut the pass off (fire in
\* jQuery.Callbacks), however they are nested and whatever they do to the list.
THEOREM ListsRunInOrder == Spec => []CallbacksInOrder
<1>1. IInv /\ JInv => CallbacksInOrder
  <2>. SUFFICES ASSUME IInv, JInv, NEW d \in Deferreds, NEW k \in Kinds
                PROVE  /\ ran[d][k] = SubSeq(added[d][k], 1, Len(ran[d][k]))
                       /\ ran[d][k] # <<>> => Fired(d, k)
                       /\ Idle /\ Fired(d, k) /\ ~lists[d][k].firing => ran[d][k] = added[d][k]
    BY DEF CallbacksInOrder
  <2>1. /\ lists[d][k] \in Lists(Plain) /\ added[d][k] \in Seq(Cbs) /\ ran[d][k] \in Seq(Cbs)
        /\ InStep(lists[d][k], added[d][k], ran[d][k])
    BY ListTypes DEF IInv, JInv, Listed
  <2>2. Fired(d, k) <=> lists[d][k].fired
    BY KindFacts DEF Fired, JInv, Listed, Linked
  <2>. QED
    BY <2>1, <2>2, InStepRan
<1>. QED
  BY <1>1, BothHold, PTL

\* jQuery.active counts the requests under way and those that an exception has cut off,
\* and nothing else (done and ajax in jquery-3.6.4.js).
THEOREM RequestsCounted == Spec => []ActiveCounts
<1>1. IInv /\ JInv => ActiveCounts
  <2>. SUFFICES ASSUME IInv, JInv, Idle PROVE
            /\ active = Cardinality({r \in Requests : phase[r] \in {"hook", "open"} \/ Cut(r)})
            /\ \A r \in Requests : Cut(r) => \E k \in Kinds : lists[r][k].firing
    BY DEF ActiveCounts
  <2>1. \A x : ~InSeq(x, stack)
    BY DEF Idle, InSeq
  <2>2. Counted(stack, lists, phase)
          = {r \in Requests : phase[r] \in {"hook", "open"} \/ Cut(r)}
    BY <2>1 DEF Counted, Cut
  <2>3. ASSUME NEW r \in Requests, Cut(r) PROVE \E k \in Kinds : lists[r][k].firing
    BY <2>1, <2>3, KindFacts DEF Cut, JInv, Ended, Broken
  <2>. QED
    BY <2>2, <2>3 DEF JInv
<1>. QED
  BY <1>1, BothHold, PTL

\* A complete callback runs when all the callbacks for the outcome have run, those that were
\* added by a callback included (done in ajax).
THEOREM CompleteLast == Spec => CompleteIsLast
<1>1. ASSUME IInv, JInv, [Next]_vars, NEW r \in Requests,
             ran'[r]["complete"] # ran[r]["complete"]
      PROVE  \E k \in DOMAIN Outcome : state[r] = Outcome[k] /\ ran[r][k] = added[r][k]
  <2>1. fireNext
    <3>1. ran' # ran
      BY <1>1
    <3>. QED
      BY <1>1, <3>1 DEF Next, Act, Thread, Events, addCallback, then, ajax, abort, hookRefuses,
         send, sent, sendThrows, complete, completed, fireEnd, return, throw, runTask, endTask,
         returnPromise, Answer, Timeout, Script, ready, vars, deferredVars
  <2> DEFINE d == Top.of
             j == Top.kind
  <2>2. /\ stack # <<>> /\ Top.at = "list"
        /\ ran' = [ran EXCEPT ![d][j] = Append(@, nextCallback(lists[d][j]))]
    BY <2>1 DEF fireNext, Running, Top
  <2>3. /\ Top = stack[1] /\ Ending(stack, 1, lists, phase) /\ stack \in Seq(Frames)
        /\ Len(stack) \in Nat /\ Len(stack) >= 1 /\ Passes(stack, lists, phase)
    BY <1>1, <2>2, AtTop
  <2>4. d = r /\ j = "complete"
    <3>1. d \in Deferreds /\ j \in Kinds /\ r \in Deferreds /\ "complete" \in Kinds
      BY <1>1, <2>2, <2>3, AjaxAssumption, KindFacts DEF Ending
    <3>2. ran \in [Deferreds -> [Kinds -> Seq(Cbs)]]
      BY <1>1 DEF JInv, History
    <3>. HIDE DEF d, j
    <3>. QED
      BY <1>1, <2>2, <3>1, <3>2
  <2>5. /\ \A k \in Outcomes : ~lists[r][k].firing
        /\ Len(stack) > 1 /\ stack[2] = Completed(r)
    BY <2>2, <2>3, <2>4 DEF Ending
  <2>6. phase[r] = "closed"
    <3>1. 2 \in 1..Len(stack)
      BY <2>3, <2>5
    <3>2. InSeq(Completed(r), stack)
      BY <2>5, <3>1 DEF InSeq
    <3>. QED
      BY <1>1, <2>3, <3>2, OnStack
  <2>7. PICK k \in Outcomes : state[r] = Outcome[k]
    <3>1. state[r] \in States /\ state[r] # "pending"
      BY <1>1, <2>6, AjaxAssumption DEF JInv, Ended, IInv, Types
    <3>. QED
      BY <3>1, KindFacts
  <2>8. lists[r][k].fired /\ ~lists[r][k].firing /\ r \in Deferreds /\ k \in Kinds
    BY <1>1, <2>5, <2>7, AjaxAssumption, KindFacts DEF JInv, Listed, Linked
  <2>9. ran[r][k] = added[r][k]
    <3>1. /\ lists[r][k] \in Lists(Plain) /\ added[r][k] \in Seq(Cbs) /\ ran[r][k] \in Seq(Cbs)
          /\ InStep(lists[r][k], added[r][k], ran[r][k])
      BY <1>1, <2>8, ListTypes DEF IInv, JInv, Listed
    <3>. QED
      BY <2>8, <3>1, InStepRan
  <2>. QED
    BY <2>7, <2>9 DEF Outcome, Outcomes
<1>2. IInv /\ JInv /\ [Next]_vars =>
        [\A r \in Requests : ran'[r]["complete"] # ran[r]["complete"] =>
           \E k \in DOMAIN Outcome : state[r] = Outcome[k] /\ ran[r][k] = added[r][k]]_vars
  BY <1>1
<1>. QED
  BY <1>2, BothHold, PTL DEF Spec, CompleteIsLast
=============================================================================
