------------------------------- MODULE FxProofs -------------------------------
(***************************************************************************)
(* For any elements and any number of requests, however fades are begun,   *)
(* stopped, finished and overridden while the frames go through the        *)
(* timers: no queue waits for nothing, no two animations fight over an     *)
(* element, its own opacity is never lost, the last fade wins, and a       *)
(* promise waits for its queues until they are empty, and not longer.      *)
(*                                                                         *)
(* What finish makes of an element is defined by recursion on the requests *)
(* that wait; the induction that this needs is made on sets of numbers,    *)
(* from the well-foundedness of < (Everything, Recursion).                 *)
(***************************************************************************)
EXTENDS Fx, TLAPS, SequenceTheorems, FiniteSetTheorems, WellFoundedInduction

-----------------------------------------------------------------------------
(* Induction, on a set of numbers. *)

\* A set of numbers that has 0, and the next of every number it has, has them all.
LEMMA Everything ==
  ASSUME NEW T, 0 \in T, \A k \in Nat : k \in T => k + 1 \in T
  PROVE  \A k \in Nat : k \in T
<1>. DEFINE R == OpToRel(<, Nat)
            Rest == {k \in Nat : k \notin T}
<1>1. SUFFICES ASSUME Rest # {} PROVE FALSE
  OBVIOUS
<1>2. IsWellFoundedOn(R, Nat)
  BY NatLessThanWellFounded
<1>3. Rest \subseteq Nat
  OBVIOUS
<1>. HIDE DEF R
<1>4. PICK x \in Rest : \A y \in Rest : ~(<<y, x>> \in R)
  BY <1>1, <1>2, <1>3, WFMin
<1>5. \A y \in Rest : ~(y < x)
  BY <1>4, <1>3 DEF R, OpToRel
<1>6. x - 1 \in Nat /\ x - 1 < x /\ (x - 1) + 1 = x
  OBVIOUS
<1>7. x - 1 \in T
  BY <1>5, <1>6
<1>. QED
  BY <1>6, <1>7

\* g leads from each value of S and each number up to n to a value of S; f is what it
\* makes of b in n steps.
Leads(g, n, S) == \A k \in 1..n, x \in S : g[<<k, x>>] \in S
Follows(f, n, S, b, g) ==
  f \in [0..n -> S] /\ f[0] = b /\ \A k \in 1..n : f[k] = g[<<k, f[k - 1]>>]

\* A function that is defined by recursion on the numbers up to n exists, if each step
\* leads from a value to a value.
LEMMA Recursion ==
  ASSUME NEW n \in Nat, NEW S, NEW b \in S, NEW g, Leads(g, n, S)
  PROVE  \E f : Follows(f, n, S, b, g)
<1>. DEFINE Upto(m) ==
              \E f \in [0..m -> S] : f[0] = b /\ \A k \in 1..m : f[k] = g[<<k, f[k - 1]>>]
            T == {m \in Nat : m <= n => Upto(m)}
<1>1. Upto(0)
  <2>1. [k \in 0..0 |-> b] \in [0..0 -> S] /\ [k \in 0..0 |-> b][0] = b
    OBVIOUS
  <2>2. 1..0 = {}
    OBVIOUS
  <2>. QED
    BY <2>1, <2>2
<1>2. ASSUME NEW m \in Nat, m + 1 <= n, Upto(m) PROVE Upto(m + 1)
  <2>1. PICK f \in [0..m -> S] : f[0] = b /\ \A k \in 1..m : f[k] = g[<<k, f[k - 1]>>]
    BY <1>2
  <2>. DEFINE h == [k \in 0..(m + 1) |-> IF k = m + 1 THEN g[<<m + 1, f[m]>>] ELSE f[k]]
  <2>2. f[m] \in S /\ m + 1 \in 1..n
    BY <1>2
  <2>3. g[<<m + 1, f[m]>>] \in S
    BY <2>2 DEF Leads
  <2>4. h \in [0..(m + 1) -> S]
    BY <2>3
  <2>5. h[0] = b
    BY <2>1
  <2>6. ASSUME NEW k \in 1..(m + 1) PROVE h[k] = g[<<k, h[k - 1]>>]
    <3>1. k - 1 \in 0..m /\ k \in 0..(m + 1)
      OBVIOUS
    <3>2. h[k - 1] = f[k - 1]
      BY <3>1
    <3>3. CASE k = m + 1
      <4>1. k - 1 = m /\ h[m + 1] = g[<<m + 1, f[m]>>]
        BY <3>3
      <4>. QED
        BY <3>2, <3>3, <4>1
    <3>4. CASE k # m + 1
      BY <3>1, <3>2, <3>4, <2>1
    <3>. QED
      BY <3>3, <3>4
  <2>. HIDE DEF h
  <2>. QED
    BY <2>4, <2>5, <2>6
<1>. HIDE DEF Upto
<1>3. 0 \in T
  BY <1>1
<1>4. ASSUME NEW m \in Nat, m \in T PROVE m + 1 \in T
  <2>1. m + 1 \in Nat /\ (m + 1 <= n => m <= n)
    OBVIOUS
  <2>. QED
    BY <1>2, <1>4, <2>1
<1>. HIDE DEF T
<1>5. n \in T
  BY <1>3, <1>4, Everything
<1>6. Upto(n)
  BY <1>5 DEF T
<1>. QED
  BY <1>6 DEF Upto, Follows

-----------------------------------------------------------------------------
(* Sequences. *)

\* The list closes up over what is taken out of it.
LEMMA Spliced ==
  ASSUME NEW S, NEW s \in Seq(S), NEW k \in 1..Len(s)
  PROVE  /\ RemoveAt(s, k) \in Seq(S)
         /\ Len(s) \in Nat /\ Len(RemoveAt(s, k)) = Len(s) - 1
         /\ \A i \in 1..(Len(s) - 1) : RemoveAt(s, k)[i] = IF i < k THEN s[i] ELSE s[i + 1]
<1>. DEFINE a == SubSeq(s, 1, k - 1)
            c == SubSeq(s, k + 1, Len(s))
<1>0. Len(s) \in Nat /\ k - 1 \in Nat /\ k + 1 \in Nat
  BY LenProperties
<1>1. a \in Seq(S) /\ Len(a) = k - 1 /\ \A i \in 1..(k - 1) : a[i] = s[i]
  BY <1>0, SubSeqProperties
<1>2. c \in Seq(S) /\ Len(c) = Len(s) - k /\ \A i \in 1..(Len(s) - k) : c[i] = s[k + i]
  BY <1>0, SubSeqProperties
<1>3. RemoveAt(s, k) = a \o c
  BY DEF RemoveAt
<1>. HIDE DEF a, c
<1>4. /\ a \o c \in Seq(S) /\ Len(a \o c) = Len(a) + Len(c)
      /\ \A i \in 1..(Len(a) + Len(c)) : (a \o c)[i] = IF i <= Len(a) THEN a[i] ELSE c[i - Len(a)]
  BY <1>1, <1>2, ConcatProperties
<1>5. Len(a) + Len(c) = Len(s) - 1
  BY <1>0, <1>1, <1>2
<1>6. ASSUME NEW i \in 1..(Len(s) - 1)
      PROVE  (a \o c)[i] = IF i < k THEN s[i] ELSE s[i + 1]
  <2>1. (a \o c)[i] = IF i <= k - 1 THEN a[i] ELSE c[i - (k - 1)]
    BY <1>1, <1>4, <1>5
  <2>2. CASE i < k
    <3>1. i <= k - 1 /\ i \in 1..(k - 1)
      BY <2>2, <1>0
    <3>. QED
      BY <2>1, <2>2, <3>1, <1>1
  <2>3. CASE ~(i < k)
    <3>1. ~(i <= k - 1) /\ i - (k - 1) \in 1..(Len(s) - k) /\ k + (i - (k - 1)) = i + 1
      BY <2>3, <1>0
    <3>. QED
      BY <2>1, <2>3, <3>1, <1>2
  <2>. QED
    BY <2>2, <2>3
<1>. QED
  BY <1>0, <1>3, <1>4, <1>5, <1>6

-----------------------------------------------------------------------------
(* An element, and its animation. *)

\* An element without an animation has its own opacity, and is as it was last asked to
\* be, unless a fade was stopped half-way.
Settled(el) ==
  /\ Own(el) = "own"
  /\ ~el.halted => el.fxshow = Nothing /\ (el.last # Nothing => el.shown = (el.last = "show"))

\* An element with the animation a comes back to its own opacity, and to what was asked
\* for last: by the animation, or as it is when there is nothing to animate.
Fading(el, a) ==
  /\ a.own = "own" /\ Own(el) = "own"
  /\ ~a.tween => Settled(el)
  /\ a.tween => el.fxshow = "own"
  /\ a.tween /\ a.fade = "hide" => el.last = "hide"
  /\ a.tween /\ a.fade = "show" => el.last # Nothing /\ el.shown = (el.last = "show")

\* What a fade makes of an element is an element, with the queue it had.
LEMMA Begun ==
  ASSUME NEW e \in Elements, NEW el \in ElementState, NEW fade \in Fades
  PROVE  /\ begin(el, fade) \in ElementState /\ Animation(e, el, fade) \in Animations
         /\ Animation(e, el, fade).elem = e
         /\ begin(el, fade).queue = el.queue /\ begin(el, fade).hooks = el.hooks
<1>1. Own(el) \in Opacities
  BY DEF Own, ElementState, Opacities
<1>2. Animates(el, fade) \in BOOLEAN
  BY DEF Animates, ElementState
<1>. QED
  BY <1>1, <1>2 DEF begin, showHide, Animation, Animations, ElementState, Fades

\* So is what the end of an animation makes of it.
LEMMA Ended ==
  ASSUME NEW el \in ElementState, NEW a \in Animations
  PROVE  /\ end(el, a) \in ElementState
         /\ end(el, a).queue = el.queue /\ end(el, a).hooks = el.hooks
  BY DEF end, showHide, ElementState, Animations

\* A fade that begins on a settled element is on its way.
LEMMA BeginsFading ==
  ASSUME NEW e \in Elements, NEW el \in ElementState, NEW fade \in Fades, Settled(el)
  PROVE  Fading(begin(el, fade), Animation(e, el, fade))
<1>. DEFINE b == begin(el, fade)
            a == Animation(e, el, fade)
<1>0. Nothing \notin Fades /\ Nothing \notin Opacities
  BY FxAssumption
<1>1. a.own = "own" /\ a.tween = Animates(el, fade) /\ a.fade = fade
  BY DEF Animation, Settled
<1>2. el.halted \in BOOLEAN /\ el.shown \in BOOLEAN
  BY DEF ElementState
<1>3. CASE Animates(el, fade)
  <2>1. /\ b.fxshow = "own" /\ b.shown = TRUE /\ b.last = fade
    BY <1>3 DEF begin, showHide, Settled, ElementState
  <2>2. Own(b) = "own"
    BY <2>1, <1>0 DEF Own, Opacities
  <2>. QED
    BY <2>1, <2>2, <1>0, <1>1, <1>3 DEF Fading, Fades
<1>4. CASE ~Animates(el, fade)
  <2>1. /\ b.fxshow = el.fxshow /\ b.opacity = el.opacity /\ b.shown = el.shown
        /\ b.last = fade /\ b.halted = (el.halted /\ fade = "hide" /\ ~el.shown)
    BY <1>4 DEF begin, ElementState
  <2>2. Own(b) = "own"
    BY <2>1 DEF Own, Settled
  <2>3. CASE fade = "show"
    <3>1. el.shown /\ el.fxshow = Nothing
      BY <1>4, <2>3 DEF Animates
    <3>. QED
      BY <3>1, <2>1, <2>2, <2>3, <1>1, <1>4, <1>2 DEF Fading, Settled
  <2>4. CASE fade = "hide"
    <3>1. ~el.shown
      BY <1>4, <2>4 DEF Animates
    <3>. QED
      BY <3>1, <2>1, <2>2, <2>4, <1>1, <1>4, <1>2 DEF Fading, Settled
  <2>. QED
    BY <2>3, <2>4 DEF Fades
<1>. QED
  BY <1>3, <1>4

\* A fade that ends leaves a settled element.
LEMMA EndsSettled ==
  ASSUME NEW el \in ElementState, NEW a \in Animations, Fading(el, a)
  PROVE  Settled(end(el, a))
<1>0. Nothing \notin Fades /\ Nothing \notin Opacities
  BY FxAssumption
<1>1. el.shown \in BOOLEAN /\ a.tween \in BOOLEAN /\ a.fade \in Fades
  BY DEF ElementState, Animations
<1>2. CASE ~a.tween
  BY <1>2 DEF end, Fading
<1>3. CASE a.tween
  <2>. DEFINE d == end(el, a)
  <2>1. /\ d.opacity = a.own /\ d.fxshow = Nothing /\ d.last = el.last
        /\ d.shown = (a.fade = "show" /\ el.shown)
    BY <1>3 DEF end, showHide, ElementState
  <2>2. Own(d) = "own"
    BY <2>1 DEF Own, Fading
  <2>3. el.last # Nothing => d.shown = (el.last = "show")
    BY <2>1, <1>1, <1>3 DEF Fading, Fades
  <2>. QED
    BY <2>1, <2>2, <2>3 DEF Settled
<1>. QED
  BY <1>1, <1>2, <1>3

\* A fade that is stopped half-way leaves one too.
LEMMA HaltedSettled ==
  ASSUME NEW el \in ElementState, Own(el) = "own"
  PROVE  Settled([el EXCEPT !.halted = TRUE])
  BY DEF Settled, Own, ElementState

-----------------------------------------------------------------------------
(* What is still in the queue when finish is called. *)

\* Nothing is under way on the element, and nothing waits.
Done(el) == Settled(el) /\ el.queue = <<>> /\ ~el.hooks

\* Each request begins and ends on a settled element, and leaves one.
LEMMA EachDone ==
  ASSUME NEW e \in Elements, NEW el \in ElementState, NEW fade \in Fades, Done(el)
  PROVE  /\ end(begin(el, fade), Animation(e, el, fade)) \in ElementState
         /\ Done(end(begin(el, fade), Animation(e, el, fade)))
<1>1. Fading(begin(el, fade), Animation(e, el, fade))
  BY BeginsFading DEF Done
<1>2. /\ begin(el, fade) \in ElementState /\ Animation(e, el, fade) \in Animations
      /\ begin(el, fade).queue = <<>> /\ ~begin(el, fade).hooks
  BY Begun DEF Done
<1>3. Settled(end(begin(el, fade), Animation(e, el, fade)))
  BY <1>1, <1>2, EndsSettled
<1>4. /\ end(begin(el, fade), Animation(e, el, fade)) \in ElementState
      /\ end(begin(el, fade), Animation(e, el, fade)).queue = <<>>
      /\ ~end(begin(el, fade), Animation(e, el, fade)).hooks
  BY <1>2, Ended
<1>. QED
  BY <1>3, <1>4 DEF Done

\* However many there are.
LEMMA AllDone ==
  ASSUME NEW e \in Elements, NEW el \in ElementState, NEW rest \in Seq(Fades), Done(el)
  PROVE  over(e, el, rest) \in ElementState /\ Done(over(e, el, rest))
<1>. DEFINE n == Len(rest)
            S == {x \in ElementState : Done(x)}
            next(x, k) == end(begin(x, rest[k]), Animation(e, x, rest[k]))
            g == [p \in (1..n) \X S |-> next(p[2], p[1])]
            IsAfter(f) == f = [k \in 0..n |-> IF k = 0 THEN el ELSE next(f[k - 1], k)]
<1>1. n \in Nat /\ \A k \in 1..n : rest[k] \in Fades
  BY LenProperties, ElementOfSeq
<1>2. el \in S
  OBVIOUS
<1>3. \A k \in 1..n, x \in S : next(x, k) \in S
  BY <1>1, EachDone
<1>. HIDE DEF next, n, S
<1>4. \A k \in 1..n, x \in S : g[<<k, x>>] = next(x, k)
  OBVIOUS
<1>5. Leads(g, n, S)
  BY <1>3, <1>4 DEF Leads
<1>. HIDE DEF g
<1>6. PICK f : Follows(f, n, S, el, g)
  BY <1>1, <1>2, <1>5, Recursion
<1>7. IsAfter(f)
  <2>1. ASSUME NEW k \in 0..n PROVE f[k] = IF k = 0 THEN el ELSE next(f[k - 1], k)
    <3>1. CASE k = 0
      BY <1>6, <3>1 DEF Follows
    <3>2. CASE k # 0
      <4>1. k \in 1..n /\ k - 1 \in 0..n
        BY <1>1, <3>2
      <4>. QED
        BY <1>6, <1>4, <3>2, <4>1 DEF Follows
    <3>. QED
      BY <3>1, <3>2
  <2>. QED
    BY <1>6, <2>1 DEF Follows
<1>. DEFINE after == CHOOSE h : IsAfter(h)
<1>8. over(e, el, rest) = after[n]
  BY DEF over, n, next
<1>9. IsAfter(after)
  BY <1>7
<1>. HIDE DEF after
<1>10. after[0] = el /\ \A k \in 1..n : after[k] = next(after[k - 1], k)
  BY <1>1, <1>9
<1>. DEFINE T == {k \in Nat : k <= n => after[k] \in S}
<1>11. 0 \in T
  BY <1>2, <1>10
<1>12. ASSUME NEW k \in Nat, k \in T PROVE k + 1 \in T
  <2>1. CASE k + 1 <= n
    <3>1. k + 1 \in 1..n /\ k <= n /\ (k + 1) - 1 = k
      BY <1>1, <2>1
    <3>. QED
      BY <3>1, <1>3, <1>10, <1>12
  <2>2. CASE ~(k + 1 <= n)
    BY <2>2
  <2>. QED
    BY <2>1, <2>2
<1>. HIDE DEF T
<1>13. n \in T
  BY <1>1, <1>11, <1>12, Everything
<1>14. after[n] \in S
  BY <1>1, <1>13 DEF T
<1>. QED
  BY <1>8, <1>14 DEF S

-----------------------------------------------------------------------------
(* The list of timers, and the queue. *)

LiveIn(ts, e) == {k \in DOMAIN ts : ts[k].elem = e}

\* us has the animation of e that ts has.
Carries(ts, us, e) ==
  /\ LiveIn(ts, e) = {} => LiveIn(us, e) = {}
  /\ \A k : LiveIn(ts, e) = {k} => \E j : LiveIn(us, e) = {j} /\ us[j] = ts[k]

\* What is taken out of the list is not missed by the other elements.
LEMMA SplicedCarries ==
  ASSUME NEW ts \in Seq(Animations), NEW k \in DOMAIN ts, NEW e, ts[k].elem # e
  PROVE  Carries(ts, RemoveAt(ts, k), e)
<1>. DEFINE us == RemoveAt(ts, k)
<1>1. /\ us \in Seq(Animations) /\ Len(ts) \in Nat /\ Len(us) = Len(ts) - 1
      /\ DOMAIN ts = 1..Len(ts) /\ DOMAIN us = 1..(Len(ts) - 1)
      /\ \A i \in 1..(Len(ts) - 1) : us[i] = IF i < k THEN ts[i] ELSE ts[i + 1]
  BY Spliced, LenProperties
<1>. HIDE DEF us
<1>2. ASSUME NEW i \in LiveIn(us, e)
      PROVE  IF i < k THEN i \in LiveIn(ts, e) ELSE i + 1 \in LiveIn(ts, e)
  BY <1>1 DEF LiveIn
<1>3. ASSUME NEW i \in LiveIn(ts, e)
      PROVE  /\ i < k => i \in LiveIn(us, e) /\ us[i] = ts[i]
             /\ ~(i < k) => i - 1 \in LiveIn(us, e) /\ us[i - 1] = ts[i]
  <2>1. i \in 1..Len(ts) /\ k \in 1..Len(ts) /\ i # k /\ ts[i].elem = e
    BY <1>1 DEF LiveIn
  <2>2. CASE i < k
    <3>1. i \in 1..(Len(ts) - 1)
      BY <1>1, <2>1, <2>2
    <3>. QED
      BY <1>1, <2>1, <2>2, <3>1 DEF LiveIn
  <2>3. CASE ~(i < k)
    <3>1. i - 1 \in 1..(Len(ts) - 1) /\ ~(i - 1 < k) /\ (i - 1) + 1 = i
      BY <1>1, <2>1, <2>3
    <3>. QED
      BY <1>1, <2>1, <2>3, <3>1 DEF LiveIn
  <2>. QED
    BY <2>2, <2>3
<1>4. ASSUME LiveIn(ts, e) = {} PROVE LiveIn(us, e) = {}
  BY <1>2, <1>4
<1>5. ASSUME NEW i, LiveIn(ts, e) = {i} PROVE \E j : LiveIn(us, e) = {j} /\ us[j] = ts[i]
  <2>1. i \in 1..Len(ts) /\ k \in 1..Len(ts)
    BY <1>1, <1>5 DEF LiveIn
  <2>2. \A j \in LiveIn(us, e) : j \in 1..(Len(ts) - 1)
    BY <1>1 DEF LiveIn
  <2>3. CASE i < k
    <3>1. \A j \in LiveIn(us, e) : j = i
      BY <1>1, <1>2, <1>5, <2>1, <2>2, <2>3
    <3>. QED
      BY <1>3, <1>5, <2>3, <3>1
  <2>4. CASE ~(i < k)
    <3>1. \A j \in LiveIn(us, e) : j = i - 1
      BY <1>1, <1>2, <1>5, <2>1, <2>2, <2>4
    <3>. QED
      BY <1>3, <1>5, <2>4, <3>1
  <2>. QED
    BY <2>3, <2>4
<1>. QED
  BY <1>4, <1>5 DEF Carries, us

\* Once its animation is taken out of the list, an element has none.
LEMMA SplicedAlone ==
  ASSUME NEW ts \in Seq(Animations), NEW e, NEW k, LiveIn(ts, e) = {k}
  PROVE  LiveIn(RemoveAt(ts, k), e) = {}
<1>. DEFINE us == RemoveAt(ts, k)
<1>0. k \in 1..Len(ts)
  BY LenProperties DEF LiveIn
<1>1. /\ us \in Seq(Animations) /\ Len(ts) \in Nat
      /\ DOMAIN ts = 1..Len(ts) /\ DOMAIN us = 1..(Len(ts) - 1)
      /\ \A i \in 1..(Len(ts) - 1) : us[i] = IF i < k THEN ts[i] ELSE ts[i + 1]
  BY <1>0, Spliced, LenProperties
<1>. HIDE DEF us
<1>2. ASSUME NEW i \in LiveIn(us, e) PROVE FALSE
  <2>1. i \in 1..(Len(ts) - 1) /\ us[i].elem = e
    BY <1>1 DEF LiveIn
  <2>2. CASE i < k
    BY <1>0, <1>1, <2>1, <2>2 DEF LiveIn
  <2>3. CASE ~(i < k)
    <3>1. i + 1 \in 1..Len(ts) /\ i + 1 # k
      BY <1>0, <1>1, <2>1, <2>3
    <3>. QED
      BY <1>1, <2>1, <2>3, <3>1 DEF LiveIn
  <2>. QED
    BY <2>2, <2>3
<1>. QED
  BY <1>2 DEF us

\* An animation that is added is that of its element, and the others keep theirs.
LEMMA AddedCarries ==
  ASSUME NEW ts \in Seq(Animations), NEW a \in Animations
  PROVE  /\ Append(ts, a) \in Seq(Animations)
         /\ Len(ts) \in Nat /\ Len(Append(ts, a)) = Len(ts) + 1
         /\ LiveIn(ts, a.elem) = {} =>
              LiveIn(Append(ts, a), a.elem) = {Len(ts) + 1} /\ Append(ts, a)[Len(ts) + 1] = a
         /\ \A e : e # a.elem => Carries(ts, Append(ts, a), e)
<1>. DEFINE us == Append(ts, a)
<1>1. /\ us \in Seq(Animations) /\ Len(ts) \in Nat /\ Len(us) = Len(ts) + 1
      /\ DOMAIN ts = 1..Len(ts) /\ DOMAIN us = 1..(Len(ts) + 1)
      /\ us[Len(ts) + 1] = a /\ \A i \in 1..Len(ts) : us[i] = ts[i]
  BY AppendProperties, LenProperties
<1>. HIDE DEF us
<1>2. ASSUME LiveIn(ts, a.elem) = {} PROVE LiveIn(us, a.elem) = {Len(ts) + 1}
  BY <1>1, <1>2 DEF LiveIn
<1>3. ASSUME NEW e, e # a.elem PROVE Carries(ts, us, e)
  <2>1. LiveIn(us, e) = LiveIn(ts, e)
    BY <1>1, <1>3 DEF LiveIn
  <2>2. \A k \in LiveIn(ts, e) : us[k] = ts[k]
    BY <1>1 DEF LiveIn
  <2>. QED
    BY <2>1, <2>2 DEF Carries
<1>. QED
  BY <1>1, <1>2, <1>3 DEF us

\* Animations of no element make no difference.
LEMMA FollowedCarries ==
  ASSUME NEW ts \in Seq(Animations), NEW us \in Seq(Animations), NEW e \in Elements,
         \A i \in DOMAIN us : us[i].elem = Nothing
  PROVE  /\ ts \o us \in Seq(Animations) /\ Len(ts \o us) = Len(ts) + Len(us)
         /\ Carries(ts, ts \o us, e)
<1>. DEFINE vs == ts \o us
<1>0. Nothing # e
  BY FxAssumption
<1>1. /\ vs \in Seq(Animations) /\ Len(vs) = Len(ts) + Len(us)
      /\ Len(ts) \in Nat /\ Len(us) \in Nat
      /\ DOMAIN ts = 1..Len(ts) /\ DOMAIN us = 1..Len(us) /\ DOMAIN vs = 1..(Len(ts) + Len(us))
      /\ \A i \in 1..(Len(ts) + Len(us)) :
           vs[i] = IF i <= Len(ts) THEN ts[i] ELSE us[i - Len(ts)]
  BY ConcatProperties, LenProperties
<1>. HIDE DEF vs
<1>2. \A i \in LiveIn(ts, e) : i \in LiveIn(vs, e) /\ vs[i] = ts[i]
  BY <1>1 DEF LiveIn
<1>3. ASSUME NEW i \in LiveIn(vs, e) PROVE i \in LiveIn(ts, e)
  <2>1. i \in 1..(Len(ts) + Len(us)) /\ vs[i].elem = e
    BY <1>1 DEF LiveIn
  <2>2. CASE i <= Len(ts)
    BY <1>1, <2>1, <2>2 DEF LiveIn
  <2>3. CASE ~(i <= Len(ts))
    <3>1. i - Len(ts) \in 1..Len(us) /\ vs[i] = us[i - Len(ts)]
      BY <1>1, <2>1, <2>3
    <3>. QED
      <4>1. us[i - Len(ts)].elem = Nothing
        BY <1>1, <3>1
      <4>. QED
        BY <1>0, <2>1, <3>1, <4>1
  <2>. QED
    BY <2>2, <2>3
<1>4. LiveIn(vs, e) = LiveIn(ts, e)
  BY <1>2, <1>3
<1>. QED
  BY <1>1, <1>2, <1>4 DEF Carries, vs

\* Only the head of a queue may be the mark.
WellQueued(q) ==
  q \in Seq(Fades \union {"inprogress"}) /\ \A i \in 2..Len(q) : q[i] \in Fades

\* A sequence whose elements are in S is one of S.
LEMMA SeqOfFades ==
  ASSUME NEW M, NEW S, NEW s \in Seq(M), \A i \in 1..Len(s) : s[i] \in S
  PROVE  s \in Seq(S)
  BY LenProperties

\* What waits in it are requests.
LEMMA WaitingFades ==
  ASSUME NEW q, WellQueued(q)
  PROVE  /\ Waiting(q) \in Seq(Fades)
         /\ Waiting(q) # <<>> => Head(Waiting(q)) \in Fades
<1>1. q \in Seq(Fades \union {"inprogress"}) /\ \A i \in 2..Len(q) : q[i] \in Fades
  BY DEF WellQueued
<1>2. Waiting(q) \in Seq(Fades)
  <2>1. CASE q # <<>> /\ Head(q) = "inprogress"
    <3>1. Tail(q) \in Seq(Fades \union {"inprogress"}) /\ Len(Tail(q)) = Len(q) - 1 /\ Len(q) \in Nat
      BY <1>1, <2>1, HeadTailProperties, LenProperties
    <3>2. \A i \in 1..Len(Tail(q)) : Tail(q)[i] = q[i + 1]
      BY <1>1, <2>1, HeadTailProperties
    <3>3. \A i \in 1..Len(Tail(q)) : Tail(q)[i] \in Fades
      BY <1>1, <3>1, <3>2
    <3>. QED
      BY <2>1, <3>1, <3>3, SeqOfFades DEF Waiting
  <2>2. CASE q # <<>> /\ Head(q) # "inprogress"
    <3>1. Head(q) = q[1] /\ q[1] \in Fades \union {"inprogress"} /\ Len(q) \in Nat
      BY <1>1, <2>2, HeadTailProperties, LenProperties
    <3>2. \A i \in 1..Len(q) : q[i] \in Fades
      BY <1>1, <2>2, <3>1
    <3>. QED
      BY <1>1, <2>2, <3>2, SeqOfFades DEF Waiting
  <2>3. CASE q = <<>>
    BY <2>3 DEF Waiting
  <2>. QED
    BY <2>1, <2>2, <2>3
<1>. QED
  BY <1>2, HeadTailProperties

\* The mark takes the place of the request that begins.
LEMMA Marked ==
  ASSUME NEW w \in Seq(Fades), w # <<>>
  PROVE  /\ WellQueued(<<"inprogress">> \o Tail(w)) /\ <<"inprogress">> \o Tail(w) # <<>>
         /\ Head(<<"inprogress">> \o Tail(w)) = "inprogress"
<1>. DEFINE q == <<"inprogress">> \o Tail(w)
            M == Fades \union {"inprogress"}
<1>1. Tail(w) \in Seq(Fades)
  BY HeadTailProperties
<1>2. Tail(w) \in Seq(M) /\ <<"inprogress">> \in Seq(M) /\ Len(<<"inprogress">>) = 1
  <2>1. Fades \subseteq M
    OBVIOUS
  <2>. QED
    BY <1>1, <2>1, SeqMonotonic
<1>3. /\ q \in Seq(M) /\ Len(q) = 1 + Len(Tail(w)) /\ Len(Tail(w)) \in Nat
      /\ \A i \in 1..(1 + Len(Tail(w))) :
           q[i] = IF i <= 1 THEN <<"inprogress">>[i] ELSE Tail(w)[i - 1]
  BY <1>2, ConcatProperties, LenProperties
<1>. HIDE DEF q
<1>4. q[1] = "inprogress"
  BY <1>3
<1>5. \A i \in 2..Len(q) : q[i] \in Fades
  <2>1. ASSUME NEW i \in 2..Len(q) PROVE q[i] \in Fades
    <3>1. i - 1 \in 1..Len(Tail(w)) /\ ~(i <= 1) /\ i \in 1..(1 + Len(Tail(w)))
      BY <1>3
    <3>2. q[i] = Tail(w)[i - 1]
      BY <1>3, <3>1
    <3>. QED
      BY <1>1, <3>1, <3>2, ElementOfSeq
  <2>. QED
    BY <2>1
<1>6. q # <<>>
  BY <1>3
<1>7. Head(q) = q[1]
  BY <1>3, <1>6, HeadTailProperties
<1>. QED
  BY <1>3, <1>4, <1>5, <1>6, <1>7 DEF WellQueued, q

\* A request goes to the end of the queue.
LEMMA Requested ==
  ASSUME NEW q, WellQueued(q), NEW fade \in Fades
  PROVE  /\ WellQueued(Append(q, fade)) /\ Append(q, fade) # <<>>
         /\ Head(Append(q, fade)) = IF q = <<>> THEN fade ELSE Head(q)
<1>. DEFINE r == Append(q, fade)
            M == Fades \union {"inprogress"}
<1>1. q \in Seq(M) /\ fade \in M /\ Len(q) \in Nat
  BY LenProperties DEF WellQueued
<1>2. /\ r \in Seq(M) /\ Len(r) = Len(q) + 1 /\ r[Len(q) + 1] = fade
      /\ \A i \in 1..Len(q) : r[i] = q[i]
  BY <1>1, AppendProperties
<1>. HIDE DEF r
<1>3. \A i \in 2..Len(r) : r[i] \in Fades
  <2>1. ASSUME NEW i \in 2..Len(r) PROVE r[i] \in Fades
    <3>1. i \in 2..Len(q) \/ i = Len(q) + 1
      BY <1>1, <1>2
    <3>2. CASE i \in 2..Len(q)
      BY <1>1, <1>2, <3>2 DEF WellQueued
    <3>. QED
      BY <1>2, <3>1, <3>2
  <2>. QED
    BY <2>1
<1>4. r # <<>> /\ Head(r) = r[1]
  BY <1>1, <1>2, HeadTailProperties
<1>5. q = <<>> => Len(q) = 0
  OBVIOUS
<1>6. q # <<>> => Head(q) = q[1] /\ 1 \in 1..Len(q)
  BY <1>1, HeadTailProperties, EmptySeq
<1>. QED
  BY <1>1, <1>2, <1>3, <1>4, <1>5, <1>6 DEF WellQueued, r

-----------------------------------------------------------------------------
(* The inductive invariant. *)

\* An element is either without an animation, settled, with nothing in its queue; or has
\* one animation, and its queue is marked.
Idle(el, ts, e) == Done(el) /\ LiveIn(ts, e) = {}
Busy(el, ts, e) ==
  /\ el.queue # <<>> /\ Head(el.queue) = "inprogress" /\ el.hooks
  /\ \E k : LiveIn(ts, e) = {k} /\ Fading(el, ts[k])
Fit(el, ts, e) == WellQueued(el.queue) /\ (Idle(el, ts, e) \/ Busy(el, ts, e))

Elems(els, ts) == \A e \in Elements : Fit(els[e], ts, e)
Awaiting(es, els) == \A e \in es : els[e].queue # <<>>

\* Every element fits its animations; what is waited for is in progress; and as long as
\* there are timers, or a frame is under way, one is awaited.
IInv ==
  /\ TypeOK
  /\ Elems(element, timers)
  /\ Awaiting(awaited, element)
  /\ timers # <<>> \/ cursor # 0 => running

\* What a promise waits for is waited for until its queue is empty (PromiseIsKept).
Promised == \A e \in awaited : e \in awaited' <=> element'[e].queue # <<>>

\* An element that is left alone fits the timers that carry its animation.
LEMMA StillFits ==
  ASSUME NEW el, NEW ts, NEW us, NEW e, Fit(el, ts, e), Carries(ts, us, e)
  PROVE  Fit(el, us, e)
<1>1. CASE Idle(el, ts, e)
  BY <1>1 DEF Fit, Idle, Carries
<1>2. CASE Busy(el, ts, e)
  <2>1. PICK k : LiveIn(ts, e) = {k} /\ Fading(el, ts[k])
    BY <1>2 DEF Busy
  <2>2. PICK j : LiveIn(us, e) = {j} /\ us[j] = ts[k]
    BY <2>1 DEF Carries
  <2>3. Busy(el, us, e)
    BY <1>2, <2>1, <2>2 DEF Busy
  <2>. QED
    BY <2>3 DEF Fit
<1>. QED
  BY <1>1, <1>2 DEF Fit

\* What dequeue is called with: a settled element whose animation is out of the timers.
Free(e, el, ts, at) ==
  /\ el \in ElementState /\ Settled(el) /\ WellQueued(el.queue)
  /\ Waiting(el.queue) # <<>> => el.hooks
  /\ ts \in Seq(Animations) /\ at \in 0..(Len(ts) + 1)
  /\ LiveIn(ts, e) = {}
  /\ \A f \in Elements \ {e} : Fit(element[f], ts, f)
  /\ \A f \in awaited \ {e} : element[f].queue # <<>>
  /\ ts # <<>> \/ at # 0 => running

\* What holds after a call of the library or a frame's step.
Kept ==
  /\ element' \in [Elements -> ElementState] /\ timers' \in Seq(Animations)
  /\ running' \in BOOLEAN /\ cursor' \in 0..(Len(timers') + 1) /\ awaited' \subseteq Elements
  /\ Elems(element', timers') /\ Awaiting(awaited', element')
  /\ timers' # <<>> \/ cursor' # 0 => running'
  /\ Promised

\* dequeue keeps the invariant: the first request begins, or the element is idle.
LEMMA DequeueKeeps ==
  ASSUME IInv, NEW e \in Elements, NEW el, NEW ts, NEW at, Free(e, el, ts, at),
         dequeue(e, el, ts, at)
  PROVE  Kept
<1>. DEFINE w == Waiting(el.queue)
            next == Head(w)
<1>0. /\ element \in [Elements -> ElementState] /\ awaited \subseteq Elements /\ running \in BOOLEAN
  BY DEF IInv, TypeOK
<1>1. /\ el \in ElementState /\ Settled(el) /\ WellQueued(el.queue) /\ (w # <<>> => el.hooks)
      /\ ts \in Seq(Animations) /\ at \in 0..(Len(ts) + 1) /\ LiveIn(ts, e) = {}
      /\ ts # <<>> \/ at # 0 => running
  BY DEF Free
<1>2. w \in Seq(Fades) /\ (w # <<>> => next \in Fades)
  BY <1>1, WaitingFades
<1>3. Len(ts) \in Nat
  BY <1>1, LenProperties
<1>. HIDE DEF w
<1>4. fireEmpty(e, w)
  BY DEF dequeue, w
<1>5. CASE w = <<>>
  <2>. DEFINE d == [el EXCEPT !.queue = <<>>, !.hooks = FALSE]
  <2>1. /\ element' = [element EXCEPT ![e] = d] /\ timers' = ts /\ cursor' = at /\ running' = running
    BY <1>5 DEF dequeue, w
  <2>2. awaited' = awaited \ {e}
    BY <1>4, <1>5 DEF fireEmpty
  <2>3. d \in ElementState /\ d.queue = <<>> /\ Done(d)
    <3>1. d \in ElementState /\ d.queue = <<>> /\ ~d.hooks
      <4>1. <<>> \in Seq(Fades \union {"inprogress"})
        BY EmptySeq
      <4>2. d \in ElementState
        BY <1>1, <4>1 DEF ElementState
      <4>3. d.queue = <<>> /\ ~d.hooks
        BY <1>1 DEF ElementState
      <4>. QED
        BY <4>2, <4>3
    <3>2. Settled(d)
      BY <1>1 DEF Settled, Own, ElementState
    <3>. QED
      BY <3>1, <3>2 DEF Done
  <2>. HIDE DEF d
  <2>4. element' \in [Elements -> ElementState] /\ element'[e] = d
        /\ \A f \in Elements \ {e} : element'[f] = element[f]
    BY <1>0, <2>1, <2>3
  <2>5. ASSUME NEW f \in Elements PROVE Fit(element'[f], timers', f)
    <3>1. CASE f = e
      <4>1. WellQueued(d.queue)
        BY <2>3, EmptySeq DEF WellQueued
      <4>. QED
        BY <1>1, <2>1, <2>3, <2>4, <3>1, <4>1 DEF Fit, Idle
    <3>2. CASE f # e
      BY <2>1, <2>4, <3>2 DEF Free
    <3>. QED
      BY <3>1, <3>2
  <2>6. Awaiting(awaited', element')
    BY <1>0, <2>2, <2>4 DEF Free, Awaiting
  <2>7. Promised
    BY <1>0, <2>2, <2>3, <2>4 DEF IInv, Awaiting, Promised
  <2>. QED
    BY <1>0, <1>1, <2>1, <2>2, <2>4, <2>5, <2>6, <2>7 DEF Kept, Elems
<1>6. CASE w # <<>>
  <2>. DEFINE m == [el EXCEPT !.queue = <<"inprogress">> \o Tail(w)]
              b == begin(m, next)
              a == Animation(e, el, next)
              us == Append(ts, a)
  <2>1. element' = [element EXCEPT ![e] = b] /\ timers' = us
        /\ cursor' = (IF running THEN at ELSE 1) /\ running' = TRUE
    BY <1>6 DEF dequeue, w
  <2>2. awaited' = awaited
    BY <1>4, <1>6 DEF fireEmpty
  <2>3. /\ WellQueued(<<"inprogress">> \o Tail(w)) /\ <<"inprogress">> \o Tail(w) # <<>>
        /\ Head(<<"inprogress">> \o Tail(w)) = "inprogress"
    BY <1>2, <1>6, Marked
  <2>4. /\ m \in ElementState /\ m.queue = <<"inprogress">> \o Tail(w) /\ m.hooks = el.hooks
        /\ Settled(m) /\ Animation(e, m, next) = a
    <3>1. <<"inprogress">> \o Tail(w) \in Seq(Fades \union {"inprogress"})
      BY <2>3 DEF WellQueued
    <3>2. m \in ElementState /\ m.queue = <<"inprogress">> \o Tail(w) /\ m.hooks = el.hooks
      BY <1>1, <3>1 DEF ElementState
    <3>3. m.fxshow = el.fxshow /\ m.opacity = el.opacity /\ m.shown = el.shown
          /\ m.last = el.last /\ m.halted = el.halted
      BY <1>1 DEF ElementState
    <3>. HIDE DEF m
    <3>4. Settled(m)
      BY <1>1, <3>3 DEF Settled, Own
    <3>5. Animation(e, m, next) = a
      BY <3>3 DEF Animation, Animates, Own
    <3>. QED
      BY <3>2, <3>4, <3>5
  <2>. HIDE DEF m, us
  <2>5. b \in ElementState /\ b.queue = m.queue /\ b.hooks = m.hooks
        /\ a \in Animations /\ a.elem = e
    <3>1. next \in Fades
      BY <1>2, <1>6
    <3>. QED
      BY <1>1, <2>4, <3>1, Begun
  <2>6. Fading(b, a)
    BY <1>2, <1>6, <2>4, BeginsFading
  <2>. HIDE DEF a, b
  <2>7. /\ us \in Seq(Animations) /\ Len(us) = Len(ts) + 1
        /\ LiveIn(us, e) = {Len(ts) + 1} /\ us[Len(ts) + 1] = a
        /\ \A f : f # e => Carries(ts, us, f)
    BY <1>1, <2>5, AddedCarries DEF us
  <2>8. element' \in [Elements -> ElementState] /\ element'[e] = b
        /\ \A f \in Elements \ {e} : element'[f] = element[f]
    BY <1>0, <2>1, <2>5
  <2>9. b.queue # <<>> /\ Head(b.queue) = "inprogress" /\ WellQueued(b.queue) /\ b.hooks
    BY <1>1, <1>6, <2>3, <2>4, <2>5 DEF ElementState
  <2>10. ASSUME NEW f \in Elements PROVE Fit(element'[f], timers', f)
    <3>1. CASE f = e
      <4>1. Busy(b, us, e)
        BY <2>6, <2>7, <2>9 DEF Busy
      <4>. QED
        BY <2>1, <2>8, <2>9, <3>1, <4>1 DEF Fit
    <3>2. CASE f # e
      <4>1. Fit(element[f], ts, f)
        BY <3>2 DEF Free
      <4>2. Fit(element[f], us, f)
        BY <2>7, <3>2, <4>1, StillFits
      <4>. QED
        BY <2>1, <2>8, <3>2, <4>2
    <3>. QED
      BY <3>1, <3>2
  <2>11. Awaiting(awaited', element')
    BY <1>0, <2>2, <2>8, <2>9 DEF Free, Awaiting
  <2>12. Promised
    BY <1>0, <2>2, <2>8, <2>9 DEF IInv, Awaiting, Promised
  <2>13. cursor' \in 0..(Len(timers') + 1)
    BY <1>1, <1>3, <2>1, <2>7
  <2>. QED
    BY <1>0, <2>1, <2>2, <2>7, <2>8, <2>10, <2>11, <2>12, <2>13 DEF Kept, Elems
<1>. QED
  BY <1>5, <1>6

-----------------------------------------------------------------------------
(* Each action keeps the invariant. *)

\* What the invariant says of one element.
LEMMA OfElement ==
  ASSUME IInv, NEW e \in Elements
  PROVE  /\ element[e] \in ElementState /\ Fit(element[e], timers, e)
         /\ element[e].hooks \in BOOLEAN
         /\ (e \in awaited => element[e].queue # <<>>)
         /\ timers \in Seq(Animations) /\ Len(timers) \in Nat /\ DOMAIN timers = 1..Len(timers)
         /\ LiveIn(timers, e) = Live(e)
  BY LenProperties DEF IInv, TypeOK, Elems, Awaiting, ElementState, LiveIn, Live

\* The animation of an element is its only one, and on its way.
LEMMA OneLive ==
  ASSUME IInv, NEW e \in Elements, NEW k \in Live(e)
  PROVE  /\ Live(e) = {k} /\ timers[k] \in Animations /\ Fading(element[e], timers[k])
         /\ Busy(element[e], timers, e)
<1>1. LiveIn(timers, e) = Live(e) /\ timers \in Seq(Animations) /\ DOMAIN timers = 1..Len(timers)
  BY OfElement
<1>2. Busy(element[e], timers, e)
  BY <1>1, OfElement DEF Fit, Idle
<1>3. PICK j : LiveIn(timers, e) = {j} /\ Fading(element[e], timers[j])
  BY <1>2 DEF Busy
<1>4. k = j /\ k \in 1..Len(timers)
  BY <1>1, <1>3 DEF Live
<1>. QED
  BY <1>1, <1>2, <1>3, <1>4, ElementOfSeq

\* An element whose animation has been stopped is settled.
LEMMA Stopped ==
  ASSUME IInv, NEW e \in Elements, NEW toEnd \in BOOLEAN
  PROVE  /\ stopped(e, toEnd) \in ElementState /\ Settled(stopped(e, toEnd))
         /\ stopped(e, toEnd).queue = element[e].queue
         /\ stopped(e, toEnd).hooks = element[e].hooks
<1>0. element[e] \in ElementState /\ Fit(element[e], timers, e) /\ LiveIn(timers, e) = Live(e)
  BY OfElement
<1>1. CASE Live(e) = {}
  BY <1>0, <1>1 DEF stopped, Fit, Idle, Busy, Done
<1>2. CASE Live(e) # {}
  <2>. DEFINE k == CHOOSE j \in Live(e) : TRUE
              a == timers[k]
  <2>1. k \in Live(e)
    BY <1>2
  <2>2. a \in Animations /\ Fading(element[e], a)
    BY <2>1, OneLive
  <2>3. stopped(e, toEnd) =
          IF toEnd THEN end(element[e], a) ELSE [element[e] EXCEPT !.halted = TRUE]
    BY <1>2 DEF stopped
  <2>. HIDE DEF a, k
  <2>4. CASE toEnd
    BY <1>0, <2>2, <2>3, <2>4, Ended, EndsSettled
  <2>5. CASE ~toEnd
    <3>1. Own(element[e]) = "own"
      BY <2>2 DEF Fading
    <3>2. Settled([element[e] EXCEPT !.halted = TRUE])
      BY <1>0, <3>1, HaltedSettled
    <3>. QED
      BY <1>0, <2>3, <2>5, <3>2 DEF ElementState
  <2>. QED
    BY <2>4, <2>5
<1>. QED
  BY <1>1, <1>2

\* Without its animation, the timers carry those of the other elements.
LEMMA WithoutIt ==
  ASSUME IInv, NEW e \in Elements
  PROVE  /\ Without(e) \in Seq(Animations) /\ LiveIn(Without(e), e) = {}
         /\ \A f \in Elements \ {e} : Fit(element[f], Without(e), f)
         /\ Without(e) # <<>> => running
<1>0. timers \in Seq(Animations) /\ LiveIn(timers, e) = Live(e) /\ (timers # <<>> => running)
  BY OfElement DEF IInv
<1>1. CASE Live(e) = {}
  BY <1>0, <1>1, OfElement DEF Without
<1>2. CASE Live(e) # {}
  <2>. DEFINE k == CHOOSE j \in Live(e) : TRUE
  <2>1. k \in Live(e) /\ Without(e) = RemoveAt(timers, k)
    BY <1>2 DEF Without
  <2>. HIDE DEF k
  <2>2. k \in DOMAIN timers /\ timers[k].elem = e /\ LiveIn(timers, e) = {k}
    BY <1>0, <2>1, OneLive DEF Live
  <2>3. timers # <<>>
    BY <2>2
  <2>4. RemoveAt(timers, k) \in Seq(Animations)
    BY <1>0, <2>2, Spliced, LenProperties
  <2>5. LiveIn(RemoveAt(timers, k), e) = {}
    BY <1>0, <2>2, SplicedAlone
  <2>6. ASSUME NEW f \in Elements \ {e} PROVE Fit(element[f], RemoveAt(timers, k), f)
    BY <1>0, <2>2, SplicedCarries, StillFits, OfElement
  <2>. QED
    BY <1>0, <2>1, <2>3, <2>4, <2>5, <2>6
<1>. QED
  BY <1>1, <1>2

\* fadeIn and fadeOut.
LEMMA AnimateKeeps ==
  ASSUME IInv, NEW e \in Elements, NEW fade \in Fades, animate(e, fade)
  PROVE  Kept
<1>. DEFINE q == element[e].queue
            el == [element[e] EXCEPT !.queue = Append(@, fade), !.hooks = TRUE]
<1>0. /\ element[e] \in ElementState /\ Fit(element[e], timers, e)
      /\ timers \in Seq(Animations) /\ Len(timers) \in Nat
      /\ LiveIn(timers, e) = Live(e) /\ WellQueued(q)
      /\ element \in [Elements -> ElementState] /\ awaited \subseteq Elements
  BY OfElement DEF Fit, IInv, TypeOK
<1>1. cursor = 0 /\ queue(e, fade)
  BY DEF animate, Resting
<1>2. /\ WellQueued(Append(q, fade)) /\ Append(q, fade) # <<>>
      /\ Head(Append(q, fade)) = IF q = <<>> THEN fade ELSE Head(q)
  BY <1>0, Requested
<1>3. /\ el \in ElementState /\ el.queue = Append(q, fade) /\ el.hooks = TRUE
      /\ el.fxshow = element[e].fxshow /\ el.opacity = element[e].opacity
      /\ el.shown = element[e].shown /\ el.last = element[e].last /\ el.halted = element[e].halted
  BY <1>0, <1>2 DEF ElementState, WellQueued
<1>4. queue(e, fade) <=>
        IF Head(el.queue) = "inprogress"
          THEN element' = [element EXCEPT ![e] = el] /\ UNCHANGED <<timers, running, cursor, awaited>>
          ELSE dequeue(e, el, timers, 0)
  BY DEF queue
<1>. HIDE DEF el
<1>5. CASE q = <<>>
  <2>1. Head(el.queue) # "inprogress"
    BY <1>2, <1>3, <1>5 DEF Fades
  <2>2. Idle(element[e], timers, e)
    BY <1>0, <1>5 DEF Fit, Busy
  <2>3. Settled(el)
    BY <1>3, <2>2 DEF Settled, Own, Idle, Done
  <2>4. Free(e, el, timers, 0)
    <3>1. 0 \in 0..(Len(timers) + 1)
      BY <1>0
    <3>2. \A f \in Elements \ {e} : Fit(element[f], timers, f)
      BY OfElement
    <3>3. \A f \in awaited \ {e} : element[f].queue # <<>>
      BY DEF IInv, Awaiting
    <3>4. timers # <<>> \/ 0 # 0 => running
      BY DEF IInv
    <3>. QED
      BY <1>0, <1>2, <1>3, <2>2, <2>3, <3>1, <3>2, <3>3, <3>4 DEF Free, Idle
  <2>. QED
    BY <1>1, <1>4, <2>1, <2>4, DequeueKeeps
<1>6. CASE q # <<>>
  <2>1. Busy(element[e], timers, e)
    BY <1>0, <1>6 DEF Fit, Idle, Done
  <2>2. Head(el.queue) = "inprogress"
    BY <1>2, <1>3, <1>6, <2>1 DEF Busy
  <2>3. element' = [element EXCEPT ![e] = el] /\ UNCHANGED <<timers, running, cursor, awaited>>
    BY <1>1, <1>4, <2>2
  <2>4. PICK k : LiveIn(timers, e) = {k} /\ Fading(element[e], timers[k])
    BY <2>1 DEF Busy
  <2>5. Fading(el, timers[k])
    BY <1>3, <2>4 DEF Fading, Settled, Own
  <2>6. Fit(el, timers, e)
    BY <1>2, <1>3, <2>2, <2>4, <2>5 DEF Fit, Busy
  <2>7. element' \in [Elements -> ElementState] /\ element'[e] = el
        /\ \A f \in Elements \ {e} : element'[f] = element[f]
    BY <1>0, <1>3, <2>3
  <2>8. Elems(element', timers')
    BY <2>3, <2>6, <2>7, OfElement DEF Elems
  <2>9. \A f \in Elements : f \in awaited => element'[f].queue # <<>>
    BY <1>2, <1>3, <2>7, OfElement
  <2>. QED
    BY <1>0, <2>3, <2>7, <2>8, <2>9 DEF Kept, IInv, TypeOK, Awaiting, Promised
<1>. QED
  BY <1>5, <1>6

\* stop.
LEMMA StopKeeps ==
  ASSUME IInv, NEW e \in Elements, NEW clear \in BOOLEAN, NEW toEnd \in BOOLEAN,
         stop(e, clear, toEnd)
  PROVE  Kept
<1>. DEFINE s == stopped(e, toEnd)
            el == [s EXCEPT !.queue = IF clear THEN <<>> ELSE @]
<1>1. cursor = 0 /\ dequeue(e, el, Without(e), 0)
  BY DEF stop, Resting
<1>2. /\ s \in ElementState /\ Settled(s)
      /\ s.queue = element[e].queue /\ s.hooks = element[e].hooks
  BY Stopped
<1>. HIDE DEF s
<1>3. Fit(element[e], timers, e)
  BY OfElement
<1>4. /\ el.queue = (IF clear THEN <<>> ELSE s.queue) /\ el.hooks = s.hooks
      /\ el.fxshow = s.fxshow /\ el.opacity = s.opacity
      /\ el.shown = s.shown /\ el.last = s.last /\ el.halted = s.halted
  BY <1>2 DEF ElementState
<1>5. WellQueued(el.queue)
  BY <1>2, <1>3, <1>4, EmptySeq DEF Fit, WellQueued
<1>6. el \in ElementState
  <2>1. el.queue \in Seq(Fades \union {"inprogress"})
    BY <1>5 DEF WellQueued
  <2>. QED
    BY <1>2, <1>4, <2>1 DEF ElementState
<1>. HIDE DEF el
<1>7. Settled(el)
  BY <1>2, <1>4 DEF Settled, Own
<1>8. Waiting(el.queue) # <<>> => el.hooks
  <2>1. el.queue = <<>> => Waiting(el.queue) = <<>>
    BY DEF Waiting
  <2>2. el.queue # <<>> => element[e].queue # <<>>
    BY <1>2, <1>4
  <2>. QED
    BY <1>2, <1>3, <1>4, <2>1, <2>2 DEF Fit, Idle, Busy, Done
<1>9. Free(e, el, Without(e), 0)
  <2>1. \A f \in awaited \ {e} : element[f].queue # <<>>
    BY DEF IInv, Awaiting
  <2>2. Without(e) \in Seq(Animations)
    BY WithoutIt
  <2>3. 0 \in 0..(Len(Without(e)) + 1)
    BY <2>2, LenProperties
  <2>. QED
    BY <1>5, <1>6, <1>7, <1>8, <2>1, <2>2, <2>3, WithoutIt DEF Free
<1>. QED
  BY <1>1, <1>9, DequeueKeeps

\* What finish leaves in the timers: the animations of the requests, which have ended.
LEMMA LeftOver ==
  ASSUME IInv, NEW e \in Elements, NEW rest \in Seq(Fades)
  PROVE  LET us == [k \in DOMAIN rest |->
                      [Animation(e, element[e], rest[k]) EXCEPT !.elem = Nothing]]
         IN  /\ us \in Seq(Animations) /\ \A k \in DOMAIN us : us[k].elem = Nothing
             /\ Len(us) = Len(rest) /\ (rest = <<>> => us = <<>>)
<1>. DEFINE anim(k) == [Animation(e, element[e], rest[k]) EXCEPT !.elem = Nothing]
            us == [k \in DOMAIN rest |-> anim(k)]
<1>1. Len(rest) \in Nat /\ DOMAIN rest = 1..Len(rest) /\ element[e] \in ElementState
  BY OfElement, LenProperties
<1>2. ASSUME NEW k \in 1..Len(rest) PROVE anim(k) \in Animations /\ anim(k).elem = Nothing
  <2>1. rest[k] \in Fades
    BY ElementOfSeq
  <2>2. Animation(e, element[e], rest[k]) \in Animations
    BY <1>1, <2>1, Begun
  <2>. QED
    BY <2>2 DEF Animations
<1>. HIDE DEF anim
<1>3. us \in [1..Len(rest) -> Animations]
  BY <1>1, <1>2
<1>4. us \in Seq(Animations) /\ Len(us) = Len(rest)
  BY <1>1, <1>3
<1>5. \A k \in DOMAIN us : us[k].elem = Nothing
  BY <1>1, <1>2
<1>6. rest = <<>> => Len(rest) = 0
  OBVIOUS
<1>7. Len(us) = 0 => us = <<>>
  BY <1>4, EmptySeq
<1>. QED
  BY <1>4, <1>5, <1>6, <1>7 DEF anim

\* finish.
LEMMA FinishKeeps ==
  ASSUME IInv, NEW e \in Elements, finish(e)
  PROVE  Kept
<1>. DEFINE rest == Waiting(element[e].queue)
            s == stopped(e, TRUE)
            b == [s EXCEPT !.queue = <<>>, !.hooks = FALSE]
            d == over(e, b, rest)
            us == [k \in DOMAIN rest |->
                     [Animation(e, element[e], rest[k]) EXCEPT !.elem = Nothing]]
            ts == Without(e) \o us
<1>1. /\ cursor = 0 /\ cursor' = 0 /\ running' = running /\ awaited' = awaited \ {e}
      /\ element' = [element EXCEPT ![e] = d] /\ timers' = ts
  BY DEF finish, Resting
<1>2. /\ element \in [Elements -> ElementState] /\ awaited \subseteq Elements /\ running \in BOOLEAN
      /\ Fit(element[e], timers, e) /\ LiveIn(timers, e) = Live(e)
  BY OfElement DEF IInv, TypeOK
<1>3. rest \in Seq(Fades)
  BY <1>2, WaitingFades DEF Fit
<1>4. d \in ElementState /\ Done(d)
  <2>1. s \in ElementState /\ Settled(s)
    BY Stopped
  <2>. HIDE DEF s
  <2>2. <<>> \in Seq(Fades \union {"inprogress"})
    BY EmptySeq
  <2>3. b \in ElementState
    BY <2>1, <2>2 DEF ElementState
  <2>4. /\ b.queue = <<>> /\ ~b.hooks
        /\ b.fxshow = s.fxshow /\ b.opacity = s.opacity
        /\ b.shown = s.shown /\ b.last = s.last /\ b.halted = s.halted
    BY <2>1 DEF ElementState
  <2>. HIDE DEF b
  <2>5. Done(b)
    BY <2>1, <2>4 DEF Done, Settled, Own
  <2>. QED
    BY <1>3, <2>3, <2>5, AllDone
<1>5. /\ us \in Seq(Animations) /\ \A k \in DOMAIN us : us[k].elem = Nothing
      /\ Len(us) = Len(rest) /\ (rest = <<>> => us = <<>>)
  BY <1>3, LeftOver
<1>6. /\ Without(e) \in Seq(Animations) /\ LiveIn(Without(e), e) = {}
      /\ \A f \in Elements \ {e} : Fit(element[f], Without(e), f)
      /\ Without(e) # <<>> => running
  BY WithoutIt
<1>7. ts # <<>> => running
  <2>1. CASE rest = <<>>
    BY <1>5, <1>6, <2>1, ConcatEmptySeq
  <2>2. CASE rest # <<>>
    <3>1. element[e].queue # <<>>
      BY <2>2 DEF Waiting
    <3>2. PICK k : LiveIn(timers, e) = {k}
      BY <1>2, <3>1 DEF Fit, Idle, Busy, Done
    <3>3. timers # <<>>
      BY <3>2 DEF LiveIn
    <3>. QED
      BY <3>3 DEF IInv
  <2>. QED
    BY <2>1, <2>2
<1>. HIDE DEF rest, d, us
<1>8. ts \in Seq(Animations) /\ \A f \in Elements : Carries(Without(e), ts, f)
  BY <1>5, <1>6, FollowedCarries
<1>. HIDE DEF ts
<1>9. element' \in [Elements -> ElementState] /\ element'[e] = d
      /\ \A f \in Elements \ {e} : element'[f] = element[f]
  BY <1>1, <1>2, <1>4
<1>10. ASSUME NEW f \in Elements PROVE Fit(element'[f], timers', f)
  <2>1. CASE f = e
    <3>1. LiveIn(ts, e) = {}
      BY <1>6, <1>8 DEF Carries
    <3>2. d.queue = <<>> /\ WellQueued(d.queue)
      BY <1>4, EmptySeq DEF Done, WellQueued
    <3>. QED
      BY <1>1, <1>4, <1>9, <2>1, <3>1, <3>2 DEF Fit, Idle
  <2>2. CASE f # e
    BY <1>1, <1>6, <1>8, <1>9, <2>2, StillFits
  <2>. QED
    BY <2>1, <2>2
<1>11. Awaiting(awaited', element')
  BY <1>1, <1>2, <1>9 DEF IInv, Awaiting
<1>12. Promised
  BY <1>1, <1>2, <1>4, <1>9 DEF IInv, Awaiting, Promised, Done
<1>13. cursor' \in 0..(Len(timers') + 1)
  BY <1>1, <1>8, LenProperties
<1>. QED
  BY <1>1, <1>2, <1>7, <1>8, <1>9, <1>10, <1>11, <1>12, <1>13 DEF Kept, Elems

\* What changes one element only, keeps what fits its animation.
LEMMA OneKeeps ==
  ASSUME IInv, NEW e \in Elements, NEW el \in ElementState, element' = [element EXCEPT ![e] = el],
         Fit(el, timers, e), el.queue = element[e].queue,
         UNCHANGED <<timers, running, awaited>>, cursor' \in 0..(Len(timers) + 1),
         cursor' # 0 => cursor # 0
  PROVE  Kept
<1>1. /\ element \in [Elements -> ElementState] /\ awaited \subseteq Elements
      /\ timers \in Seq(Animations) /\ running \in BOOLEAN
  BY DEF IInv, TypeOK
<1>2. element' \in [Elements -> ElementState] /\ element'[e] = el
      /\ \A f \in Elements \ {e} : element'[f] = element[f]
  BY <1>1
<1>3. Elems(element', timers')
  BY <1>2, OfElement DEF Elems
<1>4. \A f \in Elements : element'[f].queue = element[f].queue
  BY <1>2
<1>. QED
  BY <1>1, <1>2, <1>3, <1>4 DEF Kept, IInv, Awaiting, Promised

\* show: an element that fades out remains one that was asked to hide.
LEMMA ShowKeeps ==
  ASSUME IInv, NEW e \in Elements, show(e)
  PROVE  Kept
<1>. DEFINE el == [showHide(element[e], TRUE) EXCEPT !.last = IF FadesOut(e) THEN @ ELSE "show"]
<1>0. /\ element[e] \in ElementState /\ Fit(element[e], timers, e) /\ LiveIn(timers, e) = Live(e)
      /\ Nothing # "show"
  BY OfElement, FxAssumption DEF Fades
<1>1. /\ element' = [element EXCEPT ![e] = el] /\ UNCHANGED <<timers, running, cursor, awaited>>
  BY <1>0 DEF show, IInv, TypeOK
<1>2. /\ el \in ElementState /\ el.queue = element[e].queue /\ el.hooks = element[e].hooks
      /\ el.shown = TRUE /\ el.last = (IF FadesOut(e) THEN element[e].last ELSE "show")
      /\ el.opacity = element[e].opacity /\ el.fxshow = element[e].fxshow
      /\ el.halted = element[e].halted
  BY <1>0 DEF showHide, ElementState, Fades
<1>. HIDE DEF el
<1>3. Fit(el, timers, e)
  <2>1. CASE Live(e) = {}
    <3>1. ~FadesOut(e)
      BY <2>1 DEF FadesOut
    <3>2. Idle(element[e], timers, e)
      BY <1>0, <2>1 DEF Fit, Busy
    <3>3. Idle(el, timers, e)
      BY <1>0, <1>2, <3>1, <3>2 DEF Idle, Done, Settled, Own
    <3>. QED
      BY <1>0, <1>2, <3>3 DEF Fit
  <2>2. CASE Live(e) # {}
    <3>1. PICK k \in Live(e) : TRUE
      BY <2>2
    <3>. DEFINE a == timers[k]
    <3>2. /\ Live(e) = {k} /\ a \in Animations /\ Fading(element[e], a)
          /\ Busy(element[e], timers, e)
      BY <3>1, OneLive
    <3>3. FadesOut(e) <=> a.tween /\ a.fade = "hide"
      BY <3>2 DEF FadesOut
    <3>. HIDE DEF a
    <3>4. a.tween \in BOOLEAN
      BY <3>2 DEF Animations
    <3>5. Own(el) = "own"
      BY <1>2, <3>2 DEF Fading, Own
    <3>6. Fading(el, a)
      <4>1. CASE a.tween /\ a.fade = "hide"
        BY <1>2, <3>2, <3>3, <3>5, <4>1 DEF Fading
      <4>2. CASE ~a.tween
        BY <1>0, <1>2, <3>2, <3>3, <3>5, <4>2 DEF Fading, Settled
      <4>3. CASE a.tween /\ a.fade # "hide"
        BY <1>0, <1>2, <3>2, <3>3, <3>5, <4>3 DEF Fading
      <4>. QED
        BY <3>4, <4>1, <4>2, <4>3
    <3>. QED
      BY <1>0, <1>2, <3>2, <3>6 DEF Fit, Busy, a
  <2>. QED
    BY <2>1, <2>2
<1>4. cursor' \in 0..(Len(timers) + 1)
  BY <1>1 DEF IInv, TypeOK
<1>. QED
  BY <1>1, <1>2, <1>3, <1>4, OneKeeps

\* hide, likewise.
LEMMA HideKeeps ==
  ASSUME IInv, NEW e \in Elements, hide(e)
  PROVE  Kept
<1>. DEFINE el == [showHide(element[e], FALSE) EXCEPT !.last = "hide"]
<1>0. /\ element[e] \in ElementState /\ Fit(element[e], timers, e) /\ LiveIn(timers, e) = Live(e)
      /\ Nothing # "hide"
  BY OfElement, FxAssumption DEF Fades
<1>1. /\ element' = [element EXCEPT ![e] = el] /\ UNCHANGED <<timers, running, cursor, awaited>>
  BY <1>0 DEF hide, IInv, TypeOK
<1>2. /\ el \in ElementState /\ el.queue = element[e].queue /\ el.hooks = element[e].hooks
      /\ el.shown = FALSE /\ el.last = "hide"
      /\ el.opacity = element[e].opacity /\ el.fxshow = element[e].fxshow
      /\ el.halted = element[e].halted
  BY <1>0 DEF showHide, ElementState, Fades
<1>. HIDE DEF el
<1>3. Fit(el, timers, e)
  <2>1. CASE Live(e) = {}
    <3>1. Idle(element[e], timers, e)
      BY <1>0, <2>1 DEF Fit, Busy
    <3>2. Idle(el, timers, e)
      BY <1>0, <1>2, <3>1 DEF Idle, Done, Settled, Own
    <3>. QED
      BY <1>0, <1>2, <3>2 DEF Fit
  <2>2. CASE Live(e) # {}
    <3>1. PICK k \in Live(e) : TRUE
      BY <2>2
    <3>2. /\ Live(e) = {k} /\ timers[k] \in Animations /\ Fading(element[e], timers[k])
          /\ Busy(element[e], timers, e)
      BY <3>1, OneLive
    <3>3. Own(el) = "own"
      BY <1>2, <3>2 DEF Fading, Own
    <3>4. Fading(el, timers[k])
      BY <1>0, <1>2, <3>2, <3>3 DEF Fading, Settled
    <3>. QED
      BY <1>0, <1>2, <3>2, <3>4 DEF Fit, Busy
  <2>. QED
    BY <2>1, <2>2
<1>4. cursor' \in 0..(Len(timers) + 1)
  BY <1>1 DEF IInv, TypeOK
<1>. QED
  BY <1>1, <1>2, <1>3, <1>4, OneKeeps

\* What leaves the elements and the timers alone.
LEMMA RestKeeps ==
  ASSUME IInv, UNCHANGED <<element, timers, awaited>>, running' \in BOOLEAN,
         cursor' \in 0..(Len(timers) + 1), timers # <<>> \/ cursor' # 0 => running'
  PROVE  Kept
  BY DEF Kept, IInv, TypeOK, Promised, Awaiting

\* promise: only what has hooks is waited for, and it is in progress.
LEMMA PromiseKeeps ==
  ASSUME IInv, NEW es \in SUBSET Elements, promise(es)
  PROVE  Kept
<1>1. /\ awaited = {} /\ awaited' = {e \in es : element[e].hooks}
      /\ UNCHANGED <<element, timers, running, cursor>>
  BY DEF promise
<1>2. ASSUME NEW e \in awaited' PROVE element[e].queue # <<>>
  BY <1>1, OfElement DEF Fit, Idle, Busy, Done
<1>. QED
  BY <1>1, <1>2 DEF Kept, IInv, TypeOK, Promised, Awaiting

-----------------------------------------------------------------------------
(* The frames. *)

\* The animation at the cursor goes on.
LEMMA StepKeeps ==
  ASSUME IInv, step
  PROVE  Kept
<1>. DEFINE a == timers[cursor]
            e == a.elem
            el == [element[e] EXCEPT !.opacity = "part"]
<1>1. /\ cursor \in DOMAIN timers /\ e # Nothing /\ a.tween /\ cursor' = cursor + 1
      /\ element' = [element EXCEPT ![e] = el] /\ UNCHANGED <<timers, running, awaited>>
  BY DEF step
<1>2. timers \in Seq(Animations) /\ cursor \in 1..Len(timers) /\ Len(timers) \in Nat
  BY <1>1, LenProperties DEF IInv, TypeOK
<1>3. a \in Animations /\ e \in Elements
  <2>1. a \in Animations
    BY <1>2, ElementOfSeq
  <2>. QED
    BY <1>1, <2>1 DEF Animations
<1>4. cursor \in Live(e)
  BY <1>1 DEF Live
<1>5. /\ Live(e) = {cursor} /\ Fading(element[e], a) /\ Busy(element[e], timers, e)
      /\ element[e] \in ElementState /\ WellQueued(element[e].queue) /\ LiveIn(timers, e) = Live(e)
  BY <1>3, <1>4, OneLive, OfElement DEF Fit
<1>. HIDE DEF a, e
<1>6. /\ el \in ElementState /\ el.queue = element[e].queue /\ el.hooks = element[e].hooks
      /\ el.shown = element[e].shown /\ el.last = element[e].last /\ el.fxshow = element[e].fxshow
  BY <1>5 DEF ElementState, Opacities
<1>. HIDE DEF el
<1>7. Own(el) = "own"
  <2>1. el.fxshow = "own" /\ Nothing # "own"
    BY <1>1, <1>5, <1>6, FxAssumption DEF Fading, Opacities
  <2>. QED
    BY <2>1 DEF Own
<1>8. Fading(el, a)
  BY <1>1, <1>5, <1>6, <1>7 DEF Fading
<1>9. Fit(el, timers, e)
  BY <1>5, <1>6, <1>8 DEF Fit, Busy, a
<1>10. cursor' \in 0..(Len(timers) + 1) /\ cursor # 0
  BY <1>1, <1>2
<1>. QED
  BY <1>1, <1>3, <1>6, <1>9, <1>10, OneKeeps

\* It ends.
LEMMA DoneKeeps ==
  ASSUME IInv, done
  PROVE  Kept
<1>. DEFINE a == timers[cursor]
            e == a.elem
            el == end(element[e], a)
            ts == RemoveAt(timers, cursor)
<1>1. cursor \in DOMAIN timers /\ e # Nothing /\ dequeue(e, el, ts, cursor)
  BY DEF done
<1>2. timers \in Seq(Animations) /\ cursor \in 1..Len(timers) /\ Len(timers) \in Nat
  BY <1>1, LenProperties DEF IInv, TypeOK
<1>3. a \in Animations /\ e \in Elements
  <2>1. a \in Animations
    BY <1>2, ElementOfSeq
  <2>. QED
    BY <1>1, <2>1 DEF Animations
<1>4. cursor \in Live(e)
  BY <1>1 DEF Live
<1>5. /\ LiveIn(timers, e) = {cursor} /\ Fading(element[e], a) /\ Busy(element[e], timers, e)
      /\ element[e] \in ElementState /\ WellQueued(element[e].queue)
  BY <1>3, <1>4, OneLive, OfElement DEF Fit
<1>6. /\ el \in ElementState /\ Settled(el)
      /\ el.queue = element[e].queue /\ el.hooks = element[e].hooks
  BY <1>3, <1>5, Ended, EndsSettled
<1>7. ts \in Seq(Animations) /\ Len(ts) = Len(timers) - 1
  BY <1>2, Spliced
<1>8. LiveIn(ts, e) = {}
  BY <1>2, <1>5, SplicedAlone
<1>9. ASSUME NEW f \in Elements \ {e} PROVE Fit(element[f], ts, f)
  <2>1. Carries(timers, ts, f)
    BY <1>1, <1>2, SplicedCarries
  <2>. QED
    BY <2>1, OfElement, StillFits
<1>10. \A f \in awaited \ {e} : element[f].queue # <<>>
  BY DEF IInv, Awaiting
<1>11. running
  BY <1>2 DEF IInv
<1>12. cursor \in 0..(Len(ts) + 1)
  BY <1>2, <1>7
<1>. HIDE DEF e, el, ts
<1>13. Free(e, el, ts, cursor)
  BY <1>5, <1>6, <1>7, <1>8, <1>9, <1>10, <1>11, <1>12 DEF Free, Busy
<1>. QED
  BY <1>1, <1>3, <1>13, DequeueKeeps DEF e

\* It has ended before.
LEMMA GoneKeeps ==
  ASSUME IInv, gone
  PROVE  Kept
<1>. DEFINE ts == RemoveAt(timers, cursor)
<1>1. /\ cursor \in DOMAIN timers /\ timers[cursor].elem = Nothing /\ timers' = ts
      /\ UNCHANGED <<element, running, cursor, awaited>>
  BY DEF gone
<1>2. timers \in Seq(Animations) /\ cursor \in 1..Len(timers) /\ Len(timers) \in Nat
  BY <1>1, LenProperties DEF IInv, TypeOK
<1>3. ts \in Seq(Animations) /\ Len(ts) = Len(timers) - 1
  BY <1>2, Spliced
<1>4. ASSUME NEW f \in Elements PROVE Fit(element[f], ts, f)
  <2>1. timers[cursor].elem # f
    BY <1>1, FxAssumption
  <2>2. Carries(timers, ts, f)
    BY <1>1, <1>2, <2>1, SplicedCarries
  <2>. QED
    BY <2>2, OfElement, StillFits
<1>5. running /\ cursor \in 0..(Len(ts) + 1)
  BY <1>2, <1>3 DEF IInv
<1>. HIDE DEF ts
<1>. QED
  BY <1>1, <1>3, <1>4, <1>5 DEF Kept, IInv, TypeOK, Elems, Awaiting, Promised

\* The beginning and the end of a frame.
LEMMA FrameKeeps ==
  ASSUME IInv, frame \/ frameEnd
  PROVE  Kept
<1>1. timers \in Seq(Animations) /\ Len(timers) \in Nat /\ cursor \in 0..(Len(timers) + 1)
  BY LenProperties DEF IInv, TypeOK
<1>2. CASE frame
  <2>1. UNCHANGED <<element, timers, awaited>> /\ running' = running /\ running /\ cursor' = 1
    BY <1>2 DEF frame
  <2>2. running' \in BOOLEAN /\ cursor' \in 0..(Len(timers) + 1)
    BY <1>1, <2>1 DEF IInv, TypeOK
  <2>. QED
    BY <2>1, <2>2, RestKeeps
<1>3. CASE frameEnd
  <2>1. UNCHANGED <<element, timers, awaited>> /\ running' = (timers # <<>>) /\ cursor' = 0
    BY <1>3 DEF frameEnd
  <2>2. running' \in BOOLEAN /\ cursor' \in 0..(Len(timers) + 1)
    BY <1>1, <2>1
  <2>. QED
    BY <2>1, <2>2, RestKeeps
<1>. QED
  BY <1>2, <1>3

-----------------------------------------------------------------------------
(* The theorems. *)

\* At first no element has an animation.
LEMMA InitFits == Init => IInv
<1>. SUFFICES ASSUME Init PROVE IInv
  OBVIOUS
<1>1. /\ timers = <<>> /\ running = FALSE /\ cursor = 0 /\ requests = 0 /\ awaited = {}
      /\ element \in [Elements -> [queue : {<<>>}, hooks : {FALSE}, shown : BOOLEAN,
                      opacity : {"own"}, fxshow : {Nothing}, last : {Nothing}, halted : {FALSE}]]
  BY DEF Init
<1>2. <<>> \in Seq(Animations) /\ Len(<<>>) = 0 /\ <<>> \in Seq(Fades \union {"inprogress"})
  BY EmptySeq
<1>3. MaxRequests \in Nat
  BY FxAssumption
<1>4. ASSUME NEW e \in Elements PROVE element[e] \in ElementState /\ Fit(element[e], timers, e)
  <2>1. /\ element[e] \in [queue : {<<>>}, hooks : {FALSE}, shown : BOOLEAN,
                      opacity : {"own"}, fxshow : {Nothing}, last : {Nothing}, halted : {FALSE}]
    BY <1>1
  <2>2. element[e] \in ElementState
    BY <1>2, <2>1 DEF ElementState, Opacities
  <2>3. /\ element[e].queue = <<>> /\ ~element[e].hooks /\ element[e].opacity = "own"
        /\ element[e].fxshow = Nothing /\ element[e].last = Nothing
    BY <2>1
  <2>4. LiveIn(timers, e) = {}
    BY <1>1 DEF LiveIn
  <2>5. WellQueued(element[e].queue)
    BY <1>2, <2>3 DEF WellQueued
  <2>. QED
    BY <2>2, <2>3, <2>4, <2>5 DEF Fit, Idle, Done, Settled, Own
<1>5. element \in [Elements -> ElementState]
  BY <1>1, <1>4
<1>6. cursor \in 0..(Len(timers) + 1) /\ requests \in 0..MaxRequests
  BY <1>1, <1>2, <1>3
<1>. QED
  BY <1>1, <1>2, <1>4, <1>5, <1>6 DEF IInv, TypeOK, Elems, Awaiting

\* Every step keeps the invariant, and what is promised.
LEMMA NextKeeps == IInv /\ [Next]_vars => IInv' /\ Promised
<1>. SUFFICES ASSUME IInv, [Next]_vars PROVE IInv' /\ Promised
  OBVIOUS
<1>0. requests \in 0..MaxRequests /\ MaxRequests \in Nat
  BY FxAssumption DEF IInv, TypeOK
<1>. DEFINE Counted == requests' \in 0..MaxRequests
<1>1. ASSUME NEW e \in Elements, NEW fade \in Fades, animate(e, fade) PROVE Kept /\ Counted
  BY <1>0, <1>1, AnimateKeeps DEF animate
<1>2. ASSUME NEW e \in Elements, NEW clear \in BOOLEAN, NEW toEnd \in BOOLEAN, stop(e, clear, toEnd)
      PROVE  Kept /\ Counted
  BY <1>0, <1>2, StopKeeps DEF stop
<1>3. ASSUME NEW e \in Elements, finish(e) PROVE Kept /\ Counted
  BY <1>0, <1>3, FinishKeeps DEF finish
<1>4. ASSUME NEW e \in Elements, show(e) PROVE Kept /\ Counted
  BY <1>0, <1>4, ShowKeeps DEF show
<1>5. ASSUME NEW e \in Elements, hide(e) PROVE Kept /\ Counted
  BY <1>0, <1>5, HideKeeps DEF hide
<1>6. ASSUME NEW es \in SUBSET Elements, promise(es) PROVE Kept /\ Counted
  BY <1>0, <1>6, PromiseKeeps DEF promise
<1>7. ASSUME frame \/ frameEnd PROVE Kept /\ Counted
  BY <1>0, <1>7, FrameKeeps DEF frame, frameEnd
<1>8. ASSUME step PROVE Kept /\ Counted
  BY <1>0, <1>8, StepKeeps DEF step
<1>9. ASSUME done PROVE Kept /\ Counted
  BY <1>0, <1>9, DoneKeeps DEF done
<1>10. ASSUME gone PROVE Kept /\ Counted
  BY <1>0, <1>10, GoneKeeps DEF gone
<1>11. ASSUME UNCHANGED vars PROVE Kept /\ Counted
  BY <1>0, <1>11, RestKeeps DEF vars, IInv, TypeOK
<1>12. Kept /\ Counted
  BY <1>1, <1>2, <1>3, <1>4, <1>5, <1>6, <1>7, <1>8, <1>9, <1>10, <1>11 DEF Next
<1>. QED
  BY <1>12 DEF Kept, IInv, TypeOK

\* The invariant holds throughout.
LEMMA Invariant == Spec => []IInv
<1>1. Init => IInv
  BY InitFits
<1>2. IInv /\ [Next]_vars => IInv'
  BY NextKeeps
<1>. QED
  BY <1>1, <1>2, PTL DEF Spec

\* The types (Fx.TypeOK): the cursor of a frame stays within the list of timers or just
\* behind it, while the animations that end are taken out of it and others put in.
THEOREM FxTypes == Spec => []TypeOK
<1>1. IInv => TypeOK
  BY DEF IInv
<1>. QED
  BY <1>1, Invariant, PTL

\* No queue waits for nothing, and no two animations fight over an element: a queue is in
\* progress exactly as long as its element has one animation, for which a frame comes.
THEOREM QueuesInProgress == Spec => []NeverStuck
<1>1. IInv => NeverStuck
  <2>. SUFFICES ASSUME IInv, NEW e \in Elements
                PROVE  /\ element[e].queue = <<>> <=> Live(e) = {}
                       /\ element[e].queue # <<>> =>
                            /\ Head(element[e].queue) = "inprogress" /\ running
                            /\ Cardinality(Live(e)) = 1
    BY DEF NeverStuck
  <2>1. Fit(element[e], timers, e) /\ LiveIn(timers, e) = Live(e)
    BY OfElement
  <2>2. CASE Idle(element[e], timers, e)
    BY <2>1, <2>2 DEF Idle, Done
  <2>3. CASE Busy(element[e], timers, e)
    <3>1. PICK k : LiveIn(timers, e) = {k}
      BY <2>3 DEF Busy
    <3>2. Cardinality({k}) = 1
      BY FS_Singleton
    <3>3. timers # <<>>
      BY <3>1 DEF LiveIn
    <3>. QED
      BY <2>1, <2>3, <3>1, <3>2, <3>3 DEF Busy, IInv
  <2>. QED
    BY <2>1, <2>2, <2>3 DEF Fit
<1>. QED
  BY <1>1, Invariant, PTL

\* However fades are interrupted and follow one another, an element's own opacity is what
\* it has, or comes back to.
THEOREM OpacityComesBack == Spec => []OwnOpacityKept
<1>1. IInv => OwnOpacityKept
  <2>. SUFFICES ASSUME IInv, NEW e \in Elements PROVE Own(element[e]) = "own"
    BY DEF OwnOpacityKept
  <2>. QED
    BY OfElement DEF Fit, Idle, Busy, Done, Settled, Fading
<1>. QED
  BY <1>1, Invariant, PTL

\* An element whose queue has run dry is as it was last asked to be, with its own opacity,
\* unless a fade was stopped half-way.
THEOREM LastOneWins == Spec => []LastFadeWins
<1>1. IInv => LastFadeWins
  <2>. SUFFICES ASSUME IInv, NEW e \in Elements, element[e].queue = <<>>,
                       element[e].last # Nothing, ~element[e].halted
                PROVE  /\ element[e].shown = (element[e].last = "show")
                       /\ element[e].opacity = "own" /\ element[e].fxshow = Nothing
    BY DEF LastFadeWins
  <2>1. Settled(element[e])
    BY OfElement DEF Fit, Idle, Busy, Done
  <2>. QED
    BY <2>1 DEF Settled, Own
<1>. QED
  BY <1>1, Invariant, PTL

\* A promise waits for each queue until it is empty, and not longer.
THEOREM PromisesKept == Spec => PromiseIsKept
<1>1. IInv /\ [Next]_vars => [\A e \in awaited : e \in awaited' <=> element'[e].queue # <<>>]_vars
  BY NextKeeps DEF Promised
<1>. QED
  BY <1>1, Invariant, PTL DEF Spec, PromiseIsKept
===============================================================================
