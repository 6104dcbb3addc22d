----------------------------- MODULE EventsProofs -----------------------------
(***************************************************************************)
(* For any elements, any bindings and any number of calls, whatever the    *)
(* handlers bind, unbind, trigger and stop: every list has its delegated   *)
(* handlers first and counts them, the browser listens where there are     *)
(* handlers and nowhere else, and every call has its event object and      *)
(* every object the browser's event behind it.                             *)
(*                                                                         *)
(* What removed, delegatedFor and handlers make of a list is defined by    *)
(* recursion on it; the induction that this needs is made on sets of       *)
(* numbers, from the well-foundedness of < (Everything, Recursion).        *)
(***************************************************************************)
EXTENDS Events, TLAPS, SequenceTheorems, FiniteSetTheorems, WellFoundedInduction

-----------------------------------------------------------------------------
(* Induction, on a set of numbers. *)

\* A set of numbers that has 0, and the next of every number it has, has them all.
LEMMA Everything ==
  ASSUME NEW T, 0 \in T, \A k \in Nat : k \in T => k + 1 \in T
  PROVE  \A k \in Nat : k \in T
<1>. DEFINE R == OpToRel(<, Nat)
            Rest == {k \in Nat : k \notin T}
<1>1. SUFFICES ASSUME Rest # {} PROVE FALSE
  OBVIOUS
<1>2. IsWellFoundedOn(R, Nat)
  BY NatLessThanWellFounded
<1>3. Rest \subseteq Nat
  OBVIOUS
<1>. HIDE DEF R
<1>4. PICK x \in Rest : \A y \in Rest : ~(<<y, x>> \in R)
  BY <1>1, <1>2, <1>3, WFMin
<1>5. \A y \in Rest : ~(y < x)
  BY <1>4, <1>3 DEF R, OpToRel
<1>6. x - 1 \in Nat /\ x - 1 < x /\ (x - 1) + 1 = x
  OBVIOUS
<1>7. x - 1 \in T
  BY <1>5, <1>6
<1>. QED
  BY <1>6, <1>7

\* g leads from a value of the set S[k - 1] to a value of the set S[k], for each k up to n.
Leads(g, n, S) == \A k \in 1..n : \A x \in S[k - 1] : g[<<k, x>>] \in S[k]
\* f is what g makes of b, step by step; its values are those of the sets.
Follows(f, n, S, b, g) ==
  /\ f = [k \in 0..n |-> IF k = 0 THEN b ELSE g[<<k, f[k - 1]>>]]
  /\ \A k \in 0..n : f[k] \in S[k]

\* A function that is defined by recursion on the numbers up to n exists, if each step
\* leads from a value to a value.
LEMMA Recursion ==
  ASSUME NEW n \in Nat, NEW S, NEW b \in S[0], NEW g, Leads(g, n, S)
  PROVE  \E f : Follows(f, n, S, b, g)
<1>. DEFINE Upto(m) == \E f : Follows(f, m, S, b, g)
            T == {m \in Nat : m <= n => Upto(m)}
<1>1. Upto(0)
  <2>. DEFINE f == [k \in 0..0 |-> b]
  <2>1. \A k \in 0..0 : k = 0
    OBVIOUS
  <2>2. f = [k \in 0..0 |-> IF k = 0 THEN b ELSE g[<<k, f[k - 1]>>]]
    BY <2>1
  <2>3. \A k \in 0..0 : f[k] \in S[k]
    BY <2>1
  <2>. HIDE DEF f
  <2>. QED
    BY <2>2, <2>3 DEF Follows
<1>2. ASSUME NEW m \in Nat, m + 1 <= n, Upto(m) PROVE Upto(m + 1)
  <2>1. PICK f : Follows(f, m, S, b, g)
    BY <1>2
  <2>2. \A k \in 0..m : f[k] = (IF k = 0 THEN b ELSE g[<<k, f[k - 1]>>]) /\ f[k] \in S[k]
    BY <2>1 DEF Follows
  <2>. DEFINE h == [k \in 0..(m + 1) |-> IF k = m + 1 THEN g[<<m + 1, f[m]>>] ELSE f[k]]
  <2>3. f[m] \in S[m] /\ m + 1 \in 1..n /\ (m + 1) - 1 = m
    <3>1. m \in 0..m /\ m + 1 \in 1..n /\ (m + 1) - 1 = m
      BY <1>2
    <3>. QED
      BY <2>2, <3>1
  <2>4. g[<<m + 1, f[m]>>] \in S[m + 1]
    BY <2>3 DEF Leads
  <2>5. ASSUME NEW k \in 0..(m + 1)
        PROVE  h[k] = (IF k = 0 THEN b ELSE g[<<k, h[k - 1]>>]) /\ h[k] \in S[k]
    <3>1. CASE k = m + 1
      <4>1. m \in 0..(m + 1) /\ m # m + 1 /\ k - 1 = m /\ k # 0
        BY <3>1
      <4>2. h[k] = g[<<m + 1, f[m]>>] /\ h[k - 1] = f[m]
        BY <3>1, <4>1
      <4>. QED
        BY <3>1, <4>1, <4>2, <2>4
    <3>2. CASE k # m + 1
      <4>1. k \in 0..m /\ h[k] = f[k]
        BY <3>2
      <4>2. k # 0 => k - 1 \in 0..(m + 1) /\ k - 1 # m + 1
        BY <3>2
      <4>3. k # 0 => h[k - 1] = f[k - 1]
        BY <4>2
      <4>. QED
        BY <4>1, <4>3, <2>2
    <3>. QED
      BY <3>1, <3>2
  <2>6. h = [k \in 0..(m + 1) |-> h[k]]
    OBVIOUS
  <2>. HIDE DEF h
  <2>7. h = [k \in 0..(m + 1) |-> IF k = 0 THEN b ELSE g[<<k, h[k - 1]>>]]
    BY <2>5, <2>6
  <2>. QED
    BY <2>5, <2>7 DEF Follows
<1>. HIDE DEF Upto
<1>3. 0 \in T
  BY <1>1
<1>4. ASSUME NEW m \in Nat, m \in T PROVE m + 1 \in T
  <2>1. m + 1 \in Nat /\ (m + 1 <= n => m <= n)
    OBVIOUS
  <2>. QED
    BY <1>2, <1>4, <2>1
<1>. HIDE DEF T
<1>5. n \in T
  BY <1>3, <1>4, Everything
<1>6. Upto(n)
  BY <1>5 DEF T
<1>. QED
  BY <1>6 DEF Upto

\* What begins in the first set and goes from each set to the next ends in the last one.
LEMMA Stepwise ==
  ASSUME NEW n \in Nat, NEW S, NEW f, f[0] \in S[0],
         \A k \in 1..n : f[k - 1] \in S[k - 1] => f[k] \in S[k]
  PROVE  f[n] \in S[n]
<1>. DEFINE T == {k \in Nat : k <= n => f[k] \in S[k]}
<1>1. 0 \in T
  OBVIOUS
<1>2. ASSUME NEW k \in Nat, k \in T PROVE k + 1 \in T
  <2>1. CASE k + 1 <= n
    <3>1. k + 1 \in 1..n /\ k <= n /\ (k + 1) - 1 = k
      BY <2>1
    <3>. QED
      BY <1>2, <3>1
  <2>2. CASE ~(k + 1 <= n)
    BY <2>2
  <2>. QED
    BY <2>1, <2>2
<1>. HIDE DEF T
<1>3. n \in T
  BY <1>1, <1>2, Everything
<1>. QED
  BY <1>3 DEF T

\* The greatest of some numbers up to n.
LEMMA Greatest ==
  ASSUME NEW n \in Nat, NEW S \in SUBSET (0..n), S # {}
  PROVE  Max(S) \in S /\ \A x \in S : x <= Max(S)
<1>. DEFINE R == OpToRel(<, Nat)
            Up == {n - x : x \in S}
<1>1. IsWellFoundedOn(R, Nat)
  BY NatLessThanWellFounded
<1>2. Up \subseteq Nat /\ Up # {}
  <2>1. \A x \in S : n - x \in Nat
    OBVIOUS
  <2>2. PICK x : x \in S
    OBVIOUS
  <2>. QED
    BY <2>1, <2>2
<1>. HIDE DEF R
<1>3. PICK u \in Up : \A y \in Up : ~(<<y, u>> \in R)
  BY <1>1, <1>2, WFMin
<1>4. PICK m \in S : u = n - m
  OBVIOUS
<1>5. \A x \in S : m >= x
  <2>. SUFFICES ASSUME NEW x \in S PROVE m >= x
    OBVIOUS
  <2>1. ~(<<n - x, u>> \in R) /\ n - x \in Nat /\ u \in Nat
    BY <1>2, <1>3
  <2>2. ~(n - x < u)
    BY <2>1 DEF R, OpToRel
  <2>. QED
    BY <1>4, <2>2
<1>6. \E m0 \in S : \A x \in S : m0 >= x
  BY <1>5
<1>7. Max(S) \in S /\ \A x \in S : Max(S) >= x
  BY <1>6 DEF Max
<1>. QED
  BY <1>7

-----------------------------------------------------------------------------
(* Sequences. *)

\* The list closes up over what is taken out of it.
LEMMA Spliced ==
  ASSUME NEW S, NEW s \in Seq(S), NEW k \in 1..Len(s)
  PROVE  /\ RemoveAt(s, k) \in Seq(S)
         /\ Len(s) \in Nat /\ Len(RemoveAt(s, k)) = Len(s) - 1
         /\ \A i \in 1..(k - 1) : RemoveAt(s, k)[i] = s[i]
         /\ \A i \in k..(Len(s) - 1) : RemoveAt(s, k)[i] = s[i + 1]
<1>. DEFINE a == SubSeq(s, 1, k - 1)
            c == SubSeq(s, k + 1, Len(s))
<1>0. Len(s) \in Nat /\ k - 1 \in Nat /\ k + 1 \in Nat
  BY LenProperties
<1>1. a \in Seq(S) /\ Len(a) = k - 1 /\ \A i \in 1..(k - 1) : a[i] = s[i]
  BY <1>0, SubSeqProperties
<1>2. c \in Seq(S) /\ Len(c) = Len(s) - k /\ \A i \in 1..(Len(s) - k) : c[i] = s[k + i]
  BY <1>0, SubSeqProperties
<1>3. RemoveAt(s, k) = a \o c
  BY DEF RemoveAt
<1>. HIDE DEF a, c
<1>4. /\ a \o c \in Seq(S) /\ Len(a \o c) = Len(a) + Len(c)
      /\ \A i \in 1..(Len(a) + Len(c)) : (a \o c)[i] = IF i <= Len(a) THEN a[i] ELSE c[i - Len(a)]
  BY <1>1, <1>2, ConcatProperties
<1>5. Len(a) + Len(c) = Len(s) - 1
  BY <1>0, <1>1, <1>2
<1>6. ASSUME NEW i \in 1..(k - 1) PROVE (a \o c)[i] = s[i]
  <2>1. i <= k - 1 /\ i \in 1..(Len(s) - 1)
    BY <1>0
  <2>. QED
    BY <2>1, <1>1, <1>4, <1>5
<1>7. ASSUME NEW i \in k..(Len(s) - 1) PROVE (a \o c)[i] = s[i + 1]
  <2>1. /\ ~(i <= k - 1) /\ i - (k - 1) \in 1..(Len(s) - k) /\ k + (i - (k - 1)) = i + 1
        /\ i \in 1..(Len(s) - 1)
    BY <1>0
  <2>2. (a \o c)[i] = c[i - (k - 1)]
    BY <2>1, <1>1, <1>4, <1>5
  <2>. QED
    BY <2>1, <2>2, <1>2
<1>. QED
  BY <1>0, <1>3, <1>4, <1>5, <1>6, <1>7

\* It makes room for what is put in.
LEMMA Inserted ==
  ASSUME NEW S, NEW s \in Seq(S), NEW x \in S, NEW k \in 1..(Len(s) + 1)
  PROVE  /\ InsertAt(s, k, x) \in Seq(S)
         /\ Len(s) \in Nat /\ Len(InsertAt(s, k, x)) = Len(s) + 1
         /\ \A i \in 1..(k - 1) : InsertAt(s, k, x)[i] = s[i]
         /\ InsertAt(s, k, x)[k] = x
         /\ \A i \in (k + 1)..(Len(s) + 1) : InsertAt(s, k, x)[i] = s[i - 1]
<1>. DEFINE a == SubSeq(s, 1, k - 1)
            b == <<x>>
            c == SubSeq(s, k, Len(s))
            ab == a \o b
<1>0. Len(s) \in Nat /\ k - 1 \in Nat /\ k \in Nat
  BY LenProperties
<1>1. a \in Seq(S) /\ Len(a) = k - 1 /\ \A i \in 1..(k - 1) : a[i] = s[i]
  BY <1>0, SubSeqProperties
<1>2. c \in Seq(S) /\ Len(c) = Len(s) - k + 1 /\ \A i \in 1..(Len(s) - k + 1) : c[i] = s[k + i - 1]
  BY <1>0, SubSeqProperties
<1>3. b \in Seq(S) /\ Len(b) = 1 /\ b[1] = x
  OBVIOUS
<1>4. InsertAt(s, k, x) = ab \o c
  BY DEF InsertAt
<1>. HIDE DEF a, b, c
<1>5. /\ ab \in Seq(S) /\ Len(ab) = k
      /\ \A i \in 1..k : ab[i] = IF i <= k - 1 THEN a[i] ELSE b[i - (k - 1)]
  <2>1. /\ ab \in Seq(S) /\ Len(ab) = Len(a) + Len(b)
        /\ \A i \in 1..(Len(a) + Len(b)) : ab[i] = IF i <= Len(a) THEN a[i] ELSE b[i - Len(a)]
    BY <1>1, <1>3, ConcatProperties
  <2>2. Len(a) + Len(b) = k
    BY <1>0, <1>1, <1>3
  <2>. QED
    BY <1>1, <2>1, <2>2
<1>. HIDE DEF ab
<1>6. /\ ab \o c \in Seq(S) /\ Len(ab \o c) = Len(s) + 1
      /\ \A i \in 1..(Len(s) + 1) : (ab \o c)[i] = IF i <= k THEN ab[i] ELSE c[i - k]
  <2>1. /\ ab \o c \in Seq(S) /\ Len(ab \o c) = Len(ab) + Len(c)
        /\ \A i \in 1..(Len(ab) + Len(c)) :
             (ab \o c)[i] = IF i <= Len(ab) THEN ab[i] ELSE c[i - Len(ab)]
    BY <1>2, <1>5, ConcatProperties
  <2>2. Len(ab) + Len(c) = Len(s) + 1
    BY <1>0, <1>2, <1>5
  <2>. QED
    BY <1>5, <2>1, <2>2
<1>7. ASSUME NEW i \in 1..(k - 1) PROVE (ab \o c)[i] = s[i]
  <2>1. i <= k /\ i <= k - 1 /\ i \in 1..k /\ i \in 1..(Len(s) + 1)
    BY <1>0
  <2>. QED
    BY <2>1, <1>1, <1>5, <1>6
<1>8. (ab \o c)[k] = x
  <2>1. k <= k /\ ~(k <= k - 1) /\ k - (k - 1) = 1 /\ k \in 1..k /\ k \in 1..(Len(s) + 1)
    BY <1>0
  <2>. QED
    BY <2>1, <1>3, <1>5, <1>6
<1>9. ASSUME NEW i \in (k + 1)..(Len(s) + 1) PROVE (ab \o c)[i] = s[i - 1]
  <2>1. /\ ~(i <= k) /\ i - k \in 1..(Len(s) - k + 1) /\ k + (i - k) - 1 = i - 1
        /\ i \in 1..(Len(s) + 1)
    BY <1>0
  <2>. QED
    BY <2>1, <1>2, <1>6
<1>. QED
  BY <1>0, <1>4, <1>6, <1>7, <1>8, <1>9

-----------------------------------------------------------------------------
(* The list of an element. *)

\* What may be listed.
Listed == Handlers \union {Stub, ReturnTrue}

\* The delegated handlers come first, as many as are counted.
Sorted(l) ==
  /\ l.delegateCount <= Len(l.list)
  /\ \A i \in 1..Len(l.list) : l.list[i].sel # 0 <=> i <= l.delegateCount

\* The stub has no handler before it.
StubFirst(l) == \A i \in 1..Len(l.list) : l.list[i] = Stub => i = 1

\* No binding is listed twice.
Distinct(hs) == \A i, j \in 1..Len(hs) : hs[i].id = hs[j].id => i = j

\* What is listed has an id and the element it is for.
LEMMA ListedFields ==
  ASSUME NEW h \in Listed
  PROVE  h.sel \in 0..Depth /\ (h \notin Handlers => h.sel = 0)
  BY EventsAssumption DEF Listed, Handlers, Stub, ReturnTrue

\* A delegated handler goes where the delegated ones end.
LEMMA AddedDelegated ==
  ASSUME NEW l \in Lists, NEW h \in Listed, Sorted(l), h.sel # 0
  PROVE  LET c == l.delegateCount  s == added(l, h).list IN
         /\ added(l, h) = [list |-> s, delegateCount |-> c + 1] /\ s \in Seq(Listed)
         /\ Len(s) = Len(l.list) + 1
         /\ \A i \in 1..c : s[i] = l.list[i]
         /\ s[c + 1] = h
         /\ \A i \in (c + 2)..(Len(l.list) + 1) : s[i] = l.list[i - 1]
<1>. DEFINE c == l.delegateCount
            s == InsertAt(l.list, c + 1, h)
<1>1. l.list \in Seq(Listed) /\ c \in Nat /\ Len(l.list) \in Nat
  BY LenProperties DEF Lists, Listed
<1>2. added(l, h) = [list |-> s, delegateCount |-> c + 1] /\ added(l, h).list = s
  BY DEF added
<1>3. c + 1 \in 1..(Len(l.list) + 1) /\ (c + 1) - 1 = c /\ (c + 1) + 1 = c + 2
  BY <1>1 DEF Sorted
<1>4. \A q \in Seq(Listed) : \A k \in 1..(Len(q) + 1) :
        /\ InsertAt(q, k, h) \in Seq(Listed)
        /\ Len(InsertAt(q, k, h)) = Len(q) + 1
        /\ \A i \in 1..(k - 1) : InsertAt(q, k, h)[i] = q[i]
        /\ InsertAt(q, k, h)[k] = h
        /\ \A i \in (k + 1)..(Len(q) + 1) : InsertAt(q, k, h)[i] = q[i - 1]
  BY Inserted, SMTT(60)
<1>5. /\ s \in Seq(Listed) /\ Len(s) = Len(l.list) + 1
      /\ \A i \in 1..((c + 1) - 1) : s[i] = l.list[i]
      /\ s[c + 1] = h
      /\ \A i \in ((c + 1) + 1)..(Len(l.list) + 1) : s[i] = l.list[i - 1]
  BY <1>1, <1>3, <1>4, Zenon
<1>. HIDE DEF s
<1>. QED
  BY <1>2, <1>3, <1>5

\* A handler that is added has its place, and the others keep theirs.
LEMMA AddedSorted ==
  ASSUME NEW l \in Lists, NEW h \in Listed, Sorted(l)
  PROVE  /\ added(l, h) \in Lists /\ Sorted(added(l, h)) /\ added(l, h).list # <<>>
         /\ Len(added(l, h).list) = Len(l.list) + 1
<1>0. l.list \in Seq(Listed) /\ l.delegateCount \in Nat /\ Len(l.list) \in Nat
      /\ l = [list |-> l.list, delegateCount |-> l.delegateCount]
  BY LenProperties DEF Lists, Listed
<1>1. \A i \in 1..Len(l.list) : l.list[i].sel # 0 <=> i <= l.delegateCount
  BY DEF Sorted
<1>2. CASE h.sel = 0
  <2>. DEFINE s == Append(l.list, h)
  <2>1. added(l, h) = [list |-> s, delegateCount |-> l.delegateCount]
    BY <1>0, <1>2 DEF added
  <2>2. s \in Seq(Listed) /\ Len(s) = Len(l.list) + 1
        /\ (\A i \in 1..Len(l.list) : s[i] = l.list[i]) /\ s[Len(l.list) + 1] = h
    BY <1>0, AppendProperties
  <2>. HIDE DEF s
  <2>3. ASSUME NEW i \in 1..Len(s) PROVE s[i].sel # 0 <=> i <= l.delegateCount
    <3>1. CASE i = Len(l.list) + 1
      BY <1>0, <1>2, <2>2, <3>1 DEF Sorted
    <3>2. CASE i # Len(l.list) + 1
      <4>1. i \in 1..Len(l.list)
        BY <1>0, <2>2, <3>2
      <4>. QED
        BY <1>1, <2>2, <4>1
    <3>. QED
      BY <3>1, <3>2
  <2>4. s # <<>>
    BY <1>0, <2>2, EmptySeq
  <2>. QED
    BY <1>0, <2>1, <2>2, <2>3, <2>4 DEF Sorted, Lists, Listed
<1>3. CASE h.sel # 0
  <2>. DEFINE c == l.delegateCount
              s == added(l, h).list
  <2>1. added(l, h) = [list |-> s, delegateCount |-> c + 1]
    BY <1>3, AddedDelegated
  <2>2. c + 1 \in 1..(Len(l.list) + 1)
    BY <1>0 DEF Sorted
  <2>3. /\ s \in Seq(Listed) /\ Len(s) = Len(l.list) + 1
        /\ \A i \in 1..c : s[i] = l.list[i]
        /\ s[c + 1] = h
        /\ \A i \in (c + 2)..(Len(l.list) + 1) : s[i] = l.list[i - 1]
    BY <1>3, AddedDelegated
  <2>. HIDE DEF s
  <2>4. ASSUME NEW i \in 1..Len(s) PROVE s[i].sel # 0 <=> i <= c + 1
    <3>1. CASE i < c + 1
      <4>1. i \in 1..Len(l.list) /\ i \in 1..c /\ i <= c /\ i <= c + 1
        BY <1>0, <2>2, <2>3, <3>1
      <4>. QED
        BY <1>1, <2>3, <3>1, <4>1
    <3>2. CASE i = c + 1
      BY <1>0, <1>3, <2>2, <2>3, <3>2
    <3>3. CASE i > c + 1
      <4>1. i - 1 \in 1..Len(l.list) /\ i \in (c + 2)..(Len(l.list) + 1) /\ ~(i - 1 <= c)
            /\ ~(i <= c + 1)
        BY <1>0, <2>2, <2>3, <3>3
      <4>. QED
        BY <1>1, <2>3, <4>1
    <3>4. i < c + 1 \/ i = c + 1 \/ i > c + 1
      BY <1>0, <2>3
    <3>. QED
      BY <3>1, <3>2, <3>3, <3>4
  <2>5. s # <<>>
    BY <1>0, <2>3, EmptySeq
  <2>6. c + 1 \in Nat /\ c + 1 <= Len(s)
    BY <1>0, <2>2, <2>3
  <2>. QED
    BY <2>1, <2>3, <2>4, <2>5, <2>6 DEF Sorted, Lists, Listed
<1>. QED
  BY <1>2, <1>3

\* One that is for the element itself goes to the end, so the stub is where it was.
LEMMA AddedStub ==
  ASSUME NEW l \in Lists, NEW h \in Listed, StubFirst(l), h.sel = 0, h = Stub => l.list = <<>>
  PROVE  StubFirst(added(l, h))
<1>0. l.list \in Seq(Listed) /\ Len(l.list) \in Nat
  BY LenProperties DEF Lists, Listed
<1>1. added(l, h).list = Append(l.list, h)
  BY DEF added, Lists
<1>2. ASSUME NEW i \in 1..Len(Append(l.list, h)), Append(l.list, h)[i] = Stub PROVE i = 1
  <2>1. /\ Len(Append(l.list, h)) = Len(l.list) + 1
        /\ \A j \in 1..Len(l.list) : Append(l.list, h)[j] = l.list[j]
        /\ Append(l.list, h)[Len(l.list) + 1] = h
    BY <1>0, AppendProperties
  <2>2. CASE i = Len(l.list) + 1
    <3>1. l.list = <<>>
      BY <1>2, <2>1, <2>2
    <3>. QED
      BY <2>2, <3>1
  <2>3. CASE i # Len(l.list) + 1
    <3>1. i \in 1..Len(l.list)
      BY <1>0, <2>1, <2>3
    <3>. QED
      BY <1>2, <2>1, <3>1 DEF StubFirst
  <2>. QED
    BY <2>2, <2>3
<1>. QED
  BY <1>1, <1>2 DEF StubFirst

\* What is in the list that a handler was added to was there, or is that.
LEMMA AddedListed ==
  ASSUME NEW l \in Lists, NEW h \in Listed, Sorted(l), NEW i \in 1..Len(added(l, h).list)
  PROVE  added(l, h).list[i] = h \/ \E j \in 1..Len(l.list) : added(l, h).list[i] = l.list[j]
<1>0. l.list \in Seq(Listed) /\ l.delegateCount \in Nat /\ Len(l.list) \in Nat
  BY LenProperties DEF Lists, Listed
<1>1. i \in 1..(Len(l.list) + 1)
  BY AddedSorted
<1>2. CASE h.sel = 0
  <2>1. added(l, h).list = Append(l.list, h)
    BY <1>2 DEF added, Lists
  <2>2. /\ \A j \in 1..Len(l.list) : Append(l.list, h)[j] = l.list[j]
        /\ Append(l.list, h)[Len(l.list) + 1] = h
    BY <1>0, AppendProperties
  <2>3. i \in 1..Len(l.list) \/ i = Len(l.list) + 1
    BY <1>0, <1>1
  <2>. QED
    BY <2>1, <2>2, <2>3
<1>3. CASE h.sel # 0
  <2>. DEFINE c == l.delegateCount
  <2>2. c + 1 \in 1..(Len(l.list) + 1)
    BY <1>0 DEF Sorted
  <2>3. /\ \A m \in 1..c : added(l, h).list[m] = l.list[m]
        /\ added(l, h).list[c + 1] = h
        /\ \A m \in (c + 2)..(Len(l.list) + 1) : added(l, h).list[m] = l.list[m - 1]
    BY <1>3, AddedDelegated
  <2>4. CASE i < c + 1
    <3>1. i \in 1..Len(l.list) /\ i \in 1..c
      BY <1>0, <1>1, <2>2, <2>4
    <3>. QED
      BY <2>3, <3>1
  <2>5. CASE i = c + 1
    BY <2>3, <2>5
  <2>6. CASE i > c + 1
    <3>1. i - 1 \in 1..Len(l.list) /\ i \in (c + 2)..(Len(l.list) + 1)
      BY <1>0, <1>1, <2>2, <2>6
    <3>. QED
      BY <2>3, <3>1
  <2>7. i < c + 1 \/ i = c + 1 \/ i > c + 1
    BY <1>0, <1>1
  <2>. QED
    BY <2>4, <2>5, <2>6, <2>7
<1>. QED
  BY <1>2, <1>3

\* The two parts of a sequence.
LEMMA TwoParts ==
  ASSUME NEW s \in Seq(Listed), NEW c \in 0..Len(s)
  PROVE  /\ SubSeq(s, 1, c) \in Seq(Listed) /\ Len(SubSeq(s, 1, c)) = c
         /\ \A i \in 1..c : SubSeq(s, 1, c)[i] = s[i]
         /\ SubSeq(s, c + 1, Len(s)) \in Seq(Listed) /\ Len(SubSeq(s, c + 1, Len(s))) = Len(s) - c
         /\ \A i \in 1..(Len(s) - c) : SubSeq(s, c + 1, Len(s))[i] = s[c + i]
<1>1. Len(s) \in Nat /\ c \in Nat /\ c <= Len(s) /\ \A i \in 1..Len(s) : s[i] \in Listed
  BY LenProperties, ElementOfSeq
<1>. DEFINE a == SubSeq(s, 1, c)
            b == SubSeq(s, c + 1, Len(s))
<1>2. a \in Seq(Listed) /\ Len(a) = c /\ \A i \in 1..c : a[i] = s[i]
  <2>1. 1 \in Int /\ c \in Int /\ \A i \in 1..c : s[i] \in Listed
    BY <1>1
  <2>2. /\ a \in Seq(Listed) /\ Len(a) = (IF 1 <= c THEN c - 1 + 1 ELSE 0)
        /\ \A i \in 1..(c - 1 + 1) : a[i] = s[1 + i - 1]
    BY <2>1, SubSeqProperties, SMTT(60)
  <2>3. c - 1 + 1 = c /\ (~(1 <= c) => c = 0) /\ \A i \in 1..c : 1 + i - 1 = i
    BY <1>1
  <2>. HIDE DEF a
  <2>. QED
    BY <2>2, <2>3
<1>3. b \in Seq(Listed) /\ Len(b) = Len(s) - c /\ \A i \in 1..(Len(s) - c) : b[i] = s[c + i]
  <2>1. c + 1 \in Int /\ Len(s) \in Int /\ \A i \in (c + 1)..Len(s) : s[i] \in Listed
    BY <1>1
  <2>2. /\ b \in Seq(Listed) /\ Len(b) = (IF c + 1 <= Len(s) THEN Len(s) - (c + 1) + 1 ELSE 0)
        /\ \A i \in 1..(Len(s) - (c + 1) + 1) : b[i] = s[(c + 1) + i - 1]
    BY <2>1, SubSeqProperties, SMTT(60)
  <2>3. /\ Len(s) - (c + 1) + 1 = Len(s) - c /\ (~(c + 1 <= Len(s)) => Len(s) - c = 0)
        /\ \A i \in 1..(Len(s) - c) : (c + 1) + i - 1 = c + i
    BY <1>1
  <2>. HIDE DEF b
  <2>. QED
    BY <2>2, <2>3
<1>. QED
  BY <1>2, <1>3

\* The delegated handlers of an element, and its own.
LEMMA DelegatedAndOwn ==
  ASSUME NEW n \in Elements, events[n] \in Lists, Sorted(events[n])
  PROVE  LET l == events[n].list  c == events[n].delegateCount IN
         /\ l \in Seq(Listed) /\ c \in Nat /\ Len(l) \in Nat /\ c <= Len(l)
         /\ \A i \in 1..Len(l) : l[i] \in Listed
         /\ \A i \in 1..Len(l) : l[i].sel # 0 <=> i <= c
         /\ Delegated(n) \in Seq(Listed) /\ Len(Delegated(n)) = c
         /\ \A i \in 1..c : Delegated(n)[i] = l[i]
         /\ Own(n) \in Seq(Listed) /\ Len(Own(n)) = Len(l) - c
         /\ \A i \in 1..(Len(l) - c) : Own(n)[i] = l[c + i]
<1>. DEFINE l == events[n].list
            c == events[n].delegateCount
<1>1. /\ l \in Seq(Listed) /\ c \in Nat /\ Len(l) \in Nat /\ c <= Len(l)
      /\ \A i \in 1..Len(l) : l[i] \in Listed
      /\ \A i \in 1..Len(l) : l[i].sel # 0 <=> i <= c
  BY LenProperties, ElementOfSeq DEF Lists, Listed, Sorted
<1>2. Delegated(n) = SubSeq(l, 1, c) /\ Own(n) = SubSeq(l, c + 1, Len(l))
  BY DEF Delegated, Own
<1>. HIDE DEF l, c
<1>3. c \in 0..Len(l)
  BY <1>1
<1>4. /\ SubSeq(l, 1, c) \in Seq(Listed) /\ Len(SubSeq(l, 1, c)) = c
      /\ \A i \in 1..c : SubSeq(l, 1, c)[i] = l[i]
      /\ SubSeq(l, c + 1, Len(l)) \in Seq(Listed) /\ Len(SubSeq(l, c + 1, Len(l))) = Len(l) - c
      /\ \A i \in 1..(Len(l) - c) : SubSeq(l, c + 1, Len(l))[i] = l[c + i]
  BY <1>1, <1>3, TwoParts, Zenon
<1>. QED
  BY <1>1, <1>2, <1>4 DEF l, c

-----------------------------------------------------------------------------
(* What is left of a list. *)

\* x is left of l when its last k handlers have been gone through.
Left(x, l, gone, k) ==
  /\ x \in Lists /\ Sorted(x) /\ Len(x.list) >= Len(l.list) - k
  /\ \A i \in 1..(Len(l.list) - k) : x.list[i] = l.list[i]
  /\ \A i \in (Len(l.list) - k + 1)..Len(x.list) : x.list[i] \notin gone
  /\ \A i \in 1..Len(x.list) : \E j \in i..Len(l.list) : x.list[i] = l.list[j]
  /\ \A j \in 1..Len(l.list) :
       l.list[j] \notin gone => \E i \in 1..Len(x.list) : x.list[i] = l.list[j]
  /\ Distinct(l.list) => Distinct(x.list)

\* One more is gone through.
LEMMA OneLeft ==
  ASSUME NEW l \in Lists, NEW gone, NEW k \in 1..Len(l.list), NEW x, Left(x, l, gone, k - 1)
  PROVE  Left(spliced(x, Len(l.list) + 1 - k, gone), l, gone, k)
<1>. DEFINE n == Len(l.list)
            m == Len(x.list)
            p == n + 1 - k
<1>1. /\ x.list \in Seq(Listed) /\ x.delegateCount \in Nat /\ m \in Nat /\ n \in Nat
      /\ x = [list |-> x.list, delegateCount |-> x.delegateCount]
  BY LenProperties DEF Left, Lists, Listed
<1>2. p \in 1..m /\ m >= p
  BY <1>1 DEF Left
<1>3. /\ \A i \in 1..p : x.list[i] = l.list[i]
      /\ \A i \in (p + 1)..m : x.list[i] \notin gone
  <2>1. n - (k - 1) = p /\ n - (k - 1) + 1 = p + 1
    BY <1>1
  <2>. QED
    BY <2>1 DEF Left
<1>4. /\ \A i \in 1..m : \E j \in i..n : x.list[i] = l.list[j]
      /\ \A j \in 1..n : l.list[j] \notin gone => \E i \in 1..m : x.list[i] = l.list[j]
      /\ x.delegateCount <= m
      /\ \A i \in 1..m : x.list[i].sel # 0 <=> i <= x.delegateCount
  BY DEF Left, Sorted
<1>5. n - k = p - 1 /\ n - k + 1 = p
  BY <1>1
<1>6. CASE x.list[p] \notin gone
  <2>1. spliced(x, p, gone) = x
    BY <1>6 DEF spliced
  <2>2. \A i \in p..m : x.list[i] \notin gone
    <3>1. \A i \in p..m : i = p \/ i \in (p + 1)..m
      BY <1>1, <1>2
    <3>. QED
      BY <1>3, <1>6, <3>1
  <2>3. m >= p - 1 /\ \A i \in 1..(p - 1) : i \in 1..p
    BY <1>1, <1>2
  <2>. QED
    BY <1>3, <1>5, <2>1, <2>2, <2>3 DEF Left
<1>7. CASE x.list[p] \in gone
  <2>. DEFINE s == RemoveAt(x.list, p)
              d == IF x.list[p].sel = 0 THEN x.delegateCount ELSE x.delegateCount - 1
              y == [list |-> s, delegateCount |-> d]
  <2>1. spliced(x, p, gone) = y
    BY <1>7 DEF spliced
  <2>2. /\ s \in Seq(Listed) /\ Len(s) = m - 1
        /\ \A i \in 1..(p - 1) : s[i] = x.list[i]
        /\ \A i \in p..(m - 1) : s[i] = x.list[i + 1]
    BY <1>1, <1>2, Spliced
  <2>. HIDE DEF s
  <2>3. x.list[p].sel # 0 <=> p <= x.delegateCount
    BY <1>2, <1>4
  <2>4. d \in Nat /\ d <= m - 1
    BY <1>1, <1>2, <1>4, <2>3
  <2>5. ASSUME NEW i \in 1..(m - 1) PROVE s[i].sel # 0 <=> i <= d
    <3>1. CASE i < p
      <4>1. i \in 1..(p - 1) /\ i \in 1..m
        BY <1>1, <1>2, <3>1
      <4>2. s[i].sel # 0 <=> i <= x.delegateCount
        BY <1>4, <2>2, <4>1
      <4>3. i <= x.delegateCount <=> i <= d
        BY <1>1, <1>2, <2>3, <3>1
      <4>. QED
        BY <4>2, <4>3
    <3>2. CASE i >= p
      <4>1. i \in p..(m - 1) /\ i + 1 \in 1..m
        BY <1>1, <1>2, <3>2
      <4>2. s[i].sel # 0 <=> i + 1 <= x.delegateCount
        BY <1>4, <2>2, <4>1
      <4>3. i + 1 <= x.delegateCount <=> i <= d
        BY <1>1, <1>2, <2>3, <3>2
      <4>. QED
        BY <4>2, <4>3
    <3>3. i < p \/ i >= p
      BY <1>1, <1>2
    <3>. QED
      BY <3>1, <3>2, <3>3
  <2>. HIDE DEF d
  <2>6. y \in Lists /\ Sorted(y) /\ y.list = s
    BY <1>1, <2>2, <2>4, <2>5 DEF Lists, Listed, Sorted
  <2>7. Len(s) >= p - 1 /\ \A i \in 1..(p - 1) : s[i] = l.list[i]
    <3>1. m - 1 >= p - 1 /\ \A i \in 1..(p - 1) : i \in 1..p
      BY <1>1, <1>2
    <3>. QED
      BY <1>3, <2>2, <3>1
  <2>8. \A i \in p..(m - 1) : s[i] \notin gone
    <3>1. \A i \in p..(m - 1) : i + 1 \in (p + 1)..m
      BY <1>1, <1>2
    <3>. QED
      BY <1>3, <2>2, <3>1
  <2>9. ASSUME NEW i \in 1..(m - 1) PROVE \E j \in i..n : s[i] = l.list[j]
    <3>1. CASE i < p
      <4>1. i \in 1..(p - 1) /\ i \in 1..m
        BY <1>1, <1>2, <3>1
      <4>. QED
        BY <1>4, <2>2, <4>1
    <3>2. CASE i >= p
      <4>1. i \in p..(m - 1) /\ i + 1 \in 1..m /\ (i + 1)..n \subseteq i..n
        BY <1>1, <1>2, <3>2
      <4>. QED
        BY <1>4, <2>2, <4>1
    <3>3. i < p \/ i >= p
      BY <1>1, <1>2
    <3>. QED
      BY <3>1, <3>2, <3>3
  <2>10. ASSUME NEW j \in 1..n, l.list[j] \notin gone
         PROVE  \E i \in 1..(m - 1) : s[i] = l.list[j]
    <3>1. PICK i \in 1..m : x.list[i] = l.list[j]
      BY <1>4, <2>10
    <3>2. i # p
      BY <1>7, <2>10, <3>1
    <3>3. CASE i < p
      <4>1. i \in 1..(p - 1) /\ i \in 1..(m - 1)
        BY <1>1, <1>2, <3>3
      <4>. QED
        BY <2>2, <3>1, <4>1
    <3>4. CASE i > p
      <4>1. i - 1 \in p..(m - 1) /\ i - 1 \in 1..(m - 1) /\ (i - 1) + 1 = i
        BY <1>1, <1>2, <3>4
      <4>. QED
        BY <2>2, <3>1, <4>1
    <3>5. i < p \/ i > p
      BY <1>1, <1>2, <3>2
    <3>. QED
      BY <3>3, <3>4, <3>5
  <2>11. ASSUME Distinct(l.list) PROVE Distinct(y.list)
    <3>. DEFINE was(i) == IF i < p THEN i ELSE i + 1
    <3>1. \A i \in 1..(m - 1) : was(i) \in 1..m /\ s[i] = x.list[was(i)]
      <4>1. \A i \in 1..(m - 1) : IF i < p THEN i \in 1..(p - 1) ELSE i \in p..(m - 1)
        BY <1>1, <1>2
      <4>2. \A i \in 1..(m - 1) : was(i) \in 1..m
        BY <1>1, <1>2
      <4>. QED
        BY <2>2, <4>1, <4>2
    <3>2. \A i, j \in 1..(m - 1) : was(i) = was(j) => i = j
      BY <1>1, <1>2
    <3>. HIDE DEF was
    <3>3. Distinct(x.list)
      BY <2>11 DEF Left
    <3>4. ASSUME NEW i \in 1..(m - 1), NEW j \in 1..(m - 1), s[i].id = s[j].id PROVE i = j
      <4>1. was(i) \in 1..m /\ was(j) \in 1..m /\ x.list[was(i)].id = x.list[was(j)].id
        BY <3>1, <3>4
      <4>2. was(i) = was(j)
        BY <3>3, <4>1 DEF Distinct
      <4>. QED
        BY <3>2, <4>2
    <3>. QED
      BY <2>2, <2>6, <3>4 DEF Distinct
  <2>12. Left(y, l, gone, k)
    BY <1>5, <2>2, <2>6, <2>7, <2>8, <2>9, <2>10, <2>11 DEF Left
  <2>. QED
    BY <2>1, <2>12
<1>. QED
  BY <1>6, <1>7

\* When all have been, what is to go is gone, and nothing else.
LEMMA RemovedLeft ==
  ASSUME NEW l \in Lists, NEW gone, Sorted(l)
  PROVE  Left(removed(l, gone), l, gone, Len(l.list))
<1>. DEFINE n == Len(l.list)
            S == [k \in 0..n |-> {x \in Lists : Left(x, l, gone, k)}]
            next(x, k) == spliced(x, n + 1 - k, gone)
            g == [p \in (1..n) \X Lists |-> next(p[2], p[1])]
            IsAfter(f) == f = [k \in 0..n |-> IF k = 0 THEN l ELSE next(f[k - 1], k)]
<1>1. n \in Nat /\ 0 \in 0..n /\ n \in 0..n
  BY LenProperties DEF Lists
<1>2. Left(l, l, gone, 0)
  <2>1. \A i \in (n - 0 + 1)..n : FALSE
    BY <1>1
  <2>2. n - 0 = n /\ n >= n /\ \A i \in 1..n : i \in i..n
    BY <1>1
  <2>. QED
    BY <2>1, <2>2 DEF Left
<1>3. l \in S[0]
  BY <1>1, <1>2
<1>4. ASSUME NEW k \in 1..n, NEW x \in S[k - 1]
      PROVE  x \in Lists /\ g[<<k, x>>] = next(x, k) /\ next(x, k) \in S[k]
  <2>1. k - 1 \in 0..n /\ k \in 0..n
    BY <1>1
  <2>2. x \in Lists /\ Left(x, l, gone, k - 1)
    BY <2>1
  <2>3. Left(next(x, k), l, gone, k)
    BY <2>2, OneLeft
  <2>4. next(x, k) \in Lists
    BY <2>3 DEF Left
  <2>. QED
    BY <2>1, <2>2, <2>3, <2>4
<1>5. \A x \in S[n] : Left(x, l, gone, n)
  BY <1>1
<1>6. removed(l, gone) = (CHOOSE f : IsAfter(f))[n]
  BY DEF removed
<1>. HIDE DEF n, S, next, g
<1>7. Leads(g, n, S)
  BY <1>4 DEF Leads
<1>8. PICK f : Follows(f, n, S, l, g)
  BY <1>1, <1>3, <1>7, Recursion
<1>9. IsAfter(f)
  <2>1. ASSUME NEW k \in 0..n, k # 0 PROVE g[<<k, f[k - 1]>>] = next(f[k - 1], k)
    <3>1. k \in 1..n /\ k - 1 \in 0..n
      BY <1>1, <2>1
    <3>. QED
      BY <1>4, <1>8, <3>1 DEF Follows
  <2>. QED
    BY <1>8, <2>1 DEF Follows
<1>. DEFINE after == CHOOSE h : IsAfter(h)
<1>10. IsAfter(after)
  BY <1>9
<1>. HIDE DEF after
<1>11. after[0] = l /\ \A k \in 1..n : after[k] = next(after[k - 1], k)
  BY <1>1, <1>10
<1>12. ASSUME NEW k \in 1..n, after[k - 1] \in S[k - 1] PROVE after[k] \in S[k]
  BY <1>4, <1>11, <1>12
<1>13. after[n] \in S[n]
  BY <1>1, <1>3, <1>11, <1>12, Stepwise
<1>. QED
  BY <1>5, <1>6, <1>13 DEF after, n

-----------------------------------------------------------------------------
(* What a dispatch has to call. *)

\* d is what is for m of the first k handlers of hs.
Picked(d, hs, m, k) ==
  /\ d \in Seq(Listed)
  /\ \A i \in 1..Len(d) : d[i].sel = m /\ \E j \in 1..k : d[i] = hs[j]
  /\ \A j \in 1..k : hs[j].sel = m => \E i \in 1..Len(d) : d[i] = hs[j]
  /\ Distinct(hs) => Distinct(d)

\* One more handler that is gone over, and taken if it is for the element.
LEMMA OnePicked ==
  ASSUME NEW hs \in Seq(Listed), NEW m, NEW k \in 1..Len(hs), NEW d, Picked(d, hs, m, k - 1)
  PROVE  Picked(IF hs[k].sel = m THEN Append(d, hs[k]) ELSE d, hs, m, k)
<1>1. Len(hs) \in Nat /\ Len(d) \in Nat /\ hs[k] \in Listed /\ d \in Seq(Listed)
  BY LenProperties, ElementOfSeq DEF Picked
<1>2. 1..(k - 1) \subseteq 1..k /\ \A j \in 1..k : j = k \/ j \in 1..(k - 1)
  BY <1>1
<1>3. CASE hs[k].sel # m
  BY <1>2, <1>3 DEF Picked
<1>4. CASE hs[k].sel = m
  <2>. DEFINE e == Append(d, hs[k])
              n == Len(d)
  <2>1. /\ e \in Seq(Listed) /\ Len(e) = n + 1
        /\ \A i \in 1..n : e[i] = d[i]
        /\ e[n + 1] = hs[k]
    BY <1>1, AppendProperties
  <2>2. \A i \in 1..(n + 1) : i = n + 1 \/ i \in 1..n
    BY <1>1
  <2>3. n + 1 \in 1..(n + 1) /\ 1..n \subseteq 1..(n + 1) /\ k \in 1..k
    BY <1>1
  <2>. HIDE DEF e
  <2>4. ASSUME NEW i \in 1..(n + 1) PROVE e[i].sel = m /\ \E j \in 1..k : e[i] = hs[j]
    <3>1. CASE i = n + 1
      BY <1>4, <2>1, <2>3, <3>1
    <3>2. CASE i \in 1..n
      BY <1>2, <2>1, <3>2 DEF Picked
    <3>. QED
      BY <2>2, <3>1, <3>2
  <2>5. ASSUME NEW j \in 1..k, hs[j].sel = m PROVE \E i \in 1..(n + 1) : e[i] = hs[j]
    <3>1. CASE j = k
      BY <2>1, <2>3, <3>1
    <3>2. CASE j \in 1..(k - 1)
      <4>1. PICK i \in 1..n : d[i] = hs[j]
        BY <2>5, <3>2 DEF Picked
      <4>. QED
        BY <2>1, <2>3, <4>1
    <3>. QED
      BY <1>2, <3>1, <3>2
  <2>6. ASSUME Distinct(hs), NEW i \in 1..(n + 1), NEW j \in 1..(n + 1), e[i].id = e[j].id
        PROVE  i = j
    <3>1. \A a \in 1..n : e[a].id # hs[k].id
      <4>1. SUFFICES ASSUME NEW a \in 1..n PROVE d[a].id # hs[k].id
        BY <2>1
      <4>2. PICK b \in 1..(k - 1) : d[a] = hs[b]
        BY DEF Picked
      <4>3. b \in 1..Len(hs) /\ b # k
        BY <1>1
      <4>. QED
        BY <2>6, <4>2, <4>3 DEF Distinct
    <3>2. \A a, b \in 1..n : e[a].id = e[b].id => a = b
      BY <2>1, <2>6 DEF Picked, Distinct
    <3>. QED
      BY <2>1, <2>2, <2>6, <3>1, <3>2
  <2>7. Distinct(hs) => Distinct(e)
    BY <2>1, <2>6 DEF Distinct
  <2>8. Picked(e, hs, m, k)
    BY <2>1, <2>4, <2>5, <2>7 DEF Picked
  <2>. QED
    BY <1>4, <2>8 DEF e
<1>. QED
  BY <1>3, <1>4

\* The handlers that are delegated for an element are those of the list, in their order.
LEMMA DelegatedPicked ==
  ASSUME NEW hs \in Seq(Listed), NEW m
  PROVE  Picked(delegatedFor(hs, m), hs, m, Len(hs))
<1>. DEFINE n == Len(hs)
            S == [k \in 0..n |-> {d \in Seq(Listed) : Picked(d, hs, m, k)}]
            next(d, k) == IF hs[k].sel = m THEN Append(d, hs[k]) ELSE d
            g == [p \in (1..n) \X Seq(Listed) |-> next(p[2], p[1])]
            IsFirst(f) == f = [k \in 0..n |-> IF k = 0 THEN <<>> ELSE next(f[k - 1], k)]
<1>1. n \in Nat /\ 0 \in 0..n /\ n \in 0..n
  BY LenProperties
<1>2. Picked(<<>>, hs, m, 0)
  <2>1. 1..0 = {} /\ <<>> \in Seq(Listed) /\ Len(<<>>) = 0
    OBVIOUS
  <2>. QED
    BY <2>1 DEF Picked, Distinct
<1>3. <<>> \in S[0]
  BY <1>1, <1>2
<1>4. ASSUME NEW k \in 1..n, NEW d \in S[k - 1]
      PROVE  d \in Seq(Listed) /\ g[<<k, d>>] = next(d, k) /\ next(d, k) \in S[k]
  <2>1. k - 1 \in 0..n /\ k \in 0..n
    BY <1>1
  <2>2. d \in Seq(Listed) /\ Picked(d, hs, m, k - 1)
    BY <2>1
  <2>3. Picked(next(d, k), hs, m, k)
    BY <2>2, OnePicked
  <2>. HIDE DEF next
  <2>4. next(d, k) \in Seq(Listed)
    BY <2>3 DEF Picked
  <2>. QED
    BY <2>1, <2>2, <2>3, <2>4
<1>5. \A d \in S[n] : Picked(d, hs, m, n)
  BY <1>1
<1>6. delegatedFor(hs, m) = (CHOOSE f : IsFirst(f))[n]
  <2>1. \A f : IsFirst(f) <=>
          f = [k \in 0..n |-> IF k = 0 THEN <<>>
                              ELSE IF hs[k].sel = m THEN Append(f[k - 1], hs[k]) ELSE f[k - 1]]
    OBVIOUS
  <2>. QED
    BY DEF delegatedFor
<1>. HIDE DEF n, S, next, g
<1>7. Leads(g, n, S)
  BY <1>4 DEF Leads
<1>8. PICK f : Follows(f, n, S, <<>>, g)
  BY <1>1, <1>3, <1>7, Recursion
<1>9. IsFirst(f)
  <2>1. ASSUME NEW k \in 0..n, k # 0 PROVE g[<<k, f[k - 1]>>] = next(f[k - 1], k)
    <3>1. k \in 1..n /\ k - 1 \in 0..n
      BY <1>1, <2>1
    <3>. QED
      BY <1>4, <1>8, <3>1 DEF Follows
  <2>. QED
    BY <1>8, <2>1 DEF Follows
<1>. DEFINE first == CHOOSE h : IsFirst(h)
<1>10. IsFirst(first)
  BY <1>9
<1>. HIDE DEF first
<1>11. first[0] = <<>> /\ \A k \in 1..n : first[k] = next(first[k - 1], k)
  BY <1>1, <1>10
<1>12. ASSUME NEW k \in 1..n, first[k - 1] \in S[k - 1] PROVE first[k] \in S[k]
  BY <1>4, <1>11, <1>12
<1>13. first[n] \in S[n]
  BY <1>1, <1>3, <1>11, <1>12, Stepwise
<1>. QED
  BY <1>5, <1>6, <1>13 DEF first, n

\* No binding is queued twice.
Once(q) == \A i, j \in 1..Len(q) : q[i].h.id = q[j].h.id => i = j

\* q is what of hs is for the first k elements from target on.
Gathered(q, hs, target, k) ==
  /\ q \in Seq(Queued)
  /\ \A i \in 1..Len(q) :
       /\ q[i].h.sel \in target..(target + k - 1) /\ q[i].elem = q[i].h.sel
       /\ \E j \in 1..Len(hs) : q[i].h = hs[j]
  /\ \A j \in 1..Len(hs) :
       hs[j].sel \in target..(target + k - 1) => \E i \in 1..Len(q) : q[i].h = hs[j]
  /\ Distinct(hs) => Once(q)

\* What is called at an element.
LEMMA AtElement ==
  ASSUME NEW hs \in Seq(Listed), NEW m \in Elements
  PROVE  /\ At(hs, m) \in Seq(Queued) /\ Len(At(hs, m)) = Len(hs)
         /\ \A i \in 1..Len(hs) : At(hs, m)[i].h = hs[i] /\ At(hs, m)[i].elem = m
<1>1. Len(hs) \in Nat /\ DOMAIN hs = 1..Len(hs) /\ \A i \in 1..Len(hs) : hs[i] \in Listed
  BY LenProperties, ElementOfSeq
<1>. DEFINE q == [i \in 1..Len(hs) |-> [h |-> hs[i], elem |-> m]]
<1>2. At(hs, m) = q
  BY <1>1 DEF At
<1>3. \A i \in 1..Len(hs) : q[i] \in Queued /\ q[i].h = hs[i] /\ q[i].elem = m
  BY <1>1 DEF Queued, Listed
<1>4. q = [i \in 1..Len(hs) |-> q[i]]
  OBVIOUS
<1>. HIDE DEF q
<1>5. q \in Seq(Queued) /\ Len(q) = Len(hs)
  <2>1. q \in [1..Len(hs) -> Queued]
    BY <1>3, <1>4
  <2>. QED
    BY <1>1, <2>1, IsASeq, LenProperties
<1>. QED
  BY <1>2, <1>3, <1>5

\* One more element is gone through.
LEMMA OneGathered ==
  ASSUME NEW hs \in Seq(Listed), NEW target \in Nat, NEW k \in Nat, k >= 1,
         target + k - 1 \in Elements, NEW q, Gathered(q, hs, target, k - 1)
  PROVE  Gathered(q \o At(delegatedFor(hs, target + k - 1), target + k - 1), hs, target, k)
<1>. DEFINE m == target + k - 1
            d == delegatedFor(hs, m)
            e == At(d, m)
            r == q \o e
<1>1. /\ d \in Seq(Listed) /\ Len(d) \in Nat /\ Len(hs) \in Nat
      /\ \A i \in 1..Len(d) : d[i].sel = m /\ \E j \in 1..Len(hs) : d[i] = hs[j]
      /\ \A j \in 1..Len(hs) : hs[j].sel = m => \E i \in 1..Len(d) : d[i] = hs[j]
      /\ Distinct(hs) => Distinct(d)
  BY DelegatedPicked, LenProperties DEF Picked
<1>2. m \in Nat /\ m \in Elements /\ target + (k - 1) - 1 = m - 1 /\ target <= m
  BY EventsAssumption DEF Elements
<1>3. /\ q \in Seq(Queued) /\ Len(q) \in Nat
      /\ \A i \in 1..Len(q) :
           /\ q[i].h.sel \in target..(m - 1) /\ q[i].elem = q[i].h.sel
           /\ \E j \in 1..Len(hs) : q[i].h = hs[j]
      /\ \A j \in 1..Len(hs) :
           hs[j].sel \in target..(m - 1) => \E i \in 1..Len(q) : q[i].h = hs[j]
      /\ Distinct(hs) => Once(q)
  BY <1>2, LenProperties DEF Gathered
<1>. HIDE DEF m, d
<1>4. /\ e \in Seq(Queued) /\ Len(e) = Len(d)
      /\ \A i \in 1..Len(d) : e[i].h = d[i] /\ e[i].elem = m
  BY <1>1, <1>2, AtElement
<1>. HIDE DEF e
<1>5. /\ r \in Seq(Queued) /\ Len(r) = Len(q) + Len(d)
      /\ \A i \in 1..Len(q) : r[i] = q[i]
      /\ \A i \in 1..Len(d) : r[Len(q) + i] = e[i]
  <2>1. /\ r \in Seq(Queued) /\ Len(r) = Len(q) + Len(d)
        /\ \A i \in 1..(Len(q) + Len(d)) :
             r[i] = IF i <= Len(q) THEN q[i] ELSE e[i - Len(q)]
    <3>1. /\ r \in Seq(Queued) /\ Len(r) = Len(q) + Len(e)
          /\ \A i \in 1..(Len(q) + Len(e)) :
               r[i] = IF i <= Len(q) THEN q[i] ELSE e[i - Len(q)]
      <4>1. q \in Seq(Queued) /\ e \in Seq(Queued)
        BY <1>3, <1>4
      <4>. QED
        BY <4>1, ConcatProperties
    <3>. QED
      BY <1>4, <3>1
  <2>2. /\ \A i \in 1..Len(q) : i \in 1..(Len(q) + Len(d)) /\ i <= Len(q)
        /\ \A i \in 1..Len(d) : /\ Len(q) + i \in 1..(Len(q) + Len(d))
                                /\ ~(Len(q) + i <= Len(q)) /\ Len(q) + i - Len(q) = i
    BY <1>1, <1>3
  <2>. QED
    BY <2>1, <2>2
<1>. HIDE DEF r
<1>6. \A i \in 1..Len(r) : i \in 1..Len(q) \/ \E a \in 1..Len(d) : i = Len(q) + a
  <2>. SUFFICES ASSUME NEW i \in 1..Len(r), i \notin 1..Len(q)
                PROVE  \E a \in 1..Len(d) : i = Len(q) + a
    OBVIOUS
  <2>1. i - Len(q) \in 1..Len(d) /\ i = Len(q) + (i - Len(q))
    BY <1>1, <1>3, <1>5
  <2>. QED
    BY <2>1
<1>7. /\ 1..Len(q) \subseteq 1..Len(r)
      /\ \A a \in 1..Len(d) : Len(q) + a \in 1..Len(r)
  BY <1>1, <1>3, <1>5
<1>8. target..(m - 1) \subseteq target..m /\ m \in target..m /\ m \notin target..(m - 1)
      /\ \A a \in target..m : a = m \/ a \in target..(m - 1)
  BY <1>2
<1>9. ASSUME NEW i \in 1..Len(r)
      PROVE  /\ r[i].h.sel \in target..m /\ r[i].elem = r[i].h.sel
             /\ \E j \in 1..Len(hs) : r[i].h = hs[j]
  <2>1. CASE i \in 1..Len(q)
    <3>1. r[i] = q[i]
      BY <1>5, <2>1
    <3>2. /\ q[i].h.sel \in target..(m - 1) /\ q[i].elem = q[i].h.sel
          /\ \E j \in 1..Len(hs) : q[i].h = hs[j]
      BY <1>3, <2>1
    <3>3. q[i].h.sel \in target..m
      BY <1>8, <3>2
    <3>. QED
      BY <3>1, <3>2, <3>3
  <2>2. ASSUME NEW a \in 1..Len(d), i = Len(q) + a
        PROVE  /\ r[i].h.sel \in target..m /\ r[i].elem = r[i].h.sel
               /\ \E j \in 1..Len(hs) : r[i].h = hs[j]
    <3>1. r[i] = e[a] /\ e[a].h = d[a] /\ e[a].elem = m /\ d[a].sel = m
      BY <1>1, <1>4, <1>5, <2>2
    <3>2. \E j \in 1..Len(hs) : d[a] = hs[j]
      BY <1>1
    <3>. QED
      BY <1>8, <3>1, <3>2
  <2>. QED
    BY <1>6, <2>1, <2>2
<1>10. ASSUME NEW j \in 1..Len(hs), hs[j].sel \in target..m
       PROVE  \E i \in 1..Len(r) : r[i].h = hs[j]
  <2>1. CASE hs[j].sel = m
    <3>1. PICK a \in 1..Len(d) : d[a] = hs[j]
      BY <1>1, <2>1
    <3>. QED
      BY <1>4, <1>5, <1>7, <3>1
  <2>2. CASE hs[j].sel \in target..(m - 1)
    <3>1. PICK i \in 1..Len(q) : q[i].h = hs[j]
      BY <1>3, <2>2
    <3>. QED
      BY <1>5, <1>7, <3>1
  <2>. QED
    BY <1>8, <1>10, <2>1, <2>2
<1>11. ASSUME Distinct(hs), NEW i \in 1..Len(r), NEW j \in 1..Len(r), r[i].h.id = r[j].h.id
       PROVE  i = j
  <2>1. r[i].h = r[j].h
    <3>1. PICK a \in 1..Len(hs), b \in 1..Len(hs) : r[i].h = hs[a] /\ r[j].h = hs[b]
      BY <1>9
    <3>2. a = b
      BY <1>11, <3>1 DEF Distinct
    <3>. QED
      BY <3>1, <3>2
  <2>2. ASSUME NEW x \in 1..Len(q) PROVE r[x].h.sel # m
    <3>1. r[x] = q[x] /\ q[x].h.sel \in target..(m - 1)
      BY <1>3, <1>5
    <3>. QED
      BY <1>8, <3>1
  <2>3. \A x \in 1..Len(d) : r[Len(q) + x].h = d[x] /\ d[x].sel = m
    BY <1>1, <1>4, <1>5
  <2>4. CASE i \in 1..Len(q) /\ j \in 1..Len(q)
    BY <1>3, <1>5, <1>11, <2>4 DEF Once
  <2>5. ASSUME NEW a \in 1..Len(d), NEW b \in 1..Len(d), i = Len(q) + a, j = Len(q) + b
        PROVE  i = j
    <3>1. d[a].id = d[b].id
      BY <1>11, <2>3, <2>5
    <3>2. Distinct(d)
      BY <1>1, <1>11
    <3>3. a = b
      BY <3>1, <3>2 DEF Distinct
    <3>. QED
      BY <2>5, <3>3
  <2>6. ASSUME NEW x \in 1..Len(q), NEW a \in 1..Len(d), r[x].h = r[Len(q) + a].h PROVE FALSE
    BY <2>2, <2>3, <2>6
  <2>7. CASE i \in 1..Len(q)
    <3>1. CASE j \in 1..Len(q)
      BY <2>4, <2>7, <3>1
    <3>2. CASE j \notin 1..Len(q)
      <4>1. PICK a \in 1..Len(d) : j = Len(q) + a
        BY <1>6, <3>2
      <4>. QED
        BY <2>1, <2>6, <2>7, <4>1
    <3>. QED
      BY <3>1, <3>2
  <2>8. CASE i \notin 1..Len(q)
    <3>1. PICK a \in 1..Len(d) : i = Len(q) + a
      BY <1>6, <2>8
    <3>2. CASE j \in 1..Len(q)
      BY <2>1, <2>6, <3>1, <3>2
    <3>3. CASE j \notin 1..Len(q)
      <4>1. PICK b \in 1..Len(d) : j = Len(q) + b
        BY <1>6, <3>3
      <4>. QED
        BY <2>5, <3>1, <4>1
    <3>. QED
      BY <3>2, <3>3
  <2>. QED
    BY <2>7, <2>8
<1>12. Distinct(hs) => Once(r)
  BY <1>11 DEF Once
<1>13. Gathered(r, hs, target, k)
  BY <1>2, <1>5, <1>9, <1>10, <1>12 DEF Gathered, m
<1>. QED
  BY <1>13 DEF r, e, d, m

\* q is what the element n, with the list l, has to call of an event with the target.
Queue(q, l, n, target) ==
  /\ q \in Seq(Queued)
  /\ \A j \in 1..Len(q) :
       /\ \E i \in 1..Len(l.list) : q[j].h = l.list[i]
       /\ q[j].elem = (IF q[j].h.sel = 0 THEN n ELSE q[j].h.sel)
       /\ q[j].h.sel # 0 => q[j].h.sel \in target..(n - 1)
  /\ \A i \in 1..Len(l.list) :
       l.list[i].sel \in {0} \union (target..(n - 1)) => \E j \in 1..Len(q) : q[j].h = l.list[i]
  /\ Distinct(l.list) => Once(q)
  /\ StubFirst(l) => \A j \in 1..Len(q) : q[j].h = Stub => j = 1

\* What is delegated for the elements below n, from the target on.
LEMMA BelowGathered ==
  ASSUME NEW n \in Elements, NEW target \in 1..n, NEW hs \in Seq(Listed), hs = Delegated(n)
  PROVE  \E b : /\ Gathered(b, hs, target, n - target)
                /\ handlers(n, target) = b \o At(Own(n), n)
<1>. DEFINE m == n - target
            S == [k \in 0..m |-> {q \in Seq(Queued) : Gathered(q, hs, target, k)}]
            next(q, k) == q \o At(delegatedFor(hs, target + k - 1), target + k - 1)
            g == [p \in (1..m) \X Seq(Queued) |-> next(p[2], p[1])]
            IsBelow(f) == f = [k \in 0..m |-> IF k = 0 THEN <<>> ELSE next(f[k - 1], k)]
<1>1. m \in Nat /\ 0 \in 0..m /\ m \in 0..m /\ n \in Nat /\ target \in Nat
  BY EventsAssumption DEF Elements
<1>2. Gathered(<<>>, hs, target, 0)
  <2>1. target..(target + 0 - 1) = {} /\ <<>> \in Seq(Queued) /\ Len(<<>>) = 0 /\ 1..0 = {}
    BY <1>1
  <2>. QED
    BY <2>1 DEF Gathered, Once
<1>3. <<>> \in S[0]
  BY <1>1, <1>2
<1>4. ASSUME NEW k \in 1..m, NEW q \in S[k - 1]
      PROVE  q \in Seq(Queued) /\ g[<<k, q>>] = next(q, k) /\ next(q, k) \in S[k]
  <2>1. k - 1 \in 0..m /\ k \in 0..m /\ k \in Nat /\ k >= 1 /\ target + k - 1 \in Elements
    BY <1>1, EventsAssumption DEF Elements
  <2>2. q \in Seq(Queued) /\ Gathered(q, hs, target, k - 1)
    BY <2>1
  <2>3. Gathered(next(q, k), hs, target, k)
    BY <1>1, <2>1, <2>2, OneGathered
  <2>. HIDE DEF next
  <2>4. next(q, k) \in Seq(Queued)
    BY <2>3 DEF Gathered
  <2>. QED
    BY <2>1, <2>2, <2>3, <2>4
<1>5. \A q \in S[m] : Gathered(q, hs, target, m)
  BY <1>1
<1>6. handlers(n, target) = (CHOOSE f : IsBelow(f))[m] \o At(Own(n), n)
  BY DEF handlers
<1>. HIDE DEF m, S, next, g
<1>7. Leads(g, m, S)
  BY <1>4 DEF Leads
<1>8. PICK f : Follows(f, m, S, <<>>, g)
  BY <1>1, <1>3, <1>7, Recursion
<1>9. IsBelow(f)
  <2>1. ASSUME NEW k \in 0..m, k # 0 PROVE g[<<k, f[k - 1]>>] = next(f[k - 1], k)
    <3>1. k \in 1..m /\ k - 1 \in 0..m
      BY <1>1, <2>1
    <3>. QED
      BY <1>4, <1>8, <3>1 DEF Follows
  <2>. QED
    BY <1>8, <2>1 DEF Follows
<1>. DEFINE below == CHOOSE h : IsBelow(h)
<1>10. IsBelow(below)
  BY <1>9
<1>. HIDE DEF below
<1>11. below[0] = <<>> /\ \A k \in 1..m : below[k] = next(below[k - 1], k)
  BY <1>1, <1>10
<1>12. ASSUME NEW k \in 1..m, below[k - 1] \in S[k - 1] PROVE below[k] \in S[k]
  BY <1>4, <1>11, <1>12
<1>13. below[m] \in S[m]
  BY <1>1, <1>3, <1>11, <1>12, Stepwise
<1>14. Gathered(below[m], hs, target, m)
  BY <1>5, <1>13
<1>15. handlers(n, target) = below[m] \o At(Own(n), n)
  BY <1>6 DEF below
<1>. QED
  BY <1>14, <1>15 DEF m

\* An element calls what is delegated for those below it that the event goes through, then
\* its own.
LEMMA HandlersQueue ==
  ASSUME NEW n \in Elements, NEW target \in 1..n, events[n] \in Lists, Sorted(events[n])
  PROVE  Queue(handlers(n, target), events[n], n, target)
<1>. DEFINE l == events[n].list
            c == events[n].delegateCount
            hs == Delegated(n)
            own == Own(n)
            o == At(own, n)
<1>1. /\ l \in Seq(Listed) /\ c \in Nat /\ Len(l) \in Nat /\ c <= Len(l) /\ n \in Nat
      /\ \A i \in 1..Len(l) : l[i] \in Listed
      /\ \A i \in 1..Len(l) : l[i].sel # 0 <=> i <= c
  BY DelegatedAndOwn DEF Elements
<1>2. hs \in Seq(Listed) /\ Len(hs) = c /\ \A i \in 1..c : hs[i] = l[i]
  BY DelegatedAndOwn
<1>3. /\ own \in Seq(Listed) /\ Len(own) = Len(l) - c
      /\ \A i \in 1..(Len(l) - c) : own[i] = l[c + i]
  BY DelegatedAndOwn
<1>4. PICK b : /\ Gathered(b, hs, target, n - target)
               /\ handlers(n, target) = b \o At(Own(n), n)
  BY <1>2, BelowGathered
<1>. DEFINE q == b \o o
<1>. HIDE DEF own, hs
<1>5. /\ o \in Seq(Queued) /\ Len(o) = Len(l) - c
      /\ \A i \in 1..(Len(l) - c) : o[i].h = l[c + i] /\ o[i].elem = n
  BY <1>3, AtElement
<1>6. /\ b \in Seq(Queued) /\ Len(b) \in Nat
      /\ \A i \in 1..Len(b) :
           /\ b[i].h.sel \in target..(n - 1) /\ b[i].elem = b[i].h.sel
           /\ \E j \in 1..c : b[i].h = l[j]
      /\ \A j \in 1..c : l[j].sel \in target..(n - 1) => \E i \in 1..Len(b) : b[i].h = l[j]
      /\ Distinct(hs) => Once(b)
  <2>1. target + (n - target) - 1 = n - 1
    BY <1>1
  <2>2. /\ b \in Seq(Queued)
        /\ \A i \in 1..Len(b) :
             /\ b[i].h.sel \in target..(n - 1) /\ b[i].elem = b[i].h.sel
             /\ \E j \in 1..c : b[i].h = hs[j]
        /\ \A j \in 1..c : hs[j].sel \in target..(n - 1) => \E i \in 1..Len(b) : b[i].h = hs[j]
        /\ Distinct(hs) => Once(b)
    BY <1>2, <1>4, <2>1 DEF Gathered
  <2>3. Len(b) \in Nat
    BY <2>2, LenProperties
  <2>4. \A i \in 1..Len(b) : \E j \in 1..c : b[i].h = l[j]
    BY <1>2, <2>2
  <2>5. \A j \in 1..c : l[j].sel \in target..(n - 1) => \E i \in 1..Len(b) : b[i].h = l[j]
    BY <1>2, <2>2
  <2>. HIDE DEF l, c
  <2>. QED
    BY <2>2, <2>3, <2>4, <2>5
<1>7. q = handlers(n, target)
  BY <1>4 DEF own
<1>. HIDE DEF o
<1>8. /\ q \in Seq(Queued) /\ Len(q) = Len(b) + (Len(l) - c)
      /\ \A i \in 1..Len(b) : q[i] = b[i]
      /\ \A i \in 1..(Len(l) - c) : q[Len(b) + i] = o[i]
  <2>1. b \in Seq(Queued) /\ o \in Seq(Queued)
    BY <1>5, <1>6
  <2>2. /\ q \in Seq(Queued) /\ Len(q) = Len(b) + Len(o)
        /\ \A i \in 1..(Len(b) + Len(o)) : q[i] = IF i <= Len(b) THEN b[i] ELSE o[i - Len(b)]
    BY <2>1, ConcatProperties
  <2>3. /\ \A i \in 1..Len(b) : i \in 1..(Len(b) + Len(o)) /\ i <= Len(b)
        /\ \A i \in 1..(Len(l) - c) : /\ Len(b) + i \in 1..(Len(b) + Len(o))
                                      /\ ~(Len(b) + i <= Len(b)) /\ Len(b) + i - Len(b) = i
    BY <1>1, <1>5, <1>6
  <2>. QED
    BY <1>5, <2>2, <2>3
<1>. HIDE DEF q
<1>9. \A i \in 1..Len(q) : i \in 1..Len(b) \/ \E a \in 1..(Len(l) - c) : i = Len(b) + a
  <2>. SUFFICES ASSUME NEW i \in 1..Len(q), i \notin 1..Len(b)
                PROVE  \E a \in 1..(Len(l) - c) : i = Len(b) + a
    OBVIOUS
  <2>1. i - Len(b) \in 1..(Len(l) - c) /\ i = Len(b) + (i - Len(b))
    BY <1>1, <1>6, <1>8
  <2>. QED
    BY <2>1
<1>10. /\ 1..Len(b) \subseteq 1..Len(q)
       /\ \A a \in 1..(Len(l) - c) : Len(b) + a \in 1..Len(q) /\ c + a \in 1..Len(l) /\ ~(c + a <= c)
       /\ 1..c \subseteq 1..Len(l)
  <2>1. Len(q) = Len(b) + (Len(l) - c)
    BY <1>8
  <2>2. Len(b) \in Nat /\ Len(l) \in Nat /\ c \in Nat /\ c <= Len(l)
    BY <1>1, <1>6
  <2>. HIDE DEF l, c
  <2>. QED
    BY <2>1, <2>2
<1>11. 0 \notin target..(n - 1)
  BY <1>1
<1>12. \A i \in 1..Len(b) : q[i] = b[i] /\ q[i].h.sel # 0
  BY <1>6, <1>8, <1>11
<1>13. \A a \in 1..(Len(l) - c) : /\ q[Len(b) + a].h = l[c + a] /\ q[Len(b) + a].elem = n
                                   /\ l[c + a].sel = 0
  BY <1>1, <1>5, <1>8, <1>10
<1>14. ASSUME NEW j \in 1..Len(q)
       PROVE  /\ \E i \in 1..Len(l) : q[j].h = l[i]
              /\ q[j].elem = (IF q[j].h.sel = 0 THEN n ELSE q[j].h.sel)
              /\ q[j].h.sel # 0 => q[j].h.sel \in target..(n - 1)
  <2>1. CASE j \in 1..Len(b)
    <3>1. q[j] = b[j] /\ b[j].h.sel \in target..(n - 1) /\ b[j].elem = b[j].h.sel /\ b[j].h.sel # 0
      BY <1>6, <1>12, <2>1
    <3>2. \E i \in 1..Len(l) : b[j].h = l[i]
      BY <1>6, <1>10, <2>1
    <3>. QED
      BY <3>1, <3>2
  <2>2. CASE j \notin 1..Len(b)
    <3>1. PICK a \in 1..(Len(l) - c) : j = Len(b) + a
      BY <1>9, <2>2
    <3>. QED
      BY <1>10, <1>13, <3>1
  <2>. QED
    BY <2>1, <2>2
<1>15. ASSUME NEW i \in 1..Len(l), l[i].sel \in {0} \union (target..(n - 1))
       PROVE  \E j \in 1..Len(q) : q[j].h = l[i]
  <2>1. CASE i <= c
    <3>1. i \in 1..c /\ l[i].sel \in target..(n - 1)
      BY <1>1, <1>15, <2>1
    <3>2. PICK j \in 1..Len(b) : b[j].h = l[i]
      BY <1>6, <3>1
    <3>. QED
      BY <1>8, <1>10, <3>2
  <2>2. CASE ~(i <= c)
    <3>1. i - c \in 1..(Len(l) - c) /\ c + (i - c) = i
      BY <1>1, <2>2
    <3>. QED
      BY <1>10, <1>13, <3>1
  <2>. QED
    BY <2>1, <2>2
<1>16. ASSUME Distinct(l), NEW i \in 1..Len(q), NEW j \in 1..Len(q), q[i].h.id = q[j].h.id
       PROVE  i = j
  <2>1. q[i].h = q[j].h
    <3>1. PICK a \in 1..Len(l), d \in 1..Len(l) : q[i].h = l[a] /\ q[j].h = l[d]
      BY <1>14
    <3>2. a = d
      BY <1>16, <3>1 DEF Distinct
    <3>. QED
      BY <3>1, <3>2
  <2>2. CASE i \in 1..Len(b)
    <3>1. j \in 1..Len(b)
      <4>1. SUFFICES ASSUME j \notin 1..Len(b) PROVE FALSE
        OBVIOUS
      <4>2. PICK a \in 1..(Len(l) - c) : j = Len(b) + a
        BY <1>9, <4>1
      <4>. QED
        BY <1>12, <1>13, <2>1, <2>2, <4>2
    <3>2. Distinct(hs)
      BY <1>2, <1>10, <1>16 DEF Distinct
    <3>3. b[i].h.id = b[j].h.id
      BY <1>12, <1>16, <2>2, <3>1
    <3>. QED
      BY <1>6, <2>2, <3>1, <3>2, <3>3 DEF Once
  <2>3. CASE i \notin 1..Len(b)
    <3>1. PICK a \in 1..(Len(l) - c) : i = Len(b) + a
      BY <1>9, <2>3
    <3>2. j \notin 1..Len(b)
      BY <1>12, <1>13, <2>1, <3>1
    <3>3. PICK d \in 1..(Len(l) - c) : j = Len(b) + d
      BY <1>9, <3>2
    <3>4. c + a = c + d
      BY <1>10, <1>13, <1>16, <3>1, <3>3 DEF Distinct
    <3>. QED
      BY <1>1, <3>1, <3>3, <3>4
  <2>. QED
    BY <2>2, <2>3
<1>17. ASSUME StubFirst(events[n]), NEW j \in 1..Len(q), q[j].h = Stub PROVE j = 1
  <2>1. Stub.sel = 0
    BY DEF Stub
  <2>2. j \notin 1..Len(b)
    BY <1>12, <1>17, <2>1
  <2>3. PICK a \in 1..(Len(l) - c) : j = Len(b) + a
    BY <1>9, <2>2
  <2>4. c + a = 1
    BY <1>10, <1>13, <1>17, <2>3 DEF StubFirst
  <2>5. c = 0 /\ a = 1
    BY <1>1, <2>4
  <2>6. Len(b) = 0
    <3>1. 1..Len(b) = {}
      BY <1>6, <2>5
    <3>. QED
      BY <1>6, <3>1
  <2>. QED
    BY <2>3, <2>5, <2>6
<1>. QED
  BY <1>7, <1>8, <1>14, <1>15, <1>16, <1>17 DEF Queue, Once

-----------------------------------------------------------------------------
(* The invariant.  lev: is the type the focus? *)

Root(f) == f.kind \in {"trigger", "native"}

\* A frame has its event object; an event has not come below its target, and again is an
\* object from before the dispatch that waits for it.  Only the head of a queue is the stub.
Fits(lev, f, os) ==
  /\ f \in Frames /\ f.obj \in 1..Len(os) /\ f.call >= 1
  /\ Root(f) => f.node <= f.at /\ (lev => f.node = 1)
  /\ f.kind = "trigger" /\ lev => os[f.obj].isTrigger
  /\ f.kind = "controller" /\ f.phase = "again" => f.again \in 1..(f.obj - 1)
  /\ f.kind = "dispatch" => /\ lev => f.node = 1
                            /\ \A j \in 2..Len(f.queue) : f.queue[j].h # Stub

\* No stub is to be called.
Stubless(f) == f.kind = "dispatch" => \A j \in 1..Len(f.queue) : f.queue[j].h # Stub

\* Each frame belongs to the call of the one below it, but the events that handlers trigger.
Linked(stk) ==
  /\ stk # <<>> => Root(stk[1])
  /\ \A i \in 2..Len(stk) : ~Root(stk[i]) => stk[i].call = stk[i - 1].call
  /\ \A i, j \in 1..Len(stk) : i <= j => stk[i].call <= stk[j].call
  /\ \A i \in 1..(Len(stk) - 1) : Stubless(stk[i])

\* n: how many calls there are.
StackFits(lev, stk, os, n) ==
  /\ stk \in Seq(Frames) /\ \A i \in 1..Len(stk) : Fits(lev, stk[i], os)
  /\ Linked(stk)
  /\ IF stk = <<>> THEN n = 0 ELSE stk[Len(stk)].call = n

\* The stub that is to be called next is that of a focus, and what is saved is older than
\* an event of the browser's that is to be given to it.
Awaits(lev, f, os, sv) ==
  ~Stubless(f) => lev /\ (sv.is = "args" /\ ~os[f.obj].isTrigger => sv.obj < f.obj)

Waiting(lev, stk, os, sv) == stk # <<>> => Awaits(lev, stk[Len(stk)], os, sv)

\* The browser's event behind an event object is older; that of trigger has none.
ObjectsFit(os) ==
  /\ os \in Seq(EventObjects)
  /\ \A k \in 1..Len(os) : os[k].native < k /\ (os[k].isTrigger => os[k].native = 0)

\* What is saved of a focus is the object of an event of trigger's.
SavedFits(sv, os) ==
  /\ sv \in [is : {"unset", "no", "args", "value"}, obj : Nat, result : Results]
  /\ IF sv.is = "args" THEN sv.obj \in 1..Len(os) /\ os[sv.obj].native = 0 ELSE sv.obj = 0

\* The delegated handlers come first, and the stub before all, in a focus only.
ListFits(lev, l) ==
  /\ l \in Lists /\ Sorted(l) /\ StubFirst(l)
  /\ ~lev => \A i \in 1..Len(l.list) : l.list[i] # Stub

\* The browser listens where there are handlers.
ListsFit(lev, es, ls) ==
  /\ es \in [Elements -> Lists] /\ ls \subseteq Elements
  /\ \A n \in Elements : ListFits(lev, es[n]) /\ (n \in ls <=> es[n].list # <<>>)

\* The inductive invariant.
IInv ==
  /\ leveraged \in BOOLEAN /\ triggered \in BOOLEAN /\ active \in BOOLEAN /\ late \in BOOLEAN
  /\ ListsFit(leveraged, events, listening)
  /\ ObjectsFit(objects) /\ SavedFits(saved, objects)
  /\ StackFits(leveraged, stack, objects, Len(history))
  /\ Waiting(leveraged, stack, objects, saved)
  /\ history \in Seq(Calls) /\ changes \in 0..MaxChanges

-----------------------------------------------------------------------------
(* The stack. *)

\* One more frame.
LEMMA PushFits ==
  ASSUME NEW lev, NEW stk, NEW os, NEW n, StackFits(lev, stk, os, n),
         NEW f, Fits(lev, f, os), stk = <<>> => Root(f), stk # <<>> => Stubless(stk[Len(stk)]),
         Root(f) => f.call >= n, ~Root(f) => f.call = n
  PROVE  StackFits(lev, Append(stk, f), os, f.call)
<1>. DEFINE s == Append(stk, f)
            m == Len(stk)
<1>1. /\ stk \in Seq(Frames) /\ m \in Nat /\ f \in Frames /\ (m = 0 <=> stk = <<>>)
      /\ \A i \in 1..m : stk[i] \in Frames
  BY LenProperties, EmptySeq, ElementOfSeq DEF StackFits, Fits
<1>2. /\ s \in Seq(Frames) /\ Len(s) = m + 1 /\ s # <<>>
      /\ \A i \in 1..m : s[i] = stk[i]
      /\ s[m + 1] = f
  BY <1>1, AppendProperties
<1>. HIDE DEF s
<1>3. \A i \in 1..(m + 1) : i = m + 1 \/ i \in 1..m
  BY <1>1
<1>4. \A g \in Frames : g.call \in Nat
  BY DEF Frames
<1>5. \A i \in 1..m : stk[i].call <= f.call
  <2>. SUFFICES ASSUME NEW i \in 1..m PROVE stk[i].call <= f.call
    OBVIOUS
  <2>1. m \in 1..m /\ i <= m /\ stk # <<>>
    BY <1>1
  <2>2. stk[i].call <= stk[m].call
    BY <2>1 DEF StackFits, Linked
  <2>3. stk[m].call = n /\ n <= f.call
    BY <1>1, <1>4, <2>1 DEF StackFits, Root
  <2>. QED
    BY <1>1, <1>4, <2>1, <2>2, <2>3
<1>6. Root(s[1])
  <2>1. CASE m = 0
    BY <1>1, <1>2, <2>1
  <2>2. CASE m # 0
    <3>1. 1 \in 1..m
      BY <1>1, <2>2
    <3>. QED
      BY <1>1, <1>2, <2>2, <3>1 DEF StackFits, Linked
  <2>. QED
    BY <2>1, <2>2
<1>7. ASSUME NEW i \in 2..(m + 1), ~Root(s[i]) PROVE s[i].call = s[i - 1].call
  <2>1. CASE i = m + 1
    <3>1. m \in 1..m /\ i - 1 = m /\ stk # <<>>
      BY <1>1, <2>1
    <3>. QED
      BY <1>2, <1>7, <2>1, <3>1 DEF StackFits
  <2>2. CASE i # m + 1
    <3>1. i \in 2..m /\ i \in 1..m /\ i - 1 \in 1..m
      BY <1>1, <2>2
    <3>. QED
      BY <1>2, <1>7, <3>1 DEF StackFits, Linked
  <2>. QED
    BY <2>1, <2>2
<1>8. ASSUME NEW i \in 1..(m + 1), NEW j \in 1..(m + 1), i <= j PROVE s[i].call <= s[j].call
  <2>1. CASE j = m + 1
    <3>1. CASE i = m + 1
      BY <1>1, <1>2, <1>4, <2>1, <3>1
    <3>2. CASE i \in 1..m
      BY <1>2, <1>5, <2>1, <3>2
    <3>. QED
      BY <1>3, <3>1, <3>2
  <2>2. CASE j \in 1..m
    <3>1. i \in 1..m
      BY <1>1, <1>8, <2>2
    <3>. QED
      BY <1>2, <1>8, <2>2, <3>1 DEF StackFits, Linked
  <2>. QED
    BY <1>3, <2>1, <2>2
<1>9. ASSUME NEW i \in 1..m PROVE Stubless(s[i])
  <2>1. CASE i = m
    BY <1>1, <1>2, <2>1
  <2>2. CASE i # m
    <3>1. i \in 1..(m - 1)
      BY <1>1, <2>2
    <3>. QED
      BY <1>2, <3>1 DEF StackFits, Linked
  <2>. QED
    BY <2>1, <2>2
<1>10. (m + 1) - 1 = m
  BY <1>1
<1>11. Linked(s)
  BY <1>2, <1>6, <1>7, <1>8, <1>9, <1>10 DEF Linked
<1>12. \A i \in 1..(m + 1) : Fits(lev, s[i], os)
  BY <1>2, <1>3 DEF StackFits
<1>. QED
  BY <1>2, <1>11, <1>12 DEF StackFits, s

\* The last frame goes.
LEMMA PopFits ==
  ASSUME NEW lev, NEW stk, NEW os, NEW n, StackFits(lev, stk, os, n), Len(stk) > 1
  PROVE  /\ StackFits(lev, Front(stk), os, stk[Len(stk) - 1].call)
         /\ stk[Len(stk) - 1].call \in Nat /\ stk[Len(stk) - 1].call <= n
         /\ ~Root(stk[Len(stk)]) => stk[Len(stk) - 1].call = n
         /\ Front(stk) # <<>> /\ Len(Front(stk)) = Len(stk) - 1
         /\ \A i \in 1..(Len(stk) - 1) : Front(stk)[i] = stk[i]
         /\ Stubless(Front(stk)[Len(Front(stk))])
<1>. DEFINE s == Front(stk)
            m == Len(stk) - 1
<1>1. /\ stk \in Seq(Frames) /\ m \in Nat /\ m >= 1 /\ Len(stk) = m + 1 /\ stk # <<>>
      /\ \A i \in 1..(m + 1) : stk[i] \in Frames
  BY LenProperties, EmptySeq, ElementOfSeq DEF StackFits
<1>2. s \in Seq(Frames) /\ Len(s) = m /\ \A i \in 1..m : s[i] = stk[i]
  <2>1. \A i \in 1..m : stk[i] \in Frames
    BY <1>1
  <2>. QED
    BY <1>1, <2>1, SubSeqProperties DEF Front
<1>3. s # <<>>
  BY <1>1, <1>2, EmptySeq
<1>. HIDE DEF s
<1>4. 1 \in 1..m /\ m \in 1..m /\ 1..m \subseteq 1..(m + 1) /\ 2..m \subseteq 2..(m + 1)
      /\ 1..(m - 1) \subseteq 1..m /\ m + 1 \in 2..(m + 1) /\ (m + 1) - 1 = m
      /\ \A i \in 2..m : i \in 1..m /\ i - 1 \in 1..m
  BY <1>1
<1>5. Linked(s)
  <2>1. Root(s[1])
    BY <1>1, <1>2, <1>4 DEF StackFits, Linked
  <2>2. \A i \in 2..m : ~Root(s[i]) => s[i].call = s[i - 1].call
    BY <1>1, <1>2, <1>4 DEF StackFits, Linked
  <2>3. \A i, j \in 1..m : i <= j => s[i].call <= s[j].call
    BY <1>1, <1>2, <1>4 DEF StackFits, Linked
  <2>4. \A i \in 1..(m - 1) : Stubless(s[i])
    BY <1>1, <1>2, <1>4 DEF StackFits, Linked
  <2>. QED
    BY <1>2, <2>1, <2>2, <2>3, <2>4 DEF Linked
<1>6. \A i \in 1..m : Fits(lev, s[i], os)
  BY <1>1, <1>2, <1>4 DEF StackFits
<1>7. StackFits(lev, s, os, stk[m].call)
  BY <1>2, <1>3, <1>4, <1>5, <1>6 DEF StackFits
<1>8. stk[m].call \in Nat /\ stk[m].call <= n /\ (~Root(stk[m + 1]) => stk[m].call = n)
  <2>1. \A f \in Frames : f.call \in Nat
    BY DEF Frames
  <2>2. n = stk[m + 1].call /\ m <= m + 1 /\ m \in 1..(m + 1) /\ m + 1 \in 1..(m + 1)
    BY <1>1, <1>4 DEF StackFits
  <2>3. stk[m].call <= stk[m + 1].call
    BY <1>1, <2>2 DEF StackFits, Linked
  <2>4. ~Root(stk[m + 1]) => stk[m + 1].call = stk[m].call
    BY <1>1, <1>4 DEF StackFits, Linked
  <2>. QED
    BY <1>1, <2>1, <2>2, <2>3, <2>4
<1>9. Stubless(s[m])
  BY <1>1, <1>2, <1>4 DEF StackFits, Linked
<1>. QED
  BY <1>1, <1>2, <1>3, <1>7, <1>8, <1>9 DEF s

\* The last frame goes on.
LEMMA GoesOn ==
  ASSUME NEW lev, NEW stk, NEW os, NEW n, StackFits(lev, stk, os, n), stk # <<>>,
         NEW f, Fits(lev, f, os), f.call = stk[Len(stk)].call, Root(f) <=> Root(stk[Len(stk)])
  PROVE  /\ StackFits(lev, [stk EXCEPT ![Len(stk)] = f], os, n)
         /\ Len([stk EXCEPT ![Len(stk)] = f]) = Len(stk)
         /\ [stk EXCEPT ![Len(stk)] = f] # <<>>
         /\ [stk EXCEPT ![Len(stk)] = f][Len(stk)] = f
<1>. DEFINE m == Len(stk)
            s == [stk EXCEPT ![m] = f]
<1>1. /\ stk \in Seq(Frames) /\ m \in Nat /\ m >= 1 /\ f \in Frames
      /\ \A i \in 1..m : stk[i] \in Frames
  BY LenProperties, EmptySeq, ElementOfSeq DEF StackFits, Fits
<1>2. /\ s \in Seq(Frames) /\ Len(s) = m /\ s[m] = f
      /\ \A i \in 1..(m - 1) : s[i] = stk[i]
  <2>1. m \in 1..m /\ \A i \in 1..(m - 1) : i \in 1..m /\ i # m
    BY <1>1
  <2>2. s \in Seq(Frames) /\ Len(s) = m /\ \A i \in 1..m : s[i] = IF i = m THEN f ELSE stk[i]
    BY <1>1, <2>1, ExceptSeq
  <2>. QED
    BY <2>1, <2>2
<1>3. s # <<>>
  BY <1>1, <1>2, EmptySeq
<1>. HIDE DEF s
<1>4. m \in 1..m /\ \A i \in 1..m : i = m \/ i \in 1..(m - 1)
  BY <1>1
<1>5. \A i \in 1..m : s[i].call = stk[i].call /\ (Root(s[i]) <=> Root(stk[i]))
  BY <1>2, <1>4
<1>6. Linked(s)
  <2>1. 1 \in 1..m /\ \A i \in 2..m : i \in 1..m /\ i - 1 \in 1..m
    BY <1>1
  <2>2. Root(s[1])
    BY <1>5, <2>1 DEF StackFits, Linked
  <2>3. \A i \in 2..m : ~Root(s[i]) => s[i].call = s[i - 1].call
    BY <1>5, <2>1 DEF StackFits, Linked
  <2>4. \A i, j \in 1..m : i <= j => s[i].call <= s[j].call
    BY <1>5 DEF StackFits, Linked
  <2>5. \A i \in 1..(m - 1) : Stubless(s[i])
    BY <1>2 DEF StackFits, Linked
  <2>. QED
    BY <1>2, <2>2, <2>3, <2>4, <2>5 DEF Linked
<1>7. \A i \in 1..m : Fits(lev, s[i], os)
  BY <1>2, <1>4 DEF StackFits
<1>8. s[m].call = n
  BY <1>2 DEF StackFits
<1>. QED
  BY <1>2, <1>3, <1>6, <1>7, <1>8 DEF StackFits, s

\* The event objects change, and their number: the frames have theirs, and an event of
\* trigger's remains one.
LEMMA ObjectsChange ==
  ASSUME NEW lev, NEW stk, NEW os, NEW n, StackFits(lev, stk, os, n), NEW new,
         \A i \in 1..Len(stk) : stk[i].obj \in 1..Len(new)
                                /\ (os[stk[i].obj].isTrigger => new[stk[i].obj].isTrigger)
  PROVE  StackFits(lev, stk, new, n)
<1>1. \A i \in 1..Len(stk) : Fits(lev, stk[i], new)
  BY DEF StackFits, Fits
<1>. QED
  BY <1>1 DEF StackFits

-----------------------------------------------------------------------------
(* The frames. *)

Kinds == {"trigger", "native", "dispatch", "handler", "controller"}

\* What a frame has, by its kind.
LEMMA FrameFields ==
  ASSUME NEW f \in Frames
  PROVE  /\ f.kind \in Kinds /\ f.obj \in Nat /\ f.call \in Nat
         /\ Root(f) => /\ f.node \in Elements /\ f.at \in 1..(Depth + 1) /\ f.only \in BOOLEAN
                       /\ f.phase \in {"path", "tail", "method", "over"}
         /\ f.kind = "dispatch" => f.node \in Elements /\ f.elem \in 0..Depth /\ f.queue \in Seq(Queued)
         /\ f.kind = "controller" => /\ f.phase \in {"method", "again"} /\ f.sync \in BOOLEAN
                                     /\ f.again \in Nat
<1>1. CASE f \in [kind : {"trigger", "native"}, obj : Nat, node : Elements, at : 1..(Depth + 1),
                  only : BOOLEAN, phase : {"path", "tail", "method", "over"}, call : Nat]
  BY <1>1 DEF Kinds, Root
<1>2. CASE f \in [kind : {"dispatch"}, obj : Nat, node : Elements, elem : 0..Depth, call : Nat,
                  queue : Seq(Queued)]
  BY <1>2 DEF Kinds, Root
<1>3. CASE f \in [kind : {"handler"}, obj : Nat, call : Nat]
  BY <1>3 DEF Kinds, Root
<1>4. CASE f \in [kind : {"controller"}, obj : Nat, phase : {"method", "again"}, sync : BOOLEAN,
                  again : Nat, call : Nat]
  BY <1>4 DEF Kinds, Root
<1>. QED
  BY <1>1, <1>2, <1>3, <1>4 DEF Frames

\* An event that goes on.
LEMMA RootSteps ==
  ASSUME NEW f \in Frames, Root(f), f.at <= Depth
  PROVE  LET g == [f EXCEPT !.at = @ + 1] IN
         /\ g \in Frames /\ g.at = f.at + 1 /\ g.phase = f.phase /\ g.kind = f.kind
         /\ g.obj = f.obj /\ g.node = f.node /\ g.only = f.only /\ g.call = f.call
<1>0. Depth \in Nat
  BY EventsAssumption
<1>1. f \in [kind : {"trigger", "native"}, obj : Nat, node : Elements, at : 1..(Depth + 1),
             only : BOOLEAN, phase : {"path", "tail", "method", "over"}, call : Nat]
  BY DEF Frames, Root
<1>2. f = [kind |-> f.kind, obj |-> f.obj, node |-> f.node, at |-> f.at, only |-> f.only,
           phase |-> f.phase, call |-> f.call]
  BY <1>1
<1>3. [f EXCEPT !.at = @ + 1] =
        [kind |-> f.kind, obj |-> f.obj, node |-> f.node, at |-> f.at + 1, only |-> f.only,
         phase |-> f.phase, call |-> f.call]
  BY <1>2
<1>4. f.at + 1 \in 1..(Depth + 1)
  BY <1>0, <1>1
<1>. QED
  BY <1>1, <1>3, <1>4 DEF Frames

\* The phases of an event.
Phases == {"path", "tail", "method", "over"}

\* An event whose next phase begins.
LEMMA PhaseSteps ==
  ASSUME NEW f \in Frames, Root(f), NEW p \in Phases
  PROVE  LET g == [f EXCEPT !.phase = p] IN
         /\ g \in Frames /\ g.phase = p /\ g.at = f.at /\ g.kind = f.kind
         /\ g.obj = f.obj /\ g.node = f.node /\ g.only = f.only /\ g.call = f.call
<1>1. f \in [kind : {"trigger", "native"}, obj : Nat, node : Elements, at : 1..(Depth + 1),
             only : BOOLEAN, phase : {"path", "tail", "method", "over"}, call : Nat]
  BY DEF Frames, Root
<1>2. f = [kind |-> f.kind, obj |-> f.obj, node |-> f.node, at |-> f.at, only |-> f.only,
           phase |-> f.phase, call |-> f.call]
  BY <1>1
<1>3. [f EXCEPT !.phase = p] =
        [kind |-> f.kind, obj |-> f.obj, node |-> f.node, at |-> f.at, only |-> f.only,
         phase |-> p, call |-> f.call]
  BY <1>2
<1>. QED
  BY <1>1, <1>3 DEF Frames, Phases

\* A dispatch that has taken the first of its queue.
LEMMA DispatchSteps ==
  ASSUME NEW f \in Frames, f.kind = "dispatch", f.queue # <<>>
  PROVE  LET g == [f EXCEPT !.queue = Tail(@), !.elem = Head(f.queue).elem] IN
         /\ g \in Frames /\ g.kind = "dispatch" /\ g.obj = f.obj /\ g.node = f.node
         /\ g.call = f.call /\ g.queue = Tail(f.queue) /\ g.elem = Head(f.queue).elem
         /\ Head(f.queue) \in Queued
         /\ Len(f.queue) \in Nat /\ Len(f.queue) >= 1 /\ Len(Tail(f.queue)) = Len(f.queue) - 1
         /\ \A i \in 1..Len(Tail(f.queue)) : Tail(f.queue)[i] = f.queue[i + 1]
         /\ Head(f.queue) = f.queue[1]
<1>1. f \in [kind : {"dispatch"}, obj : Nat, node : Elements, elem : 0..Depth, call : Nat,
             queue : Seq(Queued)]
  BY DEF Frames
<1>. DEFINE q == f.queue
<1>3. q \in Seq(Queued) /\ q # <<>>
  BY <1>1
<1>. HIDE DEF q
<1>4. /\ Head(q) \in Queued /\ Tail(q) \in Seq(Queued) /\ Len(Tail(q)) = Len(q) - 1
      /\ \A i \in 1..Len(Tail(q)) : Tail(q)[i] = q[i + 1]
  BY <1>3, HeadTailProperties
<1>5. Len(q) \in Nat /\ Len(q) >= 1 /\ Head(q) = q[1]
  BY <1>3, LenProperties, EmptySeq
<1>6. Head(q).elem \in 0..Depth
  BY <1>4, EventsAssumption DEF Queued, Elements
<1>7. ASSUME NEW e \in 0..Depth, NEW r \in Seq(Queued)
      PROVE  LET g == [f EXCEPT !.queue = r, !.elem = e] IN
             /\ g \in [kind : {"dispatch"}, obj : Nat, node : Elements, elem : 0..Depth, call : Nat,
                       queue : Seq(Queued)]
             /\ g.kind = "dispatch" /\ g.obj = f.obj /\ g.node = f.node /\ g.call = f.call
             /\ g.queue = r /\ g.elem = e
  BY <1>1
<1>8. [f EXCEPT !.queue = Tail(@), !.elem = Head(f.queue).elem] =
        [f EXCEPT !.queue = Tail(q), !.elem = Head(q).elem]
  BY DEF q
<1>. QED
  BY <1>4, <1>5, <1>6, <1>7, <1>8 DEF q, Frames

\* The frames that begin.
LEMMA FramesBegin ==
  ASSUME NEW k \in Nat, NEW c \in Nat, NEW n \in Elements
  PROVE  /\ \A only \in BOOLEAN : Trigger(k, n, only, c) \in Frames
         /\ Native(k, n, c) \in Frames
         /\ \A q \in Seq(Queued) : Dispatch(k, n, c, q) \in Frames
         /\ Handler(k, c) \in Frames
         /\ \A p \in {"method", "again"}, s \in BOOLEAN :
              saved.obj \in Nat => Controller(k, p, s, c) \in Frames
<1>1. n \in 1..(Depth + 1) /\ 0 \in 0..Depth
  BY EventsAssumption DEF Elements
<1>2. \A only \in BOOLEAN : Trigger(k, n, only, c) \in Frames
  BY <1>1 DEF Frames, Trigger
<1>3. Native(k, n, c) \in Frames
  BY <1>1 DEF Frames, Native
<1>4. \A q \in Seq(Queued) : Dispatch(k, n, c, q) \in Frames
  BY <1>1 DEF Frames, Dispatch
<1>5. Handler(k, c) \in Frames
  BY DEF Frames, Handler
<1>6. \A p \in {"method", "again"}, s \in BOOLEAN :
        saved.obj \in Nat => Controller(k, p, s, c) \in Frames
  BY DEF Frames, Controller
<1>. QED
  BY <1>2, <1>3, <1>4, <1>5, <1>6

-----------------------------------------------------------------------------
(* The event objects. *)

\* The objects are those there were, whatever has happened to their events.
Alike(os, new) ==
  /\ new \in Seq(EventObjects) /\ Len(new) = Len(os)
  /\ \A k \in 1..Len(os) : new[k].native = os[k].native /\ new[k].isTrigger = os[k].isTrigger

\* What stopPropagation and preventDefault do.
LEMMA HappensAlike ==
  ASSUME NEW os \in Seq(EventObjects), NEW k \in Nat
  PROVE  Alike(os, stopPropagation(os, k)) /\ Alike(os, preventDefault(os, k))
<1>1. Len(os) \in Nat /\ DOMAIN os = 1..Len(os) /\ \A i \in 1..Len(os) : os[i] \in EventObjects
  BY LenProperties, ElementOfSeq
<1>2. \A o \in EventObjects :
        /\ [o EXCEPT !.stopped = TRUE] \in EventObjects
        /\ [o EXCEPT !.stopped = TRUE].native = o.native
        /\ [o EXCEPT !.stopped = TRUE].isTrigger = o.isTrigger
        /\ [o EXCEPT !.prevented = TRUE] \in EventObjects
        /\ [o EXCEPT !.prevented = TRUE].native = o.native
        /\ [o EXCEPT !.prevented = TRUE].isTrigger = o.isTrigger
  BY DEF EventObjects
<1>3. ASSUME NEW new, new = [i \in 1..Len(os) |-> new[i]],
             \A i \in 1..Len(os) : /\ new[i] \in EventObjects
                                   /\ new[i].native = os[i].native
                                   /\ new[i].isTrigger = os[i].isTrigger
      PROVE  Alike(os, new)
  <2>1. new \in [1..Len(os) -> EventObjects]
    BY <1>3
  <2>2. new \in Seq(EventObjects) /\ Len(new) = Len(os)
    BY <1>1, <2>1, IsASeq, LenProperties
  <2>. QED
    BY <1>3, <2>2 DEF Alike
<1>4. Alike(os, stopPropagation(os, k))
  <2>. DEFINE new == stopPropagation(os, k)
  <2>1. new = [i \in 1..Len(os) |-> IF i \in {k, os[k].native} THEN [os[i] EXCEPT !.stopped = TRUE] ELSE os[i]]
    BY <1>1 DEF stopPropagation
  <2>. HIDE DEF new
  <2>2. new = [i \in 1..Len(os) |-> new[i]]
    BY <2>1
  <2>3. \A i \in 1..Len(os) : /\ new[i] \in EventObjects
                              /\ new[i].native = os[i].native
                              /\ new[i].isTrigger = os[i].isTrigger
    BY <1>1, <1>2, <2>1
  <2>4. Alike(os, new)
    BY <1>3, <2>2, <2>3
  <2>. QED
    BY <2>4 DEF new
<1>5. Alike(os, preventDefault(os, k))
  <2>. DEFINE new == preventDefault(os, k)
  <2>1. new = [i \in 1..Len(os) |-> IF i \in {k, os[k].native} THEN [os[i] EXCEPT !.prevented = TRUE] ELSE os[i]]
    BY <1>1 DEF preventDefault
  <2>. HIDE DEF new
  <2>2. new = [i \in 1..Len(os) |-> new[i]]
    BY <2>1
  <2>3. \A i \in 1..Len(os) : /\ new[i] \in EventObjects
                              /\ new[i].native = os[i].native
                              /\ new[i].isTrigger = os[i].isTrigger
    BY <1>1, <1>2, <2>1
  <2>4. Alike(os, new)
    BY <1>3, <2>2, <2>3
  <2>. QED
    BY <2>4 DEF new
<1>. QED
  BY <1>4, <1>5

\* What one field of an object becomes.
LEMMA FieldAlike ==
  ASSUME NEW os \in Seq(EventObjects), NEW k \in Nat
  PROVE  /\ Alike(os, [os EXCEPT ![k].immediate = TRUE])
         /\ \A r \in Results : Alike(os, [os EXCEPT ![k].result = r])
         /\ Alike(os, os)
<1>1. Len(os) \in Nat /\ DOMAIN os = 1..Len(os) /\ \A i \in 1..Len(os) : os[i] \in EventObjects
  BY LenProperties, ElementOfSeq
<1>2. \A o \in EventObjects :
        /\ [o EXCEPT !.immediate = TRUE] \in EventObjects
        /\ [o EXCEPT !.immediate = TRUE].native = o.native
        /\ [o EXCEPT !.immediate = TRUE].isTrigger = o.isTrigger
        /\ \A r \in Results : /\ [o EXCEPT !.result = r] \in EventObjects
                              /\ [o EXCEPT !.result = r].native = o.native
                              /\ [o EXCEPT !.result = r].isTrigger = o.isTrigger
  BY DEF EventObjects
<1>3. Alike(os, os)
  BY DEF Alike
<1>4. ASSUME NEW o \in EventObjects,
             k \in 1..Len(os) => o.native = os[k].native /\ o.isTrigger = os[k].isTrigger
      PROVE  Alike(os, [os EXCEPT ![k] = o])
  <2>1. CASE k \in 1..Len(os)
    <3>1. /\ [os EXCEPT ![k] = o] \in Seq(EventObjects) /\ Len([os EXCEPT ![k] = o]) = Len(os)
          /\ \A i \in 1..Len(os) : [os EXCEPT ![k] = o][i] = IF i = k THEN o ELSE os[i]
      BY <2>1, ExceptSeq
    <3>. QED
      BY <1>4, <2>1, <3>1 DEF Alike
  <2>2. CASE k \notin 1..Len(os)
    <3>1. [os EXCEPT ![k] = o] = os
      BY <1>1, <2>2
    <3>. QED
      BY <1>3, <3>1
  <2>. QED
    BY <2>1, <2>2
<1>5. CASE k \in 1..Len(os)
  <2>1. /\ [os EXCEPT ![k].immediate = TRUE] = [os EXCEPT ![k] = [os[k] EXCEPT !.immediate = TRUE]]
        /\ \A r \in Results :
             [os EXCEPT ![k].result = r] = [os EXCEPT ![k] = [os[k] EXCEPT !.result = r]]
    OBVIOUS
  <2>. QED
    BY <1>1, <1>2, <1>3, <1>4, <1>5, <2>1
<1>6. CASE k \notin 1..Len(os)
  <2>1. /\ [os EXCEPT ![k].immediate = TRUE] = os
        /\ \A r \in Results : [os EXCEPT ![k].result = r] = os
    BY <1>1, <1>6
  <2>. QED
    BY <1>3, <2>1
<1>. QED
  BY <1>5, <1>6

\* What happens to the objects twice.
LEMMA AlikeTwice ==
  ASSUME NEW a, NEW b, NEW c, Alike(a, b), Alike(b, c)
  PROVE  Alike(a, c)
  BY DEF Alike

\* What a handler's answer makes of the objects.
LEMMA AnsweredAlike ==
  ASSUME NEW os \in Seq(EventObjects), NEW k \in Nat, NEW r \in Results
  PROVE  /\ Alike(os, answered(os, k, r)) /\ Alike(os, stopImmediatePropagation(os, k))
         /\ Alike(os, answered(preventDefault(stopImmediatePropagation(os, k), k), k, r))
<1>1. ASSUME NEW o \in Seq(EventObjects) PROVE Alike(o, stopImmediatePropagation(o, k))
  <2>1. Alike(o, stopPropagation(o, k)) /\ stopPropagation(o, k) \in Seq(EventObjects)
    BY HappensAlike DEF Alike
  <2>2. Alike(stopPropagation(o, k), stopImmediatePropagation(o, k))
    BY <2>1, FieldAlike DEF stopImmediatePropagation
  <2>. QED
    BY <2>1, <2>2, AlikeTwice
<1>2. ASSUME NEW o \in Seq(EventObjects) PROVE Alike(o, answered(o, k, r))
  <2>. DEFINE noted == [o EXCEPT ![k].result = IF r = "none" THEN @ ELSE r]
  <2>1. Alike(o, noted)
    <3>1. CASE r = "none"
      <4>1. noted = o
        <5>1. CASE k \in DOMAIN o
          <6>1. o[k] \in EventObjects
            BY <5>1, LenProperties, ElementOfSeq
          <6>2. [o[k] EXCEPT !.result = @] = o[k]
            BY <6>1 DEF EventObjects
          <6>. QED
            BY <3>1, <5>1, <6>2, LenProperties
        <5>2. CASE k \notin DOMAIN o
          BY <5>2, LenProperties
        <5>. QED
          BY <5>1, <5>2
      <4>. QED
        BY <4>1, FieldAlike
    <3>2. CASE r # "none"
      <4>1. noted = [o EXCEPT ![k].result = r]
        BY <3>2
      <4>. QED
        BY <4>1, FieldAlike
    <3>. QED
      BY <3>1, <3>2
  <2>2. answered(o, k, r) = IF r = "false" THEN stopPropagation(preventDefault(noted, k), k) ELSE noted
    BY DEF answered
  <2>. HIDE DEF noted
  <2>3. noted \in Seq(EventObjects)
    BY <2>1 DEF Alike
  <2>4. Alike(noted, preventDefault(noted, k)) /\ preventDefault(noted, k) \in Seq(EventObjects)
    BY <2>3, HappensAlike DEF Alike
  <2>5. Alike(preventDefault(noted, k), stopPropagation(preventDefault(noted, k), k))
    BY <2>4, HappensAlike
  <2>6. Alike(o, stopPropagation(preventDefault(noted, k), k))
    BY <2>1, <2>4, <2>5, AlikeTwice
  <2>. QED
    BY <2>1, <2>2, <2>6
<1>3. Alike(os, answered(preventDefault(stopImmediatePropagation(os, k), k), k, r))
  <2>. DEFINE a == stopImmediatePropagation(os, k)
              b == preventDefault(a, k)
  <2>1. Alike(os, a) /\ a \in Seq(EventObjects)
    BY <1>1 DEF Alike
  <2>. HIDE DEF a
  <2>2. Alike(a, b) /\ b \in Seq(EventObjects)
    BY <2>1, HappensAlike DEF Alike
  <2>. HIDE DEF b
  <2>3. Alike(b, answered(b, k, r))
    BY <1>2, <2>2
  <2>4. Alike(os, answered(b, k, r))
    BY <2>1, <2>2, <2>3, AlikeTwice
  <2>. QED
    BY <2>4 DEF a, b
<1>. QED
  BY <1>1, <1>2, <1>3

\* What holds of the objects holds of those that are alike.
LEMMA AlikeFits ==
  ASSUME NEW lev, NEW stk, NEW os, NEW n, NEW sv, NEW new, Alike(os, new)
  PROVE  /\ ObjectsFit(os) => ObjectsFit(new)
         /\ SavedFits(sv, os) => SavedFits(sv, new)
         /\ StackFits(lev, stk, os, n) => StackFits(lev, stk, new, n)
<1>1. ObjectsFit(os) => ObjectsFit(new)
  BY DEF Alike, ObjectsFit
<1>2. SavedFits(sv, os) => SavedFits(sv, new)
  BY DEF Alike, SavedFits
<1>3. ASSUME StackFits(lev, stk, os, n) PROVE StackFits(lev, stk, new, n)
  <2>1. \A i \in 1..Len(stk) : stk[i].obj \in 1..Len(new)
                               /\ (os[stk[i].obj].isTrigger => new[stk[i].obj].isTrigger)
    BY <1>3 DEF Alike, StackFits, Fits
  <2>. QED
    BY <1>3, <2>1, ObjectsChange
<1>. QED
  BY <1>1, <1>2, <1>3

\* One more event object.
LEMMA AppendFits ==
  ASSUME NEW lev, NEW stk, NEW os, NEW n, NEW sv, ObjectsFit(os), SavedFits(sv, os),
         StackFits(lev, stk, os, n), NEW o \in EventObjects, o.native <= Len(os),
         o.isTrigger => o.native = 0
  PROVE  /\ ObjectsFit(Append(os, o)) /\ SavedFits(sv, Append(os, o))
         /\ StackFits(lev, stk, Append(os, o), n)
         /\ Len(os) \in Nat /\ Len(Append(os, o)) = Len(os) + 1
         /\ \A i \in 1..Len(os) : Append(os, o)[i] = os[i]
         /\ Append(os, o)[Len(os) + 1] = o
<1>. DEFINE new == Append(os, o)
<1>1. Len(os) \in Nat /\ os \in Seq(EventObjects)
  BY LenProperties DEF ObjectsFit
<1>2. o.native \in Nat
  BY DEF EventObjects
<1>3. /\ new \in Seq(EventObjects) /\ Len(new) = Len(os) + 1
      /\ \A i \in 1..Len(os) : new[i] = os[i]
      /\ new[Len(os) + 1] = o
  BY <1>1, <1>2, AppendProperties
<1>. HIDE DEF new
<1>4. \A i \in 1..(Len(os) + 1) : i = Len(os) + 1 \/ i \in 1..Len(os)
  BY <1>1
<1>5. ObjectsFit(new)
  <2>1. ASSUME NEW k \in 1..(Len(os) + 1)
        PROVE  new[k].native < k /\ (new[k].isTrigger => new[k].native = 0)
    <3>1. CASE k = Len(os) + 1
      BY <1>1, <1>2, <1>3, <3>1
    <3>2. CASE k \in 1..Len(os)
      BY <1>3, <3>2 DEF ObjectsFit
    <3>. QED
      BY <1>4, <3>1, <3>2
  <2>. QED
    BY <1>3, <2>1 DEF ObjectsFit
<1>6. SavedFits(sv, new)
  BY <1>1, <1>3 DEF SavedFits
<1>7. StackFits(lev, stk, new, n)
  <2>1. \A i \in 1..Len(stk) : stk[i].obj \in 1..Len(new)
                               /\ (os[stk[i].obj].isTrigger => new[stk[i].obj].isTrigger)
    BY <1>1, <1>3 DEF StackFits, Fits
  <2>. QED
    BY <2>1, ObjectsChange
<1>. QED
  BY <1>1, <1>3, <1>5, <1>6, <1>7 DEF new

\* The object an event begins with.
LEMMA ObjectBegins ==
  ASSUME NEW t \in BOOLEAN, NEW b \in Nat
  PROVE  EventObject(t, b) \in EventObjects /\ EventObject(t, b).native = b
         /\ EventObject(t, b).isTrigger = t
  BY DEF EventObject, EventObjects, Results

\* The objects that are not referred to any more go.
LEMMA KeptFits ==
  ASSUME NEW lev, NEW stk, NEW os, NEW n, ObjectsFit(os), SavedFits(saved, os),
         StackFits(lev, stk, os, n), stk # <<>>
  PROVE  LET new == Kept(os, stk) IN
         /\ ObjectsFit(new) /\ SavedFits(saved, new) /\ StackFits(lev, stk, new, n)
         /\ Len(new) <= Len(os) /\ \A i \in 1..Len(new) : new[i] = os[i]
<1>. DEFINE used == {stk[i].obj : i \in DOMAIN stk} \union {IF saved.is = "args" THEN saved.obj ELSE 0}
            m == Max(used)
            new == SubSeq(os, 1, m)
<1>1. /\ Len(os) \in Nat /\ os \in Seq(EventObjects) /\ Len(stk) \in Nat /\ DOMAIN stk = 1..Len(stk)
      /\ \A i \in 1..Len(os) : os[i] \in EventObjects
  BY LenProperties, ElementOfSeq DEF ObjectsFit, StackFits
<1>2. \A i \in 1..Len(stk) : stk[i].obj \in 1..Len(os)
  BY DEF StackFits, Fits
<1>3. used \in SUBSET (0..Len(os)) /\ used # {}
  <2>. DEFINE kept == IF saved.is = "args" THEN saved.obj ELSE 0
  <2>1. kept \in 0..Len(os)
    BY <1>1 DEF SavedFits
  <2>2. \A i \in DOMAIN stk : stk[i].obj \in 0..Len(os)
    BY <1>1, <1>2
  <2>3. used = {stk[i].obj : i \in DOMAIN stk} \union {kept}
    OBVIOUS
  <2>. HIDE DEF used, kept
  <2>. QED
    BY <2>1, <2>2, <2>3
<1>. HIDE DEF used
<1>4. m \in used /\ \A x \in used : x <= m
  BY <1>1, <1>3, Greatest
<1>. HIDE DEF m
<1>5. m \in 0..Len(os)
  BY <1>3, <1>4
<1>6. new \in Seq(EventObjects) /\ Len(new) = m /\ \A i \in 1..m : new[i] = os[i]
  <2>1. 1 \in Int /\ m \in Int /\ \A i \in 1..m : os[i] \in EventObjects
    BY <1>1, <1>5
  <2>2. /\ new \in Seq(EventObjects)
        /\ Len(new) = IF 1 <= m THEN m - 1 + 1 ELSE 0
        /\ \A i \in 1..(m - 1 + 1) : new[i] = os[1 + i - 1]
    BY <2>1, SubSeqProperties
  <2>3. m - 1 + 1 = m /\ (~(1 <= m) => m = 0) /\ \A i \in 1..m : 1 + i - 1 = i
    BY <1>1, <1>5
  <2>. HIDE DEF new
  <2>. QED
    BY <2>2, <2>3
<1>. HIDE DEF new
<1>7. /\ \A i \in 1..Len(stk) : stk[i].obj <= m
      /\ saved.is = "args" => saved.obj <= m
  BY <1>1, <1>4 DEF used
<1>8. 1..m \subseteq 1..Len(os) /\ m <= Len(os)
  BY <1>1, <1>5
<1>9. ObjectsFit(new)
  BY <1>6, <1>8 DEF ObjectsFit
<1>10. SavedFits(saved, new)
  <2>1. saved.is = "args" => saved.obj \in 1..m /\ saved.obj \in 1..Len(os)
    BY <1>1, <1>5, <1>7 DEF SavedFits
  <2>. QED
    BY <1>6, <2>1 DEF SavedFits
<1>11. StackFits(lev, stk, new, n)
  <2>1. ASSUME NEW i \in 1..Len(stk)
        PROVE  stk[i].obj \in 1..Len(new) /\ (os[stk[i].obj].isTrigger => new[stk[i].obj].isTrigger)
    <3>1. stk[i].obj \in 1..m
      BY <1>1, <1>2, <1>5, <1>7
    <3>. QED
      BY <1>6, <3>1
  <2>. QED
    BY <2>1, ObjectsChange
<1>12. Kept(os, stk) = new
  BY DEF Kept, new, m, used
<1>. QED
  BY <1>6, <1>8, <1>9, <1>10, <1>11, <1>12

-----------------------------------------------------------------------------
(* What binding and unbinding make of the lists. *)

\* add.
LEMMA AddKeeps ==
  ASSUME NEW n \in Elements, NEW h \in Listed, add(n, h), h # Stub, leveraged => h.sel = 0,
         leveraged \in BOOLEAN, ListsFit(leveraged, events, listening), SavedFits(saved, objects)
  PROVE  ListsFit(leveraged, events', listening') /\ SavedFits(saved', objects)
<1>. DEFINE l == events[n]
            start == IF leveraged /\ l.list = <<>> THEN added(l, Stub) ELSE l
            new == added(start, h)
<1>1. /\ l \in Lists /\ Sorted(l) /\ StubFirst(l)
      /\ ~leveraged => \A i \in 1..Len(l.list) : l.list[i] # Stub
  BY DEF ListsFit, ListFits
<1>2. Stub \in Listed /\ Stub.sel = 0
  BY DEF Listed, Stub
<1>3. events' = [events EXCEPT ![n] = new] /\ listening' = listening \union {n}
  BY DEF add
<1>. HIDE DEF l
<1>4. /\ start \in Lists /\ Sorted(start) /\ StubFirst(start)
      /\ ~leveraged => start = l
  <2>1. CASE leveraged /\ l.list = <<>>
    <3>1. added(l, Stub) \in Lists /\ Sorted(added(l, Stub)) /\ StubFirst(added(l, Stub))
      BY <1>1, <1>2, <2>1, AddedSorted, AddedStub
    <3>. QED
      BY <2>1, <3>1
  <2>2. CASE ~(leveraged /\ l.list = <<>>)
    BY <1>1, <2>2
  <2>. QED
    BY <2>1, <2>2
<1>. HIDE DEF start
<1>5. new \in Lists /\ Sorted(new) /\ new.list # <<>>
  BY <1>4, AddedSorted
<1>6. ~leveraged => \A i \in 1..Len(new.list) : new.list[i] # Stub
  BY <1>1, <1>4, AddedListed
<1>7. StubFirst(new)
  <2>1. CASE leveraged
    BY <1>4, <2>1, AddedStub
  <2>2. CASE ~leveraged
    BY <1>6, <2>2 DEF StubFirst
  <2>. QED
    BY <2>1, <2>2
<1>. HIDE DEF new
<1>8. ListFits(leveraged, new)
  BY <1>5, <1>6, <1>7 DEF ListFits
<1>9. ListsFit(leveraged, events', listening')
  <2>1. events' \in [Elements -> Lists] /\ events'[n] = new
        /\ \A m \in Elements : m # n => events'[m] = events[m]
    BY <1>3, <1>5 DEF ListsFit
  <2>2. ASSUME NEW m \in Elements
        PROVE  ListFits(leveraged, events'[m]) /\ (m \in listening' <=> events'[m].list # <<>>)
    <3>1. CASE m = n
      BY <1>3, <1>5, <1>8, <2>1, <3>1
    <3>2. CASE m # n
      BY <1>3, <2>1, <3>2 DEF ListsFit
    <3>. QED
      BY <3>1, <3>2
  <2>3. listening' \subseteq Elements
    BY <1>3 DEF ListsFit
  <2>. QED
    BY <2>1, <2>2, <2>3 DEF ListsFit
<1>10. SavedFits(saved', objects)
  BY DEF add, SavedFits, Saved, Results
<1>. QED
  BY <1>9, <1>10

\* remove.
LEMMA RemoveKeeps ==
  ASSUME NEW n \in Elements, NEW gone, remove(n, gone), leveraged \in BOOLEAN,
         ListsFit(leveraged, events, listening)
  PROVE  ListsFit(leveraged, events', listening')
<1>. DEFINE l == events[n]
            new == removed(l, gone)
<1>1. l \in Lists /\ Sorted(l) /\ ListFits(leveraged, l)
  BY DEF ListsFit, ListFits
<1>2. events' = [events EXCEPT ![n] = new]
      /\ listening' = IF events'[n].list = <<>> THEN listening \ {n} ELSE listening
  BY DEF remove
<1>. HIDE DEF l
<1>3. Left(new, l, gone, Len(l.list))
  BY <1>1, RemovedLeft
<1>. HIDE DEF new
<1>4. new \in Lists /\ Sorted(new)
      /\ \A i \in 1..Len(new.list) : \E j \in i..Len(l.list) : new.list[i] = l.list[j]
  BY <1>3 DEF Left
<1>5. ASSUME NEW i \in 1..Len(new.list) PROVE \E j \in 1..Len(l.list) : new.list[i] = l.list[j] /\ i <= j
  <2>1. PICK j \in i..Len(l.list) : new.list[i] = l.list[j]
    BY <1>4
  <2>2. Len(new.list) \in Nat /\ Len(l.list) \in Nat
    BY <1>1, <1>4, LenProperties DEF Lists
  <2>3. j \in 1..Len(l.list) /\ i <= j
    BY <2>2
  <2>. QED
    BY <2>1, <2>3
<1>6. StubFirst(new)
  <2>. SUFFICES ASSUME NEW i \in 1..Len(new.list), new.list[i] = Stub PROVE i = 1
    BY DEF StubFirst
  <2>1. PICK j \in 1..Len(l.list) : new.list[i] = l.list[j] /\ i <= j
    BY <1>5
  <2>2. j = 1
    BY <1>1, <2>1 DEF ListFits, StubFirst
  <2>. QED
    BY <2>1, <2>2
<1>7. ~leveraged => \A i \in 1..Len(new.list) : new.list[i] # Stub
  BY <1>1, <1>5 DEF ListFits
<1>8. ListFits(leveraged, new)
  BY <1>4, <1>6, <1>7 DEF ListFits
<1>9. events' \in [Elements -> Lists] /\ events'[n] = new
      /\ \A m \in Elements : m # n => events'[m] = events[m]
  BY <1>2, <1>4 DEF ListsFit
<1>10. ASSUME NEW m \in Elements
       PROVE  ListFits(leveraged, events'[m]) /\ (m \in listening' <=> events'[m].list # <<>>)
  <2>1. CASE m = n
    <3>1. l.list = <<>> => new.list = <<>>
      <4>. SUFFICES ASSUME l.list = <<>>, new.list # <<>> PROVE FALSE
        OBVIOUS
      <4>1. 1 \in 1..Len(new.list)
        BY <1>4, LenProperties, EmptySeq DEF Lists
      <4>2. PICK j \in 1..Len(l.list) : new.list[1] = l.list[j]
        BY <1>5, <4>1
      <4>. QED
        BY <4>2
    <3>2. n \in listening <=> l.list # <<>>
      BY DEF ListsFit, l
    <3>. QED
      BY <1>2, <1>8, <1>9, <2>1, <3>1, <3>2
  <2>2. CASE m # n
    BY <1>2, <1>9, <2>2 DEF ListsFit
  <2>. QED
    BY <2>1, <2>2
<1>11. listening' \subseteq Elements
  BY <1>2 DEF ListsFit
<1>. QED
  BY <1>9, <1>10, <1>11 DEF ListsFit

-----------------------------------------------------------------------------
(* What runs, and what has happened. *)

\* The frame that runs.
LEMMA OnTop ==
  ASSUME IInv, stack # <<>>
  PROVE  /\ Top = stack[Len(stack)] /\ Top \in Frames /\ Fits(leveraged, Top, objects)
         /\ Top.call = ThisCall /\ ThisCall \in 1..Len(history) /\ ThisCall \in Nat
         /\ Top.obj \in 1..Len(objects) /\ Top.obj \in Nat /\ objects[Top.obj] \in EventObjects
         /\ Len(objects) \in Nat
         /\ Awaits(leveraged, Top, objects, saved)
         /\ Len(stack) \in Nat /\ Len(stack) >= 1 /\ (~Root(Top) => Len(stack) > 1)
<1>1. /\ stack \in Seq(Frames) /\ Len(stack) \in Nat /\ Len(stack) >= 1
      /\ \A i \in 1..Len(stack) : stack[i] \in Frames
  BY LenProperties, EmptySeq, ElementOfSeq DEF IInv, StackFits
<1>2. Top = stack[Len(stack)] /\ Len(stack) \in 1..Len(stack)
  BY <1>1 DEF Top, Last
<1>3. Fits(leveraged, Top, objects) /\ Top.call = ThisCall
  BY <1>2 DEF IInv, StackFits, ThisCall
<1>4. Top \in Frames /\ Top.call >= 1 /\ Top.obj \in 1..Len(objects)
  BY <1>3 DEF Fits
<1>5. Top.call \in Nat /\ Top.obj \in Nat
  BY <1>4, FrameFields
<1>6. Len(objects) \in Nat /\ objects[Top.obj] \in EventObjects
  BY <1>4, LenProperties, ElementOfSeq DEF IInv, ObjectsFit
<1>7. Awaits(leveraged, Top, objects, saved)
  BY <1>2 DEF IInv, Waiting
<1>8. ~Root(Top) => Len(stack) > 1
  <2>1. Len(stack) = 1 => Root(Top)
    BY <1>1, <1>2 DEF IInv, StackFits, Linked
  <2>2. \A m \in Nat : m >= 1 => m = 1 \/ m > 1
    OBVIOUS
  <2>. QED
    BY <1>1, <2>1, <2>2
<1>9. ThisCall \in 1..Len(history)
  BY <1>3, <1>4, <1>5 DEF ThisCall
<1>. QED
  BY <1>1, <1>2, <1>3, <1>4, <1>5, <1>6, <1>7, <1>8, <1>9

\* Where a script runs, no stub is to be called.
LEMMA ScriptRuns ==
  ASSUME Script, NEW lev, NEW os, NEW sv
  PROVE  Waiting(lev, stack, os, sv)
         /\ (stack # <<>> => Stubless(stack[Len(stack)]) /\ ~Root(stack[Len(stack)]))
  BY DEF Script, Running, Top, Last, Waiting, Awaits, Stubless, Root

\* What is due is bound.
LEMMA DueBound ==
  ASSUME IInv, NEW n \in Elements, NEW end \in 0..Depth
  PROVE  due(n, end) \in SUBSET Handlers
<1>. SUFFICES ASSUME NEW h \in due(n, end) PROVE h \in Handlers
  OBVIOUS
<1>1. PICK m \in n..end : h \in BoundAt(m)
  BY DEF due
<1>2. m \in Elements
  BY EventsAssumption DEF Elements
<1>3. h \in ToSet(events[m].list) /\ h.id \in Ids
  BY <1>1 DEF BoundAt
<1>4. events[m].list \in Seq(Listed)
  BY <1>2 DEF IInv, ListsFit, Lists, Listed
<1>5. h \in Listed
  BY <1>3, <1>4, LenProperties, ElementOfSeq DEF ToSet
<1>. QED
  BY <1>3, <1>5, EventsAssumption DEF Listed, Stub, ReturnTrue

\* What is noted of the calls under way.
LEMMA Noted ==
  ASSUME history \in Seq(Calls)
  PROVE  /\ \A expected \in SUBSET Handlers :
              begun(expected) => history' \in Seq(Calls) /\ Len(history') = NextCall
         /\ ThisCall \in 1..Len(history) =>
              /\ \A entry \in Entries :
                   logged(entry) => history' \in Seq(Calls) /\ Len(history') = Len(history)
              /\ excused => history' \in Seq(Calls) /\ Len(history') = Len(history)
              /\ \A how \in {"stop", "now"} :
                   stops(how) => history' \in Seq(Calls) /\ Len(history') = Len(history)
<1>1. ASSUME NEW expected \in SUBSET Handlers, begun(expected)
      PROVE  history' \in Seq(Calls) /\ Len(history') = NextCall
  <2>1. [due |-> expected, log |-> <<>>] \in Calls
    BY EmptySeq DEF Calls
  <2>. QED
    BY <1>1, <2>1, AppendProperties DEF begun, NextCall
<1>2. ASSUME ThisCall \in 1..Len(history), NEW c \in Calls, history' = [history EXCEPT ![ThisCall] = c]
      PROVE  history' \in Seq(Calls) /\ Len(history') = Len(history)
  BY <1>2, ExceptSeq
<1>3. ASSUME ThisCall \in 1..Len(history)
      PROVE  LET c == history[ThisCall] IN
             /\ c \in Calls
             /\ \A l \in Seq(Entries) : [c EXCEPT !.log = l] \in Calls
             /\ [c EXCEPT !.due = {}] \in Calls
             /\ c.log \in Seq(Entries)
  <2>1. history[ThisCall] \in Calls
    BY <1>3, ElementOfSeq
  <2>. QED
    BY <2>1 DEF Calls
<1>4. ASSUME ThisCall \in 1..Len(history), NEW entry \in Entries, logged(entry)
      PROVE  history' \in Seq(Calls) /\ Len(history') = Len(history)
  <2>. DEFINE l == Append(history[ThisCall].log, entry)
  <2>1. l \in Seq(Entries)
    BY <1>3, <1>4, AppendProperties
  <2>2. history' = [history EXCEPT ![ThisCall] = [history[ThisCall] EXCEPT !.log = l]]
    BY <1>4 DEF logged
  <2>. HIDE DEF l
  <2>. QED
    BY <1>2, <1>3, <1>4, <2>1, <2>2
<1>5. ASSUME ThisCall \in 1..Len(history), excused
      PROVE  history' \in Seq(Calls) /\ Len(history') = Len(history)
  <2>1. history' = [history EXCEPT ![ThisCall] = [history[ThisCall] EXCEPT !.due = {}]]
    BY <1>5 DEF excused
  <2>. QED
    BY <1>2, <1>3, <1>5, <2>1
<1>6. ASSUME ThisCall \in 1..Len(history), NEW how \in {"stop", "now"}, stops(how)
      PROVE  history' \in Seq(Calls) /\ Len(history') = Len(history)
  <2>. DEFINE log == history[ThisCall].log
              l == stopping(log, how)
  <2>1. history' = [history EXCEPT ![ThisCall] = [history[ThisCall] EXCEPT !.log = l]]
    BY <1>6 DEF stops
  <2>2. log \in Seq(Entries) /\ Len(log) \in Nat /\ DOMAIN log = 1..Len(log)
    BY <1>3, <1>6, LenProperties
  <2>. HIDE DEF log
  <2>3. l \in Seq(Entries)
    <3>1. CASE Len(log) \in 1..Len(log)
      <4>. DEFINE e == log[Len(log)]
                  v == IF e.stops = "now" THEN e.stops ELSE how
      <4>1. e \in Entries
        BY <2>2, <3>1, ElementOfSeq
      <4>2. l = [log EXCEPT ![Len(log)] = [e EXCEPT !.stops = v]]
        BY DEF stopping
      <4>3. [e EXCEPT !.stops = v] \in Entries
        BY <1>6, <4>1 DEF Entries
      <4>. HIDE DEF e
      <4>. QED
        BY <2>2, <3>1, <4>2, <4>3, ExceptSeq
    <3>2. CASE Len(log) \notin 1..Len(log)
      <4>. DEFINE v == IF log[Len(log)].stops = "now" THEN log[Len(log)].stops ELSE how
      <4>1. l = [log EXCEPT ![Len(log)] = [log[Len(log)] EXCEPT !.stops = v]]
        BY DEF stopping
      <4>2. \A x : [log EXCEPT ![Len(log)] = x] = log
        BY <2>2, <3>2
      <4>. QED
        BY <2>2, <4>1, <4>2
    <3>. QED
      BY <3>1, <3>2
  <2>. HIDE DEF l
  <2>. QED
    BY <1>2, <1>3, <1>6, <2>1, <2>3
<1>. QED
  BY <1>1, <1>4, <1>5, <1>6

-----------------------------------------------------------------------------
(* What scripts do. *)

\* Binding and unbinding go on as they may.
LEMMA ChangeCounts ==
  ASSUME IInv, Change
  PROVE  Script /\ changes' \in 0..MaxChanges
  BY EventsAssumption DEF IInv, Change, Script

\* on.
LEMMA OnKeeps ==
  ASSUME IInv, NEW n \in Elements, NEW i \in Ids, NEW f \in Fns, NEW s \in 0..Depth, NEW o \in BOOLEAN,
         on(n, [id |-> i, fn |-> f, sel |-> s, once |-> o])
  PROVE  IInv'
<1>. DEFINE h == [id |-> i, fn |-> f, sel |-> s, once |-> o]
<1>1. /\ Change /\ n \in Bindable /\ s < n /\ add(n, h)
      /\ UNCHANGED <<leveraged, active, late, triggered, objects, stack, history>>
  BY DEF on, calls
<1>2. Script /\ changes' \in 0..MaxChanges
  BY <1>1, ChangeCounts
<1>3. h \in Handlers /\ h \in Listed /\ h.id \in Ids /\ h.sel = s
  BY DEF Handlers, Listed
<1>4. h # Stub
  BY <1>3, EventsAssumption DEF Stub
<1>5. leveraged => h.sel = 0
  BY <1>1, <1>3, EventsAssumption DEF Bindable
<1>. HIDE DEF h
<1>6. ListsFit(leveraged, events', listening') /\ SavedFits(saved', objects)
  BY <1>1, <1>3, <1>4, <1>5, AddKeeps DEF IInv
<1>7. Waiting(leveraged, stack, objects, saved')
  BY <1>2, ScriptRuns
<1>. QED
  BY <1>1, <1>2, <1>6, <1>7 DEF IInv

\* off.
LEMMA OffKeeps ==
  ASSUME IInv, NEW n \in Elements, offAll(n) \/ \E f \in Fns : off(n, f)
  PROVE  IInv'
<1>1. PICK gone :
        /\ Change /\ remove(n, gone)
        /\ UNCHANGED <<leveraged, saved, active, late, triggered, objects, stack, history>>
  BY DEF off, offAll, focus, calls
<1>2. changes' \in 0..MaxChanges
  BY <1>1, ChangeCounts
<1>3. ListsFit(leveraged, events', listening')
  BY <1>1, RemoveKeeps DEF IInv
<1>. QED
  BY <1>1, <1>2, <1>3 DEF IInv

\* trigger.
LEMMA TriggerKeeps ==
  ASSUME IInv, NEW n \in Elements, NEW only \in BOOLEAN, trigger(n, only)
  PROVE  IInv'
<1>. DEFINE end == IF leveraged \/ only THEN n ELSE Depth
            k == Len(objects) + 1
            f == Trigger(k, n, only, NextCall)
            os == Append(objects, EventObject(~only, 0))
<1>1. /\ Script /\ n \in Bindable /\ ~(only /\ leveraged)
      /\ objects' = os /\ stack' = Append(stack, f)
      /\ begun(due(n, end))
      /\ UNCHANGED <<leveraged, changes, triggered, active, late>>
      /\ IF leveraged /\ saved.is = "unset" THEN add(n, ReturnTrue) ELSE UNCHANGED <<events, listening, saved>>
  BY DEF trigger, bindings
<1>2. end \in 0..Depth /\ n \in Nat
  BY EventsAssumption DEF Elements
<1>3. history' \in Seq(Calls) /\ Len(history') = NextCall
  BY <1>1, <1>2, DueBound, Noted DEF IInv
<1>4. /\ ObjectsFit(objects) /\ SavedFits(saved, objects)
      /\ StackFits(leveraged, stack, objects, Len(history)) /\ leveraged \in BOOLEAN
      /\ Len(history) \in Nat /\ NextCall = Len(history) + 1
  BY LenProperties DEF IInv, NextCall
<1>. HIDE DEF end
<1>5. ListsFit(leveraged, events', listening') /\ SavedFits(saved', objects)
  <2>1. ReturnTrue \in Listed /\ ReturnTrue # Stub /\ ReturnTrue.sel = 0
    BY DEF Listed, ReturnTrue, Stub
  <2>2. CASE leveraged /\ saved.is = "unset"
    <3>1. add(n, ReturnTrue)
      BY <1>1, <2>2
    <3>. QED
      BY <2>1, <3>1, AddKeeps DEF IInv
  <2>3. CASE ~(leveraged /\ saved.is = "unset")
    BY <1>1, <2>3 DEF IInv
  <2>. QED
    BY <2>2, <2>3
<1>6. /\ ObjectsFit(os) /\ SavedFits(saved', os)
      /\ StackFits(leveraged, stack, os, Len(history))
      /\ Len(os) = k /\ os[k].isTrigger = ~only /\ k \in Nat /\ k >= 1
  <2>1. 0 \in Nat /\ (~only) \in BOOLEAN
    OBVIOUS
  <2>. DEFINE o == EventObject(~only, 0)
  <2>2. o \in EventObjects /\ o.native = 0 /\ o.isTrigger = ~only
    BY <2>1, ObjectBegins
  <2>. HIDE DEF k, o
  <2>3. /\ ObjectsFit(Append(objects, o)) /\ SavedFits(saved', Append(objects, o))
        /\ StackFits(leveraged, stack, Append(objects, o), Len(history))
        /\ Len(Append(objects, o)) = Len(objects) + 1 /\ Append(objects, o)[Len(objects) + 1] = o
    BY <1>4, <1>5, <2>2, AppendFits, LenProperties DEF ObjectsFit
  <2>. QED
    BY <1>4, <2>2, <2>3, LenProperties DEF ObjectsFit, os, k, o
<1>. HIDE DEF os, k
<1>7. f \in Frames /\ f.kind = "trigger" /\ f.obj = k /\ f.node = n /\ f.at = n /\ f.call = NextCall
  <2>1. NextCall \in Nat
    BY <1>4
  <2>. QED
    BY <1>6, <2>1, FramesBegin DEF Trigger
<1>. HIDE DEF f
<1>8. Fits(leveraged, f, os)
  <2>1. leveraged => n = 1 /\ ~only
    BY <1>1 DEF Bindable
  <2>2. k \in 1..Len(os) /\ NextCall >= 1 /\ n <= n
    BY <1>2, <1>4, <1>6
  <2>. QED
    BY <1>6, <1>7, <2>1, <2>2 DEF Fits, Root
<1>9. StackFits(leveraged, stack', os, NextCall)
  <2>1. Root(f) /\ f.call >= Len(history)
    BY <1>4, <1>7 DEF Root
  <2>2. stack # <<>> => Stubless(stack[Len(stack)])
    BY <1>1, ScriptRuns
  <2>. QED
    BY <1>1, <1>6, <1>7, <1>8, <2>1, <2>2, PushFits
<1>10. Waiting(leveraged, stack', os, saved')
  <2>1. stack'[Len(stack')] = f
    BY <1>1, <1>4, <1>7, AppendProperties DEF StackFits
  <2>. QED
    BY <1>7, <2>1 DEF Waiting, Awaits, Stubless
<1>. QED
  BY <1>1, <1>3, <1>5, <1>6, <1>9, <1>10 DEF IInv

\* An event of the browser's own.
LEMMA ArriveKeeps ==
  ASSUME IInv, NEW n \in Elements, Arrive(n)
  PROVE  IInv'
<1>. DEFINE end == IF leveraged THEN n ELSE Depth
            k == Len(objects) + 1
            f == Native(k, n, NextCall)
            os == Append(objects, EventObject(FALSE, 0))
<1>1. /\ stack = <<>> /\ n \in Bindable /\ active' = leveraged /\ late' = FALSE
      /\ objects' = os /\ stack' = <<f>>
      /\ begun(due(n, end))
      /\ UNCHANGED <<leveraged, changes, events, listening, triggered, saved>>
  BY DEF Arrive, bindings
<1>2. end \in 0..Depth /\ n \in Nat
  BY EventsAssumption DEF Elements
<1>3. history' \in Seq(Calls) /\ Len(history') = NextCall
  BY <1>1, <1>2, DueBound, Noted DEF IInv
<1>4. /\ ObjectsFit(objects) /\ SavedFits(saved, objects)
      /\ StackFits(leveraged, stack, objects, Len(history)) /\ leveraged \in BOOLEAN
      /\ Len(history) \in Nat /\ NextCall = Len(history) + 1
  BY LenProperties DEF IInv, NextCall
<1>. HIDE DEF end
<1>6. /\ ObjectsFit(os) /\ SavedFits(saved, os)
      /\ StackFits(leveraged, stack, os, Len(history))
      /\ Len(os) = k /\ k \in Nat /\ k >= 1
  <2>. DEFINE o == EventObject(FALSE, 0)
  <2>1. 0 \in Nat /\ FALSE \in BOOLEAN
    OBVIOUS
  <2>2. o \in EventObjects /\ o.native = 0 /\ ~o.isTrigger
    BY <2>1, ObjectBegins
  <2>. HIDE DEF k, o
  <2>3. /\ ObjectsFit(Append(objects, o)) /\ SavedFits(saved, Append(objects, o))
        /\ StackFits(leveraged, stack, Append(objects, o), Len(history))
        /\ Len(Append(objects, o)) = Len(objects) + 1
    BY <1>4, <2>2, AppendFits, LenProperties DEF ObjectsFit
  <2>4. Len(objects) \in Nat
    BY <1>4, LenProperties DEF ObjectsFit
  <2>5. os = Append(objects, o) /\ k = Len(objects) + 1
    BY DEF os, k, o
  <2>6. \A m \in Nat : m + 1 \in Nat /\ m + 1 >= 1
    OBVIOUS
  <2>. HIDE DEF o, os
  <2>. QED
    BY <2>3, <2>4, <2>5, <2>6
<1>. HIDE DEF os, k
<1>7. f \in Frames /\ f.kind = "native" /\ f.obj = k /\ f.node = n /\ f.at = n /\ f.call = NextCall
  <2>1. NextCall \in Nat
    BY <1>4
  <2>. QED
    BY <1>6, <2>1, FramesBegin DEF Native
<1>. HIDE DEF f
<1>8. Fits(leveraged, f, os)
  <2>1. leveraged => n = 1
    BY <1>1 DEF Bindable
  <2>2. k \in 1..Len(os) /\ NextCall >= 1 /\ n <= n
    BY <1>2, <1>4, <1>6
  <2>. QED
    BY <1>6, <1>7, <2>1, <2>2 DEF Fits, Root
<1>9. stack' = Append(stack, f)
  BY <1>1
<1>10. StackFits(leveraged, stack', os, NextCall)
  <2>1. Root(f) /\ f.call >= Len(history)
    BY <1>4, <1>7 DEF Root
  <2>. QED
    BY <1>1, <1>6, <1>7, <1>8, <1>9, <2>1, PushFits
<1>11. Waiting(leveraged, stack', os, saved)
  BY <1>1, <1>7 DEF Waiting, Awaits, Stubless
<1>. QED
  BY <1>1, <1>3, <1>4, <1>6, <1>10, <1>11 DEF IInv

\* The input loses the focus.
LEMMA BlurKeeps == ASSUME IInv, Blur PROVE IInv'
  BY DEF IInv, Blur, bindings

-----------------------------------------------------------------------------
(* The frame that runs goes on, or is done. *)

\* The next element of an event's way.
LEMMA FurtherFits ==
  ASSUME IInv, stack # <<>>, Root(Top), Top.at <= Depth
  PROVE  /\ StackFits(leveraged, Further, objects, Len(history)) /\ Further # <<>>
         /\ Stubless(Further[Len(Further)]) /\ Further[Len(Further)].kind = Top.kind
<1>1. /\ Top = stack[Len(stack)] /\ Top \in Frames /\ Fits(leveraged, Top, objects)
      /\ StackFits(leveraged, stack, objects, Len(history))
  BY OnTop DEF IInv
<1>. DEFINE f == [Top EXCEPT !.at = @ + 1]
<1>2. /\ f \in Frames /\ f.at = Top.at + 1 /\ f.kind = Top.kind /\ f.obj = Top.obj
      /\ f.node = Top.node /\ f.call = Top.call
  BY <1>1, RootSteps
<1>3. Further = [stack EXCEPT ![Len(stack)] = f]
  BY <1>1 DEF Further
<1>4. Top.at \in Nat /\ Top.node \in Nat
  BY <1>1, FrameFields, EventsAssumption DEF Elements
<1>. HIDE DEF f
<1>5. Root(f) /\ Fits(leveraged, f, objects) /\ Stubless(f)
  BY <1>1, <1>2, <1>4 DEF Root, Fits, Stubless
<1>6. /\ StackFits(leveraged, [stack EXCEPT ![Len(stack)] = f], objects, Len(history))
      /\ Len([stack EXCEPT ![Len(stack)] = f]) = Len(stack)
      /\ [stack EXCEPT ![Len(stack)] = f] # <<>>
      /\ [stack EXCEPT ![Len(stack)] = f][Len(stack)] = f
  BY <1>1, <1>2, <1>5, GoesOn
<1>. QED
  BY <1>2, <1>3, <1>5, <1>6

\* The next phase.
LEMMA PhaseFits ==
  ASSUME IInv, stack # <<>>, Root(Top), NEW p \in Phases
  PROVE  /\ StackFits(leveraged, InPhase(p), objects, Len(history)) /\ InPhase(p) # <<>>
         /\ Stubless(InPhase(p)[Len(InPhase(p))])
<1>1. /\ Top = stack[Len(stack)] /\ Top \in Frames /\ Fits(leveraged, Top, objects)
      /\ StackFits(leveraged, stack, objects, Len(history))
  BY OnTop DEF IInv
<1>. DEFINE f == [Top EXCEPT !.phase = p]
<1>2. /\ f \in Frames /\ f.at = Top.at /\ f.kind = Top.kind /\ f.obj = Top.obj
      /\ f.node = Top.node /\ f.call = Top.call
  BY <1>1, PhaseSteps
<1>3. InPhase(p) = [stack EXCEPT ![Len(stack)] = f]
  BY <1>1 DEF InPhase
<1>. HIDE DEF f
<1>5. Root(f) /\ Fits(leveraged, f, objects) /\ Stubless(f)
  BY <1>1, <1>2 DEF Root, Fits, Stubless
<1>6. /\ StackFits(leveraged, [stack EXCEPT ![Len(stack)] = f], objects, Len(history))
      /\ Len([stack EXCEPT ![Len(stack)] = f]) = Len(stack)
      /\ [stack EXCEPT ![Len(stack)] = f] # <<>>
      /\ [stack EXCEPT ![Len(stack)] = f][Len(stack)] = f
  BY <1>1, <1>2, <1>5, GoesOn
<1>. QED
  BY <1>3, <1>5, <1>6

\* The next of the queue.
LEMMA PassedFits ==
  ASSUME IInv, Running("dispatch"), Top.queue # <<>>
  PROVE  /\ StackFits(leveraged, Passed, objects, Len(history)) /\ Passed # <<>>
         /\ Stubless(Passed[Len(Passed)])
         /\ Next1 \in Queued /\ Top.node \in Elements /\ (leveraged => Top.node = 1)
         /\ Next1.h = Stub => ~Stubless(Top)
<1>1. /\ Top = stack[Len(stack)] /\ Top \in Frames /\ Fits(leveraged, Top, objects)
      /\ StackFits(leveraged, stack, objects, Len(history)) /\ stack # <<>> /\ Top.kind = "dispatch"
  BY OnTop DEF IInv, Running
<1>. DEFINE f == [Top EXCEPT !.queue = Tail(@), !.elem = Head(Top.queue).elem]
            q == Top.queue
<1>2. /\ f \in Frames /\ f.kind = "dispatch" /\ f.obj = Top.obj /\ f.node = Top.node
      /\ f.call = Top.call /\ f.queue = Tail(q)
      /\ Next1 \in Queued /\ Next1 = q[1]
      /\ Len(q) \in Nat /\ Len(q) >= 1 /\ Len(Tail(q)) = Len(q) - 1
      /\ \A i \in 1..Len(Tail(q)) : Tail(q)[i] = q[i + 1]
  BY <1>1, DispatchSteps DEF Next1
<1>3. Passed = [stack EXCEPT ![Len(stack)] = f]
  BY <1>1 DEF Passed, Next1
<1>. HIDE DEF f
<1>4. \A i \in 1..Len(f.queue) : f.queue[i].h # Stub
  <2>1. \A i \in 1..(Len(q) - 1) : i + 1 \in 2..Len(q)
    BY <1>2
  <2>. QED
    BY <1>1, <1>2, <2>1 DEF Fits
<1>5. ~Root(f) /\ ~Root(Top) /\ Stubless(f)
  BY <1>1, <1>2, <1>4 DEF Root, Stubless
<1>6. Fits(leveraged, f, objects)
  <2>1. \A j \in 2..Len(f.queue) : j \in 1..Len(f.queue)
    BY <1>2
  <2>. QED
    BY <1>1, <1>2, <1>4, <1>5, <2>1 DEF Fits
<1>7. /\ StackFits(leveraged, [stack EXCEPT ![Len(stack)] = f], objects, Len(history))
      /\ Len([stack EXCEPT ![Len(stack)] = f]) = Len(stack)
      /\ [stack EXCEPT ![Len(stack)] = f] # <<>>
      /\ [stack EXCEPT ![Len(stack)] = f][Len(stack)] = f
  BY <1>1, <1>2, <1>5, <1>6, GoesOn
<1>8. Next1.h = Stub => ~Stubless(Top)
  <2>1. 1 \in 1..Len(q)
    BY <1>2
  <2>. QED
    BY <1>1, <1>2, <2>1 DEF Stubless
<1>9. Top.node \in Elements /\ (leveraged => Top.node = 1)
  BY <1>1, FrameFields DEF Fits
<1>. QED
  BY <1>2, <1>3, <1>5, <1>7, <1>8, <1>9

\* A handler, a dispatch and a controller return to what is below.
LEMMA FrontFits ==
  ASSUME IInv, stack # <<>>, ~Root(Top)
  PROVE  /\ StackFits(leveraged, Front(stack), objects, Len(history)) /\ Front(stack) # <<>>
         /\ Stubless(Front(stack)[Len(Front(stack))])
<1>1. /\ Top = stack[Len(stack)] /\ Len(stack) > 1
      /\ StackFits(leveraged, stack, objects, Len(history))
  BY OnTop DEF IInv
<1>. QED
  BY <1>1, PopFits

\* Nothing runs.
LEMMA EmptyFits ==
  ASSUME NEW lev, NEW os, NEW sv
  PROVE  StackFits(lev, <<>>, os, 0) /\ Waiting(lev, <<>>, os, sv)
<1>1. <<>> \in Seq(Frames) /\ Len(<<>>) = 0 /\ 1..0 = {} /\ 2..0 = {} /\ 1..(0 - 1) = {}
  BY EmptySeq
<1>. QED
  BY <1>1 DEF StackFits, Linked, Waiting

\* What is on top waits for nothing unless it has a stub to call.
LEMMA StublessWaits ==
  ASSUME NEW lev, NEW stk, NEW os, NEW sv, stk # <<>> => Stubless(stk[Len(stk)])
  PROVE  Waiting(lev, stk, os, sv)
  BY DEF Waiting, Awaits

-----------------------------------------------------------------------------
(* What the elements and the browser do. *)

\* The browser's method.
LEMMA MethodKeeps ==
  ASSUME IInv, NEW stk, NEW n \in Elements, method(stk, objects, n),
         StackFits(leveraged, stk, objects, Len(history)), stk # <<>>, Stubless(stk[Len(stk)]),
         SavedFits(saved', objects), leveraged => n = 1, ThisCall \in 1..Len(history)
  PROVE  /\ ObjectsFit(objects') /\ SavedFits(saved', objects')
         /\ StackFits(leveraged, stack', objects', Len(history'))
         /\ Waiting(leveraged, stack', objects', saved')
         /\ history' \in Seq(Calls) /\ active' \in BOOLEAN /\ late' \in BOOLEAN
<1>1. leveraged \in BOOLEAN /\ active \in BOOLEAN /\ late \in BOOLEAN /\ ObjectsFit(objects)
      /\ history \in Seq(Calls) /\ ThisCall = Len(history) /\ Len(history) \in Nat
  BY LenProperties DEF IInv, ThisCall
<1>2. CASE /\ active' = leveraged /\ late' = FALSE
           /\ objects' = Append(objects, EventObject(FALSE, 0))
           /\ stack' = Append(stk, Native(Len(objects) + 1, n, ThisCall)) /\ UNCHANGED history
  <2>. DEFINE o == EventObject(FALSE, 0)
              k == Len(objects) + 1
              f == Native(k, n, ThisCall)
  <2>1. 0 \in Nat /\ FALSE \in BOOLEAN /\ Len(objects) \in Nat
    BY <1>1, LenProperties DEF ObjectsFit
  <2>2. o \in EventObjects /\ o.native = 0 /\ ~o.isTrigger
    BY <2>1, ObjectBegins
  <2>. HIDE DEF o
  <2>3. /\ ObjectsFit(Append(objects, o)) /\ SavedFits(saved', Append(objects, o))
        /\ StackFits(leveraged, stk, Append(objects, o), Len(history))
        /\ Len(Append(objects, o)) = Len(objects) + 1
    BY <1>1, <2>1, <2>2, AppendFits
  <2>4. /\ ObjectsFit(objects') /\ SavedFits(saved', objects')
        /\ StackFits(leveraged, stk, objects', Len(history))
        /\ Len(objects') = k
    BY <1>2, <2>3 DEF o
  <2>5. k \in Nat /\ k >= 1
    BY <2>1
  <2>. HIDE DEF k
  <2>6. f \in Frames /\ f.kind = "native" /\ f.obj = k /\ f.node = n /\ f.at = n /\ f.call = ThisCall
    BY <1>1, <2>5, FramesBegin DEF Native
  <2>7. stack' = Append(stk, f)
    BY <1>2 DEF k
  <2>. HIDE DEF f
  <2>8. Root(f) /\ f.call >= Len(history) /\ Stubless(f)
    BY <1>1, <2>6 DEF Root, Stubless
  <2>9. Fits(leveraged, f, objects')
    <3>1. k \in 1..Len(objects') /\ n <= n /\ ThisCall >= 1
      BY <1>1, <2>4, <2>5 DEF Elements
    <3>. QED
      BY <2>6, <3>1 DEF Fits, Root
  <2>10. StackFits(leveraged, stack', objects', ThisCall)
    BY <2>4, <2>6, <2>7, <2>8, <2>9, PushFits
  <2>11. stk \in Seq(Frames) /\ stack'[Len(stack')] = f
    BY <2>6, <2>7, AppendProperties DEF StackFits
  <2>12. Waiting(leveraged, stack', objects', saved')
    BY <2>8, <2>11, StublessWaits
  <2>. QED
    BY <1>1, <1>2, <2>4, <2>10, <2>12
<1>3. CASE stack' = stk /\ objects' = objects /\ UNCHANGED <<active, late, history>>
  BY <1>1, <1>3, StublessWaits
<1>4. CASE /\ active' \in BOOLEAN /\ late' = active'
           /\ stack' = stk /\ objects' = objects /\ excused
  <2>1. history' \in Seq(Calls) /\ Len(history') = Len(history)
    BY <1>1, <1>4, Noted
  <2>. QED
    BY <1>1, <1>4, <2>1, StublessWaits
<1>. QED
  BY <1>2, <1>3, <1>4 DEF method

\* The handle of an element.
LEMMA HandleKeeps ==
  ASSUME IInv, stack # <<>>, Root(Top), ~atEnd, Top.at <= Depth, NEW os, NEW k \in 1..Len(os),
         handle(Further, os, Top.at, k),
         StackFits(leveraged, Further, os, Len(history)), ObjectsFit(os), SavedFits(saved, os),
         leveraged /\ saved.is = "args" /\ ~os[k].isTrigger => saved.obj < k
  PROVE  /\ ObjectsFit(objects') /\ SavedFits(saved, objects')
         /\ StackFits(leveraged, stack', objects', Len(history))
         /\ Waiting(leveraged, stack', objects', saved)
<1>. DEFINE n == Top.at
            t == Top.node
            q == handlers(n, t)
            f == Dispatch(k, n, ThisCall, q)
<1>1. /\ Top \in Frames /\ Fits(leveraged, Top, objects) /\ ThisCall \in 1..Len(history)
      /\ ThisCall \in Nat /\ ThisCall = Len(history)
  BY OnTop DEF ThisCall
<1>2. n \in 1..(Depth + 1) /\ t \in Elements /\ t <= n /\ (leveraged => t = 1)
  BY <1>1, FrameFields DEF Fits
<1>3. n \in Elements /\ t \in 1..n
  BY <1>2, EventsAssumption DEF Elements
<1>4. leveraged => n = 1
  <2>. SUFFICES ASSUME leveraged PROVE n = 1
    OBVIOUS
  <2>1. End(Top) = t /\ ~(n > End(Top))
    BY DEF End, atEnd
  <2>. QED
    BY <1>2, <1>3, <2>1 DEF Elements
<1>5. Further # <<>> /\ Stubless(Further[Len(Further)])
      /\ StackFits(leveraged, Further, objects, Len(history))
  BY FurtherFits
<1>6. CASE triggered
  <2>1. stack' = Further /\ objects' = objects
    BY <1>6 DEF handle
  <2>. QED
    BY <1>5, <2>1, StublessWaits DEF IInv
<1>7. CASE ~triggered
  <2>1. stack' = Append(Further, f) /\ objects' = os
    BY <1>7 DEF handle, handle_again
  <2>2. ListFits(leveraged, events[n]) /\ events[n] \in Lists /\ Sorted(events[n])
        /\ StubFirst(events[n])
    BY <1>3 DEF IInv, ListsFit, ListFits
  <2>3. Queue(q, events[n], n, t)
    BY <1>3, <2>2, HandlersQueue
  <2>. HIDE DEF q
  <2>4. q \in Seq(Queued) /\ (\A j \in 1..Len(q) : q[j].h = Stub => j = 1)
        /\ \A j \in 1..Len(q) : \E i \in 1..Len(events[n].list) : q[j].h = events[n].list[i]
    BY <2>2, <2>3 DEF Queue
  <2>5. ~leveraged => \A j \in 1..Len(q) : q[j].h # Stub
    BY <2>2, <2>4 DEF ListFits
  <2>6. k \in Nat
    BY LenProperties DEF ObjectsFit
  <2>7. f \in Frames /\ f.kind = "dispatch" /\ f.obj = k /\ f.node = n /\ f.queue = q
        /\ f.call = ThisCall
    BY <1>1, <1>3, <2>4, <2>6, FramesBegin DEF Dispatch
  <2>. HIDE DEF f
  <2>8. ~Root(f)
    BY <2>7 DEF Root
  <2>9. Fits(leveraged, f, os)
    <3>1. \A j \in 2..Len(q) : q[j].h # Stub
      <4>1. \A j \in 2..Len(q) : j \in 1..Len(q) /\ j # 1
        BY <2>4, LenProperties
      <4>. QED
        BY <2>4, <4>1
    <3>2. ThisCall >= 1
      BY <1>1
    <3>. QED
      BY <1>4, <2>7, <2>8, <3>1, <3>2 DEF Fits
  <2>10. StackFits(leveraged, Append(Further, f), os, ThisCall)
    BY <1>1, <1>5, <2>7, <2>8, <2>9, PushFits
  <2>11. Further \in Seq(Frames) /\ stack'[Len(stack')] = f
    BY <1>5, <2>1, <2>7, AppendProperties DEF StackFits
  <2>12. Awaits(leveraged, f, os, saved)
    <3>1. ~Stubless(f) => leveraged
      BY <2>5, <2>7 DEF Stubless, IInv
    <3>. QED
      BY <2>7, <3>1 DEF Awaits
  <2>. QED
    BY <1>1, <2>1, <2>10, <2>11, <2>12 DEF Waiting
<1>. QED
  BY <1>6, <1>7

-----------------------------------------------------------------------------
(* What the steps of an event do. *)

\* An event that is not at the end of its way is at an element.
LEMMA OnTheWay ==
  ASSUME IInv, stack # <<>>, Root(Top), ~atEnd
  PROVE  Top.at <= Depth /\ Top.at \in Elements
<1>1. Top \in Frames
  BY OnTop
<1>2. Top.at \in 1..(Depth + 1) /\ Top.node \in Elements
  BY <1>1, FrameFields
<1>3. Top.at <= End(Top) /\ End(Top) \in {Top.node, Depth}
  BY <1>2, EventsAssumption DEF atEnd, End, Elements
<1>. QED
  BY <1>2, <1>3, EventsAssumption DEF Elements

\* The steps that change no more than the stack and the objects.
LEMMA OnlyStack ==
  ASSUME IInv, UNCHANGED <<leveraged, changes, events, listening, triggered, saved, active, late, history>>,
         ObjectsFit(objects'), SavedFits(saved, objects'),
         StackFits(leveraged, stack', objects', Len(history)),
         Waiting(leveraged, stack', objects', saved)
  PROVE  IInv'
  BY DEF IInv

\* visit.
LEMMA VisitKeeps == ASSUME IInv, visit PROVE IInv'
<1>1. /\ stack # <<>> /\ Root(Top) /\ Top.kind = "trigger" /\ ~atEnd
      /\ UNCHANGED <<leveraged, changes, events, listening, triggered, saved, active, late, history>>
  BY DEF visit, Phase, Running, Root, bindings, focus
<1>2. Top.at <= Depth /\ Top.at \in Elements
  BY <1>1, OnTheWay
<1>3. /\ Fits(leveraged, Top, objects) /\ Awaits(leveraged, Top, objects, saved)
      /\ Top.obj \in 1..Len(objects)
  BY <1>1, OnTop
<1>4. /\ StackFits(leveraged, Further, objects, Len(history)) /\ Further # <<>>
      /\ Stubless(Further[Len(Further)])
  BY <1>1, <1>2, FurtherFits
<1>5. CASE events[Top.at].list # <<>>
  <2>1. handle(Further, objects, Top.at, Top.obj)
    BY <1>5 DEF visit
  <2>2. leveraged => objects[Top.obj].isTrigger
    BY <1>1, <1>3 DEF Fits
  <2>. QED
    BY <1>1, <1>2, <1>3, <1>4, <2>1, <2>2, HandleKeeps, OnlyStack DEF IInv
<1>6. CASE events[Top.at].list = <<>>
  <2>1. stack' = Further /\ objects' = objects
    BY <1>6 DEF visit
  <2>2. Waiting(leveraged, stack', objects', saved)
    BY <1>4, <2>1, StublessWaits
  <2>. QED
    BY <1>1, <1>4, <2>1, <2>2, OnlyStack DEF IInv
<1>. QED
  BY <1>5, <1>6

\* listener.
LEMMA ListenerKeeps == ASSUME IInv, listener PROVE IInv'
<1>1. /\ stack # <<>> /\ Root(Top) /\ Top.kind = "native" /\ ~atEnd
      /\ UNCHANGED <<leveraged, changes, events, listening, triggered, saved, active, late, history>>
  BY DEF listener, Phase, Running, Root, bindings, focus
<1>2. Top.at <= Depth /\ Top.at \in Elements
  BY <1>1, OnTheWay
<1>3. /\ Top.obj \in 1..Len(objects) /\ Top.obj \in Nat /\ Len(objects) \in Nat
  BY <1>1, OnTop
<1>4. /\ StackFits(leveraged, Further, objects, Len(history)) /\ Further # <<>>
      /\ Stubless(Further[Len(Further)])
  BY <1>1, <1>2, FurtherFits
<1>5. CASE Top.at \in listening
  <2>. DEFINE o == EventObject(FALSE, Top.obj)
              os == Append(objects, o)
              k == Len(objects) + 1
  <2>1. handle(Further, os, Top.at, k)
    BY <1>5 DEF listener
  <2>2. o \in EventObjects /\ o.native = Top.obj /\ ~o.isTrigger
    BY <1>3, ObjectBegins
  <2>. HIDE DEF o
  <2>3. /\ ObjectsFit(os) /\ SavedFits(saved, os) /\ StackFits(leveraged, Further, os, Len(history))
        /\ Len(os) = k
    <3>1. ObjectsFit(objects) /\ SavedFits(saved, objects) /\ o.native <= Len(objects)
      BY <1>3, <2>2 DEF IInv
    <3>. QED
      BY <1>4, <2>2, <3>1, AppendFits
  <2>4. k \in 1..Len(os) /\ (saved.is = "args" => saved.obj < k)
    <3>1. saved.is = "args" => saved.obj \in 1..Len(objects)
      BY DEF IInv, SavedFits
    <3>2. k \in 1..k /\ \A i \in 1..Len(objects) : i < k
      BY <1>3
    <3>. QED
      BY <2>3, <3>1, <3>2
  <2>. HIDE DEF os, k
  <2>5. /\ ObjectsFit(objects') /\ SavedFits(saved, objects')
        /\ StackFits(leveraged, stack', objects', Len(history))
        /\ Waiting(leveraged, stack', objects', saved)
    BY <1>1, <1>2, <2>1, <2>3, <2>4, HandleKeeps
  <2>. QED
    BY <1>1, <2>5, OnlyStack
<1>6. CASE Top.at \notin listening
  <2>1. stack' = Further /\ objects' = objects
    BY <1>6 DEF listener
  <2>2. Waiting(leveraged, stack', objects', saved)
    BY <1>4, <2>1, StublessWaits
  <2>. QED
    BY <1>1, <1>4, <2>1, <2>2, OnlyStack DEF IInv
<1>. QED
  BY <1>5, <1>6

\* pathEnd.
LEMMA PathEndKeeps == ASSUME IInv, pathEnd PROVE IInv'
<1>1. PICK p \in Phases : stack' = InPhase(p)
  BY DEF pathEnd, Phases
<1>2. /\ stack # <<>> /\ Root(Top) /\ objects' = objects
      /\ UNCHANGED <<leveraged, changes, events, listening, triggered, saved, active, late, history>>
  BY DEF pathEnd, Phase, Running, Root, bindings, focus
<1>3. /\ StackFits(leveraged, InPhase(p), objects, Len(history)) /\ InPhase(p) # <<>>
      /\ Stubless(InPhase(p)[Len(InPhase(p))])
  BY <1>2, PhaseFits
<1>4. Waiting(leveraged, stack', objects', saved)
  BY <1>1, <1>3, StublessWaits
<1>. QED
  BY <1>1, <1>2, <1>3, <1>4, OnlyStack DEF IInv

\* tail.
LEMMA TailKeeps == ASSUME IInv, tail PROVE IInv'
<1>1. /\ stack # <<>> /\ Root(Top) /\ Top.kind = "trigger"
      /\ UNCHANGED <<leveraged, changes, events, listening, saved>>
  BY DEF tail, Phase, Running, Root, bindings
<1>2. \A p \in Phases : /\ StackFits(leveraged, InPhase(p), objects, Len(history)) /\ InPhase(p) # <<>>
                        /\ Stubless(InPhase(p)[Len(InPhase(p))])
  BY <1>1, PhaseFits
<1>3. CASE stack' = InPhase("over") /\ UNCHANGED <<triggered, active, late, objects, history>>
  <2>1. "over" \in Phases
    BY DEF Phases
  <2>2. Waiting(leveraged, stack', objects', saved)
    BY <1>2, <1>3, <2>1, StublessWaits
  <2>. QED
    BY <1>1, <1>2, <1>3, <2>1, <2>2, OnlyStack DEF IInv
<1>4. CASE triggered' = TRUE /\ method(InPhase("method"), objects, Top.node)
  <2>1. "method" \in Phases
    BY DEF Phases
  <2>2. Top.node \in Elements /\ (leveraged => Top.node = 1) /\ ThisCall \in 1..Len(history)
    BY <1>1, OnTop, FrameFields DEF Fits
  <2>3. SavedFits(saved', objects)
    BY <1>1 DEF IInv
  <2>4. /\ ObjectsFit(objects') /\ SavedFits(saved', objects')
        /\ StackFits(leveraged, stack', objects', Len(history'))
        /\ Waiting(leveraged, stack', objects', saved')
        /\ history' \in Seq(Calls) /\ active' \in BOOLEAN /\ late' \in BOOLEAN
    BY <1>2, <1>4, <2>1, <2>2, <2>3, MethodKeeps
  <2>. QED
    BY <1>1, <1>4, <2>4 DEF IInv
<1>. QED
  BY <1>3, <1>4 DEF tail

\* tailEnd.
LEMMA TailEndKeeps == ASSUME IInv, tailEnd PROVE IInv'
<1>1. /\ stack # <<>> /\ Root(Top) /\ objects' = objects /\ stack' = InPhase("over")
      /\ triggered' = FALSE
      /\ UNCHANGED <<leveraged, changes, events, listening, saved, active, late, history>>
  BY DEF tailEnd, Phase, Running, Root, bindings, focus
<1>2. "over" \in Phases
  BY DEF Phases
<1>3. /\ StackFits(leveraged, stack', objects, Len(history)) /\ stack' # <<>>
      /\ Stubless(stack'[Len(stack')])
  BY <1>1, <1>2, PhaseFits
<1>4. Waiting(leveraged, stack', objects', saved)
  BY <1>3, StublessWaits
<1>. QED
  BY <1>1, <1>3, <1>4 DEF IInv

\* over.
LEMMA OverKeeps == ASSUME IInv, over PROVE IInv'
<1>1. /\ stack # <<>> /\ Root(Top)
      /\ UNCHANGED <<leveraged, triggered, events, listening, active, late>>
  BY DEF over, Phase, Running, Root, bindings
<1>2. /\ StackFits(leveraged, stack, objects, Len(history)) /\ ObjectsFit(objects)
      /\ SavedFits(saved, objects) /\ history \in Seq(Calls) /\ Len(history) \in Nat
      /\ changes \in 0..MaxChanges
  BY LenProperties DEF IInv
<1>3. CASE /\ Len(stack) > 1 /\ popped /\ UNCHANGED <<saved, changes>>
           /\ history' = SubSeq(history, 1, stack[Len(stack) - 1].call)
  <2>. DEFINE s == Front(stack)
              c == stack[Len(stack) - 1].call
  <2>1. /\ StackFits(leveraged, s, objects, c) /\ c \in Nat /\ c <= Len(history)
        /\ s # <<>> /\ Stubless(s[Len(s)])
    BY <1>2, <1>3, PopFits
  <2>2. stack' = s /\ objects' = Kept(objects, s) /\ history' = SubSeq(history, 1, c)
    BY <1>3 DEF popped
  <2>. HIDE DEF s, c
  <2>3. ObjectsFit(objects') /\ SavedFits(saved, objects') /\ StackFits(leveraged, s, objects', c)
    BY <1>2, <2>1, <2>2, KeptFits
  <2>4. history' \in Seq(Calls) /\ Len(history') = c
    <3>1. 1 \in Int /\ c \in Int /\ \A i \in 1..c : history[i] \in Calls
      <4>1. 1..c \subseteq 1..Len(history)
        BY <1>2, <2>1
      <4>. QED
        BY <1>2, <2>1, <4>1, ElementOfSeq
    <3>2. history' \in Seq(Calls) /\ Len(history') = IF 1 <= c THEN c - 1 + 1 ELSE 0
      BY <2>2, <3>1, SubSeqProperties
    <3>3. c - 1 + 1 = c /\ (~(1 <= c) => c = 0)
      BY <2>1
    <3>. QED
      BY <3>2, <3>3
  <2>5. Waiting(leveraged, stack', objects', saved')
    BY <2>1, <2>2, StublessWaits
  <2>. QED
    BY <1>1, <1>2, <1>3, <2>2, <2>3, <2>4, <2>5 DEF IInv
<1>4. CASE /\ stack' = <<>> /\ history' = <<>> /\ changes' = 0
           /\ IF saved.is = "args"
              THEN objects' = <<objects[saved.obj]>> /\ saved' = [saved EXCEPT !.obj = 1]
              ELSE objects' = <<>> /\ UNCHANGED saved
  <2>1. history' \in Seq(Calls) /\ Len(history') = 0 /\ changes' \in 0..MaxChanges
    BY <1>4, EmptySeq, EventsAssumption
  <2>2. StackFits(leveraged, stack', objects', 0) /\ Waiting(leveraged, stack', objects', saved')
    BY <1>4, EmptyFits
  <2>3. ObjectsFit(objects') /\ SavedFits(saved', objects')
    <3>1. CASE saved.is = "args"
      <4>. DEFINE o == objects[saved.obj]
      <4>1. saved.obj \in 1..Len(objects) /\ o.native = 0
            /\ saved \in [is : {"unset", "no", "args", "value"}, obj : Nat, result : Results]
        BY <1>2, <3>1 DEF SavedFits
      <4>2. o \in EventObjects
        BY <1>2, <4>1, ElementOfSeq DEF ObjectsFit
      <4>3. objects' = <<o>> /\ saved' = [saved EXCEPT !.obj = 1]
        BY <1>4, <3>1
      <4>. HIDE DEF o
      <4>4. objects' \in Seq(EventObjects) /\ Len(objects') = 1 /\ objects'[1] = o
        BY <4>2, <4>3
      <4>5. \A i \in 1..1 : i = 1 /\ 0 < i
        OBVIOUS
      <4>6. ObjectsFit(objects')
        BY <4>1, <4>4, <4>5 DEF ObjectsFit
      <4>7. saved' \in [is : {"unset", "no", "args", "value"}, obj : Nat, result : Results]
            /\ saved'.is = "args" /\ saved'.obj = 1
        BY <3>1, <4>1, <4>3
      <4>8. 1 \in 1..1
        OBVIOUS
      <4>. QED
        BY <4>1, <4>4, <4>6, <4>7, <4>8 DEF SavedFits
    <3>2. CASE saved.is # "args"
      <4>1. objects' = <<>> /\ saved' = saved
        BY <1>4, <3>2
      <4>2. Len(<<>>) = 0 /\ <<>> \in Seq(EventObjects) /\ 1..0 = {}
        BY EmptySeq
      <4>3. ObjectsFit(objects')
        BY <4>1, <4>2 DEF ObjectsFit
      <4>4. SavedFits(saved', objects')
        BY <1>2, <3>2, <4>1 DEF SavedFits
      <4>. QED
        BY <4>3, <4>4
    <3>. QED
      BY <3>1, <3>2
  <2>. QED
    BY <1>1, <1>4, <2>1, <2>2, <2>3 DEF IInv
<1>. QED
  BY <1>3, <1>4 DEF over

-----------------------------------------------------------------------------
(* What the handlers do to their event. *)

\* The handlers that are called, by what they are bound with.
LEMMA Called ==
  ASSUME IInv, NEW fns, Calling(fns)
  PROVE  /\ Running("dispatch") /\ Top.queue # <<>> /\ stack # <<>> /\ ~Root(Top)
         /\ Next1.h.fn \in fns
  BY DEF Calling, goesOn, Running, Root

\* call.
LEMMA CallKeeps == ASSUME IInv, call PROVE IInv'
<1>1. /\ Calling(Fns) /\ stack' = Append(Passed, Handler(Top.obj, ThisCall))
      /\ logged([id |-> Next1.h.id, node |-> Top.node, elem |-> Next1.elem, stops |-> "no"])
      /\ UNCHANGED <<leveraged, changes, triggered, saved, active, late, objects>>
  BY DEF call, focus
<1>2. Running("dispatch") /\ Top.queue # <<>> /\ stack # <<>> /\ Next1.h.fn \in Fns
  BY <1>1, Called
<1>3. /\ StackFits(leveraged, Passed, objects, Len(history)) /\ Passed # <<>>
      /\ Stubless(Passed[Len(Passed)]) /\ Next1 \in Queued /\ Top.node \in Elements
  BY <1>2, PassedFits
<1>4. /\ Top.obj \in 1..Len(objects) /\ Top.obj \in Nat /\ ThisCall \in 1..Len(history)
      /\ ThisCall \in Nat /\ ThisCall = Len(history)
  BY <1>2, OnTop DEF ThisCall
<1>5. Next1.h \in Handlers /\ Next1.elem \in Elements
  <2>1. Next1.h \in Handlers \union {Stub, ReturnTrue} /\ Next1.elem \in Elements
    BY <1>3 DEF Queued
  <2>2. Stub.fn \notin Fns /\ ReturnTrue.fn \notin Fns
    BY EventsAssumption DEF Stub, ReturnTrue
  <2>. QED
    BY <1>2, <2>1, <2>2
<1>6. history' \in Seq(Calls) /\ Len(history') = Len(history)
  <2>. DEFINE e == [id |-> Next1.h.id, node |-> Top.node, elem |-> Next1.elem, stops |-> "no"]
  <2>1. e \in Entries
    BY <1>3, <1>5 DEF Handlers, Entries
  <2>2. logged(e) /\ history \in Seq(Calls)
    BY <1>1 DEF IInv
  <2>. HIDE DEF e
  <2>. QED
    BY <1>4, <2>1, <2>2, Noted
<1>7. ListsFit(leveraged, events', listening')
  <2>1. CASE UNCHANGED <<events, listening>>
    BY <1>1, <2>1 DEF IInv
  <2>2. CASE \E gone : remove(Top.node, gone)
    BY <1>1, <1>3, <2>2, RemoveKeeps DEF IInv
  <2>. QED
    BY <2>1, <2>2 DEF call, bindings
<1>. DEFINE f == Handler(Top.obj, ThisCall)
<1>8. f \in Frames /\ f.kind = "handler" /\ f.obj = Top.obj /\ f.call = ThisCall
  BY <1>3, <1>4, FramesBegin DEF Handler
<1>9. stack' = Append(Passed, f)
  BY <1>1
<1>. HIDE DEF f
<1>10. ~Root(f) /\ Stubless(f) /\ Fits(leveraged, f, objects)
  BY <1>4, <1>8 DEF Root, Stubless, Fits
<1>11. StackFits(leveraged, stack', objects, ThisCall)
  BY <1>3, <1>4, <1>8, <1>9, <1>10, PushFits
<1>12. Waiting(leveraged, stack', objects', saved')
  <2>1. Passed \in Seq(Frames) /\ stack'[Len(stack')] = f
    BY <1>3, <1>8, <1>9, AppendProperties DEF StackFits
  <2>. QED
    BY <1>10, <2>1, StublessWaits
<1>. QED
  BY <1>1, <1>4, <1>6, <1>7, <1>11, <1>12 DEF IInv

\* The steps that leave the bindings and the number of calls.
LEMMA OnlyCalls ==
  ASSUME IInv, UNCHANGED <<leveraged, changes, events, listening, triggered, active, late>>,
         history' \in Seq(Calls), Len(history') = Len(history), SavedFits(saved', objects),
         Alike(objects, objects'), StackFits(leveraged, stack', objects, Len(history)),
         stack' # <<>> => Stubless(stack'[Len(stack')])
  PROVE  IInv'
<1>1. /\ ObjectsFit(objects') /\ SavedFits(saved', objects')
      /\ StackFits(leveraged, stack', objects', Len(history))
  BY AlikeFits DEF IInv
<1>2. Waiting(leveraged, stack', objects', saved')
  BY StublessWaits
<1>. QED
  BY <1>1, <1>2 DEF IInv

\* stop.
LEMMA StopKeeps == ASSUME IInv, NEW how \in {"stop", "now"}, stop(how) PROVE IInv'
<1>1. /\ Running("handler") /\ stack # <<>> /\ stops(how) /\ stack' = stack
      /\ UNCHANGED <<leveraged, changes, events, listening, triggered, saved, active, late>>
  BY DEF stop, Running, bindings, focus
<1>2. /\ Top.obj \in Nat /\ ThisCall \in 1..Len(history) /\ Top = stack[Len(stack)]
      /\ objects \in Seq(EventObjects) /\ history \in Seq(Calls) /\ SavedFits(saved, objects)
      /\ StackFits(leveraged, stack, objects, Len(history))
  BY <1>1, OnTop DEF IInv, ObjectsFit
<1>3. history' \in Seq(Calls) /\ Len(history') = Len(history)
  BY <1>1, <1>2, Noted
<1>4. Alike(objects, objects')
  <2>1. "none" \in Results
    BY DEF Results
  <2>2. Alike(objects, stopImmediatePropagation(objects, Top.obj))
        /\ Alike(objects, stopPropagation(objects, Top.obj))
    BY <1>2, <2>1, AnsweredAlike, HappensAlike
  <2>. QED
    BY <2>2 DEF stop
<1>5. Stubless(stack'[Len(stack')])
  BY <1>1, <1>2 DEF Running, Stubless
<1>. QED
  BY <1>1, <1>2, <1>3, <1>4, <1>5, OnlyCalls

\* return.
LEMMA ReturnKeeps == ASSUME IInv, NEW result \in {"none", "false"}, return(result) PROVE IInv'
<1>1. /\ Running("handler") /\ stack # <<>> /\ ~Root(Top) /\ stack' = Front(stack)
      /\ objects' = answered(objects, Top.obj, result)
      /\ UNCHANGED <<leveraged, changes, events, listening, triggered, saved, active, late>>
  BY DEF return, Running, Root, bindings, focus
<1>2. /\ Top.obj \in Nat /\ ThisCall \in 1..Len(history)
      /\ objects \in Seq(EventObjects) /\ history \in Seq(Calls) /\ SavedFits(saved, objects)
  BY <1>1, OnTop DEF IInv, ObjectsFit
<1>3. history' \in Seq(Calls) /\ Len(history') = Len(history)
  <2>1. CASE stops("stop")
    BY <1>2, <2>1, Noted
  <2>2. CASE UNCHANGED history
    BY <1>2, <2>2
  <2>. QED
    BY <2>1, <2>2 DEF return
<1>4. Alike(objects, objects')
  <2>1. result \in Results
    BY DEF Results
  <2>. QED
    BY <1>1, <1>2, <2>1, AnsweredAlike
<1>5. /\ StackFits(leveraged, stack', objects, Len(history))
      /\ Stubless(stack'[Len(stack')])
  BY <1>1, FrontFits
<1>. QED
  BY <1>1, <1>2, <1>3, <1>4, <1>5, OnlyCalls

\* returnTrue.
LEMMA ReturnTrueKeeps == ASSUME IInv, returnTrue PROVE IInv'
<1>1. /\ Calling({"true"}) /\ stack' = Passed /\ objects' = answered(objects, Top.obj, "true")
      /\ UNCHANGED <<leveraged, changes, events, listening, triggered, saved, active, late, history>>
  BY DEF returnTrue, bindings, focus
<1>2. Running("dispatch") /\ Top.queue # <<>> /\ stack # <<>>
  BY <1>1, Called
<1>3. /\ Top.obj \in Nat /\ objects \in Seq(EventObjects) /\ history \in Seq(Calls)
      /\ SavedFits(saved, objects)
  BY <1>2, OnTop DEF IInv, ObjectsFit
<1>4. Alike(objects, objects')
  <2>1. "true" \in Results
    BY DEF Results
  <2>. QED
    BY <1>1, <1>3, <2>1, AnsweredAlike
<1>5. StackFits(leveraged, stack', objects, Len(history)) /\ Stubless(stack'[Len(stack')])
  BY <1>1, <1>2, PassedFits
<1>. QED
  BY <1>1, <1>3, <1>4, <1>5, OnlyCalls

\* dispatched.
LEMMA DispatchedKeeps == ASSUME IInv, dispatched PROVE IInv'
<1>1. /\ stack # <<>> /\ ~Root(Top) /\ stack' = Front(stack) /\ objects' = Kept(objects, Front(stack))
      /\ UNCHANGED <<leveraged, changes, events, listening, triggered, saved, active, late, history>>
  BY DEF dispatched, Running, Root, popped, bindings, focus
<1>. DEFINE s == Front(stack)
<1>2. /\ StackFits(leveraged, s, objects, Len(history)) /\ s # <<>> /\ Stubless(s[Len(s)])
  BY <1>1, FrontFits
<1>. HIDE DEF s
<1>3. stack' = s /\ objects' = Kept(objects, s)
  BY <1>1 DEF s
<1>4. /\ ObjectsFit(objects') /\ SavedFits(saved, objects')
      /\ StackFits(leveraged, s, objects', Len(history))
  BY <1>2, <1>3, KeptFits DEF IInv
<1>5. Waiting(leveraged, stack', objects', saved)
  BY <1>2, <1>3, StublessWaits
<1>. QED
  BY <1>1, <1>3, <1>4, <1>5, OnlyStack

-----------------------------------------------------------------------------
(* What the stub does. *)

\* Where the stub is called, for a focus.
LEMMA StubCalled ==
  ASSUME IInv, Calling({"stub"})
  PROVE  /\ Running("dispatch") /\ Top.queue # <<>> /\ stack # <<>> /\ ~Root(Top)
         /\ Next1.h = Stub /\ ~Stubless(Top) /\ leveraged
         /\ saved.is = "args" /\ ~objects[Top.obj].isTrigger => saved.obj < Top.obj
<1>1. /\ Running("dispatch") /\ Top.queue # <<>> /\ stack # <<>> /\ ~Root(Top)
      /\ Next1.h.fn = "stub"
  BY Called
<1>2. Next1.h = Stub
  <2>1. Next1.h \in Handlers \union {Stub, ReturnTrue}
    BY <1>1, PassedFits DEF Queued
  <2>2. \A h \in Handlers : h.fn # "stub"
    BY EventsAssumption DEF Handlers
  <2>3. ReturnTrue.fn # "stub"
    BY DEF ReturnTrue
  <2>. QED
    BY <1>1, <2>1, <2>2, <2>3
<1>3. ~Stubless(Top)
  BY <1>1, <1>2, PassedFits
<1>4. Awaits(leveraged, Top, objects, saved)
  BY <1>1, OnTop
<1>. QED
  BY <1>1, <1>2, <1>3, <1>4 DEF Awaits

\* stubTriggered.
LEMMA StubTriggeredKeeps == ASSUME IInv, stubTriggered PROVE IInv'
<1>. DEFINE f == Controller(Top.obj, "method", active, ThisCall)
            stk == Append(Passed, f)
<1>1. /\ Calling({"stub"}) /\ objects[Top.obj].isTrigger /\ saved' = Saved("args", Top.obj, "none")
      /\ method(stk, objects, Top.node)
      /\ UNCHANGED <<leveraged, changes, events, listening, triggered>>
  BY DEF stubTriggered, bindings
<1>2. Running("dispatch") /\ Top.queue # <<>> /\ stack # <<>>
  BY <1>1, StubCalled
<1>3. /\ StackFits(leveraged, Passed, objects, Len(history)) /\ Passed # <<>>
      /\ Stubless(Passed[Len(Passed)]) /\ Top.node \in Elements /\ (leveraged => Top.node = 1)
  BY <1>2, PassedFits
<1>4. /\ Top.obj \in 1..Len(objects) /\ Top.obj \in Nat /\ ThisCall \in 1..Len(history)
      /\ ThisCall \in Nat /\ ThisCall = Len(history)
  BY <1>2, OnTop DEF ThisCall
<1>5. f \in Frames /\ f.kind = "controller" /\ f.phase = "method" /\ f.obj = Top.obj /\ f.call = ThisCall
  <2>1. saved.obj \in Nat /\ active \in BOOLEAN
    BY DEF IInv, SavedFits
  <2>. QED
    BY <1>3, <1>4, <2>1, FramesBegin DEF Controller
<1>. HIDE DEF f
<1>6. ~Root(f) /\ Stubless(f) /\ Fits(leveraged, f, objects)
  BY <1>4, <1>5 DEF Root, Stubless, Fits
<1>7. StackFits(leveraged, stk, objects, Len(history))
  BY <1>3, <1>4, <1>5, <1>6, PushFits
<1>8. stk # <<>> /\ Stubless(stk[Len(stk)])
  <2>1. Passed \in Seq(Frames)
    BY <1>3 DEF StackFits
  <2>2. stk \in Seq(Frames) /\ Len(stk) = Len(Passed) + 1 /\ stk[Len(stk)] = f
    BY <1>5, <2>1, AppendProperties
  <2>. QED
    BY <1>6, <2>1, <2>2, AppendProperties
<1>. HIDE DEF stk
<1>9. SavedFits(saved', objects)
  <2>1. objects[Top.obj].native = 0
    BY <1>1, <1>4 DEF IInv, ObjectsFit
  <2>. QED
    BY <1>1, <1>4, <2>1 DEF SavedFits, Saved, Results
<1>10. /\ ObjectsFit(objects') /\ SavedFits(saved', objects')
       /\ StackFits(leveraged, stack', objects', Len(history'))
       /\ Waiting(leveraged, stack', objects', saved')
       /\ history' \in Seq(Calls) /\ active' \in BOOLEAN /\ late' \in BOOLEAN
  BY <1>1, <1>3, <1>4, <1>7, <1>8, <1>9, MethodKeeps
<1>. QED
  BY <1>1, <1>10 DEF IInv

\* stubUnderWay.
LEMMA StubUnderWayKeeps == ASSUME IInv, stubUnderWay PROVE IInv'
<1>1. /\ Calling({"stub"}) /\ objects' = stopPropagation(objects, Top.obj) /\ stack' = Passed
      /\ UNCHANGED <<leveraged, changes, events, listening, triggered, saved, active, late, history>>
  BY DEF stubUnderWay, bindings, focus
<1>2. Running("dispatch") /\ Top.queue # <<>> /\ stack # <<>>
  BY <1>1, StubCalled
<1>3. /\ Top.obj \in Nat /\ objects \in Seq(EventObjects) /\ history \in Seq(Calls)
      /\ SavedFits(saved, objects)
  BY <1>2, OnTop DEF IInv, ObjectsFit
<1>4. Alike(objects, objects')
  BY <1>1, <1>3, HappensAlike
<1>5. StackFits(leveraged, stack', objects, Len(history)) /\ Stubless(stack'[Len(stack')])
  BY <1>1, <1>2, PassedFits
<1>. QED
  BY <1>1, <1>3, <1>4, <1>5, OnlyCalls

\* stubIdle.
LEMMA StubIdleKeeps == ASSUME IInv, stubIdle PROVE IInv'
<1>1. /\ Calling({"stub"}) /\ stack' = Passed
      /\ UNCHANGED <<leveraged, changes, events, listening, triggered, saved, active, late, objects, history>>
  BY DEF stubIdle, bindings, focus
<1>2. Running("dispatch") /\ Top.queue # <<>>
  BY <1>1, StubCalled
<1>3. objects \in Seq(EventObjects) /\ history \in Seq(Calls) /\ SavedFits(saved, objects)
  BY DEF IInv, ObjectsFit
<1>4. Alike(objects, objects')
  BY <1>1, <1>3 DEF Alike
<1>5. StackFits(leveraged, stack', objects, Len(history)) /\ Stubless(stack'[Len(stack')])
  BY <1>1, <1>2, PassedFits
<1>. QED
  BY <1>1, <1>3, <1>4, <1>5, OnlyCalls

\* stubArrived.
LEMMA StubArrivedKeeps == ASSUME IInv, stubArrived PROVE IInv'
<1>. DEFINE o == EventObject(TRUE, 0)
            c == Controller(Top.obj, "again", FALSE, ThisCall)
            t == Trigger(saved.obj, Top.node, FALSE, ThisCall)
<1>1. /\ Calling({"stub"}) /\ ~objects[Top.obj].isTrigger /\ saved.is = "args"
      /\ objects' = [objects EXCEPT ![saved.obj] = o] /\ stack' = Passed \o <<c, t>>
      /\ UNCHANGED <<leveraged, changes, events, listening, triggered, saved, active, late, history>>
  BY DEF stubArrived, bindings, focus
<1>2. Running("dispatch") /\ Top.queue # <<>> /\ stack # <<>> /\ saved.obj < Top.obj
  BY <1>1, StubCalled
<1>3. /\ StackFits(leveraged, Passed, objects, Len(history)) /\ Passed # <<>>
      /\ Stubless(Passed[Len(Passed)]) /\ Top.node \in Elements /\ (leveraged => Top.node = 1)
  BY <1>2, PassedFits
<1>4. /\ Top.obj \in 1..Len(objects) /\ Top.obj \in Nat /\ ThisCall \in 1..Len(history)
      /\ ThisCall \in Nat /\ ThisCall = Len(history) /\ Len(objects) \in Nat
  BY <1>2, OnTop DEF ThisCall
<1>5. /\ saved.obj \in 1..Len(objects) /\ saved.obj \in Nat /\ objects[saved.obj].native = 0
      /\ ObjectsFit(objects) /\ objects \in Seq(EventObjects) /\ SavedFits(saved, objects)
  BY <1>1 DEF IInv, SavedFits, ObjectsFit
<1>6. o \in EventObjects /\ o.native = 0 /\ o.isTrigger
  <2>1. TRUE \in BOOLEAN /\ 0 \in Nat
    OBVIOUS
  <2>. QED
    BY <2>1, ObjectBegins
<1>. HIDE DEF o
<1>7. /\ objects' \in Seq(EventObjects) /\ Len(objects') = Len(objects)
      /\ objects'[saved.obj] = o
      /\ \A k \in 1..Len(objects) : k # saved.obj => objects'[k] = objects[k]
  <2>1. /\ objects' \in Seq(EventObjects) /\ Len(objects') = Len(objects)
        /\ \A k \in 1..Len(objects) : objects'[k] = IF k = saved.obj THEN o ELSE objects[k]
    BY <1>1, <1>5, <1>6, ExceptSeq
  <2>. QED
    BY <1>5, <2>1
<1>8. ObjectsFit(objects') /\ SavedFits(saved, objects')
  <2>1. ASSUME NEW k \in 1..Len(objects)
        PROVE  objects'[k].native < k /\ (objects'[k].isTrigger => objects'[k].native = 0)
    <3>1. CASE k = saved.obj
      BY <1>5, <1>6, <1>7, <3>1
    <3>2. CASE k # saved.obj
      BY <1>5, <1>7, <3>2 DEF ObjectsFit
    <3>. QED
      BY <3>1, <3>2
  <2>2. ObjectsFit(objects')
    BY <1>7, <2>1 DEF ObjectsFit
  <2>3. SavedFits(saved, objects')
    BY <1>5, <1>6, <1>7 DEF SavedFits
  <2>. QED
    BY <2>2, <2>3
<1>9. StackFits(leveraged, Passed, objects', Len(history))
  <2>1. ASSUME NEW i \in 1..Len(Passed)
        PROVE  /\ Passed[i].obj \in 1..Len(objects')
               /\ objects[Passed[i].obj].isTrigger => objects'[Passed[i].obj].isTrigger
    <3>1. Passed[i].obj \in 1..Len(objects)
      BY <1>3 DEF StackFits, Fits
    <3>. QED
      BY <1>6, <1>7, <3>1
  <2>. QED
    BY <1>3, <2>1, ObjectsChange
<1>10. c \in Frames /\ c.kind = "controller" /\ c.obj = Top.obj /\ c.call = ThisCall /\ c.again = saved.obj
  BY <1>3, <1>4, <1>5, FramesBegin DEF Controller
<1>11. t \in Frames /\ t.kind = "trigger" /\ t.obj = saved.obj /\ t.node = Top.node /\ t.at = Top.node
       /\ t.call = ThisCall
  BY <1>3, <1>4, <1>5, FramesBegin DEF Trigger
<1>. HIDE DEF c, t
<1>12. ~Root(c) /\ Stubless(c) /\ Fits(leveraged, c, objects')
  <2>1. saved.obj \in 1..(Top.obj - 1) /\ ThisCall >= 1
    BY <1>2, <1>4, <1>5
  <2>. QED
    BY <1>4, <1>7, <1>10, <2>1 DEF Root, Stubless, Fits
<1>13. Root(t) /\ Stubless(t) /\ Fits(leveraged, t, objects')
  <2>1. ThisCall >= 1 /\ Top.node <= Top.node
    BY <1>3, <1>4 DEF Elements
  <2>. QED
    BY <1>3, <1>5, <1>6, <1>7, <1>11, <2>1 DEF Root, Stubless, Fits
<1>. DEFINE s == Append(Passed, c)
<1>14. StackFits(leveraged, s, objects', ThisCall)
  BY <1>3, <1>4, <1>9, <1>10, <1>12, PushFits
<1>15. s \in Seq(Frames) /\ Len(s) = Len(Passed) + 1 /\ s[Len(s)] = c /\ s # <<>>
  <2>1. Passed \in Seq(Frames)
    BY <1>3 DEF StackFits
  <2>2. s \in Seq(Frames) /\ Len(s) = Len(Passed) + 1 /\ s[Len(s)] = c
    BY <1>10, <2>1, AppendProperties
  <2>. QED
    BY <1>10, <2>1, <2>2, AppendProperties
<1>16. stack' = Append(s, t)
  <2>1. Passed \in Seq(Frames)
    BY <1>3 DEF StackFits
  <2>2. Append(Append(Passed, c), t) = Passed \o <<c, t>>
    BY <1>10, <1>11, <2>1
  <2>. QED
    BY <1>1, <2>2
<1>. HIDE DEF s
<1>17. StackFits(leveraged, stack', objects', ThisCall)
  <2>1. t.call >= ThisCall
    BY <1>4, <1>11
  <2>. QED
    BY <1>11, <1>12, <1>13, <1>14, <1>15, <1>16, <2>1, PushFits
<1>18. Waiting(leveraged, stack', objects', saved')
  <2>1. stack'[Len(stack')] = t
    BY <1>11, <1>15, <1>16, AppendProperties
  <2>. QED
    BY <1>13, <2>1, StublessWaits
<1>. QED
  BY <1>1, <1>4, <1>8, <1>17, <1>18, OnlyStack

\* methodReturned.
LEMMA MethodReturnedKeeps == ASSUME IInv, methodReturned PROVE IInv'
<1>1. /\ stack # <<>> /\ ~Root(Top) /\ stack' = Front(stack)
      /\ saved' \in {saved, Saved("no", 0, "none")}
      /\ objects' \in {objects, answered(preventDefault(stopImmediatePropagation(objects, Top.obj), Top.obj),
                                         Top.obj, saved.result)}
      /\ UNCHANGED <<leveraged, changes, events, listening, triggered, active, late, history>>
  BY DEF methodReturned, Phase, Running, Root, bindings
<1>2. /\ Top.obj \in Nat /\ objects \in Seq(EventObjects) /\ history \in Seq(Calls)
      /\ SavedFits(saved, objects) /\ saved.result \in Results
  BY <1>1, OnTop DEF IInv, ObjectsFit, SavedFits
<1>3. Alike(objects, objects')
  BY <1>1, <1>2, AnsweredAlike, FieldAlike
<1>4. SavedFits(saved', objects)
  <2>1. SavedFits(Saved("no", 0, "none"), objects)
    BY DEF SavedFits, Saved, Results
  <2>. QED
    BY <1>1, <1>2, <2>1
<1>5. StackFits(leveraged, stack', objects, Len(history)) /\ Stubless(stack'[Len(stack')])
  BY <1>1, FrontFits
<1>. QED
  BY <1>1, <1>2, <1>3, <1>4, <1>5, OnlyCalls

\* triggeredAgain.
LEMMA TriggeredAgainKeeps == ASSUME IInv, triggeredAgain PROVE IInv'
<1>1. /\ stack # <<>> /\ ~Root(Top) /\ Top.kind = "controller" /\ Top.phase = "again"
      /\ stack' = Front(stack)
      /\ saved' = Saved("value", 0, objects[Top.again].result)
      /\ objects' = stopImmediatePropagation(objects, Top.obj)
      /\ UNCHANGED <<leveraged, changes, events, listening, triggered, active, late, history>>
  BY DEF triggeredAgain, Phase, Running, Root, bindings
<1>2. /\ Top.obj \in Nat /\ objects \in Seq(EventObjects) /\ history \in Seq(Calls)
      /\ Fits(leveraged, Top, objects) /\ Top.obj \in 1..Len(objects) /\ Len(objects) \in Nat
  BY <1>1, OnTop DEF IInv, ObjectsFit
<1>3. Alike(objects, objects')
  <2>1. "none" \in Results
    BY DEF Results
  <2>. QED
    BY <1>1, <1>2, <2>1, AnsweredAlike
<1>4. SavedFits(saved', objects)
  <2>1. Top.again \in 1..(Top.obj - 1)
    BY <1>1, <1>2 DEF Fits
  <2>2. Top.again \in 1..Len(objects)
    BY <1>2, <2>1
  <2>3. objects[Top.again] \in EventObjects
    BY <1>2, <2>2, ElementOfSeq
  <2>4. objects[Top.again].result \in Results
    BY <2>3 DEF EventObjects
  <2>. QED
    BY <1>1, <2>4 DEF SavedFits, Saved
<1>5. StackFits(leveraged, stack', objects, Len(history)) /\ Stubless(stack'[Len(stack')])
  BY <1>1, FrontFits
<1>. QED
  BY <1>1, <1>2, <1>3, <1>4, <1>5, OnlyCalls

-----------------------------------------------------------------------------
(* The invariant, and what follows. *)

\* There are no handlers yet, and nothing runs.
LEMMA InitFits == Init => IInv
<1>. SUFFICES ASSUME Init PROVE IInv
  OBVIOUS
<1>1. EmptyList \in Lists /\ Len(EmptyList.list) = 0 /\ EmptyList.list = <<>> /\ 1..0 = {}
      /\ EmptyList.delegateCount = 0
  BY EmptySeq DEF EmptyList, Lists
<1>2. Sorted(EmptyList) /\ StubFirst(EmptyList)
  BY <1>1 DEF Sorted, StubFirst
<1>3. \A lev : ListFits(lev, EmptyList)
  BY <1>1, <1>2 DEF ListFits
<1>4. ListsFit(leveraged, events, listening)
  BY <1>1, <1>3 DEF Init, ListsFit
<1>5. StackFits(leveraged, stack, objects, Len(history))
      /\ Waiting(leveraged, stack, objects, saved)
  BY EmptyFits, EmptySeq DEF Init
<1>6. ObjectsFit(objects) /\ SavedFits(saved, objects)
  BY <1>1, EmptySeq DEF Init, ObjectsFit, SavedFits, Saved, Results
<1>7. history \in Seq(Calls) /\ changes \in 0..MaxChanges
  BY EmptySeq, EventsAssumption DEF Init
<1>8. leveraged \in BOOLEAN /\ triggered \in BOOLEAN /\ active \in BOOLEAN /\ late \in BOOLEAN
  BY DEF Init
<1>. QED
  BY <1>4, <1>5, <1>6, <1>7, <1>8 DEF IInv

\* Every step keeps it.
LEMMA NextKeeps == IInv /\ [Next]_vars => IInv'
<1>. SUFFICES ASSUME IInv, [Next]_vars PROVE IInv'
  OBVIOUS
<1>1. CASE UNCHANGED vars
  BY <1>1 DEF vars, calls, bindings, focus, IInv
<1>2. ASSUME NEW n \in Elements,
             \/ \E i \in Ids, f \in Fns, s \in 0..Depth, o \in BOOLEAN :
                  on(n, [id |-> i, fn |-> f, sel |-> s, once |-> o])
             \/ \E f \in Fns : off(n, f)
             \/ offAll(n)
             \/ \E only \in BOOLEAN : trigger(n, only)
             \/ Arrive(n)
      PROVE  IInv'
  <2>1. CASE \E i \in Ids, f \in Fns, s \in 0..Depth, o \in BOOLEAN :
               on(n, [id |-> i, fn |-> f, sel |-> s, once |-> o])
    BY <2>1, OnKeeps
  <2>2. CASE offAll(n) \/ \E f \in Fns : off(n, f)
    BY <2>2, OffKeeps
  <2>3. CASE \E only \in BOOLEAN : trigger(n, only)
    BY <2>3, TriggerKeeps
  <2>4. CASE Arrive(n)
    BY <2>4, ArriveKeeps
  <2>. QED
    BY <1>2, <2>1, <2>2, <2>3, <2>4
<1>3. CASE Blur
  BY <1>3, BlurKeeps
<1>4. CASE visit \/ listener \/ pathEnd \/ tail \/ tailEnd \/ over
  BY <1>4, VisitKeeps, ListenerKeeps, PathEndKeeps, TailKeeps, TailEndKeeps, OverKeeps
<1>5. CASE call \/ returnTrue \/ dispatched
  BY <1>5, CallKeeps, ReturnTrueKeeps, DispatchedKeeps
<1>6. CASE \E how \in {"stop", "now"} : stop(how)
  BY <1>6, StopKeeps
<1>7. CASE \E result \in {"none", "false"} : return(result)
  BY <1>7, ReturnKeeps
<1>8. CASE stubTriggered \/ stubUnderWay \/ stubArrived \/ stubIdle
  BY <1>8, StubTriggeredKeeps, StubUnderWayKeeps, StubArrivedKeeps, StubIdleKeeps
<1>9. CASE methodReturned \/ triggeredAgain
  BY <1>9, MethodReturnedKeeps, TriggeredAgainKeeps
<1>. QED
  BY <1>1, <1>2, <1>3, <1>4, <1>5, <1>6, <1>7, <1>8, <1>9 DEF Next

\* It is an invariant.
LEMMA Invariant == Spec => []IInv
  BY InitFits, NextKeeps, PTL DEF Spec

\* A list counts no more than it has.
LEMMA SortedCounts ==
  ASSUME NEW l \in Lists, Sorted(l)
  PROVE  l.delegateCount <= Len(l.list)
  BY DEF Sorted

\* Every list counts no more delegated handlers than it has, every frame has its event
\* object and every object the browser's event behind it, whatever handlers bind, unbind
\* and trigger (add, remove, trigger, dispatch, leverageNative).
THEOREM EventTypes == Spec => []TypeOK
<1>1. IInv => TypeOK
  <2>. SUFFICES ASSUME IInv PROVE TypeOK
    OBVIOUS
  <2>1. /\ events \in [Elements -> Lists] /\ listening \subseteq Elements
        /\ \A n \in Elements : events[n].delegateCount <= Len(events[n].list)
    BY SortedCounts DEF IInv, ListsFit, ListFits
  <2>2. objects \in Seq(EventObjects) /\ DOMAIN objects = 1..Len(objects) /\ Len(objects) \in Nat
    BY LenProperties DEF IInv, ObjectsFit
  <2>3. \A k \in DOMAIN objects : objects[k].native <= Len(objects)
    <3>. SUFFICES ASSUME NEW k \in 1..Len(objects) PROVE objects[k].native <= Len(objects)
      BY <2>2
    <3>1. objects[k] \in EventObjects /\ objects[k].native < k
      BY <2>2, ElementOfSeq DEF IInv, ObjectsFit
    <3>2. objects[k].native \in Nat
      BY <3>1 DEF EventObjects
    <3>. QED
      BY <2>2, <3>1, <3>2
  <2>4. stack \in Seq(Frames) /\ \A i \in DOMAIN stack : stack[i].obj \in DOMAIN objects
    <3>1. stack \in Seq(Frames) /\ DOMAIN stack = 1..Len(stack)
      BY LenProperties DEF IInv, StackFits
    <3>. QED
      BY <2>2, <3>1 DEF IInv, StackFits, Fits
  <2>5. saved \in [is : {"unset", "no", "args", "value"}, obj : 0..Len(objects), result : Results]
    <3>1. saved.obj \in 0..Len(objects)
      BY <2>2 DEF IInv, SavedFits
    <3>. QED
      BY <3>1 DEF IInv, SavedFits
  <2>. QED
    BY <2>1, <2>2, <2>3, <2>4, <2>5 DEF IInv, TypeOK
<1>. QED
  BY <1>1, Invariant, PTL

\* The browser's listener is on an element exactly as long as there are handlers, and the
\* delegated ones come first, as many as are counted (add, remove).
THEOREM ListsKept == Spec => []ListsAreKept
<1>1. IInv => ListsAreKept
  <2>. SUFFICES ASSUME IInv, NEW n \in Elements
                PROVE  /\ n \in listening <=> events[n].list # <<>>
                       /\ \A h \in ToSet(Delegated(n)) : h.sel # 0
                       /\ \A h \in ToSet(Own(n)) : h.sel = 0
    BY DEF ListsAreKept
  <2>1. events[n] \in Lists /\ Sorted(events[n]) /\ (n \in listening <=> events[n].list # <<>>)
    BY DEF IInv, ListsFit, ListFits
  <2>. DEFINE l == events[n].list
              c == events[n].delegateCount
  <2>2. /\ c \in Nat /\ Len(l) \in Nat
        /\ \A i \in 1..Len(l) : l[i].sel # 0 <=> i <= c
        /\ Delegated(n) \in Seq(Listed) /\ Len(Delegated(n)) = c
        /\ \A i \in 1..c : Delegated(n)[i] = l[i]
        /\ Own(n) \in Seq(Listed) /\ Len(Own(n)) = Len(l) - c
        /\ \A i \in 1..(Len(l) - c) : Own(n)[i] = l[c + i]
    BY <2>1, DelegatedAndOwn
  <2>. HIDE DEF l, c
  <2>3. \A h \in ToSet(Delegated(n)) : h.sel # 0
    <3>1. ASSUME NEW i \in 1..c PROVE Delegated(n)[i].sel # 0
      <4>1. Delegated(n)[i] = l[i] /\ i <= c
        BY <2>2
      <4>2. i \in 1..Len(l)
        BY <2>1, <2>2 DEF Sorted, l, c
      <4>. QED
        BY <2>2, <4>1, <4>2
    <3>. QED
      BY <2>2, <3>1, LenProperties DEF ToSet
  <2>4. \A h \in ToSet(Own(n)) : h.sel = 0
    <3>1. ASSUME NEW i \in 1..(Len(l) - c) PROVE Own(n)[i].sel = 0
      <4>1. c + i \in 1..Len(l) /\ ~(c + i <= c)
        BY <2>2
      <4>. QED
        BY <2>2, <4>1
    <3>. QED
      BY <2>2, <3>1, LenProperties DEF ToSet
  <2>. QED
    BY <2>1, <2>3, <2>4
<1>. QED
  BY <1>1, Invariant, PTL
===============================================================================
