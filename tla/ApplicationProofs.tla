-------------------------- MODULE ApplicationProofs --------------------------
(***************************************************************************)
(* What is marked in the application form is true, for any inputs,         *)
(* agreements and texts.                                                   *)
(***************************************************************************)
EXTENDS Application, TLAPS

\* Nothing is marked before the listeners are there: what has the focus then would lose
\* it without being checked.
NoMarksBeforeLoad == ~listening => badInput = {} /\ badLabel = {}

IInv == TypeOK /\ NoMarksBeforeLoad /\ MarksAreTrue

-----------------------------------------------------------------------------

\* The invariant holds when the page is loaded.
LEMMA InitInv == Init => IInv
<1> SUFFICES ASSUME Init PROVE IInv
  OBVIOUS
<1>1. TypeOK
  <2>1. NoText \in Texts
    BY ApplicationAssumption
  <2>2. popup \in [shown : BOOLEAN, key : PopupKeys \union {Nothing}]
    BY DEF Init
  <2>3. value \in [InputSet -> Texts]
    BY <2>1 DEF Init
  <2>4. focusItem \in ItemsOf(popup.key)
    BY ApplicationAssumption DEF Init, ItemsOf, PopupKeys
  <2>. QED
    BY <2>2, <2>3, <2>4 DEF Init, TypeOK
<1>. QED
  BY <1>1 DEF Init, IInv, NoMarksBeforeLoad, MarksAreTrue

\* No id is Nothing.
LEMMA NothingIsNoId ==
  /\ Nothing \notin InputSet /\ Nothing \notin AgreementSet
  BY ApplicationAssumption

\* What the pop-ups go back to is on the page.
LEMMA ItemsOnPage ==
  /\ \A k \in DOMAIN Inputs : Inputs[k] \in InputSet
  /\ \A k \in DOMAIN Agreements : Agreements[k] \in AgreementSet
  BY DEF InputSet, AgreementSet

\* Every step keeps the types.
LEMMA TypeStep == TypeOK /\ [Next]_vars => TypeOK'
<1> SUFFICES ASSUME TypeOK, [Next]_vars PROVE TypeOK'
  OBVIOUS
<1> USE DEF TypeOK, PopupKeys
<1>1. CASE Load
  BY <1>1 DEF Load, form, marks
<1>2. ASSUME NEW i \in InputSet \union {Nothing}, Focus(i) PROVE TypeOK'
  BY <1>2 DEF Focus, focusout, form, marks
<1>3. ASSUME NEW t \in Texts, Type(t) PROVE TypeOK'
  BY <1>3 DEF Type, marks
<1>4. ASSUME NEW a \in AgreementSet, Agree(a) PROVE TypeOK'
  BY <1>4 DEF Agree, marks
<1>5. ASSUME NEW key \in PopupKeys, NEW item \in ItemsOf(key), popupOpen(item, key)
      PROVE  TypeOK'
  <2>1. UNCHANGED <<value, agreed, focus, listening, badInput, badLabel>>
    BY <1>5 DEF popupOpen, form, marks
  <2>2. popup' = [shown |-> TRUE, key |-> key] /\ focusItem' = item
    BY <1>5 DEF popupOpen
  <2>3. key # Nothing
    BY ApplicationAssumption
  <2>4. popup'.key = key /\ popup' \in [shown : BOOLEAN, key : PopupKeys \union {Nothing}]
    BY <2>2
  <2>. QED
    BY <2>1, <2>2, <2>3, <2>4
<1>6. CASE requiredInfo \/ agree
  <2>1. ItemsOf("requiredInfo") = InputSet /\ ItemsOf("agree") = AgreementSet
    BY DEF ItemsOf
  <2>. QED
    BY <1>5, <1>6, <2>1, ItemsOnPage DEF requiredInfo, agree, IsFirstOutside
<1>7. CASE popupClose
  BY <1>7 DEF popupClose, form
<1>8. CASE productThrows \/ UNCHANGED vars
  BY <1>8 DEF productThrows, vars, form, marks
<1>. QED
  BY <1>1, <1>2, <1>3, <1>4, <1>5, <1>6, <1>7, <1>8 DEF Next

\* Nothing is marked as long as there are no listeners.
LEMMA LoadStep ==
  NoMarksBeforeLoad /\ [Next]_vars => NoMarksBeforeLoad'
<1> SUFFICES ASSUME NoMarksBeforeLoad, [Next]_vars PROVE NoMarksBeforeLoad'
  OBVIOUS
<1> USE DEF NoMarksBeforeLoad
<1>1. CASE Load
  BY <1>1 DEF Load
<1>2. ASSUME NEW i \in InputSet \union {Nothing}, Focus(i) PROVE NoMarksBeforeLoad'
  BY <1>2 DEF Focus, marks
<1>3. CASE popupClose
  BY <1>3 DEF popupClose
<1>4. ASSUME UNCHANGED <<listening, badInput, badLabel>> PROVE NoMarksBeforeLoad'
  BY <1>4
<1>. QED
  BY <1>1, <1>2, <1>3, <1>4
  DEF Next, vars, marks, Type, Agree, requiredInfo, agree, popupOpen, productThrows

\* The marks of an input are set when it loses the focus, and its text is changed only
\* while it has it.
LEMMA MarksStep ==
  TypeOK /\ NoMarksBeforeLoad /\ MarksAreTrue /\ [Next]_vars => MarksAreTrue'
<1> SUFFICES ASSUME TypeOK, NoMarksBeforeLoad, MarksAreTrue, [Next]_vars,
                    NEW j \in InputSet, j # focus'
             PROVE  (j \in badInput <=> j \in badLabel)' /\ (j \in badInput => ~Good(j))'
  BY DEF MarksAreTrue
<1>1. j # Nothing
  BY NothingIsNoId
<1>2. j # focus => (j \in badInput <=> j \in badLabel) /\ (j \in badInput => ~Good(j))
  BY DEF MarksAreTrue
<1>3. ASSUME UNCHANGED value PROVE Good(j)' <=> Good(j)
  BY <1>3 DEF Good
<1>4. ASSUME UNCHANGED <<value, focus, badInput, badLabel>>
      PROVE  (j \in badInput <=> j \in badLabel)' /\ (j \in badInput => ~Good(j))'
  BY <1>2, <1>3, <1>4
<1>5. ASSUME NEW i \in InputSet \union {Nothing}, Focus(i)
      PROVE  (j \in badInput <=> j \in badLabel)' /\ (j \in badInput => ~Good(j))'
  <2>1. Good(j)' <=> Good(j)
    BY <1>3, <1>5 DEF Focus, form
  <2>2. CASE listening
    <3>1. (j \in badInput' <=> j \in focusout(badInput)) /\ (j \in badLabel' <=> j \in focusout(badLabel))
      BY <1>5, <2>2 DEF Focus
    <3>2. CASE j = focus
      BY <1>1, <2>1, <3>1, <3>2 DEF focusout
    <3>3. CASE j # focus
      BY <1>2, <2>1, <3>1, <3>3 DEF focusout
    <3>. QED
      BY <3>2, <3>3
  <2>3. CASE ~listening
    BY <1>5, <2>3 DEF Focus, marks, NoMarksBeforeLoad
  <2>. QED
    BY <2>2, <2>3
<1>6. ASSUME NEW t \in Texts, Type(t)
      PROVE  (j \in badInput <=> j \in badLabel)' /\ (j \in badInput => ~Good(j))'
  <2>1. j # focus /\ UNCHANGED marks
    BY <1>6 DEF Type
  <2>2. Good(j)' <=> Good(j)
    BY <1>6, <2>1 DEF Type, Good, TypeOK
  <2>. QED
    BY <1>2, <2>1, <2>2 DEF marks
<1>7. CASE popupClose
  <2>1. Good(j)' <=> Good(j)
    BY <1>3, <1>7 DEF popupClose, form
  <2>2. j # focus
    BY <1>1, <1>7 DEF popupClose
  <2>3. badInput' = badInput /\ (j \in badLabel' <=> j \in badLabel)
    BY <1>7 DEF popupClose
  <2>. QED
    BY <1>2, <2>1, <2>2, <2>3
<1>8. CASE Load
  BY <1>4, <1>8 DEF Load, form, marks
<1>9. ASSUME NEW a \in AgreementSet, Agree(a)
      PROVE  (j \in badInput <=> j \in badLabel)' /\ (j \in badInput => ~Good(j))'
  BY <1>4, <1>9 DEF Agree, marks
<1>10. CASE requiredInfo \/ agree
  BY <1>4, <1>10 DEF requiredInfo, agree, popupOpen, form, marks
<1>11. CASE productThrows \/ UNCHANGED vars
  BY <1>4, <1>11 DEF productThrows, vars, form, marks
<1>. QED
  BY <1>5, <1>6, <1>7, <1>8, <1>9, <1>10, <1>11 DEF Next

-----------------------------------------------------------------------------

\* Every reachable state satisfies the invariant.
THEOREM Invariance == Spec => []IInv
<1>1. IInv /\ [Next]_vars => IInv'
  BY TypeStep, LoadStep, MarksStep DEF IInv
<1>. QED
  BY InitInv, <1>1, PTL DEF Spec

\* The types are right, for any form.
THEOREM TypeCorrect == Spec => []TypeOK
<1>1. IInv => TypeOK
  BY DEF IInv
<1>. QED
  BY Invariance, <1>1, PTL

\* The marks of an input and of its label agree and are never of a good text
\* (requestServiceInputInit).
THEOREM MarksTrue == Spec => []MarksAreTrue
<1>1. IInv => MarksAreTrue
  BY DEF IInv
<1>. QED
  BY Invariance, <1>1, PTL
=============================================================================
