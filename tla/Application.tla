----------------------------- MODULE Application -----------------------------
(***************************************************************************)
(* The application form of the service in the browser                      *)
(* (requestService.html, common.js, popup.js): the inputs with their       *)
(* listeners, the boxes to agree in, and the button that checks them, with *)
(* a pop-up that says what is missing.                                     *)
(*                                                                         *)
(* The button never gets further than its third check: the table of        *)
(* products is empty and nothing fills it, so that getSelectedProduct      *)
(* finds no marked radio button and throws.  What lies behind it, the      *)
(* pop-up that asks for a product and the second page with what was        *)
(* entered, is not reachable and not modelled.                             *)
(***************************************************************************)
EXTENDS Naturals, Sequences

CONSTANTS
  Inputs,                 \* the ids of the form's inputs, in document order
  Agreements,             \* the ids of the boxes to agree in, in document order
  Texts, NoText,          \* what may stand in an input, and the empty text
  Mails, Phones, TenLong, \* the texts that are a mail address, a phone number, and
                          \* ten characters long
  Nothing

MailInputs  == {"manager_email"}
PhoneInputs == {"manager_tel", "manager_phone", "info_number"}
PlainInputs == {"info_company_name", "info_bizName", "info_name", "info_serviceUrl",
                "info_address1", "info_address2", "manager_name"}
InputIds == MailInputs \union PhoneInputs \union PlainInputs
              \union {"info_email", "info_bizNum"}

InputSet == {Inputs[k] : k \in DOMAIN Inputs}
AgreementSet == {Agreements[k] : k \in DOMAIN Agreements}

\* What the button can complain about.
PopupKeys == {"requiredInfo", "agree"}

ASSUME ApplicationAssumption ==
  /\ Inputs \in Seq(InputIds) /\ Agreements \in Seq(AgreementSet)
  /\ NoText \in Texts
  /\ Mails \union Phones \union TenLong \subseteq Texts \ {NoText}
  /\ Nothing \notin InputSet \union AgreementSet \union PopupKeys

VARIABLES
  value,     \* the text of each input
  agreed,    \* the boxes agreed in
  focus,     \* the input that has the focus
  listening, \* has window.onload put its listeners on the inputs?
  badInput,  \* the inputs, and
  badLabel,  \* the labels, with the class "invalid"
  popup,     \* the pop-up: is it shown, and what does it say
  focusItem  \* what gets the focus when the pop-up is closed

marks == <<badInput, badLabel>>
form == <<value, agreed>>
vars == <<form, focus, listening, marks, popup, focusItem>>

\* What the pop-up goes back to.
ItemsOf(key) ==
  CASE key = "requiredInfo" -> InputSet
    [] key = "agree" -> AgreementSet
    [] OTHER -> {Nothing}

\* What each variable may be: the pop-up goes back to an item of the kind that it
\* complains about, and is not shown before it has one (focusItem in common.js).
TypeOK ==
  /\ value \in [InputSet -> Texts]
  /\ agreed \subseteq AgreementSet
  /\ focus \in InputSet \union {Nothing}
  /\ listening \in BOOLEAN
  /\ badInput \subseteq InputSet /\ badLabel \subseteq InputSet
  /\ popup \in [shown : BOOLEAN, key : PopupKeys \union {Nothing}]
  /\ popup.shown => popup.key # Nothing
  /\ focusItem \in ItemsOf(popup.key)

Init ==
  /\ value = [i \in InputSet |-> NoText]
  /\ agreed = {}
  /\ focus = Nothing /\ listening = FALSE
  /\ badInput = {} /\ badLabel = {}
  /\ popup = [shown |-> FALSE, key |-> Nothing] /\ focusItem = Nothing

-----------------------------------------------------------------------------
(* Checks. *)

\* Is the text good for the input?  The pattern for a URL is that of an id no
\* input has: the service's URL may be any text.
checkPattern(i, t) ==
  /\ i \in MailInputs => t \in Mails
  /\ i \in PhoneInputs => t \in Phones
  /\ i = "info_email" => t \in Mails \union {NoText}
  /\ i = "info_bizNum" => t \in TenLong
  /\ i \in PlainInputs => t # NoText

Good(i) == checkPattern(i, value[i])

-----------------------------------------------------------------------------
(* The inputs and their listeners. *)

Load ==
  /\ ~listening
  /\ listening' = TRUE
  /\ UNCHANGED <<form, focus, marks, popup, focusItem>>

\* Mutant of focusout: what was marked once stays marked.
focusout_sticky(marked) ==
  IF focus # Nothing /\ ~Good(focus) THEN marked \union {focus} ELSE marked

\* The marked inputs (or labels) after the input that has the focus, if any, has
\* lost it and was checked.
focusout(marked) ==
  IF focus # Nothing /\ ~Good(focus) THEN marked \union {focus} ELSE marked \ {focus}

\* The focus goes to i, or from the inputs to something else (Nothing).
Focus(i) ==
  /\ i # focus
  /\ focus' = i
  /\ IF listening
       THEN badInput' = focusout(badInput) /\ badLabel' = focusout(badLabel) \ {i}
       ELSE UNCHANGED marks
  /\ UNCHANGED <<form, listening, popup, focusItem>>

\* Nothing keeps the keyboard out of the form while a pop-up is shown.
Type(t) ==
  /\ focus # Nothing
  /\ value' = [value EXCEPT ![focus] = t]
  /\ UNCHANGED <<agreed, focus, listening, marks, popup, focusItem>>

Agree(a) ==
  /\ focus = Nothing
  /\ agreed' = IF a \in agreed THEN agreed \ {a} ELSE agreed \union {a}
  /\ UNCHANGED <<value, focus, listening, marks, popup, focusItem>>

-----------------------------------------------------------------------------
(* The pop-up. *)

\* Mutant of popupOpen: the item of the complaint before is kept.
popupOpen_lastItem(item, key) ==
  /\ focusItem' = IF focusItem = Nothing THEN item ELSE focusItem
  /\ popup' = [shown |-> TRUE, key |-> key]
  /\ UNCHANGED <<form, focus, listening, marks>>

\* popupOpen(3), setPopup(key) and the item to go back to.
popupOpen(item, key) ==
  /\ focusItem' = item
  /\ popup' = [shown |-> TRUE, key |-> key]
  /\ UNCHANGED <<form, focus, listening, marks>>

\* popupClose(3), the button of the pop-up: focusItem.focus().
popupClose ==
  /\ popup.shown /\ focus = Nothing
  /\ popup' = [popup EXCEPT !.shown = FALSE]
  /\ focus' = IF focusItem \in InputSet THEN focusItem ELSE Nothing
  /\ badLabel' = IF listening THEN badLabel \ {focus'} ELSE badLabel
  /\ UNCHANGED <<form, badInput, listening, focusItem>>

-----------------------------------------------------------------------------
(* The button of the form, requestServiceBtn. *)

\* The k-th element of s is the first that is not in S.
IsFirstOutside(s, k, S) ==
  k \in DOMAIN s /\ s[k] \notin S /\ \A j \in 1..(k - 1) : s[j] \in S

GoodInputs == {i \in InputSet : Good(i)}

\* A click takes the focus from the input that had it.
Clicked == focus = Nothing

requiredInfo ==
  /\ Clicked
  /\ \E k \in DOMAIN Inputs :
       IsFirstOutside(Inputs, k, GoodInputs) /\ popupOpen(Inputs[k], "requiredInfo")

agree ==
  /\ Clicked /\ InputSet \subseteq GoodInputs
  /\ \E k \in DOMAIN Agreements :
       IsFirstOutside(Agreements, k, agreed) /\ popupOpen(Agreements[k], "agree")

\* getSelectedProduct throws, and nothing happens.
productThrows ==
  /\ Clicked /\ InputSet \subseteq GoodInputs /\ AgreementSet \subseteq agreed
  /\ UNCHANGED vars

Next ==
  \/ Load
  \/ \E i \in InputSet \union {Nothing} : Focus(i)
  \/ \E t \in Texts : Type(t)
  \/ \E a \in AgreementSet : Agree(a)
  \/ requiredInfo \/ agree \/ productThrows \/ popupClose

Spec == Init /\ [][Next]_vars

-----------------------------------------------------------------------------
(* Properties. *)

\* An input that the customer is not in is marked exactly as its label is, and
\* only while its text is not good.
MarksAreTrue ==
  \A i \in InputSet \ {focus} :
    /\ i \in badInput <=> i \in badLabel
    /\ i \in badInput => ~Good(i)
=============================================================================
