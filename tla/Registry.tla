------------------------------- MODULE Registry -------------------------------
(***************************************************************************)
(* What registration promises: a site is registered by one form, the first *)
(* one stands, and the administrators hear of a site only once it is       *)
(* registered, and under the agency its form names.                        *)
(***************************************************************************)
CONSTANTS
  Sites,     \* site ids
  Forms,     \* registration forms
  NoForm,    \* the form of a site nobody has registered
  AgencyOf   \* the agency a form names, a function of Forms

VARIABLES
  form,      \* the form a site is registered by, or NoForm
  told       \* what the administrators have heard

registry == <<form, told>>

Init ==
  /\ form = [s \in Sites |-> NoForm]
  /\ told = {}

Register(s, f) ==
  /\ form[s] = NoForm
  /\ form' = [form EXCEPT ![s] = f]
  /\ UNCHANGED told

Tell(s, kind) ==
  /\ form[s] # NoForm
  /\ told' = told \union {[kind |-> kind, site |-> s, agency |-> AgencyOf[form[s]]]}
  /\ UNCHANGED form

Next ==
  \E s \in Sites : \/ \E f \in Forms : Register(s, f)
                   \/ \E kind \in {"register", "cancel"} : Tell(s, kind)

Spec == Init /\ [][Next]_registry
=============================================================================
