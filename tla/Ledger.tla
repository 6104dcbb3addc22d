-------------------------------- MODULE Ledger --------------------------------
(***************************************************************************)
(* What the notification handling promises to the business: a ledger of    *)
(* trades and the service they open.  Money is received first; the ledger  *)
(* learns of it later; an entry only ever advances; a deposit and the      *)
(* service it pays for are one step; a service that is closed for further  *)
(* payment stays closed until an administrator opens it.                   *)
(***************************************************************************)
CONSTANTS
  Trades,   \* trade numbers
  Sites,    \* customers' sites
  SiteOf,   \* the site a trade pays for, a function from Trades to Sites
  Deposits  \* the trades paid into a virtual account; the others are cards

VARIABLES
  received,  \* trades whose money has arrived
  entry,     \* what the ledger says of a trade: "none", "awaiting", "paid"
  service    \* a site's service: "applied", "closed" (paid for), "open"

ledger == <<received, entry, service>>

Init ==
  /\ received = {}
  /\ entry = [t \in Trades |-> "none"]
  /\ service = [s \in Sites |-> "applied"]

\* The customer's money arrives.
Receive(t) ==
  /\ received' = received \union {t}
  /\ UNCHANGED <<entry, service>>

\* The ledger records an account that waits for its deposit.
Await(t) ==
  /\ t \in Deposits /\ entry[t] = "none"
  /\ entry' = [entry EXCEPT ![t] = "awaiting"]
  /\ UNCHANGED <<received, service>>

\* The ledger records a card payment, which leaves the service alone.
RecordCard(t) ==
  /\ t \in received \ Deposits /\ entry[t] = "none"
  /\ entry' = [entry EXCEPT ![t] = "paid"]
  /\ UNCHANGED <<received, service>>

\* The ledger records a deposit and closes the service, in one step.  It may do
\* so again when the service has been opened since.
RecordDeposit(t) ==
  /\ t \in received \intersect Deposits /\ entry[t] # "none"
  /\ service[SiteOf[t]] # "closed"
  /\ entry' = [entry EXCEPT ![t] = "paid"]
  /\ service' = [service EXCEPT ![SiteOf[t]] = "closed"]
  /\ UNCHANGED received

\* An administrator opens a service for its extension.
Open(s) ==
  /\ service[s] = "closed"
  /\ service' = [service EXCEPT ![s] = "open"]
  /\ UNCHANGED <<received, entry>>

Next ==
  \/ \E t \in Trades : Receive(t) \/ Await(t) \/ RecordCard(t) \/ RecordDeposit(t)
  \/ \E s \in Sites : Open(s)

Spec == Init /\ [][Next]_ledger
=============================================================================
