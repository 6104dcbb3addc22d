--------------------------- MODULE MCNotification ---------------------------
(* Instances of Notification for TLC. *)
EXTENDS Notification, TLC

CONSTANTS va1, va2, ca1, s1, m1, m2, h1, h2, c1

\* One deposit and one card, for the same site.
DepositAndCard ==
  (va1 :> [site |-> s1, term |-> m1, method |-> "VA"])
  @@ (ca1 :> [site |-> s1, term |-> m2, method |-> "CA"])

\* One deposit.
OneDeposit == va1 :> [site |-> s1, term |-> m1, method |-> "VA"]

\* Two deposits for the same site.
TwoDeposits ==
  (va1 :> [site |-> s1, term |-> m1, method |-> "VA"])
  @@ (va2 :> [site |-> s1, term |-> m2, method |-> "VA"])

\* Two deposits and a card, for the same site.
Three ==
  TwoDeposits @@ (ca1 :> [site |-> s1, term |-> m2, method |-> "CA"])

HandlerSymmetry == Permutations(Handlers)
=============================================================================
