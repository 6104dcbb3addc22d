------------------------------- MODULE Entities -------------------------------
(***************************************************************************)
(* The rows of the two tables the module writes, AGENCY_INFO (entity       *)
(* Agency) and AGENCY_PAYMENT_HISTORY (entity Payment), and the pure       *)
(* constructors the domain classes offer for them.  A constructor returns  *)
(* a new row; saving it is the business of the component that calls it.    *)
(*                                                                         *)
(* What a customer bought (rate, first and last day of use) is one value,  *)
(* a term: the code only ever copies the three columns together.           *)
(***************************************************************************)
CONSTANTS
  Sites,      \* SITE_ID values
  Terms,      \* RATE_SEL, START_DATE and END_DATE of an order
  Companies,  \* what a registration form says of the company and its manager
  NoRow,      \* what find returns when the table has no such row (null)
  NoTerm,     \* RATE_SEL, START_DATE and END_DATE all null
  NoPayment   \* the embedded AgencyPayment is null: all its columns are null

\* EnumSiteStatus, EnumExtensionStatus, EnumTradeTrace, EnumPaymentStatus.
SiteStatus      == {"Y", "N", "E", "D", "H", "R", "P"}
ExtensionStatus == {"D", "Y", "N"}
TradeTrace      == {"N", "Y"}
PaymentStatus   == {"N", "Y", "M"}

\* The payment methods of the checkout page.
Methods == {"CA", "VA"}

AgencyPayment == [term : Terms \union {NoTerm}]

AgencyRow == [status    : SiteStatus,
              extension : ExtensionStatus,
              company   : Companies,
              payment   : AgencyPayment \union {NoPayment}]

PaymentRow == [site          : Sites,
               term          : Terms,
               paymentType   : Methods,
               trTrace       : TradeTrace,
               paymentStatus : PaymentStatus]

ASSUME NullsAreNoValues ==
  /\ NoRow \notin AgencyRow \union PaymentRow
  /\ NoTerm \notin Terms
  /\ NoPayment \notin AgencyPayment

-----------------------------------------------------------------------------
\* Agency.addSite: the row of a fresh registration.  It keeps the company and
\* the manager of the form and drops its AgencyPayment.
addSite(company) ==
  [status |-> "H", extension |-> "D", company |-> company, payment |-> NoPayment]

\* AgencyPayment.updateAgencyPayment: the bought term replaces the old one.
\* It dereferences the old value, which must not be null.
updateAgencyPayment(payment, term) == [payment EXCEPT !.term = term]

\* Mutant of TakesDeposit: checkedExtendable is not asked.
TakesDeposit_unchecked(agency) ==
  agency.extension = "D" => agency.payment # NoPayment

\* PaymentService.processPaymentVA, then Agency.updateAgencyByVAPending: can the
\* site's row take a deposit?  NoPayment is dereferenced only when extension = D.
TakesDeposit(agency) ==
  /\ agency.extension = "D" => agency.payment # NoPayment
  /\ agency.extension # "N"

\* The row of a site that took a deposit.  Only a first application (D) copies
\* the bought term; an extension (Y) leaves the term as it was.
updateAgencyByVAPending(agency, term) ==
  [agency EXCEPT !.status    = "Y",
                 !.extension = "N",
                 !.payment   = IF agency.extension = "D"
                                 THEN updateAgencyPayment(agency.payment, term)
                                 ELSE agency.payment]

-----------------------------------------------------------------------------
\* Payment.ofCA with the details processPaymentCA gives it.
ofCA(site, term, method) ==
  [site |-> site, term |-> term, paymentType |-> method,
   trTrace |-> "Y", paymentStatus |-> "Y"]

\* Mutant of ofVAPending: the trade trace of ofVA.
ofVAPending_traced(site, term, method) ==
  [site |-> site, term |-> term, paymentType |-> method,
   trTrace |-> "Y", paymentStatus |-> "M"]

\* Payment.ofVAPending with the details processPaymentVAPending gives it.
ofVAPending(site, term, method) ==
  [site |-> site, term |-> term, paymentType |-> method,
   trTrace |-> "N", paymentStatus |-> "M"]

\* Payment.ofVA: the details are replaced, site and term are those of the row
\* that was loaded.
ofVA(payment, method) ==
  [payment EXCEPT !.paymentType = method, !.trTrace = "Y", !.paymentStatus = "Y"]
=============================================================================
