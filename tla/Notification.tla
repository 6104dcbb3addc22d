---------------------------- MODULE Notification ----------------------------
(***************************************************************************)
(* The payment-result notifications of the payment gateway (PG), from the  *)
(* endpoint /agency/payment/api/result/noti to the rows of AGENCY_INFO and *)
(* AGENCY_PAYMENT_HISTORY ("PAYMENT" below).                               *)
(*                                                                         *)
(* A request is served by a thread (a handler).  It runs up to two         *)
(* database transactions, and other requests run between them:             *)
(*   - HectoFinancialServicePort.isCurrentPayment looks the trade up; a    *)
(*     row it finds stays in the request's persistence context;            *)
(*   - processPaymentCA / processPaymentVAPending merge a new row: a       *)
(*     SELECT decides between INSERT and UPDATE, the commit flushes it;    *)
(*     processPaymentVA works on the row of the first look-up, reads the   *)
(*     agency row and flushes both rows at its commit.                     *)
(* A transaction commits as a whole or, when it throws, not at all.  An    *)
(* UPDATE writes every column; no row carries a version.                   *)
(*                                                                         *)
(* The PG and the administrators' tool are not part of the repository:     *)
(* their actions are what the code says it expects of them.                *)
(***************************************************************************)
EXTENDS Entities

CONSTANTS
  Trades,           \* the PG's trade numbers (trdNo), the key of PAYMENT
  Order,            \* the order each trade pays for: site, term and method
  Handlers,         \* the request threads
  SettledSites,     \* sites whose AGENCY_INFO row has an AgencyPayment
  DateConversions,  \* the date conversions that return a value, see below
  NoNotice          \* no notification in hand

(***************************************************************************)
(* HectoFinancialAdapter converts its dates with LocalDate.from(Instant).  *)
(* On a JDK that conversion throws a DateTimeException for every argument, *)
(* which DateConversions = {} says.  "instant" \in DateConversions is the  *)
(* adapter with that conversion repaired; whatever follows it in the code  *)
(* is reachable only then.  The theorems hold for both.                    *)
(***************************************************************************)
Conversions == {"instant"}

ASSUME NotificationAssumption ==
  /\ Order \in [Trades -> [site : Sites, term : Terms, method : Methods]]
  /\ SettledSites \subseteq Sites
  /\ DateConversions \subseteq Conversions

\* outStatCd 0021 is a success and 0051 an account waiting for its deposit;
\* bizType B0 and B2 are card approvals, C0 stands for any other card event.
StatusCodes == {"0021", "0051", "0031"}
BizTypes    == {"A0", "B0", "B1", "B2", "C0"}
Notices     == [trade : Trades, outStatCd : StatusCodes, bizType : BizTypes]

ASSUME NoNoticeIsNoNotice == NoNotice \notin Notices

VARIABLES
  trades,    \* what happened to a trade at the PG: "new", "issued", "failed", "paid"
  sent,      \* the notifications the PG owes or has delivered
  acked,     \* those it saw answered OK, and delivers no more
  handler,   \* the request each thread serves
  payments,  \* table PAYMENT by trade number
  agencies   \* table AGENCY_INFO by site

pgVars == <<trades, sent>>
tables == <<payments, agencies>>
vars   == <<trades, sent, acked, handler, payments, agencies>>

HandlerState ==
  [at      : {"idle", "save", "apply", "flush", "reply"},
   notice  : Notices \union {NoNotice},
   payment : PaymentRow \union {NoRow},   \* the PAYMENT row the session read
   agency  : AgencyRow \union {NoRow},    \* the AGENCY_INFO row it read
   answer  : {"none", "OK", "FAIL", "ERROR"}]

Idle == [at |-> "idle", notice |-> NoNotice, payment |-> NoRow,
         agency |-> NoRow, answer |-> "none"]

\* What each variable may be; only what was sent is acknowledged.
TypeOK ==
  /\ trades \in [Trades -> {"new", "issued", "failed", "paid"}]
  /\ sent \subseteq Notices
  /\ acked \subseteq sent
  /\ handler \in [Handlers -> HandlerState]
  /\ payments \in [Trades -> PaymentRow \union {NoRow}]
  /\ agencies \in [Sites -> AgencyRow]

Init ==
  /\ trades = [t \in Trades |-> "new"]
  /\ sent = {}
  /\ acked = {}
  /\ handler = [h \in Handlers |-> Idle]
  /\ payments = [t \in Trades |-> NoRow]
  /\ \E c \in Companies :
       agencies = [s \in Sites |->
                     IF s \in SettledSites
                       THEN [addSite(c) EXCEPT !.payment = [term |-> NoTerm]]
                       ELSE addSite(c)]

-----------------------------------------------------------------------------
(* The payment gateway (external). *)

Notify(t, code, biz) ==
  /\ sent' = sent \union {[trade |-> t, outStatCd |-> code, bizType |-> biz]}
  /\ UNCHANGED <<acked, handler, tables>>

\* A virtual account is issued to the customer, who has not paid yet.
IssueAccount(t) ==
  /\ Order[t].method = "VA" /\ trades[t] = "new"
  /\ trades' = [trades EXCEPT ![t] = "issued"]
  /\ Notify(t, "0051", "A0")

\* The customer pays into the virtual account.
Deposit(t) ==
  /\ trades[t] = "issued"
  /\ trades' = [trades EXCEPT ![t] = "paid"]
  /\ Notify(t, "0021", "B1")

\* A card is charged: a single payment (B0) or one with a bill key (B2).
ApproveCard(t) ==
  /\ Order[t].method = "CA" /\ trades[t] = "new"
  /\ trades' = [trades EXCEPT ![t] = "paid"]
  /\ \E biz \in {"B0", "B2"} : Notify(t, "0021", biz)

\* A card is declined.
DeclineCard(t) ==
  /\ Order[t].method = "CA" /\ trades[t] = "new"
  /\ trades' = [trades EXCEPT ![t] = "failed"]
  /\ Notify(t, "0031", "B0")

\* Any other successful card event of the trade, such as its cancellation.
OtherCardEvent(t) ==
  /\ Order[t].method = "CA" /\ trades[t] = "paid"
  /\ UNCHANGED trades
  /\ Notify(t, "0021", "C0")

PaymentGateway ==
  \E t \in Trades : \/ IssueAccount(t) \/ Deposit(t)
                    \/ ApproveCard(t) \/ DeclineCard(t) \/ OtherCardEvent(t)

-----------------------------------------------------------------------------
(* The administrators' tool (external): it reviews, suspends and resumes a  *)
(* site, and reopens it for an extension.                                   *)

SetStatus(s, status) ==
  /\ agencies[s].status # status
  /\ agencies' = [agencies EXCEPT ![s].status = status]
  /\ UNCHANGED <<pgVars, acked, handler, payments>>

Reopen(s) ==
  /\ agencies[s].extension = "N"
  /\ agencies' = [agencies EXCEPT ![s].extension = "Y"]
  /\ UNCHANGED <<pgVars, acked, handler, payments>>

Administrator ==
  \E s \in Sites : \/ \E status \in {"Y", "N"} : SetStatus(s, status)
                   \/ Reopen(s)

-----------------------------------------------------------------------------
(* The first part of a request: HFController.requestNotification and        *)
(* HectoFinancialAdapter.responseMessage, up to the end of the first        *)
(* transaction.                                                             *)

Goto(h, state) ==
  /\ handler' = [handler EXCEPT ![h] = state]
  /\ UNCHANGED <<pgVars, acked>>

\* The request ends without having changed a row: return "FAIL", or an
\* exception that becomes an error response.
Refuse(h, answer) ==
  /\ Goto(h, [Idle EXCEPT !.at = "reply", !.answer = answer])
  /\ UNCHANGED tables

\* The request goes on to its second transaction with what it has read.
Proceed(h, n, at, payment) ==
  /\ Goto(h, [Idle EXCEPT !.at = at, !.notice = n, !.payment = payment])
  /\ UNCHANGED tables

\* The content of a request that passes the check of pktHash is one the PG
\* sent.  The PG delivers it until it has seen it answered OK, also while an
\* earlier delivery is still being served.
Authentic(n) == n \in sent \ acked

\* responseMessage parses the dates before it looks at anything else.
DatesConvert == "instant" \in DateConversions

\* pktHash is not the hash of the content: InvalidParameterException.
RejectHash(h) ==
  /\ handler[h].at = "idle"
  /\ Refuse(h, "ERROR")

Dispatched(h, n, code) ==
  handler[h].at = "idle" /\ Authentic(n) /\ DatesConvert /\ n.outStatCd = code

isCurrentPayment(t) == payments[t] = NoRow

\* Mutant of sendCAPayment: it knows the bill key payments only.
sendCAPayment_billKeyOnly(h, n) ==
  /\ Dispatched(h, n, "0021") /\ Order[n.trade].method = "CA"
  /\ IF isCurrentPayment(n.trade) /\ n.bizType = "B2"
       THEN Proceed(h, n, "save", NoRow)
       ELSE Refuse(h, "FAIL")

sendCAPayment(h, n) ==
  /\ Dispatched(h, n, "0021") /\ Order[n.trade].method = "CA"
  /\ IF isCurrentPayment(n.trade) /\ n.bizType \in {"B0", "B2"}
       THEN Proceed(h, n, "save", NoRow)
       ELSE Refuse(h, "FAIL")

\* Mutant of sendVAPayment: a deposit of an unknown trade is answered OK.
sendVAPayment_unknownIsOK(h, n) ==
  /\ Dispatched(h, n, "0021") /\ Order[n.trade].method = "VA"
  /\ IF isCurrentPayment(n.trade)
       THEN /\ Goto(h, [Idle EXCEPT !.at = "reply", !.notice = n, !.answer = "OK"])
            /\ UNCHANGED tables
       ELSE Proceed(h, n, "apply", payments[n.trade])

sendVAPayment(h, n) ==
  /\ Dispatched(h, n, "0021") /\ Order[n.trade].method = "VA"
  /\ IF isCurrentPayment(n.trade)
       THEN Refuse(h, "FAIL")
       ELSE Proceed(h, n, "apply", payments[n.trade])

\* Mutant of sendVAPendingPayment: a registered trade is registered again.
sendVAPendingPayment_again(h, n) ==
  Dispatched(h, n, "0051") /\ Proceed(h, n, "save", NoRow)

sendVAPendingPayment(h, n) ==
  /\ Dispatched(h, n, "0051")
  /\ IF isCurrentPayment(n.trade)
       THEN Proceed(h, n, "save", NoRow)
       ELSE Refuse(h, "FAIL")

\* The dates of an authentic notification do not convert: DateTimeException.  Or
\* they do, and an outStatCd of none of the above leaves resp = false.
ignoreNotice(h, n) ==
  /\ handler[h].at = "idle" /\ Authentic(n)
  /\ DatesConvert => n.outStatCd = "0031"
  /\ Refuse(h, IF DatesConvert THEN "FAIL" ELSE "ERROR")

-----------------------------------------------------------------------------
(* The second transaction. *)

\* The request answers OK once the transaction has committed.
Answered(h) ==
  [Idle EXCEPT !.at = "reply", !.notice = handler[h].notice, !.answer = "OK"]

\* processPaymentCA, processPaymentVAPending: the SELECT of save's merge.  The
\* first look-up found nothing, so nothing is cached and the table is read again.
MergeSelect(h) ==
  LET n == handler[h].notice IN
  /\ handler[h].at = "save"
  /\ Proceed(h, n, "flush", payments[n.trade])

\* The row processPaymentCA or processPaymentVAPending builds from the request.
NewPayment(n) ==
  LET o == Order[n.trade] IN
  IF n.outStatCd = "0021" THEN ofCA(o.site, o.term, o.method)
                          ELSE ofVAPending(o.site, o.term, o.method)

IsDeposit(n) == n.outStatCd = "0021" /\ Order[n.trade].method = "VA"

\* Mutant of CommitSave: a registered payment opens the service at once.
CommitSave_opens(h) ==
  LET n == handler[h].notice
      o == Order[n.trade] IN
  /\ handler[h].at = "flush" /\ ~IsDeposit(n)
  /\ payments' = [payments EXCEPT ![n.trade] = NewPayment(n)]
  /\ agencies' = [agencies EXCEPT ![o.site].extension = "N"]
  /\ Goto(h, Answered(h))

\* ... and the commit.  The merge planned an INSERT, which fails when another
\* request has inserted the row, or an UPDATE of the whole row.
CommitSave(h) ==
  LET n == handler[h].notice IN
  /\ handler[h].at = "flush" /\ ~IsDeposit(n)
  /\ IF handler[h].payment = NoRow /\ payments[n.trade] # NoRow
       THEN Refuse(h, "ERROR")
       ELSE /\ payments' = [payments EXCEPT ![n.trade] = NewPayment(n)]
            /\ Goto(h, Answered(h))
            /\ UNCHANGED agencies

\* processPaymentVA up to its commit: it reads the agency row; the payment row
\* is the one the first transaction cached.  An exception rolls back.
LoadAgency(h) ==
  LET agency == agencies[Order[handler[h].notice.trade].site] IN
  /\ handler[h].at = "apply"
  /\ IF TakesDeposit(agency)
       THEN /\ Goto(h, [handler[h] EXCEPT !.at = "flush", !.agency = agency])
            /\ UNCHANGED tables
       ELSE Refuse(h, "ERROR")

\* Mutant of CommitDeposit: the agency row is not written.
CommitDeposit_paymentOnly(h) ==
  LET n == handler[h].notice
      o == Order[n.trade] IN
  /\ handler[h].at = "flush" /\ IsDeposit(n)
  /\ payments' = [payments EXCEPT ![n.trade] = ofVA(handler[h].payment, o.method)]
  /\ UNCHANGED agencies
  /\ Goto(h, Answered(h))

\* The commit of processPaymentVA writes both rows.
CommitDeposit(h) ==
  LET n == handler[h].notice
      o == Order[n.trade] IN
  /\ handler[h].at = "flush" /\ IsDeposit(n)
  /\ payments' = [payments EXCEPT ![n.trade] = ofVA(handler[h].payment, o.method)]
  /\ agencies' = [agencies EXCEPT ![o.site] =
                    updateAgencyByVAPending(handler[h].agency, o.term)]
  /\ Goto(h, Answered(h))

-----------------------------------------------------------------------------
(* The response, and the failures around it. *)

\* Mutant of Respond: any answer ends the deliveries.
Respond_anyAnswer(h) ==
  /\ handler[h].at = "reply"
  /\ acked' = acked \union {handler[h].notice}
  /\ handler' = [handler EXCEPT ![h] = Idle]
  /\ UNCHANGED <<pgVars, tables>>

\* The PG sees the answer; only OK ends its deliveries.
Respond(h) ==
  /\ handler[h].at = "reply"
  /\ acked' = IF handler[h].answer = "OK" THEN acked \union {handler[h].notice}
                                          ELSE acked
  /\ handler' = [handler EXCEPT ![h] = Idle]
  /\ UNCHANGED <<pgVars, tables>>

\* The connection breaks, or the server stops, before the PG has the answer:
\* an open transaction is rolled back, a committed one stays.  (To lose the
\* answer of a refusal is no different from delivering it.)
Abandon(h) ==
  /\ handler[h].at # "idle"
  /\ handler[h].at = "reply" => handler[h].answer = "OK"
  /\ Goto(h, Idle)
  /\ UNCHANGED tables

Receive(h, n) ==
  \/ sendCAPayment(h, n) \/ sendVAPayment(h, n)
  \/ sendVAPendingPayment(h, n) \/ ignoreNotice(h, n)

Serve(h) ==
  \/ MergeSelect(h) \/ CommitSave(h)
  \/ LoadAgency(h) \/ CommitDeposit(h)
  \/ Respond(h)

Server ==
  \E h \in Handlers : \/ RejectHash(h)
                      \/ \E n \in sent : Receive(h, n)
                      \/ Serve(h)
                      \/ Abandon(h)

Next == PaymentGateway \/ Administrator \/ Server

Spec == Init /\ [][Next]_vars

(***************************************************************************)
(* Fairness.  A thread that has work goes on with it.  The PG keeps        *)
(* delivering a notification until it is answered OK, so one that can be   *)
(* received again and again is received.  Broken connections and server    *)
(* stops end eventually.                                                   *)
(***************************************************************************)
PaymentNotices ==
  {n \in Notices : <<Order[n.trade].method, n.outStatCd, n.bizType>> \in
                     {<<"VA", "0051", "A0">>, <<"VA", "0021", "B1">>,
                      <<"CA", "0021", "B0">>, <<"CA", "0021", "B2">>}}

Fairness ==
  /\ \A h \in Handlers : WF_vars(Serve(h))
  /\ \A n \in PaymentNotices : SF_vars(\E h \in Handlers : n \in sent /\ Receive(h, n))
  /\ <>[][\A h \in Handlers : ~Abandon(h)]_vars

FairSpec == Spec /\ Fairness

-----------------------------------------------------------------------------
(* Safety. *)

Used(t) == payments[t] # NoRow /\ payments[t].trTrace = "Y"

PaidDeposit(t, s) ==
  Order[t].method = "VA" /\ Order[t].site = s /\ trades[t] = "paid"

\* A PAYMENT row says what its trade's order says, whichever requests wrote it
\* in whichever order, and it counts as used (TR_TRACE Y, PAYMENT_STATUS Y) only
\* when the money has arrived; a card's row is never a waiting one.
RowMatches(t) ==
  LET row == payments[t] IN
  row # NoRow =>
    /\ row.site = Order[t].site /\ row.term = Order[t].term
    /\ row.paymentType = Order[t].method
    /\ row.trTrace = "Y" => row.paymentStatus = "Y" /\ trades[t] = "paid"
    /\ row.trTrace = "N" => row.paymentStatus = "M" /\ Order[t].method = "VA"

RowsMatchTrades == \A t \in Trades : RowMatches(t)

\* What a request that answers OK to n has done.
Recorded(n) ==
  /\ payments[n.trade] # NoRow
  /\ Order[n.trade].method = "CA" => Used(n.trade)
  /\ IsDeposit(n) => agencies[Order[n.trade].site].extension # "D"

\* OK is final for the PG: it delivers no more.  So a notification answered OK
\* has left a row behind, a used one for a card, and an answered deposit has
\* taken its site out of the state of a first application.
AcknowledgedIsRecorded == \A n \in acked : Recorded(n)

\* processPaymentVA writes the payment and the site in one transaction: no crash,
\* exception or second request leaves a used deposit whose site is still as it
\* was registered.
UsedDepositActivates ==
  \A t \in Trades :
    Order[t].method = "VA" /\ Used(t) => agencies[Order[t].site].extension # "D"

PaidFor(agency, s) ==
  /\ agency.extension # "D" => \E t \in Trades : PaidDeposit(t, s)
  /\ agency.payment # NoPayment /\ agency.payment.term # NoTerm =>
       \E t \in Trades : PaidDeposit(t, s) /\ Order[t].term = agency.payment.term

\* A site leaves the state of a first application, and gets a term, only through
\* a paid deposit of its own; the term is the one that deposit's order bought.
ServiceIsPaidFor ==
  \A s \in Sites : PaidFor(agencies[s], s)

-----------------------------------------------------------------------------
(* The inductive invariant behind the safety properties: what was sent says *)
(* what happened at the PG, and what a request holds between its            *)
(* transactions is still true of the trade, though it may be stale.         *)

SentMatchesTrades ==
  \A n \in sent : /\ n.outStatCd = "0021" => trades[n.trade] = "paid"
                  /\ n.outStatCd = "0051" => Order[n.trade].method = "VA"

\* A row the session holds is of the trade's order.
HeldRowMatches(h) ==
  LET t == handler[h].notice.trade IN
  /\ handler[h].payment # NoRow
  /\ handler[h].payment.site = Order[t].site
  /\ handler[h].payment.term = Order[t].term

RequestMatches(h) ==
  LET n == handler[h].notice IN
  /\ handler[h].at \in {"save", "apply", "flush"} =>
       n \in sent /\ n.outStatCd \in {"0021", "0051"}
  /\ handler[h].at = "save" => ~IsDeposit(n)
  /\ handler[h].at = "apply" => IsDeposit(n) /\ HeldRowMatches(h)
  /\ handler[h].at = "flush" /\ IsDeposit(n) =>
       /\ HeldRowMatches(h)
       /\ handler[h].agency # NoRow
       /\ TakesDeposit(handler[h].agency)
       /\ PaidFor(handler[h].agency, Order[n.trade].site)
  /\ handler[h].at = "reply" /\ handler[h].answer = "OK" => n \in sent /\ Recorded(n)

RequestsMatchTrades == \A h \in Handlers : RequestMatches(h)

Inv ==
  /\ TypeOK
  /\ SentMatchesTrades
  /\ RequestsMatchTrades
  /\ RowsMatchTrades
  /\ AcknowledgedIsRecorded
  /\ UsedDepositActivates
  /\ ServiceIsPaidFor

\* With one thread nothing changes under a request: what it has read is still
\* in the tables when it commits.
ReadsAreFresh ==
  \A h \in Handlers :
    LET n == handler[h].notice IN
    /\ handler[h].at = "save" => payments[n.trade] = NoRow
    /\ handler[h].at = "flush" /\ ~IsDeposit(n) =>
         handler[h].payment = NoRow /\ payments[n.trade] = NoRow
    /\ handler[h].at \in {"apply", "flush"} /\ IsDeposit(n) => payments[n.trade] # NoRow
    /\ handler[h].at = "flush" /\ IsDeposit(n) =>
         agencies[Order[n.trade].site].extension = handler[h].agency.extension

-----------------------------------------------------------------------------
(* Action properties. *)

\* A payment once recorded as used is never taken back to waiting for its
\* deposit, and its row never disappears.
PaidRowStaysPaid ==
  [][\A t \in Trades : Used(t) => Used(t)']_vars

-----------------------------------------------------------------------------
(* Liveness and refinement. *)

\* A deposit that can be applied: its site has an AgencyPayment.
Recordable(t) == Order[t].method = "VA" => Order[t].site \in SettledSites

\* Another deposit of the site has come first, and the site takes no more until it
\* is opened for its extension.
OvertakenByAnother(t) ==
  /\ Order[t].method = "VA" /\ agencies[Order[t].site].extension = "N"
  /\ \E u \in Trades \ {t} : PaidDeposit(u, Order[t].site) /\ Used(u)

\* The money of a trade that has arrived is recorded, whatever was lost, damaged
\* or delivered before its time on the way, unless another deposit has already
\* paid for its site.
PaymentsRecorded ==
  \A t \in Trades :
    Recordable(t) => (trades[t] = "paid" ~> Used(t) \/ OvertakenByAnother(t))

\* A paid deposit opens the service of its site: the site leaves the state of a
\* first application.
DepositsOpenService ==
  \A t \in Trades :
    Order[t].method = "VA" =>
      (trades[t] = "paid" ~> agencies[Order[t].site].extension # "D")

\* The ledger the tables stand for.
SiteOf   == [t \in Trades |-> Order[t].site]
Deposits == {t \in Trades : Order[t].method = "VA"}
received == {t \in Trades : trades[t] = "paid"}
entry    == [t \in Trades |-> IF payments[t] = NoRow THEN "none"
                              ELSE IF payments[t].trTrace = "Y" THEN "paid"
                              ELSE "awaiting"]
service  == [s \in Sites |-> IF agencies[s].extension = "D" THEN "applied"
                             ELSE IF agencies[s].extension = "N" THEN "closed"
                             ELSE "open"]

L == INSTANCE Ledger

\* Served one at a time, the notifications keep the ledger's promises: entries
\* only advance, and a deposit and the service it pays for are one step.
LedgerSpec == L!Spec

==============================================================================
