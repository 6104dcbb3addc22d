------------------------- MODULE NotificationProofs -------------------------
(* Safety of the notification handling, for any trades, sites and threads, and that it
   implements Ledger, with one thread.                                              *)
EXTENDS Notification, TLAPS

USE NullsAreNoValues, NotificationAssumption, NoNoticeIsNoNotice

-----------------------------------------------------------------------------
\* A notice names a trade whose order is well formed.
LEMMA OrderType ==
  ASSUME NEW n \in Notices
  PROVE  /\ n.trade \in Trades
         /\ Order[n.trade] \in [site : Sites, term : Terms, method : Methods]
         /\ Order[n.trade].site \in Sites
BY DEF Notices

(* The row constructors return rows. *)

\* PaymentHistory.ofCA builds a row.
LEMMA ofCAType ==
  ASSUME NEW s \in Sites, NEW m \in Terms, NEW x \in Methods
  PROVE  ofCA(s, m, x) \in PaymentRow
BY DEF ofCA, PaymentRow, TradeTrace, PaymentStatus

\* PaymentHistory.ofVAPending builds a row.
LEMMA ofVAPendingType ==
  ASSUME NEW s \in Sites, NEW m \in Terms, NEW x \in Methods
  PROVE  ofVAPending(s, m, x) \in PaymentRow
BY DEF ofVAPending, PaymentRow, TradeTrace, PaymentStatus

\* PaymentHistory.ofVA makes a row of a row.
LEMMA ofVAType ==
  ASSUME NEW r \in PaymentRow, NEW x \in Methods
  PROVE  ofVA(r, x) \in PaymentRow
BY DEF ofVA, PaymentRow, TradeTrace, PaymentStatus

\* Agency.addSite builds a row.
LEMMA addSiteType ==
  ASSUME NEW c \in Companies
  PROVE  addSite(c) \in AgencyRow
BY DEF addSite, AgencyRow, SiteStatus, ExtensionStatus

\* An agency row that takes a deposit is a row after it.
LEMMA updateAgencyType ==
  ASSUME NEW a \in AgencyRow, NEW m \in Terms, TakesDeposit(a)
  PROVE  updateAgencyByVAPending(a, m) \in AgencyRow
<1> DEFINE p == IF a.extension = "D" THEN updateAgencyPayment(a.payment, m)
                                     ELSE a.payment
<1>1. p \in AgencyPayment \union {NoPayment}
  BY DEF AgencyRow, AgencyPayment, TakesDeposit, updateAgencyPayment
<1> QED
  BY <1>1 DEF updateAgencyByVAPending, AgencyRow, SiteStatus, ExtensionStatus

\* The row a card payment or a waiting account is registered with.
LEMMA NewPaymentType ==
  ASSUME NEW n \in Notices
  PROVE  /\ NewPayment(n) \in PaymentRow
         /\ NewPayment(n).site = Order[n.trade].site
         /\ NewPayment(n).term = Order[n.trade].term
         /\ NewPayment(n).paymentType = Order[n.trade].method
         /\ n.outStatCd = "0021" =>
              NewPayment(n).trTrace = "Y" /\ NewPayment(n).paymentStatus = "Y"
         /\ n.outStatCd # "0021" =>
              NewPayment(n).trTrace = "N" /\ NewPayment(n).paymentStatus = "M"
<1>1. Order[n.trade] \in [site : Sites, term : Terms, method : Methods]
  BY DEF Notices
<1> QED
  BY <1>1, ofCAType, ofVAPendingType DEF NewPayment, ofCA, ofVAPending

-----------------------------------------------------------------------------
(* Type correctness. *)

\* An idle thread is well typed.
LEMMA IdleType == Idle \in HandlerState
BY DEF Idle, HandlerState

\* A request that has read an agency row still holds its notice and its payment row.
LEMMA HoldAgencyType ==
  ASSUME NEW w \in HandlerState, NEW a \in AgencyRow
  PROVE  LET v == [w EXCEPT !.at = "flush", !.agency = a] IN
         /\ v \in HandlerState
         /\ v.at = "flush" /\ v.agency = a
         /\ v.notice = w.notice /\ v.payment = w.payment
BY DEF HandlerState

\* The administrators' writes keep the agency row a row.
LEMMA AdminType ==
  ASSUME NEW a \in AgencyRow, NEW x \in SiteStatus, NEW y \in ExtensionStatus
  PROVE  /\ [a EXCEPT !.status = x] \in AgencyRow
         /\ [a EXCEPT !.extension = y] \in AgencyRow
BY DEF AgencyRow

\* A step of one request leaves the other requests and the PG alone.
LEMMA GotoType ==
  ASSUME TypeOK, NEW h \in Handlers, NEW state \in HandlerState, Goto(h, state)
  PROVE  /\ handler' \in [Handlers -> HandlerState]
         /\ handler'[h] = state
         /\ \A g \in Handlers \ {h} : handler'[g] = handler[g]
         /\ UNCHANGED <<trades, sent, acked>>
BY DEF Goto, TypeOK, pgVars

\* A refusal ends the request without a trace in the tables.
LEMMA RefuseType ==
  ASSUME TypeOK, NEW h \in Handlers, NEW a \in {"FAIL", "ERROR"}, Refuse(h, a)
  PROVE  /\ handler' \in [Handlers -> HandlerState]
         /\ handler'[h].at = "reply" /\ handler'[h].answer = a
         /\ \A g \in Handlers \ {h} : handler'[g] = handler[g]
         /\ UNCHANGED <<trades, sent, acked, payments, agencies>>
<1> DEFINE state == [Idle EXCEPT !.at = "reply", !.answer = a]
<1>1. state \in HandlerState /\ state.at = "reply" /\ state.answer = a
  BY DEF Idle, HandlerState
<1> QED
  BY <1>1, GotoType DEF Refuse, tables

\* A request that goes on holds its notice and the row it has read.
LEMMA ProceedType ==
  ASSUME TypeOK, NEW h \in Handlers, NEW n \in Notices, NEW at \in {"save", "apply", "flush"},
         NEW p \in PaymentRow \union {NoRow}, Proceed(h, n, at, p)
  PROVE  /\ handler' \in [Handlers -> HandlerState]
         /\ handler'[h].at = at /\ handler'[h].notice = n /\ handler'[h].payment = p
         /\ \A g \in Handlers \ {h} : handler'[g] = handler[g]
         /\ UNCHANGED <<trades, sent, acked, payments, agencies>>
<1> DEFINE state == [Idle EXCEPT !.at = at, !.notice = n, !.payment = p]
<1>1. state \in HandlerState /\ state.at = at /\ state.notice = n /\ state.payment = p
  BY DEF Idle, HandlerState
<1> QED
  BY <1>1, GotoType DEF Proceed, tables

\* A committed request answers OK to the notice it served.
LEMMA AnsweredType ==
  ASSUME TypeOK, NEW h \in Handlers, Goto(h, Answered(h))
  PROVE  /\ handler' \in [Handlers -> HandlerState]
         /\ handler'[h].at = "reply" /\ handler'[h].answer = "OK"
         /\ handler'[h].notice = handler[h].notice
         /\ \A g \in Handlers \ {h} : handler'[g] = handler[g]
         /\ UNCHANGED <<trades, sent, acked>>
<1>1. /\ Answered(h) \in HandlerState
      /\ Answered(h).at = "reply" /\ Answered(h).answer = "OK"
      /\ Answered(h).notice = handler[h].notice
  BY DEF Answered, Idle, HandlerState, TypeOK
<1> QED
  BY <1>1, GotoType

\* What every step of a typed state leaves typed.
LEMMA TypeStep ==
  ASSUME TypeOK, SentMatchesTrades, RequestsMatchTrades, [Next]_vars
  PROVE  TypeOK'
<1> USE DEF TypeOK
<1>1. ASSUME NEW t \in Trades,
             IssueAccount(t) \/ Deposit(t) \/ ApproveCard(t) \/ DeclineCard(t) \/ OtherCardEvent(t)
      PROVE  TypeOK'
  BY <1>1 DEF IssueAccount, Deposit, ApproveCard, DeclineCard, OtherCardEvent, Notify,
              Notices, StatusCodes, BizTypes, tables
<1>2. ASSUME NEW s \in Sites, NEW status \in {"Y", "N"}, SetStatus(s, status) \/ Reopen(s)
      PROVE  TypeOK'
  <2>1. /\ [agencies[s] EXCEPT !.status = status] \in AgencyRow
        /\ [agencies[s] EXCEPT !.extension = "Y"] \in AgencyRow
    BY AdminType DEF SiteStatus, ExtensionStatus
  <2> QED
    BY <1>2, <2>1 DEF SetStatus, Reopen, pgVars
<1>3. ASSUME NEW h \in Handlers, RejectHash(h)
      PROVE  TypeOK'
  BY <1>3, RefuseType DEF RejectHash
<1>4. ASSUME NEW h \in Handlers, NEW n \in sent, Receive(h, n)
      PROVE  TypeOK'
  <2>1. n \in Notices /\ n.trade \in Trades /\ payments[n.trade] \in PaymentRow \union {NoRow}
    BY DEF Notices
  <2>2. \/ \E a \in {"FAIL", "ERROR"} : Refuse(h, a)
        \/ \E at \in {"save", "apply", "flush"}, q \in PaymentRow \union {NoRow} : Proceed(h, n, at, q)
    BY <1>4, <2>1 DEF Receive, sendCAPayment, sendVAPayment,
                      sendVAPendingPayment, ignoreNotice
  <2> QED
    BY <2>1, <2>2, RefuseType, ProceedType
<1>5. ASSUME NEW h \in Handlers, MergeSelect(h)
      PROVE  TypeOK'
  <2>1. handler[h].notice \in Notices
    BY <1>5 DEF MergeSelect, RequestsMatchTrades, RequestMatches
  <2> QED
    BY <1>5, <2>1, ProceedType DEF MergeSelect, Notices
<1>6. ASSUME NEW h \in Handlers, CommitSave(h)
      PROVE  TypeOK'
  <2>1. handler[h].notice \in Notices
    BY <1>6 DEF CommitSave, RequestsMatchTrades, RequestMatches
  <2> QED
    BY <1>6, <2>1, RefuseType, AnsweredType, NewPaymentType DEF CommitSave, Notices
<1>7. ASSUME NEW h \in Handlers, LoadAgency(h)
      PROVE  TypeOK'
  <2>1. handler[h].notice \in Notices
    BY <1>7 DEF LoadAgency, RequestsMatchTrades, RequestMatches
  <2>2. Order[handler[h].notice.trade].site \in Sites
    BY <2>1 DEF Notices
  <2>3. \A a \in AgencyRow : [handler[h] EXCEPT !.at = "flush", !.agency = a] \in HandlerState
    BY HoldAgencyType
  <2> QED
    BY <1>7, <2>2, <2>3, RefuseType, GotoType DEF LoadAgency, tables
<1>8. ASSUME NEW h \in Handlers, CommitDeposit(h)
      PROVE  TypeOK'
  <2>1. /\ handler[h].notice \in Notices
        /\ handler[h].payment \in PaymentRow
        /\ handler[h].agency \in AgencyRow /\ TakesDeposit(handler[h].agency)
    BY <1>8 DEF CommitDeposit, RequestsMatchTrades, RequestMatches, HeldRowMatches, HandlerState
  <2>2. Order[handler[h].notice.trade] \in [site : Sites, term : Terms, method : Methods]
    BY <2>1 DEF Notices
  <2> QED
    BY <1>8, <2>1, <2>2, AnsweredType, ofVAType, updateAgencyType DEF CommitDeposit
<1>9. ASSUME NEW h \in Handlers, Respond(h)
      PROVE  TypeOK'
  BY <1>9, IdleType DEF Respond, RequestsMatchTrades, RequestMatches, pgVars, tables
<1>10. ASSUME NEW h \in Handlers, Abandon(h)
       PROVE  TypeOK'
  BY <1>10, IdleType, GotoType DEF Abandon, tables
<1>11. CASE UNCHANGED vars
  BY <1>11 DEF vars
<1> QED
  BY <1>1, <1>2, <1>3, <1>4, <1>5, <1>6, <1>7, <1>8, <1>9, <1>10, <1>11
     DEF Next, PaymentGateway, Administrator, Server, Serve

-----------------------------------------------------------------------------
(* What no step ever takes back.  The evidence a row or a request holds about *)
(* the past therefore stays good while other requests run.                    *)

Advance ==
  /\ \A t \in Trades : trades[t] = "paid" => trades'[t] = "paid"
  /\ sent \subseteq sent'
  /\ \A t \in Trades : payments[t] # NoRow =>
       /\ payments'[t] # NoRow
       /\ Order[t].method = "CA" /\ Used(t) => Used(t)'
  /\ \A s \in Sites : agencies[s].extension # "D" => agencies'[s].extension # "D"

\* A step of a request other than a commit leaves both tables and the PG alone.
LEMMA AdvanceStep ==
  ASSUME TypeOK, TypeOK', SentMatchesTrades, RequestsMatchTrades, [Next]_vars
  PROVE  Advance
<1> USE DEF Advance, Used
<1>1. ASSUME NEW t \in Trades,
             IssueAccount(t) \/ Deposit(t) \/ ApproveCard(t) \/ DeclineCard(t) \/ OtherCardEvent(t)
      PROVE  Advance
  BY <1>1 DEF TypeOK, IssueAccount, Deposit, ApproveCard, DeclineCard, OtherCardEvent, Notify,
              tables
<1>2. ASSUME NEW s \in Sites, NEW status \in {"Y", "N"}, SetStatus(s, status) \/ Reopen(s)
      PROVE  Advance
  <2>1. agencies[s].extension # "D" => agencies'[s].extension # "D"
    BY <1>2 DEF TypeOK, SetStatus, Reopen, AgencyRow
  <2>2. \A r \in Sites \ {s} : agencies'[r] = agencies[r]
    BY <1>2 DEF TypeOK, SetStatus, Reopen
  <2> QED
    BY <1>2, <2>1, <2>2 DEF SetStatus, Reopen, pgVars
<1>3. ASSUME UNCHANGED <<trades, sent, payments, agencies>>
      PROVE  Advance
  BY <1>3
<1>4. ASSUME NEW h \in Handlers, CommitSave(h)
      PROVE  Advance
  <2>1. handler[h].notice \in Notices /\ handler[h].notice \in sent
        /\ handler[h].notice.trade \in Trades
    BY <1>4 DEF CommitSave, RequestsMatchTrades, RequestMatches, TypeOK, Notices
  <2>2. CASE Refuse(h, "ERROR")
    BY <2>2, <1>3 DEF Refuse, Goto, pgVars, tables
  <2>3. CASE /\ payments' = [payments EXCEPT ![handler[h].notice.trade] = NewPayment(handler[h].notice)]
             /\ Goto(h, Answered(h)) /\ UNCHANGED agencies
    <3>1. NewPayment(handler[h].notice) # NoRow
      BY <2>1, NewPaymentType
    <3>2. Order[handler[h].notice.trade].method = "CA" => NewPayment(handler[h].notice).trTrace = "Y"
      BY <1>4, <2>1, NewPaymentType DEF CommitSave, RequestsMatchTrades, RequestMatches, SentMatchesTrades
    <3> QED
      BY <2>1, <2>3, <3>1, <3>2 DEF Goto, pgVars, TypeOK
  <2> QED
    BY <1>4, <2>2, <2>3 DEF CommitSave
<1>5. ASSUME NEW h \in Handlers, CommitDeposit(h)
      PROVE  Advance
  <2> DEFINE t == handler[h].notice.trade
             r == ofVA(handler[h].payment, Order[t].method)
             a == updateAgencyByVAPending(handler[h].agency, Order[t].term)
  <2>1. /\ handler[h].notice \in Notices
        /\ handler[h].payment \in PaymentRow
        /\ handler[h].agency \in AgencyRow /\ TakesDeposit(handler[h].agency)
    BY <1>5 DEF CommitDeposit, RequestsMatchTrades, RequestMatches, HeldRowMatches, HandlerState, TypeOK
  <2>2. t \in Trades /\ Order[t] \in [site : Sites, term : Terms, method : Methods]
    BY <2>1 DEF Notices
  <2>3. r \in PaymentRow /\ r.trTrace = "Y"
    BY <2>1, <2>2, ofVAType DEF ofVA, PaymentRow
  <2>4. a.extension = "N"
    BY <2>1 DEF updateAgencyByVAPending, AgencyRow
  <2>5. /\ payments' = [payments EXCEPT ![t] = r]
        /\ agencies' = [agencies EXCEPT ![Order[t].site] = a]
        /\ UNCHANGED <<trades, sent>>
    BY <1>5 DEF CommitDeposit, Goto, pgVars
  <2> HIDE DEF t, r, a
  <2>6. payments'[t] = r /\ \A u \in Trades \ {t} : payments'[u] = payments[u]
    BY <2>2, <2>5 DEF TypeOK
  <2>7. /\ agencies'[Order[t].site] = a
        /\ \A s \in Sites \ {Order[t].site} : agencies'[s] = agencies[s]
    BY <2>2, <2>5 DEF TypeOK
  <2> QED
    BY <2>3, <2>4, <2>5, <2>6, <2>7
<1>6. ASSUME NEW h \in Handlers,
             RejectHash(h) \/ (\E n \in sent : Receive(h, n)) \/ MergeSelect(h) \/ LoadAgency(h)
               \/ Respond(h) \/ Abandon(h)
      PROVE  Advance
  BY <1>3, <1>6 DEF RejectHash, Receive, sendCAPayment, sendVAPayment,
        sendVAPendingPayment, ignoreNotice, MergeSelect, LoadAgency, Respond, Abandon,
        Refuse, Proceed, Goto, pgVars, tables
<1>7. CASE UNCHANGED vars
  BY <1>3, <1>7 DEF vars
<1> QED
  BY <1>1, <1>2, <1>4, <1>5, <1>6, <1>7
     DEF Next, PaymentGateway, Administrator, Server, Serve

\* What justifies a term or an OK is never taken back.
LEMMA EvidenceStays ==
  ASSUME TypeOK, Advance
  PROVE  /\ \A a \in AgencyRow, s \in Sites : PaidFor(a, s) => PaidFor(a, s)'
         /\ \A n \in Notices : Recorded(n) => Recorded(n)'
<1>1. ASSUME NEW a \in AgencyRow, NEW s \in Sites, PaidFor(a, s)
      PROVE  PaidFor(a, s)'
  <2>1. \A t \in Trades : PaidDeposit(t, s) => PaidDeposit(t, s)'
    BY DEF Advance, PaidDeposit
  <2> QED
    BY <1>1, <2>1 DEF PaidFor
<1>2. ASSUME NEW n \in Notices, Recorded(n)
      PROVE  Recorded(n)'
  <2>1. n.trade \in Trades /\ Order[n.trade].site \in Sites
    BY DEF Notices
  <2>2. payments'[n.trade] # NoRow
    BY <1>2, <2>1 DEF Advance, Recorded
  <2>3. Order[n.trade].method = "CA" => Used(n.trade)'
    BY <1>2, <2>1 DEF Advance, Recorded
  <2>4. IsDeposit(n) => agencies'[Order[n.trade].site].extension # "D"
    BY <1>2, <2>1 DEF Advance, Recorded
  <2> QED
    BY <2>2, <2>3, <2>4 DEF Recorded, IsDeposit
<1> QED
  BY <1>1, <1>2

\* A request that a step leaves alone keeps its part of the invariant.
LEMMA BystanderMatches ==
  ASSUME TypeOK, Advance, NEW h \in Handlers, RequestMatches(h), handler'[h] = handler[h]
  PROVE  RequestMatches(h)'
<1>1. handler[h] \in HandlerState
  BY DEF TypeOK
<1>2. sent \subseteq Notices /\ sent \subseteq sent'
  BY DEF TypeOK, Advance
<1>3. handler[h].at = "flush" /\ IsDeposit(handler[h].notice) =>
        PaidFor(handler[h].agency, Order[handler[h].notice.trade].site)'
  <2> SUFFICES ASSUME handler[h].at = "flush", IsDeposit(handler[h].notice)
               PROVE  PaidFor(handler[h].agency, Order[handler[h].notice.trade].site)'
    OBVIOUS
  <2>1. handler[h].agency \in AgencyRow /\ handler[h].notice \in Notices
        /\ PaidFor(handler[h].agency, Order[handler[h].notice.trade].site)
    BY <1>1, <1>2 DEF RequestMatches, HandlerState
  <2>2. Order[handler[h].notice.trade].site \in Sites
    BY <2>1 DEF Notices
  <2>3. ASSUME NEW a \in AgencyRow, NEW s \in Sites, a = handler[h].agency,
               s = Order[handler[h].notice.trade].site
        PROVE  PaidFor(handler[h].agency, Order[handler[h].notice.trade].site)'
    <3>1. PaidFor(a, s)'
      BY <2>1, <2>3, EvidenceStays
    <3>2. a = handler'[h].agency
      BY <2>3
    <3> QED
      BY <2>3, <3>1 DEF PaidFor, PaidDeposit
  <2> QED
    BY <2>1, <2>2, <2>3
<1>4. handler[h].at = "reply" /\ handler[h].answer = "OK" => Recorded(handler[h].notice)'
  <2> SUFFICES ASSUME handler[h].at = "reply", handler[h].answer = "OK"
               PROVE  Recorded(handler[h].notice)'
    OBVIOUS
  <2>1. PICK n \in Notices : n = handler[h].notice
    BY <1>1, <1>2 DEF RequestMatches
  <2>2. Recorded(n)
    BY <2>1 DEF RequestMatches
  <2>3. Recorded(n)'
    BY <2>1, <2>2, EvidenceStays
  <2> QED
    BY <2>1, <2>3
<1> QED
  BY <1>1, <1>2, <1>3, <1>4 DEF RequestMatches, HeldRowMatches, IsDeposit

-----------------------------------------------------------------------------
(* The invariant, conjunct by conjunct. *)

\* The PG only sends what happened.
LEMMA SentStep ==
  ASSUME TypeOK, SentMatchesTrades, Advance, [Next]_vars
  PROVE  SentMatchesTrades'
<1>1. ASSUME NEW t \in Trades,
             IssueAccount(t) \/ Deposit(t) \/ ApproveCard(t) \/ DeclineCard(t) \/ OtherCardEvent(t)
      PROVE  SentMatchesTrades'
  BY <1>1 DEF IssueAccount, Deposit, ApproveCard, DeclineCard, OtherCardEvent, Notify,
              SentMatchesTrades, Advance, TypeOK, Notices
<1>2. ASSUME UNCHANGED <<trades, sent>>
      PROVE  SentMatchesTrades'
  BY <1>2 DEF SentMatchesTrades
<1>3. Administrator \/ Server \/ UNCHANGED vars => UNCHANGED <<trades, sent>>
  BY DEF Administrator, SetStatus, Reopen, Server, RejectHash, Receive, 
         sendCAPayment, sendVAPayment, sendVAPendingPayment, ignoreNotice, Serve, MergeSelect,
         CommitSave, LoadAgency, CommitDeposit, Respond, Abandon, Refuse, Proceed, Goto,
         pgVars, vars
<1> QED
  BY <1>1, <1>2, <1>3 DEF Next, PaymentGateway

\* The steps that write a table: the two commits and the administrators' tool.
LEMMA WritersOnly ==
  ASSUME [Next]_vars
  PROVE  \/ UNCHANGED tables
         \/ \E h \in Handlers : CommitSave(h) \/ CommitDeposit(h)
         \/ UNCHANGED payments /\ \E s \in Sites : \/ \E x \in {"Y", "N"} : SetStatus(s, x)
                                                  \/ Reopen(s)
BY DEF Next, PaymentGateway, IssueAccount, Deposit, ApproveCard, DeclineCard, OtherCardEvent,
       Notify, Administrator, SetStatus, Reopen, Server, RejectHash, Receive, 
       sendCAPayment, sendVAPayment, sendVAPendingPayment, ignoreNotice, Serve, MergeSelect,
       LoadAgency, Respond, Abandon, Refuse, Proceed, tables, vars

\* What the commit of a card payment or of a waiting account does.
LEMMA SaveEffect ==
  ASSUME TypeOK, RequestsMatchTrades, NEW h \in Handlers, CommitSave(h)
  PROVE  LET n == handler[h].notice IN
         /\ n \in sent /\ n \in Notices /\ n.trade \in Trades
         /\ n.outStatCd \in {"0021", "0051"} /\ ~IsDeposit(n)
         /\ UNCHANGED <<trades, sent, acked, agencies>>
         /\ \/ Refuse(h, "ERROR")
            \/ /\ Goto(h, Answered(h))
               /\ payments'[n.trade] = NewPayment(n)
               /\ \A u \in Trades \ {n.trade} : payments'[u] = payments[u]
<1>1. /\ handler[h].notice \in sent /\ handler[h].notice \in Notices
      /\ handler[h].notice.outStatCd \in {"0021", "0051"}
  BY DEF CommitSave, RequestsMatchTrades, RequestMatches, TypeOK
<1>2. handler[h].notice.trade \in Trades
  BY <1>1 DEF Notices
<1> QED
  BY <1>1, <1>2 DEF CommitSave, Refuse, Goto, tables, pgVars, TypeOK

\* What the commit of a deposit does.
LEMMA DepositEffect ==
  ASSUME TypeOK, SentMatchesTrades, RequestsMatchTrades, NEW h \in Handlers, CommitDeposit(h)
  PROVE  LET n == handler[h].notice
             t == n.trade
             s == Order[t].site
         IN
         /\ n \in sent /\ n \in Notices /\ t \in Trades /\ s \in Sites
         /\ IsDeposit(n) /\ trades[t] = "paid" /\ PaidDeposit(t, s)
         /\ UNCHANGED <<trades, sent, acked>>
         /\ Goto(h, Answered(h))
         /\ payments'[t] \in PaymentRow
         /\ payments'[t].site = s /\ payments'[t].term = Order[t].term
         /\ payments'[t].paymentType = Order[t].method
         /\ payments'[t].trTrace = "Y" /\ payments'[t].paymentStatus = "Y"
         /\ \A u \in Trades \ {t} : payments'[u] = payments[u]
         /\ agencies'[s].extension = "N" /\ PaidFor(agencies'[s], s)
         /\ \A r \in Sites \ {s} : agencies'[r] = agencies[r]
<1> DEFINE n == handler[h].notice
           t == n.trade
           s == Order[t].site
           r == ofVA(handler[h].payment, Order[t].method)
           a == updateAgencyByVAPending(handler[h].agency, Order[t].term)
<1>1. /\ n \in sent /\ n \in Notices /\ IsDeposit(n)
      /\ HeldRowMatches(h) /\ handler[h].payment \in PaymentRow
      /\ handler[h].agency \in AgencyRow /\ TakesDeposit(handler[h].agency)
      /\ PaidFor(handler[h].agency, s)
  BY DEF CommitDeposit, RequestsMatchTrades, RequestMatches, HeldRowMatches, HandlerState, TypeOK
<1>2. /\ t \in Trades /\ s \in Sites
      /\ Order[t] \in [site : Sites, term : Terms, method : Methods]
  BY <1>1 DEF Notices
<1>3. trades[t] = "paid" /\ PaidDeposit(t, s)
  BY <1>1, <1>2 DEF SentMatchesTrades, IsDeposit, PaidDeposit
<1>4. /\ r \in PaymentRow
      /\ r.site = s /\ r.term = Order[t].term /\ r.paymentType = Order[t].method
      /\ r.trTrace = "Y" /\ r.paymentStatus = "Y"
  BY <1>1, <1>2, ofVAType DEF ofVA, PaymentRow, HeldRowMatches
<1>5. a.extension = "N"
  BY <1>1 DEF updateAgencyByVAPending, AgencyRow
<1>6. PaidFor(a, s)
  <2>1. CASE handler[h].agency.extension = "D"
    <3>1. handler[h].agency.payment \in AgencyPayment
      BY <1>1, <2>1 DEF TakesDeposit, AgencyRow
    <3>2. a.payment.term = Order[t].term
      BY <1>1, <2>1, <3>1
         DEF updateAgencyByVAPending, updateAgencyPayment, AgencyRow, AgencyPayment
    <3> QED
      BY <1>2, <1>3, <3>2 DEF PaidFor
  <2>2. CASE handler[h].agency.extension # "D"
    <3>1. a.payment = handler[h].agency.payment
      BY <1>1, <2>2 DEF updateAgencyByVAPending, AgencyRow
    <3> QED
      BY <1>1, <1>2, <1>3, <3>1 DEF PaidFor
  <2> QED
    BY <2>1, <2>2
<1>7. /\ payments' = [payments EXCEPT ![t] = r]
      /\ agencies' = [agencies EXCEPT ![s] = a]
      /\ UNCHANGED <<trades, sent, acked>> /\ Goto(h, Answered(h))
  BY DEF CommitDeposit, Goto, pgVars
<1> HIDE DEF n, t, s, r, a
<1>8. /\ payments'[t] = r /\ \A u \in Trades \ {t} : payments'[u] = payments[u]
      /\ agencies'[s] = a /\ \A q \in Sites \ {s} : agencies'[q] = agencies[q]
  BY <1>2, <1>7 DEF TypeOK
<1>9. PaidFor(agencies'[s], s)
  BY <1>6, <1>8
<1> QED
  BY <1>1, <1>2, <1>3, <1>4, <1>5, <1>7, <1>8, <1>9 DEF n, t, s

\* Every step keeps the payment rows true.
LEMMA RowsStep ==
  ASSUME TypeOK, SentMatchesTrades, RequestsMatchTrades, RowsMatchTrades, Advance, [Next]_vars
  PROVE  RowsMatchTrades'
<1>1. ASSUME NEW t \in Trades, payments'[t] = payments[t]
      PROVE  RowMatches(t)'
  BY <1>1 DEF RowsMatchTrades, RowMatches, Advance
<1>2. ASSUME NEW h \in Handlers, CommitSave(h)
      PROVE  \A t \in Trades : RowMatches(t)'
  <2>1. CASE Refuse(h, "ERROR")
    BY <1>1, <2>1 DEF Refuse, tables
  <2>2. CASE ~Refuse(h, "ERROR")
    <3>1. PICK n \in Notices : n = handler[h].notice
      BY <1>2, SaveEffect
    <3>2. /\ n \in sent /\ n.trade \in Trades
          /\ n.outStatCd \in {"0021", "0051"} /\ ~IsDeposit(n)
          /\ UNCHANGED trades
          /\ payments'[n.trade] = NewPayment(n)
          /\ \A u \in Trades \ {n.trade} : payments'[u] = payments[u]
      BY <1>2, <2>2, <3>1, SaveEffect
    <3>3. RowMatches(n.trade)'
      BY <3>2, NewPaymentType DEF SentMatchesTrades, IsDeposit, RowMatches
    <3> QED
      BY <1>1, <3>2, <3>3
  <2> QED
    BY <2>1, <2>2
<1>3. ASSUME NEW h \in Handlers, CommitDeposit(h)
      PROVE  \A t \in Trades : RowMatches(t)'
  <2>1. PICK n \in Notices : n = handler[h].notice
    BY <1>3, DepositEffect
  <2>2. /\ n.trade \in Trades
        /\ \A u \in Trades \ {n.trade} : payments'[u] = payments[u]
    BY <1>3, <2>1, DepositEffect
  <2>3. RowMatches(n.trade)'
    BY <1>3, <2>1, DepositEffect DEF RowMatches
  <2> QED
    BY <1>1, <2>2, <2>3
<1>4. \A t \in Trades : RowMatches(t)'
  BY <1>1, <1>2, <1>3, WritersOnly DEF tables
<1> QED
  BY <1>4 DEF RowsMatchTrades

\* Every step keeps used deposits and their sites together.
LEMMA ActivatesStep ==
  ASSUME TypeOK, SentMatchesTrades, RequestsMatchTrades, UsedDepositActivates, Advance, [Next]_vars
  PROVE  UsedDepositActivates'
<1> DEFINE Activates(t) == Order[t].method = "VA" /\ Used(t) => agencies[Order[t].site].extension # "D"
<1>1. ASSUME NEW t \in Trades, payments'[t] = payments[t]
      PROVE  Activates(t)'
  BY <1>1 DEF UsedDepositActivates, Used, Advance
<1>2. ASSUME NEW h \in Handlers, CommitSave(h)
      PROVE  \A t \in Trades : Activates(t)'
  <2>1. CASE Refuse(h, "ERROR")
    BY <1>1, <2>1 DEF Refuse, tables
  <2>2. CASE ~Refuse(h, "ERROR")
    <3>1. PICK n \in Notices : n = handler[h].notice
      BY <1>2, SaveEffect
    <3>2. /\ n.trade \in Trades
          /\ n.outStatCd \in {"0021", "0051"} /\ ~IsDeposit(n)
          /\ payments'[n.trade] = NewPayment(n)
          /\ \A u \in Trades \ {n.trade} : payments'[u] = payments[u]
      BY <1>2, <2>2, <3>1, SaveEffect
    <3>3. Activates(n.trade)'
      BY <3>2, NewPaymentType DEF IsDeposit, Used
    <3> QED
      BY <1>1, <3>2, <3>3
  <2> QED
    BY <2>1, <2>2
<1>3. ASSUME NEW h \in Handlers, CommitDeposit(h)
      PROVE  \A t \in Trades : Activates(t)'
  <2>1. PICK n \in Notices : n = handler[h].notice
    BY <1>3, DepositEffect
  <2>2. /\ n.trade \in Trades
        /\ \A u \in Trades \ {n.trade} : payments'[u] = payments[u]
        /\ agencies'[Order[n.trade].site].extension # "D"
    BY <1>3, <2>1, DepositEffect
  <2> QED
    BY <1>1, <2>2
<1>4. \A t \in Trades : Activates(t)'
  BY <1>1, <1>2, <1>3, WritersOnly DEF tables
<1> QED
  BY <1>4 DEF UsedDepositActivates

\* Every step keeps each site's term paid for.
LEMMA ServiceStep ==
  ASSUME TypeOK, SentMatchesTrades, RequestsMatchTrades, ServiceIsPaidFor, Advance, [Next]_vars
  PROVE  ServiceIsPaidFor'
<1>1. ASSUME NEW s \in Sites, agencies'[s] = agencies[s]
      PROVE  PaidFor(agencies[s], s)'
  <2>1. PICK a \in AgencyRow : a = agencies[s]
    BY DEF TypeOK
  <2>2. PaidFor(a, s)'
    BY <2>1, EvidenceStays DEF ServiceIsPaidFor
  <2> QED
    BY <1>1, <2>1, <2>2
<1>2. ASSUME NEW h \in Handlers, CommitDeposit(h)
      PROVE  ServiceIsPaidFor'
  <2>1. PICK n \in Notices : n = handler[h].notice
    BY <1>2, DepositEffect
  <2>2. PICK q \in Sites : q = Order[n.trade].site
    BY <1>2, <2>1, DepositEffect
  <2>3. /\ agencies'[q] = updateAgencyByVAPending(handler[h].agency, Order[n.trade].term)
        /\ PaidFor(agencies'[q], q)
        /\ \A r \in Sites \ {q} : agencies'[r] = agencies[r]
        /\ UNCHANGED trades
    BY <1>2, <2>1, <2>2, DepositEffect DEF CommitDeposit, TypeOK
  <2>4. PaidFor(agencies[q], q)'
    BY <2>3 DEF PaidFor, PaidDeposit
  <2> QED
    BY <1>1, <2>3, <2>4 DEF ServiceIsPaidFor
<1>3. ASSUME NEW s \in Sites, NEW x \in {"Y", "N"}, SetStatus(s, x) \/ Reopen(s)
      PROVE  ServiceIsPaidFor'
  <2>1. /\ UNCHANGED trades
        /\ agencies'[s].payment = agencies[s].payment
        /\ agencies'[s].extension # "D" => agencies[s].extension # "D"
        /\ \A r \in Sites \ {s} : agencies'[r] = agencies[r]
    BY <1>3 DEF SetStatus, Reopen, TypeOK, AgencyRow, pgVars
  <2>2. PaidFor(agencies[s], s)'
    BY <2>1 DEF ServiceIsPaidFor, PaidFor, PaidDeposit
  <2> QED
    BY <1>1, <2>1, <2>2 DEF ServiceIsPaidFor
<1>4. ASSUME UNCHANGED agencies
      PROVE  ServiceIsPaidFor'
  BY <1>1, <1>4 DEF ServiceIsPaidFor
<1>5. ASSUME NEW h \in Handlers, CommitSave(h)
      PROVE  UNCHANGED agencies
  BY <1>5, SaveEffect
<1> QED
  BY <1>2, <1>3, <1>4, <1>5, WritersOnly DEF tables

\* Every step keeps what was answered OK recorded.
LEMMA AckStep ==
  ASSUME TypeOK, RequestsMatchTrades, AcknowledgedIsRecorded, Advance, [Next]_vars
  PROVE  AcknowledgedIsRecorded'
<1>1. \A n \in acked : Recorded(n)'
  BY EvidenceStays DEF TypeOK, AcknowledgedIsRecorded
<1>2. ASSUME NEW h \in Handlers, Respond(h), handler[h].answer = "OK"
      PROVE  AcknowledgedIsRecorded'
  <2>1. PICK n \in Notices : n = handler[h].notice /\ Recorded(n)
    BY <1>2 DEF Respond, RequestsMatchTrades, RequestMatches, TypeOK
  <2>2. Recorded(n)'
    BY <2>1, EvidenceStays
  <2>3. acked' = acked \union {n}
    BY <1>2, <2>1 DEF Respond
  <2> QED
    BY <1>1, <2>2, <2>3 DEF AcknowledgedIsRecorded
<1>3. ASSUME UNCHANGED acked
      PROVE  AcknowledgedIsRecorded'
  BY <1>1, <1>3 DEF AcknowledgedIsRecorded
<1>4. \/ UNCHANGED acked
      \/ \E h \in Handlers : Respond(h) /\ handler[h].answer = "OK"
  BY DEF Next, PaymentGateway, IssueAccount, Deposit, ApproveCard, DeclineCard, OtherCardEvent,
         Notify, Administrator, SetStatus, Reopen, Server, RejectHash, Receive, 
         sendCAPayment, sendVAPayment, sendVAPendingPayment, ignoreNotice, Serve, MergeSelect,
         CommitSave, LoadAgency, CommitDeposit, Respond, Abandon, Refuse, Proceed, Goto, vars
<1> QED
  BY <1>2, <1>3, <1>4

\* A request that holds nothing has nothing to match.
LEMMA EmptyRequestMatches ==
  ASSUME NEW h \in Handlers,
         handler'[h].at \in {"idle", "reply"},
         handler'[h].at = "reply" => handler'[h].answer # "OK"
  PROVE  RequestMatches(h)'
BY DEF RequestMatches

\* What a request holds after its first transaction is true of its trade.
LEMMA ReceiveMatches ==
  ASSUME TypeOK, SentMatchesTrades, RowsMatchTrades,
         NEW h \in Handlers, NEW n \in sent, Receive(h, n)
  PROVE  RequestMatches(h)'
<1>1. n \in Notices /\ n.trade \in Trades /\ payments[n.trade] \in PaymentRow \union {NoRow}
  BY DEF Notices, TypeOK
<1>2. ASSUME NEW a \in {"FAIL", "ERROR"}, Refuse(h, a)
      PROVE  RequestMatches(h)'
  BY <1>2, RefuseType, EmptyRequestMatches
<1>3. ASSUME n.outStatCd \in {"0021", "0051"}, ~IsDeposit(n), Proceed(h, n, "save", NoRow)
      PROVE  RequestMatches(h)'
  BY <1>1, <1>3, ProceedType DEF RequestMatches, IsDeposit
<1>4. ASSUME IsDeposit(n), payments[n.trade] # NoRow, Proceed(h, n, "apply", payments[n.trade])
      PROVE  RequestMatches(h)'
  <2>1. RowMatches(n.trade)
    BY <1>1 DEF RowsMatchTrades
  <2> QED
    BY <1>1, <1>4, <2>1, ProceedType DEF RequestMatches, HeldRowMatches, IsDeposit, RowMatches
<1>5. \/ Refuse(h, "FAIL") \/ Refuse(h, "ERROR")
      \/ n.outStatCd \in {"0021", "0051"} /\ ~IsDeposit(n) /\ Proceed(h, n, "save", NoRow)
      \/ IsDeposit(n) /\ payments[n.trade] # NoRow /\ Proceed(h, n, "apply", payments[n.trade])
  BY DEF Receive, sendCAPayment, sendVAPayment, sendVAPendingPayment, ignoreNotice,
         Dispatched, isCurrentPayment, IsDeposit
<1> QED
  BY <1>2, <1>3, <1>4, <1>5

\* A request that has committed a registration may answer OK.
LEMMA SaveMatches ==
  ASSUME TypeOK, TypeOK', SentMatchesTrades, RequestsMatchTrades,
         NEW h \in Handlers, CommitSave(h)
  PROVE  RequestMatches(h)'
<1>1. CASE Refuse(h, "ERROR")
  BY <1>1, RefuseType, EmptyRequestMatches
<1>2. CASE ~Refuse(h, "ERROR")
  <2>1. PICK n \in Notices : n = handler[h].notice
    BY SaveEffect
  <2>2. /\ n \in sent /\ n.trade \in Trades /\ UNCHANGED sent
        /\ n.outStatCd \in {"0021", "0051"} /\ ~IsDeposit(n)
        /\ payments'[n.trade] = NewPayment(n) /\ Goto(h, Answered(h))
    BY <1>2, <2>1, SaveEffect
  <2>3. payments'[n.trade] # NoRow /\ (Order[n.trade].method = "CA" => Used(n.trade)')
    BY <2>2, NewPaymentType DEF SentMatchesTrades, Used
  <2>4. Recorded(n)'
    BY <2>2, <2>3 DEF Recorded, IsDeposit
  <2>5. handler'[h].at = "reply" /\ handler'[h].notice = n
    BY <2>1, <2>2, AnsweredType
  <2> QED
    BY <2>2, <2>4, <2>5 DEF RequestMatches
<1> QED
  BY <1>1, <1>2

\* A request that has committed a deposit may answer OK.
LEMMA DepositMatches ==
  ASSUME TypeOK, SentMatchesTrades, RequestsMatchTrades, NEW h \in Handlers, CommitDeposit(h)
  PROVE  RequestMatches(h)'
<1>1. PICK n \in Notices : n = handler[h].notice
  BY DepositEffect
<1>2. /\ n \in sent /\ IsDeposit(n) /\ UNCHANGED sent
      /\ payments'[n.trade] \in PaymentRow
      /\ agencies'[Order[n.trade].site].extension = "N"
      /\ Goto(h, Answered(h))
  BY <1>1, DepositEffect
<1>3. Recorded(n)'
  BY <1>2 DEF Recorded, IsDeposit
<1>4. handler'[h].at = "reply" /\ handler'[h].notice = n
  BY <1>1, <1>2, AnsweredType
<1> QED
  BY <1>2, <1>3, <1>4 DEF RequestMatches

\* The agency row a deposit is about to write is one that takes it.
LEMMA LoadMatches ==
  ASSUME TypeOK, RequestsMatchTrades, ServiceIsPaidFor, Advance,
         NEW h \in Handlers, LoadAgency(h)
  PROVE  RequestMatches(h)'
<1>1. CASE Refuse(h, "ERROR")
  BY <1>1, RefuseType, EmptyRequestMatches
<1>2. CASE ~Refuse(h, "ERROR")
  <2>1. PICK n \in Notices : n = handler[h].notice
    BY DEF LoadAgency, RequestsMatchTrades, RequestMatches, TypeOK
  <2>2. PICK s \in Sites : s = Order[n.trade].site
    BY DEF Notices
  <2>3. PICK a \in AgencyRow : a = agencies[s]
    BY DEF TypeOK
  <2> DEFINE v == [handler[h] EXCEPT !.at = "flush", !.agency = a]
  <2>4. TakesDeposit(a) /\ Goto(h, v)
    BY <1>2, <2>1, <2>2, <2>3 DEF LoadAgency
  <2>5. /\ v \in HandlerState
        /\ v.at = "flush" /\ v.agency = a
        /\ v.notice = handler[h].notice /\ v.payment = handler[h].payment
    <3>1. PICK w \in HandlerState : w = handler[h]
      BY DEF TypeOK
    <3> QED
      BY <3>1, HoldAgencyType
  <2> HIDE DEF v
  <2>6. /\ handler'[h].at = "flush" /\ handler'[h].notice = n
        /\ handler'[h].agency = a /\ handler'[h].payment = handler[h].payment
        /\ UNCHANGED sent
    BY <2>1, <2>4, <2>5, GotoType
  <2>7. n \in sent /\ IsDeposit(n) /\ HeldRowMatches(h) /\ n.outStatCd \in {"0021", "0051"}
    BY <2>1 DEF LoadAgency, RequestsMatchTrades, RequestMatches, IsDeposit
  <2>8. PaidFor(a, s)'
    BY <2>3, EvidenceStays DEF ServiceIsPaidFor
  <2>9. HeldRowMatches(h)'
    BY <2>1, <2>6, <2>7 DEF HeldRowMatches
  <2>10. PaidFor(handler[h].agency, Order[handler[h].notice.trade].site)'
    BY <2>2, <2>6, <2>8
  <2> QED
    BY <2>3, <2>4, <2>6, <2>7, <2>9, <2>10 DEF RequestMatches
<1> QED
  BY <1>1, <1>2

\* Every step keeps what the requests hold true of their trades.
LEMMA RequestsStep ==
  ASSUME TypeOK, TypeOK', SentMatchesTrades, RequestsMatchTrades, RowsMatchTrades,
         ServiceIsPaidFor, Advance, [Next]_vars
  PROVE  RequestsMatchTrades'
<1>1. ASSUME NEW h \in Handlers, RequestMatches(h)',
             \A g \in Handlers \ {h} : handler'[g] = handler[g]
      PROVE  RequestsMatchTrades'
  BY <1>1, BystanderMatches DEF RequestsMatchTrades
<1>2. ASSUME UNCHANGED handler
      PROVE  RequestsMatchTrades'
  BY <1>2, BystanderMatches DEF RequestsMatchTrades
<1>3. ASSUME NEW h \in Handlers, NEW state, Goto(h, state)
      PROVE  \A g \in Handlers \ {h} : handler'[g] = handler[g]
  BY <1>3 DEF Goto, TypeOK
<1>4. ASSUME NEW h \in Handlers, RejectHash(h)
      PROVE  RequestsMatchTrades'
  <2>1. RequestMatches(h)'
    BY <1>4, RefuseType, EmptyRequestMatches DEF RejectHash
  <2> QED
    BY <1>1, <1>4, <2>1, RefuseType DEF RejectHash
<1>5. ASSUME NEW h \in Handlers, NEW n \in sent, Receive(h, n)
      PROVE  RequestsMatchTrades'
  <2>1. \E state : Goto(h, state)
    BY <1>5 DEF Receive, sendCAPayment, sendVAPayment, sendVAPendingPayment,
                ignoreNotice, Refuse, Proceed
  <2> QED
    BY <1>1, <1>3, <1>5, <2>1, ReceiveMatches
<1>6. ASSUME NEW h \in Handlers, MergeSelect(h)
      PROVE  RequestsMatchTrades'
  <2>1. PICK n \in Notices : n = handler[h].notice
    BY <1>6 DEF MergeSelect, RequestsMatchTrades, RequestMatches, TypeOK
  <2>2. payments[n.trade] \in PaymentRow \union {NoRow} /\ Proceed(h, n, "flush", payments[n.trade])
    BY <1>6, <2>1 DEF MergeSelect, TypeOK, Notices
  <2>3. /\ handler'[h].at = "flush" /\ handler'[h].notice = n /\ UNCHANGED sent
        /\ \A g \in Handlers \ {h} : handler'[g] = handler[g]
    BY <2>2, ProceedType
  <2>4. n \in sent /\ n.outStatCd \in {"0021", "0051"} /\ ~IsDeposit(n)
    BY <1>6, <2>1 DEF MergeSelect, RequestsMatchTrades, RequestMatches
  <2>5. RequestMatches(h)'
    BY <2>3, <2>4 DEF RequestMatches, IsDeposit
  <2> QED
    BY <1>1, <2>3, <2>5
<1>7. ASSUME NEW h \in Handlers, CommitSave(h)
      PROVE  RequestsMatchTrades'
  <2>1. \E state : Goto(h, state)
    BY <1>7, SaveEffect DEF Refuse
  <2> QED
    BY <1>1, <1>3, <1>7, <2>1, SaveMatches
<1>8. ASSUME NEW h \in Handlers, LoadAgency(h)
      PROVE  RequestsMatchTrades'
  <2>1. \E state : Goto(h, state)
    BY <1>8 DEF LoadAgency, Refuse
  <2> QED
    BY <1>1, <1>3, <1>8, <2>1, LoadMatches
<1>9. ASSUME NEW h \in Handlers, CommitDeposit(h)
      PROVE  RequestsMatchTrades'
  <2>1. Goto(h, Answered(h))
    BY <1>9 DEF CommitDeposit
  <2> QED
    BY <1>1, <1>3, <1>9, <2>1, DepositMatches
<1>10. ASSUME NEW h \in Handlers, Respond(h) \/ Abandon(h)
       PROVE  RequestsMatchTrades'
  <2>1. handler' = [handler EXCEPT ![h] = Idle]
    BY <1>10 DEF Respond, Abandon, Goto
  <2>2. handler'[h].at = "idle" /\ \A g \in Handlers \ {h} : handler'[g] = handler[g]
    BY <2>1 DEF Idle, TypeOK
  <2> QED
    BY <1>1, <2>2, EmptyRequestMatches
<1>11. PaymentGateway \/ Administrator \/ UNCHANGED vars => UNCHANGED handler
  BY DEF PaymentGateway, IssueAccount, Deposit, ApproveCard, DeclineCard, OtherCardEvent,
         Notify, Administrator, SetStatus, Reopen, vars
<1> QED
  BY <1>2, <1>4, <1>5, <1>6, <1>7, <1>8, <1>9, <1>10, <1>11 DEF Next, Server, Serve

-----------------------------------------------------------------------------
\* The inductive invariant holds at the start.
LEMMA InitInv == Init => Inv
<1> SUFFICES ASSUME Init PROVE Inv
  OBVIOUS
<1>1. PICK c \in Companies :
        agencies = [s \in Sites |-> IF s \in SettledSites
                                      THEN [addSite(c) EXCEPT !.payment = [term |-> NoTerm]]
                                      ELSE addSite(c)]
  BY DEF Init
<1>2. \A s \in Sites : /\ agencies[s] \in AgencyRow /\ agencies[s].extension = "D"
                       /\ agencies[s].payment # NoPayment => agencies[s].payment.term = NoTerm
  BY <1>1 DEF addSite, AgencyRow, AgencyPayment, SiteStatus, ExtensionStatus
<1>3. TypeOK
  BY <1>1, <1>2, IdleType DEF Init, TypeOK
<1>4. RequestsMatchTrades
  BY DEF Init, RequestsMatchTrades, RequestMatches, Idle
<1>5. ServiceIsPaidFor
  BY <1>2 DEF ServiceIsPaidFor, PaidFor
<1> QED
  BY <1>3, <1>4, <1>5 DEF Init, Inv, SentMatchesTrades, RowsMatchTrades, RowMatches,
                         AcknowledgedIsRecorded, UsedDepositActivates, Used

\* Every step preserves the inductive invariant.
LEMMA StepInv == Inv /\ [Next]_vars => Inv'
<1> SUFFICES ASSUME Inv, [Next]_vars PROVE Inv'
  OBVIOUS
<1> USE DEF Inv
<1>1. TypeOK'
  BY TypeStep
<1>2. Advance
  BY <1>1, AdvanceStep
<1> QED
  BY <1>1, <1>2, SentStep, RequestsStep, RowsStep, AckStep, ActivatesStep, ServiceStep

\* The inductive invariant holds in every reachable state.
THEOREM Invariance == Spec => []Inv
BY InitInv, StepInv, PTL DEF Spec

\* Every variable keeps its type.
THEOREM TypeCorrect == Spec => []TypeOK
<1>1. Inv => TypeOK
  BY DEF Inv
<1> QED
  BY <1>1, Invariance, PTL

\* Whatever the number of requests in flight, the rows say what the orders say and
\* count as used only trades that are paid (processPaymentCA, processPaymentVA).
THEOREM RowsAreTrue == Spec => []RowsMatchTrades
<1>1. Inv => RowsMatchTrades
  BY DEF Inv
<1> QED
  BY <1>1, Invariance, PTL

\* What was answered OK is in the tables (responseMessage).
THEOREM OKIsDurable == Spec => []AcknowledgedIsRecorded
<1>1. Inv => AcknowledgedIsRecorded
  BY DEF Inv
<1> QED
  BY <1>1, Invariance, PTL

\* The two rows of a deposit are written together (processPaymentVA).
THEOREM DepositsActivate == Spec => []UsedDepositActivates
<1>1. Inv => UsedDepositActivates
  BY DEF Inv
<1> QED
  BY <1>1, Invariance, PTL

\* No site is activated, and none gets a term, without a deposit of its own
\* (updateAgencyByVAPending).
THEOREM ServicePaidFor == Spec => []ServiceIsPaidFor
<1>1. Inv => ServiceIsPaidFor
  BY DEF Inv
<1> QED
  BY <1>1, Invariance, PTL

-----------------------------------------------------------------------------
(* One request at a time, the handling of notifications implements Ledger. *)

\* There is at most one request thread.
OneAtATime == \A g, h \in Handlers : g = h

\* With one thread, every step keeps what a request has read equal to what the
\* tables hold: no other request can commit in between.
LEMMA FreshStep ==
  ASSUME OneAtATime, Inv, Inv', ReadsAreFresh, [Next]_vars
  PROVE  ReadsAreFresh'
<1> USE DEF Inv
<1> DEFINE Fresh(h) ==
      LET n == handler[h].notice IN
      /\ handler[h].at = "save" => payments[n.trade] = NoRow
      /\ handler[h].at = "flush" /\ ~IsDeposit(n) =>
           handler[h].payment = NoRow /\ payments[n.trade] = NoRow
      /\ handler[h].at \in {"apply", "flush"} /\ IsDeposit(n) => payments[n.trade] # NoRow
      /\ handler[h].at = "flush" /\ IsDeposit(n) =>
           agencies[Order[n.trade].site].extension = handler[h].agency.extension
<1>1. ASSUME NEW h \in Handlers, Fresh(h)'
      PROVE  ReadsAreFresh'
  BY <1>1 DEF OneAtATime, ReadsAreFresh
<1>2. ASSUME UNCHANGED <<handler, payments, agencies>>
      PROVE  ReadsAreFresh'
  BY <1>2 DEF ReadsAreFresh, IsDeposit
<1>3. ASSUME NEW h \in Handlers, handler'[h].at \in {"idle", "reply"}
      PROVE  ReadsAreFresh'
  BY <1>1, <1>3
<1>4. ASSUME NEW s \in Sites, NEW x \in {"Y", "N"}, SetStatus(s, x) \/ Reopen(s)
      PROVE  ReadsAreFresh'
  <2> SUFFICES ASSUME NEW h \in Handlers PROVE Fresh(h)'
    BY DEF ReadsAreFresh
  <2>1. UNCHANGED <<handler, payments>>
    BY <1>4 DEF SetStatus, Reopen
  <2>2. ASSUME handler[h].at = "flush", IsDeposit(handler[h].notice)
        PROVE  agencies'[Order[handler[h].notice.trade].site].extension = handler[h].agency.extension
    <3> DEFINE q == Order[handler[h].notice.trade].site
    <3>1. /\ q \in Sites
          /\ agencies[q].extension = handler[h].agency.extension
          /\ handler[h].agency.extension # "N"
      <4>1. handler[h].notice \in Notices
        BY <2>2 DEF RequestsMatchTrades, RequestMatches, TypeOK
      <4>2. q \in Sites
        BY <4>1, OrderType
      <4>3. agencies[q].extension = handler[h].agency.extension
        BY <2>2 DEF ReadsAreFresh
      <4>4. handler[h].agency.extension # "N"
        BY <2>2 DEF RequestsMatchTrades, RequestMatches, TakesDeposit
      <4> QED
        BY <4>2, <4>3, <4>4
    <3> HIDE DEF q
    <3>2. agencies'[q].extension = agencies[q].extension
      BY <1>4, <3>1 DEF SetStatus, Reopen, TypeOK, AgencyRow
    <3> QED
      BY <3>1, <3>2 DEF q
  <2> QED
    BY <2>1, <2>2 DEF ReadsAreFresh, IsDeposit
<1>5. ASSUME NEW h \in Handlers, NEW n \in sent, Receive(h, n)
      PROVE  ReadsAreFresh'
  <2>1. n \in Notices /\ n.trade \in Trades /\ payments[n.trade] \in PaymentRow \union {NoRow}
    BY DEF TypeOK, Notices
  <2>2. CASE \E a \in {"FAIL", "ERROR"} : Refuse(h, a)
    BY <1>3, <2>2, RefuseType
  <2>3. CASE payments[n.trade] = NoRow /\ ~IsDeposit(n) /\ Proceed(h, n, "save", NoRow)
    BY <1>1, <2>1, <2>3, ProceedType DEF IsDeposit
  <2>4. CASE payments[n.trade] # NoRow /\ IsDeposit(n) /\ Proceed(h, n, "apply", payments[n.trade])
    BY <1>1, <2>1, <2>4, ProceedType DEF IsDeposit
  <2> QED
    BY <1>5, <2>2, <2>3, <2>4
       DEF Receive, sendCAPayment, sendVAPayment, sendVAPendingPayment,
           ignoreNotice, Dispatched, isCurrentPayment, IsDeposit
<1>6. ASSUME NEW h \in Handlers, MergeSelect(h)
      PROVE  ReadsAreFresh'
  <2>1. PICK n \in Notices : n = handler[h].notice
    BY <1>6 DEF MergeSelect, RequestsMatchTrades, RequestMatches, TypeOK
  <2>2. /\ payments[n.trade] = NoRow /\ ~IsDeposit(n)
        /\ Proceed(h, n, "flush", NoRow)
    BY <1>6, <2>1 DEF MergeSelect, ReadsAreFresh, RequestsMatchTrades, RequestMatches
  <2> QED
    BY <1>1, <2>2, ProceedType DEF IsDeposit
<1>7. ASSUME NEW h \in Handlers, CommitSave(h)
      PROVE  ReadsAreFresh'
  BY <1>3, <1>7, SaveEffect, RefuseType, AnsweredType
<1>8. ASSUME NEW h \in Handlers, LoadAgency(h)
      PROVE  ReadsAreFresh'
  <2>1. CASE Refuse(h, "ERROR")
    BY <1>3, <2>1, RefuseType
  <2>2. CASE ~Refuse(h, "ERROR")
    <3>1. PICK n \in Notices : n = handler[h].notice
      BY <1>8 DEF LoadAgency, RequestsMatchTrades, RequestMatches, TypeOK
    <3>2. PICK a \in AgencyRow : a = agencies[Order[n.trade].site]
      <4>1. Order[n.trade].site \in Sites
        BY OrderType
      <4> QED
        BY <4>1 DEF TypeOK
    <3> DEFINE v == [handler[h] EXCEPT !.at = "flush", !.agency = a]
    <3>3. Goto(h, v) /\ UNCHANGED <<payments, agencies>>
      BY <1>8, <2>2, <3>1, <3>2 DEF LoadAgency, tables
    <3>4. v \in HandlerState /\ v.at = "flush" /\ v.agency = a /\ v.notice = n
      <4>1. handler[h] \in HandlerState
        BY DEF TypeOK
      <4>2. /\ v \in HandlerState /\ v.at = "flush" /\ v.agency = a
            /\ v.notice = handler[h].notice
        BY <4>1, HoldAgencyType
      <4> QED
        BY <3>1, <4>2
    <3> HIDE DEF v
    <3>5. handler'[h] = v
      BY <3>3, <3>4, GotoType
    <3>6. IsDeposit(n) /\ payments[n.trade] # NoRow
      BY <1>8, <3>1 DEF LoadAgency, ReadsAreFresh, RequestsMatchTrades, RequestMatches
    <3> QED
      BY <1>1, <3>2, <3>3, <3>4, <3>5, <3>6 DEF IsDeposit
  <2> QED
    BY <2>1, <2>2
<1>9. ASSUME NEW h \in Handlers, CommitDeposit(h)
      PROVE  ReadsAreFresh'
  BY <1>3, <1>9, AnsweredType DEF CommitDeposit
<1>10. ASSUME NEW h \in Handlers, RejectHash(h) \/ Respond(h) \/ Abandon(h)
       PROVE  ReadsAreFresh'
  <2>1. handler'[h].at \in {"idle", "reply"}
    BY <1>10, RefuseType DEF RejectHash, Respond, Abandon, Goto, Idle, TypeOK
  <2> QED
    BY <1>3, <2>1
<1>11. PaymentGateway \/ UNCHANGED vars => UNCHANGED <<handler, payments, agencies>>
  BY DEF PaymentGateway, IssueAccount, Deposit, ApproveCard, DeclineCard, OtherCardEvent,
         Notify, tables, vars
<1> QED
  BY <1>2, <1>4, <1>5, <1>6, <1>7, <1>8, <1>9, <1>10, <1>11
     DEF Next, Administrator, Server, Serve

\* With one thread, the inductive invariant and the freshness of reads always hold.
LEMMA FreshInvariance == OneAtATime /\ Spec => [](Inv /\ ReadsAreFresh)
<1>1. Init => ReadsAreFresh
  BY DEF Init, ReadsAreFresh, Idle
<1>2. OneAtATime /\ Inv /\ ReadsAreFresh /\ [Next]_vars => (Inv /\ ReadsAreFresh)'
  BY StepInv, FreshStep
<1>3. OneAtATime => (OneAtATime)'
  BY DEF OneAtATime
<1> QED
  BY <1>1, <1>2, <1>3, InitInv, PTL DEF Spec

-----------------------------------------------------------------------------
\* The mapping, row by row.
LEMMA EntryOf ==
  ASSUME NEW t \in Trades
  PROVE  /\ entry[t] = "none" <=> payments[t] = NoRow
         /\ entry[t] = "paid" <=> Used(t)
         /\ Used(t) => payments[t] # NoRow
BY DEF entry, Used

\* The first tables stand for the first ledger: no entry, every site applied.
LEMMA LedgerInit == Init => L!Init
<1> SUFFICES ASSUME Init PROVE L!Init
  OBVIOUS
<1>1. PICK c \in Companies :
        agencies = [s \in Sites |-> IF s \in SettledSites
                                      THEN [addSite(c) EXCEPT !.payment = [term |-> NoTerm]]
                                      ELSE addSite(c)]
  BY DEF Init
<1>2. \A s \in Sites : agencies[s].extension = "D"
  BY <1>1 DEF addSite
<1>3. service = [s \in Sites |-> "applied"]
  BY <1>2 DEF service
<1>4. entry = [t \in Trades |-> "none"]
  BY DEF Init, entry
<1>5. received = {}
  BY DEF Init, received
<1> QED
  BY <1>3, <1>4, <1>5 DEF L!Init

\* A changed row changes its entry, and no other.
LEMMA EntryStep ==
  ASSUME NEW t \in Trades, payments'[t] # NoRow,
         \A u \in Trades \ {t} : payments'[u] = payments[u]
  PROVE  /\ payments'[t].trTrace = "Y" => entry' = [entry EXCEPT ![t] = "paid"]
         /\ payments'[t].trTrace # "Y" => entry' = [entry EXCEPT ![t] = "awaiting"]
BY DEF entry

\* Only the extension status of a site shows in the ledger.
LEMMA ServiceStays ==
  ASSUME \A s \in Sites : agencies'[s].extension = agencies[s].extension
  PROVE  service' = service
BY DEF service

\* Only a payment at the PG shows as received.
LEMMA ReceivedStays ==
  ASSUME \A t \in Trades : trades'[t] = "paid" <=> trades[t] = "paid"
  PROVE  received' = received
BY DEF received

\* Every step of the notification handling is a step of the ledger or a stutter.
LEMMA LedgerStep ==
  ASSUME Inv, ReadsAreFresh, [Next]_vars
  PROVE  [L!Next]_(L!ledger)
<1> USE DEF Inv
<1>1. ASSUME UNCHANGED <<trades, payments, agencies>>
      PROVE  UNCHANGED L!ledger
  BY <1>1 DEF L!ledger, received, entry, service
<1>2. ASSUME NEW t \in Trades, IssueAccount(t) \/ DeclineCard(t) \/ OtherCardEvent(t)
      PROVE  UNCHANGED L!ledger
  <2>1. received' = received
    BY <1>2, ReceivedStays DEF IssueAccount, DeclineCard, OtherCardEvent, TypeOK
  <2>2. entry' = entry /\ service' = service
    BY <1>2 DEF IssueAccount, DeclineCard, OtherCardEvent, Notify, tables, entry, service
  <2> QED
    BY <2>1, <2>2 DEF L!ledger
<1>3. ASSUME NEW t \in Trades, Deposit(t) \/ ApproveCard(t)
      PROVE  L!Receive(t)
  <2>1. received' = received \union {t}
    BY <1>3 DEF Deposit, ApproveCard, TypeOK, received
  <2>2. entry' = entry /\ service' = service
    BY <1>3 DEF Deposit, ApproveCard, Notify, tables, entry, service
  <2> QED
    BY <2>1, <2>2 DEF L!Receive
<1>4. ASSUME NEW s \in Sites, NEW x \in {"Y", "N"}, SetStatus(s, x)
      PROVE  UNCHANGED L!ledger
  <2>1. service' = service
    BY <1>4, ServiceStays DEF SetStatus, TypeOK, AgencyRow
  <2>2. received' = received /\ entry' = entry
    BY <1>4 DEF SetStatus, pgVars, received, entry
  <2> QED
    BY <2>1, <2>2 DEF L!ledger
<1>5. ASSUME NEW s \in Sites, Reopen(s)
      PROVE  L!Open(s)
  <2>1. service[s] = "closed"
    BY <1>5 DEF Reopen, service
  <2>2. service' = [service EXCEPT ![s] = "open"]
    <3>1. agencies'[s].extension = "Y" /\ \A q \in Sites \ {s} : agencies'[q] = agencies[q]
      BY <1>5 DEF Reopen, TypeOK, AgencyRow
    <3> QED
      BY <3>1 DEF service
  <2>3. received' = received /\ entry' = entry
    BY <1>5 DEF Reopen, pgVars, received, entry
  <2> QED
    BY <2>1, <2>2, <2>3 DEF L!Open
<1>6. ASSUME NEW h \in Handlers, CommitSave(h)
      PROVE  L!Next \/ UNCHANGED L!ledger
  <2>1. PICK n \in Notices : n = handler[h].notice
    BY <1>6, SaveEffect
  <2>2. CASE Refuse(h, "ERROR")
    BY <1>1, <2>2 DEF Refuse, Goto, tables, pgVars
  <2>3. CASE ~Refuse(h, "ERROR")
    <3>1. /\ n \in sent /\ n.trade \in Trades
          /\ n.outStatCd \in {"0021", "0051"} /\ ~IsDeposit(n)
          /\ UNCHANGED <<trades, agencies>>
          /\ payments'[n.trade] = NewPayment(n)
          /\ \A u \in Trades \ {n.trade} : payments'[u] = payments[u]
      BY <1>6, <2>1, <2>3, SaveEffect
    <3>2. entry[n.trade] = "none"
      BY <1>6, <2>1, <3>1, EntryOf DEF CommitSave, ReadsAreFresh
    <3>3. received' = received /\ service' = service
      BY <3>1 DEF received, service
    <3>4. CASE n.outStatCd = "0051"
      <4>1. n.trade \in Deposits
        BY <3>1, <3>4 DEF SentMatchesTrades, Deposits
      <4>2. entry' = [entry EXCEPT ![n.trade] = "awaiting"]
        <5>1. payments'[n.trade] # NoRow /\ payments'[n.trade].trTrace = "N"
          BY <3>1, <3>4, NewPaymentType
        <5> QED
          BY <3>1, <5>1, EntryStep
      <4> QED
        BY <3>1, <3>2, <3>3, <4>1, <4>2 DEF L!Next, L!Await
    <3>5. CASE n.outStatCd = "0021"
      <4>1. n.trade \in received \ Deposits
        BY <3>1, <3>5 DEF SentMatchesTrades, IsDeposit, received, Deposits
      <4>2. entry' = [entry EXCEPT ![n.trade] = "paid"]
        <5>1. payments'[n.trade] # NoRow /\ payments'[n.trade].trTrace = "Y"
          BY <3>1, <3>5, NewPaymentType
        <5> QED
          BY <3>1, <5>1, EntryStep
      <4> QED
        BY <3>1, <3>2, <3>3, <4>1, <4>2 DEF L!Next, L!RecordCard
    <3> QED
      BY <3>1, <3>4, <3>5
  <2> QED
    BY <2>2, <2>3
<1>7. ASSUME NEW h \in Handlers, CommitDeposit(h)
      PROVE  L!Next
  <2>1. PICK n \in Notices : n = handler[h].notice
    BY <1>7, DepositEffect
  <2>2. PICK s \in Sites : s = Order[n.trade].site
    BY OrderType
  <2>3. /\ n \in sent /\ n.trade \in Trades /\ IsDeposit(n)
        /\ trades[n.trade] = "paid" /\ UNCHANGED trades
        /\ payments'[n.trade] \in PaymentRow /\ payments'[n.trade].trTrace = "Y"
        /\ \A u \in Trades \ {n.trade} : payments'[u] = payments[u]
        /\ agencies'[s].extension = "N"
        /\ \A q \in Sites \ {s} : agencies'[q] = agencies[q]
    BY <1>7, <2>1, <2>2, DepositEffect
  <2>4. n.trade \in received \intersect Deposits /\ received' = received
    BY <2>3 DEF received, Deposits, IsDeposit
  <2>5. entry[n.trade] # "none"
    <3>1. payments[n.trade] # NoRow
      BY <1>7, <2>1, <2>3 DEF CommitDeposit, ReadsAreFresh
    <3> QED
      BY <2>3, <3>1, EntryOf
  <2>6. entry' = [entry EXCEPT ![n.trade] = "paid"]
    BY <2>3, EntryStep
  <2>7. SiteOf[n.trade] = s
    BY <2>2, <2>3 DEF SiteOf
  <2>8. service[s] # "closed"
    <3>1. agencies[s].extension # "N"
      BY <1>7, <2>1, <2>2
         DEF CommitDeposit, ReadsAreFresh, RequestsMatchTrades, RequestMatches, TakesDeposit
    <3>2. agencies[s].extension \in {"D", "Y"}
      BY <3>1 DEF TypeOK, AgencyRow, ExtensionStatus
    <3> QED
      BY <3>2 DEF service
  <2>9. service' = [service EXCEPT ![s] = "closed"]
    BY <2>3 DEF service
  <2> QED
    BY <2>3, <2>4, <2>5, <2>6, <2>7, <2>8, <2>9 DEF L!Next, L!RecordDeposit
<1>8. ASSUME NEW h \in Handlers,
             RejectHash(h) \/ (\E n \in sent : Receive(h, n)) \/ MergeSelect(h) \/ LoadAgency(h)
               \/ Respond(h) \/ Abandon(h)
      PROVE  UNCHANGED <<trades, payments, agencies>>
  BY <1>8 DEF RejectHash, Receive, sendCAPayment, sendVAPayment,
        sendVAPendingPayment, ignoreNotice, MergeSelect, LoadAgency, Respond, Abandon,
        Refuse, Proceed, Goto, pgVars, tables
<1>9. CASE UNCHANGED vars
  BY <1>1, <1>9 DEF vars
<1> QED
  BY <1>1, <1>2, <1>3, <1>4, <1>5, <1>6, <1>7, <1>8, <1>9
     DEF Next, PaymentGateway, Administrator, Server, Serve, L!Next

\* With one request thread, the notification handling (HectoFinancialAdapter,
\* PaymentService) implements the ledger: a trade's entry never goes back, and a
\* deposit and its service change together.
THEOREM ImplementsLedger == OneAtATime /\ Spec => LedgerSpec
<1>1. Inv /\ ReadsAreFresh /\ [Next]_vars => [L!Next]_(L!ledger)
  BY LedgerStep
<1> QED
  BY <1>1, LedgerInit, FreshInvariance, PTL DEF Spec, LedgerSpec, L!Spec

-----------------------------------------------------------------------------
\* With fresh reads, no step takes a used row back.
LEMMA UsedStep ==
  ASSUME Inv, ReadsAreFresh, [Next]_vars
  PROVE  \A t \in Trades : Used(t) => Used(t)'
<1> USE DEF Inv
<1>1. ASSUME NEW h \in Handlers, CommitSave(h)
      PROVE  \A t \in Trades : Used(t) => Used(t)'
  <2>1. PICK n \in Notices : n = handler[h].notice
    BY <1>1, SaveEffect
  <2>2. ~Used(n.trade)
    BY <1>1, <2>1 DEF CommitSave, ReadsAreFresh, Used
  <2>3. \A u \in Trades \ {n.trade} : payments'[u] = payments[u]
    BY <1>1, <2>1, SaveEffect DEF Refuse, tables
  <2> QED
    BY <2>2, <2>3 DEF Used
<1>2. ASSUME NEW h \in Handlers, CommitDeposit(h)
      PROVE  \A t \in Trades : Used(t) => Used(t)'
  <2>1. PICK n \in Notices : n = handler[h].notice
    BY <1>2, DepositEffect
  <2>2. /\ payments'[n.trade] \in PaymentRow /\ payments'[n.trade].trTrace = "Y"
        /\ \A u \in Trades \ {n.trade} : payments'[u] = payments[u]
    BY <1>2, <2>1, DepositEffect
  <2> QED
    BY <2>2 DEF Used
<1> QED
  BY <1>1, <1>2, WritersOnly DEF tables, Used

\* With one request thread, a payment recorded as used stays so: a late or repeated
\* notification never takes its row back (sendVAPendingPayment, sendVAPayment).
THEOREM PaidStaysPaid == OneAtATime /\ Spec => PaidRowStaysPaid
<1>1. Inv /\ ReadsAreFresh /\ [Next]_vars => [\A t \in Trades : Used(t) => Used(t)']_vars
  BY UsedStep
<1> QED
  BY <1>1, FreshInvariance, PTL DEF Spec, PaidRowStaysPaid
=============================================================================
