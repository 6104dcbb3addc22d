------------------------------- MODULE Checkout -------------------------------
(***************************************************************************)
(* One visit to the payment page of a site: the form in the browser        *)
(* (payment.html, process.js, datepicker.js) and the endpoints it calls,   *)
(* getPayment when it opens and setPayment when the customer pays          *)
(* (PaymentController, PaymentService), until the order is handed over to  *)
(* the payment gateway.                                                    *)
(*                                                                         *)
(* The page computes end, price and offer of the order when a product is   *)
(* confirmed or a date is picked in the calendar.  It sends them with the  *)
(* date that stands in the date field, and the confirmed product, when the *)
(* customer pays.  An exception in a handler ends that handler; what it    *)
(* has assigned before stays.                                              *)
(*                                                                         *)
(* Both calls are synchronous: the page does nothing until it is answered, *)
(* but the customer may close it.  The server goes through the checks of a *)
(* call one by one.  They share the session of the request, which keeps    *)
(* the site's agency as the first of them has read it, while the payments  *)
(* are queried each time.  The site may change between any two of them and *)
(* before the answer is acted upon.                                        *)
(***************************************************************************)
EXTENDS Billing

CONSTANTS
  Days,        \* the days the customer may pick, type or come with
  Today,
  SiteStates,  \* the states the site's rows may be in
  NoProduct    \* no product chosen

PayMethods == {"vbank", "card"}

\* What the endpoints read of a site.  scheduled: its SCHEDULED_RATE_SEL is an
\* autopay product; renewed: it has two or more used payments.
SiteState == [status    : {"Y", "N", "E", "D", "H", "R", "P"},
              extension : {"D", "Y", "N"},
              rateSel   : Products \union {NoProduct},
              startDate : Dates \union {NoDate},
              endDate   : Dates \union {NoDate},
              scheduled : BOOLEAN,
              renewed   : BOOLEAN]

\* The calendar reaches as far as any order, and back to a fortnight before the
\* end of a term; a site that is open for its extension has a term.
ASSUME CheckoutAssumption ==
  /\ Days \subseteq Dates /\ Today \in Dates
  /\ SiteStates \subseteq SiteState
  /\ NoProduct \notin Products
  /\ Today.month + 3 <= LastMonth
  /\ \A p \in Products : Today.month + 1 + Catalog[p].months <= LastMonth
  /\ \A d \in Days : d.month <= Today.month + 1
  /\ \A s \in SiteStates :
       /\ s.extension = "Y" => s.endDate # NoDate
       /\ s.startDate # NoDate => s.startDate.month <= Today.month + 1
       /\ s.endDate # NoDate => s.endDate.month \in 2..Today.month

Amounts == [endDate : Dates, price : Nat, offer : Nat]
NoAmounts == [endDate |-> NoDate, price |-> 0, offer |-> 0]

\* The session of a request that has not read the site yet.
NotRead == [status |-> "none"]

Blank == [name |-> NoProduct, from |-> NoDate, amounts |-> NoAmounts]

\* A call the page waits for: what it has sent, what the server does next, and the
\* agency of the site as the session keeps it.
\* getPayment collects its answer on the way (the product, the first day, whether
\* the site is open for its extension).
OpeningCall == [endpoint   : {"getPayment"},
                next       : {"isValidSite", "decideRateSel", "decideStartDate",
                              "isScheduled", "isExtendable", "excessCount",
                              "excessAmount", "answer"},
                agency     : SiteStates \union {NotRead},
                startDate  : Days \union {NoDate},
                rateSel    : Products \union {NoProduct},
                first      : Dates \union {NoDate},
                extendable : BOOLEAN]

PaymentCall == [endpoint  : {"setPayment"},
                next      : {"isValidSite", "decideRateSel", "decideStartDate",
                             "verifyValue", "answer"},
                agency    : SiteStates \union {NotRead},
                startDate : Dates \union {NoDate},
                rateSel   : Products,
                amounts   : Amounts \union {NoAmounts},
                method    : PayMethods]

NoCall == [next |-> "none"]

VARIABLES
  site,      \* the site's rows
  open,      \* has the page got its data?
  dateShown, \* is the date field shown?
  field,     \* the date field
  checked,   \* the radio button marked in the list of products
  selected,  \* process.selectedProduct, the product confirmed last
  method,    \* the payment method marked
  deposit,   \* can the method "vbank" be marked?
  amounts,   \* process.data: end, price and offer of the order
  shown,     \* what the page says of the order: product, first day, amounts
  request,   \* the call the page waits for, or none
  order      \* what this step hands over to the gateway, or nothing

page == <<open, dateShown, field, checked, selected, method, deposit, amounts, shown>>
vars == <<site, page, request, order>>

Order == [product : Products, startDate : Dates, amounts : Amounts, method : PayMethods]
NoOrder == [product |-> NoProduct]

\* What each variable may be: an order has a product, a first day and computed amounts.
TypeOK ==
  /\ site \in SiteStates
  /\ open \in BOOLEAN /\ dateShown \in BOOLEAN /\ deposit \in BOOLEAN
  /\ field \in Dates \union {NoDate}
  /\ checked \in Products \union {NoProduct}
  /\ selected \in Products \union {NoProduct}
  /\ method \in PayMethods
  /\ amounts \in Amounts \union {NoAmounts}
  /\ shown \in [name : Products \union {NoProduct}, from : Dates \union {NoDate},
                amounts : Amounts \union {NoAmounts}]
  /\ request \in OpeningCall \union PaymentCall \union {NoCall}
  /\ order \in Order \union {NoOrder}

Init ==
  /\ site \in SiteStates
  /\ open = FALSE /\ dateShown = TRUE /\ field = Today
  /\ checked = NoProduct /\ selected = NoProduct
  /\ method = "vbank" /\ deposit = TRUE
  /\ amounts = NoAmounts /\ shown = Blank
  /\ request = NoCall /\ order = NoOrder

-----------------------------------------------------------------------------
(* The server. *)

\* isValidSite
Payable == site.status \notin {"H", "R", "N"}

\* PaymentDomainService.decideStartDate throws for these dates.
BadStartDate(agency, received) ==
  \/ agency.extension = "N"
  \/ agency.extension = "D" /\ received # NoDate /\ isBefore(received, Today)
  \/ /\ agency.extension = "Y" /\ received # NoDate
     /\ isBefore(received, minusDays15(agency.endDate))

\* ... and returns this one for the others.
FirstDay(agency, received) ==
  IF agency.extension = "Y"
    THEN IF received # NoDate THEN received ELSE nextDay(agency.endDate)
    ELSE IF agency.startDate # NoDate THEN agency.startDate ELSE Today

\* Mutant of Verified: the end date is not parsed.
Verified_noEndDate(p, d, a) ==
  /\ ~site.renewed
  /\ d # NoDate
  /\ verifyValue(p, d, a.endDate, Text(a.price, FALSE), Text(a.offer, FALSE), Today)

\* PaymentService.verifyValue does not throw: the excess of a site with two used
\* payments would, since it asks PaymentPeriod for its dates, which parses them by a
\* pattern they never match; the dates parse; and verifyValue is true.
Verified(p, d, a) ==
  /\ ~site.renewed
  /\ d # NoDate /\ a # NoAmounts
  /\ verifyValue(p, d, a.endDate, Text(a.price, FALSE), Text(a.offer, FALSE), Today)

\* The call goes on with the next check.
goesOn(step) ==
  /\ request' = [request EXCEPT !.next = step]
  /\ order' = NoOrder
  /\ UNCHANGED <<site, page>>

\* The first check reads the site; the session keeps what it has read.
isValidSite ==
  /\ request.next = "isValidSite" /\ Payable
  /\ request' = [request EXCEPT !.next = "decideRateSel", !.agency = site]
  /\ order' = NoOrder
  /\ UNCHANGED <<site, page>>

\* A product the page has sent is one of the active ones.
decideRateSel ==
  /\ request.next = "decideRateSel"
  /\ request' = [request EXCEPT !.next = "decideStartDate",
                               !.rateSel = IF @ # NoProduct THEN @ ELSE request.agency.rateSel]
  /\ order' = NoOrder
  /\ UNCHANGED <<site, page>>

\* setPayment only wants to know whether it throws.
decideStartDate ==
  /\ request.next = "decideStartDate"
  /\ ~BadStartDate(request.agency, request.startDate)
  /\ request' = IF request.endpoint = "getPayment"
                  THEN [request EXCEPT !.next = "isScheduled",
                                       !.first = FirstDay(request.agency, request.startDate)]
                  ELSE [request EXCEPT !.next = "verifyValue"]
  /\ order' = NoOrder
  /\ UNCHANGED <<site, page>>

isScheduled ==
  /\ request.next = "isScheduled" /\ ~request.agency.scheduled
  /\ goesOn("isExtendable")

\* Only a site that is open for its extension is asked for its excess.
isExtendable ==
  /\ request.next = "isExtendable"
  /\ request' = IF request.agency.extension = "Y"
                  THEN [request EXCEPT !.next = "excessCount", !.extendable = TRUE]
                  ELSE [request EXCEPT !.next = "answer"]
  /\ order' = NoOrder
  /\ UNCHANGED <<site, page>>

excessCount ==
  /\ request.next = "excessCount" /\ ~site.renewed
  /\ goesOn("excessAmount")

excessAmount ==
  /\ request.next = "excessAmount" /\ ~site.renewed
  /\ goesOn("answer")

verifyOrder ==
  /\ request.next = "verifyValue"
  /\ Verified(request.rateSel, request.startDate, request.amounts)
  /\ goesOn("answer")

\* A check throws; the page says so and stays as it is.
Refused ==
  /\ \/ request.next = "isValidSite" /\ ~Payable
     \/ /\ request.next = "decideStartDate"
        /\ BadStartDate(request.agency, request.startDate)
     \/ request.next = "isScheduled" /\ request.agency.scheduled
     \/ request.next \in {"excessCount", "excessAmount"} /\ site.renewed
     \/ /\ request.next = "verifyValue"
        /\ ~Verified(request.rateSel, request.startDate, request.amounts)
  /\ request' = NoCall /\ order' = NoOrder
  /\ UNCHANGED <<site, page>>

\* The server cannot be reached, or its answer does not arrive.
Lost ==
  /\ request # NoCall
  /\ request' = NoCall /\ order' = NoOrder
  /\ UNCHANGED <<site, page>>

-----------------------------------------------------------------------------
(* The page. *)

\* process.select, which throws when there is no product or no date.
selects(p, d) == [endDate : {selectEndDate(p, d)},
                  price   : selectPrices(p, d),
                  offer   : selectOffers(p, d)]

\* Mutant of setSelectedValue: the price is shown before it is computed.
setSelectedValue_early(c, p, d) ==
  /\ deposit' = ~Catalog[c].autopay
  /\ method' = IF Catalog[c].autopay THEN "card" ELSE method
  /\ IF p = NoProduct \/ d = NoDate
       THEN UNCHANGED amounts /\ shown' = [shown EXCEPT !.name = c]
       ELSE /\ amounts' \in selects(p, d)
            /\ shown' = [name |-> c, from |-> d, amounts |-> amounts]

\* setSelectedValue for the marked product c, when p is the confirmed product and
\* d stands in the date field.
setSelectedValue(c, p, d) ==
  /\ deposit' = ~Catalog[c].autopay
  /\ method' = IF Catalog[c].autopay THEN "card" ELSE method
  /\ IF p = NoProduct \/ d = NoDate
       THEN UNCHANGED amounts /\ shown' = [shown EXCEPT !.name = c]
       ELSE /\ amounts' \in selects(p, d)
            /\ shown' = [name |-> c, from |-> d, amounts |-> amounts']

\* The customer opens the page, or opens it again, with a date and a product in its
\* address or without: an empty form that waits for getPayment.
getPayment(d, c) ==
  /\ open' = FALSE /\ dateShown' = TRUE /\ field' = Today
  /\ checked' = NoProduct /\ selected' = NoProduct
  /\ method' = "vbank" /\ deposit' = TRUE
  /\ amounts' = NoAmounts /\ shown' = Blank
  /\ request' = [endpoint |-> "getPayment", next |-> "isValidSite", agency |-> NotRead,
                 startDate |-> d, rateSel |-> c, first |-> NoDate, extendable |-> FALSE]
  /\ order' = NoOrder
  /\ UNCHANGED site

\* The answer: the form is filled in, and the product confirmed if one is given.
getPaymentInfo ==
  LET p     == request.rateSel
      start == IF request.startDate # NoDate THEN request.startDate ELSE request.first IN
  /\ request.next = "answer" /\ request.endpoint = "getPayment"
  /\ open' = TRUE /\ dateShown' = ~request.extendable /\ field' = start
  /\ checked' = p /\ selected' = p
  /\ IF p = NoProduct
       THEN UNCHANGED <<method, deposit, amounts, shown>>
       ELSE setSelectedValue(p, p, start)
  /\ request' = NoCall /\ order' = NoOrder
  /\ UNCHANGED site

\* The page has its data and waits for nothing.
Idle == open /\ request = NoCall

\* A click on a day of the calendar (datepicker's onSelect).
onSelect(d) ==
  /\ Idle /\ dateShown
  /\ field' = d
  /\ IF checked = NoProduct
       THEN UNCHANGED <<method, deposit, amounts, shown>>
       ELSE setSelectedValue(checked, selected, d)
  /\ order' = NoOrder
  /\ UNCHANGED <<site, open, dateShown, checked, selected, request>>

\* The date field is an ordinary text field: typing into it calls nothing.
TypeDate(d) ==
  /\ Idle /\ dateShown
  /\ field' = d /\ order' = NoOrder
  /\ UNCHANGED <<site, open, dateShown, checked, selected, method, deposit, amounts,
                 shown, request>>

\* A radio button in the list of products, which may be closed without confirming.
Check(p) ==
  /\ Idle
  /\ checked' = p /\ order' = NoOrder
  /\ UNCHANGED <<site, open, dateShown, field, selected, method, deposit, amounts,
                 shown, request>>

\* process.selectProduct: the marked product is confirmed.
selectProduct ==
  /\ Idle /\ checked # NoProduct
  /\ selected' = checked
  /\ setSelectedValue(checked, checked, field)
  /\ order' = NoOrder
  /\ UNCHANGED <<site, open, dateShown, field, checked, request>>

ChooseMethod(m) ==
  /\ Idle
  /\ m = "vbank" => deposit
  /\ method' = m /\ order' = NoOrder
  /\ UNCHANGED <<site, open, dateShown, field, checked, selected, deposit, amounts,
                 shown, request>>

\* The customer pays.  payProgress only says that a date is wrong, and
\* setPaymentSiteInfo goes on with it.
setPaymentSiteInfo ==
  /\ Idle /\ selected # NoProduct
  /\ request' = [endpoint |-> "setPayment", next |-> "isValidSite", agency |-> NotRead,
                 startDate |-> field, rateSel |-> selected, amounts |-> amounts, method |-> method]
  /\ order' = NoOrder
  /\ UNCHANGED <<site, page>>

\* The answer: the gateway is given the price and the method the server sends back
\* with its hash, and for the rest what stands in the page.
HFPayment ==
  /\ request.next = "answer" /\ request.endpoint = "setPayment"
  /\ order' = [product   |-> selected,
               startDate |-> request.startDate,
               amounts   |-> [amounts EXCEPT !.price = request.amounts.price],
               method    |-> request.method]
  /\ request' = NoCall
  /\ UNCHANGED <<site, page>>

\* Meanwhile a payment may be recorded, or an administrator may write the site.
SiteChanges ==
  /\ site' \in SiteStates
  /\ order' = NoOrder
  /\ UNCHANGED <<page, request>>

Server ==
  \/ isValidSite \/ decideRateSel \/ decideStartDate \/ isScheduled \/ isExtendable
  \/ excessCount \/ excessAmount \/ verifyOrder \/ Refused

Next ==
  \/ \E d \in Days \union {NoDate}, c \in Products \union {NoProduct} : getPayment(d, c)
  \/ \E d \in Days : onSelect(d)
  \/ \E d \in Days \union {NoDate} : TypeDate(d)
  \/ \E p \in Products : Check(p)
  \/ \E m \in PayMethods : ChooseMethod(m)
  \/ selectProduct \/ setPaymentSiteInfo
  \/ Server \/ Lost
  \/ getPaymentInfo \/ HFPayment
  \/ SiteChanges

Spec == Init /\ [][Next]_vars

-----------------------------------------------------------------------------
(* Properties. *)

\* The end, price and offer handed over are those the page shows, whatever was
\* typed, marked or left unconfirmed since they were computed, and although the
\* price comes back from the server and the rest is read from the page again.
ShownIsCharged == order # NoOrder => order.amounts = shown.amounts

\* The page and the server compute the same but for rounding: the shown price and
\* offer are, for the shown first day, what PaymentDomainService computes for some
\* product.  Doubles make a difference of one won (or case) at most.  What remains when
\* a price or an offer is divided by its months the server leaves out and the page
\* charges: at most 1.1 won, or one case, for every one that remains.
ServerAgrees ==
  shown.from # NoDate =>
    \E p \in Products :
      LET leftPrice == Catalog[p].price % Catalog[p].months
          leftOffer == Catalog[p].offer % Catalog[p].months
      IN /\ \A s \in calcPrices(p, shown.from) :
              /\ s <= shown.amounts.price + 1
              /\ 10 * shown.amounts.price < 10 * (s + 2) + 11 * leftPrice
         /\ calcOffer(p, shown.from) <= shown.amounts.offer + 1
         /\ shown.amounts.offer <= calcOffer(p, shown.from) + leftOffer

\* A one-month order with less than 15 days of its first month left ends with the
\* month after that.
PeriodAsAnnounced ==
  shown.from # NoDate /\ (\A p \in Products : Catalog[p].months = 1) =>
    (DaysLeft(shown.from) < 15 =>
       shown.amounts.endDate = EndOfMonth(shown.from.month + 1))
=============================================================================
