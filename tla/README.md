# PaymentModule: a verification project

PaymentModule is a Spring Boot service with a small set of static pages.  It
registers the sites of partners ("agencies"), shows a site's customer the payment
page, hands the payment over to a payment gateway (the PG, Hecto Financial) and
records what the PG later reports about it.  This directory holds TLA+ models of
the service and its page, configurations that check them with TLC, and proofs
checked by TLAPS.

Paths below are relative to `src/src/main/java/com/modules/link` (Java) and
`src/src/main/resources/static/agency/procpayment` (the page).

## 1. Inventory

### Components

| component | code | state | operations | talks to |
|---|---|---|---|---|
| Payment notifications | `HFController`, `HectoFinancialAdapter`, `PaymentService.processPayment*`, `PaymentHistory`, `Agency.updateAgencyByVAPending` | rows of AGENCY_PAYMENT_HISTORY and AGENCY_INFO; per request the Hibernate session | `POST .../result/noti` | called by the PG until it answers `OK`; writes both tables |
| Registration | `AgencyController`, `AgencyService`, `AgencyDomainService`, `NotificationSender` | AGENCY_INFO; SITE_INFO and AGENCY_INFO_KEY are read | `getSiteStatus`, `regSiteInfo`, `cancelSiteInfo` | called by the partner, signed and encrypted; calls the administrators' tool |
| Message checks | `ValidateService`, `ValidateDomainService`, `EnumAgency` | none | HMAC, message type, site id initial | used by registration |
| Payment page endpoints | `PaymentController`, `PaymentService`, `PaymentDomainService`, `HFService` | reads all tables; writes the excess count of AGENCY_INFO | `getPaymentInfo`, `setPaymentSiteInfo` | called by the page; prepares the fields of the order for the PG |
| Checkout in the browser | `payment.html`, `process.js`, `datepicker.js` | the form, `process.data`, `process.selectedProduct` | open, pick or type a date, mark and confirm a product, choose a method, pay | calls the endpoints above, then the PG's window |
| Persistence | `BaseRepository`, Spring Data, Hibernate (open session in view) | the session of a request | `find`, `add` (a merge) | MariaDB, REPEATABLE READ, no version columns |
| Application form in the browser | `requestService.html`, `common.js`, `setUi.js`, `popup.js` | the inputs and agreements, the marks of bad inputs, the pop-up | enter, agree, ask for the second page (which cannot be had) | nobody: it sends nothing |
| Thank-you pages in the browser | `thankyou.html`, `thankyouRequestService.html` | texts | a request for the texts when the document is ready | an address the service does not have |
| jQuery under the pages | `jquery-3.6.4.js` | handlers of elements, callback lists, deferreds and their promises, requests, queues of effects and the list of timers | on, off, trigger, focus; done, fail, then; ajax, abort; fadeIn, fadeOut, stop, finish | called by the pages and by the date picker |
| Gateway ciphers, HTTP client and text helpers, configuration | see `PROJECT.json` | none that outlives a call | pure functions and start-up code | |

The PG, the administrators' tool and the database are not in the repository; what
the models say of them is what the code relies on, and is marked external.

### How they interact

```
 partner --regSiteInfo/status/cancel--> Registration --insert--> AGENCY_INFO
                                           \--notice--> administrators' tool --status, extension--> AGENCY_INFO
 customer -> page --getPayment/setPayment--> endpoints --read--> AGENCY_INFO, AGENCY_PAYMENT_HISTORY
                \--order--> PG --notification, repeated until OK--> Notifications --write--> both tables
```

### What is hard about it

- A notification runs two transactions and any other request may run in between;
  the session keeps rows it read in the first one and the second one uses them.
- Updates write whole rows, and no row carries a version.
- The PG delivers at least once, in any order, also while an earlier delivery is
  being served; `OK` ends the deliveries for good.
- Administrators write the same agency rows.
- Two registrations of one site may run at once; what tells them apart is only the
  primary key at the commit.
- Calls to the administrators' tool come after the commit and may be lost.
- The page may stay open while the site changes behind it, also between two checks
  of one call, which go on with the agency row the first of them has read although each
  is a transaction of its own; and the form's fields may get out of step with the
  amounts computed from them.
- Money and dates are computed twice, in two languages, with doubles and with
  roundings in different places.
- An input of the application form is marked when it loses the focus and its label
  unmarked when it gets it, and a pop-up gives the focus back to what it complains of.
- In jQuery one thread runs everything, but what it calls back may call it again at
  any point: handlers that bind and unbind while they are gone through, a focus that
  comes inside the call that asks for it, callbacks that throw, a request that is
  aborted, answered and timed out at once, timers that change their own list.

`PROJECT.json` lists each hazard at its line with the properties that watch it, or
with the reason why none does.

### What makes each component correct

- *Notifications*: a payment row never says more than the PG knows; an `OK` is never
  given for what is not recorded; a site gets a term only from a paid deposit of its
  own; a used deposit has left its mark on its site, always; a recorded payment is
  never taken back; a payment that has arrived is recorded in the end.
- *Registration*: the first form of a site stands, and a partner that was answered
  SUCCESS is the one whose form stands; administrators hear of registered sites only;
  a row names the agency whose initial its site id carries.
- *Page and endpoints*: what is charged is what was shown; page and server compute
  the same amounts, as far as doubles and remainders let them; the period is the one
  announced.  That the site may still pay when the order is handed over, and that the
  amounts are those of the date that is ordered, the code does not see to.
- *Application form*: what is marked is bad, and input and label agree.
- *jQuery*: a handler is called once for each event, unless one before it stopped it;
  callbacks run once and in order, complete callbacks last; an outcome reaches the end
  of its chain; active requests are counted; queues of effects never get stuck, the
  last fade wins and no element loses its own opacity.

## 2. Modules

| module | models | role |
|---|---|---|
| `Entities` | the rows `Agency`, `PaymentHistory`, `AgencyPayment` and the constructors and updates the services apply to them | shared by `Notification` and `Registration` |
| `Notification` | notifications, with the PG and the administrators around them | the concurrent system |
| `Ledger` | what the two tables promise: entries advance from none to awaiting to paid, and a deposit and the service it pays for are one step | the abstract specification `Notification` implements with one request at a time |
| `Registration` | the partner's endpoints and the message checks | the concurrent system |
| `Registry` | what registration promises: a site is registered once, notices follow it | the abstract specification `Registration` implements with any number of requests |
| `Billing` | dates, periods, prices and offers, as the page and as the server compute them | operators, no state |
| `Checkout` | a visit to the payment page: its form, its calls, and the checks of the two endpoints behind it | extends `Billing` |
| `Application` | the application form and its pop-up | a page by itself |
| `Callbacks` | jQuery's callback lists | operators, no state |
| `Deferred` | deferreds, promises of `then`, and the thread with its stack of calls | extends `Callbacks` |
| `Ajax` | requests on top of them, and the code of a page | extends `Deferred` |
| `Fx` | the queues of effects and the timers | jQuery under the date picker |
| `Events` | handlers, dispatch, `trigger` and the focus | jQuery under the date picker and `popup.js` |
| `MCNotification`, `MCRegistration`, `MCCheckout`, `MCApplication`, `MCAjax`, `MCFx`, `MCEvents` | instances for TLC | |
| `NotificationProofs`, `RegistrationProofs`, `CheckoutProofs`, `ApplicationProofs`, `AjaxProofs`, `FxProofs`, `EventsProofs`, `HandledProofs` | theorems | |

Definitions named `X_something` next to a definition `X` are variants of it with a
plausible mistake; `PROJECT.json` says which property tells each from the original.

### Notification

State: the two tables (`payments`, `agencies`), for each thread what its request
holds (`handler`: the step it is at, the notice, the rows its session has read, the
answer to give), and at the PG what happened to each trade (`trades`), what it has to
deliver (`sent`) and what it has seen answered `OK` (`acked`).

| action | code |
|---|---|
| `RejectHash` | `responseMessage`: a wrong `pktHash` is an exception |
| `sendCAPayment`, `sendVAPayment`, `sendVAPendingPayment`, `ignoreNotice` | the conversion of the dates (`HectoFinancialAdapter.java:154`) and the dispatch on `outStatCd` and method, with the look-up `isCurrentPayment` in a first transaction; `ignoreNotice` is every way past it, an exception of the conversion among them |
| `MergeSelect`, `CommitSave` | `processPaymentCA`, `processPaymentVAPending`: a merge, whose SELECT decides between INSERT and UPDATE, and its commit |
| `LoadAgency`, `CommitDeposit` | `processPaymentVA`: works on the payment row the session cached in the first transaction, reads the agency row, writes both |
| `Respond`, `Abandon` | the answer; a broken connection or a stopped server |
| `IssueAccount`, `Deposit`, `ApproveCard`, `DeclineCard`, `OtherCardEvent` | the PG (external) |
| `SetStatus`, `Reopen` | the administrators (external) |

`DateConversions` is the set of date conversions that return a value.
`LocalDate.from(Instant)`, which the adapter uses, throws on every JDK: with `{}` the
model is the program as it is.  With `{"instant"}` it is the program with that one
conversion repaired, so that everything behind it can be checked as well.  Invariants
and theorems hold for both; each run says which it takes.

A notification is an outcome of its fields, not text: its trade, `outStatCd` and
`bizType`.  Whether its hash is right is an outcome.  Terms are model values: the
start and end dates a deposit copies from payment to agency.  The excess count a
deposit writes is left out.

### Registration

State: the tables (`agencies`, `siteInfo`), for each thread its request, and what the
partner saw succeed (`confirmed`) and the tool was told (`told`).  A request is an
envelope (agency, message type, whether its HMAC is right) and a body (site, form).
`refuse`, `getStatus`, `cancel` and `save` are the checks and the reads of the three
endpoints; `save` ends inside the transaction of a registration, `CommitInsert` is its
commit, `sendNotification` the call behind it, `respond` the answer.  All look-ups of
a registration read one snapshot (REPEATABLE READ), so that they are one step; only
the primary key at `CommitInsert` sees what was committed since.  A form is a model
value with the agency it names; what its fields say is left out.

### Billing and Checkout

`Billing` keeps the two computations apart as the code does: the page multiplies price
or offer by a share of days, the server divides price and offer by the months first.
Both compute with doubles and round down, except for the server's offer, which is in
integers.  A double is off by far less than one divided by the days, so it matters only
where the exact amount is a whole number: there it may fall just below it.  `Floors`
leaves both outcomes open, on each side for itself; a price of 341000 for one month with
17 of 31 days left is 205699 on the page and 205700 on the server, and the run has it.
Which of the two outcomes a given amount has is left out.  `IntWidth` says for which
amounts and days this and the server's `int` products are right.
Dates are records of month and day in a calendar of months of 28 to 31 days.
`setMonthThenLastDay` is JavaScript's `setMonth` with its overflow; `Text` keeps the one
thing about the texts of amounts that matters, the decimal point Java writes.

`Checkout` has the site's rows as the endpoints read them (`site`), the form (`open`,
`dateShown`, `field`, `checked`, `selected`, `method`, `deposit`), what `process.data`
holds (`amounts`), what the page says (`shown`), the call the page waits for with what
the server does next (`request`), and what the last step handed over to the PG (`order`).

| action | code |
|---|---|
| `getPayment`, `setPaymentSiteInfo` | the page is opened, the customer pays: each sends its call and waits |
| `isValidSite`, `decideRateSel`, `decideStartDate`, `isScheduled`, `isExtendable`, `excessCount`, `excessAmount`, `verifyOrder` | the checks of the two endpoints, one transaction each: `isValidSite` reads the site's agency, the others find it in the request's session (`request.agency`; open-in-view is not switched off), and the payments behind `renewed` are queried each time |
| `Refused`, `Lost` | a check that throws; no answer |
| `getPaymentInfo`, `HFPayment` | what the page does with the answers: it fills in the form, it hands the order over |
| `onSelect`, `TypeDate`, `Check`, `selectProduct`, `ChooseMethod` | the calendar, the keyboard, the list of products, the methods |
| `SiteChanges` | what anybody else does to the site, between any two of these |

Both calls are synchronous, so the page does nothing while it waits, but it may be closed
and opened again.  A typed text is a date or no date.  The charge for exceeding an earlier
order is 0, because every site that would have one is refused (`PaymentPeriod`, below).

### Application

State: the texts of the inputs and the agreements (`value`, `agreed`), where the focus
is, the marks of inputs and labels, and the pop-up with the item to go back to.  `Focus`
is the focus going elsewhere, with the listeners for focusout and focusin; `Type` and
`Agree` are the customer; `requiredInfo`, `agree` and `productThrows` are the ways through
the button of the form, in the order of its checks; `popupClose` is the button of the
pop-up.  A text is a model value that is or is not a mail address, a phone number or
ten characters long.

`productThrows` is as far as the button gets.  `getSelectedProduct` asks for the marked
radio button in the table of products, which `requestService.html` leaves empty and
nothing fills (`createProductTableRow` is called on the payment page only, and the
records for this page are commented out in `dummyData1.js`), so it dereferences null.
The pop-up that asks for a product, `moveInfoCheckpage` and `setCheckpage` lie behind it
and are not modelled.

### Callbacks, Deferred and Ajax

State: of each deferred its outcome and its lists, of each promise of `then` what it
waits for and which handlers it has, the tasks put off, the stack of the thread, of
each request its phase, and `jQuery.active`.  A list is `Callbacks("once memory")`.
`fireNext` and `fireEnd` are a pass over a list, `runTask` and `endTask` a handler of
`then` in its own task, `return`, `returnPromise` and `throw` the ways out of a piece
of the page's code, `ajax`, `send`, `sent` and `sendThrows` a request on its way,
`Answer`, `Timeout` and `abort` its ends, `complete` and `completed` what follows.
What the code of a page does is chosen anew in each piece: anything, with any deferred
or request it can know.  History: `added` and `ran`, what was added to each list and
what of it was run.

### Fx

State: of each element its queue, whether it is displayed, whether its opacity is its
own or half-way, and the own opacity jQuery keeps (`fxshow`); the list of timers with
the cursor of the frame going through it.  `animate` is fadeIn and fadeOut, `stop` and
`finish` the interruptions, `show` and `hide` change an element at once in the middle of
whatever goes on, `promise` waits for the queues of elements (`awaited`); `frame`, `step`, `done`, `gone` and
`frameEnd` are a frame.

### Events

State: of each element its list of handlers and whether the browser has a listener for
it, `jQuery.event.triggered`, what is saved of a focus under way, where the focus is
and whether its event is late; the stack of calls under way, and their event objects,
which a dispatch and the browser share.  `visit`, `tail` and `tailEnd` are `trigger`'s
way through the elements and its call of the browser's method, `listener` the browser's
way, `call`, `returnTrue` and `dispatched` a dispatch from its copy of the list; the
steps `stub...`, `methodReturned` and `triggeredAgain` are `leverageNative`, by which a
focus that is triggered is handled in the browser's event if that comes.  `on`, `off`,
`offAll`, `trigger`, `stop` and `return` are what a handler may do.  `removed`,
`delegatedFor` and `handlers` go through a list as the loops of the code do, from the
end or from the head.  History: `history`, of each call under way what was due when
it began and which handlers were called for it, where, and whether they stopped it.

## 3. Runs

Each run asks one question.  `tlc -config X.cfg M` with the module and the
configuration named in `PROJECT.json` repeats it.

| run | question | answer |
|---|---|---|
| `concurrent` | two threads, two deposits and a card payment of one site, lost answers, redelivery, administrators, dates repaired | `TypeOK`, `RowsMatchTrades`, `AcknowledgedIsRecorded`, `UsedDepositActivates`, `ServiceIsPaidFor` hold |
| `serial` | the same with one thread: does it implement `Ledger`, is a paid row ever taken back, and is a payment that has arrived recorded in the end? | `LedgerSpec`, `PaidRowStaysPaid`, `PaymentsRecorded` hold |
| `jdk_live` | the program as it is, with its date conversion: is what the page promises kept? | `PaymentsRecorded` is **violated** |
| `fresh` | dates repaired, a site as registration leaves it, without `AgencyPayment` | `DepositsOpenService` is **violated**: the first deposit fails each time |
| `overtaken` | dates repaired, two threads | `PaidRowStaysPaid` is **violated**: a slow account notification overwrites a paid row |
| `race` | two threads, three forms of two agencies for one site | `TypeOK`, `ConfirmedIsRegistered`, `RegistrySpec` hold |
| `page` | every way through the page over six histories of a site, which may change between any two checks | `TypeOK`, `ShownIsCharged`, `ServerAgrees` hold |
| `period` | does a one-month order end when the page says? | `PeriodAsAnnounced` is **violated** on the last days of December |
| `apply` | every way through the application form | `TypeOK`, `MarksAreTrue` hold |
| `ajax` | a page doing anything with two requests, their callbacks and a chained promise | `TypeOK`, `CallbacksInOrder`, `OutcomesArePassedOn`, `ActiveCounts`, `ChainsSettle`, `CompleteIsLast` hold |
| `fx` | fades of two elements, interrupted at every point | `TypeOK`, `NeverStuck`, `OwnOpacityKept`, `LastFadeWins`, `PromiseIsKept`, `QueuesRunDry` hold |
| `events` | events and focuses with handlers that bind, unbind, stop and trigger | `TypeOK`, `ListsAreKept`, `HandledOnce`, `StoppedIsStopped`, `NoneMissed` hold |

The violated runs are disagreements of the code with what its pages, messages and
logs say; `PROJECT.json` quotes both sides under "findings".

### Bounds, and why they are enough

- *Threads*: two.  A notification reads and writes the rows of one trade and one
  site; every race the code can lose is between the reads of one request and the
  commit of another, which two threads show.  Threads are interchangeable (symmetry)
  in the runs without liveness.
  `serial` has one thread on purpose: with two, the overwritten row of `overtaken`
  breaks its properties, and for good, because the deposit has been
  answered `OK` by then and is not delivered again.
- *Trades*: two deposits compete for the site's row with different terms, a card
  payment is the third path through the code.  No code relates a trade to a second
  one except through the site.
- *Sites*: one.  Rows of different sites are never touched by one request; the proofs
  hold for any number.
- *Registration*: one site and three forms, a complete one of the site's
  agency and one of another, and an incomplete one, so that duplicates, races and strangers all occur.
- *Page*: the calendar runs from December to May, so that it has months of 28, 30 and
  31 days and contains the longest order from the latest day.  The days to pick are
  one before today and days with 15, 14 and 1 day left, the two sides of each
  threshold of the page.  Products: one month, at the price of the example above; one
  month on autopay; three months that divide neither price nor offer (100000 and 2500), so
  that both programs round and the server leaves a remainder out.
  The six site states are those the endpoints tell apart: as accepted, paid, open for
  its extension, on autopay, paid twice, suspended.
- *Application form*: one input of each kind of check, two agreements (the first that
  is missing is the one shown).
- *Ajax*: two requests, so that one may be the first or the last that is active: one
  with all three callbacks, a hook and a timeout, one without any of them.  One
  promise, which may be chained to either request or to the page's own deferred, one
  callback that may be added anywhere, one script.
- *Fx*: two elements share the list of timers, which is what one cannot show; five
  requests (`MaxRequests`) are enough for a queue to be interrupted, refilled and
  interrupted again beside one that goes on.
- *Events*: an element in another, two bindings, which may be delegated, for one event
  only, of one function or of two; two events one inside the other (`MaxCalls`), and
  one binding or unbinding within an event (`MaxChanges`; between events there is no
  bound).  Bindings and functions are interchangeable (symmetry).
- Nothing else is bounded: `sent` and `told` are sets, and no other counter grows.

`CHECK_DEADLOCK FALSE` stands where the system may stop: a page that has done all it
does (`Ajax`), effects that have run out of requests (`Fx`).

### Fairness

`FairSpec` of `Notification` (run `serial`) assumes: a thread that has work goes on with it (weak
fairness of `Serve`, the servlet container runs its threads); the PG repeats a
payment's notification until it is answered `OK`, so one that can be received again
and again is received (strong fairness of `Receive` per notice: `FAIL` and an error
response make the PG repeat, which is all the code relies on); broken connections and
server stops end at some time.  Nothing is assumed of the administrators, of the
customer who pays or does not, or of wrong hashes.  `PaymentsRecorded` leaves out a
deposit for a site that has no `AgencyPayment` (run `fresh`) and sites with several
deposits, where the first makes the site not extendable for the second and the code
refuses that one for ever.

`Ajax` assumes that the thread goes on while there is something on its stack or a task
is put off (weak fairness of `Thread`: the browser's event loop).  Nothing is assumed
of the network: an answer may never come.  `Fx` assumes that the browser shows frame
after frame (weak fairness) and that an animation that is gone through again and again
ends (strong fairness of `done`: its duration is over at some time).

## 4. Proofs

TLAPS proves the theorems for all values of the constants that satisfy the named
assumptions (`NotificationAssumption`, `RegistrationAssumption`, `BillingAssumption`,
`IntWidth`, `CheckoutAssumption`, `ApplicationAssumption`, `DeferredAssumption`, `AjaxAssumption` and
those on the null values), which TLC evaluates in every run.

- **`NotificationProofs`**: `Inv` is inductive for any number of threads, trades and
  sites.  The four safety properties are not inductive alone, because a request acts
  on what it read some time ago.  `RequestsMatchTrades` says what stays true of it:
  what a request holds is of the order of its trade, though it may be stale, and a
  request about to answer `OK` has recorded its notice.  `SentMatchesTrades` says that
  the PG reports only what happened.  What makes stale data harmless is monotone:
  `Advance` (a trade stays paid, a sent notice stays sent, a row never disappears, a
  site never goes back to "applied") is proved of every step first, and with it each
  part of the invariant needs to be looked at only for the steps that write what it
  is about.  Theorems: `TypeCorrect`, `RowsAreTrue`, `OKIsDurable`, `DepositsActivate`,
  `ServicePaidFor`.
- **`NotificationProofs`**, second part: with `OneAtATime` (at most one thread) what a request has read
  is still what the tables hold when it commits (`ReadsAreFresh`, on top of `Inv`).
  From this, every step is a step of `Ledger` or a stutter (`ImplementsLedger`), and a
  used row stays used (`PaidStaysPaid`).  Without `OneAtATime` the second one is false:
  run `overtaken`.
- **`RegistrationProofs`**: `Inv` adds to type and `ConfirmedIsRegistered` what a
  request knows behind its commit (`RequestMatches`); it is kept because the table only
  grows and no form is ever replaced.  Theorems for any number of threads and sites:
  `TypeCorrect`, `ConfirmedStands`, `ImplementsRegistry`.
- **`CheckoutProofs`**: `IInv` adds to `TypeOK` and `ShownIsCharged` what relates the
  steps of a call: dates stay within the calendar (`FieldReachable`), what `getPayment`
  answers is such a date (`FirstFits`), the page keeps the product and the amounts that
  it has sent until it is answered, and once they are verified they are computed ones
  (`PaymentFits`), and what is shown was computed for the first day shown
  (`AmountsShown`).  The site may turn into any of its states at any time; what one check
  hands on to the next is only the agency in the session, which is one of these states
  (`SessionFits`).  `ServerAgrees` then is arithmetic on the
  prices and offers that both programs may come to (`Floors`): quotients of the same
  days, of which the page's has the whole price and the server's the price of a month
  times the months.  `Apart` bounds two such quotients by what the first has more,
  `RemainderCharged` what the months leave of an amount; `PriceAgrees` and `OfferAgrees`
  put them together for every date and product.  No product needs months that divide
  its price.  Theorems: `TypeCorrect`, `ShownCharged`, `Agreement`.
- **`ApplicationProofs`**: `IInv` adds to the invariants of the run that nothing is
  marked before the listeners are there (`NoMarksBeforeLoad`).  Theorems for any form:
  `TypeCorrect`, `MarksTrue`.
- **`AjaxProofs`**, first invariant: `OutcomesPassedOn`, that no outcome is lost along a chain of
  promises, for any deferreds, requests, callbacks and hooks.  The property compares
  a settled promise with its source, so it must be known that a promise is settled
  only after its source and that a settled source stays as it is.  `Chained` says
  where a promise may be in the meantime: waiting for a source that is pending, in one
  task, or running a handler for what its source has come to, and pending as long.
  Whether it is running a handler is read off the stack, so the invariant also says
  how stacks may look (`GoodStack`): a task of `then` only at the bottom, its promise
  settled unless its handler is right above it; a handler and a hook only above the
  task and the request they belong to.  That is what makes an exception, which unwinds
  to the bottom, reject the right promise or none.  `AjaxAssumption` keeps hooks apart
  from the code that lists and scripts run, because a hook's `return false` means
  something only above its request.
- **`AjaxProofs`**, second invariant: `JInv` is kept together with the first and speaks
  of the lists.  `InStep` relates a list to what was added to it and what of that has
  run: nothing before the list is fired, all but what is left in the list in a pass or
  behind an exception that cut a pass off, everything after a pass.  `Passes` says what
  the frames on the stack stand for: no pass is on it twice, each is over a list that is
  firing, and the complete callbacks of a request are above the frame that ends it, with
  every other pass over a list of that request further up.  `Ended`: the complete
  callbacks of a request that is closed have been fired, or a frame on the stack will do
  it, or an exception has cut off the pass in which it was to be done.
  `active` is the number of requests in a set that is read off phases, lists and stack
  (`Counted`), so that each step has to be shown to change the set by the request it
  counts up or down.  Theorems: `AjaxTypes`, `ListsRunInOrder`, `RequestsCounted`,
  `CompleteLast`.
- **`FxProofs`**: `NeverStuck` holds between two calls of the library only, so `IInv`
  says what holds within a frame as well: an element is either without an animation,
  settled, with nothing in its queue (`Idle`), or has one live animation in the list of
  timers, which began from the element's own opacity or has kept it, and a queue that is
  marked (`Busy`); what is awaited has a queue, and as long as there are timers a
  frame is awaited.  Of the list, which the animations it runs change, the proofs only
  use that a timer that is taken out or put in leaves the live animations of the other
  elements (`Carries`).  What `finish` makes of an element is a recursion over all the
  requests that wait.  Theorems for any elements and any number of requests: `FxTypes`,
  `QueuesInProgress`, `OpacityComesBack`, `LastOneWins`, `PromisesKept`.
- **`EventsProofs`**: `IInv` is about what a stack of calls may look like when handlers
  may bind, unbind and trigger anything.  A list is sorted, delegated handlers first
  (`Sorted`), with the stub of a focus at its head (`StubFirst`), through every way of
  adding to it and taking from it (`AddKeeps`, `RemoveKeeps`).  The queue of a dispatch
  is what `HandlersQueue` says of the recursion over the elements and the list: all the
  handlers that are to be called, none twice, the stub first.  A frame has its event
  object, and an object the browser's event behind it, which is older (`ObjectsFit`);
  this must survive the release of the objects that nobody refers to any more
  (`KeptFits`) and what a focus keeps beyond its event (`SavedFits`).  That the object
  jQuery has saved of a focus is older than the event that answers it (`Awaits`) is
  what keeps the stub from working on an object that is gone.  Theorems for any
  elements, bindings and number of calls: `EventTypes`, `ListsKept`.
- **`HandledProofs`**: `HInv`, kept together with `IInv`, says what the calls on the
  stack are still to do.  Neither property is inductive without it: that a handler is
  called for the first time depends on the queue it is taken from, which was made many
  steps ago, and on everything that ran in between.  `BindingsFit`: no binding is listed
  twice.  `Chain`: which frame may lie on which (`Under`), so that of a call only the
  frames from its topmost event on are still at work (`IdleBelow`).  `FreshCalls`: each
  call has event objects of its own, so a nested event stops nothing of the one it is
  triggered in.  `Methods`: `jQuery.event.triggered` is set exactly while a trigger has
  the browser's method called, on top or right under the event that it brings.
  `DispatchFits`: of a dispatch that goes on, nothing in the queue was called, no
  handler is in it twice, and what is still bound under such an id is bound there.
  `RootFits`: nothing bound further on the event's way was called, and the event object
  is stopped exactly if a handler of this call has stopped it.  `Beginning`: before the
  stub of a focus has run, nothing was called, which is why the focus that is triggered
  again calls nothing a second time.  Each action is then shown to keep this by one of
  a few lemmas: an event begins (`EventHeld`), goes on (`RootGoesOn`), gives rise to a
  dispatch (`DispatchBegins`), a dispatch goes on (`DispatchGoesOn`), a handler goes on
  or is over (`HandlerGoesOn`), a frame is popped (`PoppedHeld`), handlers are bound and
  unbound (`BindingHeld`).  `NInv`, kept together with both, is about what is still to
  come.  `NoneLost`: as long as no handler has stopped it, whatever was due for a call and
  is bound was called, or a frame of the call still has to call it (`StillCalls`): it is
  in the queue of a dispatch that goes on, or bound further on the way of the event.
  `Owns`: a binding with the id of one that is due is that one, so unbinding and binding
  anew does not stand in for it.  `GoesAhead`: a dispatch whose stub has found that the
  input has the focus goes on, so nothing in its queue is dropped.  `StoppedAtOnce`: what
  is stopped at once is stopped, so a dispatch that begins further on the way has not
  ended already.  A focus that the browser gives late or never has nothing due any more
  (`excused`), in the model and in the proof.  The actions follow the same division
  (`EventDue`, `RootDue`, `DispatchDue`, `HandlerDue`, `PoppedDue`, `BindingDue`), and
  when the event is over none of its frames has anything left to call (`OverCalls`).
  Theorems: `CalledOnce`, `StoppedGoesNoFurther`, `NoneIsMissed`.

Induction over data with the library's induction theorems is out of the provers' reach,
because these take the property as an operator.  Where a recursive definition had to be
known for every input (`finish`, `removed`, `delegatedFor`, `handlers`), the property is
written as a set of numbers and the induction is the well-foundedness of `<`
(`WFMin`); the lemmas `Everything` and `Recursion` of the two modules state it once.
`SelectSeq` and other recursive operators of the standard modules stay opaque; the
models use functions instead where a proof needs to look inside.

Only model-checked: liveness (`PaymentsRecorded`, `ChainsSettle`, `QueuesRunDry`), and
everything that is violated.  Every other property of a passing run is stated by a theorem.

## 5. Disagreements met that no run states

- `AgencyDomainService.java:34`: status and cancellation of a site that is not
  registered dereference null; modelled as `ERROR`.
- `ValidateDomainService.java:64`: the message type is compared with one derived from
  itself, so a wrong type for an endpoint passes; modelled in `verifyMessageType`.
- `HectoFinancialAdapter.java:197`: a deposit that is notified again after its site
  was reopened is applied a second time.
- `datepicker.js:38`: a calendar click after marking another product enables the
  deposit method again although an autopay product is the confirmed one.
- `PaymentPeriod.java:30`: a `LocalDate` parsed with a pattern that has a time of day
  throws; a site with two used payments can neither extend nor order.
- `process.js:326` and `PaymentDomainService.java:163`: the page and the server come to
  different prices, by a won where a double rounds down below a whole amount (341000, one
  month, 17 of 31 days left: 205699 and 205700), and by 1.1 won for each won that the
  months leave of the price, which the server drops.  `ServerAgrees` says that it is never
  more.
- `PaymentService.java:42`: the checks of `setPayment` are transactions of their own, but
  only the first reads the agency row, which the session keeps for the others, and the
  order goes to the PG after the last; a site that is paid or suspended meanwhile still
  gets its order (`SiteChanges` before `verifyOrder` or `HFPayment`).
- `PaymentService.java:222`: the agency row is written whole as it was read, so that an
  administrator's change or another deposit's term in between is lost.
- `PaymentDomainService.java:135`: the server's threshold for the end date is 16 days
  left, the page's 14, and every product counts as a one-month one; `verifyValue`
  hides it, being true whenever one of its checks fails.
- `payment.html:194` says the amount is computed by the day from the desired start
  date.  It is computed when a product is confirmed or a day is picked; a date typed
  into the field afterwards is ordered at the old price (`TypeDate`, `setPaymentSiteInfo`), and
  the server accepts it, for the reason before.
- `AgencyExceptionHandler.java:62` says that the site ids of an agency must begin with
  its initial.  `AgencyController.java:88` asks that of the agency of the envelope and
  stores the agency of the form, which nothing compares with it (`save`).
- `process.js:226`: the text of the autopay field has no `value`, so that `autopayYN`
  is never set, and both cases of the switch are the same.
- `process.js:20-23`: `payProgress` says that a date is wrong, and the payment goes on
  with it all the same.
- `common.js:168`: `getSelectedProduct` throws when no product is marked, before the
  pop-up that asks for one; no product can be marked, so the form is never sent.
- `common.js:57-58`: the second page, if it could be reached, would show two fixed texts
  for product and autopay.
- `common.js:131`: the pattern for a URL belongs to an id that no input has.
- `thankyou.html:148`: the texts are asked of `/result/decrypt`, which no controller
  serves, without a handler for the error; the ready function of `process.js` would
  call `setInformation_5`, which is defined nowhere.
- `jquery-3.6.4.js:1986`: when a `focus()` does not get the focus, the next one calls the
  handlers without asking the browser again (`stubUnderWay`).
- `jquery-3.6.4.js:1789`: clearing a queue during a `delay` drops the hooks with the
  delay's `stop`, so that its timer goes on and takes the next request out of a queue
  that is in progress; no page uses `delay`, and `Fx` leaves it out.

## 6. Not modelled, and why

- Ciphers and hashes: pure functions; whether one matches is an outcome in the models.
- HTML, wording, logging, the pop-ups of the payment page: no state that anything else
  reads.
- `HFService`'s fields for the PG's window: they do not come back into the service;
  a notification names its trade by the PG's own number.
- Start-up configuration; what the thank-you pages write into their texts.
- The excess count the payment page's endpoints write: no request reaches that write
  while `PaymentPeriod` throws.
- jQuery's selection, manipulation and styles: functions of the document.  Of callbacks,
  progress, `pipe` and `when`; of requests, the global events, `statusCode` and
  synchronous ones; of effects, `toggle`, `delay`, `queue: false` and callbacks that call
  the library again; of events, namespaces, `data`, several types at once, inline
  `on...` attributes (no element with handlers of jQuery's has one), the focusin and
  focusout events, `triggerHandler` of a focus, checkboxes triggered by script, and the
  window behind the document.
- jQuery UI's date picker: minified; met through `onSelect` and through what it asks of
  jQuery.
- The second page of the application form, which is not reachable (section 2).
- Which way a double rounds at a whole amount: `Floors` has both.

## 7. Plan

Done: `Entities`, `Notification`, `Ledger`; `Registration`, `Registry`; `Billing`,
`Checkout`; `Application`; `Callbacks`, `Deferred`, `Ajax`; `Fx`; `Events`; the proofs of
section 4.

Next, in this order:

1. `PaymentPage`: the endpoints with their Hibernate session, `excessCount` writing the
   agency row the session has kept (with `PaymentPeriod` repaired, as
   `DateConversions` does for notifications), beside a deposit's commit.  Of little use
   before `PaymentPeriod` is repaired.
2. Proofs: `PeriodAsAnnounced` for all first days up to the 28th; that a paid row can be
   taken back only by a request that looked the trade up before its row existed.
