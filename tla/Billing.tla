-------------------------------- MODULE Billing --------------------------------
(***************************************************************************)
(* What an order of a product costs, what it offers and when it ends: once *)
(* as the payment page computes it (process.select in process.js), once as *)
(* the server checks it (PaymentDomainService).                            *)
(*                                                                         *)
(* Both programs compute with doubles and round down, by expressions of    *)
(* their own; only the server's offer is computed in integers.  What a     *)
(* double rounds down to is a choice here, see Floors.                     *)
(* The charge for exceeding the last order is 0: a site that would have    *)
(* one is refused, see Checkout.                                           *)
(***************************************************************************)
EXTENDS Naturals

CONSTANTS
  Products,   \* the active products of an agency
  Catalog,    \* PRICE, OFFER and MONTH of a product; is it paid by "autopay"?
  LastMonth,  \* the calendar runs from month 1 to this month
  MonthDays,  \* the length of each month
  NoDate      \* a date that is null, empty or no date

ASSUME BillingAssumption ==
  /\ Catalog \in [Products -> [price : Nat, offer : Nat, months : Nat \ {0},
                               autopay : BOOLEAN]]
  /\ LastMonth \in Nat
  /\ MonthDays \in [1..LastMonth -> 28..31]

\* No product of a price or an offer and the days of a month leaves the width of
\* an int, and an order is for less than a thousand months.
ASSUME IntWidth ==
  \A p \in Products : /\ Catalog[p].price * 31 <= 2147483647
                      /\ Catalog[p].offer * 31 <= 2147483647
                      /\ Catalog[p].months < 1000

Dates == {d \in [month : 1..LastMonth, day : 1..31] : d.day <= MonthDays[d.month]}

ASSUME NoDateIsNoDate == NoDate \notin Dates

isBefore(d, e) == d.month < e.month \/ (d.month = e.month /\ d.day < e.day)

\* The days from d to the end of its month, d included.
DaysLeft(d) == MonthDays[d.month] - d.day + 1

EndOfMonth(m) == [month |-> m, day |-> MonthDays[m]]

nextDay(d) == IF d.day < MonthDays[d.month]
                THEN [d EXCEPT !.day = @ + 1]
                ELSE [month |-> d.month + 1, day |-> 1]

minusDays15(d) == IF d.day > 15
                    THEN [d EXCEPT !.day = @ - 15]
                    ELSE [month |-> d.month - 1, day |-> d.day + MonthDays[d.month - 1] - 15]

\* Math.floor of a double that was computed for x / y.  Its error is far smaller
\* than 1 / y for such products, so it matters only where x / y is a whole
\* number: there the double may have fallen below it.
Floors(x, y) == {x \div y} \union
                IF x > 0 /\ x % y = 0 THEN {x \div y - 1} ELSE {}

-----------------------------------------------------------------------------
(* The payment page. *)

\* Date.setMonth(getMonth() + k), then setDate(0).  A day the new month does not
\* have runs over into the month after it, and setDate(0) stops a month late.
setMonthThenLastDay(d, k) ==
  EndOfMonth(IF d.day <= MonthDays[d.month + k] THEN d.month + k - 1 ELSE d.month + k)

\* A one-month order of the last two weeks runs into the next month.
selectEndDate(p, d) ==
  setMonthThenLastDay(d, IF Catalog[p].months = 1 /\ DaysLeft(d) <= 14
                           THEN 2 ELSE Catalog[p].months)

\* Mutant of selectDays: the next month is charged from 15 days on.
selectDays_15(p, d) ==
  LET days == MonthDays[d.month] IN
  IF Catalog[p].months = 1
    THEN IF DaysLeft(d) <= 15 THEN DaysLeft(d) + days ELSE DaysLeft(d)
    ELSE DaysLeft(d) + (Catalog[p].months - 1) * days

\* The days charged for; `duration' is their share in the days of the order's
\* months, all of them as long as the first.
selectDays(p, d) ==
  LET days == MonthDays[d.month] IN
  IF Catalog[p].months = 1
    THEN IF DaysLeft(d) <= 14 THEN DaysLeft(d) + days ELSE DaysLeft(d)
    ELSE DaysLeft(d) + (Catalog[p].months - 1) * days

selectPrices(p, d) ==
  Floors(Catalog[p].price * selectDays(p, d) * 11,
         Catalog[p].months * MonthDays[d.month] * 10)

selectOffers(p, d) ==
  Floors(Catalog[p].offer * selectDays(p, d), Catalog[p].months * MonthDays[d.month])

-----------------------------------------------------------------------------
(* The server. *)

basePrice(p) == Catalog[p].price \div Catalog[p].months
baseOffer(p) == Catalog[p].offer \div Catalog[p].months

calcOffer(p, d) ==
  LET partial == (baseOffer(p) * DaysLeft(d)) \div MonthDays[d.month] IN
  IF Catalog[p].months > 1 THEN baseOffer(p) * (Catalog[p].months - 1) + partial
  ELSE IF DaysLeft(d) <= 14 THEN baseOffer(p) + partial
  ELSE partial

\* Math.floor(calcPrice)
calcPrices(p, d) ==
  LET days   == MonthDays[d.month]
      months == IF Catalog[p].months > 1 THEN Catalog[p].months - 1
                ELSE IF DaysLeft(d) <= 14 THEN 1
                ELSE 0
  IN Floors(basePrice(p) * (DaysLeft(d) + months * days) * 11, days * 10)

\* An amount as the text it is compared as: Java writes a double with a decimal
\* point ("10290.0"), the page writes its number without one ("10290").
Text(n, point) == [digits |-> n, point |-> point]

isValidStartDate(d, today) == ~isBefore(d, today)

\* The length of the product does not matter here.
isValidEndDate(d, e) ==
  e = EndOfMonth(IF d.day < MonthDays[d.month] - 15 THEN d.month ELSE d.month + 1)

isValidPriceAndAmount(p, d, salesPrice, offer) ==
  /\ offer = Text(calcOffer(p, d), FALSE)
  /\ salesPrice \in {Text(s, TRUE) : s \in calcPrices(p, d)}

\* PaymentDomainService.verifyValue, on whose FALSE the request fails.
verifyValue(p, d, e, salesPrice, offer, today) ==
  \/ ~isValidStartDate(d, today)
  \/ ~isValidEndDate(d, e)
  \/ ~isValidPriceAndAmount(p, d, salesPrice, offer)
=============================================================================
