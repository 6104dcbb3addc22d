---------------------------- MODULE CheckoutProofs ----------------------------
(***************************************************************************)
(* What a visit to the payment page guarantees for every catalog, calendar *)
(* and site, whatever happens to the site between two checks of the        *)
(* server: what is charged is what was shown, and the page and the server  *)
(* compute the same price and offer but for the rounding.                  *)
(***************************************************************************)
EXTENDS Checkout, TLAPS

-----------------------------------------------------------------------------
(* Division. *)

\* The quotient is the number whose multiple is the last one up to x.
LEMMA Quotient ==
  ASSUME NEW x \in Nat, NEW y \in Nat \ {0}, NEW q \in Nat,
         q * y <= x, x < (q + 1) * y
  PROVE  x \div y = q
BY SMT

\* ... and every quotient is one.
LEMMA QuotientBounds ==
  ASSUME NEW x \in Nat, NEW y \in Nat \ {0}
  PROVE  /\ x \div y \in Nat
         /\ (x \div y) * y <= x
         /\ x < (x \div y + 1) * y
BY SMT

\* What a division leaves.
LEMMA Remainder ==
  ASSUME NEW x \in Nat, NEW y \in Nat \ {0}
  PROVE  x = (x \div y) * y + (x % y) /\ x % y \in Nat /\ x % y < y
BY SMT

\* What a double is rounded down to is the exact quotient or the number below it.
LEMMA FloorsBounds ==
  ASSUME NEW x \in Nat, NEW y \in Nat \ {0}, NEW f \in Floors(x, y)
  PROVE  f \in Nat /\ f <= x \div y /\ x \div y <= f + 1
<1>1. x \div y \in Nat /\ x = (x \div y) * y + (x % y)
  BY QuotientBounds, Remainder
<1>2. x > 0 /\ x % y = 0 => x \div y # 0
  BY <1>1, SMT
<1>3. f = x \div y \/ (x > 0 /\ x % y = 0 /\ f = x \div y - 1)
  BY DEF Floors
<1> DEFINE q == x \div y
<1> HIDE DEF q
<1>4. q \in Nat /\ (f = q \/ (q # 0 /\ f = q - 1))
  BY <1>1, <1>2, <1>3 DEF q
<1>5. f \in Nat /\ f <= q /\ q <= f + 1
  BY <1>4
<1> QED BY <1>5 DEF q

\* Two quotients of which the first has a share w more, given in tenths of the
\* divisor: they are at most that share and the rounding apart.
LEMMA Apart ==
  ASSUME NEW x \in Nat, NEW y \in Nat \ {0}, NEW k \in Nat \ {0}, NEW w \in Nat,
         NEW e \in Nat, 10 * w <= e * (k * y)
  PROVE  /\ x \div y <= (k * x + w) \div (k * y)
         /\ 10 * ((k * x + w) \div (k * y)) < 10 * (x \div y + 1) + e
<1> DEFINE X == k * x + w
           Y == k * y
           s == x \div y
           q == X \div Y
<1>1. X \in Nat /\ Y \in Nat \ {0}
  BY SMT
<1>2. s \in Nat /\ s * y <= x /\ x + 1 <= (s + 1) * y
  BY QuotientBounds
<1> HIDE DEF s
<1>3. k * (s * y) <= k * x /\ k * (x + 1) <= k * ((s + 1) * y)
  BY <1>2, SMT
<1>4. s * Y <= X /\ k * x < (s + 1) * Y
  BY <1>2, <1>3, SMT
<1>5. 10 * X < (10 * (s + 1) + e) * Y
  <2>1. 10 * X = 10 * (k * x) + 10 * w
    OBVIOUS
  <2>2. (10 * (s + 1) + e) * Y = 10 * ((s + 1) * Y) + e * Y
    BY <1>1, <1>2, SMT
  <2> QED BY <1>1, <1>2, <1>4, <2>1, <2>2, SMT
<1> HIDE DEF X, Y
<1>6. q \in Nat /\ q * Y <= X /\ X < (q + 1) * Y
  BY <1>1, QuotientBounds
<1> HIDE DEF q
<1>7. s < q + 1
  <2>1. s * Y < (q + 1) * Y
    BY <1>1, <1>2, <1>4, <1>6, SMT
  <2> QED BY <1>1, <1>2, <1>6, <2>1, SMT
<1>8. 10 * q < 10 * (s + 1) + e
  <2>1. (10 * q) * Y < (10 * (s + 1) + e) * Y
    <3>1. (10 * q) * Y = 10 * (q * Y)
      BY <1>1, <1>6, SMT
    <3> QED BY <1>1, <1>2, <1>5, <1>6, <3>1, SMT
  <2> QED BY <1>1, <1>2, <1>6, <2>1, SMT
<1>9. s <= q /\ 10 * q < 10 * (s + 1) + e
  BY <1>2, <1>6, <1>7, <1>8
<1> QED BY <1>9 DEF s, q, X, Y

\* Whole months may be charged before or after rounding down.
LEMMA WholeMonths ==
  ASSUME NEW a \in Nat, NEW b \in Nat \ {0}, NEW k \in Nat
  PROVE  (k * b + a) \div b = k + a \div b
<1> DEFINE q == a \div b
<1>1. q \in Nat /\ q * b <= a /\ a < (q + 1) * b
  BY QuotientBounds
<1> HIDE DEF q
<1>2. k * b + a \in Nat /\ k + q \in Nat
  BY <1>1, SMT
<1>3. (k + q) * b <= k * b + a /\ k * b + a < (k + q + 1) * b
  BY <1>1, SMT
<1> QED BY <1>1, <1>2, <1>3, Quotient DEF q

-----------------------------------------------------------------------------
(* Dates and amounts. *)

\* The months have 28 to 31 days, and a day of one has 1 to 31 days left.
LEMMA DateBounds ==
  ASSUME NEW d \in Dates
  PROVE  /\ d.month \in 1..LastMonth /\ d.day \in 1..31
         /\ MonthDays[d.month] \in 28..31 /\ d.day <= MonthDays[d.month]
         /\ DaysLeft(d) \in 1..31
<1>1. d.month \in 1..LastMonth /\ d.day \in 1..31 /\ d.day <= MonthDays[d.month]
  BY DEF Dates
<1>2. MonthDays[d.month] \in 28..31
  BY <1>1, BillingAssumption
<1>3. DaysLeft(d) \in 1..31
  BY <1>1, <1>2 DEF DaysLeft
<1> QED BY <1>1, <1>2, <1>3

\* What a product is made of.
LEMMA ProductBounds ==
  ASSUME NEW p \in Products
  PROVE  /\ Catalog[p].price \in Nat /\ Catalog[p].offer \in Nat
         /\ Catalog[p].months \in Nat \ {0} /\ Catalog[p].autopay \in BOOLEAN
BY BillingAssumption

\* The last day of a month is a date.
LEMMA EndOfMonthIsDate ==
  ASSUME NEW m \in 1..LastMonth
  PROVE  EndOfMonth(m) \in Dates
BY BillingAssumption DEF EndOfMonth, Dates

\* The days the page charges for.
LEMMA DaysCharged ==
  ASSUME NEW p \in Products, NEW d \in Dates
  PROVE  selectDays(p, d) \in Nat
<1>1. DaysLeft(d) \in Nat /\ MonthDays[d.month] \in Nat
  BY DateBounds
<1>2. Catalog[p].months - 1 \in Nat
  BY ProductBounds
<1>3. (Catalog[p].months - 1) * MonthDays[d.month] \in Nat
  BY <1>1, <1>2
<1> QED BY <1>1, <1>3 DEF selectDays

\* A date the page may work with.
Reachable(d) == d \in Dates /\ d.month <= Today.month + 1

\* For those dates the page computes amounts: the end is in the calendar.
LEMMA AmountsComputed ==
  ASSUME NEW p \in Products, NEW d, Reachable(d)
  PROVE  selects(p, d) \subseteq Amounts
<1>1. d \in Dates /\ d.month <= Today.month + 1
  BY DEF Reachable
<1>2. d.month \in Nat \ {0} /\ MonthDays[d.month] \in Nat \ {0} /\ LastMonth \in Nat
  <2>1. LastMonth \in Nat
    BY BillingAssumption
  <2>2. d.month \in 1..LastMonth /\ MonthDays[d.month] \in 28..31
    BY <1>1, DateBounds
  <2> QED BY <2>1, <2>2
<1>3. Catalog[p].months \in Nat \ {0} /\ Catalog[p].price \in Nat /\ Catalog[p].offer \in Nat
  BY ProductBounds
<1>4. Today.month \in Nat
  BY DateBounds, CheckoutAssumption
<1>5. d.month + 2 <= LastMonth /\ d.month + Catalog[p].months <= LastMonth
  <2>1. Today.month + 3 <= LastMonth /\ Today.month + 1 + Catalog[p].months <= LastMonth
    BY CheckoutAssumption
  <2> QED BY <1>1, <1>2, <1>3, <1>4, <2>1
<1>6. selectEndDate(p, d) \in Dates
  <2> DEFINE k == IF Catalog[p].months = 1 /\ DaysLeft(d) <= 14
                    THEN 2 ELSE Catalog[p].months
  <2>1. k \in Nat \ {0} /\ d.month + k <= LastMonth
    BY <1>3, <1>5
  <2> HIDE DEF k
  <2>2. d.month + k - 1 \in 1..LastMonth /\ d.month + k \in 1..LastMonth
    BY <1>2, <2>1
  <2>3. EndOfMonth(d.month + k - 1) \in Dates /\ EndOfMonth(d.month + k) \in Dates
    BY <2>2, EndOfMonthIsDate
  <2>4. setMonthThenLastDay(d, k) \in Dates
    BY <2>3 DEF setMonthThenLastDay
  <2> QED BY <2>4 DEF selectEndDate, k
<1>7. selectDays(p, d) \in Nat
  BY <1>1, DaysCharged
<1>8. selectPrices(p, d) \subseteq Nat
  <2> DEFINE x == Catalog[p].price * selectDays(p, d) * 11
             y == Catalog[p].months * MonthDays[d.month] * 10
  <2>1. x \in Nat
    BY <1>3, <1>7
  <2>2. y \in Nat \ {0}
    BY <1>2, <1>3
  <2> HIDE DEF x, y
  <2>3. Floors(x, y) \subseteq Nat
    BY <2>1, <2>2, FloorsBounds
  <2> QED BY <2>3 DEF selectPrices, x, y
<1>9. selectOffers(p, d) \subseteq Nat
  <2> DEFINE x == Catalog[p].offer * selectDays(p, d)
             y == Catalog[p].months * MonthDays[d.month]
  <2>1. x \in Nat
    BY <1>3, <1>7
  <2>2. y \in Nat \ {0}
    BY <1>2, <1>3
  <2> HIDE DEF x, y
  <2>3. Floors(x, y) \subseteq Nat
    BY <2>1, <2>2, FloorsBounds
  <2> QED BY <2>3 DEF selectOffers, x, y
<1> QED BY <1>6, <1>8, <1>9 DEF selects, Amounts

-----------------------------------------------------------------------------
(* The page and the server agree. *)

\* No month of an order is charged with more than its days, and the only month of
\* a one-month order leaves no remainder.
LEMMA DaysBounded ==
  ASSUME NEW p \in Products, NEW d \in Dates, Catalog[p].months # 1
  PROVE  selectDays(p, d) <= Catalog[p].months * MonthDays[d.month]
<1> DEFINE m == Catalog[p].months
           D == MonthDays[d.month]
           l == DaysLeft(d)
<1>1. m \in Nat \ {0} /\ D \in Nat /\ l \in Nat /\ l <= D
  <2>1. m \in Nat \ {0} /\ d.day \in 1..31 /\ D \in 28..31 /\ l \in 1..31
    BY DateBounds, ProductBounds
  <2>2. l = D - d.day + 1
    BY DEF DaysLeft
  <2> HIDE DEF m, D, l
  <2> QED BY <2>1, <2>2
<1>2. selectDays(p, d) = l + (m - 1) * D
  BY DEF selectDays
<1> HIDE DEF m, D, l
<1>3. l + (m - 1) * D <= m * D
  <2>1. m * D = (m - 1) * D + D
    BY <1>1, SMT
  <2>2. (m - 1) * D \in Nat
    BY <1>1, SMT
  <2> QED BY <1>1, <2>1, <2>2
<1> QED BY <1>2, <1>3 DEF m, D

\* What remains of an amount weighs at most as much as if it were charged for every
\* day of the order.
LEMMA RemainderCharged ==
  ASSUME NEW p \in Products, NEW d \in Dates, NEW a \in Nat
  PROVE  (a % Catalog[p].months) * selectDays(p, d)
           <= (a % Catalog[p].months) * (Catalog[p].months * MonthDays[d.month])
<1> DEFINE m == Catalog[p].months
           D == MonthDays[d.month]
           n == selectDays(p, d)
           r == a % m
<1>1. m \in Nat \ {0} /\ D \in Nat /\ n \in Nat
  BY DateBounds, ProductBounds, DaysCharged
<1>2. r \in Nat /\ r < m
  BY <1>1, Remainder
<1>3. m # 1 => n <= m * D
  BY DaysBounded
<1> HIDE DEF m, D, n, r
<1>4. CASE m = 1
  <2>1. r = 0
    BY <1>2, <1>4
  <2> QED BY <1>1, <2>1, SMT DEF m, D, n, r
<1>5. CASE m # 1
  <2>1. m * D \in Nat /\ n <= m * D
    BY <1>1, <1>3, <1>5, SMT
  <2>2. r * n <= r * (m * D)
    BY <1>1, <1>2, <2>1, SMT
  <2> QED BY <2>2 DEF m, D, n, r
<1> QED BY <1>4, <1>5

\* The exact prices differ by what the months leave of the product's price.
LEMMA PriceAgrees ==
  ASSUME NEW p \in Products, NEW d \in Dates,
         NEW a \in selectPrices(p, d), NEW s \in calcPrices(p, d)
  PROVE  /\ a \in Nat /\ s \in Nat
         /\ s <= a + 1
         /\ 10 * a < 10 * (s + 2) + 11 * (Catalog[p].price % Catalog[p].months)
<1> DEFINE m == Catalog[p].months
           b == basePrice(p)
           r == Catalog[p].price % m
           D == MonthDays[d.month]
           n == selectDays(p, d)
           x == b * n * 11
           y == D * 10
           w == 11 * (r * n)
           e == 11 * r
<1>1. m \in Nat \ {0} /\ D \in Nat \ {0} /\ n \in Nat /\ DaysLeft(d) \in Nat
  BY DateBounds, ProductBounds, DaysCharged
<1>2. b \in Nat /\ r \in Nat /\ Catalog[p].price = b * m + r
  BY ProductBounds, QuotientBounds, Remainder DEF basePrice
<1>3. n = DaysLeft(d) + (IF m > 1 THEN m - 1 ELSE IF DaysLeft(d) <= 14 THEN 1 ELSE 0) * D
  BY <1>1 DEF selectDays
<1>4. calcPrices(p, d) = Floors(x, y)
  BY <1>3 DEF calcPrices
<1>5. selectPrices(p, d) = Floors((b * m + r) * n * 11, m * D * 10)
  BY <1>2 DEF selectPrices
<1>6. r * n <= r * (m * D)
  BY ProductBounds, RemainderCharged
<1> HIDE DEF m, b, r, D, n
<1>7. (b * m + r) * n * 11 = m * x + w /\ m * D * 10 = m * y
  BY <1>1, <1>2, SMT
<1>8. x \in Nat /\ y \in Nat \ {0} /\ w \in Nat /\ e \in Nat
  BY <1>1, <1>2, SMT
<1>9. 10 * w <= e * (m * y)
  <2>1. e * (m * y) = 110 * (r * (m * D)) /\ 10 * w = 110 * (r * n)
    BY <1>1, <1>2, SMT
  <2>2. r * (m * D) \in Nat /\ r * n \in Nat
    BY <1>1, <1>2, SMT
  <2> QED BY <1>6, <2>1, <2>2
<1> HIDE DEF x, y, w
<1>10. /\ x \div y <= (m * x + w) \div (m * y)
       /\ 10 * ((m * x + w) \div (m * y)) < 10 * (x \div y + 1) + e
  BY <1>1, <1>8, <1>9, Apart
<1>11. m * x + w \in Nat /\ m * y \in Nat \ {0}
  BY <1>1, <1>8, SMT
<1> DEFINE q == (m * x + w) \div (m * y)
           c == x \div y
<1>12. a \in Nat /\ a <= q /\ q <= a + 1
  BY <1>5, <1>7, <1>11, FloorsBounds
<1>13. s \in Nat /\ s <= c /\ c <= s + 1
  BY <1>4, <1>8, FloorsBounds
<1>14. q \in Nat /\ c \in Nat
  BY <1>8, <1>11, QuotientBounds
<1> HIDE DEF q, c
<1>15. c <= q /\ 10 * q < 10 * (c + 1) + e
  BY <1>10 DEF q, c
<1>16. s <= a + 1 /\ 10 * a < 10 * (s + 2) + e
  BY <1>8, <1>12, <1>13, <1>14, <1>15
<1> QED BY <1>12, <1>13, <1>16 DEF m, r

\* The same for the number of cases offered; the server rounds the first month down
\* and adds the others, the page rounds all.
LEMMA OfferAgrees ==
  ASSUME NEW p \in Products, NEW d \in Dates, NEW a \in selectOffers(p, d)
  PROVE  /\ calcOffer(p, d) <= a + 1
         /\ a <= calcOffer(p, d) + (Catalog[p].offer % Catalog[p].months)
<1> DEFINE m == Catalog[p].months
           o == baseOffer(p)
           r == Catalog[p].offer % m
           D == MonthDays[d.month]
           n == selectDays(p, d)
           l == DaysLeft(d)
           k == IF m > 1 THEN m - 1 ELSE IF l <= 14 THEN 1 ELSE 0
           x == o * n
           w == r * n
           e == 10 * r
<1>1. m \in Nat \ {0} /\ D \in Nat \ {0} /\ n \in Nat /\ l \in Nat
  BY DateBounds, ProductBounds, DaysCharged
<1>2. o \in Nat /\ r \in Nat /\ Catalog[p].offer = o * m + r
  BY ProductBounds, QuotientBounds, Remainder DEF baseOffer
<1>3. n = l + k * D /\ k \in Nat
  BY <1>1 DEF selectDays
<1>4. (o * l) \div D \in Nat
  <2>1. o * l \in Nat
    BY <1>1, <1>2
  <2> HIDE DEF o, l, D
  <2> QED BY <1>1, <2>1, QuotientBounds
<1>5. calcOffer(p, d) = o * k + (o * l) \div D
  <2>1. calcOffer(p, d) = IF m > 1 THEN o * (m - 1) + (o * l) \div D
                          ELSE IF l <= 14 THEN o + (o * l) \div D
                          ELSE (o * l) \div D
    BY DEF calcOffer
  <2> HIDE DEF o, l, D, m
  <2> QED BY <1>1, <1>2, <1>4, <2>1
<1>6. selectOffers(p, d) = Floors((o * m + r) * n, m * D)
  BY <1>2 DEF selectOffers
<1>7. r * n <= r * (m * D)
  BY ProductBounds, RemainderCharged
<1> HIDE DEF m, o, r, D, n, l, k
<1>8. (o * m + r) * n = m * x + w
  BY <1>1, <1>2, SMT
<1>9. x \in Nat /\ w \in Nat /\ e \in Nat /\ o * l \in Nat /\ o * k \in Nat
  BY <1>1, <1>2, <1>3, SMT
<1>10. x = (o * k) * D + o * l
  BY <1>1, <1>2, <1>3, SMT
<1>11. x \div D = calcOffer(p, d)
  <2>1. ((o * k) * D + o * l) \div D = o * k + (o * l) \div D
    BY <1>1, <1>9, WholeMonths
  <2> HIDE DEF x
  <2> QED BY <1>5, <1>10, <2>1
<1>12. 10 * w <= e * (m * D)
  <2>1. e * (m * D) = 10 * (r * (m * D)) /\ r * (m * D) \in Nat /\ r * n \in Nat
    BY <1>1, <1>2, SMT
  <2> QED BY <1>7, <2>1
<1> HIDE DEF x, w
<1>13. /\ x \div D <= (m * x + w) \div (m * D)
       /\ 10 * ((m * x + w) \div (m * D)) < 10 * (x \div D + 1) + e
  BY <1>1, <1>9, <1>12, Apart
<1>14. m * x + w \in Nat /\ m * D \in Nat \ {0}
  BY <1>1, <1>9, SMT
<1> DEFINE q == (m * x + w) \div (m * D)
           c == x \div D
<1>15. a \in Nat /\ a <= q /\ q <= a + 1
  BY <1>6, <1>8, <1>14, FloorsBounds
<1>16. q \in Nat /\ c \in Nat
  BY <1>1, <1>9, <1>14, QuotientBounds
<1> HIDE DEF q, c
<1>17. c <= q /\ 10 * q < 10 * (c + 1) + e
  BY <1>13 DEF q, c
<1>18. c <= a + 1 /\ a <= c + r
  BY <1>2, <1>15, <1>16, <1>17
<1> QED BY <1>11, <1>18 DEF c, m, r

-----------------------------------------------------------------------------
(* The first day the server decides on. *)

\* The day after one of the months up to Today's.
LEMMA NextDayReachable ==
  ASSUME NEW d \in Dates, d.month <= Today.month
  PROVE  Reachable(nextDay(d))
<1>1. /\ d.month \in 1..LastMonth /\ d.day \in 1..31
      /\ MonthDays[d.month] \in 28..31 /\ d.day <= MonthDays[d.month]
  BY DateBounds
<1>2. Today.month \in Nat /\ LastMonth \in Nat /\ Today.month + 3 <= LastMonth
  BY DateBounds, BillingAssumption, CheckoutAssumption
<1>3. CASE d.day < MonthDays[d.month]
  <2>1. nextDay(d) = [month |-> d.month, day |-> d.day + 1]
    BY <1>3 DEF nextDay, Dates
  <2> QED BY <1>1, <1>2, <1>3, <2>1 DEF Dates, Reachable
<1>4. CASE ~(d.day < MonthDays[d.month])
  <2>1. nextDay(d) = [month |-> d.month + 1, day |-> 1]
    BY <1>4 DEF nextDay
  <2>2. d.month + 1 \in 1..LastMonth
    BY <1>1, <1>2
  <2>3. MonthDays[d.month + 1] \in 28..31
    BY <2>2, BillingAssumption
  <2> QED BY <1>1, <1>2, <2>1, <2>2, <2>3 DEF Dates, Reachable
<1> QED BY <1>3, <1>4

\* The first day getPayment answers with.
LEMMA FirstDayReachable ==
  ASSUME NEW a \in SiteStates, NEW d \in Days \union {NoDate}
  PROVE  Reachable(FirstDay(a, d))
<1>1. Today.month \in Nat
  BY DateBounds, CheckoutAssumption
<1>2. CASE d # NoDate /\ a.extension = "Y"
  BY <1>2, CheckoutAssumption DEF Reachable, FirstDay
<1>3. CASE d = NoDate /\ a.extension = "Y"
  <2>1. a.endDate \in Dates /\ a.endDate.month <= Today.month
    <3>1. a \in SiteState /\ a.endDate # NoDate
      BY <1>3, CheckoutAssumption
    <3>2. a.endDate \in Dates
      BY <3>1 DEF SiteState
    <3>3. a.endDate.month \in 2..Today.month
      BY <3>1, CheckoutAssumption
    <3> QED BY <1>1, <3>2, <3>3
  <2> QED BY <1>3, <2>1, NextDayReachable DEF FirstDay
<1>4. CASE a.extension # "Y" /\ a.startDate # NoDate
  <2>1. a.startDate \in Dates
    BY <1>4, CheckoutAssumption DEF SiteState
  <2> QED BY <1>4, <2>1, CheckoutAssumption DEF FirstDay, Reachable
<1>5. CASE a.extension # "Y" /\ a.startDate = NoDate
  <2>1. FirstDay(a, d) = Today
    BY <1>5 DEF FirstDay
  <2> QED BY <1>1, <1>5, <2>1, CheckoutAssumption DEF Reachable
<1> QED BY <1>2, <1>3, <1>4, <1>5

-----------------------------------------------------------------------------
(* The inductive invariant. *)

\* The date field holds a date the page may work with, or none.
FieldReachable == field # NoDate => Reachable(field)

\* The page shows the amounts it will send, and they are those of some product
\* from the first day it shows.
AmountsShown ==
  /\ amounts = shown.amounts
  /\ shown.from # NoDate => \E p \in Products : shown.amounts \in selects(p, shown.from)

\* What getPayment answers with is a date the page may work with.
FirstFits ==
  request \in OpeningCall
    /\ request.next \in {"isScheduled", "isExtendable", "excessCount", "excessAmount", "answer"}
      => Reachable(request.first)

\* While the page waits for setPayment it keeps the product and the amounts it has
\* sent; once they are verified, they are an order's.
PaymentFits ==
  request \in PaymentCall =>
    /\ request.rateSel = selected /\ request.amounts = amounts
    /\ request.next = "answer" => request.startDate # NoDate /\ request.amounts # NoAmounts

\* From its first check on, the session of a call keeps an agency of the site.
SessionFits ==
  request # NoCall /\ request.next # "isValidSite" => request.agency \in SiteStates

IInv ==
  /\ TypeOK /\ FieldReachable /\ AmountsShown /\ ShownIsCharged
  /\ FirstFits /\ PaymentFits /\ SessionFits

\* The two kinds of calls are told apart by their endpoint, and "none" is no step.
LEMMA Calls ==
  ASSUME TypeOK
  PROVE  /\ request \in OpeningCall => request.endpoint = "getPayment" /\ request.next # "none"
         /\ request \in PaymentCall => request.endpoint = "setPayment" /\ request.next # "none"
         /\ request = NoCall => request.next = "none"
         /\ request.next # "none" =>
              \/ request \in OpeningCall /\ request \notin PaymentCall
              \/ request \in PaymentCall /\ request \notin OpeningCall
<1>1. request \in OpeningCall => request.endpoint = "getPayment" /\ request.next # "none"
  BY DEF OpeningCall
<1>2. request \in PaymentCall => request.endpoint = "setPayment" /\ request.next # "none"
  BY DEF PaymentCall
<1>3. request = NoCall => request.next = "none"
  BY DEF NoCall
<1> QED BY <1>1, <1>2, <1>3 DEF TypeOK

\* No call is of either kind when the page waits for nothing.
LEMMA NoCallFits == NoCall \notin OpeningCall /\ NoCall \notin PaymentCall
<1>1. \A r \in OpeningCall : r.next # "none"
  BY DEF OpeningCall
<1>2. \A r \in PaymentCall : r.next # "none"
  BY DEF PaymentCall
<1> QED BY <1>1, <1>2 DEF NoCall

\* The end of a call: nothing is left to be said of it.
LEMMA CallEnds ==
  ASSUME request' = NoCall PROVE FirstFits' /\ PaymentFits' /\ SessionFits'
BY NoCallFits DEF FirstFits, PaymentFits, SessionFits

\* ... and what the session keeps, it keeps until the end of the call.
LEMMA SessionKept ==
  ASSUME IInv, request.next \notin {"isValidSite", "none"}, request'.agency = request.agency
  PROVE  SessionFits'
<1>1. request # NoCall
  BY DEF NoCall
<1> QED BY <1>1 DEF IInv, SessionFits

\* A step that leaves the page and the site alone and hands nothing over keeps
\* what is said of them.
LEMMA PageKept ==
  ASSUME IInv, UNCHANGED page, site' \in SiteStates, order' = NoOrder,
         request' \in OpeningCall \union PaymentCall \union {NoCall}
  PROVE  TypeOK' /\ FieldReachable' /\ AmountsShown' /\ ShownIsCharged'
<1>1. UNCHANGED <<open, dateShown, field, checked, selected, method, deposit, amounts, shown>>
  BY DEF page
<1>2. TypeOK'
  BY <1>1 DEF IInv, TypeOK
<1>3. FieldReachable' /\ AmountsShown' /\ ShownIsCharged'
  BY <1>1 DEF IInv, FieldReachable, AmountsShown, ShownIsCharged, Reachable
<1> QED BY <1>2, <1>3

\* The next check of getPayment, whatever it reads.
LEMMA GoesOn ==
  ASSUME IInv, NEW from, NEW to, request.next = from, from # "none", goesOn(to),
         \/ from = "isScheduled" /\ to = "isExtendable"
         \/ from = "excessCount" /\ to = "excessAmount"
         \/ from = "excessAmount" /\ to = "answer"
  PROVE  IInv'
<1>1. /\ request' = [request EXCEPT !.next = to] /\ order' = NoOrder
      /\ site' = site /\ UNCHANGED page /\ selected' = selected /\ amounts' = amounts
  BY DEF goesOn, page
<1>2. request \in OpeningCall
  <2>1. request \notin PaymentCall
    BY DEF PaymentCall
  <2> QED BY <2>1, Calls DEF IInv
<1>3. to \in {"isExtendable", "excessAmount", "answer"}
  OBVIOUS
<1>4. request' \in OpeningCall
  BY <1>1, <1>2, <1>3 DEF OpeningCall
<1>5. /\ request'.first = request.first /\ request'.next = to
      /\ request'.agency = request.agency /\ request'.endpoint = "getPayment"
  BY <1>1, <1>2 DEF OpeningCall
<1>6. request' \notin PaymentCall
  BY <1>5 DEF PaymentCall
<1>7. FirstFits'
  BY <1>2, <1>5 DEF IInv, FirstFits, Reachable
<1>8. PaymentFits'
  BY <1>6 DEF PaymentFits
<1>9. SessionFits'
  BY <1>5, SessionKept
<1>10. site' \in SiteStates
  BY <1>1 DEF IInv, TypeOK
<1> QED BY <1>1, <1>4, <1>7, <1>8, <1>9, <1>10, PageKept DEF IInv

\* The first check has read the site.
LEMMA ValidSiteIInv == ASSUME IInv, isValidSite PROVE IInv'
<1>1. /\ request.next = "isValidSite" /\ order' = NoOrder /\ site' = site
      /\ request' = [request EXCEPT !.next = "decideRateSel", !.agency = site]
      /\ UNCHANGED page /\ selected' = selected /\ amounts' = amounts
  BY DEF isValidSite, page
<1>2. site \in SiteStates /\ site' \in SiteStates
  BY <1>1 DEF IInv, TypeOK
<1>3. CASE request \in OpeningCall
  <2>1. /\ request' \in OpeningCall /\ request'.endpoint = "getPayment"
        /\ request'.next = "decideRateSel" /\ request'.agency = site
    BY <1>1, <1>2, <1>3 DEF OpeningCall
  <2>2. request' \notin PaymentCall
    BY <2>1 DEF PaymentCall
  <2>3. FirstFits' /\ PaymentFits' /\ SessionFits'
    BY <1>2, <2>1, <2>2 DEF FirstFits, PaymentFits, SessionFits
  <2> QED BY <1>1, <1>2, <2>1, <2>3, PageKept DEF IInv
<1>4. CASE request \in PaymentCall
  <2>1. /\ request' \in PaymentCall /\ request'.endpoint = "setPayment"
        /\ request'.next = "decideRateSel" /\ request'.agency = site
        /\ request'.rateSel = request.rateSel /\ request'.amounts = request.amounts
    BY <1>1, <1>2, <1>4 DEF PaymentCall
  <2>2. request' \notin OpeningCall
    BY <2>1 DEF OpeningCall
  <2>3. FirstFits' /\ SessionFits'
    BY <1>2, <2>1, <2>2 DEF FirstFits, SessionFits
  <2>4. PaymentFits'
    BY <1>1, <1>4, <2>1 DEF IInv, PaymentFits
  <2> QED BY <1>1, <1>2, <2>1, <2>3, <2>4, PageKept DEF IInv
<1>5. request \in OpeningCall \/ request \in PaymentCall
  BY <1>1, Calls DEF IInv
<1> QED BY <1>3, <1>4, <1>5

\* The product is decided.
LEMMA RateSelIInv == ASSUME IInv, decideRateSel PROVE IInv'
<1>1. /\ request.next = "decideRateSel" /\ order' = NoOrder /\ site' = site
      /\ request' = [request EXCEPT !.next = "decideStartDate",
                                    !.rateSel = IF @ # NoProduct THEN @ ELSE request.agency.rateSel]
      /\ UNCHANGED page /\ selected' = selected /\ amounts' = amounts
  BY DEF decideRateSel, page
<1>2. site' \in SiteStates /\ request.agency.rateSel \in Products \union {NoProduct}
  <2>1. request # NoCall
    BY <1>1 DEF NoCall
  <2>2. request.agency \in SiteState
    BY <1>1, <2>1, CheckoutAssumption DEF IInv, SessionFits
  <2> QED BY <1>1, <2>2 DEF IInv, TypeOK, SiteState
<1>3. CASE request \in OpeningCall
  <2>1. request' \in OpeningCall
    BY <1>1, <1>2, <1>3 DEF OpeningCall
  <2>2. /\ request'.endpoint = "getPayment" /\ request'.next = "decideStartDate"
        /\ request'.agency = request.agency
    BY <1>1, <1>3 DEF OpeningCall
  <2>3. request' \notin PaymentCall
    BY <2>2 DEF PaymentCall
  <2>4. FirstFits' /\ SessionFits'
    BY <1>1, <2>2, SessionKept DEF FirstFits
  <2>5. PaymentFits'
    BY <2>3 DEF PaymentFits
  <2> QED BY <1>1, <1>2, <2>1, <2>4, <2>5, PageKept DEF IInv
<1>4. CASE request \in PaymentCall
  <2>1. request.rateSel \in Products
    BY <1>4 DEF PaymentCall
  <2>2. request.rateSel # NoProduct
    BY <2>1, CheckoutAssumption
  <2>3. request' = [request EXCEPT !.next = "decideStartDate"]
    BY <1>1, <1>4, <2>2 DEF PaymentCall
  <2>4. request' \in PaymentCall
    BY <1>4, <2>3 DEF PaymentCall
  <2>5. /\ request'.endpoint = "setPayment" /\ request'.next = "decideStartDate"
        /\ request'.rateSel = request.rateSel /\ request'.amounts = request.amounts
        /\ request'.agency = request.agency
    BY <1>4, <2>3 DEF PaymentCall
  <2>6. request' \notin OpeningCall
    BY <2>5 DEF OpeningCall
  <2>7. FirstFits' /\ SessionFits'
    BY <1>1, <2>5, <2>6, SessionKept DEF FirstFits
  <2>8. PaymentFits'
    BY <1>1, <1>4, <2>5 DEF IInv, PaymentFits
  <2> QED BY <1>1, <1>2, <2>4, <2>7, <2>8, PageKept DEF IInv
<1>5. request \in OpeningCall \/ request \in PaymentCall
  BY <1>1, Calls DEF IInv
<1> QED BY <1>3, <1>4, <1>5

\* The first day is decided, for an order only whether it may be.
LEMMA StartDateIInv == ASSUME IInv, decideStartDate PROVE IInv'
<1>1. /\ request.next = "decideStartDate" /\ order' = NoOrder /\ site' = site
      /\ request' = IF request.endpoint = "getPayment"
                      THEN [request EXCEPT !.next = "isScheduled",
                                           !.first = FirstDay(request.agency, request.startDate)]
                      ELSE [request EXCEPT !.next = "verifyValue"]
      /\ UNCHANGED page /\ selected' = selected /\ amounts' = amounts
  BY DEF decideStartDate, page
<1>2. site' \in SiteStates /\ request.agency \in SiteStates
  <2>1. request # NoCall
    BY <1>1 DEF NoCall
  <2> QED BY <1>1, <2>1 DEF IInv, TypeOK, SessionFits
<1>3. CASE request \in OpeningCall
  <2>1. request' = [request EXCEPT !.next = "isScheduled",
                                   !.first = FirstDay(request.agency, request.startDate)]
    BY <1>1, <1>3 DEF OpeningCall
  <2>2. request.startDate \in Days \union {NoDate}
    BY <1>3 DEF OpeningCall
  <2>3. Reachable(FirstDay(request.agency, request.startDate))
    BY <1>2, <2>2, FirstDayReachable
  <2>4. FirstDay(request.agency, request.startDate) \in Dates
    BY <2>3 DEF Reachable
  <2> DEFINE f == FirstDay(request.agency, request.startDate)
  <2> HIDE DEF f
  <2>5. request' = [request EXCEPT !.next = "isScheduled", !.first = f] /\ f \in Dates
    BY <2>1, <2>4 DEF f
  <2>6. /\ request' \in OpeningCall /\ request'.first = f
        /\ request'.endpoint = "getPayment" /\ request'.agency = request.agency
    BY <1>3, <2>5 DEF OpeningCall
  <2>7. request' \notin PaymentCall
    BY <2>6 DEF PaymentCall
  <2>8. f.month <= Today.month + 1
    BY <2>3 DEF f, Reachable
  <2>9. FirstFits' /\ SessionFits'
    <3>1. FirstFits'
      BY <2>5, <2>6, <2>8 DEF FirstFits, Reachable
    <3> QED BY <1>1, <2>6, <3>1, SessionKept
  <2>10. PaymentFits'
    BY <2>7 DEF PaymentFits
  <2> QED BY <1>1, <1>2, <2>6, <2>9, <2>10, PageKept DEF IInv
<1>4. CASE request \in PaymentCall
  <2>1. request' = [request EXCEPT !.next = "verifyValue"]
    BY <1>1, <1>4 DEF PaymentCall
  <2>2. /\ request' \in PaymentCall /\ request'.endpoint = "setPayment"
        /\ request'.next = "verifyValue"
        /\ request'.rateSel = request.rateSel /\ request'.amounts = request.amounts
        /\ request'.agency = request.agency
    BY <1>4, <2>1 DEF PaymentCall
  <2>3. request' \notin OpeningCall
    BY <2>2 DEF OpeningCall
  <2>4. FirstFits' /\ SessionFits'
    BY <1>1, <2>2, <2>3, SessionKept DEF FirstFits
  <2>5. PaymentFits'
    BY <1>1, <1>4, <2>2 DEF IInv, PaymentFits
  <2> QED BY <1>1, <1>2, <2>2, <2>4, <2>5, PageKept DEF IInv
<1>5. request \in OpeningCall \/ request \in PaymentCall
  BY <1>1, Calls DEF IInv
<1> QED BY <1>3, <1>4, <1>5

\* getPayment asks whether the site is open for its extension.
LEMMA ExtendableIInv == ASSUME IInv, isExtendable PROVE IInv'
<1>1. /\ request.next = "isExtendable" /\ order' = NoOrder /\ site' = site
      /\ UNCHANGED page
      /\ \/ request' = [request EXCEPT !.next = "excessCount", !.extendable = TRUE]
         \/ request' = [request EXCEPT !.next = "answer"]
  BY DEF isExtendable
<1>2. site' \in SiteStates
  BY <1>1 DEF IInv, TypeOK
<1>3. request \in OpeningCall
  <2>1. request \notin PaymentCall
    BY <1>1 DEF PaymentCall
  <2> QED BY <1>1, <2>1, Calls DEF IInv
<1>4. /\ request' \in OpeningCall /\ request'.first = request.first
      /\ request'.endpoint = "getPayment" /\ request'.agency = request.agency
  BY <1>1, <1>3 DEF OpeningCall
<1>5. request' \notin PaymentCall
  BY <1>4 DEF PaymentCall
<1>6. FirstFits' /\ SessionFits'
  <2>1. FirstFits'
    BY <1>1, <1>3, <1>4 DEF IInv, FirstFits, Reachable
  <2> QED BY <1>1, <1>4, <2>1, SessionKept
<1>7. PaymentFits'
  BY <1>5 DEF PaymentFits
<1> QED BY <1>1, <1>2, <1>4, <1>6, <1>7, PageKept DEF IInv

\* setPayment verifies the values.
LEMMA VerifiedIInv == ASSUME IInv, verifyOrder PROVE IInv'
<1>1. /\ request.next = "verifyValue" /\ order' = NoOrder /\ site' = site
      /\ request' = [request EXCEPT !.next = "answer"]
      /\ UNCHANGED page /\ selected' = selected /\ amounts' = amounts
  BY DEF verifyOrder, goesOn, page
<1>2. request.startDate # NoDate /\ request.amounts # NoAmounts
  BY DEF verifyOrder, Verified
<1>3. site' \in SiteStates
  BY <1>1 DEF IInv, TypeOK
<1>4. request \in PaymentCall
  <2>1. request \notin OpeningCall
    BY <1>1 DEF OpeningCall
  <2> QED BY <1>1, <2>1, Calls DEF IInv
<1>5. /\ request' \in PaymentCall /\ request'.endpoint = "setPayment"
      /\ request'.rateSel = request.rateSel /\ request'.amounts = request.amounts
      /\ request'.startDate = request.startDate /\ request'.agency = request.agency
  BY <1>1, <1>4 DEF PaymentCall
<1>6. request' \notin OpeningCall
  BY <1>5 DEF OpeningCall
<1>7. FirstFits' /\ SessionFits'
  BY <1>1, <1>5, <1>6, SessionKept DEF FirstFits
<1>8. PaymentFits'
  BY <1>1, <1>2, <1>4, <1>5 DEF IInv, PaymentFits
<1> QED BY <1>1, <1>3, <1>5, <1>7, <1>8, PageKept DEF IInv

\* What setSelectedValue assigns has its type, and amounts and page agree again.
LEMMA SetSelectedValue ==
  ASSUME TypeOK, AmountsShown,
         NEW c \in Products, NEW p \in Products \union {NoProduct},
         NEW d \in Dates \union {NoDate}, d # NoDate => Reachable(d),
         setSelectedValue(c, p, d)
  PROVE  /\ deposit' \in BOOLEAN /\ method' \in PayMethods
         /\ amounts' \in Amounts \union {NoAmounts}
         /\ shown' \in [name : Products \union {NoProduct}, from : Dates \union {NoDate},
                        amounts : Amounts \union {NoAmounts}]
         /\ AmountsShown'
<1>1. deposit' \in BOOLEAN /\ method' \in PayMethods
  BY ProductBounds DEF setSelectedValue, TypeOK, PayMethods
<1>2. CASE p = NoProduct \/ d = NoDate
  <2>1. amounts' = amounts /\ shown' = [shown EXCEPT !.name = c]
    BY <1>2 DEF setSelectedValue
  <2>2. shown'.from = shown.from /\ shown'.amounts = shown.amounts
    BY <2>1 DEF TypeOK
  <2>3. AmountsShown'
    BY <2>1, <2>2 DEF AmountsShown
  <2> QED BY <1>1, <2>1, <2>3 DEF TypeOK
<1>3. CASE ~(p = NoProduct \/ d = NoDate)
  <2>1. p \in Products /\ d \in Dates /\ selects(p, d) \subseteq Amounts
    BY <1>3, AmountsComputed
  <2>2. /\ amounts' \in selects(p, d)
        /\ shown' = [name |-> c, from |-> d, amounts |-> amounts']
    BY <1>3 DEF setSelectedValue
  <2>3. shown'.from = d /\ shown'.amounts = amounts'
    BY <2>2
  <2>4. AmountsShown'
    BY <2>1, <2>2, <2>3 DEF AmountsShown
  <2> QED BY <1>1, <2>1, <2>2, <2>4
<1> QED BY <1>2, <1>3

\* The empty form satisfies the invariant.
LEMMA InitIInv == Init => IInv
<1> SUFFICES ASSUME Init PROVE IInv
  OBVIOUS
<1>1. Today \in Dates /\ Reachable(Today)
  <2>1. Today \in Dates
    BY CheckoutAssumption
  <2> QED BY <2>1, DateBounds DEF Reachable
<1>2. shown.from = NoDate /\ shown.amounts = NoAmounts
  BY DEF Init, Blank
<1>3. Blank \in [name : Products \union {NoProduct}, from : Dates \union {NoDate},
                amounts : Amounts \union {NoAmounts}]
  BY DEF Blank
<1>4. TypeOK
  BY <1>1, <1>3 DEF Init, TypeOK, PayMethods
<1>5. AmountsShown
  BY <1>2 DEF Init, AmountsShown
<1>6. FirstFits /\ PaymentFits /\ SessionFits
  BY NoCallFits DEF Init, FirstFits, PaymentFits, SessionFits
<1> QED BY <1>1, <1>4, <1>5, <1>6 DEF Init, IInv, FieldReachable, ShownIsCharged

\* ... and so does the form that waits for getPayment.
LEMMA OpenIInv ==
  ASSUME IInv, NEW d \in Days \union {NoDate}, NEW c \in Products \union {NoProduct},
         getPayment(d, c)
  PROVE  IInv'
<1>1. Today \in Dates /\ Reachable(Today)
  <2>1. Today \in Dates
    BY CheckoutAssumption
  <2> QED BY <2>1, DateBounds DEF Reachable
<1>2. /\ open' = FALSE /\ dateShown' = TRUE /\ field' = Today
      /\ checked' = NoProduct /\ selected' = NoProduct
      /\ method' = "vbank" /\ deposit' = TRUE
      /\ amounts' = NoAmounts /\ shown' = Blank /\ order' = NoOrder /\ site' = site
  BY DEF getPayment
<1>3. shown'.from = NoDate /\ shown'.amounts = NoAmounts
  BY <1>2 DEF Blank
<1>4. shown' \in [name : Products \union {NoProduct}, from : Dates \union {NoDate},
                 amounts : Amounts \union {NoAmounts}]
  BY <1>2 DEF Blank
<1>5. /\ request' \in OpeningCall /\ request'.next = "isValidSite"
      /\ request'.endpoint = "getPayment"
  BY DEF getPayment, OpeningCall
<1>6. request' \notin PaymentCall
  BY <1>5 DEF PaymentCall
<1>7. FirstFits' /\ PaymentFits' /\ SessionFits'
  BY <1>5, <1>6 DEF FirstFits, PaymentFits, SessionFits
<1>8. TypeOK'
  BY <1>1, <1>2, <1>4, <1>5 DEF IInv, TypeOK, PayMethods
<1>9. AmountsShown'
  BY <1>2, <1>3 DEF AmountsShown
<1> QED BY <1>1, <1>2, <1>7, <1>8, <1>9 DEF IInv, FieldReachable, ShownIsCharged, Reachable

\* getPaymentInfo fills in a form whose amounts are those of its product and date.
LEMMA FilledIInv == ASSUME IInv, getPaymentInfo PROVE IInv'
<1>1. request.next = "answer" /\ request.endpoint = "getPayment"
  BY DEF getPaymentInfo
<1>2. request \in OpeningCall
  <2>1. request \notin PaymentCall
    BY <1>1 DEF PaymentCall
  <2> QED BY <1>1, <2>1, Calls DEF IInv
<1> DEFINE p == request.rateSel
           start == IF request.startDate # NoDate THEN request.startDate ELSE request.first
<1>3. p \in Products \union {NoProduct}
  BY <1>2 DEF OpeningCall
<1>4. start \in Dates /\ Reachable(start)
  <2>1. request.startDate \in Days \union {NoDate}
    BY <1>2 DEF OpeningCall
  <2>2. Reachable(request.first)
    BY <1>1, <1>2 DEF IInv, FirstFits
  <2>3. CASE request.startDate # NoDate
    <3>1. request.startDate \in Days
      BY <2>1, <2>3
    <3> QED BY <2>3, <3>1, CheckoutAssumption DEF Reachable
  <2>4. CASE request.startDate = NoDate
    BY <2>2, <2>4 DEF Reachable
  <2> QED BY <2>3, <2>4
<1>5. /\ open' = TRUE /\ dateShown' = ~request.extendable /\ field' = start
      /\ checked' = p /\ selected' = p
      /\ IF p = NoProduct THEN UNCHANGED <<method, deposit, amounts, shown>>
                          ELSE setSelectedValue(p, p, start)
      /\ request' = NoCall /\ order' = NoOrder /\ site' = site
  BY DEF getPaymentInfo
<1>6. dateShown' \in BOOLEAN
  BY <1>2, <1>5 DEF OpeningCall
<1> HIDE DEF p, start
<1>7. /\ deposit' \in BOOLEAN /\ method' \in PayMethods
      /\ amounts' \in Amounts \union {NoAmounts}
      /\ shown' \in [name : Products \union {NoProduct}, from : Dates \union {NoDate},
                     amounts : Amounts \union {NoAmounts}]
      /\ AmountsShown'
  <2>1. CASE p = NoProduct
    <3>1. UNCHANGED <<method, deposit, amounts, shown>>
      BY <1>5, <2>1
    <3> QED BY <3>1 DEF IInv, TypeOK, AmountsShown
  <2>2. CASE p # NoProduct
    <3>1. setSelectedValue(p, p, start) /\ p \in Products
      BY <1>3, <1>5, <2>2
    <3> QED BY <1>4, <3>1, SetSelectedValue DEF IInv
  <2> QED BY <2>1, <2>2
<1>8. TypeOK'
  BY <1>3, <1>4, <1>5, <1>6, <1>7 DEF IInv, TypeOK
<1>9. FieldReachable' /\ ShownIsCharged'
  BY <1>4, <1>5 DEF FieldReachable, ShownIsCharged, Reachable
<1>10. FirstFits' /\ PaymentFits' /\ SessionFits'
  BY <1>5, CallEnds
<1> QED BY <1>7, <1>8, <1>9, <1>10 DEF IInv

\* A handler of the page that starts no call.
LEMMA HandlerIInv ==
  ASSUME IInv, request = NoCall, request' = NoCall, order' = NoOrder, site' = site,
         open' \in BOOLEAN, dateShown' \in BOOLEAN, deposit' \in BOOLEAN,
         method' \in PayMethods,
         field' \in Dates \union {NoDate}, field' # NoDate => Reachable(field'),
         checked' \in Products \union {NoProduct},
         selected' \in Products \union {NoProduct},
         amounts' \in Amounts \union {NoAmounts},
         shown' \in [name : Products \union {NoProduct}, from : Dates \union {NoDate},
                     amounts : Amounts \union {NoAmounts}],
         AmountsShown'
  PROVE  IInv'
<1>1. TypeOK'
  BY DEF IInv, TypeOK
<1>2. FieldReachable' /\ ShownIsCharged'
  BY DEF FieldReachable, ShownIsCharged, Reachable
<1> QED BY <1>1, <1>2, CallEnds DEF IInv

\* Every step keeps the invariant.
LEMMA NextIInv == IInv /\ [Next]_vars => IInv'
<1> SUFFICES ASSUME IInv, [Next]_vars PROVE IInv'
  OBVIOUS
<1>1. ASSUME NEW d \in Days \union {NoDate}, NEW c \in Products \union {NoProduct},
             getPayment(d, c)
      PROVE IInv'
  BY <1>1, OpenIInv
<1>2. CASE getPaymentInfo
  BY <1>2, FilledIInv
<1>3. ASSUME NEW d \in Days, onSelect(d) PROVE IInv'
  <2>1. d \in Dates /\ Reachable(d)
    BY CheckoutAssumption DEF Reachable
  <2>2. /\ field' = d /\ order' = NoOrder /\ request = NoCall
        /\ UNCHANGED <<site, open, dateShown, checked, selected, request>>
    BY <1>3 DEF onSelect, Idle
  <2>3. CASE checked = NoProduct
    <3>1. UNCHANGED <<method, deposit, amounts, shown>>
      BY <1>3, <2>3 DEF onSelect
    <3>2. AmountsShown'
      BY <3>1 DEF IInv, AmountsShown
    <3> QED BY <2>1, <2>2, <3>1, <3>2, HandlerIInv DEF IInv, TypeOK
  <2>4. CASE checked # NoProduct
    <3>1. setSelectedValue(checked, selected, d)
      BY <1>3, <2>4 DEF onSelect
    <3>2. checked \in Products /\ selected \in Products \union {NoProduct}
      BY <2>4 DEF IInv, TypeOK
    <3>3. /\ deposit' \in BOOLEAN /\ method' \in PayMethods
          /\ amounts' \in Amounts \union {NoAmounts}
          /\ shown' \in [name : Products \union {NoProduct}, from : Dates \union {NoDate},
                         amounts : Amounts \union {NoAmounts}]
          /\ AmountsShown'
      BY <2>1, <3>1, <3>2, SetSelectedValue DEF IInv
    <3>4. open' \in BOOLEAN /\ dateShown' \in BOOLEAN
      BY <2>2 DEF IInv, TypeOK
    <3> QED BY <2>1, <2>2, <3>2, <3>3, <3>4, HandlerIInv
  <2> QED BY <2>3, <2>4
<1>4. ASSUME NEW d \in Days \union {NoDate}, TypeDate(d) PROVE IInv'
  <2>1. d = NoDate \/ (d \in Dates /\ Reachable(d))
    BY CheckoutAssumption DEF Reachable
  <2>2. /\ field' = d /\ order' = NoOrder /\ request = NoCall
        /\ UNCHANGED <<site, open, dateShown, checked, selected, method, deposit, amounts,
                       shown, request>>
    BY <1>4 DEF TypeDate, Idle
  <2>3. AmountsShown'
    BY <2>2 DEF IInv, AmountsShown
  <2> QED BY <2>1, <2>2, <2>3, HandlerIInv DEF IInv, TypeOK
<1>5. ASSUME NEW p \in Products, Check(p) PROVE IInv'
  <2>1. /\ checked' = p /\ order' = NoOrder /\ request = NoCall
        /\ UNCHANGED <<site, open, dateShown, field, selected, method, deposit, amounts,
                       shown, request>>
    BY <1>5 DEF Check, Idle
  <2>2. AmountsShown' /\ (field' # NoDate => Reachable(field'))
    BY <2>1 DEF IInv, AmountsShown, FieldReachable, Reachable
  <2> QED BY <2>1, <2>2, HandlerIInv DEF IInv, TypeOK
<1>6. ASSUME NEW m \in PayMethods, ChooseMethod(m) PROVE IInv'
  <2>1. /\ method' = m /\ order' = NoOrder /\ request = NoCall
        /\ UNCHANGED <<site, open, dateShown, field, checked, selected, deposit, amounts,
                       shown, request>>
    BY <1>6 DEF ChooseMethod, Idle
  <2>2. AmountsShown' /\ (field' # NoDate => Reachable(field'))
    BY <2>1 DEF IInv, AmountsShown, FieldReachable, Reachable
  <2> QED BY <2>1, <2>2, HandlerIInv DEF IInv, TypeOK
<1>7. CASE selectProduct
  <2>1. /\ checked \in Products /\ selected' = checked /\ order' = NoOrder
        /\ request = NoCall
        /\ setSelectedValue(checked, checked, field)
        /\ UNCHANGED <<site, open, dateShown, field, checked, request>>
    BY <1>7 DEF selectProduct, Idle, IInv, TypeOK
  <2>2. field \in Dates \union {NoDate} /\ (field # NoDate => Reachable(field))
    BY DEF IInv, TypeOK, FieldReachable
  <2>3. /\ deposit' \in BOOLEAN /\ method' \in PayMethods
        /\ amounts' \in Amounts \union {NoAmounts}
        /\ shown' \in [name : Products \union {NoProduct}, from : Dates \union {NoDate},
                       amounts : Amounts \union {NoAmounts}]
        /\ AmountsShown'
    BY <2>1, <2>2, SetSelectedValue DEF IInv
  <2>4. open' \in BOOLEAN /\ dateShown' \in BOOLEAN
    BY <2>1 DEF IInv, TypeOK
  <2>5. field' \in Dates \union {NoDate} /\ (field' # NoDate => Reachable(field'))
    BY <2>1, <2>2 DEF Reachable
  <2> QED BY <2>1, <2>3, <2>4, <2>5, HandlerIInv
<1>8. CASE setPaymentSiteInfo
  <2>1. /\ selected # NoProduct /\ order' = NoOrder /\ site' = site /\ UNCHANGED page
        /\ request' = [endpoint |-> "setPayment", next |-> "isValidSite",
                       agency |-> NotRead, startDate |-> field, rateSel |-> selected, amounts |-> amounts,
                       method |-> method]
    BY <1>8 DEF setPaymentSiteInfo
  <2>2. /\ selected \in Products /\ field \in Dates \union {NoDate}
        /\ amounts \in Amounts \union {NoAmounts} /\ method \in PayMethods
        /\ site' \in SiteStates /\ selected' = selected /\ amounts' = amounts
    BY <2>1 DEF IInv, TypeOK, page
  <2>3. request' \in PaymentCall /\ request'.endpoint = "setPayment"
    BY <2>1, <2>2 DEF PaymentCall
  <2>4. request' \notin OpeningCall
    BY <2>3 DEF OpeningCall
  <2>5. FirstFits' /\ SessionFits'
    BY <2>1, <2>4 DEF FirstFits, SessionFits
  <2>6. PaymentFits'
    BY <2>1, <2>2 DEF PaymentFits
  <2> QED BY <2>1, <2>2, <2>3, <2>5, <2>6, PageKept DEF IInv
<1>9. CASE HFPayment
  <2>1. /\ request.next = "answer" /\ request.endpoint = "setPayment"
        /\ order' = [product |-> selected, startDate |-> request.startDate,
                     amounts |-> [amounts EXCEPT !.price = request.amounts.price],
                     method |-> request.method]
        /\ request' = NoCall /\ site' = site
        /\ UNCHANGED <<open, dateShown, field, checked, selected, method, deposit,
                       amounts, shown>>
    BY <1>9 DEF HFPayment, page
  <2>2. request \in PaymentCall
    <3>1. request \notin OpeningCall
      BY <2>1 DEF OpeningCall
    <3> QED BY <2>1, <3>1, Calls DEF IInv
  <2>3. /\ request.rateSel = selected /\ request.amounts = amounts
        /\ request.startDate # NoDate /\ request.amounts # NoAmounts
    BY <2>1, <2>2 DEF IInv, PaymentFits
  <2>4. /\ selected \in Products /\ request.startDate \in Dates
        /\ amounts \in Amounts /\ request.method \in PayMethods
    BY <2>2, <2>3 DEF PaymentCall
  <2>5. [amounts EXCEPT !.price = request.amounts.price] = amounts
    BY <2>3, <2>4 DEF Amounts
  <2>6. order' \in Order /\ order'.amounts = amounts
    BY <2>1, <2>4, <2>5 DEF Order
  <2>7. TypeOK'
    BY <2>1, <2>6 DEF IInv, TypeOK
  <2>8. FieldReachable' /\ AmountsShown'
    BY <2>1 DEF IInv, FieldReachable, AmountsShown, Reachable
  <2>9. ShownIsCharged'
    BY <2>1, <2>6 DEF IInv, AmountsShown, ShownIsCharged
  <2> QED BY <2>1, <2>7, <2>8, <2>9, CallEnds DEF IInv
<1>10. CASE Server
  <2>1. CASE isValidSite
    BY <2>1, ValidSiteIInv
  <2>2. CASE decideRateSel
    BY <2>2, RateSelIInv
  <2>3. CASE decideStartDate
    BY <2>3, StartDateIInv
  <2>4. CASE isScheduled
    BY <2>4, GoesOn DEF isScheduled
  <2>5. CASE isExtendable
    BY <2>5, ExtendableIInv
  <2>6. CASE excessCount
    BY <2>6, GoesOn DEF excessCount
  <2>7. CASE excessAmount
    BY <2>7, GoesOn DEF excessAmount
  <2>8. CASE verifyOrder
    BY <2>8, VerifiedIInv
  <2>9. CASE Refused
    <3>1. request' = NoCall /\ order' = NoOrder /\ site' = site /\ UNCHANGED page
      BY <2>9 DEF Refused
    <3>2. site' \in SiteStates
      BY <3>1 DEF IInv, TypeOK
    <3> QED BY <3>1, <3>2, PageKept, CallEnds DEF IInv
  <2> QED BY <1>10, <2>1, <2>2, <2>3, <2>4, <2>5, <2>6, <2>7, <2>8, <2>9 DEF Server
<1>11. CASE Lost
  <2>1. request' = NoCall /\ order' = NoOrder /\ site' = site /\ UNCHANGED page
    BY <1>11 DEF Lost
  <2>2. site' \in SiteStates
    BY <2>1 DEF IInv, TypeOK
  <2> QED BY <2>1, <2>2, PageKept, CallEnds DEF IInv
<1>12. CASE SiteChanges
  <2>1. /\ site' \in SiteStates /\ order' = NoOrder /\ request' = request
        /\ UNCHANGED page /\ selected' = selected /\ amounts' = amounts
    BY <1>12 DEF SiteChanges, page
  <2>2. request' \in OpeningCall \union PaymentCall \union {NoCall}
    BY <2>1 DEF IInv, TypeOK
  <2>3. FirstFits' /\ PaymentFits' /\ SessionFits'
    BY <2>1 DEF IInv, FirstFits, PaymentFits, SessionFits, Reachable
  <2> QED BY <2>1, <2>2, <2>3, PageKept DEF IInv
<1>13. CASE UNCHANGED vars
  BY <1>13 DEF vars, page, IInv, TypeOK, FieldReachable, AmountsShown, FirstFits,
               PaymentFits, SessionFits, ShownIsCharged, Reachable
<1> QED BY <1>1, <1>2, <1>3, <1>4, <1>5, <1>6, <1>7, <1>8, <1>9, <1>10, <1>11, <1>12, <1>13
    DEF Next

\* The invariant holds in every state of every visit.
THEOREM Invariance == Spec => []IInv
<1> QED BY InitIInv, NextIInv, PTL DEF Spec

-----------------------------------------------------------------------------
(* The theorems. *)

\* Type correctness: whatever is typed, marked, refused or changed meanwhile, an
\* order that is handed over has a product, a first day, an end, a price and an offer.
THEOREM TypeCorrect == Spec => []TypeOK
<1>1. IInv => TypeOK
  BY DEF IInv
<1> QED BY <1>1, Invariance, PTL

\* The gateway charges what the page shows.
THEOREM ShownCharged == Spec => []ShownIsCharged
<1>1. IInv => ShownIsCharged
  BY DEF IInv
<1> QED BY <1>1, Invariance, PTL

\* The page never shows a price or an offer that the server would not compute for
\* a product, but for what doubles lose and what the months leave of the amounts.
THEOREM Agreement == Spec => []ServerAgrees
<1>1. IInv => ServerAgrees
  <2> SUFFICES ASSUME IInv, shown.from # NoDate PROVE ServerAgrees
    BY DEF ServerAgrees
  <2>1. PICK p \in Products : shown.amounts \in selects(p, shown.from)
    BY DEF IInv, AmountsShown
  <2>2. shown.from \in Dates
    BY DEF IInv, TypeOK
  <2>3. /\ shown.amounts.price \in selectPrices(p, shown.from)
        /\ shown.amounts.offer \in selectOffers(p, shown.from)
    BY <2>1 DEF selects
  <2>4. \A s \in calcPrices(p, shown.from) :
          /\ s <= shown.amounts.price + 1
          /\ 10 * shown.amounts.price
               < 10 * (s + 2) + 11 * (Catalog[p].price % Catalog[p].months)
    BY <2>2, <2>3, PriceAgrees
  <2>5. /\ calcOffer(p, shown.from) <= shown.amounts.offer + 1
        /\ shown.amounts.offer
             <= calcOffer(p, shown.from) + (Catalog[p].offer % Catalog[p].months)
    BY <2>2, <2>3, OfferAgrees
  <2> QED BY <2>4, <2>5 DEF ServerAgrees
<1> QED BY <1>1, Invariance, PTL
=============================================================================
