------------------------------ MODULE MCCheckout ------------------------------
(* Instances of Checkout for TLC. *)
EXTENDS Checkout, TLC

CONSTANTS lite, liteAuto, basic

Date(m, d) == [month |-> m, day |-> d]

\* December to May.
WinterDays == <<31, 31, 28, 31, 30, 31>>

\* A one-month product that costs whole won for the 17 days left today, another with
\* autopay, and one whose months do not divide its price and offer.
ThreeProducts ==
  (lite :> [price |-> 341000, offer |-> 200, months |-> 1, autopay |-> FALSE])
  @@ (liteAuto :> [price |-> 9000, offer |-> 200, months |-> 1, autopay |-> TRUE])
  @@ (basic :> [price |-> 100000, offer |-> 2500, months |-> 3, autopay |-> FALSE])

OneMonthProducts == [p \in {lite, liteAuto} |-> ThreeProducts[p]]

\* 15th of January.
MidJanuary == Date(2, 15)

\* Before today; 15, 14 and 1 day left.
SomeDays == {Date(2, 14), Date(2, 17), Date(2, 18), Date(2, 31)}

\* The last days of December and of January.
MonthEnds == {Date(1, 31), Date(2, 31)}

EndOfDecember == Date(1, 30)

Applied == [status |-> "Y", extension |-> "D", rateSel |-> NoProduct,
            startDate |-> NoDate, endDate |-> NoDate,
            scheduled |-> FALSE, renewed |-> FALSE]

Paid == [Applied EXCEPT !.extension = "N", !.rateSel = lite,
                        !.startDate = Date(1, 20), !.endDate = Date(2, 31)]

\* A site as it is accepted, paid, open for its extension, on autopay, paid twice
\* and suspended.
SiteHistory ==
  {Applied, Paid, [Paid EXCEPT !.extension = "Y"],
   [Applied EXCEPT !.scheduled = TRUE],
   [Paid EXCEPT !.extension = "Y", !.renewed = TRUE],
   [Applied EXCEPT !.status = "N"]}

JustAccepted == {Applied}
=============================================================================
