SPECIFICATION Spec
CONSTANTS
  lite = lite  liteAuto = liteAuto  basic = basic
  Products = {lite, liteAuto}
  Catalog <- OneMonthProducts
  LastMonth = 6
  MonthDays <- WinterDays
  NoDate = NoDate
  Days <- MonthEnds
  Today <- EndOfDecember
  SiteStates <- JustAccepted
  NoProduct = NoProduct
INVARIANTS PeriodAsAnnounced
