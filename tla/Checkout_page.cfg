SPECIFICATION Spec
CONSTANTS
  lite = lite  liteAuto = liteAuto  basic = basic
  Products = {lite, liteAuto, basic}
  Catalog <- ThreeProducts
  LastMonth = 6
  MonthDays <- WinterDays
  NoDate = NoDate
  Days <- SomeDays
  Today <- MidJanuary
  SiteStates <- SiteHistory
  NoProduct = NoProduct
INVARIANTS TypeOK ShownIsCharged ServerAgrees
