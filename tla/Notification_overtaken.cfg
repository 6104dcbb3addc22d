SPECIFICATION Spec
CONSTANTS
  va1 = va1  va2 = va2  ca1 = ca1  s1 = s1  m1 = m1  m2 = m2
  h1 = h1  h2 = h2  c1 = c1
  Trades = {va1}
  Sites = {s1}
  Terms = {m1, m2}
  Companies = {c1}
  Handlers = {h1, h2}
  Order <- OneDeposit
  SettledSites = {s1}
  DateConversions = {"instant"}
  NoRow = NoRow  NoTerm = NoTerm  NoPayment = NoPayment  NoNotice = NoNotice
PROPERTIES PaidRowStaysPaid
