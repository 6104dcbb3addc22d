SPECIFICATION Spec
CONSTANTS
  s1 = s1  a1 = a1  a2 = a2  c1 = c1  c2 = c2  c3 = c3  h1 = h1  h2 = h2
  Sites = {s1}
  Terms = {}
  Companies = {c1, c2, c3}
  Agencies = {a1, a2}
  SiteAgency <- OneSite
  FormAgency <- FormsOfTwo
  Complete = {c1, c2}
  Handlers = {h1, h2}
  NoRow = NoRow  NoTerm = NoTerm  NoPayment = NoPayment  NoForm = NoForm
SYMMETRY HandlerSymmetry
INVARIANTS TypeOK ConfirmedIsRegistered
PROPERTIES RegistrySpec
