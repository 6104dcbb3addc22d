SPECIFICATION Spec
CONSTANTS
  mail = mail  phone = phone
  Inputs <- FourInputs
  Agreements <- TwoAgreements
  NoText = NoText
  Texts = {mail, phone, NoText}
  Mails = {mail}  Phones = {phone}  TenLong = {phone}
  Nothing = Nothing
INVARIANTS TypeOK MarksAreTrue
