\* Two API sessions and no admin: the whole request protocol on one code.
SPECIFICATION Spec
CONSTANTS
  a = a
  b = b
  s1 = s1
  s2 = s2
  adm = adm
  adm2 = adm2
  NoPoint = NoPoint
  Pins = {1}
  Points = {a, b}
  Sessions = {s1, s2}
  Admins = {}
  Currencies = {10, 20}
  Amounts = {2}
  PayAmounts <- MCPayAmounts
  Ttls = {1, 2}
  Scenarios = {"normal", "internal_error"}
  OtpInputs <- MCOtps
  MaxTime = 2
  MaxEvents = 6
INVARIANTS
  TypeOK
  LedgerChain
  DebitSpendsItsBlock
PROPERTIES
  ImplementsLedger
CHECK_DEADLOCK FALSE
