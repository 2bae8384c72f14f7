\* Two API sessions racing two admins on one code.
SPECIFICATION Spec
CONSTANTS
  a = a
  b = b
  s1 = s1
  s2 = s2
  adm = adm
  adm2 = adm2
  NoPoint = NoPoint
  Pins = {1}
  Points = {a, b}
  Sessions = {s1, s2}
  Admins = {adm, adm2}
  Currencies = {10}
  Amounts = {2}
  PayAmounts = {1, 2}
  Ttls = {1}
  Scenarios = {"normal", "scenario_expired"}
  OtpInputs = {"0000"}
  MaxTime = 2
  MaxEvents = 5
INVARIANTS
  LedgerChain
  DebitSpendsItsBlock
PROPERTIES
  ExpiredStaysDead
  PaidEndsOnlyByStaleUnblock
  UntouchedFieldsStay
  ImplementsLedger
SYMMETRY Interchangeable
CHECK_DEADLOCK FALSE
