\* paid is documented as final; an admin unblock decided on an old copy ends it.
SPECIFICATION Spec
CONSTANTS
  a = a
  b = b
  s1 = s1
  s2 = s2
  adm = adm
  adm2 = adm2
  NoPoint = NoPoint
  Pins = {1}
  Points = {a, b}
  Sessions = {s1}
  Admins = {adm}
  Currencies = {10}
  Amounts = {2}
  PayAmounts = {1, 2}
  Ttls = {1}
  Scenarios = {"normal"}
  OtpInputs = {"0000"}
  MaxTime = 2
  MaxEvents = 5
PROPERTIES
  PaidIsFinal
CHECK_DEADLOCK FALSE
