\* Three terminals at three points share one code; every answer may be lost.
SPECIFICATION TermSpec
CONSTANTS
  a = a
  b = b
  c = c
  s1 = s1
  s2 = s2
  s3 = s3
  NoPoint = NoPoint
  Pins = {1}
  Points = {a, b, c}
  Sessions = {s1, s2, s3}
  PointOf <- OnePointEach
  Admins = {}
  Currencies = {10}
  Amounts = {2}
  PayAmounts = {0, 1, 2}
  Ttls = {1}
  Scenarios = {"normal"}
  OtpInputs = {"0000", "0002"}
  MaxTime = 1
  MaxEvents = 5
INVARIANTS
  TermTypeOK
  UnbookedIsHeld
  HoldIsExclusive
  BookedOnce
  HonestReportAccepted
CHECK_DEADLOCK FALSE
