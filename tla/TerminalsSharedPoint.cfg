\* Two terminals that send the same pointId.
SPECIFICATION TermSpec
CONSTANTS
  a = a
  b = b
  c = c
  s1 = s1
  s2 = s2
  s3 = s3
  NoPoint = NoPoint
  Pins = {1}
  Points = {a, b}
  Sessions = {s1, s2}
  PointOf <- SharedPoint
  Admins = {}
  Currencies = {10}
  Amounts = {2}
  PayAmounts = {1, 2}
  Ttls = {1}
  Scenarios = {"normal"}
  OtpInputs = {"0000", "0002"}
  MaxTime = 1
  MaxEvents = 5
INVARIANTS
  BookedOnce
CHECK_DEADLOCK FALSE
