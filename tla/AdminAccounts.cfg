\* Two processes that seed, two browsers, two requests in flight, two accounts, four commits.
SPECIFICATION Spec
CONSTANTS
  b1 = b1
  b2 = b2
  r1 = r1
  r2 = r2
  p1 = p1
  p2 = p2
  NoLogin = NoLogin
  Logins = {"admin", "ops"}
  SeedLogin = "admin"
  SeedPassword = "secret"
  Browsers = {b1, b2}
  Requests = {r1, r2}
  Procs = {p1, p2}
  Passwords = {"secret"}
  MaxCommits = 4
PROPERTIES
  SessionsEndForGood
  ChangesHitTheRowRead
  EmptiedOnlyByRace
SYMMETRY Symmetric
CHECK_DEADLOCK FALSE
