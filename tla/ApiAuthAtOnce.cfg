\* One process: a verification that overlaps a change caches what the change revoked.
SPECIFICATION Spec
CONSTANTS
  p1 = p1
  p2 = p2
  r1 = r1
  r2 = r2
  x1 = x1
  x2 = x2
  pw1 = pw1
  pw2 = pw2
  Users = {"partner"}
  Passwords = {pw1, pw2}
  Procs = {p1}
  Requests = {r1}
  SeedLogin = "partner"
  SeedPassword = pw1
  Changes = {x1}
  CacheTtl = 1
  MaxTime = 3
  MaxCommits = 3
INVARIANTS
  InvalidatedAtOnce
SYMMETRY Symmetric
CHECK_DEADLOCK FALSE
