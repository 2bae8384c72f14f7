\* Two loops, two requests with one key or two, a settings edit, and one failed pass,
\* shutdown or death of a process.
SPECIFICATION Spec
CONSTANTS
  a1 = a1
  a2 = a2
  w1 = w1
  w2 = w2
  Attempts = {a1, a2}
  Keys = {"k1", "k2"}
  Suffixes = {"0001", "0004"}
  Workers = {w1, w2}
  InitDelays <- MCInitDelays
  Delays = {0}
  MaxTime = 1
  MaxEdits = 1
  MaxFailures = 1
INVARIANTS
  TypeOK
  OneTransition
  NeverEarly
  PassLeavesNoneDue
  SameKeySamePayment
PROPERTIES
  ImplementsLifecycle
SYMMETRY Symmetric
CHECK_DEADLOCK FALSE
