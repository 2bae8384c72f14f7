\* Two calls at a time, two rounds of pruning, any statement may raise.
SPECIFICATION Spec
CONSTANTS
  c1 = c1
  c2 = c2
  Calls = {c1, c2}
  Retention = 2
  PruneEvery = 2
  MaxIds = 7
SYMMETRY CallSymmetry
INVARIANTS
  TypeOK
  TableBounded
  ErrorChangesNothing
  FailsOnlyByPruning
PROPERTIES
  NewestKept
CHECK_DEADLOCK FALSE
