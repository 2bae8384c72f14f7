\* Two loops that meet at one payment, a settings edit, and two failed passes, shutdowns
\* or deaths of a process.
SPECIFICATION FairSpec
CONSTANTS
  a1 = a1
  a2 = a2
  w1 = w1
  w2 = w2
  Attempts = {a1}
  Keys = {"k1"}
  Suffixes = {"0004"}
  Workers = {w1, w2}
  InitDelays <- MCInitDelays
  Delays = {0, 2}
  MaxTime = 2
  MaxEdits = 1
  MaxFailures = 2
PROPERTIES
  EveryPendingSettles
  ShutdownEnds
CHECK_DEADLOCK FALSE
