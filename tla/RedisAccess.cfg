\* Two workers whose calls may raise, one of them with two threads.
CONSTANTS
  a = a
  b = b
  t1 = t1
  t2 = t2
  t3 = t3
  Process = {a, b}
  Thread = {t1, t2, t3}
  ProcOf <- TwoProcesses
  Value = {v1, v2}
  Initial = v1
  Unknown = Unknown
  Serialised = TRUE
  Cached = TRUE
  MaxWrites = 3
SYMMETRY Threads
SPECIFICATION Spec
INVARIANTS
  SkippedSetIsIdentical
  OwnWritesVisible
