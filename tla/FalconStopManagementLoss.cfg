\* Two fair workers lose the stop of a leg in every way but a crash, which orphans
\* the lock or loses the memory of the cycle only; without symmetry.
CONSTANTS
  w1 = w1
  w2 = w2
  Worker = {w1, w2}
  MaxLevel = 1
  MaxRevision = 1
  MaxAttempt = 0
  Faults = {"lost", "refuse"}
  Nil = Nil
  Orphan = Orphan
SPECIFICATION FairSpec
\* The position is removed from the document: nothing is left to manage.
CHECK_DEADLOCK FALSE
PROPERTIES
  LossIsHandled
