\* One worker and no fault at all: the exchange refuses a replacement stop.
CONSTANTS
  w1 = w1
  w2 = w2
  Worker = {w1}
  MaxLevel = 1
  MaxRevision = 1
  MaxAttempt = 0
  Faults = {}
  Nil = Nil
  Orphan = Orphan
SPECIFICATION FairSpec
\* The position is removed from the document: nothing is left to manage.
CHECK_DEADLOCK FALSE
PROPERTIES
  LossIsContained
