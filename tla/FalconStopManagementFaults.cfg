\* Two workers, every fault: replacements, rollbacks, emergency closes and
\* stop-cross closes of one leg.
CONSTANTS
  w1 = w1
  w2 = w2
  Worker = {w1, w2}
  MaxLevel = 1
  MaxRevision = 2
  MaxAttempt = 1
  Faults = {"crash", "lost", "refuse"}
  Nil = Nil
  Orphan = Orphan
SYMMETRY MCSymmetry
SPECIFICATION Spec
\* The position is removed from the document: nothing is left to manage.
CHECK_DEADLOCK FALSE
INVARIANTS
  TypeOK
  OneStop
  NeverLoosened
  OneClose
PROPERTIES
  EmergencyOnlyUnprotected
  NoStopAfterClose
