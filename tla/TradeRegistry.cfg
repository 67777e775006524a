CONSTANTS
  x1 = x1
  x2 = x2
  e1 = e1
  e2 = e2
  t1 = t1
  None = None
  Execution = {x1, x2}
  Event = {e1, e2}
  Thread = {t1}
  MaxFaults = 1
SPECIFICATION Spec
SYMMETRY Symmetry
INVARIANTS
  FlatWhenReconciled
  LifecycleOnce

  
