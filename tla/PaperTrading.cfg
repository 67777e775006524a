\* One executor, two keys, two closings, one stop of the process.
SPECIFICATION PaperSpec
CONSTANTS
  Executor = {e1}
  Key = {k1, k2}
  MaxOpenings = 1
  MaxClosings = 2
  MaxCrashes = 1
  None = None
  Torn = Torn
INVARIANTS
  CountedOnce
  
