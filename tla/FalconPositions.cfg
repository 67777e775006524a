\* Two symbols, two entries of each; one access to Redis fails and the process
\* restarts once.
CONSTANTS
  Symbol = {s1, s2}
  MaxOpenPositions = 2
  MaxStop = 1
  MaxEntries = 2
  MaxFaults = 1
  MaxRestarts = 1
  None = None
SYMMETRY Symbols
SPECIFICATION Spec
INVARIANTS
  TombstonesHold
  OneEntryPerDay
