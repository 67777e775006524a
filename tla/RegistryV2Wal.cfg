\* Two processes, three keys, two payloads.  In one life of the system processes
\* stop at any point and directories cannot be synced; in another the power fails.
\* Recovery is called again and again while failures stop.
CONSTANTS
  p1 = p1
  p2 = p2
  k1 = k1
  k2 = k2
  k3 = k3
  v1 = v1
  v2 = v2
  Proc = {p1, p2}
  Key = {k1, k2, k3}
  Payload = {v1, v2}
  MaxGen = 3
  Failures = {{"stop", "directory"}, {"power"}}
  Nil = Nil
SPECIFICATION FairSpec
INVARIANTS
  NeverDivergent
  JournalIsAuthority
  JournalWellFormed
  AnsweredIsDurable
PROPERTIES
  MutationLogSpec
  RecoveryCompletes
