\* Two threads, three requests, one position allowed; the process stops, and the
\* power may fail with it, at any point.
CONSTANTS
  p = p
  q = q
  r = r
  legacy = legacy
  Thread = {t1, t2}
  Payload = {p, q, r}
  Key = {p, q, r, legacy}
  FalconKey = {p, q, r}
  ScanLimit = 5
  Attempt = {p, q, r}
  Leg = {p, q, r}
  KeyOf <- MCKeyOf
  LegacyOf <- MCLegacyOf
  AttemptOf <- MCAttemptOf
  LegOf <- MCLegOf
  MaxOpen = 1
  Nobody = Nobody
SYMMETRY Interchangeable
SPECIFICATION LiveSpec
INVARIANTS
  AttemptOnce
  CallOnRecord
  ConfirmedIsFinal
  
