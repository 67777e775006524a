SPECIFICATION Spec
CONSTANTS
  Thread = {scanner}
  Scanner = scanner
  Payload = {"f1", "f2"}
  FalconPayload = {"f1", "f2"}
  Key = {"kf1", "kf2", "legacy", "other"}
  FalconKey = {"kf1", "kf2", "legacy"}
  ScanLimit = 2
  Attempt = {"f1", "f2"}
  Leg = {"f1", "f2"}
  KeyOf <- MCKeyOf
  LegacyOf <- MCLegacyOf
  AttemptOf <- MCAttemptOf
  LegOf <- MCLegOf
  MaxOpen = 2
  MaxFaults = 2
  Nobody = Nobody
  Free = Free
INVARIANTS
  
  NotSentIsFact
PROPERTIES
  FailClosed
  UnlockAfterLedger
