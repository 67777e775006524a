------------------------- MODULE MCFalconEntryRecovery -------------------------
\* f1 and f2 are two Falcon signals; another bot uses the key "other".
EXTENDS FalconEntryRecovery

KeyFor == [f1 |-> "kf1", f2 |-> "kf2"]
MCKeyOf == [p \in Payload |-> KeyFor[p]]
MCLegacyOf == [p \in Payload |-> "legacy"]
MCAttemptOf == [p \in Payload |-> p]
MCLegOf == [p \in Payload |-> p]
=============================================================================
