CONSTANTS
  RecorderOrder <- MCRecorderOrder
  Emitters = {e1}
  MaxRecordId = 2
  None = None
  ChanCap = 1

SPECIFICATION Spec
CONSTRAINT WithinBounds

INVARIANT TypeOK
INVARIANT CacheConsistentWhenQuiet
INVARIANT NoEventLost
PROPERTY RegistrationCompletes
PROPERTY EmitsComplete
PROPERTY RecorderRespawned
