CONSTANTS
  RecorderOrder <- MCRecorderOrder
  Emitters = {e1}
  MaxRecordId = 3
  None = None
  ChanCap = 1

SPECIFICATION Spec
CONSTRAINT WithinBounds



INVARIANT EmitterEventsWellOrdered
