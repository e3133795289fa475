CONSTANTS
    Requests = {r1}
    CancelAt <- MCCancelAfterTrigger
SPECIFICATION Spec
INVARIANT StopFiredExactlyOnce
PROPERTY EverythingReleased
CHECK_DEADLOCK FALSE
