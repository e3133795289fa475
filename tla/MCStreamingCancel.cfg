CONSTANTS
    Requests = {r1}
    CancelAt <- MCCancelAnywhere
SPECIFICATION Spec
INVARIANT StopFiredExactlyOnce
CHECK_DEADLOCK FALSE
