\* The callback of a future calls the buffer.
CONSTANTS
    Requests = {r1}
    Nobody = Nobody
    ApiSets = {{"event"}}
    Reentrant = TRUE
    MaxSerial = 1
SPECIFICATION Spec
INVARIANT DestroyedIsRefused
CHECK_DEADLOCK FALSE
