\* Two threads and a spontaneous map request; the lost event is not spontaneous.
CONSTANTS
    Threads = {t1, t2}
    Count = 1
    MaxSerial = 1
    NewModes = {"AllowProcessEvents"}
    MapModes = {"AllowSpontaneous"}
    LostModes = {"AllowProcessEvents"}
SPECIFICATION Spec
INVARIANT NoDeadlock
CHECK_DEADLOCK FALSE
