\* Two threads, two events and the lost event, which is not
\* spontaneous; nor are map requests, which Unmap may end early.
CONSTANTS
    Threads = {t1, t2}
    Count = 2
    MaxSerial = 1
    NewModes = {"AllowSpontaneous"}
    MapModes = {"WaitAnyOnly"}
    LostModes = {"AllowProcessEvents"}
SPECIFICATION Spec
INVARIANTS
    TypeOK
    NoneForgotten
    NoDeadlock
PROPERTIES
    KeepsFutures
    SpontaneousCompletes
\* Once the instance is dropped and the device lost nothing is left to do;
\* NoDeadlock finds the deadlocks.
CHECK_DEADLOCK FALSE
