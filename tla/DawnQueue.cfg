\* Two submissions and those of destruction, two requests, one thread that waits.
CONSTANTS
    Objects = {o1, o2, o3, o4}
    MaxSerial = 2
    Requests = {r1, r2}
    Waiters = {w1}
SPECIFICATION Spec
INVARIANTS
    TypeOK
    
    
    CompletedIsFinished
    TasksWillPass
PROPERTIES
    KeepsWorkDone
    ReleaseAnswersAll
\* A device that is released does nothing more.
CHECK_DEADLOCK FALSE
