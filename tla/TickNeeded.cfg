\* One submission and one request and a thread that waits for its serial.
CONSTANTS
    Objects = {o1, o2, o3, o4}
    MaxSerial = 1
    Requests = {r1}
    Waiters = {w1}
SPECIFICATION Spec
INVARIANT IdleMeansNoTasks
CHECK_DEADLOCK FALSE
