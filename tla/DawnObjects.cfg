\* Two threads, three objects of two contents; the device's destruction is
\* not overlapped by calls of the other thread.
CONSTANTS
    Threads = {t1, t2}
    Objects = {o1, o2, o3}
    Contents = {c1, c2}
    Overlap = FALSE
SPECIFICATION Spec
INVARIANTS
    TypeOK
    RefsAreCounted
    CacheHoldsExisting
    OnePerContent
    FreedAfterDestroy
    EraserHoldsNoLock
PROPERTIES
    KeepsInterning
    CallsReturn
\* When the device is destroyed and no reference is left nothing happens.
CHECK_DEADLOCK FALSE
