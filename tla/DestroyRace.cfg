\* One thread destroys the device while the other releases an object.
CONSTANTS
    Threads = {t1, t2}
    Objects = {o1}
    Contents = {c1}
    Overlap = TRUE
SPECIFICATION Spec
INVARIANT HeadIsInList
CHECK_DEADLOCK FALSE
