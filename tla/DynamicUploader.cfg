\* Rings of three bytes, uploads of one and two, two staging buffers.
CONSTANTS
    RingSize = 3
    Sizes = {1, 2}
    Alignments = {1, 2}
    MaxSerial = 3
    MaxBuffers = 2
    MaxRings = 2
SPECIFICATION Spec
INVARIANTS
    TypeOK
    UploadsIntact
    NoBytesLost
    EverythingReclaimed
\* The bounds stop the system.
CHECK_DEADLOCK FALSE
