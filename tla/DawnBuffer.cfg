\* Two requests, by callback or by future; work up to the second serial.
CONSTANTS
    Requests = {r1, r2}
    Nobody = Nobody
    ApiSets = {{"task"}, {"event"}}
    Reentrant = FALSE
    MaxSerial = 2
SPECIFICATION Spec
INVARIANTS
    TypeOK
PROPERTIES
    MapsAsPromised
    EveryRequestAnswered
\* When nothing is asked of a destroyed device there is nothing left to do.
CHECK_DEADLOCK FALSE
