SPECIFICATION Spec
CONSTANTS
    Repairs = {1, 2}
    Workers = {w1, w2}
    Requests = {q1}
    Lost = {}
    None = None
SYMMETRY Symmetry
INVARIANTS
    TypeOK
    AtMostOnce
    RunningHoldsClaim
PROPERTIES
    SingleFlightKept
CHECK_DEADLOCK FALSE
