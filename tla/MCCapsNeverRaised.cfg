SPECIFICATION Spec
CONSTANTS
    Repairs = {1}
    Workers = {w1}
    Requests = {q1, q2}
    Lost = {}
    None = None
PROPERTIES
    CapsNeverRaised
CHECK_DEADLOCK FALSE
