SPECIFICATION FairSpec
CONSTANTS
    Repairs = {1, 2}
    Workers = {w1, w2}
    Requests = {q1}
    Lost = {1}
    None = None
PROPERTIES
    QueueMoves
CHECK_DEADLOCK FALSE
