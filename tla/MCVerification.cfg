\* Safety and liveness: two coordinators, a branch that moves, and failures.
SPECIFICATION FairSpec
CONSTANTS
    Coordinators = {p1, p2}
    Trees = {"good", "vain", "wide"}
    Diff <- MCDiff
    Family = "row_limit"
    Works = {"good", "wide"}
    Symptoms <- MCSymptoms
    RetainMerged = TRUE
    MaxMoves = 2
    MaxCrashes = 1
    MaxErrors = 1
INVARIANTS TypeOK VerdictIsEarned PassedIsInScope NothingLeftRunning LiveStackIsWhole
PROPERTIES CandidateIsJudged AcceptanceKept
CHECK_DEADLOCK FALSE
