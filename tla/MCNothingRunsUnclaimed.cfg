SPECIFICATION Spec
CONSTANT
    Sizes <- MCOneCommit
INVARIANTS
    NothingRunsUnclaimed
CHECK_DEADLOCK FALSE
