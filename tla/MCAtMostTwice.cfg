SPECIFICATION Spec
CONSTANT
    Sizes <- MCThreeCommits
INVARIANTS
    AtMostTwice
CHECK_DEADLOCK FALSE
