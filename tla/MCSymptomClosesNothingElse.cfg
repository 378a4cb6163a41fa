SPECIFICATION Spec
CONSTANT
    Sizes <- MCRecordings
INVARIANTS
    SymptomClosesNothingElse
CHECK_DEADLOCK FALSE
