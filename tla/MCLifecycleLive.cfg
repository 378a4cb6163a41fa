SPECIFICATION FairSpec
CONSTANT
    Sizes <- MCLiveSizes
PROPERTIES ComesToRest PromiseKept
CHECK_DEADLOCK FALSE
