SPECIFICATION Spec
CONSTANT
    Sizes <- MCSizes
INVARIANTS TypeOK MergedWasVerified EachToldOnce HeldWhileOwed DeliveredIsSlacksWord ReleasedWhenEnded
CHECK_DEADLOCK FALSE
