SPECIFICATION FairSpec
CONSTANTS
    MaxAttempts = 2
    LastHead = 1
    ByHand = {"result"}
    MaxTrouble = 2
    MaxOutcomes = 1
INVARIANTS
    TypeOK
    OutcomeRecorded
    DuplicatesExplained
    SentThreaded
PROPERTIES
    AllSettle OutboxKept
