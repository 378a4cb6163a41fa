\* Safety and liveness: two drains, a request, crashes and failing writes.
SPECIFICATION FairSpec
CONSTANTS
    Requests = {r1, r2}
    Inputs <- MCInputs
    Entries <- MCEntries
    Actions <- MCActions
    Actors <- MCActors
    Revisions <- MCRevisions
    Parent <- MCParent
    ExpectedBaseline = "base"
    Admission <- MCAdmission
    RateLimit = 1
    Limits = {1, 2}
    MaxLog = 2
    MaxHours = 1
    MaxCrashes = 1
    MaxFailures = 1
INVARIANTS TypeOK NothingLostSilently ProposedIsProven RateHeld
CHECK_DEADLOCK FALSE
PROPERTIES CountsFailedActions EveryFailureArrives EligibleIsProposed
