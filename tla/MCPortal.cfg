SPECIFICATION Spec
CONSTANTS
    Threads = {t1, t2}
    Products <- MCProducts
    Deployed <- MCDeployed
    Tabs = {1, 2}
    MaxListed = 1
    MaxRequests = 4
    MaxMishaps = 1
SYMMETRY Symmetry
INVARIANTS TypeOK VerdictIsExact AlarmIsTrue RecordsAgree DefectIsReported OneChart
PROPERTIES RestrictedChangesNothing
CHECK_DEADLOCK FALSE
