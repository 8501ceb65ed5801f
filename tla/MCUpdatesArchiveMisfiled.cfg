\* A record lands in another bucket's segment: ensure and write are two lock sections.
CONSTANTS
    Sched = Sched
    NoProc = NoProc
    NoWriter = NoWriter
    f1 = f1
    f2 = f2
    c1 = c1
    Feeders <- MCFeeders
    Clients <- MCNoClients
    Interval = 2
    MaxTime = 3
    MaxRecords = 2
    MaxCrashes = 0
    MaxFailures = 0
    MaxRollovers = 0
    FlatTmp = FALSE

SPECIFICATION Spec
INVARIANT RecordInOwnBucket
