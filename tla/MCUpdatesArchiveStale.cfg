\* A stale timestamp rotates the writer back and re-finalizes a published bucket.
CONSTANTS
    Sched = Sched
    NoProc = NoProc
    NoWriter = NoWriter
    f1 = f1
    f2 = f2
    c1 = c1
    Feeders <- MCFeeders
    Clients <- MCNoClients
    Interval = 2
    MaxTime = 3
    MaxRecords = 2
    MaxCrashes = 0
    MaxFailures = 0
    MaxRollovers = 0
    FlatTmp = FALSE

SPECIFICATION Spec
INVARIANT PublishedRecordsKept
