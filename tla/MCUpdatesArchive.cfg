\* The updates stream with the scheduler, one ingest_update caller and one
\* control client, a crash, a failed call and a rollover: safety, and the
\* scheduler keeps a writer for the current bucket under the fairness of
\* tokio Mutex and the interval timer (a crashed daemon may stay down).
CONSTANTS
    Sched = Sched
    NoProc = NoProc
    NoWriter = NoWriter
    f1 = f1
    f2 = f2
    c1 = c1
    Feeders <- MCFeeders
    Clients <- MCClients
    Interval = 2
    MaxTime = 3
    MaxRecords = 1
    MaxCrashes = 1
    MaxFailures = 1
    MaxRollovers = 1
    FlatTmp = FALSE

SPECIFICATION FairSpec
INVARIANT TypeOK
INVARIANT JobsHaveManifest
PROPERTY EventuallyCurrentWriter
