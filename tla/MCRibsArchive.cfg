\* The RIB stream with the scheduler, one control client, a crash and a
\* failed call: safety, and a snapshot per RIB bucket while the process is
\* up.  The clock stops at MaxTime, where the real scheduler would idle
\* until the next bucket.
CONSTANTS
    Sched = Sched
    c1 = c1
    Empty = Empty
    Torn = Torn
    NoBucket = NoBucket
    NoFile = NoFile
    RibInterval = 2
    MaxTime = 3
    FlatTmp = FALSE
    Clients <- MCClients
    MaxSnapshots = 1
    MaxCrashes = 1
    MaxFailures = 1
SPECIFICATION FairSpec
CHECK_DEADLOCK FALSE
INVARIANT TypeOK
INVARIANT RibJobsHaveManifest
PROPERTY EventuallySnapshotted
INVARIANT AlignedEpochSound
