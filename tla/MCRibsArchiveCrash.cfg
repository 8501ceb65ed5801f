\* The scheduler alone: after a restart last_rib_bucket is None and the
\* bucket's published segment is snapshotted again, then the process dies.
CONSTANTS
    Sched = Sched
    c1 = c1
    Empty = Empty
    Torn = Torn
    NoBucket = NoBucket
    NoFile = NoFile
    RibInterval = 2
    MaxTime = 3
    FlatTmp = FALSE
    Clients <- MCNoClients
    MaxSnapshots = 0
    MaxCrashes = 2
    MaxFailures = 0
SPECIFICATION Spec
CHECK_DEADLOCK FALSE
INVARIANT ManifestMatchesSegment
