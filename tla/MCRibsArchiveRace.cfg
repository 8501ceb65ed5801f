\* A scheduled snapshot and a client snapshot of the same RIB bucket share
\* one tmp path with no lock between them.
CONSTANTS
    Sched = Sched
    c1 = c1
    Empty = Empty
    Torn = Torn
    NoBucket = NoBucket
    NoFile = NoFile
    RibInterval = 2
    MaxTime = 3
    FlatTmp = FALSE
    Clients <- MCClients
    MaxSnapshots = 1
    MaxCrashes = 0
    MaxFailures = 0
SPECIFICATION Spec
CHECK_DEADLOCK FALSE
INVARIANT ManifestMatchesSegment
