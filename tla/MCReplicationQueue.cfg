\* Safety, refinement and liveness of the queue: one segment for the two
\* replicas (a claimed batch of two jobs), a crash and a failed queue call.
\* Liveness is asked of the behaviours without the crash and the queue
\* error; with either, claimed rows are stranded (see queue_error_stuck).
CONSTANTS
    s1 = s1
    root = root
    replica = replica
    endpoint = endpoint
    bucket = bucket
    None = None
    Segments <- MCOneSegment
    Dests <- MCDests
    MaxRetries <- MCMaxRetries
    Backoff <- MCBackoff
    ClaimLimit = 2
    MaxAttempts = 3
    MaxCrashes = 1
    MaxQueueErrors = 1
SPECIFICATION FairSpec
INVARIANT TypeOK
INVARIANT NoJobLost
PROPERTY AbstractSpec
PROPERTY EventuallyResolvedWithoutFaults
\* run_once finds nothing to claim once every job is resolved: the worker idles.
CHECK_DEADLOCK FALSE
