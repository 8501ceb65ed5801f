\* A failed mark_success/mark_failed ends run_once with the rest of the
\* batch in_progress: are those jobs still eventually resolved?
CONSTANTS
    s1 = s1
    root = root
    replica = replica
    endpoint = endpoint
    bucket = bucket
    None = None
    Segments <- MCOneSegment
    Dests <- MCDests
    MaxRetries <- MCMaxRetries
    Backoff <- MCBackoff
    ClaimLimit = 2
    MaxAttempts = 2
    MaxCrashes = 0
    MaxQueueErrors = 1
SPECIFICATION FairSpec
PROPERTY EventuallyResolved
CHECK_DEADLOCK FALSE
