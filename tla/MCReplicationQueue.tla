------------------------- MODULE MCReplicationQueue -------------------------
(***************************************************************************)
(* Model-checking instance of ReplicationQueue: one segment, and the two  *)
(* async replicas enqueue_segment derives from a configured destination   *)
(* list: one with a retry limit of 2 and one retrying forever.            *)
(***************************************************************************)
EXTENDS ReplicationQueue

CONSTANTS s1, root, replica, endpoint, bucket, None

D == INSTANCE Destinations

\* The [[archive.destinations]] of the checked configuration: the primary
\* local archive, a local async replica with max_retries 2 and
\* retry_backoff_secs 1, and an S3 async replica with neither set.
Dest(type, mode, path, ep, bk, retries, backoff) ==
    [type |-> type, mode |-> mode, path |-> path, endpoint |-> ep,
     bucket |-> bk, maxRetries |-> retries, backoff |-> backoff]
MCConfig ==
    << Dest("local", "primary", root, None, None, None, None),
       Dest("local", "async_replica", replica, None, None, 2, 1),
       Dest("s3", "async_replica", None, endpoint, bucket, None, None) >>

ASSUME /\ MCConfig \in Seq(D!DestinationConfig({root, replica}, {endpoint},
                                                  {bucket}, Nat, Nat))
       /\ \A i \in DOMAIN MCConfig : D!DestinationValid(MCConfig[i])

\* One segment: its two jobs still contend for the worker and share a batch.
MCOneSegment == {s1}
MCDests == D!ReplicaKeys(MCConfig)
MCMaxRetries == [k \in MCDests |-> D!JobMaxRetries(MCConfig, k)]
\* The default backoff of 5 seconds is shortened to BackoffCap: only
\* wait = 0 versus wait > 0 matters to the queue.
BackoffCap == 2
MCBackoff ==
    [k \in MCDests |-> IF D!JobBackoff(MCConfig, k) > BackoffCap
                         THEN BackoffCap ELSE D!JobBackoff(MCConfig, k)]

=============================================================================
