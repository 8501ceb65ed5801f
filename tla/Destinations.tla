---------------------------- MODULE Destinations ----------------------------
(***************************************************************************)
(* The [[archive.destinations]] of the configuration (config/mod.rs,      *)
(* ArchiveDestinationConfig) and what the replicator makes of them        *)
(* (archive/replicator.rs): Replicator::new keys them by destination_key  *)
(* in a HashMap, and enqueue_segment enqueues one job per async_replica   *)
(* value of that map, with its max_retries.                               *)
(*                                                                         *)
(* A destination is a record; a field the TOML leaves out is None.  Paths,*)
(* endpoints and buckets are model values: destination_key only joins    *)
(* them, so two keys are equal exactly when their parts are.              *)
(***************************************************************************)
EXTENDS Naturals, Sequences, SequencesExt, TLC

CONSTANT None

\* DestinationType and DestinationMode (serde snake_case)
DestinationTypes == {"local", "s3"}
DestinationModes == {"primary", "async_replica"}

\* ArchiveDestinationConfig, with the fields the replicator reads (region,
\* credentials and upload_concurrency only configure the S3 client);
\* Paths, Endpoints and Buckets are the values the TOML may give.
DestinationConfig(Paths, Endpoints, Buckets, Retries, Backoffs) ==
    [type : DestinationTypes, mode : DestinationModes,
     path : Paths \cup {None}, endpoint : Endpoints \cup {None},
     bucket : Buckets \cup {None}, maxRetries : Retries \cup {None},
     backoff : Backoffs \cup {None}]

\* ArchiveDestinationConfig::validate: local needs a path, s3 an endpoint
\* and a bucket.
DestinationValid(d) ==
    IF d.type = "local" THEN d.path # None
                        ELSE d.endpoint # None /\ d.bucket # None

\* retry_backoff_secs(): unwrap_or(5)
RetryBackoffSecs(d) == IF d.backoff = None THEN 5 ELSE d.backoff

\* max_retries(): unwrap_or(0), 0 meaning no limit
MaxRetriesOf(d) == IF d.maxRetries = None THEN 0 ELSE d.maxRetries

\* destination_key(): "local:{path}" or "s3:{endpoint}:{bucket}"; the
\* mode, the prefix and the retry settings are not part of it.
DestinationKey(d) ==
    IF d.type = "local" THEN <<"local", d.path>>
                        ELSE <<"s3", d.endpoint, d.bucket>>

\* Replicator::new: cfg.destinations mapped to (destination_key, d) and
\* collected into a HashMap, where a later entry replaces an earlier one
\* with the same key.
ReplicatorDestinations(ds) ==
    FoldLeft(LAMBDA m, d : (DestinationKey(d) :> d) @@ m, <<>>, ds)

\* enqueue_segment: the keys of the map's async_replica values, one job
\* each (the primary is the local archive and gets no job).
ReplicaKeys(ds) ==
    LET m == ReplicatorDestinations(ds) IN
    {k \in DOMAIN m : m[k].mode = "async_replica"}

\* The max_retries enqueue stores in the job row of a key.
JobMaxRetries(ds, k) == MaxRetriesOf(ReplicatorDestinations(ds)[k])

\* The retry_backoff_secs process_job's failure path reads for a key.
JobBackoff(ds, k) == RetryBackoffSecs(ReplicatorDestinations(ds)[k])

=============================================================================
