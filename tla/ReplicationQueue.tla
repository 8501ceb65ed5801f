-------------------------- MODULE ReplicationQueue --------------------------
(***************************************************************************)
(* The durable replication queue (src/archive/queue.rs) and the single    *)
(* replicator worker that drains it (src/archive/replicator.rs).          *)
(*                                                                         *)
(* rows is the replication_queue table: it survives crashes.  batch is    *)
(* the Vec<ReplicationJob> returned by claim_ready and walked by          *)
(* run_once; it lives in the worker's memory and is lost on a crash.      *)
(* Time is kept per row as wait = next_retry_ts - now (floored at 0), so  *)
(* "next_retry_ts <= now" is wait = 0 and a clock tick lowers every wait. *)
(***************************************************************************)
EXTENDS Naturals, Sequences, SequencesExt, FiniteSets

CONSTANTS Segments,     \* finalized segment paths (model values)
          Dests,        \* async_replica destination keys (model values)
          MaxRetries,   \* [Dests -> Nat]: destination.max_retries(), 0 = no limit
          Backoff,      \* [Dests -> Nat]: destination.retry_backoff_secs()
          ClaimLimit,   \* the limit passed to claim_ready (32 in run_once)
          MaxAttempts,  \* bound on attempts, so MaxRetries = 0 stays finite
          MaxCrashes,   \* bound on process crashes
          MaxQueueErrors \* bound on failed mark_success/mark_failed calls

ASSUME /\ MaxRetries \in [Dests -> Nat]
       /\ Backoff \in [Dests -> Nat]
       /\ ClaimLimit \in Nat \ {0}
       /\ {MaxAttempts, MaxCrashes, MaxQueueErrors} \subseteq Nat

Jobs == Segments \X Dests
Status == {"pending", "in_progress", "failed"}

VARIABLES rows,       \* [id -> row]: the persisted replication_queue table
          nextId,     \* AUTOINCREMENT counter of the table
          batch,      \* jobs claimed by the current run_once, in id order
          marking,    \* process_job returned Ok for Head(batch): mark_success next
          up,         \* the daemon process is running
          copied,     \* jobs whose segment+manifest are at the destination
          failures,   \* Replicator.failures (AtomicU64)
          enqueued,   \* history: jobs ever enqueued
          crashes,    \* number of crashes so far
          qerrors     \* number of queue errors so far

vars == <<rows, nextId, batch, marking, up, copied, failures, enqueued, crashes,
          qerrors>>

Row == [seg : Segments, dest : Dests, attempts : 0..MaxAttempts,
        maxRetries : Nat, wait : Nat, status : Status]

-----------------------------------------------------------------------------
(* Helpers *)

JobOf(r) == <<r.seg, r.dest>>

\* rows without the row id (DELETE ... WHERE id = ?)
Delete(f, id) == [i \in DOMAIN f \ {id} |-> f[i]]

\* WHERE status = 'pending' AND next_retry_ts <= now
Ready == {i \in DOMAIN rows : rows[i].status = "pending" /\ rows[i].wait = 0}

\* ORDER BY id ASC LIMIT limit
FirstIds(S, limit) ==
    LET s == SetToSortSeq(S, <)
    IN  SubSeq(s, 1, IF Len(s) < limit THEN Len(s) ELSE limit)

\* mark_failed: exhausted = max_retries > 0 && attempts + 1 >= max_retries
Exhausted(job) == job.maxRetries > 0 /\ job.attempts + 1 >= job.maxRetries

\* Mutant of MarkFailed: the retry UPDATE forgets status = 'pending'.
MarkFailedKeepsInProgress(job) ==
    [rows EXCEPT ![job.id] =
        IF Exhausted(job)
        THEN [@ EXCEPT !.attempts = job.attempts + 1, !.status = "failed"]
        ELSE [@ EXCEPT !.attempts = job.attempts + 1, !.wait = Backoff[job.dest]]]

\* mark_failed(job, error, backoff): the table after the UPDATE, computed
\* from the claimed snapshot's attempts.
MarkFailed(job) ==
    [rows EXCEPT ![job.id] =
        IF Exhausted(job)
        THEN [@ EXCEPT !.attempts = job.attempts + 1, !.status = "failed"]
        ELSE [@ EXCEPT !.attempts = job.attempts + 1, !.status = "pending",
                       !.wait = Backoff[job.dest]]]

\* Mutant of MarkClaimed: the UPDATE writes a misspelled status literal.
MarkClaimedMisspelled(ids) ==
    [i \in DOMAIN rows |->
        IF i \in ids THEN [rows[i] EXCEPT !.status = "in-progress"] ELSE rows[i]]

\* Mutant of MarkClaimed: claimed rows are deleted (DELETE ... RETURNING).
MarkClaimedDeletes(ids) == [i \in DOMAIN rows \ ids |-> rows[i]]

\* claim_ready's UPDATE ... SET status = 'in_progress' WHERE id = ?
MarkClaimed(ids) ==
    [i \in DOMAIN rows |->
        IF i \in ids THEN [rows[i] EXCEPT !.status = "in_progress"] ELSE rows[i]]

\* claim_ready's SELECT snapshot of one row
Snapshot(i) == [id |-> i, seg |-> rows[i].seg, dest |-> rows[i].dest,
                attempts |-> rows[i].attempts, maxRetries |-> rows[i].maxRetries]

-----------------------------------------------------------------------------
(* Operations *)

Init ==
    /\ rows = <<>>
    /\ nextId = 1
    /\ batch = <<>>
    /\ marking = FALSE
    /\ up = TRUE
    /\ copied = {}
    /\ failures = 0
    /\ enqueued = {}
    /\ crashes = 0
    /\ qerrors = 0

\* enqueue_segment -> queue.enqueue for one async_replica destination:
\* INSERT a pending row with attempts 0 and next_retry_ts = now.
Enqueue(s, d) ==
    /\ up
    /\ <<s, d>> \notin enqueued
    /\ rows' = rows @@ (nextId :> [seg |-> s, dest |-> d, attempts |-> 0,
                                   maxRetries |-> MaxRetries[d], wait |-> 0,
                                   status |-> "pending"])
    /\ nextId' = nextId + 1
    /\ enqueued' = enqueued \cup {<<s, d>>}
    /\ UNCHANGED <<batch, marking, up, copied, failures, crashes, qerrors>>

\* run_once: claim_ready(32) in one transaction: select the ready rows,
\* set them in_progress, return their snapshots.
ClaimReady ==
    /\ up
    /\ batch = <<>>
    /\ Ready # {}
    /\ LET ids == FirstIds(Ready, ClaimLimit)
       IN  /\ batch' = [k \in 1..Len(ids) |-> Snapshot(ids[k])]
           /\ rows' = MarkClaimed(ToSet(ids))
    /\ UNCHANGED <<nextId, marking, up, copied, failures, enqueued, crashes, qerrors>>

\* copy_to_local / copy_to_s3: the segment and then its manifest are put
\* at the destination under the manifest's relative_path (object_key adds
\* the bucket prefix); the pair is what the job delivers.
Upload(job) == copied' = copied \cup {<<job.seg, job.dest>>}

\* process_job returns Ok for the next job of the batch: the segment and
\* then its manifest are at the destination.
Copy ==
    /\ up
    /\ batch # <<>> /\ ~marking
    /\ Upload(Head(batch))
    /\ marking' = TRUE
    /\ UNCHANGED <<rows, nextId, batch, up, failures, enqueued, crashes, qerrors>>

\* Mutant of Deliver: the row is deleted before the copy is made.
DeliverBeforeCopy ==
    /\ up
    /\ batch # <<>> /\ ~marking
    /\ rows' = Delete(rows, Head(batch).id)
    /\ marking' = TRUE
    /\ UNCHANGED <<nextId, batch, up, copied, failures, enqueued, crashes, qerrors>>

\* then mark_success deletes the row, ArchiveReplicationSucceeded is
\* emitted and run_once goes on with the next job.
Deliver ==
    /\ up
    /\ marking
    /\ rows' = Delete(rows, Head(batch).id)
    /\ batch' = Tail(batch) /\ marking' = FALSE
    /\ UNCHANGED <<nextId, up, copied, failures, enqueued, crashes, qerrors>>

\* process_job fails (destination unknown or unreachable, manifest
\* unreadable, copy or upload error): failures += 1, then mark_failed
\* with the snapshot's attempts, then continue with the next job.
FailJob ==
    /\ up
    /\ batch # <<>> /\ ~marking
    /\ Head(batch).attempts < MaxAttempts
    /\ rows' = MarkFailed(Head(batch))
    /\ failures' = failures + 1
    /\ batch' = Tail(batch)
    /\ UNCHANGED <<nextId, marking, up, copied, enqueued, crashes, qerrors>>

\* mark_success (after a copy) or mark_failed (after failures += 1)
\* returns an error: the `?` ends run_once, the job's row and the rest of
\* the batch stay in_progress, and the spawn loop logs the error and runs
\* again two seconds later.
QueueError ==
    /\ up
    /\ batch # <<>>
    /\ qerrors < MaxQueueErrors
    /\ \/ marking /\ UNCHANGED failures
       \/ /\ ~marking /\ Head(batch).attempts < MaxAttempts
          /\ failures' = failures + 1
    /\ batch' = <<>> /\ marking' = FALSE
    /\ qerrors' = qerrors + 1
    /\ UNCHANGED <<rows, nextId, up, copied, enqueued, crashes>>

\* retry_failed: UPDATE ... SET status = 'pending', next_retry_ts = now
\* WHERE status = 'failed' (attempts is left as it is).
RetryFailed ==
    /\ up
    /\ \E i \in DOMAIN rows : rows[i].status = "failed"
    /\ rows' = [i \in DOMAIN rows |->
                  IF rows[i].status = "failed"
                  THEN [rows[i] EXCEPT !.status = "pending", !.wait = 0]
                  ELSE rows[i]]
    /\ UNCHANGED <<nextId, batch, marking, up, copied, failures, enqueued, crashes,
                   qerrors>>

\* The process dies: the claimed batch and the failure counter are lost,
\* the SQLite table is not.
Crash ==
    /\ up
    /\ crashes < MaxCrashes
    /\ up' = FALSE
    /\ batch' = <<>> /\ marking' = FALSE
    /\ failures' = 0
    /\ crashes' = crashes + 1
    /\ UNCHANGED <<rows, nextId, copied, enqueued, qerrors>>

\* ArchiveService::new -> ReplicationQueue::new: CREATE TABLE IF NOT
\* EXISTS; rows left in_progress are not reset.
Restart ==
    /\ ~up
    /\ up' = TRUE
    /\ UNCHANGED <<rows, nextId, batch, marking, copied, failures, enqueued,
                   crashes, qerrors>>

\* One second of wall-clock time passes.
Tick ==
    /\ \E i \in DOMAIN rows : rows[i].wait > 0
    /\ rows' = [i \in DOMAIN rows |->
                  [rows[i] EXCEPT !.wait = IF @ > 0 THEN @ - 1 ELSE 0]]
    /\ UNCHANGED <<nextId, batch, marking, up, copied, failures, enqueued, crashes,
                   qerrors>>

Worker == ClaimReady \/ Copy \/ Deliver \/ FailJob \/ QueueError

Next ==
    \/ \E s \in Segments, d \in Dests : Enqueue(s, d)
    \/ Worker
    \/ RetryFailed
    \/ Crash
    \/ Restart
    \/ Tick

\* The spawn loop calls run_once every two seconds for as long as the
\* process runs, and the clock never stops.
Fairness ==
    /\ WF_vars(ClaimReady)
    /\ WF_vars(Copy \/ FailJob)
    /\ WF_vars(Deliver)
    /\ WF_vars(Restart)
    /\ WF_vars(Tick)

Spec == Init /\ [][Next]_vars
FairSpec == Spec /\ Fairness

-----------------------------------------------------------------------------
(* Properties *)

TypeOK ==
    /\ rows \in [DOMAIN rows -> Row]
    /\ DOMAIN rows \subseteq 1..(nextId - 1)
    /\ batch \in Seq([id : Nat, seg : Segments, dest : Dests,
                      attempts : 0..MaxAttempts, maxRetries : Nat])
    /\ marking \in BOOLEAN /\ (marking => batch # <<>>)
    /\ up \in BOOLEAN
    /\ copied \subseteq Jobs /\ enqueued \subseteq Jobs
    /\ failures \in Nat

\* At-least-once (spec 4.5, "does not guarantee exactly-once"): a job the
\* archive enqueued is never dropped: as long as its bytes are not at the
\* destination, its row is still in the table.  Breaks if a row is deleted
\* on a path where process_job did not copy (mark_success on error, a
\* delete on claim, a crash between delete and copy).
NoJobLost ==
    \A j \in enqueued :
        j \in copied \/ \E i \in DOMAIN rows : JobOf(rows[i]) = j

\* Every enqueued job is eventually resolved: copied with its row gone, or
\* parked as failed for the operator.
Resolved(j) ==
    \/ j \in copied /\ ~\E i \in DOMAIN rows : JobOf(rows[i]) = j
    \/ \E i \in DOMAIN rows : JobOf(rows[i]) = j /\ rows[i].status = "failed"

EventuallyResolved == \A j \in Jobs : j \in enqueued ~> Resolved(j)

\* The same, for the behaviours in which the process never crashes and no
\* mark_* call fails (either strands claimed rows, see the README).
EventuallyResolvedWithoutFaults ==
    [](crashes = 0 /\ qerrors = 0) => EventuallyResolved

\* The queue implements the abstract at-least-once contract.
Abstract == INSTANCE ReplicationSpec WITH
    outstanding <- {JobOf(rows[i]) : i \in {k \in DOMAIN rows :
                                             rows[k].status # "failed"}},
    parked      <- {JobOf(rows[i]) : i \in {k \in DOMAIN rows :
                                             rows[k].status = "failed"}},
    delivered   <- copied

AbstractSpec == Abstract!Spec
=============================================================================
