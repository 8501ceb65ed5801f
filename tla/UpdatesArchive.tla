--------------------------- MODULE UpdatesArchive ---------------------------
(***************************************************************************)
(* The updates stream of ArchiveService (src/archive/mod.rs) and the      *)
(* SegmentWriter it drives (src/archive/writer.rs, manifest.rs).          *)
(*                                                                         *)
(* Tasks: the scheduler (tick every 5 s), API callers of ingest_update,   *)
(* and control clients sending archive_rollover for the updates stream.  *)
(* They share the updates_writer slot behind one tokio Mutex (lock).     *)
(* ensure_updates_writer and rotate_updates hold the lock across the      *)
(* whole finalize (rename, manifest, enqueue) and the open; ingest_update *)
(* releases it between ensure_updates_writer and write_record.            *)
(*                                                                         *)
(* Time is the wall clock `now`; Bucket is aligned_epoch.  A record is    *)
(* <<id, bucket of its timestamp>>.  Files on disk survive a crash: the   *)
(* tmp files (tmp), the final segments (final: bucket -> records), the    *)
(* manifests (manifest: bucket -> what was hashed and the count) and the *)
(* replication jobs (jobs: bucket -> rows inserted for that path, one     *)
(* async replica).  The writer, the lock and every task's locals do not.  *)
(***************************************************************************)
EXTENDS Naturals, Sequences, SequencesExt, FiniteSets

CONSTANTS Sched,        \* the scheduler task spawned by ArchiveService::new
          Feeders,      \* tasks calling ingest_update
          Clients,      \* control-socket client tasks (rollover Updates)
          Interval,     \* cfg.updates_interval_secs
          MaxTime,      \* the clock stops here
          MaxRecords,   \* bound on ingest_update calls
          MaxCrashes,   \* bound on process crashes
          MaxFailures,  \* bound on failed filesystem/queue calls
          MaxRollovers, \* bound on archive_rollover commands
          FlatTmp,      \* segment_paths puts tmp files directly in tmp_root
          NoProc, NoWriter

ASSUME /\ Interval \in Nat \ {0}
       /\ {MaxTime, MaxRecords, MaxCrashes, MaxFailures, MaxRollovers} \subseteq Nat
       /\ FlatTmp \in BOOLEAN

LOCAL INSTANCE Layout

Procs == {Sched} \cup Feeders \cup Clients
Times == 0..MaxTime

\* aligned_epoch(timestamp, updates_interval_secs)
Bucket(t) == AlignedEpoch(t, Interval)

Buckets == {Bucket(t) : t \in Times}
Recs == (1..MaxRecords) \X Buckets

VARIABLES now,       \* Utc::now().timestamp()
          phase,     \* "starting" (inside ArchiveService::new), "running", "down"
          lock,      \* holder of the updates_writer mutex
          writer,    \* *updates_writer: NoWriter or [start, recs]
          tmp,       \* buckets whose tmp file exists on disk
          final,     \* bucket -> records of the final segment file
          manifest,  \* bucket -> [content, count] of the .json sidecar
          jobs,      \* bucket -> replication rows inserted for its path
          pc,        \* proc -> where the task is in its call
          ts,        \* proc -> the timestamp its call passed to ensure
          cont,      \* proc -> where ensure_updates_writer returns to
          held,      \* proc -> the writer it took out of the slot
          resume,    \* proc -> what follows the enqueue: "open" or "ensure"
          rec,       \* proc -> the record id its ingest_update carries
          nextRec,   \* record ids handed out so far + 1
          finalized, \* history: bucket -> finalize() calls that returned Ok
          published, \* history: records ever present in a final file
          crashes, failures, rollovers

vars == <<now, phase, lock, writer, tmp, final, manifest, jobs, pc, ts, cont,
          held, resume, rec, nextRec, finalized, published, crashes, failures,
          rollovers>>

Writer == [start : Buckets, recs : Seq(Recs)]
Pc == {"idle", "ensure", "rotate", "rename", "manifest", "enqueue", "open",
       "encode", "write", "started"}

-----------------------------------------------------------------------------
(* Helpers *)

\* f with key k set to v (a file created or replaced at path k)
Put(f, k, v) == (k :> v) @@ f

\* Mutant of NeedsRotate: only an empty slot triggers a rotation.
NeedsRotateOnlyWhenEmpty(t) == writer = NoWriter

\* ensure_updates_writer: needs_rotate = writer is None or covers another bucket
NeedsRotate(t) == writer = NoWriter \/ writer.start # Bucket(t)

\* Mutant of OpenWriter: start_ts is the raw timestamp, not aligned_epoch.
OpenWriterUnaligned(t) ==
    /\ writer' = [start |-> t, recs |-> <<>>]
    /\ tmp' = tmp \cup {Bucket(t)}

\* SegmentWriter::new: create_dir_all, File::create (truncating), encoder
OpenWriter(t) ==
    /\ writer' = [start |-> Bucket(t), recs |-> <<>>]
    /\ tmp' = tmp \cup {Bucket(t)}

\* cleanup_tmp_root: remove the regular files directly under tmp_root; the
\* directories segment_paths creates there (and their files) are kept.
CleanupTmpRoot == IF FlatTmp THEN {} ELSE tmp

\* a step that returns to the caller of the current call
Return(p, to) == pc' = [pc EXCEPT ![p] = to]

-----------------------------------------------------------------------------
(* Operations *)

Init ==
    /\ now = 0
    /\ phase = "starting"
    /\ lock = NoProc
    /\ writer = NoWriter
    /\ tmp = {}
    /\ final = <<>> /\ manifest = <<>>
    /\ jobs = [b \in Buckets |-> 0]
    \* ArchiveService::new runs ensure_updates_writer(now) before spawning
    /\ pc = [p \in Procs |-> IF p = Sched THEN "ensure" ELSE "idle"]
    /\ ts = [p \in Procs |-> 0]
    /\ cont = [p \in Procs |-> "started"]
    /\ held = [p \in Procs |-> NoWriter]
    /\ resume = [p \in Procs |-> "open"]
    /\ rec = [p \in Procs |-> 0]
    /\ nextRec = 1
    /\ finalized = [b \in Buckets |-> 0]
    /\ published = {}
    /\ crashes = 0 /\ failures = 0 /\ rollovers = 0

\* The scheduler's interval fires: tick() calls ensure_updates_writer(now).
Tick ==
    /\ phase = "running"
    /\ pc[Sched] = "idle"
    /\ pc' = [pc EXCEPT ![Sched] = "ensure"]
    /\ ts' = [ts EXCEPT ![Sched] = now]
    /\ cont' = [cont EXCEPT ![Sched] = "idle"]
    /\ UNCHANGED <<now, phase, lock, writer, tmp, final, manifest, jobs, held,
                   resume, rec, nextRec, finalized, published,
                   crashes, failures, rollovers>>

\* ingest_update(update) with update.timestamp = now: first
\* ensure_updates_writer(update.timestamp), then encode, then write.
Ingest(p) ==
    /\ phase = "running"
    /\ pc[p] = "idle"
    /\ nextRec <= MaxRecords
    /\ pc' = [pc EXCEPT ![p] = "ensure"]
    /\ ts' = [ts EXCEPT ![p] = now]
    /\ cont' = [cont EXCEPT ![p] = "encode"]
    /\ rec' = [rec EXCEPT ![p] = nextRec]
    /\ nextRec' = nextRec + 1
    /\ UNCHANGED <<now, phase, lock, writer, tmp, final, manifest, jobs, held,
                   resume, finalized, published,
                   crashes, failures, rollovers>>

\* ingest_peer_state (include_peer_state_records, on by default): the same
\* ensure, encode (encode_bgp4mp_state_change_as4 rejects an unknown FSM
\* state) and write as ingest_update, with a state-change record.
IngestPeerState(p) == Ingest(p)

\* rollover(Updates) -> rotate_updates(now): lock, take, finalize, enqueue,
\* unlock, then ensure_updates_writer(now).
Rollover(p) ==
    /\ phase = "running"
    /\ pc[p] = "idle"
    /\ rollovers < MaxRollovers
    /\ rollovers' = rollovers + 1
    /\ pc' = [pc EXCEPT ![p] = "rotate"]
    /\ ts' = [ts EXCEPT ![p] = now]
    /\ cont' = [cont EXCEPT ![p] = "idle"]
    /\ UNCHANGED <<now, phase, lock, writer, tmp, final, manifest, jobs, held,
                   resume, rec, nextRec, finalized, published, crashes, failures>>

\* ensure_updates_writer: lock; if no rotation is needed, unlock and
\* return; with no writer, go on to open one; otherwise take the old writer and
\* finalize it with the lock held.
EnsureLock(p) ==
    /\ pc[p] = "ensure"
    /\ lock = NoProc
    /\ \/ /\ ~NeedsRotate(ts[p])
          /\ Return(p, cont[p])
          /\ UNCHANGED <<writer, tmp, lock, held, resume>>
       \/ /\ writer = NoWriter
          /\ lock' = p
          /\ pc' = [pc EXCEPT ![p] = "open"]
          /\ UNCHANGED <<writer, tmp, held, resume>>
       \/ /\ writer # NoWriter /\ NeedsRotate(ts[p])
          /\ lock' = p
          /\ held' = [held EXCEPT ![p] = writer]
          /\ writer' = NoWriter
          /\ resume' = [resume EXCEPT ![p] = "open"]
          /\ pc' = [pc EXCEPT ![p] = "rename"]
          /\ UNCHANGED tmp
    /\ UNCHANGED <<now, phase, final, manifest, jobs, ts, cont, rec, nextRec,
                   finalized, published,
                   crashes, failures, rollovers>>

\* rotate_updates: lock; take the writer if there is one.
RotateLock(p) ==
    /\ pc[p] = "rotate"
    /\ lock = NoProc
    /\ \/ /\ writer = NoWriter
          /\ pc' = [pc EXCEPT ![p] = "ensure"]
          /\ UNCHANGED <<lock, held, writer, resume>>
       \/ /\ writer # NoWriter
          /\ lock' = p
          /\ held' = [held EXCEPT ![p] = writer]
          /\ writer' = NoWriter
          /\ resume' = [resume EXCEPT ![p] = "ensure"]
          /\ pc' = [pc EXCEPT ![p] = "rename"]
    /\ UNCHANGED <<now, phase, tmp, final, manifest, jobs, ts, cont, rec,
                   nextRec, finalized, published,
                   crashes, failures, rollovers>>

\* Mutant of Rename: finalize returns before the manifest is written.
RenameSkippingManifest(p) ==
    /\ pc[p] = "rename"
    /\ LET b == held[p].start
       IN  /\ final' = Put(final, b, held[p].recs)
           /\ tmp' = tmp \ {b}
    /\ published' = published \cup ToSet(held[p].recs)
    /\ pc' = [pc EXCEPT ![p] = "enqueue"]
    /\ UNCHANGED <<now, phase, lock, writer, manifest, jobs, ts, cont, held,
                   resume, rec, nextRec, finalized,
                   crashes, failures, rollovers>>

\* SegmentWriter::finalize, first half: finish the compression stream,
\* fsync if configured, drop the file, rename tmp -> final (replacing a
\* final file already at that path).
Rename(p) ==
    /\ pc[p] = "rename"
    /\ LET b == held[p].start
       IN  /\ final' = Put(final, b, held[p].recs)
           /\ tmp' = tmp \ {b}
    /\ published' = published \cup ToSet(held[p].recs)
    /\ pc' = [pc EXCEPT ![p] = "manifest"]
    /\ UNCHANGED <<now, phase, lock, writer, manifest, jobs, ts, cont, held,
                   resume, rec, nextRec, finalized,
                   crashes, failures, rollovers>>

\* SegmentWriter::finalize, second half: SegmentManifest::build hashes the
\* file now at final_path, write_sidecar writes <final>.json; finalize
\* returns Ok with the writer's record_count.
WriteManifest(p) ==
    /\ pc[p] = "manifest"
    /\ LET b == held[p].start
       IN  /\ manifest' = Put(manifest, b, [content |-> final[b],
                                             count |-> Len(held[p].recs)])
           /\ finalized' = [finalized EXCEPT ![b] = @ + 1]
    /\ pc' = [pc EXCEPT ![p] = "enqueue"]
    /\ UNCHANGED <<now, phase, lock, writer, tmp, final, jobs, ts, cont, held,
                   resume, rec, nextRec, published,
                   crashes, failures, rollovers>>

\* replicator.enqueue_segment(&finalized): one row per async replica.  In
\* ensure_updates_writer the open follows with the lock held; in
\* rotate_updates the guard is dropped and ensure_updates_writer(now) runs.
EnqueueJobs(p) ==
    /\ pc[p] = "enqueue"
    /\ jobs' = [jobs EXCEPT ![held[p].start] = @ + 1]
    /\ held' = [held EXCEPT ![p] = NoWriter]
    /\ IF resume[p] = "open"
       THEN pc' = [pc EXCEPT ![p] = "open"] /\ UNCHANGED lock
       ELSE pc' = [pc EXCEPT ![p] = "ensure"] /\ lock' = NoProc
    /\ UNCHANGED <<now, phase, writer, tmp, final, manifest, ts, cont, resume,
                   rec, nextRec, finalized, published,
                   crashes, failures, rollovers>>

\* ensure_updates_writer after the finalize: segment_paths(now_ts),
\* SegmentWriter::new for the bucket of now_ts, install it, unlock.
Open(p) ==
    /\ pc[p] = "open"
    /\ OpenWriter(ts[p])
    /\ lock' = NoProc
    /\ Return(p, cont[p])
    /\ UNCHANGED <<now, phase, final, manifest, jobs, ts, cont, held, resume,
                   rec, nextRec, finalized, published,
                   crashes, failures, rollovers>>

\* ingest_update: encode_bgp4mp_message_as4 parses the BGP message; an
\* invalid one returns Err after the writer was already ensured.
Encode(p) ==
    /\ pc[p] = "encode"
    /\ \/ pc' = [pc EXCEPT ![p] = "write"]
       \/ pc' = [pc EXCEPT ![p] = "idle"]
    /\ UNCHANGED <<now, phase, lock, writer, tmp, final, manifest, jobs, ts,
                   cont, held, resume, rec, nextRec, finalized, published,
                   crashes, failures, rollovers>>

\* ingest_update: lock; "updates writer not initialized" if the slot is
\* empty, else write_record into whatever writer is there; unlock.
Write(p) ==
    /\ pc[p] = "write"
    /\ lock = NoProc
    /\ IF writer = NoWriter
       THEN UNCHANGED writer
       ELSE writer' = [writer EXCEPT !.recs = Append(@, <<rec[p], Bucket(ts[p])>>)]
    /\ pc' = [pc EXCEPT ![p] = "idle"]
    /\ UNCHANGED <<now, phase, lock, tmp, final, manifest, jobs, ts, cont, held,
                   resume, rec, nextRec, finalized, published,
                   crashes, failures, rollovers>>

\* A `?` on a failed step: finish/rename, hash/manifest write, the queue
\* insert, segment_paths/SegmentWriter::new, or write_record.  The taken
\* writer is dropped (its tmp file stays), the guard is released, and
\* the error is returned; inside ArchiveService::new it aborts startup.
Fail(p) ==
    /\ pc[p] \in {"rename", "manifest", "enqueue", "open", "write"}
    /\ failures < MaxFailures
    /\ failures' = failures + 1
    /\ lock' = IF lock = p THEN NoProc ELSE lock
    /\ held' = [held EXCEPT ![p] = NoWriter]
    /\ pc' = [pc EXCEPT ![p] = "idle"]
    /\ phase' = IF phase = "starting" THEN "down" ELSE phase
    /\ UNCHANGED <<now, writer, tmp, final, manifest, jobs, ts, cont, resume,
                   rec, nextRec, finalized, published, crashes, rollovers>>

\* ArchiveService::new returns after its ensure_updates_writer and
\* spawn_background_tasks starts the scheduler.
Started ==
    /\ pc[Sched] = "started"
    /\ phase' = "running"
    /\ pc' = [pc EXCEPT ![Sched] = "idle"]
    /\ UNCHANGED <<now, lock, writer, tmp, final, manifest, jobs, ts, cont,
                   held, resume, rec, nextRec, finalized, published, crashes,
                   failures, rollovers>>

\* The process dies: the writer slot, the lock and every task's call are
\* gone (buffered records with them); files and queue rows stay.
Crash ==
    /\ phase # "down"
    /\ crashes < MaxCrashes
    /\ crashes' = crashes + 1
    /\ phase' = "down"
    /\ lock' = NoProc
    /\ writer' = NoWriter
    /\ pc' = [p \in Procs |-> "idle"]
    /\ held' = [p \in Procs |-> NoWriter]
    /\ UNCHANGED <<now, tmp, final, manifest, jobs, ts, cont, resume, rec,
                   nextRec, finalized, published, failures, rollovers>>

\* ArchiveService::new: cleanup_tmp_root removes the regular files directly
\* under tmp_root (tmp segments live there only with a flat layout), then
\* ensure_updates_writer(now) with an empty slot.
Restart ==
    /\ phase = "down"
    /\ phase' = "starting"
    /\ tmp' = CleanupTmpRoot
    /\ pc' = [pc EXCEPT ![Sched] = "ensure"]
    /\ ts' = [ts EXCEPT ![Sched] = now]
    /\ cont' = [cont EXCEPT ![Sched] = "started"]
    /\ UNCHANGED <<now, lock, writer, final, manifest, jobs, held, resume, rec,
                   nextRec, finalized, published,
                   crashes, failures, rollovers>>

\* One second of wall-clock time.
Advance ==
    /\ now < MaxTime
    /\ now' = now + 1
    /\ UNCHANGED <<phase, lock, writer, tmp, final, manifest, jobs, pc, ts,
                   cont, held, resume, rec, nextRec, finalized, published,
                   crashes, failures, rollovers>>

\* The steps of a call in progress.
Step(p) ==
    \/ EnsureLock(p) \/ RotateLock(p) \/ Rename(p) \/ WriteManifest(p)
    \/ EnqueueJobs(p) \/ Open(p) \/ Encode(p) \/ Write(p)

Next ==
    \/ Tick \/ Started \/ Advance \/ Crash \/ Restart
    \/ \E p \in Feeders : Ingest(p) \/ IngestPeerState(p)
    \/ \E p \in Clients : Rollover(p)
    \/ \E p \in Procs : Step(p) \/ Fail(p)

\* tokio's Mutex is fair (FIFO), a task inside a call keeps being polled,
\* the interval timer keeps firing and the clock keeps moving.
Fairness ==
    /\ \A p \in Procs : SF_vars(Step(p))
    /\ WF_vars(Tick) /\ WF_vars(Started) /\ WF_vars(Advance)

Spec == Init /\ [][Next]_vars
FairSpec == Spec /\ Fairness

-----------------------------------------------------------------------------
(* Properties *)

TypeOK ==
    /\ now \in Times
    /\ phase \in {"starting", "running", "down"}
    /\ lock \in Procs \cup {NoProc}
    /\ writer \in Writer \cup {NoWriter}
    /\ tmp \subseteq Buckets
    /\ DOMAIN final \subseteq Buckets /\ \A b \in DOMAIN final : final[b] \in Seq(Recs)
    /\ DOMAIN manifest \subseteq DOMAIN final
    /\ jobs \in [Buckets -> Nat] /\ finalized \in [Buckets -> Nat]
    /\ pc \in [Procs -> Pc]
    /\ held \in [Procs -> Writer \cup {NoWriter}]
    /\ published \subseteq Recs

\* Spec 4.6: ingest_update "ensures the Updates writer covers the update's
\* bucket" and appends there: a final segment holds only records whose
\* timestamp falls in the segment's bucket.
RecordInOwnBucket ==
    \A b \in DOMAIN final : \A k \in 1..Len(final[b]) : final[b][k][2] = b

\* A record, once published in a final segment, stays in the archive: no
\* later finalize renames another file over it (spec 3: one segment per
\* bucket; S1 expects the rolled-over segment to be the bucket's file).
PublishedRecordsKept ==
    \A r \in published : \E b \in DOMAIN final : r \in ToSet(final[b])

\* Spec 3: every finalized segment has exactly one replication job per
\* async replica (finalize Ok, then enqueue_segment); a task between the
\* two steps accounts for the one it is about to insert.
OneJobPerFinalized ==
    \A b \in Buckets :
        jobs[b] + Cardinality({p \in Procs : pc[p] = "enqueue" /\ held[p].start = b})
            = finalized[b]

\* A replication job is only inserted for a path whose segment has been
\* renamed into place and whose manifest is written: process_job reads
\* the manifest first and copies final_path (finalize orders rename,
\* manifest, then enqueue_segment).
JobsHaveManifest ==
    \A b \in Buckets : jobs[b] > 0 => b \in DOMAIN manifest

\* The scheduler keeps the archive writing: whatever crashed or failed
\* before, the updates slot eventually holds a writer for the current
\* bucket again (spec 7: the next tick opens a new writer), unless
\* ArchiveService::new itself failed and the daemon exited.
WriterCurrent == writer # NoWriter /\ writer.start = Bucket(now)

EventuallyCurrentWriter == []<>(WriterCurrent \/ phase = "down")
=============================================================================
