----------------------------- MODULE RibsArchive -----------------------------
(***************************************************************************)
(* The RIB stream of ArchiveService (src/archive/mod.rs): snapshot_now    *)
(* driven by the scheduler's tick once per RIB bucket (under the          *)
(* last_rib_bucket mutex, which only tick takes) and by control clients   *)
(* (archive_rollover ribs, archive_snapshot_now), with no lock between    *)
(* them.  Each call runs a SegmentWriter (src/archive/writer.rs) over the *)
(* tmp path of its bucket: File::create, finish + fsync, rename to the    *)
(* final path, manifest (hash of whatever the final path holds), enqueue. *)
(*                                                                         *)
(* Files are inodes: `files` maps an inode to its contents, `tmp` and     *)
(* `final` map a bucket to the inode its path names.  Every caller in the *)
(* code passes empty peers and routes, so a snapshot's bytes depend only  *)
(* on its timestamp: the contents of a complete file are TableDump(ts).   *)
(* Empty is a created or truncated file, Torn the overlap of two          *)
(* different snapshots written at offset 0 of one inode.  Records reach  *)
(* the inode when the encoder is finished (one small record, far below    *)
(* the BufWriter and compressor buffers).                                 *)
(***************************************************************************)
EXTENDS Naturals, Sequences, FiniteSets, TLC

CONSTANTS Sched,        \* the scheduler task
          Clients,      \* control-socket client tasks
          RibInterval,  \* cfg.ribs_interval_secs
          MaxTime,      \* the clock stops here
          MaxSnapshots, \* bound on client snapshot requests
          MaxCrashes,   \* bound on process crashes
          MaxFailures,  \* bound on failed filesystem/queue calls
          FlatTmp,      \* segment_paths puts tmp files directly in tmp_root
          Empty, Torn, NoBucket, NoFile

ASSUME /\ RibInterval \in Nat \ {0}
       /\ {MaxTime, MaxSnapshots, MaxCrashes, MaxFailures} \subseteq Nat
       /\ FlatTmp \in BOOLEAN

LOCAL INSTANCE Layout

Procs == {Sched} \cup Clients
Times == 0..MaxTime

\* aligned_epoch(timestamp, ribs_interval_secs)
RibBucket(t) == AlignedEpoch(t, RibInterval)

Buckets == {RibBucket(t) : t \in Times}

\* build_table_dump_v2 with no peers and no routes: one PEER_INDEX_TABLE
\* record for the fixed collector id and view name, whose MRT header
\* carries `snapshot.timestamp as u32` (t itself for 0 <= t < 2^32, the
\* model's range); the bytes are a function of that record.
TableDump(t) == <<"PEER_INDEX_TABLE", t>>

Snapshots == {TableDump(t) : t \in Times}
Contents == Snapshots \cup {Empty, Torn}

VARIABLES now,       \* Utc::now().timestamp()
          up,        \* the process is running
          files,     \* inode -> contents
          tmp,       \* bucket -> inode at its tmp path
          final,     \* bucket -> inode at its final path
          manifest,  \* bucket -> the contents the sidecar's sha256 hashed
          jobs,      \* bucket -> replication rows inserted for its path
          lastRib,   \* *last_rib_bucket
          ribsLast,  \* bucket of *ribs_last (the status of the last snapshot)
          pc,        \* proc -> where its snapshot_now is
          ts,        \* proc -> input.timestamp of its call
          fd,        \* proc -> the inode its SegmentWriter's File refers to
          snaps, crashes, failures

vars == <<now, up, files, tmp, final, manifest, jobs, lastRib, ribsLast, pc,
          ts, fd, snaps, crashes, failures>>

Pc == {"idle", "create", "finish", "rename", "manifest", "enqueue"}

Put(f, k, v) == (k :> v) @@ f
Drop(f, k) == [x \in DOMAIN f \ {k} |-> f[x]]

-----------------------------------------------------------------------------
(* Helpers *)

\* Mutant of Due: last_rib checked only for None (the map dropped).
DueOnlyWhenUnset(t) == lastRib = NoBucket

\* tick: last_rib.map(|v| v != rib_bucket).unwrap_or(true)
Due(t) == lastRib = NoBucket \/ lastRib # RibBucket(t)

\* What the inode holds after a writer flushes snapshot t at offset 0: a
\* created/truncated or identical file gets exactly t; bytes of another
\* snapshot already there are overwritten in full or leave a tail.
Flushed(c, t) == IF c \in {Empty, t} THEN {t} ELSE {t, Torn}

\* cleanup_tmp_root removes regular files directly under tmp_root only.
CleanupTmpRoot == IF FlatTmp THEN <<>> ELSE tmp

Begin(p) ==
    /\ pc' = [pc EXCEPT ![p] = "create"]
    /\ ts' = [ts EXCEPT ![p] = now]

-----------------------------------------------------------------------------
(* Operations *)

Init ==
    /\ now = 0 /\ up = TRUE
    /\ files = <<>> /\ tmp = <<>> /\ final = <<>> /\ manifest = <<>>
    /\ jobs = [b \in Buckets |-> 0]
    /\ lastRib = NoBucket /\ ribsLast = NoBucket
    /\ pc = [p \in Procs |-> "idle"]
    /\ ts = [p \in Procs |-> 0]
    /\ fd = [p \in Procs |-> NoFile]
    /\ snaps = 0 /\ crashes = 0 /\ failures = 0

\* tick, RIB half: with the last_rib_bucket guard held, snapshot_now with
\* timestamp now when the current RIB bucket differs from the last one.
TickRib ==
    /\ up /\ pc[Sched] = "idle"
    /\ Due(now)
    /\ Begin(Sched)
    /\ UNCHANGED <<now, up, files, tmp, final, manifest, jobs, lastRib,
                   ribsLast, fd, snaps, crashes, failures>>

\* archive_rollover ribs / archive_snapshot_now: snapshot_now(now).
Snapshot(p) ==
    /\ up /\ pc[p] = "idle"
    /\ snaps < MaxSnapshots
    /\ snaps' = snaps + 1
    /\ Begin(p)
    /\ UNCHANGED <<now, up, files, tmp, final, manifest, jobs, lastRib,
                   ribsLast, fd, crashes, failures>>

\* SegmentWriter::new: File::create(tmp_path) truncates the inode already
\* at the path, or creates one; build_table_dump_v2 and write_record only
\* fill the encoder's buffers.
Create(p) ==
    LET b == RibBucket(ts[p]) IN
    /\ pc[p] = "create"
    /\ IF b \in DOMAIN tmp
         THEN /\ files' = [files EXCEPT ![tmp[b]] = Empty]
              /\ fd' = [fd EXCEPT ![p] = tmp[b]]
              /\ UNCHANGED tmp
         ELSE /\ files' = Append(files, Empty)
              /\ tmp' = Put(tmp, b, Len(files) + 1)
              /\ fd' = [fd EXCEPT ![p] = Len(files) + 1]
    /\ pc' = [pc EXCEPT ![p] = "finish"]
    /\ UNCHANGED <<now, up, final, manifest, jobs, lastRib, ribsLast, ts,
                   snaps, crashes, failures>>

\* finalize: encoder.finish() writes the buffered bytes through the
\* writer's own File (offset 0), fsync, drop.
Finish(p) ==
    /\ pc[p] = "finish"
    /\ \E c \in Flushed(files[fd[p]], TableDump(ts[p])) :
          files' = [files EXCEPT ![fd[p]] = c]
    /\ fd' = [fd EXCEPT ![p] = NoFile]
    /\ pc' = [pc EXCEPT ![p] = "rename"]
    /\ UNCHANGED <<now, up, tmp, final, manifest, jobs, lastRib, ribsLast, ts,
                   snaps, crashes, failures>>

\* Mutant of Rename: the call goes on to the enqueue without a manifest.
RenameSkippingManifest(p) ==
    LET b == RibBucket(ts[p]) IN
    /\ pc[p] = "rename"
    /\ b \in DOMAIN tmp
    /\ final' = Put(final, b, tmp[b])
    /\ tmp' = Drop(tmp, b)
    /\ pc' = [pc EXCEPT ![p] = "enqueue"]
    /\ UNCHANGED <<now, up, files, manifest, jobs, lastRib, ribsLast, ts, fd,
                   snaps, crashes, failures>>

\* fs::rename(tmp_path, final_path) moves whatever inode the tmp path
\* names now, replacing the final file of the bucket.
Rename(p) ==
    LET b == RibBucket(ts[p]) IN
    /\ pc[p] = "rename"
    /\ b \in DOMAIN tmp
    /\ final' = Put(final, b, tmp[b])
    /\ tmp' = Drop(tmp, b)
    /\ pc' = [pc EXCEPT ![p] = "manifest"]
    /\ UNCHANGED <<now, up, files, manifest, jobs, lastRib, ribsLast, ts, fd,
                   snaps, crashes, failures>>

\* The tmp path is gone (another snapshot renamed it): rename fails with
\* ENOENT and snapshot_now returns the error.
RenameMissing(p) ==
    /\ pc[p] = "rename"
    /\ RibBucket(ts[p]) \notin DOMAIN tmp
    /\ pc' = [pc EXCEPT ![p] = "idle"]
    /\ UNCHANGED <<now, up, files, tmp, final, manifest, jobs, lastRib,
                   ribsLast, ts, fd, snaps, crashes, failures>>

\* SegmentManifest::build hashes the file at final_path; write_sidecar.
WriteManifest(p) ==
    LET b == RibBucket(ts[p]) IN
    /\ pc[p] = "manifest"
    /\ manifest' = Put(manifest, b, files[final[b]])
    /\ pc' = [pc EXCEPT ![p] = "enqueue"]
    /\ UNCHANGED <<now, up, files, tmp, final, jobs, lastRib, ribsLast, ts,
                   fd, snaps, crashes, failures>>

\* Mutant of Enqueue: the status keeps the snapshot's timestamp rather
\* than the bucket its segment covers.
EnqueueRecordingTimestamp(p) ==
    LET b == RibBucket(ts[p]) IN
    /\ pc[p] = "enqueue"
    /\ jobs' = [jobs EXCEPT ![b] = @ + 1]
    /\ ribsLast' = ts[p]
    /\ lastRib' = IF p = Sched THEN b ELSE lastRib
    /\ pc' = [pc EXCEPT ![p] = "idle"]
    /\ UNCHANGED <<now, up, files, tmp, final, manifest, ts, fd, snaps,
                   crashes, failures>>

\* enqueue_segment (one async replica), *ribs_last = Some(finalized), and
\* back in tick *last_rib = Some(rib_bucket).
Enqueue(p) ==
    LET b == RibBucket(ts[p]) IN
    /\ pc[p] = "enqueue"
    /\ jobs' = [jobs EXCEPT ![b] = @ + 1]
    /\ ribsLast' = b
    /\ lastRib' = IF p = Sched THEN b ELSE lastRib
    /\ pc' = [pc EXCEPT ![p] = "idle"]
    /\ UNCHANGED <<now, up, files, tmp, final, manifest, ts, fd, snaps,
                   crashes, failures>>

\* A `?` on a failed step (create, finish/fsync, rename, hash/manifest
\* write, queue insert): the writer is dropped, the error returned, and
\* tick leaves last_rib_bucket as it was.
Fail(p) ==
    /\ pc[p] \in {"create", "finish", "rename", "manifest", "enqueue"}
    /\ failures < MaxFailures
    /\ failures' = failures + 1
    /\ pc' = [pc EXCEPT ![p] = "idle"]
    /\ fd' = [fd EXCEPT ![p] = NoFile]
    /\ UNCHANGED <<now, up, files, tmp, final, manifest, jobs, lastRib,
                   ribsLast, ts, snaps, crashes>>

\* The process dies: calls, last_rib_bucket and ribs_last are lost, the
\* files, manifests and queue rows stay.
Crash ==
    /\ up /\ crashes < MaxCrashes
    /\ crashes' = crashes + 1
    /\ up' = FALSE
    /\ pc' = [p \in Procs |-> "idle"]
    /\ fd' = [p \in Procs |-> NoFile]
    /\ lastRib' = NoBucket /\ ribsLast' = NoBucket
    /\ UNCHANGED <<now, files, tmp, final, manifest, jobs, ts, snaps, failures>>

\* ArchiveService::new: cleanup_tmp_root, then the scheduler starts with
\* last_rib_bucket = None.
Restart ==
    /\ ~up
    /\ up' = TRUE
    /\ tmp' = CleanupTmpRoot
    /\ UNCHANGED <<now, files, final, manifest, jobs, lastRib, ribsLast, pc,
                   ts, fd, snaps, crashes, failures>>

Advance ==
    /\ now < MaxTime
    /\ now' = now + 1
    /\ UNCHANGED <<up, files, tmp, final, manifest, jobs, lastRib, ribsLast,
                   pc, ts, fd, snaps, crashes, failures>>

Step(p) ==
    \/ Create(p) \/ Finish(p) \/ Rename(p) \/ RenameMissing(p)
    \/ WriteManifest(p) \/ Enqueue(p)

Next ==
    \/ TickRib \/ Advance \/ Crash \/ Restart
    \/ \E p \in Clients : Snapshot(p)
    \/ \E p \in Procs : Step(p) \/ Fail(p)

\* Nothing in snapshot_now waits on another task, a task inside a call
\* keeps being polled, the 5 s interval keeps firing, time moves on.
Fairness ==
    /\ \A p \in Procs : WF_vars(Step(p))
    /\ WF_vars(TickRib) /\ WF_vars(Advance)

Spec == Init /\ [][Next]_vars
FairSpec == Spec /\ Fairness
-----------------------------------------------------------------------------
(* Properties *)

TypeOK ==
    /\ now \in Times /\ up \in BOOLEAN
    /\ files \in Seq(Contents)
    /\ DOMAIN tmp \subseteq Buckets /\ DOMAIN final \subseteq Buckets
    /\ \A b \in DOMAIN tmp : tmp[b] \in 1..Len(files)
    /\ \A b \in DOMAIN final : final[b] \in 1..Len(files)
    /\ DOMAIN manifest \subseteq DOMAIN final
    /\ \A b \in DOMAIN manifest : manifest[b] \in Contents
    /\ jobs \in [Buckets -> Nat]
    /\ lastRib \in Buckets \cup {NoBucket} /\ ribsLast \in Buckets \cup {NoBucket}
    /\ pc \in [Procs -> Pc] /\ ts \in [Procs -> Times]
    /\ fd \in [Procs -> 1..Len(files) \cup {NoFile}]

\* Spec 8 property 1 on aligned_epoch, which every RIB path goes through:
\* for timestamps on both sides of the epoch (the code takes i64 and
\* Euclidean remainder) and every interval up to RibInterval + 1, the
\* aligned start is a multiple of the interval at most one interval back
\* (timestamps up to the current clock).
AlignedEpochSound ==
    AlignedInBucket(-(2 * RibInterval + 1)..now, 1..(RibInterval + 1))

\* No call of snapshot_now is between its rename and its manifest write
\* for bucket b (the window in which the sidecar is expected to lag).
Settled(b) == ~\E p \in Procs : pc[p] = "manifest" /\ RibBucket(ts[p]) = b

\* Spec 3 and 4.3: a final RIB segment is a complete snapshot, and once
\* the call that renamed it has written its sidecar, the manifest's
\* sha256 is the hash of the bytes at the final path (the replicator
\* copies both and a consumer verifies one against the other).
ManifestMatchesSegment ==
    \A b \in DOMAIN final :
        /\ files[final[b]] \in Snapshots
        /\ b \in DOMAIN manifest /\ Settled(b) => manifest[b] = files[final[b]]

\* A replication job for a RIB segment is inserted only after its
\* manifest exists: process_job reads the manifest before copying
\* (finalize orders rename, manifest, then snapshot_now enqueues).
RibJobsHaveManifest ==
    \A b \in Buckets : jobs[b] > 0 => b \in DOMAIN manifest

\* Spec 4.3: the scheduler takes a RIB snapshot per RIB bucket: while the
\* clock stays in a bucket, tick retries after a failed snapshot_now
\* (last_rib_bucket is set only on success) until the bucket has a final
\* segment, whatever the control clients do meanwhile.
EventuallySnapshotted ==
    \A b \in Buckets : <>[](up /\ RibBucket(now) = b) => <>(b \in DOMAIN final)
=============================================================================
