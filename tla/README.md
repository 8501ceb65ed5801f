# TLA+ models of the focl archive subsystem

This directory holds TLA+ specifications of the concurrent and persistent parts of
focl: the MRT archive (`src/src/archive/`), which writes BGP updates and RIB snapshots
to rotating compressed segment files, publishes them with a manifest sidecar, and
replicates them to further destinations through a durable SQLite queue; and one
BGP session of the speaker (`src/src/bgp/mod.rs`). Every
module is translated from the Rust source. `PROJECT.json` maps each definition to
the lines it models, lists the TLC runs, the mutants that show each property can
fail, the findings, and the hazards of the code.

## 1. Inventory of the system

| Part | Source | State | Operations | Concurrency / persistence |
|---|---|---|---|---|
| Layout | `archive/layout.rs` | none (pure) | `aligned_epoch`, `segment_paths`, `build_custom_relative_path` | pure functions |
| MRT encoder | `archive/snapshot.rs` | none (pure) | `encode_bgp4mp_message_as4`, `encode_bgp4mp_state_change_as4`, `build_table_dump_v2` | pure; `timestamp as u32` truncates |
| Segment writer | `archive/writer.rs` | encoder over the tmp file, `record_count` | `new` (create/truncate tmp), `write_record`, `finalize` (finish, fsync, rename tmp→final, manifest) | filesystem; several steps with no atomic unit |
| Manifest | `archive/manifest.rs` | sidecar `<final>.json` | `build` (stat + SHA-256 of the final path), `write_sidecar` | reads the file by path after the rename |
| Replication queue | `archive/queue.rs` | SQLite `replication_queue` table | `enqueue`, `claim_ready`, `mark_success`, `mark_failed`, `retry_failed` | persistent across restarts |
| Replicator | `archive/replicator.rs` | `failures` counter | `enqueue_segment`, `run_once` (every 2 s), `process_job` | one background task |
| Archive service | `archive/mod.rs` | `updates_writer` (async mutex), `ribs_last`, `last_rib_bucket` | `new` (startup, tmp cleanup), `ingest_update`, `ingest_peer_state`, `snapshot_now`, `rollover`, `tick` (every 5 s), `ensure_updates_writer`, `rotate_updates` | called concurrently by BGP sessions, control clients and the scheduler |
| BGP sessions | `bgp/mod.rs`, `bgp/auth.rs` | `peers` map (`RwLock<HashMap<_, PeerRuntime>>`), one task per peer | `start_peers`, `spawn_peer_task`, `peer_loop`, `run_session` (OPEN, KEEPALIVE, announce, keepalive/hold loop), `set_peer_state`, `peer_reset` | one tokio task per peer over a TCP stream; control clients read and reset the map |
| Configuration | `config/mod.rs` | none after load | parse and validate | pure |
| Control socket | `control/mod.rs`, `bin/focl.rs` | none | JSON commands to the daemon | I/O |
| Daemon | `bin/focld.rs` | wiring | starts everything | does not compile as shipped (calls `ArchiveService::event_sender`, which does not exist) |

How the parts interact: spec 2 has each BGP session task call `ingest_update` /
`ingest_peer_state` with the message timestamp (in this source `run_session`
never does: an UPDATE only restarts the hold timer, so the archive models take
the feeders as abstract tasks); the scheduler `tick` calls
`ensure_updates_writer(now)` and, once per RIB bucket, `snapshot_now`; control
clients call `rollover` and `snapshot_now` directly. Rotation finalizes the old
writer (rename tmp→final, write manifest) and enqueues one job per async replica;
the replicator claims jobs and copies the segment and then its manifest.

The hard behaviours are: the updates mutex is released between
`ensure_updates_writer` and the write in `ingest_*`; snapshot writers for one RIB
bucket share one tmp path and are not under any lock; finalize is rename, then
manifest, then enqueue, with a crash or error possible between any two; queue rows
are claimed in one transaction but completed one by one, with `?` exits between.

## 2. Modules

### ReplicationSpec (abstract)
The promise of spec 4.4/4.5 with no rows, ids or clock: a job is outstanding
until it is copied or parked as failed; a copy may happen while the job stays
outstanding (at-least-once); an operator retry brings parked jobs back.

### ReplicationQueue (queue.rs + replicator.rs)
State: `rows` is the table (id → seg, dest, attempts, max_retries, wait, status),
`nextId` the AUTOINCREMENT counter, `batch` the `Vec<ReplicationJob>` held by
the current `run_once`, `up` whether the process runs, `failures` the atomic
counter, `marking` whether the head of the batch has been copied and waits
for its mark_success; `copied`, `enqueued`, `crashes`, `qerrors` are history and bounds.
`wait` stands for `next_retry_ts - now` floored at 0, lowered by `Tick`.

Actions: `Enqueue` (one `queue.enqueue` of `enqueue_segment`), `ClaimReady`
(the claim transaction: `Ready`, `FirstIds` for `ORDER BY id LIMIT`,
`MarkClaimed`, `Snapshot`), `Copy` (process_job returns Ok: `Upload` of the
segment and its manifest; `marking` is set), `Deliver` (the mark_success that
follows, and the event), `FailJob` (process_job error, `failures += 1`,
`MarkFailed` with `Exhausted`), `QueueError` (the `?` after a failed
mark_success, which follows a `Copy`, or a failed mark_failed), `RetryFailed`, `Crash`,
`Restart` (`ReplicationQueue::new`: no reset of in_progress), `Tick`.
The refinement mapping to ReplicationSpec: non-failed rows are outstanding,
failed rows are parked, `copied` is delivered.

Because the copy and the mark_success are two steps, a crash or a failed
mark_success can fall between them: the job is at the destination and its
row is still in the table.

Fairness: weak fairness on `ClaimReady`, on `Copy \/ FailJob`, on `Deliver`,
on `Restart` and on `Tick`. The spawn loop calls `run_once` every two seconds forever and
`run_once` walks its whole batch, so each is continuously enabled until taken;
`QueueError` and `Crash` get no fairness (failures are not forced).
`FailJob` is disabled once a job has taken `MaxAttempts` failures, so under
this fairness a job of the retry-forever destination is eventually copied:
the model cannot show a destination that never accepts a copy.

### Destinations (config/mod.rs destinations + Replicator::new, enqueue_segment)
Operators only. `DestinationConfig` is the `[[archive.destinations]]` record,
with None for a field the TOML leaves out. `DestinationValid` is its validate,
`RetryBackoffSecs` and `MaxRetriesOf` are the `unwrap_or` defaults (5 and 0),
and `DestinationKey` is `local:{path}` / `s3:{endpoint}:{bucket}`. Then:
- `ReplicatorDestinations` is the HashMap `Replicator::new` collects, where a
  later entry replaces an earlier one with the same key (a fold with `@@`).
- `ReplicaKeys` are the keys `enqueue_segment` enqueues a job for (the map's
  async replicas).
- `JobMaxRetries` and `JobBackoff` are what the job row and `mark_failed` get.

MCReplicationQueue no longer picks its destinations by hand. It configures a
primary local archive, a local replica (`max_retries = 2`,
`retry_backoff_secs = 1`) and an S3 replica with the defaults, and takes
`Dests`, `MaxRetries` and `Backoff` from these operators. The backoff is capped
at `BackoffCap = 2`. The keys are distinct in that configuration. With two S3
replicas on one bucket and different prefixes, the map keeps one, and spec 49's
"one job per configured async-replica destination" does not hold (hazard at
replicator.rs:36).

### UpdatesArchive (mod.rs updates stream + writer.rs + manifest.rs)
State: `lock` is the holder of the `updates_writer` tokio Mutex, `writer` the
slot (`NoWriter` or the open writer's aligned `start` and buffered records),
`tmp` the buckets whose tmp file exists, `final` bucket → records of the final
file, `manifest` bucket → what `SegmentManifest::build` hashed, `jobs` bucket →
queue rows. Per task: `pc`, `ts` (the timestamp its call passed to
`ensure_updates_writer`), `cont` (where ensure returns), `held` (the writer
taken out of the slot to finalize), `rec` (the record an `ingest_update`
carries). `finalized` and `published` are history.

Actions: `Tick` (the updates half of `tick`), `Ingest` (`ingest_update`),
`IngestPeerState` (`ingest_peer_state`: the same steps with a state-change
record; `include_peer_state_records` is on by default), `Rollover` (`rollover(Updates)` →
`rotate_updates`), `EnsureLock` / `RotateLock` (lock acquisition and the
`needs_rotate` decision), `Rename` (finish, fsync, rename), `WriteManifest`,
`EnqueueJobs`, `Open` (`SegmentWriter::new`), `Encode` (valid or invalid
message), `Write` (re-lock and `write_record`), `Fail` (the `?` of each
fallible step; inside `ArchiveService::new` it aborts startup), `Started`,
`Crash`, `Restart` (`cleanup_tmp_root` then the startup ensure), `Advance`.
The lock is released between ensure and write exactly as in `ingest_update`.

Fairness: strong fairness on each task's steps (tokio's Mutex is FIFO, so a
waiting task is eventually granted the lock even if it is repeatedly taken by
others), weak fairness on `Tick` (the 5 s interval), `Started` and `Advance`.

### RibsArchive (mod.rs `snapshot_now`, tick's RIB half + writer.rs + manifest.rs)
Files are inodes: `files` is inode → contents, `tmp` and `final` map a bucket
to the inode its path names, so `File::create` on an existing tmp path
truncates the inode another writer holds open, and `rename` moves whatever inode
the tmp path names at that moment. Every caller of `snapshot_now` in the code
passes empty peers and routes, so the bytes of a snapshot are determined by its
timestamp: complete contents are `TableDump(t)` (the one PEER_INDEX_TABLE
record `build_table_dump_v2` emits, with the u32 header timestamp), `Empty` a created/truncated file,
`Torn` two different snapshots overlapping at offset 0 (`Flushed`). `lastRib`
is `last_rib_bucket`, `ribsLast` the bucket of `ribs_last`, `fd` the inode of a
task's open `File`.

Actions: `TickRib` (`tick` when `Due`), `Snapshot` (a control client's
`rollover(Ribs)` / `archive_snapshot_now`), `Create` (`SegmentWriter::new`;
records only fill encoder buffers), `Finish` (`encoder.finish`, fsync),
`Rename`, `RenameMissing` (ENOENT when another call already renamed the tmp
path), `WriteManifest`, `Enqueue` (`enqueue_segment`, `ribs_last`, and
`*last_rib = Some(bucket)` for the scheduler), `Fail`, `Crash`, `Restart`,
`Advance`. No step waits on another task, so weak fairness on each task's steps,
on `TickRib` and on `Advance` suffices. The updates half of `tick` runs before
the RIB half and is in UpdatesArchive; the composition is planned.

### Layout (layout.rs + the interval/template checks of config/mod.rs)
Operators, no state: `AlignedEpoch` (`aligned_epoch`; TLA+'s `%` is the
Euclidean remainder the code asks for), `StreamInterval`, `Day` and
`HourMinute` (the UTC fields segment_paths renders: the date and `{HHMM}`,
never the seconds), `CustomName` (`build_custom_relative_path`: a template is
its text and its tokens), `RelativePath`, and the validation predicates
`UpdatesIntervalValid`, `RibsIntervalValid`, `TemplateValid`.
UpdatesArchive's `Bucket` and RibsArchive's `RibBucket` are `AlignedEpoch`
(through `LOCAL INSTANCE Layout`), and the RIB run checks it against spec 8
property 1 over negative and positive timestamps (`AlignedEpochSound`).
`MCLayout` makes every configuration `validate` accepts, over small candidate
sets, an initial state and checks `PathsDistinct` over a window of timestamps.
The collector id, the `.{ext}` suffix and the tmp name (`.<name>.tmp` in the same
relative directory) are equal for every path of a configuration and are left out.

### BgpPeer (bgp/mod.rs, one peer)

State: the registry entry of the peer (`entry`, `info` = state, last_error,
advertised_prefixes; `inserting` while a spawned task's runtime is not yet in
the map), the task's program counter `lpc` over peer_loop/run_session, the
session's locals (`nk` = next_keepalive - now, `hd` = hold_deadline - now, the
running read timeout `rdl`, the retry sleep `slp`, `partial` = a header consumed
by `read_bgp_message`), the remote speaker (`rpc`, its keepalive/hold timers) and
the byte stream as chunks (`toLocal`, `avail` of them arrived, `eof`).
Deadlines are seconds left and `Tick` lets one second pass only when no process
has an immediate step, so no clock bound is needed and liveness is checkable.

Actions follow the code line by line: `LoopTop` (set Connect), `Connected` /
`ConnectFailed` (connect_with_optional_bind, OpenSent, write OPEN), `ReadHeader`,
`ReadPayload`, `ReadEof` (the two `read_exact`s of read_bgp_message and the
marker check), `OnOpen`, `OnKeepalive` (Established), `Announce`
(send_prefix_announcements and advertised_prefixes), `LoopCheck` (keepalive due,
hold expiry, start the `timeout`), `Timeout` (the timeout drops the read future,
including a consumed header), `OnMessage`, `Report` (set Active with the error),
`Wake`; `Insert` and `Reset` are start_peers/peer_reset on the map (the abort
drops the stream). The remote follows RFC 4271 (`PeerRecv`, `PeerTimerFires`,
`PeerUpdate`); `ConnectionLost` is a reset of the connection, `Deliver` the
arrival of chunks.

The event stream: `set_peer_state` sends `Event::PeerState` on the broadcast
channel while it holds the write lock, and only when the entry is present
(`Broadcast`, inside `SetInfo`). One control client sits in the
`events_subscribe` loop of `handle_client` in focld.rs (`Receive`): `evq` holds
the states sent and not yet received, `lagged` is set when the ring overwrites
the receiver's oldest event (tokio's broadcast semantics), and the next `recv`
then returns `Lagged`, which the loop skips. `seen` is the state in the last
event the client has written. The client is subscribed from the start. In focld.rs
the control socket is bound only after `start_peers`, so a real client may
subscribe after some transitions; the run covers a client that subscribed
before the peer's last transition, which is the case the property is about
(a later client gets no event by design, see the focld.rs:320 hazard). The channel's 512 slots are `EventCapacity = 1`, so every second
transition overruns a receiver that has not run yet. The archive's segment
events share the channel in the code. They are left out: they would only add
overruns, and capacity 1 already produces those.

Fairness: weak fairness on the task's steps (tokio runs a ready task), on
`Insert` (start_peers/peer_reset continue after the spawn), on the remote,
on delivery (TCP delivers what was written) and on `Tick`; none on
`Reset`, `PeerUpdate` or faults, which are bounded; weak fairness on
`Receive` (the client's task is ready while its receiver has an event).

`PeerShow` is what `peer_show` returns to a control client: the entry's info,
or nothing while the runtime is out of the map.

## 3. Runs

| Run | Checks | Result |
|---|---|---|
| `queue_safety` (`MCReplicationQueue.cfg`) | `TypeOK`, `NoJobLost`, refinement `AbstractSpec`, `EventuallyResolvedWithoutFaults` under the fairness above | pass, 7.5 k states |
| `queue_error_stuck` (`MCReplicationQueueQErr.cfg`) | `EventuallyResolved` with one queue error | violation: finding |
| `updates_safety` (`MCUpdatesArchive.cfg`) | `TypeOK`, `JobsHaveManifest`, `EventuallyCurrentWriter` under `FairSpec` | pass, 0.85 M states |
| `updates_misfiled` (`MCUpdatesArchiveMisfiled.cfg`) | `RecordInOwnBucket` | violation: finding |
| `updates_stale_rotate` (`MCUpdatesArchiveStale.cfg`) | `PublishedRecordsKept` | violation: finding |
| `updates_enqueue_error` (`MCUpdatesArchiveEnqueueErr.cfg`) | `OneJobPerFinalized` | violation: finding |
| `ribs_safety` (`MCRibsArchive.cfg`) | `TypeOK`, `RibJobsHaveManifest`, `AlignedEpochSound`, `EventuallySnapshotted` under `FairSpec` | pass, 0.48 M states |
| `ribs_race` (`MCRibsArchiveRace.cfg`) | `ManifestMatchesSegment` | violation: finding |
| `ribs_crash_overwrite` (`MCRibsArchiveCrash.cfg`) | `ManifestMatchesSegment` | violation: finding |
| `layout_paths` (`MCLayout.cfg`) | `PathsDistinct` | violation: finding |
| `bgp_session` (`MCBgpPeer.cfg`) | `TypeOK`, `NoSpuriousTeardown`, `ShownEstablishedOnlyInSession`, `EventuallyStaysEstablished`, `SubscriberLearnsFinalState` under `FairSpec` | pass, 419 k states, about 1 min |
| `bgp_desync` (`MCBgpPeerSplit.cfg`) | `NoSpuriousTeardown` with split segments | violation: finding |

Bounds: one segment × the two async replicas of the configured list (one with
`max_retries = 2`, one with the default 0 = retry forever), claim limit 2 (the segment's two jobs share a
batch, and a failed mark_* call ends `run_once` with rows of it in_progress; with two jobs the
`LIMIT` of claim_ready never cuts a batch short, and two segments with claim
limit 3 grow past five minutes of checking), `MaxAttempts = 3`
(enough to reach exhaustion on the local replica and a further retry on the S3 one), one crash, one
queue error. The liveness property is stated for the behaviours with neither
(rows claimed before either are stranded: finding 1 and the queue.rs:109
hazard), so its run shares the safety run's model.
`CHECK_DEADLOCK FALSE` because once every job is copied or parked the worker
idles: the real loop keeps polling an empty queue.
No symmetry: TLC does not combine it with liveness soundly.

Updates and RIB bounds: `Interval = RibInterval = 2` and `MaxTime = 3`, so the
clock crosses exactly one bucket boundary and two timestamps fall in each
bucket (a stale timestamp of the same bucket and of the previous one both
occur). Updates: the scheduler, one `ingest_update` caller and one control
client (two feeders overflow the budget; the lock and mutex-release hazards
need only one of each), one record (two in the violation runs), one crash, one
failure, one rollover. RIBs: the scheduler and one client request, one crash (two in
the crash run, one to reset `last_rib_bucket` and one between rename and
manifest), one failure. Liveness properties are checked together with the
safety invariants; a crashed daemon may stay down (no fairness on `Restart`:
nothing in the code restarts it), so `EventuallySnapshotted` is conditioned on
the process being up and `EventuallyCurrentWriter` allows `phase = "down"`. The RIB runs set `CHECK_DEADLOCK FALSE` because the model's clock
stops at `MaxTime`; the real scheduler then ticks without work until the next
bucket.

Findings: (1) one failed `mark_success`/`mark_failed` leaves that job's row
`in_progress`, and `claim_ready` only selects pending rows, so the job is never
resolved with the process still running (TLC: a copy, then a failed
mark_success) (the crash variant, rows
left `in_progress` by a crash, is reachable in the same model and is listed by
the spec itself as an open issue in section 9, so no run is spent on it);
(2) `validate` accepts update intervals below a minute (any divisor of 3600),
but paths name the bucket to the minute, so two buckets share a path and the
second finalize overwrites the first bucket's segment;
(3) `ingest_update` releases the mutex between `ensure_updates_writer` and the
write: a rotation in between files a record in the next bucket's segment;
(4) a task that read the time before waiting on the mutex rotates the writer
back to an older bucket and re-finalizes it over the published segment;
(5) (a hazard of the same root cause, kept without its own run) `rollover(Updates)`
reopens the same bucket, whose next finalize overwrites the rolled-over
segment: the stale-rotate cfg with the control client and `MaxRollovers = 2`
reaches it in 19 states; (6) a failed queue insert after a successful finalize
leaves the segment with no replication job (spec 7 expects none lost);
(7) the scheduler's and a client's `snapshot_now` for one RIB bucket share a
tmp path with no lock: the client's `File::create` truncates the file the
scheduler already finished, and the scheduler publishes and hashes the empty
file; (8) `last_rib_bucket` is lost on restart, the bucket is snapshotted again
over its published segment, and a crash before the new manifest leaves the old
manifest's hash beside new bytes;
(9) `run_session` wraps `read_bgp_message` in a 1 s `timeout`; the read is not
cancel-safe, so a timeout between the header and the payload of an UPDATE
drops the consumed header, the next read takes payload bytes as a header and
the healthy session fails with "invalid BGP marker" (bgp_desync: header
delivered, read, a second passes, timeout, payload read as header).

BGP bounds: hold time 3 on both sides (keepalive every second, so every branch
of the loop happens), one prefix, one remote UPDATE, one fault (a connect
failure or a connection reset), one `peer_reset`. With the peer's hold time
smaller than ours (`HoldTimeSecs = 9`, `PeerHoldTime = 3`) the same run fails
`NoSpuriousTeardown`: the code keeps its own hold time and ignores the one in
the peer's OPEN (`negotiated_hold` at mod.rs:237), so it sends keepalives too
rarely for the peer, which expires the session. That is listed as a hazard.

`ShownEstablishedOnlyInSession`: `peer_show` reports Established only while
the task is past the handshake, or has just failed and is about to report.
Updates made while `peer_reset` has the runtime out of the map are lost. The
check shows this never leaves a false Established behind, because the insert
writes a fresh Idle info. A runtime that kept the old info (`InsertKeepsInfo`)
breaks it after one reset.

`SubscriberLearnsFinalState`: when the registry stays Established, the
subscribed client ends up writing Established. The registry reaches Established
only through `SetInfo`, which sends it (`Insert` writes only Idle, without an
event). The ring keeps the newest event when it overruns, and the loop
carries on past `Lagged`, so the last event is always delivered. A recv loop
that stops on any error (`ReceiveStopsOnLag`, the usual
`while let Ok(ev) = rx.recv().await`) breaks it. The property does not say
whether a client that subscribes late learns anything: the stream sends no
snapshot (hazard at focld.rs:320).

## 4. Plan

In order of importance:

1. **ReplicationQueue** (done): queue and worker, crash, queue errors, refinement.
2. **UpdatesArchive** (done): the updates writer under its mutex, with the
   scheduler's `tick`, BGP sessions calling `ingest_update` and a control client
   calling `rollover(Updates)`, each split at its lock/unlock and filesystem
   steps (ensure: check, finalize = finish/rename/manifest, enqueue, open). State: the
   tmp and final directories as functions from bucket to file contents, manifests,
   enqueued jobs, the writer slot. Properties: every ingested record ends in the
   final file of its own bucket; a finalized file is never replaced; every
   finalized file has a manifest and its jobs; after a crash, startup removes
   stale tmp files.
3. **RibsArchive** (done): `snapshot_now` from `tick` and from control clients, split into
   open (create/truncate tmp), write, rename, manifest, enqueue, plus
   `last_rib_bucket`. Property: the manifest's hash and count match the final file.
4. **ArchiveService** (next): composition of 2, 3 and 1 through the enqueue, with
   `tick` running the updates half and then the RIB half, startup (`new`) and
   crashes, and the replicator's two copies (segment, then manifest) as
   separate steps, checking that a delivered pair is a segment with its own
   manifest even when the path is finalized again between the two copies
   (hazard at `replicator.rs:169`). The existing runs are kept small enough to
   leave room for this one.
5. **Layout** (done): `aligned_epoch` against spec 8 property 1 with negative
   timestamps, path naming per profile and custom template, the interval and
   template validation. Left: the MRT `timestamp as u32` truncation and the
   custom-template extension rule, for a model of the encoder.

6. **BgpPeer** (done): one peer's task, its registry entry, peer_reset and an
   RFC 4271 remote over a byte stream, and an events_subscribe client. Left: a silent remote (no handshake
   timer, mod.rs:216), and properties on the registry's reported state
   (spawn-before-insert, stale advertised_prefixes; hazards in PROJECT.json).

## 5. Not modelled

TCP-MD5 auth (`bgp/auth.rs`: one `setsockopt`, no state), message encoding and
parsing (bgpkit-parser; messages are kinds), several peers (the tasks share
only the map lock, which every access takes for one step),
configuration parsing (the per-peer hold-time check is `ValidHoldTime`, an
ASSUME on the constant), the control socket protocol and CLI (I/O), the
archive's segment events and the other branches of `handle_client` (the daemon
does not build: `ArchiveService::event_sender` and the `Peer*` command kinds do
not exist; `peer_reset` is modelled from bgp/mod.rs), compression formats and SHA-256 bytes
(abstracted to "the contents"), S3 client setup.
