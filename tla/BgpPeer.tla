------------------------------- MODULE BgpPeer -------------------------------
(***************************************************************************)
(* One configured peer of BgpService (src/bgp/mod.rs): its entry in the   *)
(* peers map (PeerRuntime.info), the task spawned for it (peer_loop and   *)
(* run_session), the TCP connection and the remote BGP speaker.           *)
(*                                                                         *)
(* Time is kept relative: every deadline of the code (next_keepalive,     *)
(* hold_deadline, the read timeout, the connect-retry sleep) and of the   *)
(* remote is the number of whole seconds left until it, and Tick lets one *)
(* second pass.  A second passes only when nobody has an immediate step   *)
(* left: the session task is blocked in a read, a connect or a sleep, the *)
(* remote has processed what it received and has no timer due, and no    *)
(* byte has been in flight for a whole second.                            *)
(*                                                                         *)
(* The remote speaker follows RFC 4271: it answers OPEN with KEEPALIVE,   *)
(* uses the smaller of the two hold times, sends KEEPALIVE every third of *)
(* it, and sends NOTIFICATION and closes when our messages stop for the   *)
(* hold time.  A message reaches our socket as chunks: the 19-byte header *)
(* and, except for KEEPALIVE, a payload; with SplitSegments the payload   *)
(* may arrive up to a second after its header.                            *)
(***************************************************************************)
EXTENDS Naturals, Sequences, FiniteSets

(* The registry's writes also go to the daemon's event channel: every    *)
(* set_peer_state on a present entry sends Event::PeerState on the       *)
(* broadcast channel of ArchiveService::new, and a control client that   *)
(* sent events_subscribe (bin/focld.rs) writes each event it receives.   *)

CONSTANTS HoldTimeSecs,   \* peer.hold_time_secs
          PeerHoldTime,   \* the hold time in the remote's OPEN
          ConnectRetry,   \* peer.connect_retry_secs
          NumPrefixes,    \* Len(inner.prefixes), announced per session
          Passive,        \* peer.passive
          SplitSegments,  \* a payload may arrive after its header
          MaxUpdates,     \* bound on UPDATEs the remote sends
          MaxFaults,      \* bound on connect failures and connection resets
          MaxResets,      \* bound on peer_reset calls
          EventCapacity,  \* broadcast::channel(512), shrunk
          NoMsg, NoError, NoEvent

ASSUME /\ HoldTimeSecs \in Nat /\ PeerHoldTime \in Nat \ {0, 1, 2}
       /\ {ConnectRetry, NumPrefixes, MaxUpdates, MaxFaults, MaxResets} \subseteq Nat
       /\ Passive \in BOOLEAN /\ SplitSegments \in BOOLEAN
       /\ EventCapacity \in Nat \ {0}

\* FoclConfig::validate, for a peer: remote_as # 0 and hold_time_secs is
\* 0 or at least 3 (the model has no AS numbers).
ValidHoldTime(h) == h = 0 \/ h >= 3

ASSUME ValidHoldTime(HoldTimeSecs)

Msgs == {"OPEN", "KEEPALIVE", "UPDATE", "NOTIFICATION"}
\* types.rs PeerState
PeerStates == {"Idle", "Connect", "Active", "OpenSent", "OpenConfirm",
               "Established"}
Errors == {"connect", "closed", "marker", "unexpected", "notification",
           "hold"}

\* run_session: let hold_time = peer.hold_time_secs.max(3)
SessionHold == IF HoldTimeSecs > 3 THEN HoldTimeSecs ELSE 3

\* Mutant of KeepaliveInterval: the division by three is dropped.
KeepaliveIntervalFullHold == SessionHold

\* keepalive_interval = (hold_time / 3).max(1)
KeepaliveInterval == IF SessionHold \div 3 > 1 THEN SessionHold \div 3 ELSE 1

\* The remote's view (RFC 4271 4.2): the smaller of the two hold times,
\* keepalives every third of it.
PeerNegotiated == IF SessionHold < PeerHoldTime THEN SessionHold ELSE PeerHoldTime
PeerKeepalive == PeerNegotiated \div 3

\* The chunks a message is written as: header, then payload unless the
\* message is a bare 19-byte KEEPALIVE (payload_len = 0).
HasPayload(m) == m # "KEEPALIVE"
Chunks(m) ==
    LET parts == IF HasPayload(m) THEN <<"hdr", "pay">> ELSE <<"hdr">> IN
    [i \in DOMAIN parts |-> [part |-> parts[i], msg |-> m, late |-> FALSE]]

Dec(x) == IF x > 0 THEN x - 1 ELSE 0

FreshInfo == [state |-> "Idle", err |-> NoError, adv |-> 0]

VARIABLES
    entry,      \* peers.contains_key(address)
    info,       \* runtime.info of that entry: state, last_error, advertised
    inserting,  \* a spawned task whose runtime is not inserted yet
    resets,
    lpc,        \* where the peer task is
    sessErr,    \* the Err the last run_*_session returned
    partial,    \* read_bgp_message consumed a header, waits for its payload
    got,        \* the message read_bgp_message returned
    nk,         \* next_keepalive - now
    hd,         \* hold_deadline - now
    rdl,        \* the running read timeout, seconds left
    slp,        \* connect-retry sleep, seconds left
    rpc,        \* the remote's FSM state; "idle" when it has no connection
    rka, rhd,   \* the remote's keepalive and hold timers
    toPeer,     \* messages written by us, not yet processed by the remote
    toLocal,    \* chunks written by the remote, not yet read by us
    avail,      \* how many chunks at the head of toLocal have arrived
    eof,        \* the remote closed; after toLocal, reads return EOF
    updates, faults,
    evq,        \* PeerState events sent, not yet received, oldest first
    lagged,     \* its receiver was overrun: the next recv is Lagged
    seen        \* the state in the last event it wrote to its socket

ev == <<evq, lagged, seen>>
reg == <<entry, info, inserting, resets, ev>>
task == <<lpc, sessErr, partial, got, nk, hd, rdl, slp>>
net == <<rpc, rka, rhd, toPeer, toLocal, avail, eof>>
vars == <<reg, task, net, updates, faults>>

Pc == {"connect", "dial", "open_wait", "ka_wait", "announce", "loop", "read",
       "report", "sleep"}
ReadPhases == {"open_wait", "ka_wait", "read"}

-----------------------------------------------------------------------------
(* Helpers *)

\* event_tx.send(EventEnvelope::new(Event::PeerState {..})) to the one
\* subscribed receiver; a full ring overwrites the receiver's oldest event and
\* its next recv returns Lagged.
Broadcast(state) ==
    IF Len(evq) < EventCapacity
      THEN evq' = Append(evq, state) /\ UNCHANGED lagged
      ELSE evq' = Append(Tail(evq), state) /\ lagged' = TRUE

\* set_peer_state: under the write lock, only when the address has an
\* entry in the map: update the info and send the event.
SetInfo(state, err) ==
    /\ info' = IF ~entry THEN info
               ELSE [info EXCEPT !.state = state,
                                 !.err = IF err # NoError THEN err
                                         ELSE IF state = "Established" THEN NoError
                                         ELSE @]
    /\ IF entry THEN Broadcast(state) ELSE UNCHANGED <<evq, lagged>>
    /\ UNCHANGED seen

\* write_bgp_message: the bytes go nowhere once the remote has closed.
Send(q, m) == IF rpc = "idle" THEN q ELSE Append(q, m)

\* Dropping the TcpStream (run_*_session returns, or the task is
\* aborted): the remote sees the connection close.
Teardown ==
    /\ rpc' = "idle" /\ rka' = 0 /\ rhd' = 0
    /\ toPeer' = <<>> /\ toLocal' = <<>> /\ avail' = 0 /\ eof' = FALSE

\* run_session returns Err(e) and its stream is dropped.
Fail(e) ==
    /\ lpc' = "report" /\ sessErr' = e
    /\ partial' = NoMsg /\ got' = NoMsg /\ nk' = 0 /\ hd' = 0 /\ rdl' = 0
    /\ Teardown

Readable == avail > 0 \/ (eof /\ toLocal = <<>>)

-----------------------------------------------------------------------------
(* Operations of the peer task *)

\* BgpService::new -> start_peers: spawn_peer_task has started the task;
\* the runtime (info Idle) is inserted into the map afterwards.
Init ==
    /\ entry = FALSE /\ info = FreshInfo /\ inserting = TRUE /\ resets = 0
    /\ lpc = "connect" /\ sessErr = NoError /\ partial = NoMsg /\ got = NoMsg
    /\ nk = 0 /\ hd = 0 /\ rdl = 0 /\ slp = 0
    /\ rpc = "idle" /\ rka = 0 /\ rhd = 0
    /\ toPeer = <<>> /\ toLocal = <<>> /\ avail = 0 /\ eof = FALSE
    /\ updates = 0 /\ faults = 0
    \* One client subscribed (the "subscribed" response, subscribe_events())
    \* before the peer's transitions, so before its last one.
    /\ evq = <<>> /\ lagged = FALSE /\ seen = NoEvent

\* peer_loop, top: set_peer_state(Connect).
LoopTop ==
    /\ lpc = "connect"
    /\ SetInfo("Connect", NoError)
    /\ lpc' = "dial"
    /\ UNCHANGED <<entry, inserting, resets, sessErr, partial, got, nk, hd,
                   rdl, slp, net, updates, faults>>

\* run_active_session connects / run_passive_session accepts; run_session
\* sets OpenSent and writes our OPEN; the remote sends its OPEN.
Connected ==
    /\ lpc = "dial" /\ rpc = "idle"
    /\ SetInfo("OpenSent", NoError)
    /\ lpc' = "open_wait"
    /\ rpc' = "open_sent"
    /\ toPeer' = <<"OPEN">> /\ toLocal' = Chunks("OPEN") /\ avail' = 0
    /\ UNCHANGED <<entry, inserting, resets, sessErr, partial, got, nk, hd,
                   rdl, slp, rka, rhd, eof, updates, faults>>

\* connect_with_optional_bind fails (refused, unreachable).
ConnectFailed ==
    /\ lpc = "dial" /\ ~Passive /\ faults < MaxFaults
    /\ faults' = faults + 1
    /\ Fail("connect")
    /\ UNCHANGED <<reg, slp, updates>>

\* read_bgp_message, read_exact(header): a payload taken for a header
\* fails the marker check; a KEEPALIVE is complete, anything else waits
\* for its payload.
ReadHeader ==
    LET ch == toLocal[1] IN
    /\ lpc \in ReadPhases /\ partial = NoMsg /\ got = NoMsg /\ avail > 0
    /\ IF ch.part = "pay"
         THEN Fail("marker")
         ELSE /\ toLocal' = Tail(toLocal) /\ avail' = avail - 1
              /\ partial' = IF HasPayload(ch.msg) THEN ch.msg ELSE NoMsg
              /\ got' = IF HasPayload(ch.msg) THEN NoMsg ELSE ch.msg
              /\ UNCHANGED <<lpc, sessErr, nk, hd, rdl, rpc, rka, rhd, toPeer, eof>>
    /\ UNCHANGED <<reg, slp, updates, faults>>

\* read_exact(payload) completes the message.
ReadPayload ==
    /\ lpc \in ReadPhases /\ partial # NoMsg /\ avail > 0
    /\ toLocal' = Tail(toLocal) /\ avail' = avail - 1
    /\ got' = partial /\ partial' = NoMsg
    /\ UNCHANGED <<reg, lpc, sessErr, nk, hd, rdl, slp, rpc, rka, rhd, toPeer,
                   eof, updates, faults>>

\* read_exact hits EOF after the remote closed.
ReadEof ==
    /\ lpc \in ReadPhases /\ got = NoMsg /\ avail = 0
    /\ eof /\ toLocal = <<>>
    /\ Fail("closed")
    /\ UNCHANGED <<reg, slp, updates, faults>>

\* `incoming` after write(OPEN): anything but OPEN is an error; then
\* write(KEEPALIVE).
OnOpen ==
    /\ lpc = "open_wait" /\ got # NoMsg
    /\ IF got = "OPEN"
         THEN /\ toPeer' = Send(toPeer, "KEEPALIVE")
              /\ lpc' = "ka_wait" /\ got' = NoMsg
              /\ UNCHANGED <<sessErr, partial, nk, hd, rdl, rpc, rka, rhd, toLocal,
                             avail, eof>>
         ELSE Fail("unexpected")
    /\ UNCHANGED <<reg, slp, updates, faults>>

\* The second read must be KEEPALIVE; then set_peer_state(Established).
OnKeepalive ==
    /\ lpc = "ka_wait" /\ got # NoMsg
    /\ IF got = "KEEPALIVE"
         THEN /\ SetInfo("Established", NoError)
              /\ lpc' = "announce" /\ got' = NoMsg
              /\ UNCHANGED <<sessErr, partial, nk, hd, rdl, net>>
         ELSE /\ Fail("unexpected")
              /\ UNCHANGED <<info, ev>>
    /\ UNCHANGED <<entry, inserting, resets, slp, updates, faults>>

\* Mutant of Announce: advertised_prefixes += count.
AnnounceAccumulating ==
    /\ lpc = "announce"
    /\ toPeer' = IF rpc = "idle" THEN toPeer
                 ELSE toPeer \o [i \in 1..NumPrefixes |-> "UPDATE"]
    /\ info' = IF entry THEN [info EXCEPT !.adv = @ + NumPrefixes] ELSE info
    /\ nk' = KeepaliveInterval /\ hd' = SessionHold
    /\ lpc' = "loop"
    /\ UNCHANGED <<entry, inserting, resets, ev, sessErr, partial, got, rdl, slp,
                   rpc, rka, rhd, toLocal, avail, eof, updates, faults>>

\* send_prefix_announcements writes one UPDATE per prefix and records the
\* count; run_session then starts both timers.
Announce ==
    /\ lpc = "announce"
    /\ toPeer' = IF rpc = "idle" THEN toPeer
                 ELSE toPeer \o [i \in 1..NumPrefixes |-> "UPDATE"]
    /\ info' = IF entry THEN [info EXCEPT !.adv = NumPrefixes] ELSE info
    /\ nk' = KeepaliveInterval /\ hd' = SessionHold
    /\ lpc' = "loop"
    /\ UNCHANGED <<entry, inserting, resets, ev, sessErr, partial, got, rdl, slp,
                   rpc, rka, rhd, toLocal, avail, eof, updates, faults>>

\* Loop top: KEEPALIVE when next_keepalive is due, the hold check, then
\* a read bounded by min(next_keepalive - now, 1s).
LoopCheck ==
    /\ lpc = "loop"
    /\ LET due == nk = 0
           nk2 == IF due THEN KeepaliveInterval ELSE nk IN
       IF hd = 0
         THEN Fail("hold")
         ELSE /\ toPeer' = IF due THEN Send(toPeer, "KEEPALIVE") ELSE toPeer
              /\ nk' = nk2
              /\ rdl' = IF nk2 < 1 THEN nk2 ELSE 1
              /\ lpc' = "read"
              /\ UNCHANGED <<sessErr, partial, got, hd, rpc, rka, rhd, toLocal,
                             avail, eof>>
    /\ UNCHANGED <<reg, slp, updates, faults>>

\* Mutant of Timeout: an elapsed timeout is returned as an error.
TimeoutAsError ==
    /\ lpc = "read" /\ got = NoMsg /\ ~Readable /\ rdl = 0
    /\ Fail("hold")
    /\ UNCHANGED <<reg, slp, updates, faults>>

\* timeout(...) elapses: the read future is dropped, together with any
\* header it already consumed.
Timeout ==
    /\ lpc = "read" /\ got = NoMsg /\ ~Readable /\ rdl = 0
    /\ lpc' = "loop" /\ partial' = NoMsg
    /\ UNCHANGED <<reg, sessErr, got, nk, hd, rdl, slp, net, updates, faults>>

\* KEEPALIVE, UPDATE or OPEN restart the hold timer; NOTIFICATION ends the
\* session.
OnMessage ==
    /\ lpc = "read" /\ got # NoMsg
    /\ IF got = "NOTIFICATION"
         THEN Fail("notification")
         ELSE /\ hd' = SessionHold /\ lpc' = "loop" /\ got' = NoMsg
              /\ UNCHANGED <<sessErr, partial, nk, rdl, net>>
    /\ UNCHANGED <<reg, slp, updates, faults>>

\* peer_loop after the session: set_peer_state(Active, Some(err)), sleep.
Report ==
    /\ lpc = "report"
    /\ SetInfo("Active", sessErr)
    /\ lpc' = "sleep" /\ slp' = ConnectRetry
    /\ UNCHANGED <<entry, inserting, resets, sessErr, partial, got, nk, hd, rdl,
                   net, updates, faults>>

Wake ==
    /\ lpc = "sleep" /\ slp = 0
    /\ lpc' = "connect"
    /\ UNCHANGED <<reg, sessErr, partial, got, nk, hd, rdl, slp, net, updates,
                   faults>>

-----------------------------------------------------------------------------
(* The peers map (peer_reset from a control client) *)

\* Mutant of Insert: the new runtime keeps the info of the old one.
InsertKeepsInfo ==
    /\ inserting
    /\ entry' = TRUE /\ inserting' = FALSE
    /\ UNCHANGED <<info, resets, ev, task, net, updates, faults>>

\* start_peers / peer_reset: insert(address, runtime) with info Idle.
Insert ==
    /\ inserting
    /\ entry' = TRUE /\ info' = FreshInfo /\ inserting' = FALSE
    /\ UNCHANGED <<resets, ev, task, net, updates, faults>>

\* peer_reset: remove the entry, abort the old task (its stream is
\* dropped), spawn_peer_task a new one; the insert follows as Insert.
Reset ==
    /\ entry /\ resets < MaxResets
    /\ entry' = FALSE /\ inserting' = TRUE /\ resets' = resets + 1
    /\ lpc' = "connect" /\ sessErr' = NoError /\ partial' = NoMsg /\ got' = NoMsg
    /\ nk' = 0 /\ hd' = 0 /\ rdl' = 0 /\ slp' = 0
    /\ Teardown
    /\ UNCHANGED <<info, ev, updates, faults>>

-----------------------------------------------------------------------------
(* A control client on events_subscribe (bin/focld.rs handle_client) *)

\* Mutant of Receive: the loop ends on any recv error, Lagged included
\* (while let Ok(event) = rx.recv().await).
ReceiveStopsOnLag ==
    /\ evq # <<>> /\ ~lagged
    /\ seen' = Head(evq) /\ evq' = Tail(evq)
    /\ UNCHANGED <<entry, info, inserting, resets, lagged, task, net, updates,
                   faults>>

\* rx.recv(): Lagged is skipped (continue) and the next recv starts at
\* the oldest event still in the ring; an event is written to the client.
Receive ==
    /\ (lagged \/ evq # <<>>)
    /\ IF lagged
         THEN lagged' = FALSE /\ UNCHANGED <<evq, seen>>
         ELSE /\ seen' = Head(evq) /\ evq' = Tail(evq)
              /\ UNCHANGED lagged
    /\ UNCHANGED <<entry, info, inserting, resets, task, net, updates,
                   faults>>

-----------------------------------------------------------------------------
(* The remote speaker and the network *)

\* The remote processes our next message.
PeerRecv ==
    LET m == Head(toPeer) IN
    /\ rpc # "idle" /\ toPeer # <<>>
    /\ toPeer' = Tail(toPeer)
    /\ CASE rpc = "open_sent" /\ m = "OPEN" ->
              /\ toLocal' = toLocal \o Chunks("KEEPALIVE")
              /\ rpc' = "open_confirm" /\ UNCHANGED <<rka, rhd, eof>>
         [] rpc = "open_confirm" /\ m = "KEEPALIVE" ->
              /\ rpc' = "established" /\ rka' = PeerKeepalive
              /\ rhd' = PeerNegotiated /\ UNCHANGED <<toLocal, eof>>
         [] rpc = "established" /\ m \in {"KEEPALIVE", "UPDATE"} ->
              /\ rhd' = PeerNegotiated /\ UNCHANGED <<rpc, rka, toLocal, eof>>
         [] OTHER ->
              \* a message its FSM does not expect: NOTIFICATION, close
              /\ toLocal' = toLocal \o Chunks("NOTIFICATION")
              /\ rpc' = "idle" /\ eof' = TRUE /\ UNCHANGED <<rka, rhd>>
    /\ UNCHANGED <<reg, task, avail, updates, faults>>

\* A timer of the remote fires: its hold timer expires (NOTIFICATION, then
\* it closes), or its keepalive timer is due.
PeerTimerFires ==
    /\ rpc = "established" /\ (rhd = 0 \/ rka = 0)
    /\ IF rhd = 0
       THEN /\ toPeer = <<>>
            /\ toLocal' = toLocal \o Chunks("NOTIFICATION")
            /\ rpc' = "idle" /\ rka' = 0 /\ eof' = TRUE
       ELSE /\ toLocal' = toLocal \o Chunks("KEEPALIVE") /\ rka' = PeerKeepalive
            /\ UNCHANGED <<rpc, eof>>
    /\ UNCHANGED <<reg, task, rhd, toPeer, avail, updates, faults>>

PeerUpdate ==
    /\ rpc = "established" /\ updates < MaxUpdates
    /\ toLocal' = toLocal \o Chunks("UPDATE") /\ updates' = updates + 1
    /\ UNCHANGED <<reg, task, rpc, rka, rhd, toPeer, avail, eof, faults>>

\* The connection is reset under the session (remote restart, link).
ConnectionLost ==
    /\ rpc # "idle" /\ faults < MaxFaults
    /\ faults' = faults + 1
    /\ rpc' = "idle" /\ rka' = 0 /\ rhd' = 0 /\ toPeer' = <<>> /\ eof' = TRUE
    /\ UNCHANGED <<reg, task, toLocal, avail, updates>>

\* The next chunk arrives; without SplitSegments a payload arrives with
\* its header.
Deliver ==
    LET next == toLocal[avail + 1]
        n == IF SplitSegments \/ next.part = "pay" THEN 1
             ELSE Len(Chunks(next.msg)) IN
    /\ avail < Len(toLocal)
    /\ avail' = avail + n
    /\ UNCHANGED <<reg, task, rpc, rka, rhd, toPeer, toLocal, eof, updates, faults>>

LocalBlocked ==
    \/ lpc = "dial"
    \/ lpc \in {"open_wait", "ka_wait"} /\ got = NoMsg /\ ~Readable
    \/ lpc = "read" /\ got = NoMsg /\ ~Readable /\ rdl > 0
    \/ lpc = "sleep" /\ slp > 0

PeerQuiet ==
    /\ toPeer = <<>>
    /\ rpc = "established" => rka > 0 /\ rhd > 0

\* One second passes.
Tick ==
    /\ LocalBlocked /\ PeerQuiet
    /\ \A i \in avail + 1..Len(toLocal) : ~toLocal[i].late
    /\ nk' = Dec(nk) /\ hd' = Dec(hd) /\ rdl' = Dec(rdl) /\ slp' = Dec(slp)
    /\ rka' = Dec(rka) /\ rhd' = Dec(rhd)
    /\ toLocal' = [i \in DOMAIN toLocal |-> [toLocal[i] EXCEPT !.late = i > avail]]
    /\ UNCHANGED <<reg, lpc, sessErr, partial, got, rpc, toPeer, avail, eof,
                   updates, faults>>

-----------------------------------------------------------------------------
LocalStep ==
    \/ LoopTop \/ Connected \/ ConnectFailed \/ ReadHeader \/ ReadPayload
    \/ ReadEof \/ OnOpen \/ OnKeepalive \/ Announce \/ LoopCheck \/ Timeout
    \/ OnMessage \/ Report \/ Wake

PeerStep == PeerRecv \/ PeerTimerFires

Next ==
    \/ LocalStep \/ Insert \/ Reset
    \/ Receive
    \/ PeerStep \/ PeerUpdate \/ ConnectionLost \/ Deliver \/ Tick

Spec == Init /\ [][Next]_vars

\* The task, the remote, the network and time make progress; the control
\* client's reset, remote UPDATEs and faults are not forced.
FairSpec ==
    /\ Spec
    /\ WF_vars(LocalStep) /\ WF_vars(Insert) /\ WF_vars(PeerStep)
    /\ WF_vars(Deliver) /\ WF_vars(Tick) /\ WF_vars(Receive)

-----------------------------------------------------------------------------
(* What a control client reads *)

\* peer_show(address): the entry's info under the read lock, None when the
\* address is not in the map (as a set of at most one info).
PeerShow == IF entry THEN {info} ELSE {}

-----------------------------------------------------------------------------
(* Properties *)

TypeOK ==
    /\ entry \in BOOLEAN /\ inserting \in BOOLEAN /\ resets \in 0..MaxResets
    /\ info \in [state : PeerStates, err : Errors \cup {NoError},
                 adv : 0..NumPrefixes]
    /\ lpc \in Pc /\ sessErr \in Errors \cup {NoError}
    /\ partial \in Msgs \cup {NoMsg} /\ got \in Msgs \cup {NoMsg}
    /\ {nk, hd, rdl, slp, rka, rhd} \subseteq Nat
    /\ rpc \in {"idle", "open_sent", "open_confirm", "established"}
    /\ toPeer \in Seq(Msgs) /\ avail \in 0..Len(toLocal) /\ eof \in BOOLEAN
    /\ updates \in 0..MaxUpdates /\ faults \in 0..MaxFaults
    /\ lagged \in BOOLEAN
    /\ evq \in Seq(PeerStates) /\ Len(evq) <= EventCapacity
    /\ seen \in PeerStates \cup {NoEvent}

\* With a remote that follows RFC 4271, run_session only ends because the
\* connection failed or was closed under it: never by our hold timer, a
\* NOTIFICATION from the remote (its hold timer, an FSM error), a broken
\* marker or an unexpected message.  It needs our keepalive_interval and
\* read timeouts to keep the remote's hold timer fed, the remote's
\* KEEPALIVEs to reach us within hold_time, and every read to stay aligned
\* on message boundaries.
NoSpuriousTeardown == sessErr \in {NoError, "connect", "closed"}

\* Once resets and faults stop, peer_loop's retries bring the session to
\* Established and it stays there.
EventuallyStaysEstablished ==
    <>[](rpc = "established" /\ lpc \in {"loop", "read"})

\* A client on events_subscribe ends up showing the state the registry
\* settles on: when the peer's entry stays Established, the last event the
\* client writes is Established.  It needs set_peer_state to send the
\* event for its last write, the broadcast ring to keep the newest event
\* when a slow receiver is overrun, and the recv loop to carry on past
\* Lagged instead of ending the subscription.
SubscriberLearnsFinalState ==
    <>[](info.state = "Established") => <>[](seen = "Established")

\* peer_show reports a peer Established only while its task is in a
\* session past the handshake (or has just left it and is about to report
\* the error).  The registry write of a task spawned by peer_reset can be
\* lost while the runtime is out of the map, and the old runtime is gone;
\* it holds because the insert writes a fresh Idle info and every exit from
\* run_session goes through set_peer_state(Active).
ShownEstablishedOnlyInSession ==
    \A i \in PeerShow :
        i.state = "Established" => lpc \in {"announce", "loop", "read", "report"}
====
