--------------------------- MODULE ReplicationSpec ---------------------------
(***************************************************************************)
(* What the replication queue promises (spec section 4.4/4.5), stated     *)
(* without rows, ids, clocks or a worker: a job for a (segment,           *)
(* destination) pair is outstanding until it is either copied to the      *)
(* destination or parked as failed; parked jobs come back only on an      *)
(* operator retry.  Copies are at-least-once: a copy may happen while the *)
(* job stays outstanding (and then happen again).                          *)
(***************************************************************************)
CONSTANTS Jobs          \* (segment, destination) pairs that can be enqueued

VARIABLES outstanding,  \* jobs waiting to be copied
          parked,       \* jobs given up on (status = failed)
          delivered     \* jobs whose bytes are at the destination

vars == <<outstanding, parked, delivered>>

Init == outstanding = {} /\ parked = {} /\ delivered = {}

Submit(j) ==
    /\ j \notin outstanding \cup parked
    /\ outstanding' = outstanding \cup {j}
    /\ UNCHANGED <<parked, delivered>>

\* The bytes reach the destination; the job may or may not be retired.
Copy(j) ==
    /\ j \in outstanding
    /\ delivered' = delivered \cup {j}
    /\ \/ outstanding' = outstanding \ {j}
       \/ UNCHANGED outstanding
    /\ UNCHANGED parked

Park(j) ==
    /\ j \in outstanding
    /\ outstanding' = outstanding \ {j}
    /\ parked' = parked \cup {j}
    /\ UNCHANGED delivered

Unpark ==
    /\ parked # {}
    /\ outstanding' = outstanding \cup parked
    /\ parked' = {}
    /\ UNCHANGED delivered

Next == \/ \E j \in Jobs : Submit(j) \/ Copy(j) \/ Park(j)
        \/ Unpark

Spec == Init /\ [][Next]_vars
=============================================================================
