--------------------------- MODULE MCUpdatesArchive --------------------------
(***************************************************************************)
(* Model-checking instance of UpdatesArchive: the scheduler, API callers *)
(* of ingest_update and a control client, over a clock that crosses one  *)
(* bucket boundary.                                                       *)
(***************************************************************************)
EXTENDS UpdatesArchive, TLC

CONSTANTS f1, f2, c1

MCFeeders == {f1}
MCTwoFeeders == {f1, f2}
MCClients == {c1}
MCNoClients == {}
=============================================================================
