---------------------------- MODULE MCRibsArchive ----------------------------
(***************************************************************************)
(* Model-checking instance of RibsArchive: the scheduler and one control *)
(* client, over a clock that crosses one RIB bucket boundary.            *)
(***************************************************************************)
EXTENDS RibsArchive

CONSTANTS c1

MCClients == {c1}
MCNoClients == {}
=============================================================================
