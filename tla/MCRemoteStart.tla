---------------------------- MODULE MCRemoteStart ----------------------------
(***************************************************************************)
(* A small instance of RemoteStart for TLC: one command, one charger.      *)
(***************************************************************************)
EXTENDS RemoteStart

CONSTANTS cp1, tag1

MCChargers == {cp1}
MCTags == {tag1}
MCStarts == 1 .. 3
=============================================================================
