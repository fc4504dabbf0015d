------------------------------ MODULE MCDeploy ------------------------------
(***************************************************************************)
(* A small instance of Deploy for TLC.                                     *)
(***************************************************************************)
EXTENDS Deploy

CONSTANTS timer, evctl

MCTimerOnly == {timer}
MCTimerAndEvctl == {timer, evctl}
=============================================================================
