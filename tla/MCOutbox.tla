------------------------------ MODULE MCOutbox ------------------------------
(***************************************************************************)
(* The instance of Outbox TLC checks: four events, read two at a time.    *)
(***************************************************************************)
EXTENDS Outbox
=============================================================================
