----------------------------- MODULE EventFeed ------------------------------
(***************************************************************************)
(* What the hub promises the core (class HubEvent of hub/models.py and the *)
(* comments of hub/core_client.py): no event that was committed is lost,   *)
(* and the core processes an event only after everything that had been     *)
(* committed before it came into being, except what the core itself        *)
(* refused.  So it meets a transaction's start before its meter values and *)
(* these before its stop.                                                  *)
(***************************************************************************)
CONSTANT Ids  \* events

VARIABLES
  before,  \* for each event in being, the events committed before it
  fed,     \* events the core has processed
  refused  \* events the core has refused

vars == <<before, fed, refused>>

Init ==
  /\ before = [i \in {} |-> {}]
  /\ fed = {}
  /\ refused = {}

\* An event comes into being, after the events in past.
Emit(i, past) ==
  /\ i \notin DOMAIN before
  /\ past \subseteq DOMAIN before
  /\ before' = [j \in DOMAIN before \cup {i} |-> IF j = i THEN past ELSE before[j]]
  /\ UNCHANGED <<fed, refused>>

InTurn(i) == i \in DOMAIN before /\ before[i] \subseteq fed \cup refused

Feed(i) ==
  /\ i \notin fed
  /\ InTurn(i)
  /\ fed' = fed \cup {i}
  /\ UNCHANGED <<before, refused>>

\* The hub takes note of a refusal, and goes on.
Refuse(i) ==
  /\ InTurn(i)
  /\ refused' = refused \cup {i}
  /\ UNCHANGED <<before, fed>>

Next == \E i \in Ids : (\E past \in SUBSET Ids : Emit(i, past)) \/ Feed(i) \/ Refuse(i)

Spec == Init /\ [][Next]_vars
=============================================================================
