---------------------------- MODULE Authorization ----------------------------
(***************************************************************************)
(* Who may charge: on_authorize of hub/ocpp/handlers.py, the idTags of     *)
(* RemoteStarts it remembers in the memory of the process, and the         *)
(* question to the core in hub/core_client.py.  One charger.  The code     *)
(* keeps the time of each grant; here it is the grant's age, in units of   *)
(* which TTL make up _IDTAG_TTL, and counted no further than past it.      *)
(***************************************************************************)
EXTENDS Naturals

CONSTANTS
  IdTags,  \* idTags
  TTL,     \* _IDTAG_TTL
  Never    \* not in the dict

ASSUME AuthorizationAssumption == TTL \in Nat /\ Never \notin Nat

VARIABLE recent  \* _recent_idtags: the age of each grant

Ages == 0 .. TTL + 1

AuthTypeOK == recent \in [IdTags -> Ages \cup {Never}]

Forgotten == [tag \in IdTags |-> Never]

AuthInit == recent = Forgotten

Within(age) == age # Never /\ age <= TTL

Aged(age) == IF Within(age) THEN age + 1 ELSE age

IdtagKnownMutant(tag) == recent[tag] # Never /\ recent[tag] < TTL

\* _idtag_known
IdtagKnown(tag) == Within(recent[tag])

RememberIdtagMutant(tag) ==
  recent' = IF recent[tag] = Never THEN [recent EXCEPT ![tag] = 0] ELSE recent

\* remember_idtag: the stale ones go, the tag's time is set or renewed.
RememberIdtag(tag) ==
  recent' = [t \in IdTags |-> IF t = tag THEN 0
                              ELSE IF Within(recent[t]) THEN recent[t] ELSE Never]

\* core_authorize_sync: only a 200 that says so is a yes; no core, no answer and
\* any other status are a no.
CoreVerdicts == BOOLEAN

\* on_authorize
Accepted(tag, verdict) == IdtagKnown(tag) \/ verdict

\* The dict is not stored: a restart of the hub empties it.
ForgetIdtags == recent' = Forgotten

\* time.monotonic()
Tick == recent' = [tag \in IdTags |-> Aged(recent[tag])]
=============================================================================
