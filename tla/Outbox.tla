------------------------------- MODULE Outbox -------------------------------
(***************************************************************************)
(* The outbox of events for the core: table hub_events, filled by the      *)
(* handlers, the sweeper and _mark_disconnect inside their database        *)
(* transactions; hub/core_client.py (the one delivery worker of the        *)
(* process), POST /events/replay of hub/admin_api.py, and the deletion in  *)
(* hub/retention.py.                                                       *)
(*                                                                         *)
(* The id of an event is drawn when its INSERT is flushed, and it can be   *)
(* read when its transaction commits, so that a later id may be committed  *)
(* first.  The worker reads a batch in id order and posts one event after  *)
(* the other; the outcome of a post is committed after the answer, and a   *)
(* restart in between leaves the event to be posted again.                 *)
(*                                                                         *)
(* An operator XMutant is a plausible slip in the code X models; nothing   *)
(* uses it.                                                                *)
(***************************************************************************)
EXTENDS RowOrder

CONSTANTS
  MaxEvents,  \* bound: ids ever drawn
  Batch       \* _BATCH, how many events are read at once

ASSUME OutboxAssumption == MaxEvents \in Nat /\ Batch \in Nat \ {0}

Ids == 1 .. MaxEvents

VARIABLES
  status,   \* HubEvent.status; "NONE" no id yet, "OPEN" not committed, "GONE" no row
  before,   \* history: the events that were committed when an id was drawn
  batch,    \* ids the worker has read and not settled, the current one first
  answer,   \* what the core said to the post of the current one
  seen,     \* the core: events it has processed
  refused   \* the core: events the hub noted as refused

vars == <<status, before, batch, answer, seen, refused>>

DrawnMutant == {i \in Ids : status[i] \notin {"NONE", "GONE"}}

\* Ids the sequence of the table has given out, also to transactions that failed.
Drawn == {i \in Ids : status[i] # "NONE"}
Committed == {i \in Ids : status[i] \in {"PENDING", "DONE", "FAILED", "DELETED"}}
PendingMutant ==
  {i \in Ids : status[i] = "PENDING" /\ \A j \in Ids : status[j] = "DONE" => j < i}

\* What the worker looks for.
Pending == {i \in Ids : status[i] = "PENDING"}

Init ==
  /\ status = [i \in Ids |-> "NONE"]
  /\ before = [i \in {} |-> {}]
  /\ batch = <<>>
  /\ answer = "none"
  /\ seen = {}
  /\ refused = {}

-----------------------------------------------------------------------------
\* emit: an INSERT of somebody's transaction is flushed.
Emit ==
  LET i == Cardinality(Drawn) + 1
  IN /\ i <= MaxEvents
     /\ status' = [status EXCEPT ![i] = "OPEN"]
     /\ before' = [j \in DOMAIN before \cup {i} |-> IF j = i THEN Committed ELSE before[j]]
     /\ UNCHANGED <<batch, answer, seen, refused>>

Commit(i) ==
  /\ status[i] = "OPEN"
  /\ status' = [status EXCEPT ![i] = "PENDING"]
  /\ UNCHANGED <<before, batch, answer, seen, refused>>

\* Its transaction is rolled back: the id is never used again.
Rollback(i) ==
  /\ status[i] = "OPEN"
  /\ status' = [status EXCEPT ![i] = "GONE"]
  /\ UNCHANGED <<before, batch, answer, seen, refused>>

-----------------------------------------------------------------------------
\* The query of _deliver_batch: ORDER BY id LIMIT _BATCH.
Fetch ==
  LET rows == FirstRows(Pending, Batch)
  IN /\ batch = <<>>
     /\ rows # {}
     /\ batch' = InOrder(rows)
     /\ UNCHANGED <<status, before, answer, seen, refused>>

\* The post of the current event and the core's side of it: the core processes
\* an event once, by its Idempotency-Key, and says so again (409) if asked again;
\* it may refuse an event (400, 422), fail (5xx), or not be reached, before or
\* after it processed the event.
Post ==
  LET i == Head(batch)
  IN /\ batch # <<>>
     /\ answer = "none"
     /\ \/ seen' = seen \cup {i} /\ answer' \in {"ok", "unreachable"}
        \/ i \notin seen /\ seen' = seen /\ answer' \in {"rejected"}
        \/ seen' = seen /\ answer' \in {"unreachable", "error"}
     /\ UNCHANGED <<status, before, batch, refused>>

IsTakenMutant == answer \in {"ok", "error"}

\* The core has the event: 200, 201, 202 or 409.
IsTaken == answer = "ok"

\* DONE is committed, the next event is posted.
SettleDone ==
  /\ IsTaken
  /\ status' = [status EXCEPT ![Head(batch)] = "DONE"]
  /\ batch' = Tail(batch)
  /\ answer' = "none"
  /\ UNCHANGED <<before, seen, refused>>

\* 400 or 422: FAILED is committed so that the queue is not blocked.
SettleFailed ==
  /\ answer = "rejected"
  /\ status' = [status EXCEPT ![Head(batch)] = "FAILED"]
  /\ refused' = refused \cup {Head(batch)}
  /\ batch' = Tail(batch)
  /\ answer' = "none"
  /\ UNCHANGED <<before, seen>>

AfterErrorMutant == Tail(batch)

\* What is left of the batch after an error: nothing, the queue stops here.
AfterError == <<>>

\* No connection, or a 5xx: the event stays PENDING and a new batch is read.
Retry ==
  /\ answer \in {"unreachable", "error"}
  /\ batch' = AfterError
  /\ answer' = "none"
  /\ UNCHANGED <<status, before, seen, refused>>

\* Any other exception, of the database at a commit for one: nothing is noted,
\* deliver_events_forever logs it and a new batch is read.
BatchAborts ==
  /\ batch # <<>>
  /\ batch' = <<>>
  /\ answer' = "none"
  /\ UNCHANGED <<status, before, seen, refused>>

\* A restart of the process.
Crash ==
  /\ batch # <<>>
  /\ batch' = <<>>
  /\ answer' = "none"
  /\ status' = [i \in Ids |-> IF status[i] = "OPEN" THEN "GONE" ELSE status[i]]
  /\ UNCHANGED <<before, seen, refused>>

\* What POST /events/replay makes PENDING again.
Replayed(from) == {i \in Ids : i >= from /\ status[i] = "DONE"}

Replay(from) ==
  /\ Replayed(from) # {}
  /\ status' = [i \in Ids |-> IF i \in Replayed(from) THEN "PENDING" ELSE status[i]]
  /\ UNCHANGED <<before, batch, answer, seen, refused>>

DeletableMutant(i) == i \in Committed

\* retention._cleanup_done_rows, after 14 days.
Deletable(i) == status[i] = "DONE"

Delete(i) ==
  /\ Deletable(i)
  /\ status' = [status EXCEPT ![i] = "DELETED"]
  /\ UNCHANGED <<before, batch, answer, seen, refused>>

Next ==
  \/ Emit \/ \E i \in Ids : Commit(i) \/ Rollback(i)
  \/ Fetch \/ Post \/ SettleDone \/ SettleFailed \/ Retry \/ BatchAborts \/ Crash
  \/ \E i \in Ids : Replay(i) \/ Delete(i)

Spec == Init /\ [][Next]_vars

CoreAnswers == Post /\ answer' \in {"ok", "rejected"}

\* The worker's loop goes on, and the core recovers: it answers each event at
\* last.  The process is not restarted, its database does not fail, and the
\* history is not replayed, for ever.
Fairness ==
  /\ WF_vars(Fetch) /\ WF_vars(Post) /\ SF_vars(CoreAnswers)
  /\ WF_vars(SettleDone) /\ WF_vars(SettleFailed) /\ WF_vars(Retry)
  /\ <>[][~Crash /\ ~BatchAborts /\ \A i \in Ids : ~Replay(i)]_vars

FairSpec == Spec /\ Fairness

-----------------------------------------------------------------------------
TypeOK ==
  /\ status \in [Ids -> {"NONE", "OPEN", "GONE", "PENDING", "DONE", "FAILED", "DELETED"}]
  /\ DOMAIN before = Drawn
  /\ \A i \in Drawn : before[i] \subseteq Ids
  /\ batch \in Seq(Ids)
  /\ answer \in {"none", "ok", "rejected", "unreachable", "error"}
  /\ seen \subseteq Ids
  /\ refused \subseteq Ids

\* An event leaves the queue only when the core has it or has refused it: a
\* restart between a post and its commit, a replay and the deletion of old rows
\* lose nothing (class HubEvent, hub/models.py:156-160).
NothingLost ==
  \A i \in Committed :
    \/ status[i] = "PENDING"
    \/ status[i] \in {"DONE", "DELETED"} /\ i \in seen
    \/ status[i] = "FAILED" /\ i \in refused

\* The batch is the front of the queue: rows that are PENDING, in id order, so
\* that no replay or deletion pulls a row from under the worker.
BatchIsPending ==
  /\ \A n \in DOMAIN batch : status[batch[n]] = "PENDING"
  /\ \A n, m \in DOMAIN batch : n < m => batch[n] < batch[m]

Feed == INSTANCE EventFeed WITH fed <- seen

\* The outbox keeps the promise of EventFeed: the core processes an event after
\* all that was committed before it came into being.
FeedSpec == Feed!Spec

\* An event that was committed reaches the core, or is refused, when the core
\* answers again (hub/models.py:158-159).
EventsArrive ==
  \A i \in Ids : status[i] = "PENDING" ~> (i \in seen \/ i \in refused)
=============================================================================
