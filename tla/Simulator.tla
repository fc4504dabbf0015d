------------------------------ MODULE Simulator ------------------------------
(***************************************************************************)
(* simulator/cp_sim.py: the charger the repository tests the hub with.     *)
(*                                                                         *)
(* One asyncio loop reads the link (handle_incoming) and runs a task for   *)
(* every command; a task waits inside call() for the hub's answer, for at  *)
(* most 30 seconds, while the others go on.  All of them share tx_id.      *)
(* A RemoteStart becomes a task that starts a transaction and then stays   *)
(* as its meter loop; a RemoteStop becomes a task that ends one.           *)
(*                                                                         *)
(* Status notifications, heartbeats and the register's values are left     *)
(* out but for the time they take: a task that waits for the answer to a   *)
(* status notification is in a phase of its own.                           *)
(***************************************************************************)
EXTENDS Naturals, Sequences

CONSTANTS
  Starts,  \* RemoteStarts that reach it
  TxIds,   \* transaction ids the hub gives out
  NoTx     \* tx_id is None

VARIABLES
  start,   \* phase of the task of each RemoteStart
  stop,    \* phase of the task that ends each transaction
  tx_id,   \* ChargePointSim.tx_id
  up       \* requests on their way to the hub, in the order of the link

simVars == <<start, stop, tx_id, up>>

\* op: the action; by: the task; tx: transactionId; heard: its link still stands.
Request == [op : {"Authorize", "StartTransaction", "MeterValues"}, by : Starts,
            tx : TxIds \cup {NoTx}, heard : BOOLEAN]
             \cup [op : {"StopTransaction"}, by : TxIds, tx : TxIds, heard : BOOLEAN]

SimTypeOK ==
  /\ start \in [Starts -> {"none", "preparing", "authorizing", "refused", "starting",
                           "charging", "sleeping", "metering", "over"}]
  /\ stop \in [TxIds -> {"none", "finishing", "stopping", "freeing", "over"}]
  /\ tx_id \in TxIds \cup {NoTx}
  /\ up \in Seq(Request)

SimInit ==
  /\ start = [n \in Starts |-> "none"]
  /\ stop = [t \in TxIds |-> "none"]
  /\ tx_id = NoTx
  /\ up = <<>>

Phase(n, phase) == start' = [start EXCEPT ![n] = phase]
StopPhase(t, phase) == stop' = [stop EXCEPT ![t] = phase]
Send(op, by, tx) == up' = Append(up, [op |-> op, by |-> by, tx |-> tx, heard |-> TRUE])

\* The head of the while loop of meter_loop.
LoopHead(tx) == IF tx = NoTx THEN "over" ELSE "sleeping"

-----------------------------------------------------------------------------
\* handle_incoming: RemoteStartTransaction is accepted and becomes a task.
TakeRemoteStart(n) ==
  /\ start[n] = "none"
  /\ Phase(n, "preparing")
  /\ UNCHANGED <<stop, tx_id, up>>

ReaderIsFreeMutant ==
  /\ \A n \in Starts : start[n] \in {"none", "over"}
  /\ \A t \in TxIds : stop[t] \in {"none", "over"}

\* The loop that reads the link hands its commands to tasks and waits for none.
ReaderIsFree == TRUE

TxAfterStopMutant == tx_id

\* stop_tx takes the id before its first await, so that meter loops stop.
TxAfterStop == NoTx

\* handle_incoming: RemoteStopTransaction is accepted in any case; the task does
\* nothing when no transaction is known yet.
TakeRemoteStop ==
  /\ tx_id # NoTx
  /\ stop[tx_id] = "none"
  /\ StopPhase(tx_id, "finishing")
  /\ tx_id' = TxAfterStop
  /\ UNCHANGED <<start, up>>

\* start_tx: "Preparing" was answered, Authorize is next.  After "Charging", and
\* also after the "Available" of a refused start, _remote_start begins a meter
\* loop: for whatever transaction tx_id then shows.
StatusAnswered(n) ==
  /\ ReaderIsFree
  /\ \/ /\ start[n] = "preparing"
        /\ Phase(n, "authorizing")
        /\ Send("Authorize", n, NoTx)
     \/ /\ start[n] \in {"charging", "refused"}
        /\ Phase(n, LoopHead(tx_id))
        /\ UNCHANGED up
  /\ UNCHANGED <<stop, tx_id>>

\* meter_loop after its sleep.
Wake(n) ==
  /\ start[n] = "sleeping"
  /\ IF tx_id = NoTx
     THEN Phase(n, "over") /\ UNCHANGED up
     ELSE Phase(n, "metering") /\ Send("MeterValues", n, tx_id)
  /\ UNCHANGED <<stop, tx_id>>

StoppedTxMutant(t) == tx_id

\* The transaction stop_tx names: the id it took, tx_id may show another by now.
StoppedTx(t) == t

\* stop_tx: "Finishing" was answered, StopTransaction is next; "Available" last.
StopStatusAnswered(t) ==
  /\ ReaderIsFree
  /\ \/ stop[t] = "finishing" /\ StopPhase(t, "stopping") /\ Send("StopTransaction", t, StoppedTx(t))
     \/ stop[t] = "freeing" /\ StopPhase(t, "over") /\ UNCHANGED up
  /\ UNCHANGED <<start, tx_id>>

-----------------------------------------------------------------------------
\* The hub takes the first request off the link; what its answer does to the task
\* that waits for it.  An answer nobody waits for any more is dropped.
Read == up' = Tail(up)

Authorized(n, accepted) ==
  /\ IF accepted
     THEN /\ Phase(n, "starting")
          /\ up' = Append(Tail(up), [op |-> "StartTransaction", by |-> n, tx |-> NoTx,
                                     heard |-> TRUE])
     ELSE Phase(n, "refused") /\ Read
  /\ UNCHANGED <<stop, tx_id>>

Started(n, t) == tx_id' = t /\ Phase(n, "charging") /\ Read /\ UNCHANGED stop

Metered(n) == Phase(n, LoopHead(tx_id)) /\ Read /\ UNCHANGED <<stop, tx_id>>

Stopped(t) == StopPhase(t, "freeing") /\ Read /\ UNCHANGED <<start, tx_id>>

Unheard == Read /\ UNCHANGED <<start, stop, tx_id>>

\* Is a task still inside call() for the answer to r?
Awaits(r) ==
  /\ r.heard
  /\ ReaderIsFree
  /\ CASE r.op = "Authorize" -> start[r.by] = "authorizing"
       [] r.op = "StartTransaction" -> start[r.by] = "starting"
       [] r.op = "MeterValues" -> start[r.by] = "metering"
       [] r.op = "StopTransaction" -> stop[r.by] = "stopping"

\* The answer is a CALLERROR: the exception ends the task.
Raised(r) ==
  /\ IF r.op = "StopTransaction"
     THEN StopPhase(r.by, "over") /\ UNCHANGED start
     ELSE Phase(r.by, "over") /\ UNCHANGED stop
  /\ Read
  /\ UNCHANGED tx_id

\* call() gives up after 30 seconds, and the task with it.  A refused or started
\* transaction's task ends before it has begun its meter loop.
StartFails(n) ==
  /\ start[n] \in {"preparing", "authorizing", "refused", "starting", "charging", "metering"}
  /\ Phase(n, "over")
  /\ UNCHANGED <<stop, tx_id, up>>

StopFails(t) ==
  /\ stop[t] \in {"finishing", "stopping", "freeing"}
  /\ StopPhase(t, "over")
  /\ UNCHANGED <<start, tx_id, up>>

-----------------------------------------------------------------------------
\* The link breaks, or the process is stopped.  The simulator does not connect
\* again by itself: its tasks come to nothing and it is started anew, with no
\* tx_id.  The hub has got the first k requests on the link; the RemoteStarts in
\* lost were still on their way.
LinkBreaks(k, lost) ==
  /\ up' = [i \in 1 .. k |-> [up[i] EXCEPT !.heard = FALSE]]
  /\ start' = [n \in Starts |-> IF start[n] = "none" /\ n \notin lost THEN "none" ELSE "over"]
  /\ stop' = [t \in TxIds |-> IF stop[t] = "none" THEN "none" ELSE "over"]
  /\ tx_id' = NoTx
=============================================================================
