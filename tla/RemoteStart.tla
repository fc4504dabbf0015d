----------------------------- MODULE RemoteStart -----------------------------
(***************************************************************************)
(* A RemoteStart from its enqueueing to the end of the transactions it     *)
(* starts: the command worker (Commands), the idTags it lets in            *)
(* (Authorization) and the charger that carries it out (Simulator), over   *)
(* one link that may break, with a hub that may restart.                   *)
(*                                                                         *)
(* The hub reads the requests of the link one after the other; each is one *)
(* step here, with its answer.  RemoteStops, which are commands too, come  *)
(* at any time the charger is online.  Of the transactions the hub keeps,  *)
(* this module knows whether they run; Transactions has the rest.  The     *)
(* command does not expire here, and a restarted simulator's boot, whose   *)
(* configuration commands share the queue, is left out: Commands has both. *)
(*                                                                         *)
(* An operator XMutant is a plausible slip in the code X models; nothing   *)
(* uses it.                                                                *)
(***************************************************************************)
EXTENDS Commands, Authorization, Simulator

CONSTANTS
  Cp,      \* the charger
  Tag      \* the idTag the RemoteStart is for

ASSUME RemoteStartAssumption ==
  /\ Cp \in Chargers
  /\ Tag \in IdTags
  /\ 1 .. MaxAttempts \subseteq Starts
  /\ TxIds = Starts

VARIABLES
  tx,       \* OcppTransaction.status of each id, "none" before
  sentAgo,  \* history: how long ago this hub process last sent the RemoteStart
  trouble   \* history: a request failed, the link broke or the hub restarted

remoteVars == <<vars, recent, simVars, tx, sentAgo, trouble>>

RemoteInit ==
  /\ Init /\ AuthInit /\ SimInit
  /\ tx = [t \in TxIds |-> "none"]
  /\ sentAgo = Never
  /\ trouble = FALSE

-----------------------------------------------------------------------------
\* The command worker.
WorkerStep ==
  /\ ExpirePending \/ Claim \/ PutBack \/ Complete \/ Fail
  /\ UNCHANGED <<recent, simVars, tx, sentAgo, trouble>>

RememberMutant == IF attempts[1] = 0 THEN RememberIdtag(Tag) ELSE UNCHANGED recent

\* _execute remembers the idTag of a RemoteStart before every attempt.
Remember == RememberIdtag(Tag)

\* It sends the Call, or finds the link broken as it does.
SendStart ==
  /\ Call \/ CallAborts
  /\ Remember
  /\ sentAgo' = 0
  /\ UNCHANGED <<simVars, tx, trouble>>

CoreEnqueues ==
  /\ Enqueue(Cp, "remote")
  /\ UNCHANGED <<recent, simVars, tx, sentAgo, trouble>>

-----------------------------------------------------------------------------
\* The charger takes commands only over a link that stands.
ChargerTakesStart(n) ==
  /\ Cp \in online
  /\ CarryOut(1, n)
  /\ TakeRemoteStart(n)
  /\ UNCHANGED <<recent, tx, sentAgo, trouble>>

ChargerTakesStop ==
  /\ Cp \in online
  /\ TakeRemoteStop
  /\ UNCHANGED <<vars, recent, tx, sentAgo, trouble>>

StartGoesOn(n) ==
  /\ StatusAnswered(n) \/ Wake(n)
  /\ UNCHANGED <<vars, recent, tx, sentAgo, trouble>>

StopGoesOn(t) ==
  /\ StopStatusAnswered(t)
  /\ UNCHANGED <<vars, recent, tx, sentAgo, trouble>>

ChargerGivesUp ==
  /\ (\E n \in Starts : StartFails(n)) \/ (\E t \in TxIds : StopFails(t))
  /\ trouble' = TRUE
  /\ UNCHANGED <<vars, recent, tx, sentAgo>>

-----------------------------------------------------------------------------
\* The hub handles the next request of the charger, and the answer goes back.
IsNext(op) == up # <<>> /\ Head(up).op = op

Hear(r, effect) == IF Awaits(r) THEN effect ELSE Unheard

HandleAuthorize ==
  /\ IsNext("Authorize")
  /\ \E verdict \in CoreVerdicts :
       Hear(Head(up), Authorized(Head(up).by, Accepted(Tag, verdict)))
  /\ UNCHANGED <<vars, recent, tx, sentAgo, trouble>>

NextTxId == Cardinality({t \in TxIds : tx[t] # "none"}) + 1

\* on_start_transaction asks nobody: whoever starts, starts.
HandleStart ==
  /\ IsNext("StartTransaction")
  /\ tx' = [tx EXCEPT ![NextTxId] = "RUNNING"]
  /\ Hear(Head(up), Started(Head(up).by, NextTxId))
  /\ UNCHANGED <<vars, recent, sentAgo, trouble>>

HandleMeter ==
  /\ IsNext("MeterValues")
  /\ Hear(Head(up), Metered(Head(up).by))
  /\ UNCHANGED <<vars, recent, tx, sentAgo, trouble>>

HandleStop ==
  /\ IsNext("StopTransaction")
  /\ tx' = [t \in TxIds |-> IF t = Head(up).tx THEN "STOPPED" ELSE tx[t]]
  /\ Hear(Head(up), Stopped(Head(up).by))
  /\ UNCHANGED <<vars, recent, sentAgo, trouble>>

\* An exception in the handler: nothing is committed, a CALLERROR goes back.
HandlerRaises ==
  /\ up # <<>>
  /\ Hear(Head(up), Raised(Head(up)))
  /\ trouble' = TRUE
  /\ UNCHANGED <<vars, recent, tx, sentAgo>>

-----------------------------------------------------------------------------
\* Attempts whose Call is still on its way.
InTransit == {n \in Starts : <<1, n>> \in wire}

Connects ==
  /\ GoesOnline(Cp)
  /\ UNCHANGED <<recent, simVars, tx, sentAgo, trouble>>

Disconnects ==
  /\ GoesOffline(Cp)
  /\ \E k \in 0 .. Len(up) : LinkBreaks(k, InTransit)
  /\ trouble' = TRUE
  /\ UNCHANGED <<recent, tx, sentAgo>>

\* The hub restarts, in the middle of a batch or while the worker sleeps.
HubRestarts ==
  /\ Crash \/ (at = "idle" /\ GoesOffline(Cp))
  /\ LinkBreaks(0, InTransit)
  /\ ForgetIdtags
  /\ sentAgo' = Never
  /\ trouble' = TRUE
  /\ UNCHANGED tx

TimePasses ==
  /\ Tick
  /\ sentAgo' = Aged(sentAgo)
  /\ UNCHANGED <<vars, simVars, tx, trouble>>

Handle == HandleAuthorize \/ HandleStart \/ HandleMeter \/ HandleStop

RemoteNext ==
  \/ CoreEnqueues \/ WorkerStep \/ SendStart
  \/ (\E n \in Starts : ChargerTakesStart(n) \/ StartGoesOn(n))
  \/ ChargerTakesStop \/ (\E t \in TxIds : StopGoesOn(t)) \/ ChargerGivesUp
  \/ Handle \/ HandlerRaises
  \/ Connects \/ Disconnects \/ HubRestarts \/ TimePasses

RemoteSpec == RemoteInit /\ [][RemoteNext]_remoteVars

\* The hub answers what it has read, and an answered task goes on.
RemoteFairness ==
  /\ WF_remoteVars(Handle)
  /\ \A n \in Starts : WF_remoteVars(StartGoesOn(n))
  /\ \A t \in TxIds : WF_remoteVars(StopGoesOn(t))

RemoteFairSpec == RemoteSpec /\ RemoteFairness

-----------------------------------------------------------------------------
RemoteTypeOK ==
  /\ TypeOK /\ AuthTypeOK /\ SimTypeOK
  /\ tx \in [TxIds -> {"none", "RUNNING", "STOPPED"}]
  /\ sentAgo \in Ages \cup {Never}
  /\ trouble \in BOOLEAN

\* "A charging session already granted can start, even when the core is down"
\* (hub/ocpp/handlers.py:25-27): within the TTL of the last attempt, first or
\* repeated, the charger's Authorize is not refused, unless the hub restarted.
GrantHonoured ==
  [][\A n \in Starts :
       start[n] # "refused" /\ start'[n] = "refused" => ~Within(sentAgo)]_remoteVars

\* A RemoteStart does not start more transactions than it has attempts, however
\* answers, links, processes and the hub fail: nobody pays for a fourth one.
StartsAtMostMax ==
  Cardinality({t \in TxIds : tx[t] # "none"}) <= MaxAttempts

\* No reading comes behind the stop of its transaction, where its ev.meter would
\* follow the ev.tx_stopped the core has settled (hub/ocpp/handlers.py:247).  The
\* charger keeps to it although its meter loops run beside the stop.
NoMeterAfterStop == IsNext("MeterValues") => tx[Head(up).tx] = "RUNNING"

\* A RemoteStart the charger accepted comes to a transaction, unless it is refused
\* or something fails.
RemoteStartRuns ==
  \A n \in Starts : start[n] = "preparing" ~> (start[n] \in {"charging", "refused"} \/ trouble)

\* A RemoteStop that found a transaction ends it in the hub, unless something fails.
RemoteStopEnds ==
  \A t \in TxIds : stop[t] = "finishing" ~> (tx[t] = "STOPPED" \/ trouble)
=============================================================================
