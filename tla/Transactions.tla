---------------------------- MODULE Transactions ----------------------------
(***************************************************************************)
(* The life of a raw OCPP transaction in the hub: hub/ocpp/handlers.py     *)
(* (StartTransaction, MeterValues, StopTransaction, StatusNotification)    *)
(* and hub/sweeper.py, over the tables of hub/models.py.                   *)
(*                                                                         *)
(* Every CALL of a charger runs in a thread of the pool, inside one        *)
(* database transaction: it reads (taking the row locks the code takes     *)
(* with FOR UPDATE), and all it writes becomes visible at db.commit().     *)
(* A handler whose reads decide its writes is therefore two steps, Begin   *)
(* and Commit, with any step of the other workers in between; Abort is     *)
(* the rollback of main._handle_call_sync.  The orphan sweeper runs beside *)
(* the pool, reads WITHOUT locks one transaction after the other, and      *)
(* commits once at the end, after a flush whose order counts.  PostgreSQL's*)
(* READ COMMITTED isolation and autoflush=False are the ones               *)
(* hub/database.py sets up.                                                *)
(*                                                                         *)
(* An operator XMutant is a plausible slip in the code X models.  Nothing  *)
(* uses it; put in the place of X it must break the property named for it  *)
(* in PROJECT.json.                                                        *)
(***************************************************************************)
EXTENDS Integers, FiniteSets, SequencesExt

CONSTANTS
  Chargers,    \* rows of chargers
  ConnectorIds, \* connector numbers of a charger (connectorId)
  Workers,     \* threads of the pool that run _handle_call_sync
  Readings,    \* values of a charger's energy register, in Wh
  OrphanAge,   \* ORPHAN_MINUTES, in clock ticks
  StartAges,   \* how old the timestamp of a StartTransaction may be
  RegisterResets, \* TRUE: a replaced meter may count from a lower value again
  MaxTx,       \* bound: transactions ever started
  MaxSamples,  \* bound: MeterValues messages of one transaction
  None         \* SQL NULL, "no lock", "no sample"

Connectors == Chargers \X ConnectorIds  \* rows of charger_connectors

ASSUME TransactionsAssumption ==
  /\ Readings \subseteq Nat
  /\ OrphanAge \in Nat
  /\ StartAges \subseteq 0 .. OrphanAge + 1
  /\ RegisterResets \in BOOLEAN
  /\ MaxTx \in Nat
  /\ MaxSamples \in Nat
  /\ None \notin Nat
  /\ None \notin Workers
  /\ None \notin Connectors
  /\ None \notin [wh : Readings \cup {None}, age : 0 .. OrphanAge + 1]

TxIds == 1 .. MaxTx
NoTx == 0
Meter == Readings \cup {None}

\* How long ago a timestamp is; everything older than the cutoff is alike.
Ages == 0 .. OrphanAge + 1
Sample == [wh : Meter, age : Ages]

VARIABLES
  tx_counter,      \* TxCounter.value
  counterLock,     \* the worker whose SELECT ... FOR UPDATE holds the counter row
  status,          \* OcppTransaction.status, "NONE" while the row does not exist
  txConn,          \* OcppTransaction.connector_id (with its charger)
  meter_start_wh,  \* OcppTransaction.meter_start_wh
  energy_wh,       \* OcppTransaction.energy_wh
  startedAge,      \* utcnow() - OcppTransaction.started_at
  txLock,          \* the worker whose SELECT ... FOR UPDATE holds the row
  lastSample,      \* MeterSample of the transaction with the newest sampled_at
  nSamples,        \* how many MeterValues of the transaction arrived (bound)
  active_tx_id,    \* ChargerConnector.active_tx_id
  events,          \* hub_events of each transaction, committed, in the order of their ids
  job,             \* what each worker is doing
  sweepOn,         \* sweep_once is running
  sweepTodo,       \* stale rows it has read and not looked at yet
  sweepEnds,       \* rows it has decided to close, not committed yet
  sweepEnergy,     \* the energy it will write to each of them
  sweepClears,     \* those whose connector it will clear
  sweepSeen,       \* active_tx_id of the connectors as its session has read them
  sweepFlushed,    \* its flush has got to the UPDATE of ocpp_transactions
  sweepPlace,      \* place of each of its events, by the id the flush has drawn
  highest,         \* history: highest register value reported for a transaction
  strayed          \* history: transactions stopped under the cp_id of another charger

txVars == <<status, txConn, meter_start_wh, energy_wh, startedAge>>
sampleVars == <<lastSample, nSamples>>
flushVars == <<sweepFlushed, sweepPlace>>
sweepVars == <<sweepOn, sweepTodo, sweepEnds, sweepEnergy, sweepClears, sweepSeen,
               flushVars>>
historyVars == <<highest, strayed>>
vars == <<tx_counter, counterLock, txVars, txLock, sampleVars, active_tx_id,
          events, job, sweepVars, historyVars>>

Idle == [op |-> "idle", tx |-> NoTx, conn |-> None, clears |-> FALSE,
         meter |-> None, age |-> 0]

Job == [op : {"idle", "start", "stop", "status"}, tx : TxIds \cup {NoTx},
        conn : Connectors \cup {None}, clears : BOOLEAN, meter : Meter, age : Ages]

\* energy is a number in every event of a stop that has both register values
Event == [kind : {"ev.tx.started", "ev.meter", "ev.tx.stopped"},
          reason : {"", "Charger", "Orphaned"}, energy : Nat \cup {None}]

Ev(kind, reason, energy) == [kind |-> kind, reason |-> reason, energy |-> energy]

-----------------------------------------------------------------------------
DifferenceMutant(stop, start) == stop - start

\* max(0, stop - start), on two values that are not NULL
Difference(stop, start) == IF stop > start THEN stop - start ELSE 0

\* The energy a StopTransaction records: NULL unless both values are known.
StopEnergy(stop, start) ==
  IF stop = None \/ start = None THEN None ELSE Difference(stop, start)

\* What a history of the register keeps of a further reading.
Higher(old, new) ==
  IF new = None \/ (old # None /\ new # None /\ old > new) THEN old ELSE new

\* The next value a charger reports for t; a register only grows, or is replaced.
NextReadings(t) ==
  {None} \cup {r \in Readings : RegisterResets \/ highest[t] = None \/ r >= highest[t]}

\* Samples reach the hub in the order of their timestamps, none before the start.
NextAges(t) ==
  {a \in Ages : /\ a <= startedAge[t]
                /\ lastSample[t] # None => a <= lastSample[t].age}

Init ==
  /\ tx_counter = 0
  /\ counterLock = None
  /\ status = [t \in TxIds |-> "NONE"]
  /\ txConn = [t \in TxIds |-> None]
  /\ meter_start_wh = [t \in TxIds |-> None]
  /\ energy_wh = [t \in TxIds |-> None]
  /\ startedAge = [t \in TxIds |-> 0]
  /\ txLock = [t \in TxIds |-> None]
  /\ lastSample = [t \in TxIds |-> None]
  /\ nSamples = [t \in TxIds |-> 0]
  /\ active_tx_id = [c \in Connectors |-> NoTx]
  /\ events = [t \in TxIds |-> <<>>]
  /\ job = [w \in Workers |-> Idle]
  /\ sweepOn = FALSE
  /\ sweepTodo = {}
  /\ sweepEnds = {}
  /\ sweepEnergy = [t \in TxIds |-> 0]
  /\ sweepClears = {}
  /\ sweepSeen = [c \in Connectors |-> None]
  /\ sweepFlushed = FALSE
  /\ sweepPlace = [t \in TxIds |-> 0]
  /\ highest = [t \in TxIds |-> None]
  /\ strayed = {}

-----------------------------------------------------------------------------
CounterFreeMutant == TRUE

\* SELECT ... FOR UPDATE on the counter row gets through.
CounterFree == counterLock = None

RowFreeMutant(t) == TRUE

\* SELECT ... FOR UPDATE on the row of t gets through.
RowFree(t) == txLock[t] = None

StoppableMutant(t) == status[t] # "NONE"

\* A StopTransaction changes the row of t; others are only acknowledged.
Stoppable(t) == status[t] = "RUNNING"

ShowsMutant(shown, t) == FALSE

\* conn.active_tx_id == tx.ocpp_tx_id: the connector will be cleared.
Shows(shown, t) == shown = t

\* The UPDATE of the connector's row gets through: no sweep that has written it
\* is waiting for its other rows.
ConnFree(c) == ~(sweepFlushed /\ \E t \in sweepClears : txConn[t] = c)

\* _connector(db, charger, tx.connector_id): the connector of that number of the
\* charger that SENT the StopTransaction, which need not be the transaction's.
SendersConnector(cp, t) == <<cp, txConn[t][2]>>

\* on_start_transaction.  _next_tx_id locks the counter row until the commit;
\* the charger's timestamp may be old (a start buffered while it was offline).
StartBegin(w, c, m, age) ==
  /\ job[w] = Idle
  /\ CounterFree
  /\ tx_counter < MaxTx
  /\ counterLock' = w
  /\ job' = [job EXCEPT ![w] = [op |-> "start", tx |-> tx_counter + 1, conn |-> c,
                                clears |-> FALSE, meter |-> m, age |-> age]]
  /\ UNCHANGED <<tx_counter, txVars, txLock, sampleVars, active_tx_id, events,
                 sweepVars, historyVars>>

\* The commit: the row, the connector (a blind write) and ev.tx.started.  The
\* UNIQUE constraint on ocpp_tx_id refuses an id that is taken.
StartCommit(w) ==
  LET t == job[w].tx
      c == job[w].conn
  IN /\ job[w].op = "start"
     /\ status[t] = "NONE"
     /\ ConnFree(c)
     /\ tx_counter' = t
     /\ counterLock' = None
     /\ status' = [status EXCEPT ![t] = "RUNNING"]
     /\ txConn' = [txConn EXCEPT ![t] = c]
     /\ meter_start_wh' = [meter_start_wh EXCEPT ![t] = job[w].meter]
     /\ startedAge' = [startedAge EXCEPT ![t] = job[w].age]
     /\ active_tx_id' = [active_tx_id EXCEPT ![c] = t]
     /\ events' = [events EXCEPT ![t] = Append(@, Ev("ev.tx.started", "", None))]
     /\ highest' = [highest EXCEPT ![t] = job[w].meter]
     /\ job' = [job EXCEPT ![w] = Idle]
     /\ UNCHANGED <<energy_wh, txLock, sampleVars, sweepVars, strayed>>

\* on_meter_values for a transaction the hub issued, at its commit: all it
\* reads of the row (its existence, meter_start_wh) never changes, so one step
\* is exact for the sample (no property asks where an ev.meter stands among the
\* events).  It does not look at the status: a buffered sample of a closed
\* transaction is stored and reported as well.  The connector it names is its
\* sender's choice, so it need not wait for that of the transaction.
MeterValues(w, t, wh, age) ==
  /\ job[w] = Idle
  /\ status[t] # "NONE"
  /\ nSamples[t] < MaxSamples
  /\ lastSample' = [lastSample EXCEPT ![t] = [wh |-> wh, age |-> age]]
  /\ nSamples' = [nSamples EXCEPT ![t] = @ + 1]
  /\ highest' = [highest EXCEPT ![t] = Higher(@, wh)]
  /\ events' = IF wh # None /\ meter_start_wh[t] # None
               THEN [events EXCEPT ![t] = Append(@,
                       Ev("ev.meter", "", Difference(wh, meter_start_wh[t])))]
               ELSE events
  /\ UNCHANGED <<tx_counter, counterLock, txVars, txLock, active_tx_id, job,
                 sweepVars, strayed>>

\* on_stop_transaction of a RUNNING row: FOR UPDATE keeps the row for this
\* worker until it commits; the connector is read afterwards, without a lock.
\* Nothing compares the sender with the transaction's charger: one that has got
\* another cp_id sends what its offline queue holds under the new one.
\* (An unknown id and a row that is already STOPPED are only acknowledged.)
StopBegin(w, t, cp, m) ==
  /\ job[w] = Idle
  /\ RowFree(t)
  /\ Stoppable(t)
  /\ txLock' = [txLock EXCEPT ![t] = w]
  /\ LET c == SendersConnector(cp, t)
     IN job' = [job EXCEPT ![w] = [op |-> "stop", tx |-> t, conn |-> c,
                                   clears |-> Shows(active_tx_id[c], t),
                                   meter |-> m, age |-> 0]]
  /\ UNCHANGED <<tx_counter, counterLock, txVars, sampleVars, active_tx_id,
                 events, sweepVars, historyVars>>

StopCommit(w) ==
  LET t == job[w].tx
      energy == StopEnergy(job[w].meter, meter_start_wh[t])
  IN /\ job[w].op = "stop"
     /\ job[w].clears => ConnFree(job[w].conn)
     /\ status' = [status EXCEPT ![t] = "STOPPED"]
     /\ energy_wh' = [energy_wh EXCEPT ![t] = IF energy = None THEN @ ELSE energy]
     /\ active_tx_id' = IF job[w].clears
                        THEN [active_tx_id EXCEPT ![job[w].conn] = NoTx]
                        ELSE active_tx_id
     /\ events' = [events EXCEPT ![t] = Append(@,
                     Ev("ev.tx.stopped", "Charger", energy_wh'[t]))]
     /\ highest' = [highest EXCEPT ![t] = Higher(@, job[w].meter)]
     /\ strayed' = IF job[w].conn = txConn[t] THEN strayed ELSE strayed \cup {t}
     /\ txLock' = [txLock EXCEPT ![t] = None]
     /\ job' = [job EXCEPT ![w] = Idle]
     /\ UNCHANGED <<tx_counter, counterLock, txConn, meter_start_wh, startedAge,
                    sampleVars, sweepVars>>

\* on_status_notification "Available": it clears the connector if it READ it
\* as busy; every other status leaves the modelled columns alone.
StatusBegin(w, c) ==
  /\ job[w] = Idle
  /\ active_tx_id[c] # NoTx
  /\ job' = [job EXCEPT ![w] = [op |-> "status", tx |-> NoTx, conn |-> c,
                                clears |-> TRUE, meter |-> None, age |-> 0]]
  /\ UNCHANGED <<tx_counter, counterLock, txVars, txLock, sampleVars, active_tx_id,
                 events, sweepVars, historyVars>>

StatusCommit(w) ==
  /\ job[w].op = "status"
  /\ ConnFree(job[w].conn)
  /\ active_tx_id' = [active_tx_id EXCEPT ![job[w].conn] = NoTx]
  /\ job' = [job EXCEPT ![w] = Idle]
  /\ UNCHANGED <<tx_counter, counterLock, txVars, txLock, sampleVars, events,
                 sweepVars, historyVars>>

\* Any exception in a handler (lock_timeout, a deadlock the database breaks, a
\* value int() refuses): rollback, the locks go, the charger gets a CallError.
Abort(w) ==
  /\ job[w].op # "idle"
  /\ job' = [job EXCEPT ![w] = Idle]
  /\ counterLock' = IF counterLock = w THEN None ELSE counterLock
  /\ txLock' = [t \in TxIds |-> IF txLock[t] = w THEN None ELSE txLock[t]]
  /\ UNCHANGED <<tx_counter, txVars, sampleVars, active_tx_id, events, sweepVars,
                 historyVars>>

-----------------------------------------------------------------------------
StaleMutant(t) ==
  status[t] = "RUNNING" /\ startedAge[t] > OrphanAge /\ lastSample[t] # None

\* RUNNING and started before the cutoff: what sweep_once looks at.
Stale(t) == status[t] = "RUNNING" /\ startedAge[t] > OrphanAge

\* Its last sample is after the cutoff.
Alive(t) == lastSample[t] # None /\ lastSample[t].age < OrphanAge

OrphanEnergyMutant(t) ==
  IF lastSample[t] # None /\ lastSample[t].wh # None THEN lastSample[t].wh ELSE 0

\* The energy an orphan is closed with: the register value of its last sample,
\* or of its start if that sample carries none.
OrphanEnergy(t) ==
  LET stop == IF lastSample[t] # None /\ lastSample[t].wh # None
              THEN lastSample[t].wh ELSE meter_start_wh[t]
  IN IF stop = None \/ meter_start_wh[t] = None
     THEN 0 ELSE Difference(stop, meter_start_wh[t])

\* sweep_once: the query for stale rows, which takes no lock.
SweepStart ==
  /\ ~sweepOn
  /\ \E t \in TxIds : Stale(t)
  /\ sweepOn' = TRUE
  /\ sweepTodo' = {t \in TxIds : Stale(t)}
  /\ UNCHANGED <<tx_counter, counterLock, txVars, txLock, sampleVars, active_tx_id,
                 events, job, sweepEnds, sweepEnergy, sweepClears, sweepSeen, flushVars,
                 historyVars>>

\* What the sweep finds on a connector: what it shows now, or what it showed in
\* an earlier turn if the session still holds the object it loaded then (its
\* identity map is weak, and a query does not refresh an object it finds there).
Found(c) == {active_tx_id[c]} \cup ({sweepSeen[c]} \ {None})

\* One turn of its loop: the last sample and the connector are read now.
SweepScan(t) ==
  /\ t \in sweepTodo
  /\ sweepTodo' = sweepTodo \ {t}
  /\ IF Alive(t)
     THEN UNCHANGED <<sweepEnds, sweepEnergy, sweepClears, sweepSeen>>
     ELSE \E shown \in Found(txConn[t]) :
            /\ sweepEnds' = sweepEnds \cup {t}
            /\ sweepEnergy' = [sweepEnergy EXCEPT ![t] = OrphanEnergy(t)]
            /\ sweepClears' = IF Shows(shown, t) THEN sweepClears \cup {t} ELSE sweepClears
            /\ sweepSeen' = [sweepSeen EXCEPT ![txConn[t]] =
                               IF Shows(shown, t) THEN NoTx ELSE shown]
  /\ UNCHANGED <<tx_counter, counterLock, txVars, txLock, sampleVars, active_tx_id,
                 events, job, sweepOn, flushVars, historyVars>>

\* The flush of db.commit() writes the tables in turn: the connectors it clears
\* (their rows are locked from here), then its events, which draw their ids from
\* the sequence, and then the transactions, where it waits for row locks.  With
\* no row to close there is no commit.
SweepFlush ==
  /\ sweepOn
  /\ sweepTodo = {}
  /\ sweepEnds # {}
  /\ ~sweepFlushed
  /\ sweepFlushed' = TRUE
  /\ sweepPlace' = [t \in TxIds |-> IF t \in sweepEnds THEN Len(events[t]) + 1 ELSE 0]
  /\ UNCHANGED <<tx_counter, counterLock, txVars, txLock, sampleVars, active_tx_id,
                 events, job, sweepOn, sweepTodo, sweepEnds, sweepEnergy, sweepClears,
                 sweepSeen, historyVars>>

SweepReset ==
  /\ sweepOn' = FALSE
  /\ sweepTodo' = {}
  /\ sweepEnds' = {}
  /\ sweepEnergy' = [t \in TxIds |-> 0]
  /\ sweepClears' = {}
  /\ sweepSeen' = [c \in Connectors |-> None]
  /\ sweepFlushed' = FALSE
  /\ sweepPlace' = [t \in TxIds |-> 0]

OrphanEventsMutant(t) ==
  IF t \in sweepClears
  THEN InsertAt(events[t], sweepPlace[t], Ev("ev.tx.stopped", "Orphaned", sweepEnergy[t]))
  ELSE events[t]

\* The outbox after a sweep's commit: db.add(HubEvent(...)) for each closed row,
\* visible now at the place of the id it drew before the wait.
OrphanEvents(t) ==
  IF t \in sweepEnds
  THEN InsertAt(events[t], sweepPlace[t], Ev("ev.tx.stopped", "Orphaned", sweepEnergy[t]))
  ELSE events[t]

\* The rest of the flush and the commit: the UPDATEs have waited for the row
\* locks of StopTransaction handlers and overwrite the rows whatever they hold.
SweepCommit ==
  /\ sweepOn
  /\ sweepTodo = {}
  /\ sweepFlushed \/ sweepEnds = {}
  /\ \A t \in sweepEnds : RowFree(t)
  /\ status' = [t \in TxIds |-> IF t \in sweepEnds THEN "STOPPED" ELSE status[t]]
  /\ energy_wh' = [t \in TxIds |-> IF t \in sweepEnds THEN sweepEnergy[t] ELSE energy_wh[t]]
  /\ active_tx_id' = [c \in Connectors |->
                        IF \E t \in sweepClears : txConn[t] = c
                        THEN NoTx ELSE active_tx_id[c]]
  /\ events' = [t \in TxIds |-> OrphanEvents(t)]
  /\ SweepReset
  /\ UNCHANGED <<tx_counter, counterLock, txConn, meter_start_wh, startedAge, txLock,
                 sampleVars, job, historyVars>>

\* sweep_forever catches and logs whatever sweep_once raises (also when it is
\* the one of a deadlock the database breaks); nothing is written.
SweepAbort ==
  /\ sweepOn
  /\ SweepReset
  /\ UNCHANGED <<tx_counter, counterLock, txVars, txLock, sampleVars, active_tx_id,
                 events, job, historyVars>>

-----------------------------------------------------------------------------
\* A restart of evhub.service: the database rolls back what was not committed.
Crash ==
  /\ job' = [w \in Workers |-> Idle]
  /\ counterLock' = None
  /\ txLock' = [t \in TxIds |-> None]
  /\ SweepReset
  /\ UNCHANGED <<tx_counter, txVars, sampleVars, active_tx_id, events, historyVars>>

Older(age) == IF age > OrphanAge THEN age ELSE age + 1

\* Time passes; nothing asks for the age of a row that is not RUNNING.  A sweep
\* is short against a tick of the clock (it computes its cutoff once), so the
\* clock stands still during one.
Tick ==
  /\ ~sweepOn
  /\ startedAge' = [t \in TxIds |->
                      IF status[t] = "RUNNING" THEN Older(startedAge[t]) ELSE startedAge[t]]
  /\ lastSample' = [t \in TxIds |->
                      IF status[t] = "RUNNING" /\ lastSample[t] # None
                      THEN [lastSample[t] EXCEPT !.age = Older(@)] ELSE lastSample[t]]
  /\ UNCHANGED <<tx_counter, counterLock, status, txConn, meter_start_wh, energy_wh,
                 txLock, nSamples, active_tx_id, events, job, sweepVars, historyVars>>

Start == \E w \in Workers, c \in Connectors, m \in Meter, a \in StartAges : StartBegin(w, c, m, a)
Sampled == \E w \in Workers, t \in TxIds :
             \E wh \in NextReadings(t), a \in NextAges(t) : MeterValues(w, t, wh, a)
Stop == \E w \in Workers, t \in TxIds, cp \in Chargers :
          \E m \in NextReadings(t) : StopBegin(w, t, cp, m)
Status == \E w \in Workers, c \in Connectors : StatusBegin(w, c)
Scan == \E t \in TxIds : SweepScan(t)

Next ==
  \/ Start \/ Sampled \/ Stop \/ Status
  \/ \E w \in Workers : StartCommit(w) \/ StopCommit(w) \/ StatusCommit(w) \/ Abort(w)
  \/ SweepStart \/ Scan \/ SweepFlush \/ SweepCommit \/ SweepAbort
  \/ Crash \/ Tick

Spec == Init /\ [][Next]_vars

\* The database ends every statement (statement_timeout), so a worker ends its
\* handler; the sweeper runs every SWEEP_SECONDS, and its UPDATE gets past the
\* handlers that hold a row for a moment; time passes between two sweeps; the
\* hub does not crash, nor lose its database during a sweep, for ever.
Fairness ==
  /\ \A w \in Workers : WF_vars(StopCommit(w) \/ Abort(w))
  /\ WF_vars(SweepStart)
  /\ WF_vars(Scan)
  /\ WF_vars(SweepFlush)
  /\ SF_vars(SweepCommit)
  /\ SF_vars(Tick)
  /\ <>[][~Crash /\ ~SweepAbort]_vars

FairSpec == Spec /\ Fairness

-----------------------------------------------------------------------------
TypeOK ==
  /\ tx_counter \in 0 .. MaxTx
  /\ counterLock \in Workers \cup {None}
  /\ status \in [TxIds -> {"NONE", "RUNNING", "STOPPED"}]
  /\ txConn \in [TxIds -> Connectors \cup {None}]
  /\ meter_start_wh \in [TxIds -> Meter]
  /\ energy_wh \in [TxIds -> Nat \cup {None}]
  /\ startedAge \in [TxIds -> Ages]
  /\ txLock \in [TxIds -> Workers \cup {None}]
  /\ lastSample \in [TxIds -> Sample \cup {None}]
  /\ nSamples \in [TxIds -> 0 .. MaxSamples]
  /\ active_tx_id \in [Connectors -> TxIds \cup {NoTx}]
  /\ events \in [TxIds -> Seq(Event)]
  /\ job \in [Workers -> Job]
  /\ sweepOn \in BOOLEAN
  /\ sweepTodo \subseteq TxIds
  /\ sweepEnds \subseteq TxIds
  /\ sweepEnergy \in [TxIds -> Nat]
  /\ sweepClears \subseteq sweepEnds
  /\ sweepSeen \in [Connectors -> TxIds \cup {NoTx, None}]
  /\ sweepFlushed \in BOOLEAN
  /\ sweepPlace \in [TxIds -> Nat]
  /\ highest \in [TxIds -> Meter]
  /\ strayed \subseteq TxIds

\* The bay a charger shows as busy is busy: a connector's active_tx_id is always
\* a RUNNING transaction of that connector, whatever handlers and sweeps overlap
\* (hub/sweeper.py:4-5: a finished transaction must not block the bay).  The one
\* exception is a transaction that was stopped under the cp_id of another charger:
\* its own connector shows it on, until its charger is Available or starts anew.
ActiveIsRunning ==
  \A c \in Connectors :
    active_tx_id[c] # NoTx =>
      /\ txConn[active_tx_id[c]] = c
      /\ status[active_tx_id[c]] = "RUNNING" \/ active_tx_id[c] \in strayed

\* No driver is billed for energy nobody measured: what a transaction is closed
\* with never exceeds what its charger's register showed (hub/sweeper.py:10-11).
NeverOvercharged ==
  \A t \in TxIds :
    energy_wh[t] # None /\ energy_wh[t] > 0 =>
      /\ meter_start_wh[t] # None
      /\ highest[t] # None
      /\ energy_wh[t] + meter_start_wh[t] <= highest[t]

StopIndices(t) == {i \in DOMAIN events[t] : events[t][i].kind = "ev.tx.stopped"}

\* A sweep's end of t is in the outbox.
Orphaned(t) == \E i \in StopIndices(t) : events[t][i].reason = "Orphaned"

\* The core learns how every transaction ended: a row is STOPPED exactly when an
\* ev.tx.stopped of it is in the outbox, and the row's energy is that of the
\* orphan's end if there is one, of its charger's end if not.  (Which of two ends
\* has the higher id says nothing: the sweep draws its id before it waits.)
StopReported ==
  \A t \in TxIds :
    /\ status[t] = "STOPPED" <=> StopIndices(t) # {}
    /\ \A i \in StopIndices(t) :
         (events[t][i].reason = "Orphaned" <=> Orphaned(t)) =>
           events[t][i].energy = energy_wh[t]

\* Two StopTransactions of one transaction (a charger's offline queue replayed
\* over an old and a new connection) end it once (hub/ocpp/handlers.py:277).
ChargerStopsOnce ==
  \A t \in TxIds :
    Cardinality({i \in StopIndices(t) : events[t][i].reason = "Charger"}) <= 1

\* Two StartTransactions at once never compete for an id: the id a handler took
\* is free, and no other handler holds it (hub/ocpp/handlers.py:62).
FreshTxIds ==
  \A w \in Workers : job[w].op = "start" =>
    /\ status[job[w].tx] = "NONE"
    /\ \A v \in Workers \ {w} : job[v].op = "start" => job[v].tx # job[w].tx

\* A transaction closed as an orphan stays as it was settled, also when the
\* charger's real StopTransaction arrives later (hub/sweeper.py:12-13).
OrphanIsFinal ==
  [][\A t \in TxIds :
       Orphaned(t) =>
         /\ status'[t] = "STOPPED"
         /\ energy_wh'[t] = energy_wh[t]]_vars

\* A transaction whose charger fell silent does not hold the driver's money for
\* ever: every RUNNING transaction is stopped (hub/sweeper.py:4-5).
RunningEnds ==
  \A t \in TxIds : status[t] = "RUNNING" ~> status[t] = "STOPPED"

\* One transaction ends once, also when its StopTransaction meets a sweep
\* (hub/sweeper.py:12-13 says the second of the two is skipped).
EndsOnce == \A t \in TxIds : Cardinality(StopIndices(t)) <= 1

\* A sweep settles an orphan at the last register value its charger reported
\* before the sweep looked at it (hub/sweeper.py:9).
OrphanAtLastReading ==
  [][\A t \in sweepEnds' \ sweepEnds :
       (highest[t] # None /\ meter_start_wh[t] # None) =>
         sweepEnergy'[t] = Difference(highest[t], meter_start_wh[t])]_vars
=============================================================================
