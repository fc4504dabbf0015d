------------------------- MODULE TransactionsProofs -------------------------
(***************************************************************************)
(* Proofs about Transactions for every set of connectors, workers and      *)
(* readings and every bound: type correctness, that a busy connector is    *)
(* busy with a transaction of its own, running or stopped astray, that a   *)
(* sweep cannot end a transaction a StopTransaction handler holds, that no *)
(* two handlers hold one transaction id, and that no more energy is billed *)
(* than was measured.                                                      *)
(***************************************************************************)
EXTENDS Transactions, SequenceTheorems, FiniteSetTheorems, TLAPS

\* The counter is the last id in use: the rows are exactly those up to it.
CounterInv == \A t \in TxIds : t > tx_counter <=> status[t] = "NONE"

\* A StartTransaction handler holds the counter row and the id after it.
StartInv ==
  \A w \in Workers : job[w].op = "start" =>
    /\ counterLock = w
    /\ job[w].tx = tx_counter + 1
    /\ job[w].tx \in TxIds
    /\ job[w].conn \in Connectors

\* A StopTransaction handler holds the row of its transaction, which therefore
\* keeps RUNNING.  The connector it has looked at is the transaction's if it will
\* clear it; if it leaves it alone, that one shows another.
StopInv ==
  \A w \in Workers : job[w].op = "stop" =>
    /\ job[w].tx \in TxIds
    /\ txLock[job[w].tx] = w
    /\ status[job[w].tx] = "RUNNING"
    /\ job[w].conn \in Connectors
    /\ job[w].clears => job[w].conn = txConn[job[w].tx]
    /\ ~job[w].clears => active_tx_id[job[w].conn] # job[w].tx

StatusInv == \A w \in Workers : job[w].op = "status" => job[w].conn \in Connectors

\* A row that exists is of a connector, and what was stopped astray exists.
RowInv ==
  \A t \in TxIds :
    /\ status[t] # "NONE" => txConn[t] \in Connectors
    /\ t \in strayed => status[t] # "NONE"

\* A sweep has read rows that exist; a row it will close without clearing its
\* connector is not shown there, and never will be again.  So is a row that was
\* not what the sweep found when it read the connector.
SweepInv ==
  /\ ~sweepOn => sweepTodo = {} /\ sweepSeen = [c \in Connectors |-> None]
  /\ \A t \in sweepTodo \cup sweepEnds : status[t] # "NONE"
  /\ \A t \in sweepTodo :
       sweepSeen[txConn[t]] \notin {None, t} => active_tx_id[txConn[t]] # t
  /\ \A t \in sweepEnds \ sweepClears : active_tx_id[txConn[t]] # t

\* A sweep that has flushed reads no more rows, and the places its events got are
\* places of the outbox as it has become.
PlaceInv ==
  sweepFlushed =>
    /\ sweepOn
    /\ sweepTodo = {}
    /\ \A t \in sweepEnds : sweepPlace[t] \in 1 .. Len(events[t]) + 1

IInv ==
  TypeOK /\ CounterInv /\ StartInv /\ StopInv /\ StatusInv /\ RowInv /\ SweepInv
  /\ PlaceInv /\ ActiveIsRunning

-----------------------------------------------------------------------------
\* max(0, stop - start) is a natural number (both register values are known).
LEMMA DifferenceIsNat ==
  ASSUME NEW stop \in Readings, NEW start \in Readings
  PROVE  Difference(stop, start) \in Nat
BY TransactionsAssumption DEF Difference

\* What a StopTransaction or a sweep records as energy is a natural number, or
\* NULL when a StopTransaction misses one of the two register values.
LEMMA StopEnergyType ==
  ASSUME NEW stop \in Meter, NEW start \in Meter
  PROVE  StopEnergy(stop, start) \in Nat \cup {None}
BY DifferenceIsNat DEF StopEnergy, Meter

\* A sweep always settles a number, also without samples or a start value.
LEMMA OrphanEnergyType ==
  ASSUME TypeOK, NEW t \in TxIds
  PROVE  OrphanEnergy(t) \in Nat
<1>1. meter_start_wh[t] \in Readings \cup {None}
  BY DEF TypeOK, Meter
<1>2. lastSample[t] # None => lastSample[t].wh \in Readings \cup {None}
  BY DEF TypeOK, Sample, Meter
<1> QED
  BY <1>1, <1>2, DifferenceIsNat DEF OrphanEnergy

\* A worker without a handler is well typed.
LEMMA IdleIsJob == Idle \in Job /\ Idle.op = "idle"
BY TransactionsAssumption DEF Idle, Job, Ages, Meter

\* The initial state is a good one.
LEMMA InitIInv == Init => IInv
<1> SUFFICES ASSUME Init PROVE IInv
  OBVIOUS
<1>1. TypeOK
  <2>1. job \in [Workers -> Job]
    BY IdleIsJob DEF Init
  <2>2. events \in [TxIds -> Seq(Event)]
    BY DEF Init
  <2>3. startedAge \in [TxIds -> Ages] /\ nSamples \in [TxIds -> 0 .. MaxSamples]
    BY TransactionsAssumption DEF Init, Ages
  <2>4. tx_counter \in 0 .. MaxTx
    BY TransactionsAssumption DEF Init
  <2> QED
    BY <2>1, <2>2, <2>3, <2>4 DEF Init, TypeOK, Meter
<1>2. CounterInv
  BY TransactionsAssumption DEF Init, CounterInv, TxIds
<1>3. StartInv /\ StopInv /\ StatusInv
  BY DEF Init, StartInv, StopInv, StatusInv, Idle
<1>4. RowInv /\ SweepInv /\ PlaceInv /\ ActiveIsRunning
  BY DEF Init, RowInv, SweepInv, PlaceInv, ActiveIsRunning
<1> QED
  BY <1>1, <1>2, <1>3, <1>4 DEF IInv

\* Appending to a part of the outbox keeps it one, a place longer.
LEMMA Appended ==
  ASSUME NEW e \in Seq(Event), NEW v \in Event
  PROVE  Append(e, v) \in Seq(Event) /\ Len(Append(e, v)) = Len(e) + 1
BY AppendProperties

\* Places of the outbox stay places of it while its events only get more.
LEMMA PlacesStay ==
  ASSUME IInv, UNCHANGED <<sweepOn, sweepTodo, sweepEnds, flushVars>>,
         \A t \in TxIds : events'[t] = events[t] \/ Len(events'[t]) = Len(events[t]) + 1
  PROVE  PlaceInv'
<1>1. \A t \in TxIds : Len(events[t]) \in Nat
  BY LenProperties DEF IInv, TypeOK
<1>2. \A t \in TxIds : \A p \in 1 .. Len(events[t]) + 1 : p \in 1 .. Len(events'[t]) + 1
  BY <1>1
<1> QED
  BY <1>2 DEF IInv, TypeOK, PlaceInv, flushVars

\* An event inserted at a place of a part of the outbox pushes on those behind it.
LEMMA Inserted ==
  ASSUME NEW e \in Seq(Event), NEW v \in Event, NEW p \in 1 .. Len(e) + 1
  PROVE  /\ InsertAt(e, p, v) \in Seq(Event)
         /\ Len(InsertAt(e, p, v)) = Len(e) + 1
         /\ \A i \in 1 .. Len(e) + 1 : InsertAt(e, p, v)[i] =
              IF i < p THEN e[i] ELSE IF i = p THEN v ELSE e[i - 1]
<1> DEFINE front == SubSeq(e, 1, p - 1)
           back == SubSeq(e, p, Len(e))
           one == <<v>>
<1>1. Len(e) \in Nat /\ p \in Nat /\ p >= 1 /\ p <= Len(e) + 1
  BY LenProperties
<1>2. /\ front \in Seq(Event) /\ Len(front) = p - 1
      /\ \A i \in 1 .. p - 1 : front[i] = e[i]
  BY <1>1, SubSeqProperties
<1>3. /\ back \in Seq(Event) /\ Len(back) = Len(e) - p + 1
      /\ \A i \in 1 .. Len(e) - p + 1 : back[i] = e[p + i - 1]
  BY <1>1, SubSeqProperties
<1>4. one \in Seq(Event) /\ Len(one) = 1 /\ one[1] = v
  OBVIOUS
<1>5. InsertAt(e, p, v) = (front \o one) \o back
  BY DEF InsertAt
<1> HIDE DEF front, back, one
<1>6. /\ front \o one \in Seq(Event) /\ Len(front \o one) = p
      /\ \A i \in 1 .. p : (front \o one)[i] = IF i <= p - 1 THEN e[i] ELSE v
  <2>1. /\ front \o one \in Seq(Event) /\ Len(front \o one) = Len(front) + Len(one)
        /\ \A i \in 1 .. Len(front) + Len(one) :
             (front \o one)[i] = IF i <= Len(front) THEN front[i] ELSE one[i - Len(front)]
    BY <1>2, <1>4, ConcatProperties
  <2> QED
    BY <1>1, <1>2, <1>4, <2>1
<1> DEFINE head == front \o one
<1> HIDE DEF head
<1>7. /\ head \in Seq(Event) /\ Len(head) = p
      /\ \A i \in 1 .. p : head[i] = IF i <= p - 1 THEN e[i] ELSE v
  BY <1>6 DEF head
<1>8. /\ head \o back \in Seq(Event) /\ Len(head \o back) = Len(head) + Len(back)
      /\ \A i \in 1 .. Len(head) + Len(back) :
           (head \o back)[i] = IF i <= Len(head) THEN head[i] ELSE back[i - Len(head)]
  BY <1>3, <1>7, ConcatProperties
<1>9. InsertAt(e, p, v) = head \o back
  BY <1>5 DEF head
<1> QED
  BY <1>1, <1>3, <1>7, <1>8, <1>9

\* A StartTransaction takes the counter row: the id after the last one is free.
LEMMA StartBeginInv ==
  ASSUME IInv, NEW w \in Workers, NEW c \in Connectors, NEW m \in Meter,
         NEW a \in StartAges, StartBegin(w, c, m, a)
  PROVE  IInv'
<1> DEFINE new == [op |-> "start", tx |-> tx_counter + 1, conn |-> c,
                   clears |-> FALSE, meter |-> m, age |-> a]
<1>1. new \in Job /\ new.tx \in TxIds
  <2>1. tx_counter + 1 \in TxIds
    BY TransactionsAssumption DEF IInv, TypeOK, StartBegin, TxIds
  <2>2. a \in Ages
    BY TransactionsAssumption DEF Ages
  <2> QED
    BY <2>1, <2>2 DEF Job
<1>2. job' = [job EXCEPT ![w] = new] /\ counterLock = None /\ counterLock' = w
  BY DEF StartBegin, CounterFree
<1>3. TypeOK'
  <2>1. job' \in [Workers -> Job]
    BY <1>1, <1>2 DEF IInv, TypeOK
  <2> QED
    BY <1>2, <2>1 DEF IInv, TypeOK, StartBegin, txVars, sampleVars, sweepVars,
                      flushVars, historyVars
<1>4. StartInv'
  <2> SUFFICES ASSUME NEW v \in Workers, job'[v].op = "start"
               PROVE  v = w /\ job'[v] = new
    BY <1>1, <1>2 DEF StartInv, StartBegin
  <2> QED
    BY <1>2, TransactionsAssumption DEF IInv, TypeOK, StartInv
<1>5. StopInv' /\ StatusInv'
  BY <1>2 DEF IInv, TypeOK, StopInv, StatusInv, StartBegin, txVars
<1>6. CounterInv' /\ RowInv' /\ SweepInv' /\ PlaceInv' /\ ActiveIsRunning'
  BY DEF IInv, CounterInv, RowInv, SweepInv, PlaceInv, ActiveIsRunning, StartBegin,
         txVars,
         sweepVars, flushVars, historyVars
<1> QED
  BY <1>3, <1>4, <1>5, <1>6 DEF IInv

\* The commit of a StartTransaction: a new row, shown by its connector.
LEMMA StartCommitInv ==
  ASSUME IInv, NEW w \in Workers, StartCommit(w)
  PROVE  IInv'
<1> DEFINE t == job[w].tx
           c == job[w].conn
<1>1. t = tx_counter + 1 /\ t \in TxIds /\ c \in Connectors /\ counterLock = w
  BY DEF IInv, StartInv, StartCommit
<1>2. job[w] \in Job /\ tx_counter \in Nat
  BY DEF IInv, TypeOK
<1>3. job' = [job EXCEPT ![w] = Idle] /\ tx_counter' = t /\ counterLock' = None
  BY DEF StartCommit
<1>4. /\ status' = [status EXCEPT ![t] = "RUNNING"] /\ status[t] = "NONE"
      /\ txConn' = [txConn EXCEPT ![t] = c]
      /\ active_tx_id' = [active_tx_id EXCEPT ![c] = t]
      /\ UNCHANGED <<txLock, sweepVars>>
  BY DEF StartCommit
<1>5. TypeOK'
  <2>1. job' \in [Workers -> Job]
    BY <1>3, IdleIsJob DEF IInv, TypeOK
  <2>2. events' \in [TxIds -> Seq(Event)]
    <3>1. Ev("ev.tx.started", "", None) \in Event
      BY DEF Ev, Event
    <3>2. \A s \in Seq(Event), e \in Event : Append(s, e) \in Seq(Event)
      OBVIOUS
    <3> QED
      BY <1>1, <3>1, <3>2 DEF IInv, TypeOK, StartCommit
  <2>3. /\ meter_start_wh' \in [TxIds -> Meter] /\ startedAge' \in [TxIds -> Ages]
        /\ highest' \in [TxIds -> Meter]
    BY <1>2 DEF IInv, TypeOK, StartCommit, Job
  <2>4. tx_counter' \in 0 .. MaxTx
    BY <1>1, <1>2, <1>3, TransactionsAssumption DEF TxIds
  <2>5. /\ status' \in [TxIds -> {"NONE", "RUNNING", "STOPPED"}]
        /\ txConn' \in [TxIds -> Connectors \cup {None}]
        /\ active_tx_id' \in [Connectors -> TxIds \cup {NoTx}]
    BY <1>1, <1>4 DEF IInv, TypeOK
  <2> QED
    BY <1>3, <2>1, <2>2, <2>3, <2>4, <2>5 DEF IInv, TypeOK, StartCommit, sampleVars,
                                              sweepVars, flushVars, historyVars
<1>6. CounterInv'
  BY <1>1, <1>2, <1>3, <1>4 DEF IInv, TypeOK, CounterInv, TxIds
<1>7. StartInv' /\ StatusInv'
  BY <1>1, <1>3, IdleIsJob DEF IInv, TypeOK, StartInv, StatusInv
<1>8. StopInv'
  <2> SUFFICES ASSUME NEW v \in Workers, job'[v].op = "stop"
               PROVE  /\ job[v].tx \in TxIds /\ txLock[job[v].tx] = v
                      /\ status'[job[v].tx] = "RUNNING"
                      /\ job[v].conn \in Connectors
                      /\ job[v].clears => job[v].conn = txConn'[job[v].tx]
                      /\ ~job[v].clears => active_tx_id'[job[v].conn] # job[v].tx
    BY <1>3, <1>4, IdleIsJob DEF IInv, TypeOK, StopInv
  <2>1. job[v].op = "stop" /\ v # w
    BY <1>3, IdleIsJob DEF IInv, TypeOK
  <2>2. job[v].tx # t
    BY <1>4, <2>1 DEF IInv, StopInv
  <2> QED
    BY <1>1, <1>4, <2>1, <2>2 DEF IInv, TypeOK, StopInv
<1>9. RowInv' /\ SweepInv'
  <2>1. RowInv'
    <3>1. \A u \in TxIds \ {t} : status'[u] = status[u] /\ txConn'[u] = txConn[u]
      BY <1>4 DEF IInv, TypeOK
    <3>2. status'[t] = "RUNNING" /\ txConn'[t] = c /\ strayed' = strayed
      BY <1>1, <1>4 DEF IInv, TypeOK, StartCommit
    <3> QED
      BY <1>1, <3>1, <3>2 DEF IInv, RowInv
  <2>2. t \notin sweepTodo \cup sweepEnds
    BY <1>4 DEF IInv, SweepInv
  <2>3. \A s \in sweepTodo \cup sweepEnds : s \in TxIds /\ txConn[s] \in Connectors
    BY DEF IInv, TypeOK, SweepInv, RowInv
  <2> QED
    BY <1>1, <1>4, <2>1, <2>2, <2>3 DEF IInv, TypeOK, SweepInv, sweepVars, flushVars,
                                        historyVars
<1>10. ActiveIsRunning'
  <2> SUFFICES ASSUME NEW d \in Connectors, active_tx_id'[d] # NoTx
               PROVE  /\ txConn'[active_tx_id'[d]] = d
                      /\ status'[active_tx_id'[d]] = "RUNNING"
                         \/ active_tx_id'[d] \in strayed'
    BY DEF ActiveIsRunning
  <2>1. strayed' = strayed
    BY DEF StartCommit
  <2>2. CASE d = c
    BY <1>1, <1>4, <2>2 DEF IInv, TypeOK
  <2>3. CASE d # c
    <3>1. active_tx_id'[d] = active_tx_id[d] /\ active_tx_id[d] # NoTx
      BY <1>1, <1>4, <2>3 DEF IInv, TypeOK
    <3>2. /\ active_tx_id[d] \in TxIds /\ txConn[active_tx_id[d]] = d
          /\ status[active_tx_id[d]] = "RUNNING" \/ active_tx_id[d] \in strayed
      BY <3>1 DEF IInv, TypeOK, ActiveIsRunning
    <3>3. active_tx_id[d] # t
      BY <1>4, <3>2 DEF IInv, RowInv
    <3> QED
      BY <1>4, <2>1, <3>1, <3>2, <3>3 DEF IInv, TypeOK
  <2> QED
    BY <2>2, <2>3
<1>11. PlaceInv'
  <2>1. Ev("ev.tx.started", "", None) \in Event
    BY DEF Ev, Event
  <2>2. /\ events' = [events EXCEPT ![t] = Append(events[t], Ev("ev.tx.started", "", None))]
        /\ UNCHANGED <<sweepOn, sweepTodo, sweepEnds, flushVars>>
    BY DEF StartCommit, sweepVars
  <2> QED
    BY <1>1, <2>1, <2>2, Appended, PlacesStay DEF IInv, TypeOK
<1> QED
  BY <1>5, <1>6, <1>7, <1>8, <1>9, <1>10, <1>11 DEF IInv

\* A sample of an existing transaction: nothing the invariant relates changes.
LEMMA MeterValuesInv ==
  ASSUME IInv, NEW w \in Workers, NEW t \in TxIds, NEW wh \in NextReadings(t),
         NEW age \in NextAges(t), MeterValues(w, t, wh, age)
  PROVE  IInv'
<1>1. wh \in Meter /\ age \in Ages
  BY DEF NextReadings, NextAges, Meter
<1>2. TypeOK'
  <2>1. lastSample' \in [TxIds -> Sample \cup {None}]
    BY <1>1 DEF IInv, TypeOK, MeterValues, Sample
  <2>2. nSamples' \in [TxIds -> 0 .. MaxSamples]
    <3>1. nSamples[t] \in 0 .. MaxSamples /\ nSamples[t] < MaxSamples
      BY DEF IInv, TypeOK, MeterValues
    <3>2. nSamples[t] + 1 \in 0 .. MaxSamples
      BY <3>1, TransactionsAssumption
    <3> QED
      BY <3>2 DEF IInv, TypeOK, MeterValues
  <2>3. highest' \in [TxIds -> Meter]
    BY <1>1 DEF IInv, TypeOK, MeterValues, Higher
  <2>4. events' \in [TxIds -> Seq(Event)]
    <3>1. CASE wh # None /\ meter_start_wh[t] # None
      <4>1. wh \in Readings /\ meter_start_wh[t] \in Readings
        BY <1>1, <3>1 DEF IInv, TypeOK, Meter
      <4>2. Ev("ev.meter", "", Difference(wh, meter_start_wh[t])) \in Event
        BY <4>1, DifferenceIsNat DEF Ev, Event
      <4>3. \A s \in Seq(Event), e \in Event : Append(s, e) \in Seq(Event)
        OBVIOUS
      <4> QED
        BY <3>1, <4>2, <4>3 DEF IInv, TypeOK, MeterValues
    <3>2. CASE ~(wh # None /\ meter_start_wh[t] # None)
      BY <3>2 DEF IInv, TypeOK, MeterValues
    <3> QED
      BY <3>1, <3>2
  <2> QED
    BY <2>1, <2>2, <2>3, <2>4 DEF IInv, TypeOK, MeterValues, txVars, sweepVars,
                                  flushVars, historyVars
<1>3. PlaceInv'
  <2>1. UNCHANGED <<sweepOn, sweepTodo, sweepEnds, flushVars>>
    BY DEF MeterValues, sweepVars
  <2>2. ASSUME wh # None, meter_start_wh[t] # None
        PROVE  Ev("ev.meter", "", Difference(wh, meter_start_wh[t])) \in Event
    BY <1>1, <2>2, DifferenceIsNat DEF Ev, Event, IInv, TypeOK, Meter
  <2>3. \A s \in TxIds : events'[s] = events[s] \/ Len(events'[s]) = Len(events[s]) + 1
    BY <2>2, Appended DEF MeterValues, IInv, TypeOK
  <2> QED
    BY <2>1, <2>3, PlacesStay
<1> QED
  BY <1>2, <1>3 DEF IInv, CounterInv, StartInv, StopInv, StatusInv, RowInv, SweepInv,
                    ActiveIsRunning, MeterValues, txVars, sweepVars, flushVars, historyVars

\* A StopTransaction takes the lock of a RUNNING row and reads its connector.
LEMMA StopBeginInv ==
  ASSUME IInv, NEW w \in Workers, NEW t \in TxIds, NEW cp \in Chargers,
         NEW m \in NextReadings(t), StopBegin(w, t, cp, m)
  PROVE  IInv'
<1> DEFINE c == SendersConnector(cp, t)
           new == [op |-> "stop", tx |-> t, conn |-> c,
                   clears |-> Shows(active_tx_id[c], t), meter |-> m, age |-> 0]
<1>1. /\ job' = [job EXCEPT ![w] = new]
      /\ txLock' = [txLock EXCEPT ![t] = w]
      /\ txLock[t] = None /\ status[t] = "RUNNING"
      /\ UNCHANGED <<tx_counter, counterLock, txVars, active_tx_id, sweepVars>>
  BY DEF StopBegin, RowFree, Stoppable
<1>2. new \in Job
  <2>1. m \in Meter /\ 0 \in Ages
    BY <1>1, TransactionsAssumption DEF NextReadings, Meter, Ages
  <2>2. c \in Connectors
    BY <1>1 DEF SendersConnector, Connectors, IInv, RowInv
  <2> QED
    BY <2>1, <2>2 DEF Job, Shows
<1>3. c \in Connectors
  BY <1>2 DEF Job, SendersConnector, Connectors, IInv, RowInv, StopBegin, Stoppable
<1> HIDE DEF c
<1>4. TypeOK'
  <2>1. job' \in [Workers -> Job] /\ txLock' \in [TxIds -> Workers \cup {None}]
    BY <1>1, <1>2 DEF IInv, TypeOK
  <2> QED
    BY <1>1, <2>1 DEF IInv, TypeOK, StopBegin, txVars, sampleVars, sweepVars, flushVars,
                      historyVars
<1>5. StartInv' /\ StatusInv'
  BY <1>1 DEF IInv, TypeOK, StartInv, StatusInv
<1>6. StopInv'
  <2> SUFFICES ASSUME NEW v \in Workers, job'[v].op = "stop"
               PROVE  /\ job'[v].tx \in TxIds /\ txLock'[job'[v].tx] = v
                      /\ status[job'[v].tx] = "RUNNING"
                      /\ job'[v].conn \in Connectors
                      /\ job'[v].clears => job'[v].conn = txConn[job'[v].tx]
                      /\ ~job'[v].clears => active_tx_id[job'[v].conn] # job'[v].tx
    BY <1>1 DEF StopInv, txVars
  <2>1. CASE v = w
    <3>1. active_tx_id[c] = t => c = txConn[t]
      BY <1>3 DEF IInv, ActiveIsRunning, TxIds, NoTx
    <3> QED
      BY <1>1, <1>3, <2>1, <3>1 DEF IInv, TypeOK, Shows
  <2>2. CASE v # w
    BY <1>1, <2>2, TransactionsAssumption DEF IInv, TypeOK, StopInv
  <2> QED
    BY <2>1, <2>2
<1>7. CounterInv' /\ RowInv' /\ SweepInv' /\ PlaceInv' /\ ActiveIsRunning'
  BY <1>1 DEF IInv, CounterInv, RowInv, SweepInv, PlaceInv, ActiveIsRunning, StopBegin,
              txVars, sweepVars, flushVars, historyVars
<1> QED
  BY <1>4, <1>5, <1>6, <1>7 DEF IInv

\* The commit of a StopTransaction: after it no connector shows the transaction.
LEMMA StopCommitInv ==
  ASSUME IInv, NEW w \in Workers, StopCommit(w)
  PROVE  IInv'
<1> DEFINE t == job[w].tx
           energy == StopEnergy(job[w].meter, meter_start_wh[t])
<1>1. /\ t \in TxIds /\ txLock[t] = w /\ status[t] = "RUNNING"
      /\ job[w].conn \in Connectors /\ txConn[t] \in Connectors
      /\ job[w].clears => job[w].conn = txConn[t]
      /\ ~job[w].clears => active_tx_id[job[w].conn] # t
  BY DEF IInv, StopInv, RowInv, StopCommit
<1>2. /\ job' = [job EXCEPT ![w] = Idle]
      /\ txLock' = [txLock EXCEPT ![t] = None]
      /\ status' = [status EXCEPT ![t] = "STOPPED"]
      /\ active_tx_id' = IF job[w].clears THEN [active_tx_id EXCEPT ![txConn[t]] = NoTx]
                         ELSE active_tx_id
      /\ UNCHANGED <<tx_counter, counterLock, txConn, sweepVars>>
  BY <1>1 DEF StopCommit
<1>3. TypeOK'
  <2>1. job[w].meter \in Meter /\ meter_start_wh[t] \in Meter
    BY <1>1 DEF IInv, TypeOK, Job
  <2>2. energy \in Nat \cup {None}
    BY <2>1, StopEnergyType
  <2>3. energy_wh' \in [TxIds -> Nat \cup {None}]
    BY <1>1, <2>2 DEF IInv, TypeOK, StopCommit
  <2>4. events' \in [TxIds -> Seq(Event)]
    <3>1. Ev("ev.tx.stopped", "Charger", energy_wh'[t]) \in Event
      BY <1>1, <2>3 DEF Ev, Event
    <3>2. \A s \in Seq(Event), e \in Event : Append(s, e) \in Seq(Event)
      OBVIOUS
    <3> QED
      BY <1>1, <3>1, <3>2 DEF IInv, TypeOK, StopCommit
  <2>5. highest' \in [TxIds -> Meter]
    BY <1>1, <2>1 DEF IInv, TypeOK, StopCommit, Higher
  <2>6. /\ job' \in [Workers -> Job] /\ txLock' \in [TxIds -> Workers \cup {None}]
        /\ status' \in [TxIds -> {"NONE", "RUNNING", "STOPPED"}]
        /\ active_tx_id' \in [Connectors -> TxIds \cup {NoTx}]
    BY <1>1, <1>2, IdleIsJob DEF IInv, TypeOK
  <2> QED
    BY <1>2, <2>3, <2>4, <2>5, <2>6 DEF IInv, TypeOK, StopCommit, sampleVars, sweepVars,
                                        flushVars, historyVars
<1>4. CounterInv' /\ RowInv'
  <2>1. strayed' \subseteq strayed \cup {t}
    BY DEF StopCommit
  <2> QED
    BY <1>1, <1>2, <2>1 DEF IInv, TypeOK, CounterInv, RowInv
<1>5. StartInv' /\ StatusInv'
  BY <1>2, IdleIsJob DEF IInv, TypeOK, StartInv, StatusInv
<1>6. StopInv'
  <2> SUFFICES ASSUME NEW v \in Workers, job'[v].op = "stop"
               PROVE  /\ job[v].tx \in TxIds /\ txLock'[job[v].tx] = v
                      /\ status'[job[v].tx] = "RUNNING"
                      /\ job[v].conn \in Connectors
                      /\ job[v].clears => job[v].conn = txConn[job[v].tx]
                      /\ ~job[v].clears => active_tx_id'[job[v].conn] # job[v].tx
    BY <1>2, IdleIsJob DEF IInv, TypeOK, StopInv
  <2>1. job[v].op = "stop" /\ v # w
    BY <1>2, IdleIsJob DEF IInv, TypeOK
  <2>2. job[v].tx \in TxIds /\ job[v].tx # t /\ job[v].conn \in Connectors
    BY <1>1, <2>1 DEF IInv, StopInv, RowInv
  <2> QED
    BY <1>1, <1>2, <2>1, <2>2 DEF IInv, TypeOK, StopInv, TxIds, NoTx
<1>7. SweepInv'
  <2>1. \A s \in sweepTodo \cup sweepEnds : s \in TxIds /\ txConn[s] \in Connectors
    BY DEF IInv, TypeOK, SweepInv, RowInv
  <2> QED
    BY <1>1, <1>2, <2>1 DEF IInv, TypeOK, SweepInv, sweepVars, flushVars, historyVars,
                            TxIds, NoTx
<1>8. ActiveIsRunning'
  <2> SUFFICES ASSUME NEW c \in Connectors, active_tx_id'[c] # NoTx
               PROVE  /\ txConn[active_tx_id'[c]] = c
                      /\ status'[active_tx_id'[c]] = "RUNNING" \/ active_tx_id'[c] \in strayed'
    BY <1>2 DEF ActiveIsRunning
  <2>1. active_tx_id'[c] = active_tx_id[c]
    BY <1>1, <1>2 DEF IInv, TypeOK
  <2>2. strayed' = IF job[w].conn = txConn[t] THEN strayed ELSE strayed \cup {t}
    BY DEF StopCommit
  <2>3. CASE active_tx_id[c] # t
    BY <1>2, <2>1, <2>2, <2>3 DEF IInv, TypeOK, ActiveIsRunning
  <2>4. CASE active_tx_id[c] = t
    <3>1. txConn[t] = c
      BY <2>1, <2>4 DEF IInv, ActiveIsRunning
    <3>2. job[w].conn # c
      BY <1>1, <1>2, <2>1, <2>4, <3>1 DEF IInv, TypeOK, TxIds, NoTx
    <3> QED
      BY <2>1, <2>2, <2>4, <3>1, <3>2
  <2> QED
    BY <2>3, <2>4
<1>9. PlaceInv'
  <2>1. UNCHANGED <<sweepOn, sweepTodo, sweepEnds, flushVars>>
    BY DEF StopCommit, sweepVars
  <2>2. /\ events' = [events EXCEPT ![t] =
                        Append(events[t], Ev("ev.tx.stopped", "Charger", energy_wh'[t]))]
        /\ energy_wh'[t] \in Nat \cup {None}
    BY <1>1, <1>3 DEF StopCommit, TypeOK
  <2>3. Ev("ev.tx.stopped", "Charger", energy_wh'[t]) \in Event
    BY <2>2 DEF Ev, Event
  <2> QED
    BY <1>1, <2>1, <2>2, <2>3, Appended, PlacesStay DEF IInv, TypeOK
<1> QED
  BY <1>3, <1>4, <1>5, <1>6, <1>7, <1>8, <1>9 DEF IInv

\* A StatusNotification only remembers the connector it will clear.
LEMMA StatusBeginInv ==
  ASSUME IInv, NEW w \in Workers, NEW c \in Connectors, StatusBegin(w, c)
  PROVE  IInv'
<1> DEFINE new == [op |-> "status", tx |-> NoTx, conn |-> c,
                   clears |-> TRUE, meter |-> None, age |-> 0]
<1>1. new \in Job
  BY TransactionsAssumption DEF Job, Meter, Ages
<1>2. /\ job' = [job EXCEPT ![w] = new]
      /\ UNCHANGED <<tx_counter, counterLock, txVars, txLock, active_tx_id, sweepVars>>
  BY DEF StatusBegin
<1>3. TypeOK'
  BY <1>1, <1>2 DEF IInv, TypeOK, StatusBegin, txVars, sampleVars, sweepVars, flushVars,
                    historyVars
<1>4. StartInv' /\ StopInv' /\ StatusInv'
  BY <1>2 DEF IInv, TypeOK, StartInv, StopInv, StatusInv, txVars
<1> QED
  BY <1>2, <1>3, <1>4 DEF IInv, CounterInv, RowInv, SweepInv, PlaceInv, ActiveIsRunning,
                          StatusBegin, txVars, sweepVars, flushVars, historyVars

\* A connector cleared by a StatusNotification shows nothing any more.
LEMMA StatusCommitInv ==
  ASSUME IInv, NEW w \in Workers, StatusCommit(w)
  PROVE  IInv'
<1>1. /\ job' = [job EXCEPT ![w] = Idle] /\ job[w].conn \in Connectors
      /\ active_tx_id' = [active_tx_id EXCEPT ![job[w].conn] = NoTx]
      /\ UNCHANGED <<tx_counter, counterLock, txVars, txLock, sweepVars>>
  BY DEF IInv, StatusInv, StatusCommit
<1>2. TypeOK'
  BY <1>1, IdleIsJob DEF IInv, TypeOK, StatusCommit, txVars, sampleVars, sweepVars,
                         flushVars, historyVars
<1>3. StartInv' /\ StatusInv'
  BY <1>1, IdleIsJob DEF IInv, TypeOK, StartInv, StatusInv
<1>4. StopInv'
  <2> SUFFICES ASSUME NEW v \in Workers, job'[v].op = "stop"
               PROVE  /\ job[v].op = "stop"
                      /\ job'[v] = job[v]
                      /\ active_tx_id'[job[v].conn] \in {active_tx_id[job[v].conn], NoTx}
    BY <1>1 DEF IInv, StopInv, txVars, TxIds, NoTx
  <2>1. job[v].op = "stop" /\ v # w
    BY <1>1, IdleIsJob DEF IInv, TypeOK
  <2>2. job[v].conn \in Connectors
    BY <2>1 DEF IInv, StopInv, RowInv
  <2> QED
    BY <1>1, <2>1, <2>2 DEF IInv, TypeOK
<1>5. SweepInv'
  <2>1. \A s \in sweepTodo \cup sweepEnds : s \in TxIds /\ txConn[s] \in Connectors
    BY DEF IInv, TypeOK, SweepInv, RowInv
  <2> QED
    BY <1>1, <2>1 DEF IInv, TypeOK, SweepInv, txVars, sweepVars, flushVars, historyVars,
                      TxIds, NoTx
<1>6. CounterInv' /\ RowInv' /\ ActiveIsRunning'
  BY <1>1 DEF IInv, TypeOK, CounterInv, RowInv, ActiveIsRunning, StatusCommit, txVars,
              historyVars
<1>7. PlaceInv'
  BY PlacesStay DEF StatusCommit, sweepVars
<1> QED
  BY <1>2, <1>3, <1>4, <1>5, <1>6, <1>7 DEF IInv

\* A rollback gives up the worker's own locks and nothing else.
LEMMA AbortInv ==
  ASSUME IInv, NEW w \in Workers, Abort(w)
  PROVE  IInv'
<1>1. /\ job' = [job EXCEPT ![w] = Idle]
      /\ counterLock' = IF counterLock = w THEN None ELSE counterLock
      /\ txLock' = [s \in TxIds |-> IF txLock[s] = w THEN None ELSE txLock[s]]
      /\ UNCHANGED <<tx_counter, txVars, active_tx_id, sweepVars>>
  BY DEF Abort
<1>2. TypeOK'
  BY <1>1, IdleIsJob DEF IInv, TypeOK, Abort, txVars, sampleVars, sweepVars, flushVars,
                         historyVars
<1>3. StartInv' /\ StopInv' /\ StatusInv'
  <2>1. \A v \in Workers : job'[v].op # "idle" => v # w /\ job'[v] = job[v]
    BY <1>1, IdleIsJob DEF IInv, TypeOK
  <2> QED
    BY <1>1, <2>1 DEF IInv, TypeOK, StartInv, StopInv, StatusInv, txVars
<1> QED
  BY <1>1, <1>2, <1>3 DEF IInv, CounterInv, RowInv, SweepInv, PlaceInv, ActiveIsRunning,
                          Abort, txVars, sweepVars, flushVars, historyVars

\* A crash loses every handler and the sweep; the tables stay.
LEMMA CrashInv ==
  ASSUME IInv, Crash
  PROVE  IInv'
<1>1. TypeOK'
  BY IdleIsJob DEF IInv, TypeOK, Crash, SweepReset, txVars, sampleVars, flushVars,
                   historyVars
<1>2. StartInv' /\ StopInv' /\ StatusInv'
  BY IdleIsJob DEF Crash, StartInv, StopInv, StatusInv
<1> QED
  BY <1>1, <1>2 DEF IInv, CounterInv, RowInv, SweepInv, PlaceInv, ActiveIsRunning, Crash,
                    SweepReset, txVars, historyVars

-----------------------------------------------------------------------------
\* The sweep's query finds rows that exist.
LEMMA SweepStartInv ==
  ASSUME IInv, SweepStart
  PROVE  IInv'
<1>1. TypeOK'
  BY DEF IInv, TypeOK, SweepStart, txVars, sampleVars, flushVars, historyVars
<1>2. SweepInv'
  <2>1. sweepTodo' = {s \in TxIds : Stale(s)} /\ UNCHANGED <<sweepEnds, sweepClears, sweepSeen>>
    BY DEF SweepStart
  <2>2. sweepSeen = [c \in Connectors |-> None]
    BY DEF IInv, SweepStart, SweepInv
  <2> QED
    BY <2>1, <2>2 DEF IInv, SweepInv, RowInv, SweepStart, Stale, txVars
<1> QED
  BY <1>1, <1>2 DEF IInv, CounterInv, StartInv, StopInv, StatusInv, RowInv, PlaceInv,
                    ActiveIsRunning, SweepStart, txVars, flushVars, historyVars

\* A row the sweep closes is cleared from its connector if that shows it now.
LEMMA SweepScanInv ==
  ASSUME IInv, NEW t \in TxIds, SweepScan(t)
  PROVE  IInv'
<1>1. TypeOK'
  <2>1. OrphanEnergy(t) \in Nat
    BY OrphanEnergyType DEF IInv
  <2>2. txConn[t] \in Connectors
    BY DEF IInv, TypeOK, SweepInv, RowInv, SweepScan
  <2>3. Found(txConn[t]) \subseteq TxIds \cup {NoTx, None}
    BY <2>2 DEF IInv, TypeOK, Found
  <2>4. sweepSeen' \in [Connectors -> TxIds \cup {NoTx, None}]
    <3>1. CASE Alive(t)
      BY <3>1 DEF IInv, TypeOK, SweepScan
    <3>2. CASE ~Alive(t)
      <4>1. PICK shown \in Found(txConn[t]) :
              sweepSeen' = [sweepSeen EXCEPT ![txConn[t]] =
                              IF Shows(shown, t) THEN NoTx ELSE shown]
        BY <3>2 DEF SweepScan
      <4>2. (IF Shows(shown, t) THEN NoTx ELSE shown) \in TxIds \cup {NoTx, None}
        BY <2>3
      <4> QED
        BY <4>1, <4>2 DEF IInv, TypeOK
    <3> QED
      BY <3>1, <3>2
  <2>5. sweepEnergy' \in [TxIds -> Nat]
    BY <2>1 DEF IInv, TypeOK, SweepScan
  <2>6. sweepEnds' \subseteq TxIds /\ sweepClears' \subseteq sweepEnds'
    BY DEF IInv, TypeOK, SweepScan
  <2> QED
    BY <2>4, <2>5, <2>6 DEF IInv, TypeOK, SweepScan, txVars, sampleVars, flushVars,
                            historyVars
<1>2. SweepInv'
  <2>1. CASE Alive(t)
    BY <2>1 DEF IInv, SweepInv, SweepScan, txVars
  <2>2. CASE ~Alive(t)
    <3> DEFINE c == txConn[t]
    <3>1. PICK shown \in Found(c) :
            /\ sweepEnds' = sweepEnds \cup {t}
            /\ sweepClears' = IF shown = t THEN sweepClears \cup {t} ELSE sweepClears
            /\ sweepSeen' = [sweepSeen EXCEPT ![c] = IF shown = t THEN NoTx ELSE shown]
      BY <2>2 DEF SweepScan, Shows
    <3>2. /\ sweepTodo' = sweepTodo \ {t} /\ t \in sweepTodo
          /\ UNCHANGED <<status, txConn, active_tx_id, sweepOn>>
      BY DEF SweepScan, txVars
    <3>3. \A s \in sweepTodo : txConn[s] \in Connectors
      BY DEF IInv, TypeOK, SweepInv, RowInv
    <3>4. \A s \in sweepTodo : txConn[s] = c /\ shown # s => active_tx_id[c] # s
      BY <3>1 DEF Found, IInv, SweepInv
    <3>5. \A s \in sweepTodo' :
            sweepSeen'[txConn[s]] \notin {None, s} => active_tx_id[txConn[s]] # s
      BY <3>1, <3>2, <3>3, <3>4 DEF IInv, TypeOK, SweepInv
    <3>6. \A s \in sweepEnds' \ sweepClears' : active_tx_id[txConn[s]] # s
      BY <3>1, <3>2, <3>4 DEF IInv, SweepInv
    <3>7. sweepOn
      BY <3>2 DEF IInv, SweepInv
    <3>8. \A s \in sweepTodo' \cup sweepEnds' : status'[s] # "NONE"
      BY <3>1, <3>2 DEF IInv, SweepInv
    <3> QED
      BY <3>2, <3>5, <3>6, <3>7, <3>8 DEF SweepInv
  <2> QED
    BY <2>1, <2>2
<1> QED
  BY <1>1, <1>2 DEF IInv, CounterInv, StartInv, StopInv, StatusInv, RowInv, PlaceInv,
                    ActiveIsRunning, SweepScan, txVars, flushVars, historyVars

\* The flush draws the ids of the sweep's events: places at the end of the outbox.
LEMMA SweepFlushInv ==
  ASSUME IInv, SweepFlush
  PROVE  IInv'
<1>1. /\ sweepOn /\ sweepTodo = {}
      /\ sweepPlace' = [t \in TxIds |-> IF t \in sweepEnds THEN Len(events[t]) + 1 ELSE 0]
      /\ UNCHANGED <<events, sweepOn, sweepTodo, sweepEnds>>
  BY DEF SweepFlush
<1>2. \A t \in TxIds : Len(events[t]) \in Nat
  BY LenProperties DEF IInv, TypeOK
<1>3. TypeOK'
  BY <1>1, <1>2 DEF IInv, TypeOK, SweepFlush, txVars, sampleVars, historyVars
<1>4. PlaceInv'
  BY <1>1, <1>2 DEF IInv, TypeOK, PlaceInv
<1> QED
  BY <1>3, <1>4 DEF IInv, CounterInv, StartInv, StopInv, StatusInv, RowInv, SweepInv,
                    ActiveIsRunning, SweepFlush, txVars, historyVars

\* The commit of a sweep: no row it closes is locked by a StopTransaction, and
\* no connector shows a row it closes any more.
LEMMA SweepCommitInv ==
  ASSUME IInv, SweepCommit
  PROVE  IInv'
<1>1. /\ \A t \in sweepEnds : txLock[t] = None
      /\ status' = [t \in TxIds |-> IF t \in sweepEnds THEN "STOPPED" ELSE status[t]]
      /\ active_tx_id' = [c \in Connectors |->
                            IF \E t \in sweepClears : txConn[t] = c
                            THEN NoTx ELSE active_tx_id[c]]
      /\ sweepTodo' = {} /\ sweepEnds' = {} /\ sweepClears' = {}
      /\ sweepSeen' = [c \in Connectors |-> None]
      /\ UNCHANGED <<tx_counter, counterLock, txConn, txLock, job>>
  BY DEF SweepCommit, SweepReset, RowFree
<1>2. \A t \in sweepEnds : t \in TxIds /\ status[t] # "NONE"
  BY DEF IInv, TypeOK, SweepInv
<1>3. TypeOK'
  <2>1. energy_wh' \in [TxIds -> Nat \cup {None}]
    BY DEF IInv, TypeOK, SweepCommit
  <2>2. events' \in [TxIds -> Seq(Event)]
    <3>1. \A t \in TxIds : Ev("ev.tx.stopped", "Orphaned", sweepEnergy[t]) \in Event
      BY DEF IInv, TypeOK, Ev, Event
    <3>2. \A t \in sweepEnds : sweepPlace[t] \in 1 .. Len(events[t]) + 1
      BY DEF IInv, PlaceInv, SweepCommit
    <3>3. \A t \in TxIds : OrphanEvents(t) \in Seq(Event)
      BY <3>1, <3>2, Inserted DEF IInv, TypeOK, OrphanEvents
    <3> QED
      BY <3>3 DEF SweepCommit
  <2>3. /\ status' \in [TxIds -> {"NONE", "RUNNING", "STOPPED"}]
        /\ active_tx_id' \in [Connectors -> TxIds \cup {NoTx}]
    BY <1>1 DEF IInv, TypeOK
  <2>4. /\ sweepOn' \in BOOLEAN /\ sweepTodo' \subseteq TxIds
        /\ sweepEnds' \subseteq TxIds /\ sweepClears' \subseteq sweepEnds'
        /\ sweepEnergy' \in [TxIds -> Nat]
        /\ sweepSeen' \in [Connectors -> TxIds \cup {NoTx, None}]
        /\ sweepFlushed' \in BOOLEAN /\ sweepPlace' \in [TxIds -> Nat]
    BY DEF SweepCommit, SweepReset
  <2> QED
    BY <2>1, <2>2, <2>3, <2>4 DEF IInv, TypeOK, SweepCommit, sampleVars, flushVars,
                                  historyVars
<1>4. CounterInv' /\ RowInv' /\ SweepInv'
  BY <1>1, <1>2 DEF IInv, TypeOK, CounterInv, RowInv, SweepInv, SweepCommit, historyVars
<1>5. StartInv' /\ StatusInv'
  BY <1>1 DEF IInv, StartInv, StatusInv
<1>6. StopInv'
  <2> SUFFICES ASSUME NEW v \in Workers, job[v].op = "stop"
               PROVE  /\ status'[job[v].tx] = "RUNNING"
                      /\ active_tx_id'[job[v].conn] \in {active_tx_id[job[v].conn], NoTx}
    BY <1>1 DEF IInv, StopInv, TxIds, NoTx
  <2>1. /\ job[v].tx \in TxIds /\ txLock[job[v].tx] = v
        /\ status[job[v].tx] = "RUNNING" /\ job[v].conn \in Connectors
    BY DEF IInv, StopInv, RowInv
  <2> QED
    BY <1>1, <2>1, TransactionsAssumption
<1>7. ActiveIsRunning'
  <2> SUFFICES ASSUME NEW c \in Connectors, active_tx_id'[c] # NoTx
               PROVE  /\ txConn[active_tx_id'[c]] = c
                      /\ status'[active_tx_id'[c]] = "RUNNING"
                         \/ active_tx_id'[c] \in strayed
    BY <1>1 DEF ActiveIsRunning, SweepCommit, historyVars
  <2> DEFINE t == active_tx_id[c]
  <2>1. active_tx_id'[c] = t /\ ~\E s \in sweepClears : txConn[s] = c
    BY <1>1
  <2>2. /\ t \in TxIds /\ txConn[t] = c
        /\ status[t] = "RUNNING" \/ t \in strayed
    BY <2>1 DEF IInv, TypeOK, ActiveIsRunning
  <2>3. t \notin sweepEnds
    BY <2>1, <2>2 DEF IInv, SweepInv
  <2> QED
    BY <1>1, <2>1, <2>2, <2>3
<1>8. PlaceInv'
  BY DEF PlaceInv, SweepCommit, SweepReset
<1> QED
  BY <1>3, <1>4, <1>5, <1>6, <1>7, <1>8 DEF IInv

\* A sweep that fails forgets what it read; it has written nothing.
LEMMA SweepAbortInv ==
  ASSUME IInv, SweepAbort
  PROVE  IInv'
<1>1. TypeOK'
  BY DEF IInv, TypeOK, SweepAbort, SweepReset, txVars, sampleVars, flushVars, historyVars
<1> QED
  BY <1>1 DEF IInv, CounterInv, StartInv, StopInv, StatusInv, RowInv, SweepInv, PlaceInv,
              ActiveIsRunning, SweepAbort, SweepReset, txVars, historyVars

\* Time only changes ages, and these stay within Ages.
LEMMA TickInv ==
  ASSUME IInv, Tick
  PROVE  IInv'
<1>1. \A a \in Ages : Older(a) \in Ages
  BY TransactionsAssumption DEF Older, Ages
<1>2. TypeOK'
  <2>1. startedAge' \in [TxIds -> Ages]
    BY <1>1 DEF IInv, TypeOK, Tick
  <2>2. lastSample' \in [TxIds -> Sample \cup {None}]
    BY <1>1 DEF IInv, TypeOK, Tick, Sample
  <2> QED
    BY <2>1, <2>2 DEF IInv, TypeOK, Tick, sweepVars, flushVars, historyVars
<1> QED
  BY <1>2 DEF IInv, CounterInv, StartInv, StopInv, StatusInv, RowInv, SweepInv, PlaceInv,
              ActiveIsRunning, Tick, sweepVars, flushVars, historyVars

-----------------------------------------------------------------------------
\* Every step, one lemma per action, keeps the invariant.
LEMMA NextIInv == IInv /\ [Next]_vars => IInv'
<1> SUFFICES ASSUME IInv, [Next]_vars PROVE IInv'
  OBVIOUS
<1>1. CASE Start
  BY <1>1, StartBeginInv DEF Start
<1>2. CASE Sampled
  BY <1>2, MeterValuesInv DEF Sampled
<1>3. CASE Stop
  BY <1>3, StopBeginInv DEF Stop
<1>4. CASE Status
  BY <1>4, StatusBeginInv DEF Status
<1>5. CASE \E w \in Workers : StartCommit(w) \/ StopCommit(w) \/ StatusCommit(w) \/ Abort(w)
  BY <1>5, StartCommitInv, StopCommitInv, StatusCommitInv, AbortInv
<1>6. CASE SweepStart \/ Scan \/ SweepFlush \/ SweepCommit \/ SweepAbort
  BY <1>6, SweepStartInv, SweepScanInv, SweepFlushInv, SweepCommitInv,
     SweepAbortInv DEF Scan
<1>7. CASE Crash \/ Tick
  BY <1>7, CrashInv, TickInv
<1>8. CASE UNCHANGED vars
  BY <1>8 DEF vars, txVars, sampleVars, sweepVars, flushVars, historyVars, IInv, TypeOK,
              CounterInv, StartInv, StopInv, StatusInv, RowInv, SweepInv, PlaceInv,
              ActiveIsRunning
<1> QED
  BY <1>1, <1>2, <1>3, <1>4, <1>5, <1>6, <1>7, <1>8 DEF Next

\* The locks, the sweep's decisions and the tables agree in every state.
THEOREM Invariance == Spec => []IInv
BY InitIInv, NextIInv, PTL DEF Spec

\* Every variable keeps its type, and in particular every energy that is billed
\* is a natural number or NULL.
THEOREM TypeCorrect == Spec => []TypeOK
<1>1. IInv => TypeOK
  BY DEF IInv
<1> QED
  BY <1>1, Invariance, PTL

\* A busy connector is busy with a running transaction of its own, unless that
\* was stopped under the cp_id of another charger, for any number of chargers,
\* connectors, handlers at once, transactions and sweeps.
THEOREM BusyIsRunning == Spec => []ActiveIsRunning
<1>1. IInv => ActiveIsRunning
  BY DEF IInv
<1> QED
  BY <1>1, Invariance, PTL

\* No two StartTransaction handlers hold one id, and the id they hold is free:
\* the FOR UPDATE of _next_tx_id is enough.
THEOREM IdsAreFresh == Spec => []FreshTxIds
<1>1. IInv => FreshTxIds
  <2> SUFFICES ASSUME IInv, NEW w \in Workers, job[w].op = "start"
               PROVE  /\ status[job[w].tx] = "NONE"
                      /\ \A v \in Workers \ {w} : job[v].op # "start"
    BY DEF FreshTxIds
  <2>1. job[w].tx \in TxIds /\ job[w].tx = tx_counter + 1 /\ counterLock = w
    BY DEF IInv, StartInv
  <2>2. job[w].tx > tx_counter
    BY <2>1 DEF IInv, TypeOK
  <2> QED
    BY <2>1, <2>2 DEF IInv, CounterInv, StartInv
<1> QED
  BY <1>1, Invariance, PTL
-----------------------------------------------------------------------------
\* The energy e is no more than the register of t moved while the hub listened.
Measured(e, t) ==
  e > 0 => /\ meter_start_wh[t] # None
           /\ highest[t] # None
           /\ e + meter_start_wh[t] <= highest[t]

\* The newest sample is one of the readings the history has seen.
SampleInv ==
  \A t \in TxIds : lastSample[t] # None /\ lastSample[t].wh # None =>
    highest[t] # None /\ lastSample[t].wh <= highest[t]

\* What a sweep is about to write is measured energy.
SettledInv == \A t \in sweepEnds : Measured(sweepEnergy[t], t)

\* A row that does not exist has no energy and no samples.
BlankInv ==
  \A t \in TxIds : status[t] = "NONE" => energy_wh[t] = None /\ lastSample[t] = None

\* The energies in the table, in a sweep and in the samples, against the register.
BillInv == NeverOvercharged /\ SampleInv /\ SettledInv /\ BlankInv

\* The history of a register only grows, and holds each new reading.
LEMMA HigherIsUpperBound ==
  ASSUME NEW old \in Meter, NEW new \in Meter
  PROVE  /\ Higher(old, new) \in Meter
         /\ old # None => Higher(old, new) # None /\ old <= Higher(old, new)
         /\ new # None => Higher(old, new) # None /\ new <= Higher(old, new)
BY TransactionsAssumption DEF Higher, Meter

\* A difference of two readings is covered by any history that holds the later one.
LEMMA DifferenceIsMeasured ==
  ASSUME NEW stop \in Readings, NEW start \in Readings, NEW high \in Readings, stop <= high
  PROVE  Difference(stop, start) > 0 => Difference(stop, start) + start <= high
BY TransactionsAssumption DEF Difference

\* Measured energy stays measured while the start stays and the register grows.
LEMMA MeasuredIsStable ==
  ASSUME TypeOK, NEW t \in TxIds, NEW e \in Nat, Measured(e, t),
         meter_start_wh'[t] = meter_start_wh[t], highest'[t] \in Meter,
         highest[t] # None => highest'[t] # None /\ highest[t] <= highest'[t]
  PROVE  Measured(e, t)'
<1> SUFFICES ASSUME e > 0
             PROVE  /\ meter_start_wh'[t] # None
                    /\ highest'[t] # None
                    /\ e + meter_start_wh'[t] <= highest'[t]
  BY DEF Measured
<1>1. /\ meter_start_wh[t] # None /\ highest[t] # None
      /\ e + meter_start_wh[t] <= highest[t]
      /\ highest'[t] # None /\ highest[t] <= highest'[t]
  BY DEF Measured
<1>2. meter_start_wh[t] \in Nat /\ highest[t] \in Nat /\ highest'[t] \in Nat
  BY <1>1, TransactionsAssumption DEF TypeOK, Meter
<1> QED
  BY <1>1, <1>2

\* At first there are no rows, so no energy.
LEMMA InitBill == Init => BillInv
BY DEF Init, BillInv, NeverOvercharged, SampleInv, SettledInv, BlankInv

\* A step that leaves the energies, samples, starts and rows alone.
LEMMA BillUnchanged ==
  ASSUME BillInv,
         UNCHANGED <<status, meter_start_wh, energy_wh, lastSample, highest>>,
         \A t \in sweepEnds' : t \in sweepEnds /\ sweepEnergy'[t] = sweepEnergy[t]
  PROVE  BillInv'
BY DEF BillInv, NeverOvercharged, SampleInv, SettledInv, BlankInv, Measured

\* A new row replaces no energy: it had none, and no sweep has read it.
LEMMA StartCommitBill ==
  ASSUME IInv, BillInv, NEW w \in Workers, StartCommit(w)
  PROVE  BillInv'
<1> DEFINE t == job[w].tx
<1>1. /\ t \in TxIds /\ status[t] = "NONE" /\ energy_wh[t] = None /\ lastSample[t] = None
      /\ t \notin sweepEnds
  BY DEF IInv, StartInv, SweepInv, StartCommit, BillInv, BlankInv
<1>2. /\ status' = [status EXCEPT ![t] = "RUNNING"]
      /\ meter_start_wh' = [meter_start_wh EXCEPT ![t] = job[w].meter]
      /\ highest' = [highest EXCEPT ![t] = job[w].meter]
      /\ UNCHANGED <<energy_wh, lastSample, sweepEnds, sweepEnergy>>
  BY DEF StartCommit, sampleVars, sweepVars, flushVars, historyVars
<1>3. \A s \in TxIds : s # t => /\ meter_start_wh'[s] = meter_start_wh[s]
                                /\ highest'[s] = highest[s] /\ status'[s] = status[s]
  BY <1>2 DEF IInv, TypeOK
<1>4. NeverOvercharged'
  BY <1>1, <1>2, <1>3 DEF BillInv, NeverOvercharged
<1>5. SampleInv' /\ BlankInv'
  BY <1>1, <1>2, <1>3 DEF BillInv, SampleInv, BlankInv, IInv, TypeOK
<1>6. SettledInv'
  BY <1>1, <1>2, <1>3 DEF BillInv, SettledInv, Measured, IInv, TypeOK
<1> QED
  BY <1>4, <1>5, <1>6 DEF BillInv

\* A sample is remembered by the history of the register.
LEMMA MeterValuesBill ==
  ASSUME IInv, BillInv, NEW w \in Workers, NEW t \in TxIds, NEW wh \in NextReadings(t),
         NEW age \in NextAges(t), MeterValues(w, t, wh, age)
  PROVE  BillInv'
<1>1. wh \in Meter
  BY DEF NextReadings, Meter
<1>2. /\ lastSample' = [lastSample EXCEPT ![t] = [wh |-> wh, age |-> age]]
      /\ highest' = [highest EXCEPT ![t] = Higher(highest[t], wh)]
      /\ status[t] # "NONE"
      /\ UNCHANGED <<status, meter_start_wh, energy_wh, sweepEnds, sweepEnergy>>
  BY DEF MeterValues, txVars, sweepVars, flushVars, historyVars
<1>3. \A s \in TxIds : /\ highest'[s] \in Meter
                       /\ highest[s] # None => highest'[s] # None /\ highest[s] <= highest'[s]
  <2> TAKE s \in TxIds
  <2>1. highest[s] \in Meter
    BY DEF IInv, TypeOK
  <2>2. highest[s] # None => highest[s] \in Nat
    BY <2>1, TransactionsAssumption DEF Meter
  <2>3. CASE s = t
    BY <1>1, <1>2, <2>1, <2>3, HigherIsUpperBound DEF IInv, TypeOK
  <2>4. CASE s # t
    BY <1>2, <2>1, <2>2, <2>4 DEF IInv, TypeOK
  <2> QED
    BY <2>3, <2>4
<1>4. NeverOvercharged'
  <2> SUFFICES ASSUME NEW s \in TxIds, energy_wh[s] # None PROVE Measured(energy_wh[s], s)'
    BY <1>2 DEF NeverOvercharged, Measured
  <2>1. energy_wh[s] \in Nat /\ Measured(energy_wh[s], s)
    BY DEF IInv, TypeOK, BillInv, NeverOvercharged, Measured
  <2>2. Measured(energy_wh[s], s)'
    BY <1>2, <1>3, <2>1, MeasuredIsStable DEF IInv, Measured
  <2> QED
    BY <2>2
<1>5. SampleInv'
  <2> SUFFICES ASSUME NEW s \in TxIds, lastSample'[s] # None, lastSample'[s].wh # None
               PROVE  highest'[s] # None /\ lastSample'[s].wh <= highest'[s]
    BY DEF SampleInv
  <2>1. CASE s = t
    <3>1. lastSample'[s].wh = wh /\ highest'[s] = Higher(highest[s], wh)
      BY <1>2, <2>1 DEF IInv, TypeOK
    <3>2. highest[s] \in Meter
      BY DEF IInv, TypeOK
    <3> QED
      BY <1>1, <3>1, <3>2, HigherIsUpperBound
  <2>2. CASE s # t
    BY <1>2, <2>2 DEF IInv, TypeOK, BillInv, SampleInv
  <2> QED
    BY <2>1, <2>2
<1>6. SettledInv'
  BY <1>2, <1>3, MeasuredIsStable DEF IInv, TypeOK, BillInv, SettledInv, Measured
<1>7. BlankInv'
  BY <1>2 DEF IInv, TypeOK, BillInv, BlankInv
<1> QED
  BY <1>4, <1>5, <1>6, <1>7 DEF BillInv

\* The energy of a stop is measured against the reading the stop itself brings.
LEMMA StopCommitBill ==
  ASSUME IInv, BillInv, NEW w \in Workers, StopCommit(w)
  PROVE  BillInv'
<1> DEFINE t == job[w].tx
           m == job[w].meter
           energy == StopEnergy(m, meter_start_wh[t])
<1>1. t \in TxIds /\ m \in Meter /\ status[t] = "RUNNING"
  BY DEF IInv, TypeOK, StopInv, StopCommit, Job
<1>2. /\ status' = [status EXCEPT ![t] = "STOPPED"]
      /\ energy_wh' = [energy_wh EXCEPT ![t] = IF energy = None THEN energy_wh[t] ELSE energy]
      /\ highest' = [highest EXCEPT ![t] = Higher(highest[t], m)]
      /\ UNCHANGED <<meter_start_wh, lastSample, sweepEnds, sweepEnergy>>
  BY DEF StopCommit, sampleVars, sweepVars, flushVars, historyVars
<1>3. \A s \in TxIds : /\ highest'[s] \in Meter
                       /\ highest[s] # None => highest'[s] # None /\ highest[s] <= highest'[s]
  <2> TAKE s \in TxIds
  <2>1. highest[s] \in Meter /\ (highest[s] # None => highest[s] \in Nat)
    BY TransactionsAssumption DEF IInv, TypeOK, Meter
  <2>2. CASE s = t
    BY <1>1, <1>2, <2>1, <2>2, HigherIsUpperBound DEF IInv, TypeOK
  <2>3. CASE s # t
    BY <1>2, <2>1, <2>3 DEF IInv, TypeOK
  <2> QED
    BY <2>2, <2>3
<1>4. energy # None /\ energy > 0 => /\ meter_start_wh[t] # None /\ highest'[t] # None
                                     /\ energy + meter_start_wh[t] <= highest'[t]
  <2> SUFFICES ASSUME energy # None, energy > 0
               PROVE  /\ meter_start_wh[t] # None /\ highest'[t] # None
                      /\ energy + meter_start_wh[t] <= highest'[t]
    OBVIOUS
  <2>1. m \in Readings /\ meter_start_wh[t] \in Readings
        /\ energy = Difference(m, meter_start_wh[t])
    BY <1>1 DEF StopEnergy, IInv, TypeOK, Meter
  <2>2. m # None /\ meter_start_wh[t] # None
    BY <2>1, TransactionsAssumption
  <2>3. highest[t] \in Meter /\ highest'[t] = Higher(highest[t], m)
    BY <1>1, <1>2 DEF IInv, TypeOK
  <2>4. highest'[t] # None /\ m <= highest'[t] /\ highest'[t] \in Meter
    BY <1>1, <2>2, <2>3, HigherIsUpperBound
  <2>5. highest'[t] \in Readings
    BY <2>4 DEF Meter
  <2> QED
    BY <2>1, <2>2, <2>4, <2>5, DifferenceIsMeasured
<1>5. NeverOvercharged'
  <2> SUFFICES ASSUME NEW s \in TxIds, energy_wh'[s] # None, energy_wh'[s] > 0
               PROVE  /\ meter_start_wh[s] # None /\ highest'[s] # None
                      /\ energy_wh'[s] + meter_start_wh[s] <= highest'[s]
    BY <1>2 DEF NeverOvercharged
  <2>1. CASE s = t /\ energy # None
    <3>1. energy_wh'[s] = energy
      BY <1>1, <1>2, <2>1 DEF IInv, TypeOK
    <3> QED
      BY <1>4, <2>1, <3>1
  <2>2. CASE ~(s = t /\ energy # None)
    <3>1. energy_wh'[s] = energy_wh[s]
      BY <1>1, <1>2, <2>2 DEF IInv, TypeOK
    <3>2. energy_wh[s] \in Nat /\ Measured(energy_wh[s], s)
      BY <3>1 DEF IInv, TypeOK, BillInv, NeverOvercharged, Measured
    <3>3. \A e \in Nat : Measured(e, s) => Measured(e, s)'
      BY <1>2, <1>3, MeasuredIsStable DEF IInv
    <3> QED
      BY <1>2, <3>1, <3>2, <3>3 DEF Measured
  <2> QED
    BY <2>1, <2>2
<1>6. SampleInv'
  <2> SUFFICES ASSUME NEW s \in TxIds, lastSample[s] # None, lastSample[s].wh # None
               PROVE  highest'[s] # None /\ lastSample[s].wh <= highest'[s]
    BY <1>2 DEF SampleInv
  <2>1. highest[s] # None /\ lastSample[s].wh <= highest[s]
    BY DEF BillInv, SampleInv
  <2>2. highest'[s] # None /\ highest[s] <= highest'[s] /\ highest'[s] \in Meter
    BY <1>3, <2>1
  <2>3. lastSample[s].wh \in Nat /\ highest[s] \in Nat /\ highest'[s] \in Nat
    BY <2>1, <2>2, TransactionsAssumption DEF IInv, TypeOK, Sample, Meter
  <2> QED
    BY <2>1, <2>2, <2>3
<1>7. SettledInv'
  <2>1. \A s \in TxIds, e \in Nat : Measured(e, s) => Measured(e, s)'
    BY <1>2, <1>3, MeasuredIsStable DEF IInv
  <2> QED
    BY <1>2, <2>1 DEF IInv, TypeOK, BillInv, SettledInv, Measured
<1>8. BlankInv'
  BY <1>1, <1>2 DEF IInv, TypeOK, BillInv, BlankInv
<1> QED
  BY <1>5, <1>6, <1>7, <1>8 DEF BillInv

\* The energy a sweep decides on is measured: its reading is a sample's or the
\* start itself.
LEMMA OrphanEnergyIsMeasured ==
  ASSUME IInv, BillInv, NEW t \in TxIds
  PROVE  Measured(OrphanEnergy(t), t)
<1> DEFINE stop == IF lastSample[t] # None /\ lastSample[t].wh # None
                   THEN lastSample[t].wh ELSE meter_start_wh[t]
<1> SUFFICES ASSUME OrphanEnergy(t) > 0 PROVE Measured(OrphanEnergy(t), t)
  BY DEF Measured
<1>1. meter_start_wh[t] # None /\ OrphanEnergy(t) = Difference(stop, meter_start_wh[t])
  BY TransactionsAssumption DEF OrphanEnergy
<1>2. meter_start_wh[t] \in Nat /\ meter_start_wh[t] \in Readings
  BY <1>1, TransactionsAssumption DEF IInv, TypeOK, Meter
<1>3. stop # meter_start_wh[t]
  BY <1>1, <1>2 DEF Difference
<1>4. /\ lastSample[t] # None /\ lastSample[t].wh # None /\ stop = lastSample[t].wh
      /\ highest[t] # None /\ lastSample[t].wh <= highest[t]
  BY <1>3 DEF BillInv, SampleInv
<1>5. stop \in Readings /\ highest[t] \in Readings
  BY <1>4 DEF IInv, TypeOK, Sample, Meter
<1> QED
  BY <1>1, <1>2, <1>4, <1>5, DifferenceIsMeasured DEF Measured

\* A sweep decides on measured energy and writes nothing yet.
LEMMA SweepScanBill ==
  ASSUME IInv, BillInv, NEW t \in TxIds, SweepScan(t)
  PROVE  BillInv'
<1>1. UNCHANGED <<status, meter_start_wh, energy_wh, lastSample, highest>>
  BY DEF SweepScan, txVars, sampleVars, flushVars, historyVars
<1>2. NeverOvercharged' /\ SampleInv' /\ BlankInv'
  BY <1>1 DEF BillInv, NeverOvercharged, SampleInv, BlankInv
<1>3. \A s \in sweepEnds' : \/ s \in sweepEnds /\ sweepEnergy'[s] = sweepEnergy[s]
                            \/ s = t /\ sweepEnergy'[s] = OrphanEnergy(t)
  BY DEF IInv, TypeOK, SweepScan
<1>4. SettledInv'
  BY <1>1, <1>3, OrphanEnergyIsMeasured DEF BillInv, SettledInv, Measured
<1> QED
  BY <1>2, <1>4 DEF BillInv

\* The commit of a sweep writes what it has decided on.
LEMMA SweepCommitBill ==
  ASSUME IInv, BillInv, SweepCommit
  PROVE  BillInv'
<1>1. /\ status' = [t \in TxIds |-> IF t \in sweepEnds THEN "STOPPED" ELSE status[t]]
      /\ energy_wh' = [t \in TxIds |-> IF t \in sweepEnds THEN sweepEnergy[t] ELSE energy_wh[t]]
      /\ sweepEnds' = {}
      /\ UNCHANGED <<meter_start_wh, lastSample, highest>>
  BY DEF SweepCommit, SweepReset, sampleVars, flushVars, historyVars
<1>2. NeverOvercharged'
  BY <1>1 DEF BillInv, NeverOvercharged, SettledInv, Measured
<1>3. SampleInv' /\ SettledInv' /\ BlankInv'
  BY <1>1 DEF BillInv, SampleInv, SettledInv, BlankInv
<1> QED
  BY <1>2, <1>3 DEF BillInv

\* Time changes the age of a sample, not its value.
LEMMA TickBill ==
  ASSUME IInv, BillInv, Tick
  PROVE  BillInv'
<1>1. UNCHANGED <<status, meter_start_wh, energy_wh, highest, sweepEnds, sweepEnergy>>
  BY DEF Tick, sweepVars, flushVars, historyVars
<1>2. \A t \in TxIds : /\ lastSample'[t] = None <=> lastSample[t] = None
                       /\ lastSample[t] # None => lastSample'[t].wh = lastSample[t].wh
  <2> TAKE t \in TxIds
  <2>1. CASE status[t] = "RUNNING" /\ lastSample[t] # None
    <3>1. lastSample[t] \in Sample
      BY <2>1 DEF IInv, TypeOK
    <3>2. lastSample'[t] = [lastSample[t] EXCEPT !.age = Older(lastSample[t].age)]
      BY <2>1 DEF Tick
    <3>3. lastSample'[t] \in [wh : Readings \cup {None}, age : 0 .. OrphanAge + 1]
      <4>1. \A a \in Ages : Older(a) \in Ages
        BY TransactionsAssumption DEF Older, Ages
      <4> QED
        BY <3>1, <3>2, <4>1 DEF Sample, Meter, Ages
    <3> QED
      BY <2>1, <3>1, <3>2, <3>3, TransactionsAssumption DEF Sample
  <2>2. CASE ~(status[t] = "RUNNING" /\ lastSample[t] # None)
    BY <2>2 DEF Tick
  <2> QED
    BY <2>1, <2>2
<1> QED
  BY <1>1, <1>2 DEF BillInv, NeverOvercharged, SampleInv, SettledInv, BlankInv, Measured

\* Every step keeps what is stored, decided and sampled within the register.
LEMMA NextBill == IInv /\ BillInv /\ [Next]_vars => BillInv'
<1> SUFFICES ASSUME IInv, BillInv, [Next]_vars PROVE BillInv'
  OBVIOUS
<1>1. CASE Start \/ Stop \/ Status
  BY <1>1, BillUnchanged DEF Start, Stop, Status, StartBegin, StopBegin, StatusBegin,
                             txVars, sampleVars, sweepVars, flushVars, historyVars
<1>2. CASE Sampled
  BY <1>2, MeterValuesBill DEF Sampled
<1>3. CASE \E w \in Workers : StartCommit(w) \/ StopCommit(w)
  BY <1>3, StartCommitBill, StopCommitBill
<1>4. CASE \E w \in Workers : StatusCommit(w) \/ Abort(w)
  BY <1>4, BillUnchanged DEF StatusCommit, Abort, txVars, sampleVars, sweepVars,
                             flushVars, historyVars
<1>5. CASE Scan \/ SweepCommit
  BY <1>5, SweepScanBill, SweepCommitBill DEF Scan
<1>6. CASE SweepStart \/ SweepFlush
  BY <1>6, BillUnchanged DEF SweepStart, SweepFlush, txVars, sampleVars, flushVars,
                             historyVars
<1>7. CASE SweepAbort \/ Crash
  BY <1>7, BillUnchanged DEF SweepAbort, Crash, SweepReset, txVars, sampleVars,
                             flushVars, historyVars
<1>8. CASE Tick
  BY <1>8, TickBill
<1>9. CASE UNCHANGED vars
  BY <1>9, BillUnchanged DEF vars, txVars, sampleVars, sweepVars, flushVars, historyVars
<1> QED
  BY <1>1, <1>2, <1>3, <1>4, <1>5, <1>6, <1>7, <1>8, <1>9 DEF Next

\* No driver is billed for energy nobody measured, for any readings, missing
\* samples, replaced meters and overlaps of stops and sweeps.
THEOREM BilledIsMeasured == Spec => []NeverOvercharged
<1>1. IInv /\ BillInv /\ [Next]_vars => (IInv /\ BillInv)'
  BY NextIInv, NextBill
<1>2. Init => IInv /\ BillInv
  BY InitIInv, InitBill
<1>3. IInv /\ BillInv => NeverOvercharged
  BY DEF BillInv
<1> QED
  BY <1>1, <1>2, <1>3, PTL DEF Spec
=============================================================================
