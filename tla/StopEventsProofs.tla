-------------------------- MODULE StopEventsProofs --------------------------
(***************************************************************************)
(* Proofs about what Transactions tells the core of the end of a           *)
(* transaction: the ev.tx.stopped in its part of the outbox.               *)
(*                                                                         *)
(* A sweep's end stands in the outbox where its flush drew the id, which   *)
(* may be before the charger's: EventsInv therefore says nothing of their  *)
(* order.  It adds to the properties what the sweep knows: a row it is     *)
(* about to close, and which has been stopped since the sweep read it, was *)
(* stopped by its charger.                                                 *)
(***************************************************************************)
EXTENDS TransactionsProofs

Stops(e) == {i \in DOMAIN e : e[i].kind = "ev.tx.stopped"}
HasOrphan(e) == \E i \in Stops(e) : e[i].reason = "Orphaned"

\* The ends of a transaction in its part e of the outbox: one of a kind at most.
EndsInv(e) ==
  /\ \A i \in Stops(e) : e[i].reason \in {"Charger", "Orphaned"}
  /\ \A i, j \in Stops(e) : e[i].reason = e[j].reason => i = j

\* The row's energy is the one the end that counts reports.
EnergyInv(e, energy) ==
  \A i \in Stops(e) : (e[i].reason = "Orphaned" <=> HasOrphan(e)) => e[i].energy = energy

EventsInv ==
  \A t \in TxIds :
    /\ status[t] = "STOPPED" <=> Stops(events[t]) # {}
    /\ EndsInv(events[t])
    /\ EnergyInv(events[t], energy_wh[t])
    /\ t \in sweepTodo \cup sweepEnds => ~HasOrphan(events[t])

\* What the code keeps of EndsOnce: a transaction ends twice at most, once by its
\* charger and once by a sweep, in either order of their ids
\* (hub/sweeper.py:31-68 over hub/ocpp/handlers.py:265-310).
EndsAtMostTwice ==
  \A t \in TxIds :
    /\ Cardinality(StopIndices(t)) <= 2
    /\ \A i, j \in StopIndices(t) :
         i # j => {events[t][i].reason, events[t][j].reason} = {"Charger", "Orphaned"}

-----------------------------------------------------------------------------
\* An event that is no stop leaves the stops as they were.
LEMMA OtherEvent ==
  ASSUME NEW e \in Seq(Event), NEW v \in Event, v.kind # "ev.tx.stopped"
  PROVE  /\ Stops(Append(e, v)) = Stops(e)
         /\ \A i \in Stops(e) : Append(e, v)[i] = e[i]
<1>1. /\ Len(e) \in Nat /\ DOMAIN e = 1 .. Len(e) /\ DOMAIN Append(e, v) = 1 .. Len(e) + 1
      /\ \A i \in 1 .. Len(e) : Append(e, v)[i] = e[i]
      /\ Append(e, v)[Len(e) + 1] = v
  BY AppendProperties, LenProperties
<1> QED
  BY <1>1 DEF Stops

\* The first stop is the only one.
LEMMA FirstStop ==
  ASSUME NEW e \in Seq(Event), NEW v \in Event, v.kind = "ev.tx.stopped", Stops(e) = {}
  PROVE  \E i : Stops(Append(e, v)) = {i} /\ Append(e, v)[i] = v
<1>1. /\ Len(e) \in Nat /\ DOMAIN e = 1 .. Len(e) /\ DOMAIN Append(e, v) = 1 .. Len(e) + 1
      /\ \A i \in 1 .. Len(e) : Append(e, v)[i] = e[i]
      /\ Append(e, v)[Len(e) + 1] = v
  BY AppendProperties, LenProperties
<1>2. Stops(Append(e, v)) = {Len(e) + 1}
  BY <1>1 DEF Stops
<1> QED
  BY <1>1, <1>2

\* A stop inserted at p leaves the others what they were, those behind it a place on.
LEMMA StopInserted ==
  ASSUME NEW e \in Seq(Event), NEW v \in Event, v.kind = "ev.tx.stopped",
         NEW p \in 1 .. Len(e) + 1
  PROVE  LET f == InsertAt(e, p, v)
             Was(i) == IF i < p THEN i ELSE i - 1
         IN  /\ p \in Stops(f) /\ f[p] = v
             /\ \A i \in Stops(f) \ {p} : Was(i) \in Stops(e) /\ f[i] = e[Was(i)]
             /\ \A i, j \in Stops(f) \ {p} : Was(i) = Was(j) => i = j
<1> DEFINE f == InsertAt(e, p, v)
           Was(i) == IF i < p THEN i ELSE i - 1
<1>1. Len(e) \in Nat /\ DOMAIN e = 1 .. Len(e) /\ p \in Nat /\ p >= 1 /\ p <= Len(e) + 1
  BY LenProperties
<1>2. /\ f \in Seq(Event) /\ Len(f) = Len(e) + 1
      /\ \A i \in 1 .. Len(e) + 1 : f[i] = IF i < p THEN e[i] ELSE IF i = p THEN v ELSE e[i - 1]
  BY Inserted
<1> HIDE DEF f
<1>3. DOMAIN f = 1 .. Len(e) + 1
  BY <1>2, LenProperties
<1>4. p \in Stops(f) /\ f[p] = v
  BY <1>1, <1>2, <1>3 DEF Stops
<1>5. ASSUME NEW i \in Stops(f), i # p
      PROVE  i \in Nat /\ Was(i) \in Stops(e) /\ f[i] = e[Was(i)]
  <2>1. i \in 1 .. Len(e) + 1 /\ f[i].kind = "ev.tx.stopped"
    BY <1>3 DEF Stops
  <2>2. Was(i) \in 1 .. Len(e) /\ f[i] = e[Was(i)]
    BY <1>1, <1>2, <1>5, <2>1
  <2> QED
    BY <1>1, <2>1, <2>2 DEF Stops
<1>6. \A i, j \in Stops(f) \ {p} : Was(i) = Was(j) => i = j
  BY <1>1, <1>5
<1> QED
  BY <1>4, <1>5, <1>6 DEF f

-----------------------------------------------------------------------------
\* EventsInv holds initially.
LEMMA InitEvents == Init => EventsInv
<1> SUFFICES ASSUME Init PROVE EventsInv
  OBVIOUS
<1>1. Stops(<<>>) = {}
  BY DEF Stops
<1> QED
  BY <1>1 DEF Init, EventsInv, EndsInv, EnergyInv, HasOrphan

\* Steps that settle nothing: a row may come under a sweep while it runs.
LEMMA EventsUnchanged ==
  ASSUME EventsInv, UNCHANGED <<status, energy_wh, events>>,
         \A t \in sweepTodo' \cup sweepEnds' :
           t \in sweepTodo \cup sweepEnds \/ status[t] = "RUNNING"
  PROVE  EventsInv'
<1>1. \A t \in TxIds : status[t] = "RUNNING" => ~HasOrphan(events[t])
  BY DEF EventsInv, HasOrphan
<1> QED
  BY <1>1 DEF EventsInv

\* on_start_transaction: the row is new, and so is its part of the outbox.
LEMMA StartCommitEvents ==
  ASSUME IInv, EventsInv, NEW w \in Workers, StartCommit(w)
  PROVE  EventsInv'
<1> DEFINE t == job[w].tx
           v == Ev("ev.tx.started", "", None)
<1>1. /\ t \in TxIds /\ status[t] = "NONE" /\ v \in Event /\ v.kind # "ev.tx.stopped"
      /\ status' = [status EXCEPT ![t] = "RUNNING"]
      /\ events' = [events EXCEPT ![t] = Append(events[t], v)]
      /\ UNCHANGED <<energy_wh, sweepTodo, sweepEnds>>
  BY DEF IInv, StartInv, StartCommit, Ev, Event, sweepVars
<1>2. events[t] \in Seq(Event) /\ events' \in [TxIds -> Seq(Event)]
  BY <1>1, AppendProperties DEF IInv, TypeOK
<1> HIDE DEF t, v
<1>3. Stops(events'[t]) = {}
  <2>1. Stops(Append(events[t], v)) = Stops(events[t])
    BY <1>1, <1>2, OtherEvent
  <2>2. Stops(events[t]) = {}
    BY <1>1 DEF EventsInv
  <2> QED
    BY <1>1, <2>1, <2>2 DEF IInv, TypeOK
<1>4. \A u \in TxIds \ {t} : events'[u] = events[u] /\ status'[u] = status[u]
  BY <1>1 DEF IInv, TypeOK
<1>5. status'[t] = "RUNNING"
  BY <1>1 DEF IInv, TypeOK
<1> QED
  BY <1>1, <1>3, <1>4, <1>5 DEF EventsInv, EndsInv, EnergyInv, HasOrphan

\* on_meter_values: ev.meter goes behind whatever is there, also behind a stop.
LEMMA MeterValuesEvents ==
  ASSUME IInv, EventsInv, NEW w \in Workers, NEW t \in TxIds, NEW wh \in Meter, NEW age \in Ages,
         MeterValues(w, t, wh, age)
  PROVE  EventsInv'
<1> DEFINE v == Ev("ev.meter", "", Difference(wh, meter_start_wh[t]))
<1>1. UNCHANGED <<status, energy_wh, sweepTodo, sweepEnds>>
  BY DEF MeterValues, txVars, sweepVars
<1>2. CASE events' = events
  BY <1>1, <1>2, EventsUnchanged
<1>3. CASE /\ wh # None /\ meter_start_wh[t] # None
           /\ events' = [events EXCEPT ![t] = Append(events[t], v)]
  <2>1. v \in Event /\ v.kind # "ev.tx.stopped"
    BY <1>3, DifferenceIsNat DEF Ev, Event, IInv, TypeOK, Meter
  <2> HIDE DEF v
  <2>2. events[t] \in Seq(Event) /\ events'[t] = Append(events[t], v)
    BY <1>3 DEF IInv, TypeOK
  <2>3. /\ Stops(events'[t]) = Stops(events[t])
        /\ \A i \in Stops(events[t]) : events'[t][i] = events[t][i]
    <3>1. LET e == events[t]
          IN  /\ Stops(Append(e, v)) = Stops(e)
              /\ \A i \in Stops(e) : Append(e, v)[i] = e[i]
      BY <2>1, <2>2, OtherEvent
    <3> QED
      BY <2>2, <3>1
  <2>4. HasOrphan(events'[t]) <=> HasOrphan(events[t])
    BY <2>3 DEF HasOrphan
  <2>5. EndsInv(events'[t]) /\ EnergyInv(events'[t], energy_wh[t])
    <3>1. EndsInv(events[t]) /\ EnergyInv(events[t], energy_wh[t])
      BY DEF EventsInv
    <3> QED
      BY <2>3, <2>4, <3>1 DEF EndsInv, EnergyInv
  <2>6. \A u \in TxIds \ {t} : events'[u] = events[u]
    BY <1>3 DEF IInv, TypeOK
  <2> QED
    BY <1>1, <2>3, <2>4, <2>5, <2>6 DEF EventsInv
<1> QED
  BY <1>2, <1>3 DEF MeterValues

\* on_stop_transaction: the lock kept the row RUNNING, so this is its first stop.
LEMMA StopCommitEvents ==
  ASSUME IInv, EventsInv, NEW w \in Workers, StopCommit(w)
  PROVE  EventsInv'
<1> DEFINE t == job[w].tx
           v == Ev("ev.tx.stopped", "Charger", energy_wh'[t])
           energy == StopEnergy(job[w].meter, meter_start_wh[t])
<1>1. /\ t \in TxIds /\ status[t] = "RUNNING" /\ energy \in Nat \cup {None}
      /\ status' = [status EXCEPT ![t] = "STOPPED"]
      /\ energy_wh' = [energy_wh EXCEPT ![t] = IF energy = None THEN energy_wh[t] ELSE energy]
      /\ events' = [events EXCEPT ![t] = Append(events[t], v)]
      /\ UNCHANGED <<sweepTodo, sweepEnds>>
  <2>1. t \in TxIds /\ status[t] = "RUNNING"
    BY DEF IInv, StopInv, StopCommit
  <2>2. job[w].meter \in Meter /\ meter_start_wh[t] \in Meter
    BY <2>1 DEF IInv, TypeOK, Job
  <2> QED
    BY <2>1, <2>2, StopEnergyType DEF StopCommit, sweepVars
<1> HIDE DEF energy
<1>2. energy_wh' \in [TxIds -> Nat \cup {None}]
  BY <1>1 DEF IInv, TypeOK
<1>3. v \in Event /\ v.kind = "ev.tx.stopped" /\ v.reason = "Charger" /\ v.energy = energy_wh'[t]
  BY <1>1, <1>2 DEF Ev, Event
<1>4. /\ events[t] \in Seq(Event) /\ Stops(events[t]) = {}
      /\ events'[t] = Append(events[t], v)
  BY <1>1 DEF IInv, TypeOK, EventsInv
<1> HIDE DEF t, v
<1>5. PICK i : Stops(events'[t]) = {i} /\ events'[t][i] = v
  <2>1. \E i : Stops(Append(events[t], v)) = {i} /\ Append(events[t], v)[i] = v
    BY <1>3, <1>4, FirstStop
  <2> QED
    BY <1>4, <2>1
<1>6. \A u \in TxIds \ {t} : /\ events'[u] = events[u] /\ status'[u] = status[u]
                             /\ energy_wh'[u] = energy_wh[u]
  BY <1>1 DEF IInv, TypeOK
<1>7. status'[t] = "STOPPED"
  BY <1>1 DEF IInv, TypeOK
<1>8. ~HasOrphan(events'[t]) /\ EndsInv(events'[t]) /\ EnergyInv(events'[t], energy_wh'[t])
  BY <1>3, <1>5 DEF HasOrphan, EndsInv, EnergyInv
<1> QED
  BY <1>1, <1>5, <1>6, <1>7, <1>8 DEF EventsInv

\* The commit of a sweep: every row it ends gets a stop of its own, before or behind
\* the one a charger may have put there meanwhile.
LEMMA SweepCommitEvents ==
  ASSUME IInv, EventsInv, SweepCommit
  PROVE  EventsInv'
<1>1. /\ status' = [t \in TxIds |-> IF t \in sweepEnds THEN "STOPPED" ELSE status[t]]
      /\ energy_wh' = [t \in TxIds |-> IF t \in sweepEnds THEN sweepEnergy[t] ELSE energy_wh[t]]
      /\ events' = [t \in TxIds |-> OrphanEvents(t)]
      /\ sweepTodo' = {} /\ sweepEnds' = {}
  BY DEF SweepCommit, SweepReset
<1> SUFFICES ASSUME NEW t \in TxIds
             PROVE  /\ status'[t] = "STOPPED" <=> Stops(events'[t]) # {}
                    /\ EndsInv(events'[t])
                    /\ EnergyInv(events'[t], energy_wh'[t])
  BY <1>1 DEF EventsInv
<1>2. CASE t \notin sweepEnds
  <2>1. events'[t] = events[t] /\ status'[t] = status[t] /\ energy_wh'[t] = energy_wh[t]
    BY <1>1, <1>2 DEF OrphanEvents
  <2> QED
    BY <2>1 DEF EventsInv
<1>3. CASE t \in sweepEnds
  <2> DEFINE v == Ev("ev.tx.stopped", "Orphaned", sweepEnergy[t])
             p == sweepPlace[t]
             Was(i) == IF i < p THEN i ELSE i - 1
  <2>1. /\ v \in Event /\ v.kind = "ev.tx.stopped" /\ v.reason = "Orphaned"
        /\ v.energy = sweepEnergy[t]
    BY DEF Ev, Event, IInv, TypeOK
  <2>2. /\ events'[t] = InsertAt(events[t], p, v) /\ events[t] \in Seq(Event)
        /\ status'[t] = "STOPPED" /\ energy_wh'[t] = sweepEnergy[t]
    BY <1>1, <1>3 DEF OrphanEvents, IInv, TypeOK
  <2>3. p \in 1 .. Len(events[t]) + 1
    BY <1>3 DEF IInv, PlaceInv, SweepCommit
  <2> HIDE DEF v, p
  <2>4. /\ p \in Stops(events'[t]) /\ events'[t][p] = v
        /\ \A i \in Stops(events'[t]) \ {p} :
             Was(i) \in Stops(events[t]) /\ events'[t][i] = events[t][Was(i)]
        /\ \A i, j \in Stops(events'[t]) \ {p} : Was(i) = Was(j) => i = j
    BY <2>1, <2>2, <2>3, StopInserted
  <2>5. \A k \in Stops(events[t]) : events[t][k].reason = "Charger"
    BY <1>3 DEF EventsInv, EndsInv, HasOrphan
  <2> HIDE DEF Was
  <2>6. \A i \in Stops(events'[t]) \ {p} : events'[t][i].reason = "Charger"
    BY <2>4, <2>5
  <2>7. EndsInv(events'[t])
    <3>1. \A i, j \in Stops(events'[t]) \ {p} : i = j
      <4>1. \A k, l \in Stops(events[t]) : k = l
        BY <2>5 DEF EventsInv, EndsInv
      <4> QED
        BY <2>4, <4>1
    <3> QED
      BY <2>1, <2>4, <2>6, <3>1 DEF EndsInv
  <2>8. EnergyInv(events'[t], energy_wh'[t])
    <3>1. HasOrphan(events'[t])
      BY <2>1, <2>4 DEF HasOrphan
    <3> QED
      BY <2>1, <2>2, <2>4, <2>6, <3>1 DEF EnergyInv
  <2> QED
    BY <2>2, <2>4, <2>7, <2>8
<1> QED
  BY <1>2, <1>3

\* EventsInv is kept by every step, one case per action.
LEMMA NextEvents == IInv /\ EventsInv /\ [Next]_vars => EventsInv'
<1> SUFFICES ASSUME IInv, EventsInv, [Next]_vars PROVE EventsInv'
  OBVIOUS
<1>1. CASE Start \/ Stop \/ Status
  BY <1>1, EventsUnchanged DEF Start, StartBegin, Stop, StopBegin, Status, StatusBegin, txVars,
                               sweepVars
<1>2. CASE Sampled
  <2>1. PICK w \in Workers, t \in TxIds :
          \E wh \in NextReadings(t), age \in NextAges(t) : MeterValues(w, t, wh, age)
    BY <1>2 DEF Sampled
  <2>2. NextReadings(t) \subseteq Meter /\ NextAges(t) \subseteq Ages
    BY DEF NextReadings, NextAges, Meter
  <2> QED
    BY <2>1, <2>2, MeterValuesEvents
<1>3. CASE \E w \in Workers : StartCommit(w) \/ StopCommit(w)
  BY <1>3, StartCommitEvents, StopCommitEvents
<1>4. CASE \E w \in Workers : StatusCommit(w) \/ Abort(w)
  BY <1>4, EventsUnchanged DEF StatusCommit, Abort, txVars, sweepVars
<1>5. CASE SweepStart \/ SweepFlush
  BY <1>5, EventsUnchanged DEF SweepStart, SweepFlush, Stale, txVars, sweepVars
<1>6. CASE Scan
  <2>1. /\ UNCHANGED <<status, energy_wh, events>>
        /\ sweepTodo' \cup sweepEnds' \subseteq sweepTodo \cup sweepEnds
    BY <1>6 DEF Scan, SweepScan, txVars
  <2> QED
    BY <2>1, EventsUnchanged
<1>7. CASE SweepCommit
  BY <1>7, SweepCommitEvents
<1>8. CASE SweepAbort \/ Crash
  BY <1>8, EventsUnchanged DEF SweepAbort, Crash, SweepReset, txVars
<1>9. CASE Tick \/ UNCHANGED vars
  BY <1>9, EventsUnchanged DEF Tick, vars, txVars, sweepVars
<1> QED
  BY <1>1, <1>2, <1>3, <1>4, <1>5, <1>6, <1>7, <1>8, <1>9 DEF Next

\* The rows and the events the core is told of them agree in every state.
THEOREM EventsInvariance == Spec => []EventsInv
<1>1. Init => EventsInv
  BY InitEvents
<1>2. IInv /\ EventsInv /\ [Next]_vars => EventsInv'
  BY NextEvents
<1> QED
  BY <1>1, <1>2, Invariance, PTL DEF Spec

-----------------------------------------------------------------------------
\* The core is told of the end of a transaction when there is one, never before,
\* and what it is told is the energy of the row: by the sweep's end if there is
\* one, by the charger's if not.
THEOREM EndsAreReported == Spec => []StopReported
<1>1. EventsInv => StopReported
  BY DEF EventsInv, EnergyInv, HasOrphan, Stops, StopReported, StopIndices, Orphaned
<1> QED
  BY <1>1, EventsInvariance, PTL

\* A StopTransaction that comes twice ends its transaction once.
THEOREM ChargersStopOnce == Spec => []ChargerStopsOnce
<1>1. IInv /\ EventsInv => ChargerStopsOnce
  <2> SUFFICES ASSUME IInv, EventsInv, NEW t \in TxIds
               PROVE  Cardinality({i \in StopIndices(t) : events[t][i].reason = "Charger"}) <= 1
    BY DEF ChargerStopsOnce
  <2> DEFINE C == {i \in StopIndices(t) : events[t][i].reason = "Charger"}
  <2>1. \A i, j \in C : i = j
    BY DEF StopIndices, Stops, EventsInv, EndsInv
  <2>2. CASE C = {}
    BY <2>2, FS_EmptySet
  <2>3. CASE C # {}
    <3>1. PICK i : i \in C
      BY <2>3
    <3>2. C = {i}
      BY <2>1, <3>1
    <3> QED
      BY <3>2, FS_Singleton
  <2> QED
    BY <2>2, <2>3
<1> QED
  BY <1>1, Invariance, EventsInvariance, PTL

\* A transaction may end twice, which EndsOnce denies, but never three times: of two
\* ends one is its charger's and one a sweep's.
THEOREM SweepsCorrectOnce == Spec => []EndsAtMostTwice
<1>1. IInv /\ EventsInv => EndsAtMostTwice
  <2> SUFFICES ASSUME IInv, EventsInv, NEW t \in TxIds
               PROVE  /\ Cardinality(StopIndices(t)) <= 2
                      /\ \A i, j \in StopIndices(t) :
                           i # j => {events[t][i].reason, events[t][j].reason}
                                      = {"Charger", "Orphaned"}
    BY DEF EndsAtMostTwice
  <2>1. StopIndices(t) = Stops(events[t])
    BY DEF StopIndices, Stops
  <2>2. /\ \A i \in StopIndices(t) : events[t][i].reason \in {"Charger", "Orphaned"}
        /\ \A i, j \in StopIndices(t) : events[t][i].reason = events[t][j].reason => i = j
    BY <2>1 DEF EventsInv, EndsInv
  <2>3. \A i, j \in StopIndices(t) :
          i # j => {events[t][i].reason, events[t][j].reason} = {"Charger", "Orphaned"}
    BY <2>2
  <2>4. \A i, j, k \in StopIndices(t) : i = j \/ i = k \/ j = k
    BY <2>2
  <2>5. \E i, j : StopIndices(t) \subseteq {i, j}
    <3>1. CASE StopIndices(t) = {}
      BY <3>1
    <3>2. CASE StopIndices(t) # {}
      <4>1. PICK i : i \in StopIndices(t)
        BY <3>2
      <4>2. PICK j : \/ j \in StopIndices(t) /\ j # i
                     \/ j = i /\ StopIndices(t) \subseteq {i}
        OBVIOUS
      <4>3. StopIndices(t) \subseteq {i, j}
        BY <2>4, <4>1, <4>2
      <4> QED
        BY <4>3
    <3> QED
      BY <3>1, <3>2
  <2>6. Cardinality(StopIndices(t)) <= 2
    <3>1. PICK i, j : StopIndices(t) \subseteq {i, j}
      BY <2>5
    <3>2. IsFiniteSet({i}) /\ Cardinality({i}) = 1
      BY FS_Singleton
    <3>3. /\ IsFiniteSet({i} \cup {j})
          /\ Cardinality({i} \cup {j}) = IF j \in {i} THEN 1 ELSE 1 + 1
      BY <3>2, FS_AddElement
    <3>4. StopIndices(t) \in SUBSET ({i} \cup {j})
      BY <3>1
    <3>5. Cardinality(StopIndices(t)) <= Cardinality({i} \cup {j})
      BY <3>3, <3>4, FS_Subset
    <3>6. IsFiniteSet(StopIndices(t))
      BY <3>3, <3>4, FS_Subset
    <3>7. Cardinality(StopIndices(t)) \in Nat
      BY <3>6, FS_CardinalityType
    <3> QED
      BY <3>3, <3>5, <3>7
  <2> QED
    BY <2>3, <2>6
<1> QED
  BY <1>1, Invariance, EventsInvariance, PTL

\* What a sweep has settled, no later StopTransaction and no later sweep changes.
THEOREM OrphansAreFinal == Spec => OrphanIsFinal
<1> DEFINE Step == \A t \in TxIds : Orphaned(t) =>
                     /\ status'[t] = "STOPPED"
                     /\ energy_wh'[t] = energy_wh[t]
<1>1. IInv /\ EventsInv /\ [Next]_vars => Step
  <2> SUFFICES ASSUME IInv, EventsInv, [Next]_vars, NEW t \in TxIds, Orphaned(t)
               PROVE  status'[t] = "STOPPED" /\ energy_wh'[t] = energy_wh[t]
    OBVIOUS
  <2>1. HasOrphan(events[t]) /\ Stops(events[t]) # {}
    BY DEF Orphaned, StopIndices, HasOrphan, Stops
  <2>2. status[t] = "STOPPED"
    BY <2>1 DEF EventsInv
  <2>3. t \notin sweepTodo \cup sweepEnds
    BY <2>1 DEF EventsInv
  <2>4. ASSUME NEW w \in Workers, StartCommit(w) \/ StopCommit(w)
        PROVE  status'[t] = status[t] /\ energy_wh'[t] = energy_wh[t]
    <3>1. job[w].tx # t
      BY <2>2, <2>4 DEF StartCommit, StopCommit, IInv, StopInv
    <3> QED
      BY <2>4, <3>1 DEF StartCommit, StopCommit, IInv, TypeOK
  <2>5. CASE SweepCommit
    BY <2>2, <2>3, <2>5 DEF SweepCommit
  <2>6. \/ UNCHANGED <<status, energy_wh>>
        \/ \E w \in Workers : StartCommit(w) \/ StopCommit(w)
        \/ SweepCommit
    BY DEF Next, Start, StartBegin, Sampled, MeterValues, Stop, StopBegin, Status, StatusBegin,
           StatusCommit, Abort, SweepStart, Scan, SweepScan, SweepFlush, SweepAbort, Crash, Tick,
           vars, txVars
  <2> QED
    BY <2>2, <2>4, <2>5, <2>6
<1>2. IInv /\ EventsInv /\ [Next]_vars => [Step]_vars
  BY <1>1
<1> QED
  BY <1>2, Invariance, EventsInvariance, PTL DEF Spec, OrphanIsFinal
=============================================================================
