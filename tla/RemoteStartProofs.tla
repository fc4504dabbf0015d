-------------------------- MODULE RemoteStartProofs --------------------------
(***************************************************************************)
(* Proofs about RemoteStart, for any number of attempts and transactions.  *)
(*                                                                         *)
(* RemoteStart implements Commands, whose inductive invariant IInv is      *)
(* therefore one of its own.  CountInv spends the attempts of the command: *)
(* one that has not started yet, a StartTransaction on its way and a       *)
(* transaction of the hub each stand for another attempt.  OrderInv is     *)
(* about the link, the charger's tx_id and its stops: together they keep   *)
(* readings behind no stop of their transaction.                           *)
(***************************************************************************)
EXTENDS RemoteStart, CommandsProofs

\* Where requests of a kind are on the link, and which transactions they name.
At(q, op) == {i \in 1 .. Len(q) : q[i].op = op}
Txs(q, op) == {t \in TxIds \cup {NoTx} : \E i \in At(q, op) : q[i].tx = t}

\* No reading of a transaction comes behind its StopTransaction.
Ordered(q) ==
  \A i \in At(q, "StopTransaction"), j \in At(q, "MeterValues") : i < j => q[i].tx # q[j].tx

Used == {t \in TxIds : tx[t] # "none"}
Unstarted == {n \in 1 .. MaxAttempts : start[n] \in {"none", "preparing", "authorizing"}}

TxTypeOK == tx \in [TxIds -> {"none", "RUNNING", "STOPPED"}]

CountInv ==
  /\ \A n \in Starts : start[n] # "none" => n \in 1 .. MaxAttempts
  /\ Cardinality(Used) \in Nat /\ Used = 1 .. Cardinality(Used)
  /\ Cardinality(Used) + Cardinality(At(up, "StartTransaction")) + Cardinality(Unstarted)
       <= MaxAttempts

OrderInv ==
  /\ Ordered(up)
  /\ \A t \in Txs(up, "MeterValues") : t \in TxIds /\ tx[t] = "RUNNING"
  /\ \A t \in Txs(up, "StopTransaction") : t \in TxIds /\ stop[t] # "none"
  /\ \A t \in TxIds : stop[t] # "none" => tx[t] # "none"
  /\ tx_id # NoTx => tx[tx_id] = "RUNNING" /\ stop[tx_id] = "none"

SimInv == SimTypeOK /\ TxTypeOK /\ CountInv /\ OrderInv

\* The charger's grant is as old as the last attempt.
GrantInv == AuthTypeOK /\ sentAgo \in Ages \cup {Never} /\ sentAgo = recent[Tag]

RemoteInv == IInv /\ SimInv /\ GrantInv /\ trouble \in BOOLEAN

-----------------------------------------------------------------------------
\* The link: a request goes in behind, the hub takes one from the front, a break
\* leaves a part of them, unheard.
LEMMA AtIsFinite ==
  ASSUME NEW q \in Seq(Request), NEW op
  PROVE  IsFiniteSet(At(q, op)) /\ Cardinality(At(q, op)) \in Nat
<1>1. At(q, op) \in SUBSET (1 .. Len(q)) /\ Len(q) \in Nat
  BY LenProperties DEF At
<1>2. IsFiniteSet(1 .. Len(q))
  BY <1>1, FS_Interval
<1> QED
  BY <1>1, <1>2, FS_Subset, FS_CardinalityType

\* A request on the link names one of the transactions its kind names there.
LEMMA TxsOfOne ==
  ASSUME NEW q \in Seq(Request), NEW op, NEW i \in At(q, op)
  PROVE  q[i] \in Request /\ q[i].tx \in Txs(q, op)
<1>1. q[i] \in Request
  BY ElementOfSeq DEF At
<1>2. q[i].tx \in TxIds \cup {NoTx}
  BY <1>1 DEF Request
<1> QED
  BY <1>1, <1>2 DEF Txs

\* Sending a request adds it to its own kind, and keeps the link in order unless it is
\* a reading behind the StopTransaction of its transaction.
LEMMA AppendedRequest ==
  ASSUME NEW q \in Seq(Request), NEW r \in Request
  PROVE  /\ Append(q, r) \in Seq(Request)
         /\ \A op : Txs(Append(q, r), op) \subseteq
                      Txs(q, op) \cup IF r.op = op THEN {r.tx} ELSE {}
         /\ \A op : Cardinality(At(Append(q, r), op)) <=
                      Cardinality(At(q, op)) + IF r.op = op THEN 1 ELSE 0
         /\ (Ordered(q) /\ (r.op = "MeterValues" => r.tx \notin Txs(q, "StopTransaction"))
              => Ordered(Append(q, r)))
<1> DEFINE p == Append(q, r)
<1>1. /\ p \in Seq(Request) /\ Len(q) \in Nat /\ Len(p) = Len(q) + 1
      /\ \A i \in 1 .. Len(q) : p[i] = q[i]
      /\ p[Len(q) + 1] = r
  BY AppendProperties, LenProperties
<1> HIDE DEF p
<1>2. \A op : At(p, op) = At(q, op) \cup IF r.op = op THEN {Len(q) + 1} ELSE {}
  BY <1>1 DEF At
<1>3. \A op : Txs(p, op) \subseteq Txs(q, op) \cup IF r.op = op THEN {r.tx} ELSE {}
  <2> SUFFICES ASSUME NEW op, NEW t \in Txs(p, op)
               PROVE  t \in Txs(q, op) \/ (r.op = op /\ t = r.tx)
    OBVIOUS
  <2>1. PICK i \in At(p, op) : p[i].tx = t
    BY DEF Txs
  <2>2. CASE i \in At(q, op)
    <3>1. p[i] = q[i]
      BY <1>1, <2>2 DEF At
    <3> QED
      BY <2>1, <2>2, <3>1 DEF Txs
  <2>3. CASE i \notin At(q, op)
    BY <1>1, <1>2, <2>1, <2>3
  <2> QED
    BY <2>2, <2>3
<1>4. \A op : Cardinality(At(p, op)) <= Cardinality(At(q, op)) + IF r.op = op THEN 1 ELSE 0
  <2> TAKE op
  <2>1. IsFiniteSet(At(q, op)) /\ Cardinality(At(q, op)) \in Nat
    BY AtIsFinite
  <2>2. CASE r.op = op
    <3>1. At(p, op) = At(q, op) \cup {Len(q) + 1}
      BY <1>2, <2>2
    <3>2. Cardinality(At(q, op) \cup {Len(q) + 1}) =
            IF Len(q) + 1 \in At(q, op) THEN Cardinality(At(q, op)) ELSE Cardinality(At(q, op)) + 1
      BY <2>1, FS_AddElement
    <3> QED
      BY <2>1, <2>2, <3>1, <3>2
  <2>3. CASE r.op # op
    <3>1. At(p, op) = At(q, op)
      BY <1>2, <2>3
    <3> QED
      BY <2>1, <2>3, <3>1
  <2> QED
    BY <2>2, <2>3
<1>5. ASSUME Ordered(q), r.op = "MeterValues" => r.tx \notin Txs(q, "StopTransaction")
      PROVE  Ordered(p)
  <2> SUFFICES ASSUME NEW i \in At(p, "StopTransaction"), NEW j \in At(p, "MeterValues"), i < j
               PROVE  p[i].tx # p[j].tx
    BY DEF Ordered
  <2>1. i \in 1 .. Len(q) /\ i \in At(q, "StopTransaction") /\ p[i] = q[i]
    BY <1>1 DEF At
  <2>2. CASE j \in 1 .. Len(q)
    <3>1. j \in At(q, "MeterValues") /\ p[j] = q[j]
      BY <1>1, <2>2 DEF At
    <3> QED
      BY <1>5, <2>1, <3>1 DEF Ordered
  <2>3. CASE j \notin 1 .. Len(q)
    <3>1. p[j] = r /\ r.op = "MeterValues"
      BY <1>1, <2>3 DEF At
    <3> QED
      BY <1>5, <2>1, <3>1, TxsOfOne
  <2> QED
    BY <2>2, <2>3
<1> QED
  BY <1>1, <1>3, <1>4, <1>5 DEF p

\* Reading the next request adds nothing, leaves one less of its kind, and after a
\* StopTransaction there is no reading of that transaction left.
LEMMA ReadRequest ==
  ASSUME NEW q \in Seq(Request), q # <<>>
  PROVE  /\ Tail(q) \in Seq(Request) /\ Head(q) \in Request
         /\ Head(q).tx \in Txs(q, Head(q).op)
         /\ \A op : Txs(Tail(q), op) \subseteq Txs(q, op)
         /\ \A op : /\ Cardinality(At(Tail(q), op)) <= Cardinality(At(q, op))
                    /\ Head(q).op = op => Cardinality(At(Tail(q), op)) < Cardinality(At(q, op))
         /\ Ordered(q) => Ordered(Tail(q))
         /\ (Ordered(q) /\ Head(q).op = "StopTransaction"
              => Head(q).tx \notin Txs(Tail(q), "MeterValues"))
<1> DEFINE p == Tail(q)
<1>1. /\ Len(q) \in Nat \ {0} /\ Head(q) = q[1] /\ Head(q) \in Request
      /\ p \in Seq(Request) /\ Len(p) = Len(q) - 1
      /\ \A i \in 1 .. Len(p) : i + 1 \in 1 .. Len(q) /\ p[i] = q[i + 1]
  BY HeadAndTail, LenProperties, HeadTailProperties
<1> HIDE DEF p
<1>2. \A op : \A i \in At(p, op) : i + 1 \in At(q, op) /\ i + 1 # 1 /\ p[i] = q[i + 1]
  BY <1>1 DEF At
<1>3. 1 \in At(q, Head(q).op)
  BY <1>1 DEF At
<1>4. \A op : Txs(p, op) \subseteq Txs(q, op)
  BY <1>2 DEF Txs
<1>5. \A op : /\ Cardinality(At(p, op)) <= Cardinality(At(q, op))
              /\ Head(q).op = op => Cardinality(At(p, op)) < Cardinality(At(q, op))
  <2> TAKE op
  <2> DEFINE f == [i \in At(p, op) |-> i + 1]
  <2>1. IsFiniteSet(At(q, op)) /\ Cardinality(At(q, op)) \in Nat
    BY AtIsFinite
  <2>2. f \in Injection(At(p, op), At(q, op) \ {1})
    <3>1. f \in [At(p, op) -> At(q, op) \ {1}]
      BY <1>2
    <3>2. \A a, b \in At(p, op) : f[a] = f[b] => a = b
      BY DEF At
    <3> HIDE DEF f
    <3> QED
      BY <3>1, <3>2 DEF Injection, IsInjective
  <2>3. /\ IsFiniteSet(At(q, op) \ {1})
        /\ Cardinality(At(q, op) \ {1}) =
             IF 1 \in At(q, op) THEN Cardinality(At(q, op)) - 1 ELSE Cardinality(At(q, op))
    BY <2>1, FS_RemoveElement
  <2>4. Cardinality(At(p, op)) <= Cardinality(At(q, op) \ {1}) /\ Cardinality(At(p, op)) \in Nat
    BY <1>1, <2>2, <2>3, FS_Injection, AtIsFinite
  <2>5. Head(q).op = op => 1 \in At(q, op)
    BY <1>3
  <2> QED
    BY <2>1, <2>3, <2>4, <2>5
<1>6. ASSUME Ordered(q) PROVE Ordered(p)
  <2> SUFFICES ASSUME NEW i \in At(p, "StopTransaction"), NEW j \in At(p, "MeterValues"), i < j
               PROVE  p[i].tx # p[j].tx
    BY DEF Ordered
  <2>1. i + 1 \in At(q, "StopTransaction") /\ j + 1 \in At(q, "MeterValues") /\ i + 1 < j + 1
    BY <1>2 DEF At
  <2> QED
    BY <1>2, <1>6, <2>1 DEF Ordered
<1>7. ASSUME Ordered(q), Head(q).op = "StopTransaction"
      PROVE  Head(q).tx \notin Txs(p, "MeterValues")
  <2> SUFFICES ASSUME NEW j \in At(p, "MeterValues") PROVE p[j].tx # q[1].tx
    BY <1>1 DEF Txs
  <2>1. j + 1 \in At(q, "MeterValues") /\ 1 < j + 1 /\ p[j] = q[j + 1]
    BY <1>1, <1>2 DEF At
  <2> QED
    BY <1>3, <1>7, <2>1 DEF Ordered
<1>8. Head(q).tx \in Txs(q, Head(q).op)
  BY <1>1, <1>3, TxsOfOne
<1> QED
  BY <1>1, <1>4, <1>5, <1>6, <1>7, <1>8 DEF p

\* A broken link keeps a part of its requests, in their order, whose answers are lost.
LEMMA BrokenLink ==
  ASSUME NEW q \in Seq(Request), NEW k \in 0 .. Len(q)
  PROVE  LET p == [i \in 1 .. k |-> [q[i] EXCEPT !.heard = FALSE]]
         IN  /\ p \in Seq(Request)
             /\ \A op : Txs(p, op) \subseteq Txs(q, op)
             /\ \A op : Cardinality(At(p, op)) <= Cardinality(At(q, op))
             /\ Ordered(q) => Ordered(p)
<1> DEFINE p == [i \in 1 .. k |-> [q[i] EXCEPT !.heard = FALSE]]
<1>1. Len(q) \in Nat /\ k \in Nat
  BY LenProperties
<1>2. \A i \in 1 .. k : i \in 1 .. Len(q) /\ q[i] \in Request
  BY <1>1, ElementOfSeq
<1>3. \A i \in 1 .. k : /\ [q[i] EXCEPT !.heard = FALSE] \in Request
                        /\ [q[i] EXCEPT !.heard = FALSE].op = q[i].op
                        /\ [q[i] EXCEPT !.heard = FALSE].tx = q[i].tx
  BY <1>2 DEF Request
<1>4. p \in Seq(Request) /\ Len(p) = k
  <2>1. p \in [1 .. k -> Request]
    BY <1>3
  <2> HIDE DEF p
  <2> QED
    BY <1>1, <2>1
<1>5. \A i \in 1 .. Len(p) : p[i].op = q[i].op /\ p[i].tx = q[i].tx
  BY <1>3, <1>4
<1> HIDE DEF p
<1>6. \A op : At(p, op) \subseteq At(q, op)
  BY <1>2, <1>4, <1>5 DEF At
<1>7. \A op : \A i \in At(p, op) : p[i].tx = q[i].tx
  BY <1>5 DEF At
<1>8. \A op : Cardinality(At(p, op)) <= Cardinality(At(q, op))
  BY <1>6, AtIsFinite, FS_Subset
<1>9. \A op : Txs(p, op) \subseteq Txs(q, op)
  BY <1>6, <1>7 DEF Txs
<1>10. Ordered(q) => Ordered(p)
  BY <1>6, <1>7 DEF Ordered
<1> QED
  BY <1>4, <1>8, <1>9, <1>10 DEF p

\* The attempts that have not started and the transactions of the hub.
LEMMA CountsAreFinite ==
  /\ IsFiniteSet(Unstarted) /\ Cardinality(Unstarted) \in Nat
  /\ IsFiniteSet(Unstarted') /\ Cardinality(Unstarted') \in Nat
<1>1. MaxAttempts \in Nat /\ IsFiniteSet(1 .. MaxAttempts)
  BY CommandsAssumption, FS_Interval
<1>2. Unstarted \in SUBSET (1 .. MaxAttempts) /\ Unstarted' \in SUBSET (1 .. MaxAttempts)
  BY DEF Unstarted
<1> QED
  BY <1>1, <1>2, FS_Subset, FS_CardinalityType

-----------------------------------------------------------------------------
\* No attempt is gained: a task does not go back, and no StartTransaction comes in.
LEMMA CountKeeps ==
  ASSUME SimInv, tx' = tx, up' \in Seq(Request),
         Cardinality(At(up', "StartTransaction")) <= Cardinality(At(up, "StartTransaction")),
         \A n \in Starts : start'[n] # "none" => n \in 1 .. MaxAttempts,
         \A n \in 1 .. MaxAttempts : start'[n] \in {"none", "preparing", "authorizing"} =>
                                      start[n] \in {"none", "preparing", "authorizing"}
  PROVE  CountInv'
<1>1. Used' = Used
  BY DEF Used
<1>2. Unstarted' \in SUBSET Unstarted
  BY DEF Unstarted
<1>3. Cardinality(Unstarted') <= Cardinality(Unstarted)
  BY <1>2, CountsAreFinite, FS_Subset
<1>4. /\ Cardinality(At(up, "StartTransaction")) \in Nat
      /\ Cardinality(At(up', "StartTransaction")) \in Nat
  BY AtIsFinite DEF SimInv, SimTypeOK
<1>5. /\ Cardinality(Used) \in Nat /\ MaxAttempts \in Nat
      /\ Cardinality(Used) + Cardinality(At(up, "StartTransaction")) + Cardinality(Unstarted)
           <= MaxAttempts
  BY CommandsAssumption DEF SimInv, CountInv
<1>6. Cardinality(Used) + Cardinality(At(up', "StartTransaction")) + Cardinality(Unstarted')
        <= MaxAttempts
  BY <1>3, <1>4, <1>5, CountsAreFinite
<1> QED
  BY <1>1, <1>6 DEF SimInv, CountInv

\* What a task may send: readings of tx_id, and the stop it is busy with.
LEMMA OrderKeeps ==
  ASSUME SimInv, tx' = tx, tx_id' \in {tx_id, NoTx}, Ordered(up'),
         Txs(up', "MeterValues") \subseteq Txs(up, "MeterValues") \cup ({tx_id} \ {NoTx}),
         \A t \in Txs(up', "StopTransaction") :
            t \in Txs(up, "StopTransaction") \/ (t \in TxIds /\ stop'[t] # "none"),
         \A t \in TxIds : /\ stop[t] # "none" => stop'[t] # "none"
                          /\ stop'[t] # "none" => stop[t] # "none" \/ (t = tx_id /\ t # NoTx),
         tx_id' # NoTx => stop'[tx_id] = stop[tx_id]
  PROVE  OrderInv'
<1>1. tx_id # NoTx => tx_id \in TxIds /\ tx[tx_id] = "RUNNING" /\ stop[tx_id] = "none"
  BY DEF SimInv, OrderInv, SimTypeOK
<1>2. \A t \in Txs(up', "MeterValues") : t \in TxIds /\ tx[t] = "RUNNING"
  BY <1>1 DEF SimInv, OrderInv
<1>3. \A t \in Txs(up', "StopTransaction") : t \in TxIds /\ stop'[t] # "none"
  BY DEF SimInv, OrderInv
<1>4. \A t \in TxIds : stop'[t] # "none" => tx[t] # "none"
  BY <1>1 DEF SimInv, OrderInv
<1>5. tx_id' # NoTx => tx[tx_id'] = "RUNNING" /\ stop'[tx_id'] = "none"
  BY <1>1
<1> QED
  BY <1>2, <1>3, <1>4, <1>5 DEF OrderInv

-----------------------------------------------------------------------------
\* The charger's tasks: they take commands, send their requests, or give up.
LEMMA TakesStartInv ==
  ASSUME SimInv, TypeOK, NEW n \in Starts, ChargerTakesStart(n)
  PROVE  SimInv'
<1>1. n \in 1 .. MaxAttempts
  BY DEF ChargerTakesStart, CarryOut, Answered, TypeOK
<1>2. /\ start[n] = "none" /\ start' = [start EXCEPT ![n] = "preparing"]
      /\ UNCHANGED <<stop, tx_id, up, tx>>
  BY DEF ChargerTakesStart, TakeRemoteStart, Phase
<1>3. SimTypeOK' /\ TxTypeOK'
  BY <1>2 DEF SimInv, SimTypeOK, TxTypeOK
<1>4. CountInv'
  <2>1. /\ \A m \in Starts : start'[m] # "none" => m \in 1 .. MaxAttempts
        /\ \A m \in 1 .. MaxAttempts : start'[m] \in {"none", "preparing", "authorizing"} =>
                                       start[m] \in {"none", "preparing", "authorizing"}
    BY <1>1, <1>2, RemoteStartAssumption DEF SimInv, CountInv, SimTypeOK
  <2>2. Cardinality(At(up, "StartTransaction")) \in Nat /\ up \in Seq(Request)
    BY AtIsFinite DEF SimInv, SimTypeOK
  <2> QED
    BY <1>2, <2>1, <2>2, CountKeeps
<1>5. OrderInv'
  BY <1>2, OrderKeeps DEF SimInv, OrderInv
<1> QED
  BY <1>3, <1>4, <1>5 DEF SimInv

\* A RemoteStop takes tx_id before its first request: no loop sends readings of it again.
LEMMA TakesStopInv ==
  ASSUME SimInv, ChargerTakesStop
  PROVE  SimInv'
<1>1. /\ tx_id # NoTx /\ stop[tx_id] = "none" /\ stop' = [stop EXCEPT ![tx_id] = "finishing"]
      /\ tx_id' = NoTx /\ UNCHANGED <<start, up, tx>>
  BY DEF ChargerTakesStop, TakeRemoteStop, TxAfterStop, StopPhase
<1>2. SimTypeOK' /\ TxTypeOK'
  BY <1>1 DEF SimInv, SimTypeOK, TxTypeOK
<1>3. CountInv'
  <2>1. Cardinality(At(up, "StartTransaction")) \in Nat /\ up \in Seq(Request)
    BY AtIsFinite DEF SimInv, SimTypeOK
  <2>2. \A n \in Starts : start[n] # "none" => n \in 1 .. MaxAttempts
    BY DEF SimInv, CountInv
  <2> QED
    BY <1>1, <2>1, <2>2, CountKeeps
<1>4. OrderInv'
  <2>1. \A t \in TxIds : /\ stop[t] # "none" => stop'[t] # "none"
                         /\ stop'[t] # "none" => stop[t] # "none" \/ (t = tx_id /\ t # NoTx)
    BY <1>1 DEF SimInv, SimTypeOK
  <2> QED
    BY <1>1, <2>1, OrderKeeps DEF SimInv, OrderInv
<1> QED
  BY <1>2, <1>3, <1>4 DEF SimInv

\* A task that has started, or is refused or over, moves on: it stays so.
LEMMA StartMovesOn ==
  ASSUME SimInv, NEW n \in Starts, NEW phase,
         phase \in {"refused", "starting", "charging", "sleeping", "metering", "over"}
           \/ (start[n] = "preparing" /\ phase = "authorizing"),
         start[n] # "none", Phase(n, phase)
  PROVE  /\ start' \in [Starts -> {"none", "preparing", "authorizing", "refused", "starting",
                                    "charging", "sleeping", "metering", "over"}]
         /\ \A m \in Starts : start'[m] # "none" => m \in 1 .. MaxAttempts
         /\ \A m \in 1 .. MaxAttempts : start'[m] \in {"none", "preparing", "authorizing"} =>
                                        start[m] \in {"none", "preparing", "authorizing"}
<1>1. n \in 1 .. MaxAttempts
  BY DEF SimInv, CountInv
<1> QED
  BY <1>1, RemoteStartAssumption DEF SimInv, CountInv, SimTypeOK, Phase

\* The task of a RemoteStart moves on and sends a request of its own, or nothing.
LEMMA StartStepInv ==
  ASSUME SimInv, UNCHANGED <<stop, tx_id, tx>>, NEW n \in Starts, NEW phase,
         phase \in {"refused", "starting", "charging", "sleeping", "metering", "over"}
           \/ (start[n] = "preparing" /\ phase = "authorizing"),
         start[n] # "none", Phase(n, phase),
         \/ up' = up
         \/ up # <<>> /\ up' = Tail(up)
         \/ \E r \in Request : /\ up' = Append(up, r)
                              /\ \/ r.op = "Authorize"
                                 \/ r.op = "MeterValues" /\ r.tx = tx_id /\ tx_id # NoTx
  PROVE  SimInv'
<1>1. up \in Seq(Request) /\ Ordered(up) /\ Cardinality(At(up, "StartTransaction")) \in Nat
  BY AtIsFinite DEF SimInv, SimTypeOK, OrderInv
<1>2. /\ up' \in Seq(Request) /\ Ordered(up')
      /\ Txs(up', "MeterValues") \subseteq Txs(up, "MeterValues") \cup ({tx_id} \ {NoTx})
      /\ Txs(up', "StopTransaction") \subseteq Txs(up, "StopTransaction")
      /\ Cardinality(At(up', "StartTransaction")) <= Cardinality(At(up, "StartTransaction"))
  <2>1. CASE up' = up
    BY <1>1, <2>1
  <2>2. CASE up # <<>> /\ up' = Tail(up)
    <3>1. /\ Tail(up) \in Seq(Request) /\ Ordered(Tail(up))
          /\ \A op : /\ Txs(Tail(up), op) \subseteq Txs(up, op)
                     /\ Cardinality(At(Tail(up), op)) <= Cardinality(At(up, op))
      BY <1>1, <2>2, ReadRequest
    <3> QED
      BY <2>2, <3>1
  <2>3. ASSUME NEW r \in Request, up' = Append(up, r),
               \/ r.op = "Authorize"
               \/ r.op = "MeterValues" /\ r.tx = tx_id /\ tx_id # NoTx
        PROVE  /\ up' \in Seq(Request) /\ Ordered(up')
               /\ Txs(up', "MeterValues") \subseteq Txs(up, "MeterValues") \cup ({tx_id} \ {NoTx})
               /\ Txs(up', "StopTransaction") \subseteq Txs(up, "StopTransaction")
               /\ Cardinality(At(up', "StartTransaction")) <=
                    Cardinality(At(up, "StartTransaction"))
    <3>1. r.op = "MeterValues" => r.tx \notin Txs(up, "StopTransaction")
      BY <2>3 DEF SimInv, OrderInv
    <3>2. /\ Append(up, r) \in Seq(Request) /\ Ordered(Append(up, r))
          /\ \A op : Txs(Append(up, r), op) \subseteq
                        Txs(up, op) \cup IF r.op = op THEN {r.tx} ELSE {}
          /\ \A op : Cardinality(At(Append(up, r), op)) <=
                        Cardinality(At(up, op)) + IF r.op = op THEN 1 ELSE 0
      BY <1>1, <3>1, AppendedRequest
    <3>3. r.op # "StopTransaction" /\ r.op # "StartTransaction"
      BY <2>3
    <3>4. Cardinality(At(Append(up, r), "StartTransaction")) <=
            Cardinality(At(up, "StartTransaction")) + 0
      BY <3>2, <3>3
    <3> QED
      BY <1>1, <2>3, <3>2, <3>3, <3>4
  <2> QED
    BY <2>1, <2>2, <2>3
<1>3. /\ start' \in [Starts -> {"none", "preparing", "authorizing", "refused", "starting",
                                 "charging", "sleeping", "metering", "over"}]
      /\ \A m \in Starts : start'[m] # "none" => m \in 1 .. MaxAttempts
      /\ \A m \in 1 .. MaxAttempts : start'[m] \in {"none", "preparing", "authorizing"} =>
                                     start[m] \in {"none", "preparing", "authorizing"}
  BY StartMovesOn
<1>4. CountInv'
  BY <1>2, <1>3, CountKeeps
<1>5. OrderInv'
  BY <1>2, OrderKeeps
<1> QED
  BY <1>2, <1>3, <1>4, <1>5 DEF SimInv, SimTypeOK, TxTypeOK

\* The task that ends a transaction moves on, and may send its StopTransaction.
LEMMA StopStepInv ==
  ASSUME SimInv, UNCHANGED <<start, tx_id, tx>>, NEW t \in TxIds,
         NEW phase \in {"stopping", "freeing", "over"}, stop[t] # "none", StopPhase(t, phase),
         \/ up' = up
         \/ up # <<>> /\ up' = Tail(up)
         \/ \E r \in Request : up' = Append(up, r) /\ r.op = "StopTransaction" /\ r.tx = t
  PROVE  SimInv'
<1>1. up \in Seq(Request) /\ Ordered(up) /\ Cardinality(At(up, "StartTransaction")) \in Nat
  BY AtIsFinite DEF SimInv, SimTypeOK, OrderInv
<1>2. /\ up' \in Seq(Request) /\ Ordered(up')
      /\ Txs(up', "MeterValues") \subseteq Txs(up, "MeterValues")
      /\ Txs(up', "StopTransaction") \subseteq Txs(up, "StopTransaction") \cup {t}
      /\ Cardinality(At(up', "StartTransaction")) <= Cardinality(At(up, "StartTransaction"))
  <2>1. CASE up' = up
    BY <1>1, <2>1
  <2>2. CASE up # <<>> /\ up' = Tail(up)
    <3>1. /\ Tail(up) \in Seq(Request) /\ Ordered(Tail(up))
          /\ \A op : /\ Txs(Tail(up), op) \subseteq Txs(up, op)
                     /\ Cardinality(At(Tail(up), op)) <= Cardinality(At(up, op))
      BY <1>1, <2>2, ReadRequest
    <3> QED
      BY <2>2, <3>1
  <2>3. ASSUME NEW r \in Request, up' = Append(up, r), r.op = "StopTransaction", r.tx = t
        PROVE  /\ up' \in Seq(Request) /\ Ordered(up')
               /\ Txs(up', "MeterValues") \subseteq Txs(up, "MeterValues")
               /\ Txs(up', "StopTransaction") \subseteq Txs(up, "StopTransaction") \cup {t}
               /\ Cardinality(At(up', "StartTransaction")) <=
                    Cardinality(At(up, "StartTransaction"))
    <3>1. /\ Append(up, r) \in Seq(Request) /\ Ordered(Append(up, r))
          /\ \A op : Txs(Append(up, r), op) \subseteq
                        Txs(up, op) \cup IF r.op = op THEN {r.tx} ELSE {}
          /\ \A op : Cardinality(At(Append(up, r), op)) <=
                        Cardinality(At(up, op)) + IF r.op = op THEN 1 ELSE 0
      BY <1>1, <2>3, AppendedRequest
    <3>2. Cardinality(At(Append(up, r), "StartTransaction")) <=
            Cardinality(At(up, "StartTransaction")) + 0
      BY <2>3, <3>1
    <3> QED
      BY <1>1, <2>3, <3>1, <3>2
  <2> QED
    BY <2>1, <2>2, <2>3
<1>3. /\ stop' \in [TxIds -> {"none", "finishing", "stopping", "freeing", "over"}]
      /\ \A u \in TxIds : stop'[u] # "none" <=> stop[u] # "none"
  BY DEF StopPhase, SimInv, SimTypeOK
<1>4. CountInv'
  BY <1>2, CountKeeps DEF SimInv, CountInv
<1>5. OrderInv'
  <2>1. tx_id # NoTx => tx_id \in TxIds /\ stop[tx_id] = "none" /\ stop'[tx_id] = stop[tx_id]
    BY DEF StopPhase, SimInv, SimTypeOK, OrderInv
  <2>2. \A u \in Txs(up', "StopTransaction") :
          u \in Txs(up, "StopTransaction") \/ (u \in TxIds /\ stop'[u] # "none")
    BY <1>2, <1>3
  <2> QED
    BY <1>2, <1>3, <2>1, <2>2, OrderKeeps
<1> QED
  BY <1>2, <1>3, <1>4, <1>5 DEF SimInv, SimTypeOK, TxTypeOK

-----------------------------------------------------------------------------
\* The hub reads the next request: who sent it, and what is left of the link.
LEMMA NextRequest ==
  ASSUME SimInv, up # <<>>
  PROVE  /\ Head(up) \in Request /\ up \in Seq(Request) /\ Tail(up) \in Seq(Request)
         /\ Head(up).op = "StopTransaction" =>
              Head(up).by \in TxIds /\ Head(up).tx \in TxIds /\ stop[Head(up).tx] # "none"
         /\ Head(up).op # "StopTransaction" => Head(up).by \in Starts
<1>1. Head(up) \in Request /\ up \in Seq(Request) /\ Tail(up) \in Seq(Request)
      /\ Head(up).tx \in Txs(up, Head(up).op)
  BY ReadRequest DEF SimInv, SimTypeOK
<1>2. Head(up).op = "StopTransaction" => Head(up).tx \in TxIds /\ stop[Head(up).tx] # "none"
  BY <1>1 DEF SimInv, OrderInv
<1> QED
  BY <1>1, <1>2, RemoteStartAssumption DEF Request

\* An answer nobody waits for: the request is gone, and nothing else happens.
LEMMA UnheardInv ==
  ASSUME SimInv, up # <<>>, Unheard, tx' = tx
  PROVE  SimInv'
<1>1. UNCHANGED <<start, stop, tx_id>> /\ up' = Tail(up)
  BY DEF Unheard, Read
<1>2. /\ up' \in Seq(Request) /\ Ordered(up')
      /\ \A op : /\ Txs(up', op) \subseteq Txs(up, op)
                 /\ Cardinality(At(up', op)) <= Cardinality(At(up, op))
  BY <1>1, ReadRequest DEF SimInv, SimTypeOK, OrderInv
<1>3. CountInv'
  BY <1>1, <1>2, CountKeeps DEF SimInv, CountInv
<1>4. OrderInv'
  BY <1>1, <1>2, OrderKeeps
<1> QED
  BY <1>1, <1>2, <1>3, <1>4 DEF SimInv, SimTypeOK, TxTypeOK

\* on_authorize.  An accepted one is the only request that leads to another: the
\* attempt becomes a StartTransaction on its way.
LEMMA AuthorizeInv ==
  ASSUME SimInv, HandleAuthorize
  PROVE  SimInv'
<1> DEFINE n == Head(up).by
           r == [op |-> "StartTransaction", by |-> n, tx |-> NoTx, heard |-> TRUE]
<1>1. up # <<>> /\ Head(up).op = "Authorize" /\ tx' = tx
  BY DEF HandleAuthorize, IsNext
<1>2. n \in Starts /\ Tail(up) \in Seq(Request) /\ up \in Seq(Request)
  BY <1>1, NextRequest
<1>3. CASE Unheard
  BY <1>1, <1>3, UnheardInv
<1>4. CASE Awaits(Head(up)) /\ Authorized(n, FALSE)
  <2>1. Phase(n, "refused") /\ up' = Tail(up) /\ UNCHANGED <<stop, tx_id>>
    BY <1>4 DEF Authorized, Read
  <2>2. start[n] # "none"
    BY <1>1, <1>4 DEF Awaits
  <2> QED
    BY <1>1, <1>2, <2>1, <2>2, StartStepInv
<1>5. CASE Awaits(Head(up)) /\ Authorized(n, TRUE)
  <2>1. /\ start' = [start EXCEPT ![n] = "starting"] /\ start[n] = "authorizing"
        /\ up' = Append(Tail(up), r) /\ UNCHANGED <<stop, tx_id>>
    BY <1>1, <1>5 DEF Authorized, Phase, Awaits
  <2>2. r \in Request /\ r.op = "StartTransaction"
    BY <1>2 DEF Request
  <2> HIDE DEF r, n
  <2>3. /\ Ordered(Tail(up))
        /\ \A op : /\ Txs(Tail(up), op) \subseteq Txs(up, op)
                   /\ Cardinality(At(Tail(up), op)) <= Cardinality(At(up, op))
    BY <1>1, <1>2, ReadRequest DEF SimInv, OrderInv
  <2>4. /\ up' \in Seq(Request)
        /\ Ordered(up')
        /\ \A op : Txs(up', op) \subseteq Txs(Tail(up), op) \cup IF r.op = op THEN {r.tx} ELSE {}
        /\ \A op : Cardinality(At(up', op)) <=
                      Cardinality(At(Tail(up), op)) + IF r.op = op THEN 1 ELSE 0
    BY <1>2, <2>1, <2>2, <2>3, AppendedRequest
  <2>5. /\ Txs(up', "MeterValues") \subseteq Txs(up, "MeterValues")
        /\ Txs(up', "StopTransaction") \subseteq Txs(up, "StopTransaction")
    BY <2>2, <2>3, <2>4
  <2>6. SimTypeOK' /\ TxTypeOK'
    BY <1>1, <1>2, <2>1, <2>4 DEF SimInv, SimTypeOK, TxTypeOK
  <2>7. OrderInv'
    BY <1>1, <2>1, <2>4, <2>5, OrderKeeps
  <2>8. CountInv'
    <3>1. n \in 1 .. MaxAttempts /\ n \in Unstarted
      BY <1>2, <2>1 DEF SimInv, CountInv, Unstarted
    <3>2. Unstarted' = Unstarted \ {n}
      BY <2>1, <3>1, RemoteStartAssumption DEF Unstarted, SimInv, SimTypeOK
    <3>3. Cardinality(Unstarted') = Cardinality(Unstarted) - 1
      BY <3>1, <3>2, CountsAreFinite, FS_RemoveElement
    <3>4. Cardinality(At(up', "StartTransaction")) <= Cardinality(At(up, "StartTransaction")) + 1
      <4>1. Cardinality(At(up', "StartTransaction")) <=
              Cardinality(At(Tail(up), "StartTransaction")) + 1
        BY <2>2, <2>4
      <4>2. Cardinality(At(Tail(up), "StartTransaction")) <= Cardinality(At(up, "StartTransaction"))
        BY <2>3
      <4>3. /\ Cardinality(At(up, "StartTransaction")) \in Nat
            /\ Cardinality(At(Tail(up), "StartTransaction")) \in Nat
            /\ Cardinality(At(up', "StartTransaction")) \in Nat
        BY <1>2, <2>4, AtIsFinite
      <4> QED
        BY <4>1, <4>2, <4>3
    <3>5. Used' = Used
      BY <1>1 DEF Used
    <3>6. Cardinality(Used) + Cardinality(At(up', "StartTransaction")) + Cardinality(Unstarted')
            <= MaxAttempts
      <4>1. /\ Cardinality(At(up, "StartTransaction")) \in Nat
            /\ Cardinality(At(up', "StartTransaction")) \in Nat
        BY <1>2, <2>4, AtIsFinite
      <4>2. /\ Cardinality(Used) \in Nat /\ MaxAttempts \in Nat
            /\ Cardinality(Used) + Cardinality(At(up, "StartTransaction")) + Cardinality(Unstarted)
                 <= MaxAttempts
        BY CommandsAssumption DEF SimInv, CountInv
      <4> QED
        BY <3>3, <3>4, <4>1, <4>2, CountsAreFinite
    <3>7. \A m \in Starts : start'[m] # "none" => m \in 1 .. MaxAttempts
      BY <2>1, <3>1 DEF SimInv, CountInv, SimTypeOK
    <3> QED
      BY <3>5, <3>6, <3>7 DEF SimInv, CountInv
  <2> QED
    BY <2>6, <2>7, <2>8 DEF SimInv
<1>6. PICK accepted \in BOOLEAN : IF Awaits(Head(up)) THEN Authorized(n, accepted) ELSE Unheard
  BY DEF HandleAuthorize, Hear, CoreVerdicts, Accepted, IdtagKnown, Within
<1> QED
  BY <1>3, <1>4, <1>5, <1>6

\* on_start_transaction: the StartTransaction becomes the transaction with the next
\* id, which no stop was ever about.
LEMMA StartInv ==
  ASSUME SimInv, HandleStart
  PROVE  SimInv'
<1> DEFINE n == Head(up).by
           k == Cardinality(Used)
<1>1. /\ up # <<>> /\ Head(up).op = "StartTransaction"
      /\ tx' = [tx EXCEPT ![k + 1] = "RUNNING"]
  BY DEF HandleStart, IsNext, NextTxId, Used
<1>2. n \in Starts /\ Tail(up) \in Seq(Request) /\ up \in Seq(Request)
  BY <1>1, NextRequest
<1>3. \/ UNCHANGED <<start, stop, tx_id>> /\ up' = Tail(up)
      \/ /\ start[n] = "starting" /\ start' = [start EXCEPT ![n] = "charging"]
         /\ tx_id' = k + 1 /\ up' = Tail(up) /\ stop' = stop
  BY <1>1 DEF HandleStart, Hear, Unheard, Started, Read, Phase, NextTxId, Used, Awaits
<1>4. /\ up' = Tail(up) /\ Ordered(up')
      /\ \A op : Txs(up', op) \subseteq Txs(up, op)
      /\ Cardinality(At(up', "StartTransaction")) < Cardinality(At(up, "StartTransaction"))
      /\ Cardinality(At(up', "StartTransaction")) \in Nat
      /\ Cardinality(At(up, "StartTransaction")) \in Nat
  BY <1>1, <1>2, <1>3, ReadRequest, AtIsFinite DEF SimInv, OrderInv
<1>5. /\ k \in Nat /\ MaxAttempts \in Nat /\ Used = 1 .. k
      /\ k + Cardinality(At(up, "StartTransaction")) + Cardinality(Unstarted) <= MaxAttempts
  BY CommandsAssumption DEF SimInv, CountInv
<1> HIDE DEF n, k
<1>6. k + 1 \in 1 .. MaxAttempts /\ k + 1 \in TxIds /\ k + 1 \notin Used
  <2>1. k + 1 <= MaxAttempts
    BY <1>4, <1>5, CountsAreFinite
  <2>2. k + 1 \in 1 .. MaxAttempts
    BY <1>5, <2>1
  <2> QED
    BY <1>5, <2>2, RemoteStartAssumption
<1>7. tx[k + 1] = "none" /\ stop[k + 1] = "none"
  BY <1>6 DEF Used, SimInv, OrderInv
<1>8. \A t \in TxIds : tx'[t] = IF t = k + 1 THEN "RUNNING" ELSE tx[t]
  BY <1>1 DEF SimInv, TxTypeOK
<1>9. SimTypeOK' /\ TxTypeOK'
  BY <1>1, <1>2, <1>3, <1>6 DEF SimInv, SimTypeOK, TxTypeOK
<1>10. /\ \A m \in Starts : start'[m] # "none" => m \in 1 .. MaxAttempts
       /\ Unstarted' \in SUBSET Unstarted
  BY <1>2, <1>3, RemoteStartAssumption DEF SimInv, SimTypeOK, CountInv, Unstarted
<1>11. CountInv'
  <2>1. Used' = 1 .. k + 1
    <3>1. Used' = Used \cup {k + 1}
      BY <1>6, <1>8 DEF Used
    <3> QED
      BY <1>5, <3>1
  <2>2. Cardinality(1 .. k + 1) = k + 1
    <3>1. k + 1 \in Int /\ 1 \in Int /\ ~(1 > k + 1) /\ k + 1 - 1 + 1 = k + 1
      BY <1>5
    <3> QED
      BY <3>1, FS_Interval
  <2>3. Cardinality(Unstarted') <= Cardinality(Unstarted)
    BY <1>10, CountsAreFinite, FS_Subset
  <2>4. k + 1 + Cardinality(At(up', "StartTransaction")) + Cardinality(Unstarted') <= MaxAttempts
    BY <1>4, <1>5, <2>3, CountsAreFinite
  <2>5. k + 1 \in Nat
    BY <1>5
  <2> QED
    BY <1>10, <2>1, <2>2, <2>4, <2>5 DEF CountInv
<1>12. OrderInv'
  <2>1. stop' = stop /\ tx_id' \in {tx_id, k + 1}
    BY <1>3
  <2>2. tx_id' # NoTx => tx'[tx_id'] = "RUNNING" /\ stop'[tx_id'] = "none"
    BY <1>6, <1>7, <1>8, <2>1 DEF SimInv, OrderInv, SimTypeOK
  <2> QED
    BY <1>4, <1>7, <1>8, <2>1, <2>2 DEF SimInv, OrderInv
<1> QED
  BY <1>9, <1>11, <1>12 DEF SimInv

\* on_stop_transaction: no reading of the transaction is behind it, and the charger
\* takes none any more.
LEMMA StopInv ==
  ASSUME SimInv, HandleStop
  PROVE  SimInv'
<1> DEFINE t == Head(up).tx
           b == Head(up).by
<1>1. up # <<>> /\ Head(up).op = "StopTransaction"
  BY DEF HandleStop, IsNext
<1>2. /\ t \in TxIds /\ b \in TxIds /\ stop[t] # "none"
      /\ Tail(up) \in Seq(Request) /\ up \in Seq(Request)
  BY <1>1, NextRequest
<1>3. tx' = [u \in TxIds |-> IF u = t THEN "STOPPED" ELSE tx[u]]
  BY DEF HandleStop
<1>4. /\ UNCHANGED <<start, tx_id>> /\ up' = Tail(up)
      /\ stop' = stop \/ (stop[b] = "stopping" /\ stop' = [stop EXCEPT ![b] = "freeing"])
  BY <1>1 DEF HandleStop, Hear, Unheard, Stopped, Read, StopPhase, Awaits
<1>5. /\ Ordered(up')
      /\ \A op : /\ Txs(up', op) \subseteq Txs(up, op)
                 /\ Cardinality(At(up', op)) <= Cardinality(At(up, op))
      /\ t \notin Txs(up', "MeterValues")
  BY <1>1, <1>2, <1>4, ReadRequest DEF SimInv, OrderInv
<1> HIDE DEF t, b
<1>6. \A u \in TxIds : stop'[u] # "none" <=> stop[u] # "none"
  BY <1>2, <1>4 DEF SimInv, SimTypeOK
<1>7. SimTypeOK' /\ TxTypeOK'
  BY <1>2, <1>3, <1>4 DEF SimInv, SimTypeOK, TxTypeOK
<1>8. OrderInv'
  <2>1. tx[t] # "none" /\ (tx_id # NoTx => tx_id # t)
    BY <1>2 DEF SimInv, OrderInv
  <2>2. tx_id # NoTx => tx_id \in TxIds
    BY DEF SimInv, SimTypeOK
  <2> QED
    BY <1>3, <1>4, <1>5, <1>6, <2>1, <2>2 DEF SimInv, OrderInv
<1>9. CountInv'
  <2>1. Used' = Used
    BY <1>2, <1>3 DEF Used, SimInv, OrderInv
  <2>2. Unstarted' = Unstarted
    BY <1>4 DEF Unstarted
  <2>3. /\ Cardinality(At(up', "StartTransaction")) \in Nat
        /\ Cardinality(At(up, "StartTransaction")) \in Nat
        /\ Cardinality(At(up', "StartTransaction")) <= Cardinality(At(up, "StartTransaction"))
    BY <1>2, <1>4, <1>5, AtIsFinite
  <2>4. Cardinality(Used) + Cardinality(At(up', "StartTransaction")) + Cardinality(Unstarted)
          <= MaxAttempts
    BY <2>3, CountsAreFinite, CommandsAssumption DEF SimInv, CountInv
  <2> QED
    BY <1>4, <2>1, <2>2, <2>4 DEF SimInv, CountInv
<1> QED
  BY <1>7, <1>8, <1>9 DEF SimInv

\* The hub takes a reading and the meter loop, or nobody, hears the answer.
LEMMA MeterInv ==
  ASSUME SimInv, HandleMeter
  PROVE  SimInv'
<1> DEFINE n == Head(up).by
<1>1. up # <<>> /\ Head(up).op = "MeterValues" /\ tx' = tx
  BY DEF HandleMeter, IsNext
<1>2. CASE Unheard
  BY <1>1, <1>2, UnheardInv
<1>3. CASE Awaits(Head(up)) /\ Metered(n)
  <2>1. n \in Starts
    BY <1>1, NextRequest
  <2>2. start[n] # "none" /\ up' = Tail(up) /\ UNCHANGED <<stop, tx_id>>
    BY <1>1, <1>3 DEF Awaits, Metered, Read
  <2>3. \E phase \in {"over", "sleeping"} : Phase(n, phase)
    BY <1>3 DEF Metered, LoopHead
  <2> QED
    BY <1>1, <2>1, <2>2, <2>3, StartStepInv
<1> QED
  BY <1>2, <1>3 DEF HandleMeter, Hear

\* A handler raised: the task that asked is over.
LEMMA RaisesInv ==
  ASSUME SimInv, HandlerRaises
  PROVE  SimInv'
<1>1. up # <<>> /\ tx' = tx
  BY DEF HandlerRaises
<1>2. CASE Unheard
  BY <1>1, <1>2, UnheardInv
<1>3. CASE Awaits(Head(up)) /\ Raised(Head(up)) /\ Head(up).op = "StopTransaction"
  <2>1. Head(up).by \in TxIds
    BY <1>1, <1>3, NextRequest
  <2> QED
    BY <1>1, <1>3, <2>1, StopStepInv DEF Awaits, Raised, Read
<1>4. CASE Awaits(Head(up)) /\ Raised(Head(up)) /\ Head(up).op # "StopTransaction"
  <2>1. Head(up).by \in Starts /\ Head(up).op \in {"Authorize", "StartTransaction", "MeterValues"}
    BY <1>1, <1>4, NextRequest DEF Request
  <2>2. start[Head(up).by] # "none"
    BY <1>4, <2>1 DEF Awaits
  <2> QED
    BY <1>1, <1>4, <2>1, <2>2, StartStepInv DEF Raised, Read
<1> QED
  BY <1>2, <1>3, <1>4 DEF HandlerRaises, Hear

\* The link breaks: every task ends, those of RemoteStarts in transit before they
\* began, and tx_id is forgotten; what had left arrives unheard.
LEMMA BreakInv ==
  ASSUME SimInv, TypeOK, NEW k \in 0 .. Len(up), LinkBreaks(k, InTransit), tx' = tx
  PROVE  SimInv'
<1>1. up \in Seq(Request) /\ Ordered(up)
  BY DEF SimInv, SimTypeOK, OrderInv
<1>2. /\ up' \in Seq(Request) /\ Ordered(up')
      /\ \A op : /\ Txs(up', op) \subseteq Txs(up, op)
                 /\ Cardinality(At(up', op)) <= Cardinality(At(up, op))
  BY <1>1, BrokenLink DEF LinkBreaks
<1>3. InTransit \subseteq 1 .. MaxAttempts
  BY DEF InTransit, TypeOK
<1>4. /\ start' = [n \in Starts |-> IF start[n] = "none" /\ n \notin InTransit
                                    THEN "none" ELSE "over"]
      /\ stop' = [t \in TxIds |-> IF stop[t] = "none" THEN "none" ELSE "over"]
      /\ tx_id' = NoTx
  BY DEF LinkBreaks
<1>5. CountInv'
  <2>1. /\ \A n \in Starts : start'[n] # "none" => n \in 1 .. MaxAttempts
        /\ \A n \in 1 .. MaxAttempts : start'[n] \in {"none", "preparing", "authorizing"} =>
                                       start[n] \in {"none", "preparing", "authorizing"}
    BY <1>3, <1>4, RemoteStartAssumption DEF SimInv, CountInv
  <2> QED
    BY <1>2, <2>1, CountKeeps
<1>6. OrderInv'
  BY <1>2, <1>4, OrderKeeps
<1> QED
  BY <1>2, <1>4, <1>5, <1>6 DEF SimInv, SimTypeOK, TxTypeOK

\* The tasks, waiting for nobody in the hub.
LEMMA TasksInv ==
  ASSUME SimInv,
         \/ \E n \in Starts : StartGoesOn(n)
         \/ \E t \in TxIds : StopGoesOn(t)
         \/ ChargerGivesUp
  PROVE  SimInv'
<1>1. ASSUME NEW n \in Starts, StatusAnswered(n), tx' = tx
      PROVE  SimInv'
  <2>1. CASE start[n] = "preparing" /\ Phase(n, "authorizing") /\ Send("Authorize", n, NoTx)
    <3>1. [op |-> "Authorize", by |-> n, tx |-> NoTx, heard |-> TRUE] \in Request
      BY DEF Request
    <3> QED
      BY <1>1, <2>1, <3>1, StartStepInv DEF StatusAnswered, Send
  <2>2. CASE start[n] \in {"charging", "refused"} /\ Phase(n, LoopHead(tx_id)) /\ up' = up
    <3>1. \E phase \in {"over", "sleeping"} : Phase(n, phase)
      BY <2>2 DEF LoopHead
    <3> QED
      BY <1>1, <2>2, <3>1, StartStepInv DEF StatusAnswered
  <2> QED
    BY <1>1, <2>1, <2>2 DEF StatusAnswered
<1>2. ASSUME NEW n \in Starts, Wake(n), tx' = tx
      PROVE  SimInv'
  <2>1. CASE tx_id = NoTx
    BY <1>2, <2>1, StartStepInv DEF Wake
  <2>2. CASE tx_id # NoTx
    <3>1. [op |-> "MeterValues", by |-> n, tx |-> tx_id, heard |-> TRUE] \in Request
      BY DEF Request, SimInv, SimTypeOK
    <3> QED
      BY <1>2, <2>2, <3>1, StartStepInv DEF Wake, Send
  <2> QED
    BY <2>1, <2>2
<1>3. ASSUME NEW t \in TxIds, StopStatusAnswered(t), tx' = tx
      PROVE  SimInv'
  <2>1. [op |-> "StopTransaction", by |-> t, tx |-> t, heard |-> TRUE] \in Request
    BY DEF Request
  <2> QED
    BY <1>3, <2>1, StopStepInv DEF StopStatusAnswered, Send, StoppedTx
<1>4. ASSUME NEW n \in Starts, StartFails(n), tx' = tx
      PROVE  SimInv'
  BY <1>4, StartStepInv DEF StartFails
<1>5. ASSUME NEW t \in TxIds, StopFails(t), tx' = tx
      PROVE  SimInv'
  BY <1>5, StopStepInv DEF StopFails
<1> QED
  BY <1>1, <1>2, <1>3, <1>4, <1>5 DEF StartGoesOn, StopGoesOn, ChargerGivesUp

\* What the hub's worker, the clock and the core do to the charger: nothing.
LEMMA QuietSim ==
  ASSUME SimInv, UNCHANGED <<start, stop, tx_id, up, tx>>
  PROVE  SimInv'
<1>1. Used' = Used /\ Unstarted' = Unstarted
  BY DEF Used, Unstarted
<1> QED
  BY <1>1 DEF SimInv, SimTypeOK, TxTypeOK, CountInv, OrderInv

-----------------------------------------------------------------------------
\* RemoteInv holds initially.
LEMMA RemoteInitInv == RemoteInit => RemoteInv
<1> SUFFICES ASSUME RemoteInit PROVE RemoteInv
  OBVIOUS
<1>1. IInv
  BY InitIInv DEF RemoteInit
<1>2. /\ up = <<>> /\ up \in Seq(Request) /\ Len(up) = 0
      /\ tx_id = NoTx
      /\ \A t \in TxIds : tx[t] = "none" /\ stop[t] = "none"
      /\ \A n \in Starts : start[n] = "none"
  BY EmptySeq DEF RemoteInit, SimInit
<1>3. SimTypeOK /\ TxTypeOK
  BY <1>2 DEF RemoteInit, SimInit, SimTypeOK, TxTypeOK
<1>4. \A op : At(up, op) = {} /\ Txs(up, op) = {}
  BY <1>2 DEF At, Txs
<1>5. CountInv
  <2>1. Used = {} /\ Cardinality(Used) = 0 /\ Cardinality(At(up, "StartTransaction")) = 0
    BY <1>2, <1>4, FS_EmptySet DEF Used
  <2>2. Cardinality(Unstarted) <= MaxAttempts /\ Cardinality(Unstarted) \in Nat
    <3>1. MaxAttempts \in Nat \ {0} /\ Unstarted \in SUBSET (1 .. MaxAttempts)
      BY CommandsAssumption DEF Unstarted
    <3>2. IsFiniteSet(1 .. MaxAttempts) /\ Cardinality(1 .. MaxAttempts) = MaxAttempts
      <4>1. 1 \in Int /\ MaxAttempts \in Int /\ ~(1 > MaxAttempts)
            /\ MaxAttempts - 1 + 1 = MaxAttempts
        BY <3>1
      <4> QED
        BY <4>1, FS_Interval
    <3> QED
      BY <3>1, <3>2, FS_Subset, CountsAreFinite
  <2> QED
    BY <1>2, <2>1, <2>2, CommandsAssumption DEF CountInv
<1>6. OrderInv
  BY <1>2, <1>4 DEF OrderInv, Ordered
<1>7. GrantInv /\ trouble \in BOOLEAN
  BY AuthorizationAssumption, RemoteStartAssumption
     DEF RemoteInit, AuthInit, Forgotten, GrantInv, AuthTypeOK, Ages
<1> QED
  BY <1>1, <1>3, <1>5, <1>6, <1>7 DEF RemoteInv, SimInv

\* Every step is one of the command queue, or leaves it alone.
LEMMA CommandStep == RemoteNext => [Next]_vars
<1> SUFFICES ASSUME RemoteNext PROVE [Next]_vars
  OBVIOUS
<1>1. CASE WorkerStep \/ SendStart
  BY <1>1 DEF WorkerStep, SendStart, Next, Execute
<1>2. CASE CoreEnqueues
  BY <1>2, RemoteStartAssumption DEF CoreEnqueues, Next, Kinds
<1>3. CASE \E n \in Starts : ChargerTakesStart(n)
  <2>1. PICK n \in Starts : CarryOut(1, n) /\ <<1, n>> \in wire
    BY <1>3 DEF ChargerTakesStart, CarryOut, Answered
  <2> QED
    BY <2>1 DEF Next, Environment
<1>4. CASE Connects \/ Disconnects \/ HubRestarts
  BY <1>4, RemoteStartAssumption DEF Connects, Disconnects, HubRestarts, Next, Environment
<1>5. CASE \/ \E n \in Starts : StartGoesOn(n)
           \/ ChargerTakesStop \/ (\E t \in TxIds : StopGoesOn(t)) \/ ChargerGivesUp
           \/ Handle \/ HandlerRaises \/ TimePasses
  BY <1>5 DEF StartGoesOn, ChargerTakesStop, StopGoesOn, ChargerGivesUp, Handle, HandleAuthorize,
              HandleStart, HandleMeter, HandleStop, HandlerRaises, TimePasses
<1> QED
  BY <1>1, <1>2, <1>3, <1>4, <1>5 DEF RemoteNext

\* A grant is remembered with every attempt, ages with it, and is forgotten with it.
LEMMA GrantStep ==
  ASSUME GrantInv, RemoteNext
  PROVE  GrantInv'
<1>1. Tag \in IdTags /\ TTL \in Nat /\ Never \notin Nat
  BY RemoteStartAssumption, AuthorizationAssumption
<1>2. CASE UNCHANGED <<recent, sentAgo>>
  BY <1>2 DEF GrantInv, AuthTypeOK
<1>3. CASE SendStart
  BY <1>1, <1>3 DEF SendStart, Remember, RememberIdtag, Within, Ages, GrantInv, AuthTypeOK
<1>4. CASE HubRestarts
  BY <1>1, <1>4 DEF HubRestarts, ForgetIdtags, Forgotten, GrantInv, AuthTypeOK
<1>5. CASE TimePasses
  <2>1. \A age \in Ages \cup {Never} : Aged(age) \in Ages \cup {Never}
    BY <1>1 DEF Aged, Within, Ages
  <2> QED
    BY <1>1, <1>5, <2>1 DEF TimePasses, Tick, GrantInv, AuthTypeOK
<1> QED
  BY <1>2, <1>3, <1>4, <1>5
     DEF RemoteNext, CoreEnqueues, WorkerStep, ChargerTakesStart, StartGoesOn, ChargerTakesStop,
         StopGoesOn, ChargerGivesUp, Handle, HandleAuthorize, HandleStart, HandleMeter, HandleStop,
         HandlerRaises, Connects, Disconnects

\* SimInv is kept by every step, one case per kind of action.
LEMMA SimStep ==
  ASSUME SimInv, TypeOK, RemoteNext
  PROVE  SimInv'
<1>1. CASE CoreEnqueues \/ WorkerStep \/ SendStart \/ Connects \/ TimePasses
  BY <1>1, QuietSim DEF CoreEnqueues, WorkerStep, SendStart, Connects, TimePasses, simVars
<1>2. CASE \E n \in Starts : ChargerTakesStart(n)
  BY <1>2, TakesStartInv
<1>3. CASE ChargerTakesStop
  BY <1>3, TakesStopInv
<1>4. CASE (\E n \in Starts : StartGoesOn(n)) \/ (\E t \in TxIds : StopGoesOn(t)) \/ ChargerGivesUp
  BY <1>4, TasksInv
<1>5. CASE Handle
  BY <1>5, AuthorizeInv, StartInv, MeterInv, StopInv DEF Handle
<1>6. CASE HandlerRaises
  BY <1>6, RaisesInv
<1>7. CASE Disconnects
  BY <1>7, BreakInv DEF Disconnects
<1>8. CASE HubRestarts
  <2>1. 0 \in 0 .. Len(up)
    BY LenProperties DEF SimInv, SimTypeOK
  <2> QED
    BY <1>8, <2>1, BreakInv DEF HubRestarts
<1> QED
  BY <1>1, <1>2, <1>3, <1>4, <1>5, <1>6, <1>7, <1>8 DEF RemoteNext

\* RemoteInv is kept by every step.
LEMMA RemoteStep == RemoteInv /\ [RemoteNext]_remoteVars => RemoteInv'
<1> SUFFICES ASSUME RemoteInv, [RemoteNext]_remoteVars
             PROVE  RemoteInv'
  OBVIOUS
<1>1. CASE RemoteNext
  <2>1. IInv'
    BY <1>1, CommandStep, NextIInv DEF RemoteInv
  <2>2. SimInv'
    BY <1>1, SimStep DEF RemoteInv, IInv
  <2>3. GrantInv'
    BY <1>1, GrantStep DEF RemoteInv
  <2>4. trouble' \in BOOLEAN
    BY <1>1 DEF RemoteInv, RemoteNext, CoreEnqueues, WorkerStep, SendStart, ChargerTakesStart,
                StartGoesOn, ChargerTakesStop, StopGoesOn, ChargerGivesUp, Handle, HandleAuthorize,
                HandleStart, HandleMeter, HandleStop, HandlerRaises, Connects, Disconnects,
                HubRestarts, TimePasses
  <2> QED
    BY <2>1, <2>2, <2>3, <2>4 DEF RemoteInv
<1>2. CASE UNCHANGED remoteVars
  <2>1. IInv'
    BY <1>2, NextIInv DEF RemoteInv, remoteVars
  <2>2. SimInv'
    BY <1>2, QuietSim DEF RemoteInv, remoteVars, simVars
  <2> QED
    BY <1>2, <2>1, <2>2 DEF RemoteInv, remoteVars, GrantInv, AuthTypeOK
<1> QED
  BY <1>1, <1>2

\* The queue, the simulator, the link, the transactions and the remembered idTag
\* agree in every state.
THEOREM RemoteInvariance == RemoteSpec => []RemoteInv
BY RemoteInitInv, RemoteStep, PTL DEF RemoteSpec

-----------------------------------------------------------------------------
\* The RemoteStart is a command like any other: all that is proved of the queue
\* holds of it, whatever the charger and the link do.
THEOREM RemoteIsCommand == RemoteSpec => Spec
<1>1. RemoteInit => Init
  BY DEF RemoteInit
<1>2. [RemoteNext]_remoteVars => [Next]_vars
  <2>1. UNCHANGED remoteVars => UNCHANGED vars
    BY DEF remoteVars
  <2> QED
    BY <2>1, CommandStep
<1> QED
  BY <1>1, <1>2, PTL DEF RemoteSpec, Spec

\* Every variable keeps its type: no transaction has an id the hub does not give out.
THEOREM RemoteTypeCorrect == RemoteSpec => []RemoteTypeOK
<1>1. RemoteInv => RemoteTypeOK
  BY DEF RemoteInv, IInv, SimInv, GrantInv, TxTypeOK, RemoteTypeOK
<1> QED
  BY <1>1, RemoteInvariance, PTL

\* One RemoteStart, however often it is repeated and by whatever it is disturbed,
\* starts no more transactions than it has attempts.
THEOREM StartsBounded == RemoteSpec => []StartsAtMostMax
<1>1. RemoteInv => StartsAtMostMax
  <2> SUFFICES ASSUME RemoteInv PROVE StartsAtMostMax
    OBVIOUS
  <2>1. Cardinality(At(up, "StartTransaction")) \in Nat /\ Cardinality(Unstarted) \in Nat
    BY AtIsFinite, CountsAreFinite DEF RemoteInv, SimInv, SimTypeOK
  <2>2. Cardinality(Used) <= MaxAttempts
    BY <2>1, CommandsAssumption DEF RemoteInv, SimInv, CountInv
  <2> QED
    BY <2>2 DEF StartsAtMostMax, Used
<1> QED
  BY <1>1, RemoteInvariance, PTL

\* Every reading the hub takes is of a transaction that still runs.
THEOREM MeterBeforeStop == RemoteSpec => []NoMeterAfterStop
<1>1. RemoteInv => NoMeterAfterStop
  <2> SUFFICES ASSUME RemoteInv, IsNext("MeterValues")
               PROVE  tx[Head(up).tx] = "RUNNING"
    BY DEF NoMeterAfterStop
  <2>1. up # <<>> /\ Head(up).op = "MeterValues"
    BY DEF IsNext
  <2>2. Head(up).tx \in Txs(up, "MeterValues")
    BY <2>1, ReadRequest DEF RemoteInv, SimInv, SimTypeOK
  <2> QED
    BY <2>2 DEF RemoteInv, SimInv, OrderInv
<1> QED
  BY <1>1, RemoteInvariance, PTL

\* A charger that asks within the TTL of the last attempt is let in.
THEOREM GrantIsHonoured == RemoteSpec => GrantHonoured
<1> DEFINE Step == \A n \in Starts :
                     start[n] # "refused" /\ start'[n] = "refused" => ~Within(sentAgo)
<1>1. RemoteInv /\ [RemoteNext]_remoteVars => Step
  <2> SUFFICES ASSUME RemoteInv, [RemoteNext]_remoteVars, NEW n \in Starts,
                      start[n] # "refused", start'[n] = "refused", Within(sentAgo)
               PROVE  FALSE
    OBVIOUS
  <2>1. start \in [Starts -> {"none", "preparing", "authorizing", "refused", "starting",
                             "charging", "sleeping", "metering", "over"}]
    BY DEF RemoteInv, SimInv, SimTypeOK
  <2>2. HandleAuthorize
    BY <2>1 DEF RemoteNext, remoteVars, simVars, CoreEnqueues, WorkerStep, SendStart,
                ChargerTakesStart, TakeRemoteStart, StartGoesOn, StatusAnswered, Wake,
                ChargerTakesStop, TakeRemoteStop, StopGoesOn, StopStatusAnswered, ChargerGivesUp,
                StartFails, StopFails, Handle, HandleStart, HandleMeter, HandleStop, HandlerRaises,
                Hear, Unheard, Started, Metered, Stopped, Raised, LoopHead, Phase, Connects,
                Disconnects, HubRestarts, LinkBreaks, TimePasses
  <2>3. IdtagKnown(Tag)
    BY DEF RemoteInv, GrantInv, IdtagKnown
  <2>4. Unheard \/ Authorized(Head(up).by, TRUE)
    BY <2>2, <2>3 DEF HandleAuthorize, Hear, Accepted
  <2> QED
    BY <2>1, <2>4 DEF Unheard, Authorized, Phase
<1>2. RemoteInv /\ [RemoteNext]_remoteVars => [Step]_remoteVars
  BY <1>1
<1> QED
  BY <1>2, RemoteInvariance, PTL DEF RemoteSpec, GrantHonoured
=============================================================================
