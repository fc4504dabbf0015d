--------------------------- MODULE CommandsProofs ---------------------------
(***************************************************************************)
(* Proofs about Commands for every set of chargers and every number of     *)
(* commands, attempts and rows in a batch: what the worker works on is     *)
(* SENT and claimed once, a charger does nothing more often than           *)
(* MaxAttempts, DONE comes with the charger's answer to the last Call, at  *)
(* most one Call is sent too late, and what the core was told of a         *)
(* finished command stays.                                                 *)
(***************************************************************************)
EXTENDS Commands, RowOrderProofs

\* Rows that were not inserted are blank.
RowInv ==
  \A i \in Ids : i > created =>
    status[i] = "NONE" /\ attempts[i] = 0 /\ executions[i] = 0 /\ late[i] = 0

\* The worker has a batch exactly while it works through one, and an answer only
\* while it waits.
WorkerInv ==
  /\ at \in {"batch", "waiting"} <=> batch # <<>>
  /\ at # "waiting" => answer = "none" /\ said = "none"

\* The batch holds the rows that are SENT, but for those the worker lost, once each.
BatchInv ==
  /\ \A n, m \in DOMAIN batch : batch[n] = batch[m] => n = m
  /\ \A i \in Ids :
       (\E n \in DOMAIN batch : batch[n] = i) <=> (status[i] = "SENT" /\ i \notin stranded)
  /\ \A i \in stranded : status[i] = "SENT"

\* Commands of the batch whose Call of this batch is still to come.
Ahead == {batch[n] : n \in {n \in DOMAIN batch : n > 1 \/ at = "batch"}}

\* What is or will be tried has an attempt left.
AttemptsInv == \A i \in Ids : status[i] = "PENDING" \/ i \in Ahead => attempts[i] < MaxAttempts

\* What was sent late is overdue for ever, so that no tick claims it again.
LateInv ==
  /\ \A i \in Ids : late[i] > 0 => i \in overdue
  /\ \A i \in Ids : i \in Ahead \/ (at = "claiming" /\ status[i] = "PENDING") => late[i] = 0

\* Attempts of a command whose Call has not reached the charger.
OnWire(i) == {n \in 1 .. MaxAttempts : <<i, n>> \in wire}

\* Every Call on the wire and every execution is an attempt of its own.
WireInv ==
  \A i \in Ids :
    /\ \A n \in OnWire(i) : n <= attempts[i]
    /\ executions[i] + Cardinality(OnWire(i)) <= attempts[i]

\* An answer the worker has is the charger's to its current Call, Accepted comes from
\* a charger that has carried the command out, and a Call on its way is unanswered.
ResultInv ==
  /\ answer \in Answers => answer = said
  /\ said = "Accepted" => executions[Head(batch)] > 0
  /\ at = "waiting" /\ <<Head(batch), attempts[Head(batch)]>> \in wire =>
       answer = "none" /\ said = "none"

IInv ==
  /\ TypeOK /\ RowInv /\ WorkerInv /\ BatchInv /\ AttemptsInv /\ LateInv /\ WireInv /\ ResultInv
  /\ SentLateAtMostOnce

-----------------------------------------------------------------------------
\* Sets of commands are finite sets of natural numbers.
LEMMA IdsAreFinite ==
  ASSUME NEW S \in SUBSET Ids
  PROVE  S \in SUBSET Nat /\ IsFiniteSet(S) /\ Cardinality(S) \in Nat
<1>1. IsFiniteSet(Ids)
  BY CommandsAssumption, FS_Interval DEF Ids
<1>2. S \in SUBSET Nat
  BY CommandsAssumption DEF Ids
<1>3. IsFiniteSet(S)
  BY <1>1, FS_Subset
<1> QED
  BY <1>2, <1>3, FS_CardinalityType

\* The Calls of a command on the wire are finitely many.
LEMMA OnWireIsFinite ==
  ASSUME NEW i
  PROVE  IsFiniteSet(OnWire(i)) /\ Cardinality(OnWire(i)) \in Nat
<1>1. IsFiniteSet(1 .. MaxAttempts)
  BY CommandsAssumption, FS_Interval
<1>2. OnWire(i) \in SUBSET (1 .. MaxAttempts)
  BY DEF OnWire
<1>3. IsFiniteSet(OnWire(i))
  BY <1>1, <1>2, FS_Subset
<1> QED
  BY <1>3, FS_CardinalityType

\* The batch is a list of commands.
LEMMA BatchRows ==
  ASSUME TypeOK
  PROVE  \A n \in DOMAIN batch : n \in Nat \ {0} /\ batch[n] \in Ids
<1>1. batch \in Seq(Ids)
  BY DEF TypeOK
<1>2. DOMAIN batch = 1 .. Len(batch) /\ Len(batch) \in Nat
  BY <1>1, LenProperties
<1> QED
  BY <1>1, <1>2, ElementOfSeq

\* The first command of a batch is SENT, and what comes behind it is another one.
LEMMA CurrentCommand ==
  ASSUME TypeOK, WorkerInv, BatchInv, at \in {"batch", "waiting"}
  PROVE  /\ batch # <<>> /\ Head(batch) \in Ids /\ Head(batch) = batch[1] /\ 1 \in DOMAIN batch
         /\ status[Head(batch)] = "SENT" /\ Head(batch) \notin stranded
         /\ \A n \in DOMAIN batch : n > 1 => batch[n] # Head(batch)
         /\ at = "batch" => Head(batch) \in Ahead
<1>1. batch # <<>>
  BY DEF WorkerInv
<1>2. Head(batch) \in Ids /\ Head(batch) = batch[1] /\ 1 \in DOMAIN batch
  BY <1>1, HeadAndTail DEF TypeOK
<1>3. status[Head(batch)] = "SENT" /\ Head(batch) \notin stranded
  BY <1>2 DEF BatchInv
<1>4. \A n \in DOMAIN batch : n > 1 => batch[n] # Head(batch)
  BY <1>2, BatchRows DEF BatchInv
<1> QED
  BY <1>1, <1>2, <1>3, <1>4 DEF Ahead

\* The initial state is a good one.
LEMMA InitIInv == Init => IInv
<1> SUFFICES ASSUME Init PROVE IInv
  OBVIOUS
<1>1. TypeOK
  BY CommandsAssumption DEF Init, TypeOK, Terminal, Answers
<1>2. \A i \in Ids : OnWire(i) = {}
  BY DEF Init, OnWire
<1>3. WireInv
  BY <1>2, FS_EmptySet DEF Init, WireInv
<1>4. Ahead = {}
  BY DEF Init, Ahead
<1> QED
  BY <1>1, <1>3, <1>4 DEF Init, IInv, RowInv, WorkerInv, BatchInv, AttemptsInv, LateInv,
                          ResultInv, SentLateAtMostOnce, Answers

\* Rows are inserted, expire or are deleted, beside the worker or by it; nothing
\* that is SENT is touched, and what a tick leaves PENDING was never sent late.
LEMMA RowsInv ==
  ASSUME IInv, UNCHANGED <<attempts, overdue, batch, answer, said, online, wire, history>>,
         created' \in 0 .. MaxCommands, created <= created',
         charger' \in [Ids -> Chargers \cup {None}], kind' \in [Ids -> Kinds \cup {"none"}],
         status' \in [Ids -> {"NONE", "PENDING", "SENT", "DELETED"} \cup Terminal],
         result' \in [Ids -> Answers \cup {"none", "error"}],
         \A i \in Ids :
           \/ status'[i] = status[i]
           \/ status[i] = "PENDING" /\ status'[i] = "EXPIRED"
           \/ status[i] \in Terminal /\ status'[i] = "DELETED"
           \/ i > created /\ i <= created' /\ status'[i] = "PENDING",
         \/ at' = at
         \/ /\ at = "idle" /\ at' = "claiming"
            /\ \A i \in Ids : status'[i] = "PENDING" => i \notin overdue
  PROVE  IInv'
<1>1. UNCHANGED <<executions, stranded, late>>
  BY DEF history
<1>2. TypeOK'
  BY <1>1 DEF IInv, TypeOK
<1>3. RowInv'
  <2>1. created \in Nat /\ created' \in Nat /\ \A i \in Ids : i \in Nat
    BY CommandsAssumption DEF IInv, TypeOK, Ids
  <2>2. \A i \in Ids : i > created' => i > created /\ ~(i <= created')
    BY <2>1
  <2> QED
    BY <1>1, <2>2 DEF IInv, RowInv, Terminal
<1>4. WorkerInv'
  BY DEF IInv, WorkerInv
<1>5. BatchInv'
  <2>1. \A i \in Ids : status'[i] = "SENT" <=> status[i] = "SENT"
    BY DEF IInv, RowInv, Terminal
  <2>2. stranded \subseteq Ids
    BY DEF IInv, TypeOK
  <2> QED
    BY <1>1, <2>1, <2>2 DEF IInv, BatchInv
<1>6. Ahead' = Ahead
  BY DEF Ahead, IInv, WorkerInv
<1>7. AttemptsInv'
  BY <1>6, CommandsAssumption DEF IInv, AttemptsInv, RowInv
<1>8. LateInv'
  <2>1. CASE at' = at
    BY <1>1, <1>6, <2>1 DEF IInv, LateInv, RowInv
  <2>2. CASE at' = "claiming" /\ \A i \in Ids : status'[i] = "PENDING" => i \notin overdue
    BY <1>1, <1>6, <2>2 DEF IInv, LateInv, TypeOK
  <2> QED
    BY <2>1, <2>2
<1>9. WireInv'
  BY <1>1 DEF IInv, WireInv, OnWire
<1>10. ResultInv' /\ SentLateAtMostOnce'
  BY <1>1 DEF IInv, ResultInv, SentLateAtMostOnce
<1> QED
  BY <1>2, <1>3, <1>4, <1>5, <1>7, <1>8, <1>9, <1>10 DEF IInv

\* An insert by the API or by a boot, which may expire configuration commands.
LEMMA InsertInv ==
  ASSUME IInv, NEW c \in Chargers, Boot(c) \/ \E k \in Kinds : Enqueue(c, k)
  PROVE  IInv'
<1>1. PICK k \in Kinds : Insert(c, k)
  BY DEF Boot, Enqueue, Kinds
<1>2. created' = created + 1 /\ created' \in 0 .. MaxCommands /\ created \in Nat
  BY <1>1, CommandsAssumption DEF Insert, IInv, TypeOK
<1>3. charger' \in [Ids -> Chargers \cup {None}] /\ kind' \in [Ids -> Kinds \cup {"none"}]
  BY <1>1 DEF Insert, IInv, TypeOK
<1>4. status' \in [Ids -> {"NONE", "PENDING", "SENT", "DELETED"} \cup Terminal]
  BY DEF Boot, Enqueue, IInv, TypeOK, Terminal
<1>5. \A i \in Ids : \/ status'[i] = status[i]
                     \/ status[i] = "PENDING" /\ status'[i] = "EXPIRED"
                     \/ i > created /\ i <= created' /\ status'[i] = "PENDING"
  BY <1>2 DEF Boot, Enqueue, IInv, TypeOK, ReplacedByBoot, Pending
<1>6. UNCHANGED <<attempts, result, overdue, worker, online, wire, history>>
  BY <1>1 DEF Insert
<1>7. result' \in [Ids -> Answers \cup {"none", "error"}]
  BY <1>6 DEF IInv, TypeOK
<1> QED
  BY <1>2, <1>3, <1>4, <1>5, <1>6, <1>7, RowsInv DEF worker

\* A tick claims the oldest rows: they were PENDING, had an attempt left and were
\* not overdue when the tick began.
LEMMA ClaimInv ==
  ASSUME IInv, Claim
  PROVE  IInv'
<1> DEFINE claimed == FirstRows(Pending, BatchLimit)
<1>1. /\ at = "claiming" /\ batch' = InOrder(claimed)
      /\ at' = IF claimed = {} THEN "idle" ELSE "batch"
      /\ status' = [i \in Ids |-> IF i \in claimed THEN "SENT" ELSE status[i]]
      /\ UNCHANGED <<created, charger, kind, attempts, result, overdue, answer, said, online,
                     wire, executions, stranded, late>>
  BY DEF Claim, fixed, history
<1>2. claimed \subseteq Pending /\ IsFiniteSet(claimed) /\ claimed \in SUBSET Nat
      /\ claimed \subseteq Ids
  <2>1. Pending \in SUBSET Ids
    BY DEF Pending
  <2>2. Pending \in SUBSET Nat /\ IsFiniteSet(Pending)
    BY <2>1, IdsAreFinite
  <2> QED
    BY <2>1, <2>2, FirstRowsFinite, CommandsAssumption
<1> HIDE DEF claimed
<1>3. batch' \in Seq(claimed) /\ Len(batch') = Cardinality(claimed)
      /\ DOMAIN batch' = 1 .. Cardinality(claimed) /\ Cardinality(claimed) \in Nat
      /\ \A n \in DOMAIN batch' : batch'[n] \in claimed
  BY <1>1, <1>2, InOrderRows, FS_CardinalityType
<1>4. \A n, m \in DOMAIN batch' : batch'[n] = batch'[m] => n = m
  <2> SUFFICES ASSUME NEW n \in DOMAIN batch', NEW m \in DOMAIN batch', n < m
               PROVE  batch'[n] # batch'[m]
    BY <1>3
  <2>1. batch'[n] < batch'[m]
    BY <1>1, <1>2, <1>3, InOrderGrows
  <2>2. batch'[n] \in Nat /\ batch'[m] \in Nat
    BY <1>2, <1>3
  <2> QED
    BY <2>1, <2>2
<1>5. \A i \in claimed : \E n \in DOMAIN batch' : batch'[n] = i
  BY <1>1, <1>2, <1>3, InOrderAll
<1>6. batch' \in Seq(Ids)
  BY <1>2, <1>3, SeqMonotonic
<1>7. claimed = {} <=> batch' = <<>>
  <2>1. claimed = {} <=> Cardinality(claimed) = 0
    BY <1>2, FS_EmptySet
  <2>2. batch' = <<>> <=> Len(batch') = 0
    BY <1>6, EmptySeq
  <2> QED
    BY <1>3, <2>1, <2>2
<1>8. \A i \in claimed : status[i] = "PENDING"
  BY <1>2 DEF Pending
<1>9. TypeOK'
  BY <1>1, <1>6 DEF IInv, TypeOK
<1>10. RowInv'
  BY <1>1, <1>8 DEF IInv, RowInv
<1>11. WorkerInv'
  BY <1>1, <1>7 DEF IInv, WorkerInv
<1>12. BatchInv'
  <2>1. batch = <<>>
    BY <1>1 DEF IInv, WorkerInv
  <2>2. \A i \in Ids : ~(status[i] = "SENT" /\ i \notin stranded)
    BY <2>1 DEF IInv, BatchInv
  <2>3. \A i \in stranded : status[i] = "SENT" /\ i \in Ids
    BY DEF IInv, BatchInv, TypeOK
  <2>4. \A i \in Ids : (\E n \in DOMAIN batch' : batch'[n] = i)
                         <=> (status'[i] = "SENT" /\ i \notin stranded')
    BY <1>1, <1>3, <1>5, <1>8, <2>2, <2>3
  <2> QED
    BY <1>1, <1>4, <2>3, <2>4 DEF BatchInv
<1>13. Ahead' \subseteq claimed
  BY <1>3 DEF Ahead
<1>14. AttemptsInv'
  BY <1>1, <1>8, <1>13 DEF IInv, AttemptsInv
<1>15. LateInv'
  BY <1>1, <1>2, <1>8, <1>13 DEF IInv, LateInv
<1>16. WireInv' /\ ResultInv' /\ SentLateAtMostOnce'
  BY <1>1 DEF IInv, WireInv, OnWire, ResultInv, WorkerInv, SentLateAtMostOnce, Answers
<1> QED
  BY <1>9, <1>10, <1>11, <1>12, <1>14, <1>15, <1>16 DEF IInv

\* The current command is finished or put back, and the worker takes the next one.
LEMMA FinishInv ==
  ASSUME IInv, at \in {"batch", "waiting"}, NEW s \in {"PENDING", "DONE", "FAILED"},
         NEW r \in Answers \cup {"none", "error"}, Finish(s, r),
         s = "PENDING" => attempts[Head(batch)] < MaxAttempts,
         UNCHANGED <<fixed, attempts, overdue, online, wire, history>>
  PROVE  IInv'
<1> DEFINE i == Head(batch)
<1>1. /\ status' = [status EXCEPT ![i] = s] /\ batch' = Tail(batch) /\ answer' = "none"
      /\ said' = "none" /\ result' = [result EXCEPT ![i] = r]
      /\ at' = IF Len(batch) = 1 THEN "idle" ELSE "batch"
      /\ UNCHANGED <<created, charger, kind, attempts, overdue, online, wire,
                     executions, stranded, late>>
  BY DEF Finish, fixed, history
<1>2. /\ batch # <<>> /\ i \in Ids /\ i = batch[1] /\ status[i] = "SENT" /\ i \notin stranded
      /\ \A n \in DOMAIN batch : n > 1 => batch[n] # i
  BY CurrentCommand DEF IInv
<1>3. /\ DOMAIN batch = 1 .. Len(batch) /\ Len(batch) \in Nat \ {0}
      /\ batch' \in Seq(Ids) /\ DOMAIN batch' = 1 .. Len(batch) - 1
      /\ \A n \in DOMAIN batch' : n + 1 \in DOMAIN batch /\ batch'[n] = batch[n + 1]
  BY <1>1, <1>2, HeadAndTail DEF IInv, TypeOK
<1>4. batch' = <<>> <=> Len(batch) = 1
  <2>1. batch' = <<>> <=> Len(batch') = 0
    BY <1>3, EmptySeq
  <2>2. Len(batch') = Len(batch) - 1
    BY <1>1, <1>2, HeadTailProperties DEF IInv, TypeOK
  <2> QED
    BY <1>3, <2>1, <2>2
<1> HIDE DEF i
<1>5. TypeOK'
  BY <1>1, <1>2, <1>3 DEF IInv, TypeOK, Terminal
<1>6. RowInv'
  BY <1>1, <1>2 DEF IInv, RowInv
<1>7. WorkerInv'
  BY <1>1, <1>4 DEF WorkerInv
<1>8. \A j \in Ids : (\E n \in DOMAIN batch' : batch'[n] = j)
                       <=> (j # i /\ \E n \in DOMAIN batch : batch[n] = j)
  <2> TAKE j \in Ids
  <2>1. ASSUME NEW n \in DOMAIN batch', batch'[n] = j
        PROVE  j # i /\ \E m \in DOMAIN batch : batch[m] = j
    <3>1. n + 1 \in DOMAIN batch /\ n + 1 > 1 /\ batch[n + 1] = j
      BY <1>3, <2>1
    <3> QED
      BY <1>2, <3>1
  <2>2. ASSUME NEW n \in DOMAIN batch, batch[n] = j, j # i
        PROVE  \E m \in DOMAIN batch' : batch'[m] = j
    <3>1. n # 1 /\ n - 1 \in DOMAIN batch' /\ (n - 1) + 1 = n
      BY <1>2, <1>3, <2>2
    <3> QED
      BY <1>3, <2>2, <3>1
  <2> QED
    BY <2>1, <2>2
<1>9. BatchInv'
  <2>1. \A n, m \in DOMAIN batch' : batch'[n] = batch'[m] => n = m
    <3> SUFFICES ASSUME NEW n \in DOMAIN batch', NEW m \in DOMAIN batch', batch'[n] = batch'[m]
                 PROVE  n = m
      OBVIOUS
    <3>1. n + 1 = m + 1
      BY <1>3 DEF IInv, BatchInv
    <3> QED
      BY <1>3, <3>1
  <2>2. \A j \in Ids : status'[j] = IF j = i THEN s ELSE status[j]
    BY <1>1, <1>2 DEF IInv, TypeOK
  <2>3. \A j \in stranded : j \in Ids /\ j # i
    BY <1>2 DEF IInv, TypeOK
  <2>4. \A j \in Ids : (\E n \in DOMAIN batch' : batch'[n] = j)
                         <=> (status'[j] = "SENT" /\ j \notin stranded')
    BY <1>1, <1>8, <2>2 DEF IInv, BatchInv
  <2> QED
    BY <1>1, <2>1, <2>2, <2>3, <2>4 DEF IInv, BatchInv
<1>10. Ahead' \subseteq Ahead /\ i \notin Ahead'
  <2> SUFFICES ASSUME NEW n \in DOMAIN batch' PROVE batch'[n] \in Ahead /\ batch'[n] # i
    BY DEF Ahead
  <2>1. n + 1 \in DOMAIN batch /\ n + 1 > 1 /\ batch'[n] = batch[n + 1]
    BY <1>3
  <2> QED
    BY <1>2, <2>1 DEF Ahead
<1>11. AttemptsInv'
  <2>1. \A j \in Ids : status'[j] = IF j = i THEN s ELSE status[j]
    BY <1>1, <1>2 DEF IInv, TypeOK
  <2> QED
    BY <1>1, <1>10, <2>1 DEF IInv, AttemptsInv, i
<1>12. LateInv'
  BY <1>1, <1>10 DEF IInv, LateInv
<1>13. WireInv' /\ ResultInv' /\ SentLateAtMostOnce'
  BY <1>1 DEF IInv, WireInv, OnWire, ResultInv, SentLateAtMostOnce, Answers
<1> QED
  BY <1>5, <1>6, <1>7, <1>9, <1>11, <1>12, <1>13 DEF IInv

\* An attempt is counted for the current command alone, which had one left and was
\* not sent late before.
LEMMA AttemptCounts ==
  ASSUME IInv, at = "batch", Attempt
  PROVE  /\ Head(batch) \in Ids
         /\ attempts' \in [Ids -> 0 .. MaxAttempts] /\ late' \in [Ids -> 0 .. MaxAttempts]
         /\ attempts[Head(batch)] \in Nat /\ attempts'[Head(batch)] = attempts[Head(batch)] + 1
         /\ late[Head(batch)] = 0
         /\ late'[Head(batch)] = IF Head(batch) \in overdue THEN 1 ELSE 0
         /\ \A i \in Ids \ {Head(batch)} : attempts'[i] = attempts[i] /\ late'[i] = late[i]
<1> DEFINE h == Head(batch)
<1>1. h \in Ids /\ h \in Ahead
  BY CurrentCommand DEF IInv
<1>2. attempts[h] \in 0 .. MaxAttempts /\ attempts[h] < MaxAttempts /\ late[h] = 0
  BY <1>1 DEF IInv, TypeOK, AttemptsInv, LateInv
<1> HIDE DEF h
<1>3. /\ attempts' = [attempts EXCEPT ![h] = attempts[h] + 1]
      /\ late' = [late EXCEPT ![h] = IF h \in overdue THEN late[h] + 1 ELSE late[h]]
  BY DEF Attempt, h
<1>4. attempts' \in [Ids -> 0 .. MaxAttempts] /\ late' \in [Ids -> 0 .. MaxAttempts]
  BY <1>1, <1>2, <1>3, CommandsAssumption DEF IInv, TypeOK
<1> QED
  BY <1>1, <1>2, <1>3, <1>4 DEF h, IInv, TypeOK

\* The rows keep to what was counted.
LEMMA AttemptInv ==
  ASSUME IInv, at = "batch", Attempt, at' # "batch", at' # "claiming",
         UNCHANGED <<fixed, status, overdue, executions>>,
         Ahead' \subseteq Ahead \ {Head(batch)}
  PROVE  RowInv' /\ AttemptsInv' /\ LateInv' /\ SentLateAtMostOnce'
<1> DEFINE h == Head(batch)
<1>1. status[h] = "SENT" /\ h \in Ids
  BY CurrentCommand DEF IInv
<1>2. \A i \in Ids \ {h} : attempts'[i] = attempts[i] /\ late'[i] = late[i]
  BY AttemptCounts
<1>3. late'[h] = IF h \in overdue THEN 1 ELSE 0
  BY AttemptCounts
<1> HIDE DEF h
<1>4. UNCHANGED <<created, status, overdue, executions>>
  BY DEF fixed
<1>5. RowInv'
  BY <1>1, <1>2, <1>4 DEF IInv, RowInv
<1>6. AttemptsInv'
  BY <1>1, <1>2, <1>4 DEF IInv, AttemptsInv, h
<1>7. LateInv'
  BY <1>1, <1>2, <1>3, <1>4 DEF IInv, LateInv, h
<1>8. SentLateAtMostOnce'
  BY <1>2, <1>3, <1>4 DEF IInv, SentLateAtMostOnce
<1> QED
  BY <1>5, <1>6, <1>7, <1>8

\* A Call goes out: one attempt more, and one Call more on the wire.
LEMMA CallInv ==
  ASSUME IInv, Call
  PROVE  IInv'
<1> DEFINE h == Head(batch)
           k == attempts[h] + 1
<1>1. /\ at = "batch" /\ at' = "waiting" /\ Attempt
      /\ wire' = wire \cup {<<h, attempts'[h]>>}
      /\ UNCHANGED <<fixed, created, charger, kind, status, result, overdue, batch, answer,
                     said, online, executions, stranded>>
  BY DEF Call, fixed
<1>2. h \in Ids /\ h = batch[1] /\ 1 \in DOMAIN batch
      /\ \A n \in DOMAIN batch : n > 1 => batch[n] # h
  BY <1>1, CurrentCommand DEF IInv
<1>3. /\ attempts' \in [Ids -> 0 .. MaxAttempts] /\ late' \in [Ids -> 0 .. MaxAttempts]
      /\ attempts[h] \in Nat /\ attempts'[h] = k
      /\ \A i \in Ids \ {h} : attempts'[i] = attempts[i]
  BY <1>1, AttemptCounts
<1>4. k \in 1 .. MaxAttempts
  BY <1>2, <1>3, CommandsAssumption
<1>5. Ahead' \subseteq Ahead \ {h} /\ h' = h
  BY <1>1, <1>2 DEF Ahead
<1> HIDE DEF h, k
<1>6. TypeOK'
  <2>1. wire' \subseteq Ids \X (1 .. MaxAttempts)
    BY <1>1, <1>2, <1>3, <1>4 DEF IInv, TypeOK
  <2> QED
    BY <1>1, <1>3, <2>1 DEF IInv, TypeOK
<1>7. RowInv' /\ AttemptsInv' /\ LateInv' /\ SentLateAtMostOnce'
  BY <1>1, <1>5, AttemptInv DEF h
<1>8. WorkerInv' /\ BatchInv' /\ ResultInv'
  BY <1>1 DEF IInv, WorkerInv, BatchInv, ResultInv
<1>9. WireInv'
  <2>1. OnWire(h)' = OnWire(h) \cup {k} /\ k \notin OnWire(h)
    <3>1. \A n \in 1 .. MaxAttempts : <<h, n>> \in wire' <=> <<h, n>> \in wire \/ n = k
      BY <1>1, <1>3
    <3>2. \A n \in OnWire(h) : n <= attempts[h]
      BY <1>2 DEF IInv, WireInv
    <3>3. k \notin OnWire(h)
      BY <1>3, <3>2 DEF k
    <3> QED
      BY <1>4, <1>5, <3>1, <3>3 DEF OnWire
  <2>2. \A i \in Ids \ {h} : OnWire(i)' = OnWire(i)
    BY <1>1 DEF OnWire
  <2>3. Cardinality(OnWire(h)') = Cardinality(OnWire(h)) + 1 /\ Cardinality(OnWire(h)) \in Nat
    BY <2>1, OnWireIsFinite, FS_AddElement
  <2>4. /\ \A n \in OnWire(h)' : n <= attempts'[h]
        /\ executions'[h] + Cardinality(OnWire(h)') <= attempts'[h]
    <3>1. executions[h] \in Nat /\ executions' = executions
      BY <1>1, <1>2 DEF IInv, TypeOK
    <3>2. \A n \in OnWire(h) : n \in Nat /\ n <= attempts[h]
      <4>1. \A n \in OnWire(h) : n \in Nat
        BY CommandsAssumption DEF OnWire
      <4> QED
        BY <1>2, <4>1 DEF IInv, WireInv
    <3>3. executions[h] + Cardinality(OnWire(h)) <= attempts[h]
      BY <1>2 DEF IInv, WireInv
    <3>4. \A n \in OnWire(h)' : n <= attempts'[h]
      BY <1>3, <2>1, <3>2 DEF k
    <3> QED
      BY <1>3, <2>3, <3>1, <3>3, <3>4 DEF k
  <2>5. \A i \in Ids \ {h} : /\ \A n \in OnWire(i)' : n <= attempts'[i]
                             /\ executions'[i] + Cardinality(OnWire(i)') <= attempts'[i]
    BY <1>1, <1>3, <2>2 DEF IInv, WireInv
  <2> QED
    BY <1>5, <2>4, <2>5 DEF WireInv
<1> QED
  BY <1>6, <1>7, <1>8, <1>9 DEF IInv

\* The worker loses its batch: what was SENT stays SENT, and nobody has it any more.
LEMMA LostInv ==
  ASSUME IInv, CallAborts \/ Crash
  PROVE  IInv'
<1>1. /\ at' = "idle" /\ batch' = <<>>
      /\ stranded' = stranded \cup {batch[n] : n \in DOMAIN batch}
      /\ UNCHANGED <<fixed, created, charger, kind, status, result, overdue, wire, executions>>
      /\ online' \subseteq Chargers
  BY DEF CallAborts, Crash, fixed, IInv, TypeOK
<1>2. answer' = "none" /\ said' = "none"
  BY DEF CallAborts, Crash, IInv, WorkerInv
<1>3. (at = "batch" /\ Attempt) \/ UNCHANGED <<attempts, late>>
  BY DEF CallAborts, Crash
<1>4. Ahead' = {}
  BY <1>1 DEF Ahead
<1>5. \A n \in DOMAIN batch : batch[n] \in Ids
  BY BatchRows DEF IInv
<1>6. TypeOK'
  <2>1. attempts' \in [Ids -> 0 .. MaxAttempts] /\ late' \in [Ids -> 0 .. MaxAttempts]
    BY <1>3, AttemptCounts DEF IInv, TypeOK
  <2>2. batch' \in Seq(Ids) /\ stranded' \subseteq Ids
    BY <1>1, <1>5, EmptySeq DEF IInv, TypeOK
  <2> QED
    BY <1>1, <1>2, <2>1, <2>2 DEF IInv, TypeOK
<1>7. RowInv' /\ AttemptsInv' /\ LateInv' /\ SentLateAtMostOnce'
  <2>1. CASE at = "batch" /\ Attempt
    BY <1>1, <1>4, <2>1, AttemptInv
  <2>2. CASE UNCHANGED <<attempts, late>>
    BY <1>1, <1>4, <2>2 DEF IInv, RowInv, AttemptsInv, LateInv, SentLateAtMostOnce
  <2> QED
    BY <1>3, <2>1, <2>2
<1>8. WorkerInv' /\ ResultInv'
  BY <1>1, <1>2 DEF WorkerInv, ResultInv, Answers
<1>9. BatchInv'
  BY <1>1, <1>5 DEF IInv, BatchInv
<1>10. WireInv'
  <2>1. \A i \in Ids : OnWire(i)' = OnWire(i)
    BY <1>1 DEF OnWire
  <2>2. \A i \in Ids : attempts[i] \in Nat /\ attempts'[i] \in Nat /\ attempts[i] <= attempts'[i]
    <3> TAKE i \in Ids
    <3>1. attempts[i] \in Nat
      BY CommandsAssumption DEF IInv, TypeOK
    <3>2. attempts'[i] = attempts[i] \/ attempts'[i] = attempts[i] + 1
      BY <1>3, AttemptCounts
    <3> QED
      BY <3>1, <3>2
  <2>3. \A i \in Ids : executions[i] \in Nat /\ Cardinality(OnWire(i)) \in Nat
    BY OnWireIsFinite DEF IInv, TypeOK
  <2>4. \A i \in Ids : \A n \in OnWire(i) : n \in Nat
    BY CommandsAssumption DEF OnWire
  <2> QED
    BY <1>1, <2>1, <2>2, <2>3, <2>4 DEF IInv, WireInv
<1> QED
  BY <1>6, <1>7, <1>8, <1>9, <1>10 DEF IInv

\* A Call reaches its charger: it is carried out or not, and is on the wire no more.
LEMMA ReachInv ==
  ASSUME IInv, NEW m \in wire,
         CarryOut(m[1], m[2]) \/ Decline(m[1], m[2]) \/ Reject(m[1], m[2])
  PROVE  IInv'
<1> DEFINE i == m[1]
           n == m[2]
<1>1. i \in Ids /\ n \in 1 .. MaxAttempts /\ m = <<i, n>>
  BY DEF IInv, TypeOK
<1>2. wire' = wire \ {<<i, n>>} /\ <<i, n>> \in wire
      /\ UNCHANGED <<created, charger, kind, status, attempts, result, overdue, at, batch,
                     online, stranded, late>>
  BY DEF CarryOut, Decline, Answered, Reject, fixed, history
<1>3. executions' = executions \/ executions' = [executions EXCEPT ![i] = executions[i] + 1]
  BY DEF CarryOut, Decline, Reject, history
<1>4. \/ UNCHANGED <<answer, said>>
      \/ /\ at = "waiting" /\ Head(batch) = i /\ attempts[i] = n
         /\ \/ answer' = "error" /\ said' = said
            \/ /\ said' \in Answers /\ answer' \in {said', answer}
               /\ said' = "Accepted" => executions' # executions
  <2>1. CASE CarryOut(i, n)
    <3>1. executions' = [executions EXCEPT ![i] = executions[i] + 1]
      BY <2>1 DEF CarryOut
    <3>2. executions' # executions
      BY <1>1, <3>1 DEF IInv, TypeOK
    <3> QED
      BY <2>1, <3>2 DEF CarryOut, Answered, IsAwaited, IsCurrent, Answers
  <2>2. CASE Decline(i, n)
    BY <2>2 DEF Decline, Answered, IsAwaited, IsCurrent, Answers
  <2>3. CASE Reject(i, n)
    BY <2>3 DEF Reject, IsAwaited, IsCurrent
  <2> QED
    BY <2>1, <2>2, <2>3
<1> HIDE DEF i, n
<1>5. /\ executions' \in [Ids -> Nat]
      /\ \A j \in Ids : executions[j] \in Nat /\ executions'[j] \in Nat
                         /\ executions'[j] >= executions[j]
  <2>1. \A j \in Ids : executions[j] \in Nat
    BY DEF IInv, TypeOK
  <2>2. \A j \in Ids : executions'[j] = executions[j] \/ executions'[j] = executions[j] + 1
    BY <1>1, <1>3 DEF IInv, TypeOK
  <2>3. executions' \in [Ids -> Nat]
    <3>1. executions \in [Ids -> Nat]
      BY DEF IInv, TypeOK
    <3>2. executions[i] + 1 \in Nat
      BY <1>1, <2>1
    <3> QED
      BY <1>1, <1>3, <3>1, <3>2
  <2> QED
    BY <2>1, <2>2, <2>3
<1>6. TypeOK'
  BY <1>2, <1>4, <1>5 DEF IInv, TypeOK
<1>7. Ahead' = Ahead
  BY <1>2 DEF Ahead
<1>8. WireInv'
  <2>1. OnWire(i)' = OnWire(i) \ {n} /\ n \in OnWire(i)
    BY <1>1, <1>2 DEF OnWire
  <2>2. Cardinality(OnWire(i)') = Cardinality(OnWire(i)) - 1 /\ Cardinality(OnWire(i)) \in Nat
    BY <2>1, OnWireIsFinite, FS_RemoveElement
  <2>3. \A j \in Ids \ {i} : OnWire(j)' = OnWire(j) /\ executions'[j] = executions[j]
    BY <1>2, <1>3 DEF OnWire, IInv, TypeOK
  <2>4. executions'[i] <= executions[i] + 1 /\ executions[i] \in Nat /\ executions'[i] \in Nat
    BY <1>1, <1>3 DEF IInv, TypeOK
  <2>5. executions'[i] + Cardinality(OnWire(i)') <= attempts[i]
    <3>1. executions[i] + Cardinality(OnWire(i)) <= attempts[i] /\ attempts[i] \in Nat
      BY <1>1, CommandsAssumption DEF IInv, WireInv, TypeOK
    <3> QED
      BY <2>2, <2>4, <3>1
  <2> QED
    BY <1>1, <1>2, <2>1, <2>3, <2>5 DEF IInv, WireInv
<1>9. RowInv'
  <2>1. attempts[i] # 0
    <3>1. n \in OnWire(i) /\ n \in Nat \ {0}
      BY <1>1, <1>2, CommandsAssumption DEF OnWire
    <3>2. n <= attempts[i]
      BY <1>1, <3>1 DEF IInv, WireInv
    <3> QED
      BY <3>1, <3>2
  <2>2. \A j \in Ids \ {i} : executions'[j] = executions[j]
    BY <1>3 DEF IInv, TypeOK
  <2> QED
    BY <1>2, <2>1, <2>2 DEF IInv, RowInv
<1>10. WorkerInv' /\ BatchInv' /\ AttemptsInv' /\ LateInv' /\ SentLateAtMostOnce'
  BY <1>2, <1>4, <1>7 DEF IInv, WorkerInv, BatchInv, AttemptsInv, LateInv, SentLateAtMostOnce
<1>11. ResultInv'
  <2>1. CASE UNCHANGED <<answer, said>>
    <3>1. said = "Accepted" => Head(batch) \in Ids
      BY CurrentCommand DEF IInv, WorkerInv
    <3> QED
      BY <1>2, <1>5, <2>1, <3>1 DEF IInv, ResultInv
  <2>2. CASE /\ at = "waiting" /\ Head(batch) = i /\ attempts[i] = n
             /\ \/ answer' = "error" /\ said' = said
                \/ /\ said' \in Answers /\ answer' \in {said', answer}
                   /\ said' = "Accepted" => executions' # executions
    <3>1. executions' # executions => executions'[i] = executions[i] + 1
      BY <1>1, <1>3 DEF IInv, TypeOK
    <3>2. answer = "none" /\ said = "none"
      BY <1>2, <2>2 DEF IInv, ResultInv
    <3>3. executions' # executions => executions'[i] > 0
      BY <1>1, <1>5, <3>1
    <3>4. <<Head(batch'), attempts'[Head(batch')]>> \notin wire'
      BY <1>2, <2>2
    <3> QED
      BY <1>2, <2>2, <3>2, <3>3, <3>4 DEF ResultInv, Answers
  <2> QED
    BY <1>4, <2>1, <2>2
<1> QED
  BY <1>6, <1>8, <1>9, <1>10, <1>11 DEF IInv

\* Connections come and go, and time passes.
LEMMA OutsideInv ==
  ASSUME IInv, UNCHANGED <<fixed, status, attempts, result, worker, wire, history>>,
         overdue \subseteq overdue', overdue' \subseteq Ids, online' \subseteq Chargers
  PROVE  IInv'
<1>1. UNCHANGED <<created, charger, kind, at, batch, answer, said, executions, stranded,
                  late>>
  BY DEF fixed, worker, history
<1>2. Ahead' = Ahead
  BY <1>1 DEF Ahead
<1> QED
  <2>1. TypeOK' /\ RowInv' /\ WorkerInv' /\ BatchInv'
    BY <1>1 DEF IInv, TypeOK, RowInv, WorkerInv, BatchInv
  <2>2. AttemptsInv' /\ LateInv' /\ SentLateAtMostOnce'
    BY <1>1, <1>2 DEF IInv, AttemptsInv, LateInv, SentLateAtMostOnce
  <2>3. WireInv' /\ ResultInv'
    BY <1>1 DEF IInv, WireInv, OnWire, ResultInv
  <2> QED
    BY <2>1, <2>2, <2>3 DEF IInv

\* Every step keeps the invariant.
LEMMA NextIInv == IInv /\ [Next]_vars => IInv'
<1> SUFFICES ASSUME IInv, [Next]_vars PROVE IInv'
  OBVIOUS
<1>1. CASE \E c \in Chargers : (\E k \in Kinds \ {"bootConfig"} : Enqueue(c, k)) \/ Boot(c)
  BY <1>1, InsertInv
<1>2. CASE \E i \in Ids : Delete(i)
  BY <1>2, RowsInv, CommandsAssumption DEF Delete, fixed, worker, IInv, TypeOK
<1>3. CASE ExpirePending
  BY <1>3, RowsInv, CommandsAssumption
     DEF ExpirePending, Expirable, Pending, Terminal, fixed, worker, IInv, TypeOK
<1>4. CASE Claim
  BY <1>4, ClaimInv
<1>5. CASE Refuse \/ PutBack \/ Complete \/ Fail
  <2>1. at \in {"batch", "waiting"}
    BY <1>5 DEF Refuse, PutBack, Complete, Fail
  <2>2. Head(batch) \in Ids /\ attempts[Head(batch)] \in Nat
        /\ (at = "batch" => Head(batch) \in Ahead)
    BY <2>1, CurrentCommand, CommandsAssumption DEF IInv, TypeOK
  <2>3. CASE Refuse
    BY <2>1, <2>3, FinishInv DEF Refuse
  <2>4. CASE PutBack
    <3>1. result[Head(batch)] \in Answers \cup {"none", "error"}
      BY <2>2 DEF IInv, TypeOK
    <3>2. attempts[Head(batch)] < MaxAttempts
      BY <2>2, <2>4 DEF PutBack, IInv, AttemptsInv
    <3> QED
      BY <2>1, <2>4, <3>1, <3>2, FinishInv DEF PutBack
  <2>5. CASE Complete
    BY <2>1, <2>5, FinishInv DEF Complete, IInv, ResultInv
  <2>6. CASE Fail
    BY <2>1, <2>2, <2>6, FinishInv, CommandsAssumption DEF Fail, GivesUp
  <2> QED
    BY <1>5, <2>3, <2>4, <2>5, <2>6
<1>6. CASE Call
  BY <1>6, CallInv
<1>7. CASE CallAborts \/ Crash
  BY <1>7, LostInv
<1>8. CASE \E m \in wire : CarryOut(m[1], m[2]) \/ Decline(m[1], m[2]) \/ Reject(m[1], m[2])
  BY <1>8, ReachInv
<1>9. CASE \E c \in Chargers : GoesOnline(c) \/ GoesOffline(c)
  BY <1>9, OutsideInv DEF GoesOnline, GoesOffline, IInv, TypeOK
<1>10. CASE \E i \in Ids : Expires(i)
  BY <1>10, OutsideInv DEF Expires, IInv, TypeOK
<1>11. CASE UNCHANGED vars
  BY <1>11, OutsideInv DEF vars, IInv, TypeOK
<1> QED
  BY <1>1, <1>2, <1>3, <1>4, <1>5, <1>6, <1>7, <1>8, <1>9, <1>10, <1>11
     DEF Next, Execute, Environment

\* The inductive invariant holds in every state.
THEOREM Invariance == Spec => []IInv
BY InitIInv, NextIInv, PTL DEF Spec

\* Every variable keeps its type: no command is tried more than MaxAttempts times.
THEOREM TypeCorrect == Spec => []TypeOK
<1>1. IInv => TypeOK
  BY DEF IInv
<1> QED
  BY <1>1, Invariance, PTL

\* A charger does nothing more often than MaxAttempts, however answers, timeouts,
\* restarts and lost links fall: every execution is one of the counted attempts.
THEOREM ExecutionsBounded == Spec => []ExecutedAtMostMax
<1>1. IInv => ExecutedAtMostMax
  <2> SUFFICES ASSUME IInv, NEW i \in Ids PROVE executions[i] <= MaxAttempts
    BY DEF ExecutedAtMostMax
  <2>1. executions[i] + Cardinality(OnWire(i)) <= attempts[i]
    BY DEF IInv, WireInv
  <2>2. executions[i] \in Nat /\ attempts[i] \in 0 .. MaxAttempts /\ Cardinality(OnWire(i)) \in Nat
    BY OnWireIsFinite DEF IInv, TypeOK
  <2> QED
    BY <2>1, <2>2, CommandsAssumption
<1> QED
  BY <1>1, Invariance, PTL

\* One Call of a command at most is sent past its expires_at.
THEOREM LateOnce == Spec => []SentLateAtMostOnce
<1>1. IInv => SentLateAtMostOnce
  BY DEF IInv
<1> QED
  BY <1>1, Invariance, PTL

\* A row is SENT because it is in the worker's batch, in one place of it, or
\* because the worker lost it.
THEOREM ClaimedOnce == Spec => []SentIsClaimed
<1>1. IInv => SentIsClaimed
  <2> SUFFICES ASSUME IInv, NEW i \in Ids
               PROVE  Cardinality({n \in DOMAIN batch : batch[n] = i}) =
                        IF status[i] = "SENT" /\ i \notin stranded THEN 1 ELSE 0
    BY DEF SentIsClaimed
  <2> DEFINE places == {n \in DOMAIN batch : batch[n] = i}
  <2>1. CASE status[i] = "SENT" /\ i \notin stranded
    <3>1. PICK n \in DOMAIN batch : batch[n] = i
      BY <2>1 DEF IInv, BatchInv
    <3>2. places = {n}
      BY <3>1 DEF IInv, BatchInv
    <3> QED
      BY <2>1, <3>2, FS_Singleton
  <2>2. CASE ~(status[i] = "SENT" /\ i \notin stranded)
    <3>1. places = {}
      BY <2>2 DEF IInv, BatchInv
    <3> QED
      BY <2>2, <3>1, FS_EmptySet
  <2> QED
    BY <2>1, <2>2
<1> QED
  BY <1>1, Invariance, PTL

-----------------------------------------------------------------------------
\* No step changes a finished row, but for its deletion; only the end of a Call that
\* was answered makes one DONE.
LEMMA TerminalStays ==
  ASSUME IInv, [Next]_vars, NEW i \in Ids
  PROVE  /\ status[i] \in Terminal =>
              \/ status'[i] = "DELETED"
              \/ status'[i] = status[i] /\ result'[i] = result[i]
         /\ status[i] # "DONE" /\ status'[i] = "DONE" =>
              /\ at = "waiting" /\ answer \in Answers
              /\ i = Head(batch) /\ result'[i] = answer
<1>1. status[i] \in Terminal => status[i] \notin {"NONE", "PENDING", "SENT"}
  BY DEF Terminal
<1>2. status[i] # "NONE" => i # created + 1
  BY CommandsAssumption DEF IInv, RowInv, TypeOK, Ids
<1>3. CASE \E c \in Chargers : (\E k \in Kinds : Enqueue(c, k)) \/ Boot(c)
  BY <1>1, <1>2, <1>3 DEF Enqueue, Boot, Insert, ReplacedByBoot, Pending, IInv, TypeOK
<1>4. CASE (\E j \in Ids : Delete(j)) \/ ExpirePending
  BY <1>1, <1>4 DEF Delete, ExpirePending, Expirable, Pending, IInv, TypeOK
<1>5. CASE Claim
  <2>1. i \in FirstRows(Pending, BatchLimit) => status[i] = "PENDING"
    BY DEF FirstRows, Pending
  <2> QED
    BY <1>1, <1>5, <2>1 DEF Claim
<1>6. CASE Refuse \/ PutBack \/ Complete \/ Fail
  <2>1. Head(batch) \in Ids /\ status[Head(batch)] = "SENT"
    BY <1>6, CurrentCommand DEF Refuse, PutBack, Complete, Fail, IInv
  <2> QED
    BY <1>1, <1>6, <2>1 DEF Refuse, PutBack, Complete, Fail, Finish, IInv, TypeOK
<1>7. CASE UNCHANGED <<status, result>>
  BY <1>7
<1>8. CASE Call \/ CallAborts \/ Crash \/ Environment
  BY <1>7, <1>8 DEF Call, CallAborts, Crash, Environment, CarryOut, Decline, Answered, Reject,
                    GoesOnline, GoesOffline, Expires
<1> QED
  BY <1>3, <1>4, <1>5, <1>6, <1>7, <1>8 DEF Next, Execute, vars

\* What the core was told of a finished command stays, whatever boots, expiries,
\* late answers and restarts come.
THEOREM FinishedStays == Spec => TerminalIsFinal
<1>1. IInv /\ [Next]_vars =>
        [\A i \in Ids : status[i] \in Terminal =>
           \/ status'[i] = "DELETED"
           \/ status'[i] = status[i] /\ result'[i] = result[i]]_vars
  BY TerminalStays
<1> QED
  BY <1>1, Invariance, PTL DEF Spec, TerminalIsFinal

\* DONE comes with the charger's own answer to the last Call, accepted or refused,
\* and Accepted only from a charger that has carried the command out.
THEOREM DoneIsAnswered == Spec => DoneAsAnswered
<1>1. IInv /\ [Next]_vars =>
        [\A i \in Ids : status[i] # "DONE" /\ status'[i] = "DONE" =>
           /\ said \in Answers /\ result'[i] = said
           /\ said = "Accepted" => executions[i] > 0]_vars
  <2> SUFFICES ASSUME IInv, [Next]_vars, NEW i \in Ids, status[i] # "DONE", status'[i] = "DONE"
               PROVE  /\ said \in Answers /\ result'[i] = said
                      /\ said = "Accepted" => executions[i] > 0
    OBVIOUS
  <2>1. answer \in Answers /\ i = Head(batch) /\ result'[i] = answer
    BY TerminalStays
  <2> QED
    BY <2>1 DEF IInv, ResultInv
<1> QED
  BY <1>1, Invariance, PTL DEF Spec, DoneAsAnswered
=============================================================================
