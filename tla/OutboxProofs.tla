---------------------------- MODULE OutboxProofs ----------------------------
(***************************************************************************)
(* Proofs about Outbox for every number of events and every batch size:    *)
(* nothing that was committed is lost, the worker's batch is the front of  *)
(* the queue, and the outbox implements EventFeed: the core processes an   *)
(* event after all that was committed before it came into being.           *)
(***************************************************************************)
EXTENDS Outbox, RowOrderProofs

\* The sequence of the table gives out the ids one by one.
DrawnInv == Drawn = 1 .. Cardinality(Drawn)

\* An answer is about the first event of the batch; the core says it has an event
\* only when it has.
AnswerInv ==
  /\ answer # "none" => batch # <<>>
  /\ answer = "ok" => Head(batch) \in seen

\* What was committed when an id was drawn has a lower id, and stays committed.
BeforeInv == \A i \in Drawn : \A j \in before[i] : j < i /\ j \in Committed

\* What was committed before an event of the batch came into being has been
\* settled, or comes before that event in the batch.
FrontInv ==
  \A n \in DOMAIN batch : \A j \in before[batch[n]] :
    j \in seen \cup refused \/ \E m \in DOMAIN batch : m < n /\ batch[m] = j

IInv ==
  TypeOK /\ DrawnInv /\ AnswerInv /\ BeforeInv /\ FrontInv /\ NothingLost /\ BatchIsPending

-----------------------------------------------------------------------------
\* Sets of ids are finite sets of natural numbers.
LEMMA IdsAreFinite ==
  ASSUME NEW S \in SUBSET Ids
  PROVE  S \in SUBSET Nat /\ IsFiniteSet(S) /\ Cardinality(S) \in Nat
<1>1. IsFiniteSet(Ids)
  BY OutboxAssumption, FS_Interval DEF Ids
<1>2. S \in SUBSET Nat
  BY OutboxAssumption DEF Ids
<1>3. IsFiniteSet(S)
  BY <1>1, FS_Subset
<1> QED
  BY <1>2, <1>3, FS_CardinalityType

\* The initial state is a good one.
LEMMA InitIInv == Init => IInv
<1> SUFFICES ASSUME Init PROVE IInv
  OBVIOUS
<1>1. Drawn = {} /\ Committed = {}
  BY DEF Init, Drawn, Committed
<1>2. DrawnInv
  BY <1>1, FS_EmptySet DEF DrawnInv
<1>3. TypeOK
  BY <1>1 DEF Init, TypeOK
<1> QED
  BY <1>1, <1>2, <1>3 DEF IInv, Init, AnswerInv, BeforeInv, FrontInv, NothingLost, BatchIsPending

\* A new event gets the next id, which no event has, and nothing else changes.
LEMMA EmitInv ==
  ASSUME IInv, Emit
  PROVE  IInv'
<1> DEFINE i == Cardinality(Drawn) + 1
<1>0. TypeOK /\ DrawnInv
  BY DEF IInv
<1>1. Cardinality(Drawn) \in Nat
  <2> Drawn \in SUBSET Ids
    BY DEF Drawn
  <2> QED
    BY IdsAreFinite
<1>2. i \in Ids /\ i \notin Drawn
  BY <1>0, <1>1, OutboxAssumption DEF Emit, Ids, DrawnInv
<1>3. status' = [status EXCEPT ![i] = "OPEN"] /\ status[i] = "NONE"
  BY <1>2 DEF Emit, Drawn
<1>4. UNCHANGED <<batch, answer, seen, refused>>
  BY DEF Emit
<1> HIDE DEF i
<1>5. Drawn' = Drawn \cup {i} /\ Committed' = Committed /\ i \notin Committed
  BY <1>0, <1>2, <1>3 DEF TypeOK, Drawn, Committed
<1>6. before' = [j \in Drawn \cup {i} |-> IF j = i THEN Committed ELSE before[j]]
  BY <1>0 DEF Emit, TypeOK, i
<1>7. Committed \subseteq Drawn /\ \A j \in Drawn : j \in Ids /\ j < i
  BY <1>0, <1>1 DEF Committed, Drawn, DrawnInv, i, Ids
<1>8. TypeOK'
  BY <1>0, <1>2, <1>3, <1>4, <1>5, <1>6, <1>7 DEF TypeOK
<1>9. DrawnInv'
  <2>1. Drawn' = 1 .. Cardinality(Drawn) + 1
    BY <1>0, <1>1, <1>5 DEF DrawnInv, i
  <2>2. Cardinality(Drawn') = Cardinality(Drawn) + 1
    BY <1>1, <2>1, FS_Interval
  <2> QED
    BY <2>1, <2>2 DEF DrawnInv
<1>10. BeforeInv'
  BY <1>5, <1>6, <1>7 DEF IInv, BeforeInv
<1>11. NothingLost'
  BY <1>0, <1>2, <1>3, <1>4, <1>5 DEF IInv, NothingLost, TypeOK, Committed
<1>12. \A n \in DOMAIN batch : batch[n] \in Drawn /\ batch[n] # i
  <2>1. \A n \in DOMAIN batch : batch[n] \in Ids /\ status[batch[n]] = "PENDING"
    BY <1>0, LenProperties, ElementOfSeq DEF IInv, BatchIsPending, TypeOK
  <2> QED
    BY <1>3, <2>1 DEF Drawn
<1>13. BatchIsPending'
  BY <1>0, <1>2, <1>3, <1>4, <1>12 DEF IInv, BatchIsPending, TypeOK, Drawn
<1>14. FrontInv'
  BY <1>4, <1>6, <1>12 DEF IInv, FrontInv
<1> QED
  BY <1>4, <1>8, <1>9, <1>10, <1>11, <1>13, <1>14 DEF IInv, AnswerInv

\* A step that changes statuses only keeps the invariant, if each status that changes
\* does so in one of the ways listed here.
LEMMA StatusInv ==
  ASSUME IInv, UNCHANGED <<before, batch, answer, seen, refused>>,
         status' \in [Ids -> {"NONE", "OPEN", "GONE", "PENDING", "DONE", "FAILED", "DELETED"}],
         \A i \in Ids :
           \/ status'[i] = status[i]
           \/ status[i] = "OPEN" /\ status'[i] \in {"PENDING", "GONE"}
           \/ status[i] = "DONE" /\ status'[i] \in {"PENDING", "DELETED"}
  PROVE  IInv'
<1>1. Drawn' = Drawn /\ Committed \subseteq Committed'
  BY DEF Drawn, Committed
<1>2. TypeOK' /\ DrawnInv'
  BY <1>1 DEF IInv, TypeOK, DrawnInv
<1>3. BeforeInv'
  BY <1>1 DEF IInv, BeforeInv
<1>4. FrontInv' /\ AnswerInv'
  BY DEF IInv, FrontInv, AnswerInv
<1>5. NothingLost'
  BY DEF IInv, NothingLost, Committed
<1>6. BatchIsPending'
  <2>1. \A n \in DOMAIN batch : batch[n] \in Ids
    BY LenProperties, ElementOfSeq DEF IInv, TypeOK
  <2> QED
    BY <2>1 DEF IInv, BatchIsPending
<1> QED
  BY <1>2, <1>3, <1>4, <1>5, <1>6 DEF IInv

\* A batch is dropped: with nothing in work there is nothing to keep.
LEMMA DropInv ==
  ASSUME IInv, batch' = <<>>, answer' = "none", UNCHANGED <<before, seen, refused>>,
         \/ status' = status
         \/ status' = [i \in Ids |-> IF status[i] = "OPEN" THEN "GONE" ELSE status[i]]
  PROVE  IInv'
<1>1. Drawn' = Drawn /\ Committed' = Committed
  BY DEF Drawn, Committed, IInv, TypeOK
<1>2. TypeOK' /\ DrawnInv'
  BY <1>1 DEF IInv, TypeOK, DrawnInv
<1>3. BeforeInv' /\ NothingLost'
  BY <1>1 DEF IInv, BeforeInv, NothingLost, TypeOK, Committed
<1> QED
  BY <1>2, <1>3 DEF IInv, FrontInv, AnswerInv, BatchIsPending

\* A batch is the front of the queue in id order, so that everything committed
\* before one of its events is settled or comes earlier in it.
LEMMA FetchInv ==
  ASSUME IInv, Fetch
  PROVE  IInv'
<1> DEFINE rows == FirstRows(Pending, Batch)
<1>1. batch' = InOrder(rows) /\ UNCHANGED <<status, before, answer, seen, refused>> /\ batch = <<>>
  BY DEF Fetch
<1>2. Pending \in SUBSET Nat /\ IsFiniteSet(Pending) /\ Pending \subseteq Ids
  <2> Pending \in SUBSET Ids
    BY DEF Pending
  <2> QED
    BY IdsAreFinite
<1>3. rows \subseteq Pending /\ IsFiniteSet(rows) /\ Cardinality(rows) \in Nat
  BY <1>2, FirstRowsFinite, OutboxAssumption
<1>4. rows \in SUBSET Nat
  BY <1>2, <1>3
<1> HIDE DEF rows
<1>5. /\ batch' \in Seq(rows) /\ DOMAIN batch' = 1 .. Cardinality(rows)
      /\ \A n \in DOMAIN batch' : batch'[n] \in rows
  BY <1>1, <1>3, <1>4, InOrderRows
<1>6. \A n, m \in DOMAIN batch' : n < m => batch'[n] < batch'[m]
  BY <1>1, <1>3, <1>4, <1>5, InOrderGrows
<1>7. TypeOK'
  <2>1. batch' \in Seq(Ids)
    BY <1>2, <1>3, <1>5, SeqMonotonic
  <2>2. Drawn' = Drawn
    BY <1>1 DEF Drawn
  <2> QED
    BY <1>1, <2>1, <2>2 DEF IInv, TypeOK
<1>8. BatchIsPending'
  BY <1>1, <1>3, <1>5, <1>6 DEF BatchIsPending, Pending
<1>9. FrontInv'
  <2> SUFFICES ASSUME NEW n \in DOMAIN batch', NEW j \in before[batch'[n]],
                      j \notin seen \cup refused
               PROVE  \E m \in DOMAIN batch' : m < n /\ batch'[m] = j
    BY <1>1 DEF FrontInv
  <2> DEFINE i == batch'[n]
  <2>1. i \in rows /\ i \in Pending /\ i \in Drawn
    BY <1>3, <1>5 DEF Pending, Drawn
  <2>2. j < i /\ j \in Pending
    BY <2>1 DEF IInv, BeforeInv, NothingLost, Committed, Pending
  <2>3. j \in rows
    BY <1>2, <2>1, <2>2, FirstRowsDownward, OutboxAssumption DEF rows
  <2>4. PICK m \in DOMAIN batch' : batch'[m] = j
    BY <1>1, <1>3, <1>4, <1>5, <2>3, InOrderAll
  <2>5. n \in Nat /\ m \in Nat
    BY <1>3, <1>5
  <2>6. i \in Nat /\ j \in Nat
    BY <1>4, <2>1, <2>3
  <2>7. ~(n < m) /\ n # m
    BY <1>6, <2>2, <2>4, <2>6
  <2> QED
    BY <2>4, <2>5, <2>7
<1>10. AnswerInv'
  BY <1>1 DEF IInv, AnswerInv
<1>11. DrawnInv' /\ BeforeInv' /\ NothingLost'
  BY <1>1 DEF IInv, DrawnInv, BeforeInv, NothingLost, Drawn, Committed
<1> QED
  BY <1>7, <1>8, <1>9, <1>10, <1>11 DEF IInv

\* The core learns of the first event of the batch at most.
LEMMA PostInv ==
  ASSUME IInv, Post
  PROVE  IInv'
<1>1. /\ UNCHANGED <<status, before, batch, refused>> /\ batch # <<>> /\ seen \subseteq seen'
      /\ seen' \subseteq seen \cup {Head(batch)}
      /\ answer' \in {"ok", "rejected", "unreachable", "error"}
      /\ answer' = "ok" => Head(batch) \in seen'
  BY DEF Post
<1>2. Head(batch) \in Ids
  BY <1>1, HeadAndTail DEF IInv, TypeOK
<1>3. TypeOK' /\ DrawnInv' /\ BeforeInv'
  BY <1>1, <1>2 DEF IInv, TypeOK, DrawnInv, BeforeInv, Drawn, Committed
<1>4. FrontInv' /\ NothingLost' /\ BatchIsPending'
  BY <1>1 DEF IInv, FrontInv, NothingLost, BatchIsPending, Committed
<1> QED
  BY <1>1, <1>3, <1>4 DEF IInv, AnswerInv

\* The first event of the batch is settled as the core answered, and the others
\* move up.
LEMMA SettleInv ==
  ASSUME IInv, batch # <<>>, batch' = Tail(batch), answer' = "none", UNCHANGED <<before, seen>>,
         \/ status' = [status EXCEPT ![Head(batch)] = "DONE"] /\ refused' = refused
            /\ Head(batch) \in seen
         \/ status' = [status EXCEPT ![Head(batch)] = "FAILED"]
            /\ refused' = refused \cup {Head(batch)}
  PROVE  IInv'
<1> DEFINE i == Head(batch)
<1>1. /\ DOMAIN batch = 1 .. Len(batch) /\ Len(batch) \in Nat \ {0} /\ 1 \in DOMAIN batch
      /\ i = batch[1] /\ i \in Ids
      /\ Tail(batch) \in Seq(Ids) /\ DOMAIN Tail(batch) = 1 .. Len(batch) - 1
      /\ \A n \in DOMAIN Tail(batch) : n + 1 \in DOMAIN batch /\ Tail(batch)[n] = batch[n + 1]
  BY HeadAndTail DEF IInv, TypeOK
<1>2. status[i] = "PENDING"
  BY <1>1 DEF IInv, BatchIsPending
<1>3. Drawn' = Drawn /\ Committed' = Committed
  BY <1>1, <1>2 DEF IInv, TypeOK, Drawn, Committed
<1>4. TypeOK' /\ DrawnInv' /\ BeforeInv'
  BY <1>1, <1>3 DEF IInv, TypeOK, DrawnInv, BeforeInv
<1>5. NothingLost'
  BY <1>1, <1>3 DEF IInv, TypeOK, NothingLost, Committed
<1>6. \A n \in DOMAIN batch' : n \in Nat /\ batch'[n] \in Ids /\ batch[1] < batch[n + 1]
  <2> SUFFICES ASSUME NEW n \in DOMAIN batch'
               PROVE  n \in Nat /\ batch'[n] \in Ids /\ batch[1] < batch[n + 1]
    OBVIOUS
  <2>1. n \in Nat /\ 1 < n + 1 /\ n + 1 \in DOMAIN batch /\ batch'[n] = batch[n + 1]
    BY <1>1
  <2>2. batch[n + 1] \in Ids
    BY <1>1, <2>1, ElementOfSeq DEF IInv, TypeOK
  <2> QED
    BY <1>1, <2>1, <2>2 DEF IInv, BatchIsPending
<1>7. BatchIsPending'
  <2>1. \A n \in DOMAIN batch' : status'[batch'[n]] = "PENDING"
    <3> TAKE n \in DOMAIN batch'
    <3>1. batch'[n] = batch[n + 1] /\ n + 1 \in DOMAIN batch /\ batch'[n] \in Ids /\ batch'[n] # i
      BY <1>1, <1>6 DEF Ids
    <3> QED
      BY <3>1 DEF IInv, BatchIsPending, TypeOK
  <2>2. \A n, m \in DOMAIN batch' : n < m => batch'[n] < batch'[m]
    BY <1>1, <1>6 DEF IInv, BatchIsPending
  <2> QED
    BY <2>1, <2>2 DEF BatchIsPending
<1>8. i \in seen' \cup refused'
  OBVIOUS
<1>9. FrontInv'
  <2> SUFFICES ASSUME NEW n \in DOMAIN batch', NEW j \in before[batch'[n]],
                      j \notin seen' \cup refused'
               PROVE  \E m \in DOMAIN batch' : m < n /\ batch'[m] = j
    BY DEF FrontInv
  <2>1. n \in Nat /\ n + 1 \in DOMAIN batch /\ batch'[n] = batch[n + 1]
    BY <1>1, <1>6
  <2>2. j \notin seen \cup refused
    OBVIOUS
  <2>3. PICK m \in DOMAIN batch : m < n + 1 /\ batch[m] = j
    BY <2>1, <2>2 DEF IInv, FrontInv
  <2>4. m # 1
    BY <1>1, <1>8, <2>3
  <2>5. m - 1 \in DOMAIN batch' /\ m - 1 < n
    BY <1>1, <2>1, <2>3, <2>4
  <2>6. batch'[m - 1] = batch[m]
    BY <1>1, <2>5
  <2> QED
    BY <2>3, <2>5, <2>6
<1> QED
  BY <1>4, <1>5, <1>7, <1>9 DEF IInv, AnswerInv

\* Every step keeps the invariant.
LEMMA NextIInv == IInv /\ [Next]_vars => IInv'
<1> SUFFICES ASSUME IInv, [Next]_vars PROVE IInv'
  OBVIOUS
<1>1. CASE Emit
  BY <1>1, EmitInv
<1>2. CASE \E i \in Ids : Commit(i) \/ Rollback(i) \/ Replay(i) \/ Delete(i)
  BY <1>2, StatusInv DEF Commit, Rollback, Replay, Replayed, Delete, Deletable, IInv, TypeOK
<1>3. CASE Fetch
  BY <1>3, FetchInv
<1>4. CASE Post
  BY <1>4, PostInv
<1>5. CASE SettleDone \/ SettleFailed
  BY <1>5, SettleInv DEF SettleDone, SettleFailed, IsTaken, IInv, AnswerInv
<1>6. CASE Retry \/ BatchAborts \/ Crash
  BY <1>6, DropInv DEF Retry, AfterError, BatchAborts, Crash
<1>7. CASE UNCHANGED vars
  BY <1>7, StatusInv DEF vars, IInv, TypeOK
<1> QED
  BY <1>1, <1>2, <1>3, <1>4, <1>5, <1>6, <1>7 DEF Next

\* The inductive invariant holds in every state.
THEOREM Invariance == Spec => []IInv
BY InitIInv, NextIInv, PTL DEF Spec

\* Every variable keeps its type; an event has a history as soon as it has an id.
THEOREM TypeCorrect == Spec => []TypeOK
<1>1. IInv => TypeOK
  BY DEF IInv
<1> QED
  BY <1>1, Invariance, PTL

\* No restart, replay, deletion or order of commits takes a committed event from
\* the queue that the core has neither processed nor refused.
THEOREM NothingIsLost == Spec => []NothingLost
<1>1. IInv => NothingLost
  BY DEF IInv
<1> QED
  BY <1>1, Invariance, PTL

\* The worker's batch consists of PENDING rows in id order.
THEOREM BatchIsFront == Spec => []BatchIsPending
<1>1. IInv => BatchIsPending
  BY DEF IInv
<1> QED
  BY <1>1, Invariance, PTL

-----------------------------------------------------------------------------
\* The first event of the batch may be fed or refused: its past is settled.
LEMMA HeadInTurn ==
  ASSUME IInv, batch # <<>>
  PROVE  Head(batch) \in Ids /\ Feed!InTurn(Head(batch))
<1>1. Head(batch) = batch[1] /\ 1 \in DOMAIN batch /\ Head(batch) \in Ids
      /\ DOMAIN batch = 1 .. Len(batch) /\ Len(batch) \in Nat
  BY HeadAndTail DEF IInv, TypeOK
<1>2. Head(batch) \in DOMAIN before
  BY <1>1 DEF IInv, BatchIsPending, TypeOK, Drawn
<1>3. \A m \in DOMAIN batch : ~(m < 1)
  BY <1>1
<1>4. before[Head(batch)] \subseteq seen \cup refused
  BY <1>1, <1>3 DEF IInv, FrontInv
<1> QED
  BY <1>1, <1>2, <1>4 DEF Feed!InTurn

\* Every step of the outbox is a step of the feed, or none.
LEMMA StepFeeds == IInv /\ [Next]_vars => [Feed!Next]_(Feed!vars)
<1> SUFFICES ASSUME IInv, [Next]_vars PROVE [Feed!Next]_(Feed!vars)
  OBVIOUS
<1>1. CASE Emit
  <2> DEFINE i == Cardinality(Drawn) + 1
  <2>1. Cardinality(Drawn) \in Nat
    <3> Drawn \in SUBSET Ids
      BY DEF Drawn
    <3> QED
      BY IdsAreFinite
  <2>2. i \in Ids /\ i \notin DOMAIN before
    BY <1>1, <2>1, OutboxAssumption DEF Emit, Ids, IInv, DrawnInv, TypeOK
  <2>3. Committed \in SUBSET Ids /\ Committed \subseteq DOMAIN before
    BY DEF Committed, Drawn, IInv, TypeOK
  <2>4. Feed!Emit(i, Committed)
    BY <1>1, <2>2, <2>3 DEF Emit, Feed!Emit
  <2> QED
    BY <2>2, <2>3, <2>4 DEF Feed!Next
<1>2. CASE Post
  <2>1. seen' = seen \/ seen' = seen \cup {Head(batch)}
    BY <1>2 DEF Post
  <2>2. CASE seen' = seen
    BY <1>2, <2>2 DEF Post, Feed!vars
  <2>3. CASE seen' # seen
    <3>1. Head(batch) \in Ids /\ Feed!InTurn(Head(batch))
      BY <1>2, HeadInTurn DEF Post
    <3>2. Feed!Feed(Head(batch))
      BY <1>2, <2>1, <2>3, <3>1 DEF Post, Feed!Feed
    <3> QED
      BY <3>1, <3>2 DEF Feed!Next
  <2> QED
    BY <2>2, <2>3
<1>3. CASE SettleFailed
  <2>1. Head(batch) \in Ids /\ Feed!InTurn(Head(batch))
    BY <1>3, HeadInTurn DEF SettleFailed, IInv, AnswerInv
  <2>2. Feed!Refuse(Head(batch))
    BY <1>3, <2>1 DEF SettleFailed, Feed!Refuse
  <2> QED
    BY <2>1, <2>2 DEF Feed!Next
<1>4. CASE UNCHANGED <<before, seen, refused>>
  BY <1>4 DEF Feed!vars
<1>5. CASE Fetch \/ SettleDone \/ Retry \/ BatchAborts \/ Crash
  BY <1>4, <1>5 DEF Fetch, SettleDone, Retry, BatchAborts, Crash
<1>6. CASE \E i \in Ids : Commit(i) \/ Rollback(i) \/ Replay(i) \/ Delete(i)
  BY <1>4, <1>6 DEF Commit, Rollback, Replay, Delete
<1> QED
  BY <1>1, <1>2, <1>3, <1>4, <1>5, <1>6 DEF Next, vars

\* The outbox implements the feed: whatever restarts, failures and late commits
\* there are, the core processes an event after all that had been committed when
\* its id was drawn, except what it refused.
THEOREM OutboxFeeds == Spec => FeedSpec
<1>1. Init => Feed!Init
  BY DEF Init, Feed!Init
<1> QED
  BY <1>1, StepFeeds, Invariance, PTL DEF Spec, FeedSpec, Feed!Spec
=============================================================================
