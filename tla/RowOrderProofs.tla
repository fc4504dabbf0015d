--------------------------- MODULE RowOrderProofs ---------------------------
(***************************************************************************)
(* What the operators of RowOrder return, for every finite set of natural  *)
(* numbers: a rank is a number below the size of the set, grows with the   *)
(* row and is taken by one row; the list of the rows has each of them      *)
(* once, in order; the first rows are closed downwards.                    *)
(***************************************************************************)
EXTENDS RowOrder, FiniteSetTheorems, SequenceTheorems, TLAPS

\* The rows before one are a finite set.
LEMMA RowsBefore ==
  ASSUME NEW S \in SUBSET Nat, IsFiniteSet(S), NEW i \in Nat
  PROVE  IsFiniteSet({j \in S : j < i}) /\ Rank(i, S) \in Nat
<1>1. {j \in S : j < i} \in SUBSET S
  OBVIOUS
<1>2. IsFiniteSet({j \in S : j < i})
  BY <1>1, FS_Subset
<1> QED
  BY <1>2, FS_CardinalityType DEF Rank

\* A later row has a higher rank.
LEMMA RankGrows ==
  ASSUME NEW S \in SUBSET Nat, IsFiniteSet(S), NEW i \in S, NEW j \in Nat, i < j
  PROVE  Rank(i, S) < Rank(j, S)
<1> DEFINE before(k) == {m \in S : m < k}
<1>1. IsFiniteSet(before(i)) /\ IsFiniteSet(before(j))
  BY RowsBefore
<1>2. i \notin before(i)
  OBVIOUS
<1>3. Cardinality(before(i) \cup {i}) = Cardinality(before(i)) + 1
  BY <1>1, <1>2, FS_AddElement
<1>4. before(i) \cup {i} \in SUBSET before(j)
  <2>1. \A m \in S : m < i => m < j
    OBVIOUS
  <2> QED
    BY <2>1
<1>5. Cardinality(before(i) \cup {i}) <= Cardinality(before(j))
  BY <1>1, <1>4, FS_Subset
<1>6. Cardinality(before(i)) \in Nat /\ Cardinality(before(j)) \in Nat
  BY <1>1, FS_CardinalityType
<1> QED
  BY <1>3, <1>5, <1>6 DEF Rank

\* The rank of a row is below the size of the set.
LEMMA RankBound ==
  ASSUME NEW S \in SUBSET Nat, IsFiniteSet(S), NEW i \in S
  PROVE  Rank(i, S) \in 0 .. Cardinality(S) - 1
<1> DEFINE before == {m \in S : m < i}
<1>1. IsFiniteSet(before) /\ Rank(i, S) \in Nat
  BY RowsBefore
<1>2. before \in SUBSET S /\ i \notin before
  OBVIOUS
<1>3. Cardinality(before) <= Cardinality(S) /\ Cardinality(before) # Cardinality(S)
  BY <1>2, FS_Subset
<1>4. Cardinality(S) \in Nat
  BY FS_CardinalityType
<1> QED
  BY <1>1, <1>3, <1>4 DEF Rank

\* Each rank is taken: no row of the result is left without a value.
LEMMA RankTaken ==
  ASSUME NEW S \in SUBSET Nat, IsFiniteSet(S), NEW n \in 1 .. Cardinality(S)
  PROVE  \E i \in S : Rank(i, S) = n - 1
<1> DEFINE f == [i \in S |-> Rank(i, S)]
           T == 0 .. Cardinality(S) - 1
<1>1. Cardinality(S) \in Nat
  BY FS_CardinalityType
<1>2. IsFiniteSet(T) /\ Cardinality(T) = Cardinality(S)
  <2> Cardinality(S) - 1 \in Int
    BY <1>1
  <2> /\ IsFiniteSet(T)
      /\ Cardinality(T) = IF 0 > Cardinality(S) - 1 THEN 0 ELSE Cardinality(S) - 1 - 0 + 1
    BY FS_Interval
  <2> QED
    BY <1>1
<1>3. f \in [S -> T]
  BY RankBound
<1>4. \A i, j \in S : i # j => f[i] # f[j]
  <2> SUFFICES ASSUME NEW i \in S, NEW j \in S, i < j PROVE Rank(i, S) # Rank(j, S)
    OBVIOUS
  <2>1. Rank(i, S) < Rank(j, S)
    BY RankGrows
  <2>2. Rank(i, S) \in Nat /\ Rank(j, S) \in Nat
    BY RowsBefore
  <2> QED
    BY <2>1, <2>2
<1>5. f \in Injection(S, T)
  BY <1>3, <1>4 DEF Injection, IsInjective
<1>6. f \in Surjection(S, T)
  BY <1>2, <1>5, FS_Injection
<1>7. \A t \in T : \E i \in S : f[i] = t
  BY <1>6 DEF Surjection
<1> QED
  BY <1>1, <1>7

\* The list holds rows of the set, each at the place of its rank.
LEMMA InOrderRows ==
  ASSUME NEW S \in SUBSET Nat, IsFiniteSet(S)
  PROVE  /\ InOrder(S) \in Seq(S)
         /\ Len(InOrder(S)) = Cardinality(S)
         /\ DOMAIN InOrder(S) = 1 .. Cardinality(S)
         /\ \A n \in 1 .. Cardinality(S) : InOrder(S)[n] \in S /\ Rank(InOrder(S)[n], S) = n - 1
<1>1. \A n \in 1 .. Cardinality(S) : InOrder(S)[n] \in S /\ Rank(InOrder(S)[n], S) = n - 1
  BY RankTaken DEF InOrder
<1>2. Cardinality(S) \in Nat
  BY FS_CardinalityType
<1>3. InOrder(S) \in [1 .. Cardinality(S) -> S]
  BY <1>1 DEF InOrder
<1>4. InOrder(S) \in Seq(S)
  BY <1>2, <1>3, SeqDef
<1> QED
  BY <1>1, <1>2, <1>3, <1>4, LenProperties

\* The list is in the order of the rows.
LEMMA InOrderGrows ==
  ASSUME NEW S \in SUBSET Nat, IsFiniteSet(S),
         NEW n \in 1 .. Cardinality(S), NEW m \in 1 .. Cardinality(S), n < m
  PROVE  InOrder(S)[n] < InOrder(S)[m]
<1> DEFINE i == InOrder(S)[n]
           j == InOrder(S)[m]
<1>1. i \in S /\ j \in S /\ Rank(i, S) = n - 1 /\ Rank(j, S) = m - 1
  BY InOrderRows
<1> HIDE DEF i, j
<1>2. ~(j < i)
  <2> SUFFICES ASSUME j < i PROVE FALSE
    OBVIOUS
  <2>1. Rank(j, S) < Rank(i, S)
    BY <1>1, RankGrows
  <2> QED
    BY <1>1, <2>1
<1>3. i # j
  BY <1>1
<1>4. i \in Nat /\ j \in Nat
  BY <1>1
<1> QED
  BY <1>2, <1>3, <1>4 DEF i, j

\* The list has every row.
LEMMA InOrderAll ==
  ASSUME NEW S \in SUBSET Nat, IsFiniteSet(S), NEW i \in S
  PROVE  \E n \in 1 .. Cardinality(S) : InOrder(S)[n] = i
<1> DEFINE n == Rank(i, S) + 1
           j == InOrder(S)[n]
<1>1. Rank(i, S) \in 0 .. Cardinality(S) - 1 /\ Cardinality(S) \in Nat
  BY RankBound, FS_CardinalityType
<1>2. n \in 1 .. Cardinality(S)
  BY <1>1
<1>3. j \in S /\ Rank(j, S) = Rank(i, S)
  BY <1>1, <1>2, InOrderRows
<1> HIDE DEF n, j
<1>4. i \in Nat /\ j \in Nat /\ Rank(i, S) \in Nat
  BY <1>1, <1>3
<1>5. ~(i < j) /\ ~(j < i)
  <2>1. i < j => Rank(i, S) < Rank(j, S)
    BY <1>3, <1>4, RankGrows
  <2>2. j < i => Rank(j, S) < Rank(i, S)
    BY <1>3, <1>4, RankGrows
  <2> QED
    BY <1>3, <1>4, <2>1, <2>2
<1>6. i = j
  BY <1>4, <1>5
<1> QED
  BY <1>2, <1>6 DEF j

\* Whatever comes before one of the first rows is one of them.
LEMMA FirstRowsDownward ==
  ASSUME NEW S \in SUBSET Nat, IsFiniteSet(S), NEW limit \in Nat,
         NEW i \in FirstRows(S, limit), NEW j \in S, j < i
  PROVE  j \in FirstRows(S, limit)
<1>1. Rank(j, S) < Rank(i, S) /\ Rank(i, S) < limit
  BY RankGrows DEF FirstRows
<1>2. Rank(i, S) \in Nat /\ Rank(j, S) \in Nat
  BY RowsBefore DEF FirstRows
<1> QED
  BY <1>1, <1>2 DEF FirstRows

\* The first rows are rows of the set, and finitely many.
LEMMA FirstRowsFinite ==
  ASSUME NEW S \in SUBSET Nat, IsFiniteSet(S), NEW limit \in Nat
  PROVE  /\ FirstRows(S, limit) \subseteq S
         /\ IsFiniteSet(FirstRows(S, limit))
         /\ Cardinality(FirstRows(S, limit)) \in Nat
<1>1. FirstRows(S, limit) \in SUBSET S
  BY DEF FirstRows
<1> QED
  BY <1>1, FS_Subset, FS_CardinalityType

\* A worker that takes the first of a list and keeps the rest.
LEMMA HeadAndTail ==
  ASSUME NEW T, NEW s \in Seq(T), s # <<>>
  PROVE  /\ Len(s) \in Nat \ {0} /\ DOMAIN s = 1 .. Len(s) /\ 1 \in DOMAIN s
         /\ Head(s) = s[1] /\ Head(s) \in T
         /\ Tail(s) \in Seq(T) /\ DOMAIN Tail(s) = 1 .. Len(s) - 1
         /\ \A n \in DOMAIN Tail(s) : n + 1 \in DOMAIN s /\ Tail(s)[n] = s[n + 1]
<1>1. Len(s) \in Nat \ {0} /\ DOMAIN s = 1 .. Len(s)
  BY EmptySeq, LenProperties
<1>2. Head(s) = s[1] /\ Head(s) \in T
  BY HeadTailProperties
<1>3. /\ Tail(s) \in Seq(T) /\ Len(Tail(s)) = Len(s) - 1
      /\ \A n \in 1 .. Len(Tail(s)) : Tail(s)[n] = s[n + 1]
  BY HeadTailProperties
<1>4. DOMAIN Tail(s) = 1 .. Len(s) - 1
  BY <1>3, LenProperties
<1> QED
  BY <1>1, <1>2, <1>3, <1>4
=============================================================================
