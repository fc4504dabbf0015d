------------------------------ MODULE RowOrder ------------------------------
(***************************************************************************)
(* What the query of a worker returns: ORDER BY ... LIMIT ..., of rows     *)
(* that are numbered by the column they are ordered by.                    *)
(***************************************************************************)
EXTENDS Naturals, Sequences, FiniteSets

Rank(i, S) == Cardinality({j \in S : j < i})

\* LIMIT: the first rows of S.
FirstRows(S, limit) == {i \in S : Rank(i, S) < limit}

\* ORDER BY: the rows of S, as the list the worker goes through.
InOrder(S) == [n \in 1 .. Cardinality(S) |-> CHOOSE i \in S : Rank(i, S) = n - 1]
=============================================================================
