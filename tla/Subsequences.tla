---------------------------- MODULE Subsequences ----------------------------
(***************************************************************************)
(* Subsequences by the indices that are kept.  It is what SelectSeq gives, *)
(* in a form that is not recursive.                                        *)
(***************************************************************************)
EXTENDS Naturals, FiniteSets

\* How many of the numbers in K are up to k, and which of them is the m-th.
Rank(K, k) == Cardinality({l \in K : l <= k})

Nth(K, m) == CHOOSE k \in K : Rank(K, k) = m

\* The entries of s at the indices in K, in the same order.
Picked(s, K) == [m \in 1 .. Cardinality(K) |-> s[Nth(K, m)]]
=============================================================================
