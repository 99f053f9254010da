---------------------------- MODULE Subsequences ----------------------------
(***************************************************************************)
(* The elements of a sequence at some of its positions, in order: what Go  *)
(* code builds with a loop that appends the elements passing a test.       *)
(* Defined without recursion, so that its properties can be proved.        *)
(***************************************************************************)
EXTENDS Naturals, Sequences, FiniteSets

Rank(K, k) == Cardinality({j \in K : j <= k})

(* The n-th smallest element of a set of naturals. *)
Nth(K, n) == CHOOSE k \in K : Rank(K, k) = n

Subsequence(s, K) == [n \in 1..Cardinality(K) |-> s[Nth(K, n)]]
=============================================================================
