---------------------------- MODULE Subsequences ----------------------------
(***************************************************************************)
(* The elements of a sequence at some of its positions, in their order.    *)
(*                                                                         *)
(* It is what SelectSeq computes, by counting instead of by recursion, so  *)
(* that proofs can use the library's theorems on cardinality.              *)
(***************************************************************************)
EXTENDS Naturals, FiniteSets

\* The how-manieth element of S is i, and which is the n-th
Rank(S, i) == Cardinality({j \in S : j <= i})
Nth(S, n) == CHOOSE i \in S : Rank(S, i) = n

\* The elements of s at the positions S
Picked(s, S) == [n \in 1..Cardinality(S) |-> s[Nth(S, n)]]
=============================================================================
