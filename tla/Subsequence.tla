---------------------------- MODULE Subsequence ----------------------------
(***************************************************************************)
(* What an erase loop leaves of a vector: the elements at the positions it *)
(* keeps, in their order (m_Mails and m_Warns, and the rows of a DELETE).  *)
(* What SelectSeq says of a test, by positions: two sequences that agree   *)
(* on what the test looks at keep the same of them.                        *)
(***************************************************************************)
EXTENDS Integers, FiniteSets

\* The i-th of the positions K is the one with i of them up to it.
Nth(K, i) == CHOOSE k \in K : Cardinality({j \in K : j <= k}) = i

Kept(s, K) == [i \in 1..Cardinality(K) |-> s[Nth(K, i)]]
=============================================================================
