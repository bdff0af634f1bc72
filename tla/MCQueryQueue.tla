---------------------------- MODULE MCQueryQueue ----------------------------
(* A small instance of QueryQueue for TLC. *)
EXTENDS QueryQueue, TLC

CONSTANTS r1, r2, r3, t1, t2, k1, w1, w2

ThreeRequests == {r1, r2, r3}
TwoTables     == {t1, t2}
OneToken      == {k1}
TwoWorkers    == {w1, w2}

\* The third caller at once meets the quota.
QuotaOfTwo == k1 :> 2

WarmOne == <<t1>>

Symmetry == Permutations(Requests) \cup Permutations(Workers)
=============================================================================
