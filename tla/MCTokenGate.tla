----------------------------- MODULE MCTokenGate -----------------------------
(* Small instances of TokenGate for TLC. *)
EXTENDS TokenGate, TLC

CONSTANTS r1, r2, r3

TwoRequests   == {r1, r2}
ThreeRequests == {r1, r2, r3}
OneOrTwo == {1, 2}
Symmetry == Permutations(Requests)
=============================================================================
