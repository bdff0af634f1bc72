------------------------------- MODULE MCBoot -------------------------------
(* A small instance of Boot for TLC. *)
EXTENDS Boot, TLC

CONSTANTS p1, p2, p3

TwoProcesses == {p1, p2}
ThreeProcesses == {p1, p2, p3}
Symmetry == Permutations(Processes)
=============================================================================
