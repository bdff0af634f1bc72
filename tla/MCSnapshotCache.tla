-------------------------- MODULE MCSnapshotCache --------------------------
(* A small instance of SnapshotCache for TLC. *)
EXTENDS SnapshotCache, TLC

CONSTANTS t1, t2, t3

TwoThreads   == {t1, t2}
ThreeThreads == {t1, t2, t3}
Symmetry == Permutations(Threads)
=============================================================================
