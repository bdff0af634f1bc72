------------------------- MODULE MCRequestPipeline -------------------------
(* A small instance of RequestPipeline for TLC. *)
EXTENDS RequestPipeline, TLC

CONSTANTS r1, r2, t1, w1

TwoRequests == {r1, r2}
OneTable    == {t1}
OneWorker   == {w1}
QuotaBelowOne == -1
=============================================================================
