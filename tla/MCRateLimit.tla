---------------------------- MODULE MCRateLimit ----------------------------
(* Small instances of RateLimit for TLC: a minute of two ticks, an hour of   *)
(* three, and counters that outlive them by one tick.                       *)
EXTENDS RateLimit, TLC

CONSTANTS r1, r2, r3

ThreeRequests == {r1, r2, r3}
Lengths == <<2, 3>>
TTLs    == <<3, 4>>

\* A user with a tight minute within a looser hour, one without an hour limit,
\* who is not configured, and an admin without one, who is.
AllProfiles ==
  {[admin |-> FALSE, limit |-> <<1, 2>>], [admin |-> FALSE, limit |-> <<1, 0>>],
   [admin |-> TRUE, limit |-> <<1, -1>>]}

Symmetry == Permutations(Requests)
=============================================================================
