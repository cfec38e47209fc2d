--------------------------- MODULE MCBreakerCalls ---------------------------
(* Three tasks share a breaker: enough for a call that was admitted before   *)
(* the trip, one that trips it and one that probes it to overlap.            *)
EXTENDS BreakerCalls

CONSTANTS c1, c2, c3

MCCalls == {c1, c2, c3}
=============================================================================
