--------------------------- MODULE MCBreakerProbes ---------------------------
(* Three tasks, as in MCBreakerCalls: two that trip the breaker, and one that *)
(* was admitted before or that comes beside the probe.                        *)
EXTENDS BreakerProbes

CONSTANTS c1, c2, c3

MCCalls == {c1, c2, c3}
=============================================================================
