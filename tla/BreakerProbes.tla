---------------------------- MODULE BreakerProbes ----------------------------
(***************************************************************************)
(* BreakerCalls beside what the docstring of circuit_breaker.py says of    *)
(* the states "open" and "half_open".  `probes` is a history variable: the *)
(* running calls that were admitted while the breaker is half open.        *)
(***************************************************************************)
EXTENDS BreakerCalls, FiniteSets

VARIABLE probes

probeVars == <<vars, probes>>

ProbesInit ==
    /\ Init
    /\ probes = {}

\* A call that starts when the breaker is, or becomes, half open joins them; one
\* that ends leaves them; none is left when the breaker opens or closes.
ProbesNext ==
    /\ Next
    /\ probes' = IF state' = "half_open"
                 THEN (probes \cup (Running' \ Running)) \cap Running'
                 ELSE {}

ProbesSpec == ProbesInit /\ [][ProbesNext]_probeVars

-----------------------------------------------------------------------------

(* "half_open -- a single probe call is allowed" (circuit_breaker.py:12): no
   call starts on a half-open breaker while the probe is under way. *)
SingleProbe == Cardinality(probes) <= 1

(* "open -- failure threshold exceeded; calls are refused for reset_timeout
   seconds" (circuit_breaker.py:10): nothing ends that time early. *)
RefusedForTimeout ==
    [][state = "open" /\ elapsed < ResetTimeout => state' = "open"]_probeVars

=============================================================================
