------------------------------ MODULE MCRedis -------------------------------
(* The two clients of Redis, RateLimiter and SubscriptionGate.  They share no *)
(* key, so each is checked while the other has not begun.                     *)
(*                                                                           *)
(* RateLimiter: two callers that share a key with a limit of two per window  *)
(* of three ticks; three scripts in a tick exceed the limit within one.      *)
(*                                                                           *)
(* SubscriptionGate: two handlers, three ticks of cache and up to two from   *)
(* an answer of Telegram to its SET: an answer can expire while another is   *)
(* in flight.                                                                *)
EXTENDS RateLimiter, SubscriptionGate

CONSTANTS c1, c2, k1, k2

MCCallers == {c1, c2}
MCCheckers == {k1, k2}

\* A caller that has hit once has a phase other than "none" for ever.
LimiterUntouched == \A c \in Callers : call[c] = "none"

GateUntouched == GateInit /\ status = "left"

RedisInit == Init /\ GateInit

RedisNext ==
    \/ Next /\ GateUntouched /\ UNCHANGED gateVars
    \/ GateNext /\ LimiterUntouched /\ UNCHANGED vars

\* Time passes for the limiter, unless it is the gate that is checked.
RedisSpec ==
    /\ RedisInit
    /\ [][RedisNext]_<<vars, gateVars>>
    /\ WF_vars(Tick /\ GateUntouched)
=============================================================================
