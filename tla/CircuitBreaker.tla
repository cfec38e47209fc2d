--------------------------- MODULE CircuitBreaker ---------------------------
(***************************************************************************)
(* The state of helpers_core.http.circuit_breaker.CircuitBreaker and the   *)
(* three critical sections that change it.  Each section runs under the    *)
(* breaker's asyncio.Lock and awaits nothing inside it, so on the event    *)
(* loop it is one atomic step; the module that composes the breaker with   *)
(* its callers decides when the sections run.                              *)
(*                                                                         *)
(* Two counters saturate, because the code only ever compares them with    *)
(* their bound: `failures` at FailureThreshold, and the time elapsed since *)
(* `opened_at` at ResetTimeout.                                            *)
(***************************************************************************)
EXTENDS Naturals

CONSTANTS
    FailureThreshold,  \* failure_threshold of the constructor
    ResetTimeout       \* reset_timeout, in ticks of the monotonic clock

\* The constructor raises ValueError unless both are positive.
ASSUME ThresholdAssumption == FailureThreshold \in Nat \ {0}
ASSUME TimeoutAssumption   == ResetTimeout \in Nat \ {0}

VARIABLES
    state,     \* _BreakerState.state
    failures,  \* _BreakerState.failures, at most FailureThreshold
    elapsed    \* time.monotonic() - _BreakerState.opened_at, at most ResetTimeout

breakerVars == <<state, failures, elapsed>>

BreakerTypeOK ==
    /\ state \in {"closed", "open", "half_open"}
    /\ failures \in 0..FailureThreshold
    /\ elapsed \in 0..ResetTimeout

\* A fresh _BreakerState(): its opened_at of 0.0 lies beyond any timeout.
BreakerInit ==
    /\ state = "closed"
    /\ failures = 0
    /\ elapsed = ResetTimeout

-----------------------------------------------------------------------------

\* Variant: half open turns callers away, as if its probe were still out.
Faulty_Allows == state = "closed" \/ (state = "open" /\ elapsed >= ResetTimeout)

\* Does _precheck let a call through?  half_open and closed let every call
\* through; open does once the timeout has elapsed.
Allows == state = "open" => elapsed >= ResetTimeout

Precheck ==
    /\ Allows
    /\ state' = IF state = "open" THEN "half_open" ELSE state
    /\ UNCHANGED <<failures, elapsed>>

\* _on_success replaces the whole record, whatever the state was.
OnSuccess ==
    /\ state' = "closed"
    /\ failures' = 0
    /\ elapsed' = ResetTimeout

\* Variant: compares with = where the code has >=.
Faulty_OnFailureEquality ==
    /\ failures' = failures + 1
    /\ state' = IF failures + 1 = FailureThreshold THEN "open" ELSE state
    /\ elapsed' = IF failures + 1 = FailureThreshold THEN 0 ELSE elapsed

\* Variant: opened_at is stamped by the first trip only.
Faulty_OnFailureKeepsStamp ==
    IF failures + 1 >= FailureThreshold
    THEN /\ failures' = FailureThreshold
         /\ state' = "open"
         /\ elapsed' = IF state = "closed" THEN 0 ELSE elapsed
    ELSE /\ failures' = failures + 1
         /\ UNCHANGED <<state, elapsed>>

\* _on_failure counts, and (re)opens the breaker at the threshold.
OnFailure ==
    IF failures + 1 >= FailureThreshold
    THEN /\ failures' = FailureThreshold
         /\ state' = "open"
         /\ elapsed' = 0
    ELSE /\ failures' = failures + 1
         /\ UNCHANGED <<state, elapsed>>

\* The monotonic clock advances.
Elapse ==
    /\ elapsed < ResetTimeout
    /\ elapsed' = elapsed + 1
    /\ UNCHANGED <<state, failures>>

-----------------------------------------------------------------------------

(* The breaker has left the closed state exactly when it has counted
   FailureThreshold failures since its last success (the code keeps the two
   fields apart and never compares them), and it is half open only once the
   timeout has run out. *)
TrippedAtThreshold ==
    /\ state # "closed" <=> failures = FailureThreshold
    /\ state = "half_open" => elapsed = ResetTimeout

\* Inductive, whoever runs the critical sections: OnFailure keeps the fields in
\* step only if they were in step.
BreakerInv == BreakerTypeOK /\ TrippedAtThreshold

=============================================================================
