--------------------------- MODULE BreakerPromise ---------------------------
(***************************************************************************)
(* What CircuitBreaker.call promises its callers, without the three-state  *)
(* machine that implements it.  A caller is turned away only if the last   *)
(* FailureThreshold settled calls that count have failed, and always while *)
(* the most recent of those failures is less than ResetTimeout old.        *)
(*                                                                         *)
(* A cancelled call settles nothing.  The promise leaves open what the     *)
(* code and its docstring (circuit_breaker.py:10-13) decide differently:   *)
(*   - once the timeout has passed, any number of callers may be let       *)
(*     through, or the others refused while a probe is under way;          *)
(*   - a call admitted before the trip that ends after it may count, and   *)
(*     so close the breaker early or open it for longer, or not count.     *)
(***************************************************************************)
EXTENDS Naturals

CONSTANTS FailureThreshold, ResetTimeout, Calls

VARIABLES
    streak,  \* failed calls since the last successful one, saturating
    quiet,   \* time since the failure that completed or extended a full streak
    call     \* what each caller sees of its latest call

promiseVars == <<streak, quiet, call>>

Ended == {"idle", "ok", "failed", "refused", "cancelled"}

Init ==
    /\ streak = 0
    /\ quiet = ResetTimeout
    /\ call = [c \in Calls |-> "idle"]

\* A full streak, without which no caller is turned away ...
Tripped == streak = FailureThreshold

\* ... and a recent one, with which every caller is.
Hot == Tripped /\ quiet < ResetTimeout

Admit(c) ==
    /\ call[c] \in Ended
    /\ ~Hot
    /\ call' = [call EXCEPT ![c] = "running"]
    /\ UNCHANGED <<streak, quiet>>

Refuse(c) ==
    /\ call[c] \in Ended
    /\ Tripped
    /\ call' = [call EXCEPT ![c] = "refused"]
    /\ UNCHANGED <<streak, quiet>>

Succeed(c) ==
    /\ call[c] = "running"
    /\ call' = [call EXCEPT ![c] = "ok"]
    /\ \/ streak' = 0 /\ quiet' = ResetTimeout
       \/ Hot /\ UNCHANGED <<streak, quiet>>

Fail(c) ==
    /\ call[c] = "running"
    /\ call' = [call EXCEPT ![c] = "failed"]
    /\ \/ /\ streak + 1 < FailureThreshold
          /\ streak' = streak + 1
          /\ UNCHANGED quiet
       \/ /\ streak + 1 >= FailureThreshold
          /\ streak' = FailureThreshold
          /\ quiet' = 0
       \/ Hot /\ UNCHANGED <<streak, quiet>>

Cancel(c) ==
    /\ call[c] = "running"
    /\ call' = [call EXCEPT ![c] = "cancelled"]
    /\ UNCHANGED <<streak, quiet>>

Wait ==
    /\ quiet < ResetTimeout
    /\ quiet' = quiet + 1
    /\ UNCHANGED <<streak, call>>

Next ==
    \/ \E c \in Calls : Admit(c) \/ Refuse(c) \/ Succeed(c) \/ Fail(c) \/ Cancel(c)
    \/ Wait

Spec == Init /\ [][Next]_promiseVars

=============================================================================
