---------------------------- MODULE BreakerCalls ----------------------------
(***************************************************************************)
(* Concurrent tasks of one event loop that go through CircuitBreaker.call. *)
(* The only suspension point of `call` is `await func()`, so a call is two *)
(* atomic steps, the admission and the settlement, and any number of other *)
(* calls may be admitted, settled or cancelled in between.                 *)
(*                                                                         *)
(* The protected service is up or down.  A call may raise if some outage   *)
(* overlapped it; one that no outage touched returns normally.             *)
(***************************************************************************)
EXTENDS CircuitBreaker

CONSTANT Calls  \* the tasks that share the breaker

VARIABLES
    call,     \* what the task sees of its latest `call`
    up,       \* is the protected service up?
    touched   \* the running calls that an outage has overlapped

vars == <<breakerVars, call, up, touched>>

Ended == {"idle", "ok", "failed", "refused", "cancelled"}

TypeOK ==
    /\ BreakerTypeOK
    /\ call \in [Calls -> Ended \cup {"running"}]
    /\ up \in BOOLEAN
    /\ touched \subseteq Calls

Init ==
    /\ BreakerInit
    /\ call = [c \in Calls |-> "idle"]
    /\ up = TRUE
    /\ touched = {}

Running == {c \in Calls : call[c] = "running"}

-----------------------------------------------------------------------------

\* `call` up to `await func()`.
Admit(c) ==
    /\ call[c] \in Ended
    /\ Precheck
    /\ call' = [call EXCEPT ![c] = "running"]
    /\ touched' = IF up THEN touched ELSE touched \cup {c}
    /\ UNCHANGED up

\* Variant: a refusal stamps opened_at again.
Faulty_Refuse(c) ==
    /\ call[c] \in Ended
    /\ ~Allows
    /\ call' = [call EXCEPT ![c] = "refused"]
    /\ elapsed' = 0
    /\ UNCHANGED <<state, failures, up, touched>>

\* _precheck raises CircuitBreakerOpen.
Refuse(c) ==
    /\ call[c] \in Ended
    /\ ~Allows
    /\ call' = [call EXCEPT ![c] = "refused"]
    /\ UNCHANGED <<breakerVars, up, touched>>

\* func returns: the else branch.
Succeed(c) ==
    /\ call[c] = "running"
    /\ OnSuccess
    /\ call' = [call EXCEPT ![c] = "ok"]
    /\ touched' = touched \ {c}
    /\ UNCHANGED up

\* func raises an Exception: the except branch, which re-raises.
Fail(c) ==
    /\ call[c] = "running"
    /\ c \in touched
    /\ OnFailure
    /\ call' = [call EXCEPT ![c] = "failed"]
    /\ touched' = touched \ {c}
    /\ UNCHANGED up

\* CancelledError is a BaseException: neither branch runs.
Cancel(c) ==
    /\ call[c] = "running"
    /\ call' = [call EXCEPT ![c] = "cancelled"]
    /\ touched' = touched \ {c}
    /\ UNCHANGED <<breakerVars, up>>

Tick ==
    /\ Elapse
    /\ UNCHANGED <<call, up, touched>>

Outage ==
    /\ up
    /\ up' = FALSE
    /\ touched' = Running
    /\ UNCHANGED <<breakerVars, call>>

Recover ==
    /\ ~up
    /\ up' = TRUE
    /\ UNCHANGED <<breakerVars, call, touched>>

Settle(c) == Succeed(c) \/ Fail(c) \/ Cancel(c)

Next ==
    \/ \E c \in Calls : Admit(c) \/ Refuse(c) \/ Settle(c)
    \/ Tick
    \/ Outage
    \/ Recover

\* Time passes; every call ends, because aiohttp's total timeout bounds it;
\* tasks keep calling; and the calls no outage has touched are not all
\* cancelled.
Fairness ==
    /\ WF_vars(Tick)
    /\ \A c \in Calls : WF_vars(Settle(c)) /\ WF_vars(Admit(c))
    /\ SF_vars(\E c \in Calls \ touched : Succeed(c))

Spec == Init /\ [][Next]_vars /\ Fairness

-----------------------------------------------------------------------------

(* The state machine of the code keeps what its callers rely on, however calls
   overlap: nobody is turned away without a full run of failures, and everybody
   is while the last of them is recent; a failed probe starts the wait anew and
   a successful one ends it. *)
Promise == INSTANCE BreakerPromise WITH streak <- failures, quiet <- elapsed
KeepsPromise == Promise!Spec

(* Once the service stays up the breaker closes for good: no cancelled
   probe, late failure of a call that began in the outage, or refused caller
   leaves it refusing a healthy service. *)
RecoversAfterOutage == <>[]up => <>[](state = "closed")

(* Callers are turned away only for a bounded while: a breaker that refuses
   calls eventually lets some through, even if the outage never ends. *)
ProbesEventually == ~Allows ~> Allows

=============================================================================
