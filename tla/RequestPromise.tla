--------------------------- MODULE RequestPromise ---------------------------
(***************************************************************************)
(* What get_json and post_json of HttpClient promise the task that calls   *)
(* them, whatever session, pool, breaker and retries do in between: how    *)
(* often a request may have gone out, and what its answer tells of that.   *)
(*                                                                         *)
(*   ok         it has gone out, a POST exactly once                       *)
(*   refused    a POST has not gone out: it may safely be sent again later *)
(*   transient  open: the server may have acted, as many times as it went  *)
(*   error      open as well                                               *)
(*                                                                         *)
(* An answer is final: nothing goes out after it.                          *)
(***************************************************************************)
EXTENDS Naturals

CONSTANTS Requests, MaxRetries

VARIABLES
    asked,    \* the method of each task's latest request
    written,  \* times it has gone out
    answer    \* "pending" while it is under way

promiseVars == <<asked, written, answer>>

Init ==
    /\ asked \in [Requests -> {"GET", "POST"}]
    /\ written = [r \in Requests |-> 0]
    /\ answer = [r \in Requests |-> "none"]

Answers(r, x) == answer' = [answer EXCEPT ![r] = x]

\* A request begins, and may be turned away at once.
Ask(r, m) ==
    /\ answer[r] # "pending"
    /\ asked' = [asked EXCEPT ![r] = m]
    /\ written' = [written EXCEPT ![r] = 0]
    /\ \E x \in {"pending", "refused", "error"} : Answers(r, x)

\* The client is not started.
Deny(r) ==
    /\ answer[r] # "pending"
    /\ Answers(r, "error")
    /\ UNCHANGED <<asked, written>>

Write(r) ==
    /\ answer[r] = "pending"
    /\ written[r] > 0 => asked[r] = "GET" /\ written[r] <= MaxRetries
    /\ written' = [written EXCEPT ![r] = @ + 1]
    /\ UNCHANGED <<asked, answer>>

End(r, x) ==
    /\ answer[r] = "pending"
    /\ x = "ok" => written[r] > 0
    /\ x = "refused" => asked[r] = "GET"
    /\ Answers(r, x)
    /\ UNCHANGED <<asked, written>>

Next ==
    \E r \in Requests :
        \/ \E m \in {"GET", "POST"} : Ask(r, m)
        \/ Deny(r)
        \/ Write(r)
        \/ \E x \in {"ok", "transient", "refused", "error"} : End(r, x)

Spec == Init /\ [][Next]_promiseVars

=============================================================================
