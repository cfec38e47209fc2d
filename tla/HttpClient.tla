----------------------------- MODULE HttpClient -----------------------------
(***************************************************************************)
(* helpers_core.http.client.HttpClient: concurrent requests that share one *)
(* session, one connection pool and one circuit breaker.  A step is what a *)
(* task does between two suspension points, so the breaker's settlement of *)
(* an attempt belongs to the step in which the attempt ends.               *)
(*                                                                         *)
(* Phases of a request and the suspension point each one stands for:       *)
(*   connecting  in session.request, not yet written to a connection       *)
(*   sent        in session.request, written, awaiting the response head   *)
(*   draining    in response.text() of a response that will be retried     *)
(*   backoff     in tenacity's sleep before the next attempt               *)
(*   reading     in _read_json, after breaker.call has returned            *)
(*   done        get_json or post_json has returned or raised              *)
(*                                                                         *)
(* Responses fall into three classes: "ok", "transient" (a status in       *)
(* _RETRYABLE_STATUS) and "rejected" (another status from 400).  Errors    *)
(* fall into two: those `retry_if_exception_type` names ("transient") and  *)
(* the others ("error": payload errors, a closed session, the assertion).  *)
(***************************************************************************)
EXTENDS CircuitBreaker, FiniteSets

CONSTANTS
    Requests,        \* the tasks that use the client
    MaxRetries,      \* HttpClientConfig.max_retries
    MaxConnections,  \* min(max_connections, max_connections_per_host): one host
    MaxClosers       \* bound: calls of close that wait at a time

ASSUME RetriesAssumption == MaxRetries \in Nat
ASSUME PoolAssumption    == MaxConnections \in Nat \ {0}
ASSUME ClosersAssumption == MaxClosers \in Nat
\* The tasks of one process.
ASSUME FiniteAssumption  == IsFiniteSet(Requests)

Methods == {"GET", "POST"}  \* one idempotent method and one that is not

VARIABLES
    session,   \* _session: None, open, or closed but not yet reset to None
    pc,        \* phase of each request
    method,
    attempts,  \* breaker.call invocations of the request so far
    status,    \* class of the response being read, "ok" otherwise
    result,    \* what the finished request returned or raised
    closers,   \* calls of close that await session.close()
    cut,       \* requests whose session was closed under them
    adrift,    \* requests whose session, still open, a late close has forgotten
    inFlight,  \* the HTTP_CLIENT_IN_FLIGHT gauge
    pooled,    \* connections in use of the current session's pool
    wire       \* observation: times the request was written to a connection

sessionVars == <<session, closers>>
detached == <<cut, adrift>>
reqVars == <<sessionVars, pc, method, attempts, status, result, detached, inFlight, pooled>>
vars == <<breakerVars, reqVars, wire>>

Classes == {"ok", "transient", "rejected"}
\* "error": an exception tenacity does not retry, CancelledError included.
Results == {"none", "ok", "transient", "refused", "error"}
Phases == {"idle", "connecting", "sent", "draining", "backoff", "reading", "done"}

\* Variant: POST counts as idempotent.
Faulty_AttemptLimit(m) == MaxRetries + 1

\* stop_after_attempt(max_retries + 1 if retryable else 1)
AttemptLimit(m) == IF m = "GET" THEN MaxRetries + 1 ELSE 1

TypeOK ==
    /\ BreakerTypeOK
    /\ session \in {"none", "open", "closing"}
    /\ pc \in [Requests -> Phases]
    /\ method \in [Requests -> Methods]
    /\ attempts \in [Requests -> 0..(MaxRetries + 1)]
    /\ status \in [Requests -> Classes]
    /\ result \in [Requests -> Results]
    /\ closers \in 0..MaxClosers
    /\ cut \subseteq Requests
    /\ adrift \subseteq Requests
    /\ inFlight \in Nat
    /\ pooled \in 0..MaxConnections
    /\ wire \in [Requests -> 0..(MaxRetries + 1)]

Init ==
    /\ BreakerInit
    /\ session = "none"
    /\ pc = [r \in Requests |-> "idle"]
    /\ method = [r \in Requests |-> "GET"]
    /\ attempts = [r \in Requests |-> 0]
    /\ status = [r \in Requests |-> "ok"]
    /\ result = [r \in Requests |-> "none"]
    /\ closers = 0
    /\ cut = {}
    /\ adrift = {}
    /\ inFlight = 0
    /\ pooled = 0
    /\ wire = [r \in Requests |-> 0]

In(phases) == {r \in Requests : pc[r] \in phases}

\* Requests inside session.request, and requests that hold a connection.
Awaiting == {"connecting", "sent"}
Holding  == {"sent", "draining", "reading"}

\* Those whose connection belongs to the current session.
Held == In(Holding) \ (cut \cup adrift)

-----------------------------------------------------------------------------

\* Request r ends with result x.
Finish(r, x) ==
    /\ pc' = [pc EXCEPT ![r] = "done"]
    /\ result' = [result EXCEPT ![r] = x]

\* r gives back the connection it holds, unless its pool is gone.
Release(r) ==
    /\ pooled' = IF r \in Held THEN pooled - 1 ELSE pooled
    /\ cut' = cut \ {r}
    /\ adrift' = adrift \ {r}

\* Variant: one retry more than max_retries.
Faulty_RaiseExtra(r, error) ==
    /\ OnFailure
    /\ IF error = "transient" /\ attempts[r] <= AttemptLimit(method[r])
       THEN pc' = [pc EXCEPT ![r] = "backoff"] /\ UNCHANGED result
       ELSE Finish(r, error)

\* The attempt of r ends in an exception inside breaker.call: the breaker
\* counts it; tenacity sleeps before another attempt or re-raises.
Raise(r, error) ==
    /\ OnFailure
    /\ IF error = "transient" /\ attempts[r] < AttemptLimit(method[r])
       THEN pc' = [pc EXCEPT ![r] = "backoff"] /\ UNCHANGED result
       ELSE Finish(r, error)

\* breaker.call(_do_call) up to the suspension in session.request.  A refusal
\* and the errors of a missing or closed session are not retried.  (Where the
\* session is missing or closed, admission and failure are one step; OnFailure
\* alone is their sum, because a breaker that is not closed reopens.)
Attempt(r) ==
    \/ /\ ~Allows
       /\ Finish(r, "refused")
       /\ UNCHANGED <<breakerVars, inFlight>>
    \/ /\ Allows
       /\ session # "open"
       /\ OnFailure
       /\ Finish(r, "error")
       /\ UNCHANGED inFlight
    \/ /\ session = "open"
       /\ Precheck
       /\ pc' = [pc EXCEPT ![r] = "connecting"]
       /\ inFlight' = inFlight + 1
       /\ result' = [result EXCEPT ![r] = "none"]

\* request: the client was never started, or was closed.
NotStarted(r) ==
    /\ pc[r] \in {"idle", "done"}
    /\ session = "none"
    /\ Finish(r, "error")
    /\ UNCHANGED <<breakerVars, sessionVars, method, attempts, status, detached, inFlight,
                   pooled, wire>>

Begin(r, m) ==
    /\ pc[r] \in {"idle", "done"}
    /\ session # "none"
    /\ method' = [method EXCEPT ![r] = m]
    /\ attempts' = [attempts EXCEPT ![r] = 1]
    /\ wire' = [wire EXCEPT ![r] = 0]
    /\ Attempt(r)
    /\ UNCHANGED <<sessionVars, status, detached, pooled>>

\* Variant: the breaker guards the request, not each of its attempts.
Faulty_Retry(r) ==
    /\ pc[r] = "backoff"
    /\ session = "open"
    /\ attempts' = [attempts EXCEPT ![r] = @ + 1]
    /\ pc' = [pc EXCEPT ![r] = "connecting"]
    /\ inFlight' = inFlight + 1
    /\ UNCHANGED <<breakerVars, sessionVars, method, status, result, detached, pooled, wire>>

\* Variant: the attempt is not counted.
Faulty_RetryUncounted(r) ==
    /\ pc[r] = "backoff"
    /\ Attempt(r)
    /\ UNCHANGED <<sessionVars, method, attempts, status, detached, pooled, wire>>

\* The sleep between two attempts is over.
Retry(r) ==
    /\ pc[r] = "backoff"
    /\ attempts' = [attempts EXCEPT ![r] = @ + 1]
    /\ Attempt(r)
    /\ UNCHANGED <<sessionVars, method, status, detached, pooled, wire>>

\* A connection of the pool is free (and established): the request goes out.  A
\* session that was forgotten has its own pool, of which nothing is known.
Send(r) ==
    /\ pc[r] = "connecting"
    /\ r \notin cut
    /\ pc' = [pc EXCEPT ![r] = "sent"]
    /\ \/ r \in adrift /\ UNCHANGED pooled
       \/ r \notin adrift /\ pooled < MaxConnections /\ pooled' = pooled + 1
    /\ wire' = [wire EXCEPT ![r] = @ + 1]
    /\ UNCHANGED <<breakerVars, sessionVars, method, attempts, status, result, detached,
                   inFlight>>

\* session.request raises: connection error or total timeout, or something that
\* is not retried (an invalid URL, arguments it rejects, too many redirects).
Break(r) ==
    /\ pc[r] \in Awaiting
    /\ inFlight' = inFlight - 1
    /\ Release(r)
    /\ \E error \in {"transient", "error"} : Raise(r, error)
    /\ UNCHANGED <<sessionVars, method, attempts, status, wire>>

Retryable(r, s) == s = "transient" /\ method[r] = "GET"

\* A response that is not retried: breaker.call returns it as a success.
Respond(r, s) ==
    /\ pc[r] = "sent"
    /\ r \notin cut
    /\ ~Retryable(r, s)
    /\ inFlight' = inFlight - 1
    /\ OnSuccess
    /\ pc' = [pc EXCEPT ![r] = "reading"]
    /\ status' = [status EXCEPT ![r] = s]
    /\ UNCHANGED <<sessionVars, method, attempts, result, detached, pooled, wire>>

\* A response to retry: its body is read before the error is raised.
RespondRetryable(r, s) ==
    /\ pc[r] = "sent"
    /\ r \notin cut
    /\ Retryable(r, s)
    /\ inFlight' = inFlight - 1
    /\ pc' = [pc EXCEPT ![r] = "draining"]
    /\ UNCHANGED <<breakerVars, sessionVars, method, attempts, status, result, detached,
                   pooled, wire>>

\* The body has been read, or reading it has failed.
Drain(r) ==
    /\ pc[r] = "draining"
    /\ Release(r)
    /\ \E error \in {"transient", "error"} : Raise(r, error)
    /\ UNCHANGED <<sessionVars, method, attempts, status, inFlight, wire>>

\* Variant: the response is released on the normal path only.
Faulty_Read(r) ==
    /\ pc[r] = "reading"
    /\ \/ /\ Finish(r, IF status[r] = "ok" THEN "ok" ELSE "error")
          /\ Release(r)
       \/ /\ Finish(r, "error")
          /\ UNCHANGED <<pooled, detached>>
    /\ status' = [status EXCEPT ![r] = "ok"]
    /\ UNCHANGED <<breakerVars, sessionVars, method, attempts, inFlight, wire>>

\* _read_json, outside breaker and retries; released on every path.
Read(r) ==
    /\ pc[r] = "reading"
    /\ Release(r)
    /\ \/ Finish(r, IF status[r] = "ok" THEN "ok" ELSE "error")
       \/ Finish(r, "error")
    /\ status' = [status EXCEPT ![r] = "ok"]
    /\ UNCHANGED <<breakerVars, sessionVars, method, attempts, inFlight, wire>>

\* The task is cancelled at its suspension point.
Cancel(r) ==
    /\ pc[r] \notin {"idle", "done"}
    /\ Finish(r, "error")
    /\ inFlight' = IF pc[r] \in Awaiting THEN inFlight - 1 ELSE inFlight
    /\ Release(r)
    /\ status' = [status EXCEPT ![r] = "ok"]
    /\ UNCHANGED <<breakerVars, sessionVars, method, attempts, wire>>

\* start does nothing unless the session is None.
Start ==
    /\ session = "none"
    /\ session' = "open"
    /\ UNCHANGED <<breakerVars, pc, method, attempts, status, result, closers, detached,
                   inFlight, pooled, wire>>

\* close awaits session.close(), which takes the session's connections and its
\* pool away from the requests that use them ...
BeginClose ==
    /\ session = "open"
    /\ closers < MaxClosers
    /\ session' = "closing"
    /\ closers' = closers + 1
    /\ cut' = In(Awaiting \cup Holding) \ adrift
    /\ pooled' = 0
    /\ UNCHANGED <<breakerVars, pc, method, attempts, status, result, adrift, inFlight,
                   wire>>

\* ... (or finds nothing left to close, and goes on at once) ...
CloseAgain ==
    /\ session = "closing"
    /\ session' = "none"
    /\ UNCHANGED <<breakerVars, pc, method, attempts, status, result, closers, detached,
                   inFlight, pooled, wire>>

\* ... and then forgets the session, whichever it is by now.
FinishClose ==
    /\ closers > 0
    /\ closers' = closers - 1
    /\ session' = "none"
    /\ IF session = "open"
       THEN adrift' = In(Awaiting \cup Holding) \ cut /\ pooled' = 0
       ELSE UNCHANGED <<adrift, pooled>>
    /\ UNCHANGED <<breakerVars, pc, method, attempts, status, result, cut, inFlight, wire>>

\* A close that is cancelled, or whose session.close() raises, forgets nothing.
AbandonClose ==
    /\ closers > 0
    /\ closers' = closers - 1
    /\ UNCHANGED <<breakerVars, session, pc, method, attempts, status, result, detached,
                   inFlight, pooled, wire>>

Tick ==
    /\ Elapse
    /\ UNCHANGED <<reqVars, wire>>

RequestStep(r) ==
    \/ NotStarted(r)
    \/ \E m \in Methods : Begin(r, m)
    \/ Retry(r)
    \/ Send(r)
    \/ Break(r)
    \/ \E s \in Classes : Respond(r, s) \/ RespondRetryable(r, s)
    \/ Drain(r)
    \/ Read(r)
    \/ Cancel(r)

Next ==
    \/ \E r \in Requests : RequestStep(r)
    \/ Start
    \/ BeginClose
    \/ CloseAgain
    \/ FinishClose
    \/ AbandonClose
    \/ Tick

\* The total timeout ends every wait inside session.request and every body
\* read; tenacity's sleep ends; a close that has begun ends.
Fairness ==
    /\ \A r \in Requests :
          WF_vars(Break(r)) /\ WF_vars(Drain(r)) /\ WF_vars(Read(r)) /\ WF_vars(Retry(r))
    /\ WF_vars(FinishClose)
    /\ WF_vars(Tick)

Spec == Init /\ [][Next]_vars /\ Fairness

-----------------------------------------------------------------------------

(* A request that is not idempotent is written to a connection at most once
   and an idempotent one at most max_retries + 1 times, whatever mix of
   timeouts, transient statuses, refusals and closes it meets
   (client.py:97, "POST retries can cause duplicate side-effects"). *)
WrittenAtMost ==
    \A r \in Requests : wire[r] <= attempts[r] /\ attempts[r] <= AttemptLimit(method[r])

(* The in-flight gauge is exact on every path out of session.request:
   response, error, timeout and cancellation. *)
GaugeExact == inFlight = Cardinality(In(Awaiting))

(* No connection leaks: the pool's slots in use are those of the requests
   that are between writing and releasing, on every path, and those of an
   earlier session never count against the next one. *)
PoolExact == pooled = Cardinality(Held)

(* Neither leaks, whatever ends a request. *)
NothingLeaks == GaugeExact /\ PoolExact

(* A retryable error reaches the caller only after the last attempt the
   configuration allows: no request gives up early. *)
RaisesAfterLastAttempt ==
    \A r \in Requests :
        pc[r] = "done" /\ result[r] = "transient" => attempts[r] = AttemptLimit(method[r])

(* A breaker that refuses calls refuses every attempt: neither a new request
   nor the retry of an old one gets to the session. *)
OpenBreakerAdmitsNothing ==
    [][~Allows => In({"connecting"})' \subseteq In({"connecting"})]_vars

\* What a caller sees of its request.
Answer ==
    [r \in Requests |-> IF pc[r] \in {"idle", "done"} THEN result[r] ELSE "pending"]

(* What get_json and post_json answer is true, whatever request has been
   through: "ok" is of a request that has gone out, a POST once; a POST that
   the breaker refused has not gone out at all; and nothing goes out after the
   answer. *)
Promise == INSTANCE RequestPromise WITH asked <- method, written <- wire, answer <- Answer
AnswersAreTrue == Promise!Spec

(* Every request ends: retries are bounded, the pool's queue drains and a
   close in the middle of a backoff does not strand it. *)
EveryRequestEnds ==
    \A r \in Requests : pc[r] \notin {"idle", "done"} ~> pc[r] = "done"

=============================================================================
