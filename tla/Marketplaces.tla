---------------------------- MODULE Marketplaces ----------------------------
(***************************************************************************)
(* WildberriesClient and OzonClient of helpers_core.marketplaces: one      *)
(* facade over several HttpClients, one per host, each with a session and  *)
(* a breaker of its own.  One task owns the facade (async with, or start   *)
(* and close); any number of tasks call its endpoints meanwhile.           *)
(*                                                                         *)
(* A request is what HttpClient makes of it, without the pool.  Of a       *)
(* breaker only the failures in a row are kept: once there are Threshold,  *)
(* an attempt is refused or, when the reset timeout has passed, admitted,  *)
(* which is all that BreakerPromise lets a caller see.                     *)
(*                                                                         *)
(* The remote hosts are external: a host answers in time or not, and the   *)
(* status says whether the token is accepted, that the host is too busy or *)
(* down (_RETRYABLE_STATUS: transient), or displeased with the request.    *)
(***************************************************************************)
EXTENDS Naturals, Sequences, FiniteSetsExt, Functions

CONSTANTS
    Calls,       \* the tasks that call endpoints
    Used,        \* bound: the endpoints they call
    BadUrls,     \* bound: the hosts whose base URL may be a bad one, or "none"
    Threshold,   \* failure_threshold of each breaker
    MaxRetries   \* max_retries of each HttpClient

ASSUME MarketplacesAssumption ==
    Threshold \in Nat \ {0} /\ MaxRetries \in Nat

-----------------------------------------------------------------------------
(* The two facades. *)

WBHosts == <<"suppliers", "statistics", "feedbacks", "content", "advert">>

\* The performance host takes part if its credentials are given.
OzonHosts(performance) ==
    IF performance THEN <<"seller", "performance">> ELSE <<"seller">>

Endpoint(host, method, checked) ==
    [host |-> host, method |-> method, checked |-> checked]

\* checked: a bad argument raises ValueError before anything is sent.
WBEndpoints ==
    [ping            |-> Endpoint("content",    "GET",  FALSE),
     list_feedbacks  |-> Endpoint("feedbacks",  "GET",  TRUE),
     answer_feedback |-> Endpoint("feedbacks",  "POST", TRUE),
     list_stocks     |-> Endpoint("statistics", "GET",  FALSE)]

OzonEndpoints ==
    [ping          |-> Endpoint("seller", "POST", FALSE),
     list_products |-> Endpoint("seller", "POST", TRUE),
     list_reviews  |-> Endpoint("seller", "POST", FALSE),
     answer_review |-> Endpoint("seller", "POST", TRUE)]

\* What a seller's credentials make: hosts in the order of start and close.
Facades ==
    {[hosts |-> WBHosts, endpoints |-> WBEndpoints]} \cup
    {[hosts |-> OzonHosts(p), endpoints |-> OzonEndpoints] : p \in BOOLEAN}

Hosts == Range(WBHosts) \cup Range(OzonHosts(TRUE))

VARIABLES
    facade,   \* the client
    badUrl,   \* the host whose configured base URL aiohttp rejects, or "none"
    owner,    \* what the owning task does with the facade
    at,       \* position of the host that close is at
    session,  \* _session of each HttpClient, as in HttpClient
    streak,   \* failures in a row its breaker has counted, up to Threshold
    pc,       \* phase of each call
    op,       \* its endpoint
    attempts, \* how many it has sent
    status,   \* of the response being read
    result,   \* what the endpoint returned or raised
    token,    \* external: is the token good?
    vouched,  \* observation: calls whose last attempt was sent while it was
    silent,   \* observation: attempts in a row at the host that got no response
    trouble   \* observation: those without a response that is not transient

facadeVars == <<facade, badUrl, owner, at, session>>
callVars == <<pc, op, attempts, status, result, vouched>>
hostVars == <<streak, silent, trouble>>
vars == <<facadeVars, callVars, hostVars, token>>

Statuses == {"ok", "auth", "transient", "other"}
DomainErrors == {"auth_error", "api_error"}

TypeOK ==
    /\ facade \in Facades
    /\ badUrl \in Range(facade.hosts) \cup {"none"}
    /\ owner \in {"out", "in", "leaving", "left"}
    /\ at \in 0..Len(facade.hosts)
    /\ session \in [Hosts -> {"none", "open", "closing"}]
    /\ streak \in [Hosts -> 0..Threshold]
    /\ pc \in [Calls -> {"calling", "cut", "backoff", "reading", "done"}]
    /\ op \in [Calls -> DOMAIN facade.endpoints]
    /\ attempts \in [Calls -> 0..(MaxRetries + 1)]
    /\ \A c \in Calls : attempts[c] = 0 <=> pc[c] = "done"
    /\ status \in [Calls -> Statuses]
    /\ result \in [Calls -> DomainErrors \cup {"none", "ok", "false", "other_error"}]
    /\ token \in {"valid", "revoked"}
    /\ vouched \subseteq Calls
    /\ silent \in [Hosts -> 0..Threshold]
    /\ trouble \in [Hosts -> 0..Threshold]

Init ==
    /\ facade \in Facades
    /\ badUrl \in BadUrls \cap (Range(facade.hosts) \cup {"none"})
    /\ owner = "out"
    /\ at = 0
    /\ session = [h \in Hosts |-> "none"]
    /\ streak = [h \in Hosts |-> 0]
    /\ pc = [c \in Calls |-> "done"]
    /\ op = [c \in Calls |-> "ping"]
    /\ attempts = [c \in Calls |-> 0]
    /\ status = [c \in Calls |-> "ok"]
    /\ result = [c \in Calls |-> "none"]
    /\ token = "valid"
    /\ vouched = {}
    /\ silent = [h \in Hosts |-> 0]
    /\ trouble = [h \in Hosts |-> 0]

HostOf(c) == facade.endpoints[op[c]].host
MethodOf(c) == facade.endpoints[op[c]].method

-----------------------------------------------------------------------------
(* The owner: start and close. *)

\* The positions of hosts that start comes to: it raises at the bad one.
Reached ==
    {i \in DOMAIN facade.hosts :
        \A j \in 1..i : facade.hosts[j] = badUrl => session[badUrl] # "none"}

\* start, which suspends nowhere: a client that has a session, of whatever
\* state, keeps it.
Start ==
    /\ owner # "leaving"
    /\ session' = [h \in Hosts |->
           IF session[h] = "none" /\ \E i \in Reached : facade.hosts[i] = h
           THEN "open" ELSE session[h]]
    /\ owner' = IF Reached = DOMAIN facade.hosts THEN "in" ELSE "out"
    /\ UNCHANGED <<facade, badUrl, at, callVars, hostVars, token>>

\* Variant: a session that is closed already is passed over.
Faulty_CloseFrom(k) ==
    LET Open == {i \in k..Len(facade.hosts) : session[facade.hosts[i]] = "open"}
        next == IF Open = {} THEN Len(facade.hosts) + 1 ELSE Min(Open)
    IN  /\ session' = [h \in Hosts |->
               IF \E i \in DOMAIN facade.hosts \cap (k - 1)..(next - 1) :
                     facade.hosts[i] = h /\ (session[h] = "closing" => i = k - 1)
               THEN "none"
               ELSE IF next \in Open /\ h = facade.hosts[next] THEN "closing"
               ELSE session[h]]
        /\ pc' = [c \in Calls |->
               IF pc[c] = "calling" /\ session'[HostOf(c)] = "closing"
               THEN "cut" ELSE pc[c]]
        /\ IF Open = {} THEN owner' = "left" /\ at' = 0
                         ELSE owner' = "leaving" /\ at' = next
        /\ UNCHANGED <<facade, badUrl, op, attempts, status, result, vouched, hostVars,
                       token>>

\* HttpClient.close of the hosts from position k on, up to the next await: of
\* session.close() on an open session, which ends the requests under way.  The
\* session of position k - 1, awaited before, and those passed over are closed
\* already and are forgotten.
CloseFrom(k) ==
    LET Open == {i \in k..Len(facade.hosts) : session[facade.hosts[i]] = "open"}
        next == IF Open = {} THEN Len(facade.hosts) + 1 ELSE Min(Open)
    IN  /\ session' = [h \in Hosts |->
               IF \E i \in DOMAIN facade.hosts \cap (k - 1)..(next - 1) :
                     facade.hosts[i] = h
               THEN "none"
               ELSE IF next \in Open /\ h = facade.hosts[next] THEN "closing"
               ELSE session[h]]
        /\ pc' = [c \in Calls |->
               IF pc[c] = "calling" /\ session'[HostOf(c)] = "closing"
               THEN "cut" ELSE pc[c]]
        /\ IF Open = {} THEN owner' = "left" /\ at' = 0
                         ELSE owner' = "leaving" /\ at' = next
        /\ UNCHANGED <<facade, badUrl, op, attempts, status, result, vouched, hostVars,
                       token>>

\* close is called, by __aexit__ or to clean up after a start that has failed.
Leave == owner \in {"in", "out"} /\ CloseFrom(1)

\* The await is over: the session is forgotten.
CloseHost == owner = "leaving" /\ CloseFrom(at + 1)

\* The await raises or the owner is cancelled in it: the session is closed but
\* not forgotten, and those of the hosts behind stay open.  Bound: once, until
\* a close runs to its end.
Abandon ==
    /\ owner = "leaving"
    /\ {h \in Hosts : session[h] = "closing"} = {facade.hosts[at]}
    /\ owner' = "out"
    /\ at' = 0
    /\ UNCHANGED <<facade, badUrl, session, callVars, hostVars, token>>

-----------------------------------------------------------------------------
(* A call. *)

\* The error of its own that a 429 maps to is told apart by nothing here.
MapHttpError(s) == IF s = "auth" THEN "auth_error" ELSE "api_error"

\* Variant: ping takes only a refused token for a failure.
Faulty_Returned(c, x) ==
    IF op[c] = "ping" /\ x \in DomainErrors
    THEN IF x = "auth_error" THEN "false" ELSE "ok"
    ELSE x

\* ping returns False where the other endpoints raise an error of the domain.
Returned(c, x) == IF op[c] = "ping" /\ x \in DomainErrors THEN "false" ELSE x

Finish(c, x) ==
    /\ pc' = [pc EXCEPT ![c] = "done"]
    /\ result' = [result EXCEPT ![c] = Returned(c, x)]
    /\ op' = [op EXCEPT ![c] = "ping"]
    /\ attempts' = [attempts EXCEPT ![c] = 0]
    /\ status' = [status EXCEPT ![c] = "ok"]
    /\ vouched' = IF x = "ok" THEN vouched ELSE vouched \ {c}

Goes(c, phase) == pc' = [pc EXCEPT ![c] = phase]

\* One more, up to the threshold.
More(n) == IF n < Threshold THEN n + 1 ELSE n

\* Variant: the clients of all hosts share one breaker.
Faulty_Fails(h, silence) ==
    /\ streak' = [g \in Hosts |-> More(streak[g])]
    /\ silent' = [silent EXCEPT ![h] = IF silence THEN More(@) ELSE 0]
    /\ trouble' = [trouble EXCEPT ![h] = More(@)]

\* The attempt at host h raises inside its breaker.
Fails(h, silence) ==
    /\ streak' = [streak EXCEPT ![h] = More(@)]
    /\ silent' = [silent EXCEPT ![h] = IF silence THEN More(@) ELSE 0]
    /\ trouble' = [trouble EXCEPT ![h] = More(@)]

\* Variant: stop_after_attempt counts the retries without the first attempt.
Faulty_Again(c, error) ==
    IF MethodOf(c) = "GET" /\ attempts[c] <= MaxRetries + 1
    THEN Goes(c, "backoff") /\ UNCHANGED <<op, attempts, status, result, vouched>>
    ELSE Finish(c, error)

\* tenacity: another attempt, for GET, or the error.
Again(c, error) ==
    IF MethodOf(c) = "GET" /\ attempts[c] <= MaxRetries
    THEN Goes(c, "backoff") /\ UNCHANGED <<op, attempts, status, result, vouched>>
    ELSE Finish(c, error)

\* An attempt of call c of endpoint e: refused by the breaker, or admitted and
\* sent, or failed because the session has been closed.
Attempt(c, e) ==
    LET h == facade.endpoints[e].host IN
    \/ /\ streak[h] = Threshold
       /\ Finish(c, "other_error")
       /\ UNCHANGED hostVars
    \/ /\ session[h] = "open"
       /\ Goes(c, "calling")
       /\ op' = [op EXCEPT ![c] = e]
       /\ attempts' = [attempts EXCEPT ![c] = @ + 1]
       /\ result' = [result EXCEPT ![c] = "none"]
       /\ vouched' = IF token = "valid" THEN vouched \cup {c} ELSE vouched \ {c}
       /\ UNCHANGED <<status, hostVars>>
    \/ /\ session[h] # "open"
       /\ Finish(c, "other_error")
       /\ Fails(h, TRUE)

\* An endpoint is called.  A bad argument, and a client that is not started,
\* raise before the breaker is asked.
Call(c, e) ==
    LET h == facade.endpoints[e].host IN
    /\ pc[c] = "done"
    /\ \/ /\ session[h] # "none"
          /\ Attempt(c, e)
       \/ /\ session[h] = "none" \/ facade.endpoints[e].checked
          /\ Finish(c, "other_error")
          /\ UNCHANGED hostVars
    /\ UNCHANGED <<facadeVars, token>>

\* The pause before another attempt is over.
Retry(c) ==
    /\ pc[c] = "backoff"
    /\ Attempt(c, op[c])
    /\ UNCHANGED <<facadeVars, token>>

\* No response: a connection error, the timeout, a session closed meanwhile, or an
\* error that is not retried, such as arguments aiohttp rejects before it sends.
NoResponse(c) ==
    /\ pc[c] \in {"calling", "cut"}
    /\ Fails(HostOf(c), TRUE)
    /\ Again(c, "other_error") \/ Finish(c, "other_error")
    /\ UNCHANGED <<facadeVars, token>>

\* A transient status of a GET raises inside the breaker and is retried; so does
\* the reading of its body, with an error that may not be.
RespondTransient(c) ==
    /\ pc[c] = "calling"
    /\ MethodOf(c) = "GET"
    /\ Fails(HostOf(c), FALSE)
    /\ Again(c, MapHttpError("transient")) \/ Finish(c, "other_error")
    /\ UNCHANGED <<facadeVars, token>>

Says(s) ==
    /\ s = "ok" => token = "valid"
    /\ s = "auth" => token = "revoked"

\* Every other response is a success of the breaker, that of a POST too.
Respond(c, s) ==
    /\ pc[c] = "calling"
    /\ Says(s)
    /\ s = "transient" => MethodOf(c) = "POST"
    /\ Goes(c, "reading")
    /\ status' = [status EXCEPT ![c] = s]
    /\ streak' = [streak EXCEPT ![HostOf(c)] = 0]
    /\ silent' = [silent EXCEPT ![HostOf(c)] = 0]
    /\ trouble' = [trouble EXCEPT ![HostOf(c)] =
                      IF s = "transient" THEN More(@) ELSE 0]
    /\ UNCHANGED <<facadeVars, op, attempts, result, vouched, token>>

\* _read_json and what the endpoint makes of the payload: reading, parsing or
\* validating it may raise, and a payload of stocks is to be a list.
Read(c) ==
    /\ pc[c] = "reading"
    /\ \E x \in {IF status[c] = "ok" THEN "ok" ELSE MapHttpError(status[c]),
                 IF op[c] = "list_stocks" /\ status[c] = "ok"
                 THEN "api_error" ELSE "other_error",
                 "other_error"} :
          Finish(c, x)
    /\ UNCHANGED <<facadeVars, hostVars, token>>

\* The calling task is cancelled.
Cancel(c) ==
    /\ pc[c] # "done"
    /\ Finish(c, "other_error")
    /\ UNCHANGED <<facadeVars, hostVars, token>>

\* The seller revokes the token.
Revoke ==
    /\ token = "valid"
    /\ token' = "revoked"
    /\ UNCHANGED <<facadeVars, callVars, hostVars>>

-----------------------------------------------------------------------------

Next ==
    \/ Start \/ Leave \/ CloseHost \/ Abandon \/ Revoke
    \/ \E c \in Calls :
          \/ \E e \in Used \cap DOMAIN facade.endpoints : Call(c, e)
          \/ \E s \in Statuses : Respond(c, s)
          \/ RespondTransient(c) \/ NoResponse(c) \/ Retry(c) \/ Read(c) \/ Cancel(c)

Spec == Init /\ [][Next]_vars

-----------------------------------------------------------------------------

(* "a 200 means the token is valid" (wildberries/client.py:150): whatever
   outages, rate limits and retries come in between, an endpoint that returns
   (ping: True) was sent with a good token, and a call raises the
   authentication error only if the token has been revoked. *)
TokenIsJudgedRightly ==
    \A c \in Calls :
        /\ result[c] = "ok" => c \in vouched
        /\ result[c] = "auth_error" => token = "revoked"

(* A breaker follows its own host: it counts every attempt at that host that
   ends without a response, those that fail before they are sent among them, and
   nothing that another host, a refused token or another status that is not
   transient brings about.  (Between the two bounds are transient answers: they
   count if the method is GET and reset the count if it is POST.) *)
BreakersFollowTheirHosts ==
    \A h \in Hosts : silent[h] <= streak[h] /\ streak[h] <= trouble[h]

(* However a start failed or an earlier close was interrupted, a close that
   runs to its end leaves no session behind. *)
CloseClosesAll == owner = "left" => \A h \in Hosts : session[h] = "none"

=============================================================================
