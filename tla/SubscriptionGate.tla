-------------------------- MODULE SubscriptionGate --------------------------
(***************************************************************************)
(* SubscriptionChecker of helpers_core.telegram: is a user a member of a   *)
(* channel?  Telegram's answers are kept in Redis for cache_ttl_seconds.   *)
(* One channel and one user, hence one key, and any number of handlers, in *)
(* any process, that ask at once.                                          *)
(*                                                                         *)
(* External: Telegram, where the status of the user changes at any time,   *)
(* and Redis, which takes commands one by one and drops a key whose expiry *)
(* has passed.                                                             *)
(***************************************************************************)
EXTENDS Naturals

CONSTANTS
    Checkers,   \* the handlers that ask
    Ttl,        \* cache_ttl_seconds, in ticks
    MaxFlight   \* bound: ticks from Telegram's answer to the SET in Redis

ASSUME SubscriptionGateAssumption == Ttl \in Nat \ {0} /\ MaxFlight \in Nat

AllowedStatuses == {"creator", "administrator", "member", "restricted"}
NegativeStatuses == {"left", "kicked"}
Statuses == AllowedStatuses \cup NegativeStatuses

Subscribed(status) == IF status \in AllowedStatuses \ NegativeStatuses THEN "1" ELSE "0"

VARIABLES
    status,   \* external: what Telegram would answer
    cache,    \* the key in Redis: "none" or the value cached
    expiry,   \* ticks it has left
    pc,       \* where each checker is in is_subscribed
    found,    \* what it was told by Telegram
    flight,   \* ticks since
    answer,   \* what it returned last: "failed" is False after an API error
    lag       \* observation: ticks since the user last was, or was not, a member

gateVars == <<status, cache, expiry, pc, found, flight, answer, lag>>
checkVars == <<pc, found, flight, answer>>

Values == {"0", "1"}
MaxLag == Ttl + MaxFlight

GateTypeOK ==
    /\ status \in Statuses
    /\ cache \in Values \cup {"none"}
    /\ expiry \in 0..Ttl
    /\ cache = "none" <=> expiry = 0
    /\ pc \in [Checkers -> {"done", "looking", "asking", "storing"}]
    /\ found \in [Checkers -> Values]
    /\ flight \in [Checkers -> 0..MaxFlight]
    /\ answer \in [Checkers -> Values \cup {"none", "failed", "raised"}]
    /\ lag \in [Values -> 0..(MaxLag + 1)]

GateInit ==
    /\ status \in Statuses
    /\ cache = "none"
    /\ expiry = 0
    /\ pc = [k \in Checkers |-> "done"]
    /\ found = [k \in Checkers |-> "0"]
    /\ flight = [k \in Checkers |-> 0]
    /\ answer = [k \in Checkers |-> "none"]
    /\ lag = [v \in Values |-> IF v = Subscribed(status) THEN 0 ELSE MaxLag + 1]

-----------------------------------------------------------------------------

\* is_subscribed returns, or raises.
Give(k, v) ==
    /\ pc' = [pc EXCEPT ![k] = "done"]
    /\ answer' = [answer EXCEPT ![k] = v]
    /\ found' = [found EXCEPT ![k] = "0"]
    /\ flight' = [flight EXCEPT ![k] = 0]

\* A handler asks.
Ask(k) ==
    /\ pc[k] = "done"
    /\ pc' = [pc EXCEPT ![k] = "looking"]
    /\ answer' = [answer EXCEPT ![k] = "none"]
    /\ UNCHANGED <<status, cache, expiry, found, flight, lag>>

\* GET: a hit is the answer.
Look(k) ==
    /\ pc[k] = "looking"
    /\ IF cache # "none"
       THEN Give(k, cache)
       ELSE /\ pc' = [pc EXCEPT ![k] = "asking"]
            /\ UNCHANGED <<found, flight, answer>>
    /\ UNCHANGED <<status, cache, expiry, lag>>

\* Telegram answers getChatMember ...
Learn(k) ==
    /\ pc[k] = "asking"
    /\ pc' = [pc EXCEPT ![k] = "storing"]
    /\ found' = [found EXCEPT ![k] = Subscribed(status)]
    /\ UNCHANGED <<status, cache, expiry, flight, answer, lag>>

\* Variant: that False is cached like the others.
Faulty_Fail(k) ==
    /\ pc[k] = "asking"
    /\ Give(k, "failed")
    /\ cache' = "0"
    /\ expiry' = Ttl
    /\ UNCHANGED <<status, lag>>

\* ... or the request fails, which is False for the handler and not cached.
Fail(k) ==
    /\ pc[k] = "asking"
    /\ Give(k, "failed")
    /\ UNCHANGED <<status, cache, expiry, lag>>

\* Variant: SET without an expiry.
Faulty_Cached(v) == cache' = v /\ expiry' = 0

\* SET with an expiry.
Cached(v) == cache' = v /\ expiry' = Ttl

\* Telegram's answer is cached and returned.
Store(k) ==
    /\ pc[k] = "storing"
    /\ Cached(found[k])
    /\ Give(k, found[k])
    /\ UNCHANGED <<status, lag>>

\* Redis raises, or the handler is cancelled: a SET may still take effect.
Abort(k) ==
    /\ pc[k] # "done"
    /\ Give(k, "raised")
    /\ IF pc[k] = "storing"
       THEN Cached(found[k]) \/ UNCHANGED <<cache, expiry>>
       ELSE UNCHANGED <<cache, expiry>>
    /\ UNCHANGED <<status, lag>>

\* The user joins, leaves, is promoted, restricted or banned.
Change ==
    /\ status' \in Statuses \ {status}
    /\ lag' = [lag EXCEPT ![Subscribed(status')] = 0]
    /\ UNCHANGED <<cache, expiry, checkVars>>

\* A unit of time.
Elapse ==
    /\ \A k \in Checkers : pc[k] = "storing" => flight[k] < MaxFlight
    /\ expiry' = IF expiry > 0 THEN expiry - 1 ELSE 0
    /\ cache' = IF expiry' = 0 THEN "none" ELSE cache
    /\ flight' = [k \in Checkers |->
                     IF pc[k] = "storing" THEN flight[k] + 1 ELSE flight[k]]
    /\ lag' = [v \in Values |->
                  IF v = Subscribed(status) \/ lag[v] > MaxLag THEN lag[v] ELSE lag[v] + 1]
    /\ UNCHANGED <<status, pc, found, answer>>

-----------------------------------------------------------------------------

GateNext ==
    \/ \E k \in Checkers :
          Ask(k) \/ Look(k) \/ Learn(k) \/ Fail(k) \/ Store(k) \/ Abort(k)
    \/ Change
    \/ Elapse

GateSpec == GateInit /\ [][GateNext]_gateVars

-----------------------------------------------------------------------------

(* "a Redis-cached getChatMember result (TTL 10 minutes)" (subs_check.py:5):
   of however many handlers, hits and writes that overtake each other, an
   answer is one that Telegram would have given at most cache_ttl_seconds and
   the flight of one SET ago.  An answer cached after the user has joined or
   left therefore misleads for that long and no longer. *)
AnswersAreFresh ==
    [][\A k \in Checkers :
          answer'[k] \in Values /\ answer[k] = "none" => lag'[answer'[k]] <= MaxLag]_gateVars

=============================================================================
