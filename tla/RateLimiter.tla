----------------------------- MODULE RateLimiter -----------------------------
(***************************************************************************)
(* helpers_core.cache.throttler.RedisRateLimiter for one key: the callers  *)
(* (the replicas of a bot, or the updates one of them handles at a time)   *)
(* send the Lua script to a Redis they share and decide on its reply.      *)
(* Redis runs a script in one step; what is concurrent is the sending, the *)
(* replies, which arrive late or not at all, the expiry of the key and a   *)
(* restart that loses the newest writes (appendonly, fsync every second).  *)
(*                                                                         *)
(* The counter saturates above Limit, since the code only ever compares it *)
(* with Limit.  Time passes in ticks; Window of them make window_seconds.  *)
(***************************************************************************)
EXTENDS Naturals, FiniteSets

CONSTANTS
    Callers,     \* the tasks, of whatever process, that hit this key
    Limit,       \* limit of the constructor
    Window,      \* window_seconds, in ticks
    MaxPerTick,  \* bound: scripts run between two ticks
    MaxRestarts  \* bound: restarts of Redis

\* The constructor raises ValueError unless both are positive.
ASSUME LimitAssumption  == Limit \in Nat \ {0}
ASSUME WindowAssumption == Window \in Nat \ {0}
ASSUME BoundAssumption  == MaxPerTick \in Nat /\ MaxRestarts \in Nat

VARIABLES
    count,     \* value of the key, 0 if there is none, at most Limit + 1
    ttl,       \* ticks left to the key, 0 if it has no expiry
    call,      \* phase of each caller, or its decision
    current,   \* the reply under way to each caller
    restarts,  \* restarts of Redis so far
    hits,      \* observation: scripts run in this tick, the last one, ...
    passed,    \* observation: those of them that let their callers through
    lost       \* observation: the counts that restarts have taken away

vars == <<count, ttl, call, current, restarts, hits, passed, lost>>

Decisions == {"none", "allowed", "denied", "error"}

\* The ticks a window reaches back, the present one included.
Ages == 0..(Window - 1)

TypeOK ==
    /\ count \in 0..(Limit + 1)
    /\ ttl \in 0..Window
    /\ call \in [Callers -> Decisions \cup {"sent", "replied"}]
    /\ current \in [Callers -> 0..(Limit + 1)]
    /\ restarts \in 0..MaxRestarts
    /\ hits \in [Ages -> 0..MaxPerTick]
    /\ passed \in [Ages -> 0..MaxPerTick]
    /\ lost \in Nat

Init ==
    /\ count = 0
    /\ ttl = 0
    /\ call = [c \in Callers |-> "none"]
    /\ current = [c \in Callers |-> 0]
    /\ restarts = 0
    /\ hits = [a \in Ages |-> 0]
    /\ passed = [a \in Ages |-> 0]
    /\ lost = 0

Saturated(n) == IF n > Limit THEN Limit + 1 ELSE n

-----------------------------------------------------------------------------

\* hit, up to the await of the script's reply.
Hit(c) ==
    /\ call[c] \in Decisions
    /\ call' = [call EXCEPT ![c] = "sent"]
    /\ UNCHANGED <<count, ttl, current, restarts, hits, passed, lost>>

\* Variant: the expiry is renewed by every hit.
Faulty_Script ==
    /\ count' = Saturated(count + 1)
    /\ ttl' = Window

\* Variant: the key lives a tick too long.
Faulty_ScriptLong ==
    /\ count' = Saturated(count + 1)
    /\ ttl' = IF count + 1 = 1 THEN Window + 1 ELSE ttl

\* Variant: seconds where PEXPIRE takes milliseconds.
Faulty_ScriptShort ==
    /\ count' = Saturated(count + 1)
    /\ ttl' = IF count + 1 = 1 THEN 1 ELSE ttl

\* Variant: the value before INCR is compared.
Faulty_ScriptStale ==
    /\ count' = Saturated(count + 1)
    /\ ttl' = IF count = 1 THEN Window ELSE ttl

\* INCR, and PEXPIRE by the hit that created the key.
Script ==
    /\ count' = Saturated(count + 1)
    /\ ttl' = IF count + 1 = 1 THEN Window ELSE ttl

Allowed(n) == n <= Limit

\* Redis runs the script that c has sent.
Execute(c) ==
    /\ call[c] = "sent"
    /\ hits[0] < MaxPerTick
    /\ Script
    /\ call' = [call EXCEPT ![c] = "replied"]
    /\ current' = [current EXCEPT ![c] = count']
    /\ hits' = [hits EXCEPT ![0] = @ + 1]
    /\ passed' = IF Allowed(count') THEN [passed EXCEPT ![0] = @ + 1] ELSE passed
    /\ UNCHANGED <<restarts, lost>>

\* The reply arrives.
Decide(c) ==
    /\ call[c] = "replied"
    /\ call' = [call EXCEPT ![c] = IF Allowed(current[c]) THEN "allowed" ELSE "denied"]
    /\ current' = [current EXCEPT ![c] = 0]
    /\ UNCHANGED <<count, ttl, restarts, hits, passed, lost>>

\* The connection breaks, before or after the script has run: hit raises, or
\* the Redis client sends the script again.
Break(c) ==
    /\ call[c] \in {"sent", "replied"}
    /\ call' \in {[call EXCEPT ![c] = x] : x \in {"error", "sent"}}
    /\ current' = [current EXCEPT ![c] = 0]
    /\ UNCHANGED <<count, ttl, restarts, hits, passed, lost>>

\* Redis comes back without its newest writes; a script is undone as a whole.
Restart ==
    /\ restarts < MaxRestarts
    /\ restarts' = restarts + 1
    /\ count' \in 0..count
    /\ ttl' = IF count' = 0 THEN 0 ELSE ttl
    /\ lost' = lost + (count - count')
    /\ UNCHANGED <<call, current, hits, passed>>

\* A tick older.
Aged(f) == [a \in Ages |-> IF a = 0 THEN 0 ELSE f[a - 1]]

Tick ==
    /\ ttl' = IF ttl = 0 THEN 0 ELSE ttl - 1
    /\ count' = IF ttl = 1 THEN 0 ELSE count
    /\ hits' = Aged(hits)
    /\ passed' = Aged(passed)
    /\ UNCHANGED <<call, current, restarts, lost>>

Next ==
    \/ \E c \in Callers : Hit(c) \/ Execute(c) \/ Decide(c) \/ Break(c)
    \/ Restart
    \/ Tick

\* Time passes.
Spec == Init /\ [][Next]_vars /\ WF_vars(Tick)

-----------------------------------------------------------------------------

\* The scripts of the last window that f counts tick by tick, each by the age
\* of its tick and its number in it, and how many they are.
Logged(f) == {d \in Ages \X (1..MaxPerTick) : d[2] <= f[d[1]]}
InWindow(f) == Cardinality(Logged(f))

(* No key is without an expiry: whatever replies get lost and restarts come
   in between, no user is throttled for good by a counter nothing removes. *)
NoImmortalKey == count > 0 => ttl > 0

(* "good enough for anti-spam throttling (the exact window boundary drift of
   at most window_seconds ...)" (throttler.py:12): however many replicas share
   the key, no window's length of time sees more than twice the limit pass,
   except for the counts a restart of Redis has lost. *)
BurstBound == InWindow(passed) <= 2 * Limit + lost

(* A caller is denied only if more than Limit scripts have run for the key
   within the last window.  Scripts, not hits: one that is sent again after a
   broken connection counts twice for one request of the user. *)
DenialsAreEarned ==
    [][\A c \in Callers :
          call[c] = "sent" /\ call'[c] = "replied" /\ ~Allowed(current'[c])
              => InWindow(hits)' > Limit]_vars

(* A key at its limit is gone after a while, even if its user never stops:
   denied hits do not prolong the window. *)
ForgivenEventually == count > Limit ~> count = 0

=============================================================================
