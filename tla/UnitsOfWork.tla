---------------------------- MODULE UnitsOfWork ----------------------------
(***************************************************************************)
(* The units of work of one process over its engine's connection pool: the *)
(* requests of the Admin API, each with a session of its own (db_session), *)
(* and calls of SubscriptionRepository.set_balance within session_scope,   *)
(* which has the same shape.  A unit is a lookup (GET /users/{tg_id}), a   *)
(* probe (GET /readyz), or a set of one subscription's balance; no code    *)
(* calls set_balance yet, repositories.py:3-7 says who may.                *)
(*                                                                         *)
(* External: Postgres (READ COMMITTED, the unique constraint and the lock  *)
(* on the subscription's row), the pool, uvicorn (it stops accepting, then *)
(* waits for the requests under way) and Redis, which may be silent: the   *)
(* client has no socket timeout, so a PING then has neither answer nor     *)
(* error.                                                                  *)
(***************************************************************************)
EXTENDS Naturals, FiniteSets

CONSTANTS
    Units,
    KindOf,     \* of each unit: "lookup", "probe" or "set"
    Want,       \* the balance a unit sets
    Capacity,   \* connections of the pool: pool_size + max_overflow
    Absent,     \* no row
    Nobody      \* no unit

ASSUME UnitsOfWorkAssumption ==
    /\ \A u \in Units : KindOf[u] \in {"lookup", "probe", "set"}
    /\ \A u \in Units : Want[u] \in Nat
    /\ Capacity \in Nat \ {0}
    /\ Absent \notin Nat /\ Nobody \notin Units

VARIABLES
    server,    \* the process: serving, draining its requests, or down
    redis,     \* external: does Redis answer?
    phase,     \* of each unit
    out,       \* the units that hold a connection of the pool
    succeeded, \* the sets that returned, and did not raise, last
    balance,   \* the committed row of the subscription, or Absent
    writer,    \* the unit whose open transaction has written it
    seen       \* observation: units whose balance was the committed one since they began

unitsVars == <<server, redis, phase, out, succeeded, balance, writer, seen>>

Connected == {"querying", "pinging", "inserting", "updating", "ending"}

UnitsTypeOK ==
    /\ server \in {"serving", "draining", "down"}
    /\ redis \in {"answers", "silent"}
    /\ phase \in [Units -> {"idle", "waiting"} \cup Connected]
    /\ out = {u \in Units : phase[u] \in Connected}
    /\ Cardinality(out) <= Capacity
    /\ succeeded \subseteq {u \in Units : KindOf[u] = "set"}
    /\ balance \in {Want[u] : u \in Units} \cup {Absent}
    /\ writer \in {Nobody} \cup {u \in out : KindOf[u] = "set"}
    /\ seen \subseteq {u \in Units : KindOf[u] = "set"}

UnitsInit ==
    /\ server = "serving"
    /\ redis = "answers"
    /\ phase = [u \in Units |-> "idle"]
    /\ out = {}
    /\ succeeded = {}
    /\ balance = Absent
    /\ writer = Nobody
    /\ seen = {}

-----------------------------------------------------------------------------

Goes(u, p) == phase' = [phase EXCEPT ![u] = p]

\* The unit is over; the session, if it was used, gives its connection back.
Ends(u, well) ==
    /\ Goes(u, "idle")
    /\ succeeded' = IF well /\ KindOf[u] = "set"
                    THEN succeeded \cup {u} ELSE succeeded \ {u}
    /\ out' = out \ {u}
    /\ writer' = IF writer = u THEN Nobody ELSE writer

\* Variant: after an error the session is left open.
Faulty_RolledBack(u) ==
    /\ Goes(u, "idle")
    /\ succeeded' = succeeded \ {u}
    /\ writer' = IF writer = u THEN Nobody ELSE writer
    /\ UNCHANGED <<out, balance, seen>>

\* The block raises: rollback, and the session is closed.
RolledBack(u) == Ends(u, FALSE) /\ UNCHANGED <<balance, seen>>

\* The row as u leaves it, of which the sets under way take note.
Committed(u) ==
    /\ balance' = IF writer = u THEN Want[u] ELSE balance
    /\ seen' = IF writer = u
               THEN seen \cup {v \in Units : phase[v] # "idle" /\ KindOf[v] = "set"
                                                               /\ Want[v] = Want[u]}
               ELSE seen

\* The block ends: commit, and the session is closed.
Commit(u) ==
    /\ phase[u] = "ending"
    /\ Committed(u)
    /\ Ends(u, TRUE)
    /\ UNCHANGED <<server, redis>>

\* A statement or the commit fails (which may have taken effect for all that),
\* or the caller is cancelled.
Fail(u) ==
    /\ phase[u] \in Connected
    /\ \/ RolledBack(u)
       \/ phase[u] = "ending" /\ Committed(u) /\ Ends(u, FALSE)
    /\ UNCHANGED <<server, redis>>

-----------------------------------------------------------------------------
(* Units begin and come by a connection, at their first statement. *)

\* A lookup without the admin token is refused before it has a session.
Begin(u) ==
    /\ server = "serving"
    /\ phase[u] = "idle"
    /\ Goes(u, "waiting")
    /\ succeeded' = succeeded \ {u}
    /\ seen' = IF KindOf[u] = "set" /\ balance = Want[u]
               THEN seen \cup {u} ELSE seen \ {u}
    /\ UNCHANGED <<server, redis, out, balance, writer>>

Acquire(u) ==
    /\ phase[u] = "waiting"
    /\ Cardinality(out) < Capacity
    /\ out' = out \cup {u}
    /\ Goes(u, "querying")
    /\ UNCHANGED <<server, redis, succeeded, balance, writer, seen>>

\* Variant: the pool waits for as long as it takes.
Faulty_TimesOut(u) == FALSE

\* pool_timeout passes, or no connection can be made.
TimesOut(u) ==
    /\ phase[u] = "waiting"
    /\ RolledBack(u)
    /\ UNCHANGED <<server, redis>>

-----------------------------------------------------------------------------
(* What the units do with it. *)

\* GET /users/{tg_id}: the user, or 404.
Lookup(u) ==
    /\ phase[u] = "querying"
    /\ KindOf[u] = "lookup"
    /\ \/ Goes(u, "ending") /\ UNCHANGED <<out, succeeded, balance, writer, seen>>
       \/ RolledBack(u)
    /\ UNCHANGED <<server, redis>>

\* GET /readyz: SELECT 1 ...
Probe(u) ==
    /\ phase[u] = "querying"
    /\ KindOf[u] = "probe"
    /\ Goes(u, "pinging")
    /\ UNCHANGED <<server, redis, out, succeeded, balance, writer, seen>>

\* ... then PING, with the connection still out.
Ping(u) ==
    /\ phase[u] = "pinging"
    /\ redis = "answers"
    /\ Goes(u, "ending")
    /\ UNCHANGED <<server, redis, out, succeeded, balance, writer, seen>>

\* set_balance reads the row, and has nothing to flush if it finds it as wanted.
ReadBalance(u) ==
    /\ phase[u] = "querying"
    /\ KindOf[u] = "set"
    /\ Goes(u, IF balance = Absent THEN "inserting"
               ELSE IF balance = Want[u] THEN "ending" ELSE "updating")
    /\ UNCHANGED <<server, redis, out, succeeded, balance, writer, seen>>

\* Variant: INSERT ... ON CONFLICT DO NOTHING.
Faulty_Insert(u) ==
    /\ phase[u] = "inserting"
    /\ writer = Nobody
    /\ Goes(u, "ending")
    /\ writer' = IF balance = Absent THEN u ELSE Nobody
    /\ UNCHANGED <<server, redis, out, succeeded, balance, seen>>

\* flush of a new row: it waits for another's uncommitted one, and violates the
\* unique constraint if there is a row by then.
Insert(u) ==
    /\ phase[u] = "inserting"
    /\ writer = Nobody
    /\ IF balance = Absent
       THEN /\ Goes(u, "ending")
            /\ writer' = u
            /\ UNCHANGED <<out, succeeded, balance, seen>>
       ELSE RolledBack(u)
    /\ UNCHANGED <<server, redis>>

\* flush of a changed row: it waits for the row's lock.
Update(u) ==
    /\ phase[u] = "updating"
    /\ writer = Nobody
    /\ Goes(u, "ending")
    /\ writer' = u
    /\ UNCHANGED <<server, redis, out, succeeded, balance, seen>>

-----------------------------------------------------------------------------
(* The process and its surroundings. *)

RedisFalters ==
    /\ redis' = IF redis = "answers" THEN "silent" ELSE "answers"
    /\ UNCHANGED <<server, phase, out, succeeded, balance, writer, seen>>

\* SIGTERM: no more requests are accepted.
Terminate ==
    /\ server = "serving"
    /\ server' = "draining"
    /\ UNCHANGED <<redis, phase, out, succeeded, balance, writer, seen>>

\* The lifespan's end, after the last request: the Redis client is closed and
\* the engine disposed of.
Shutdown ==
    /\ server = "draining"
    /\ \A u \in Units : phase[u] = "idle"
    /\ server' = "down"
    /\ UNCHANGED <<redis, phase, out, succeeded, balance, writer, seen>>

\* The process is started again, with an engine and a client of its own.
Boot ==
    /\ server = "down"
    /\ server' = "serving"
    /\ UNCHANGED <<redis, phase, out, succeeded, balance, writer, seen>>

-----------------------------------------------------------------------------

Statement(u) ==
    Lookup(u) \/ Probe(u) \/ Ping(u) \/ ReadBalance(u) \/ Insert(u) \/ Update(u)

UnitsNext ==
    \/ \E u \in Units :
          Begin(u) \/ Acquire(u) \/ TimesOut(u) \/ Statement(u) \/ Commit(u) \/ Fail(u)
    \/ RedisFalters \/ Terminate \/ Shutdown \/ Boot

\* A wait for a connection ends in one or in pool_timeout, a statement that waits
\* for no one is done or fails, and the locks of Postgres are first come, first
\* served.
Fairness ==
    \A u \in Units :
        /\ WF_unitsVars(Acquire(u) \/ TimesOut(u))
        /\ WF_unitsVars(Statement(u) \/ Commit(u))
        /\ SF_unitsVars(Insert(u) \/ Update(u))

UnitsSpec == UnitsInit /\ [][UnitsNext]_unitsVars /\ Fairness

-----------------------------------------------------------------------------

(* set_balance writes an absolute value after a read that may be stale when it
   writes (repositories.py:77-83).  Whatever others set meanwhile, a call that
   returns without an error has set the balance: it was the committed one at
   some time between the call's beginning and its end. *)
SetTakesEffect == succeeded \subseteq seen

(* Lookups and sets end even if Redis is silent for ever and probes, each with
   a connection in hand, have emptied the pool: the pool's timeout ends the
   wait.  Of the probes themselves it is not true. *)
EveryUnitEnds ==
    \A u \in Units :
        KindOf[u] # "probe" => (phase[u] # "idle" ~> phase[u] = "idle")

=============================================================================
