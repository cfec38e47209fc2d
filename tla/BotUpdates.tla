----------------------------- MODULE BotUpdates -----------------------------
(***************************************************************************)
(* The bots: each process polls Telegram and handles every update it gets  *)
(* in a task of its own, through the middlewares that build_bot_bundle     *)
(* registers (StructlogMiddleware, ErrorLoggingMiddleware,                 *)
(* ThrottlingMiddleware, DbSessionMiddleware) and the /start handler.  All *)
(* bots write the users table of one PostgreSQL database, where tg_id is   *)
(* unique, at isolation level READ COMMITTED.                              *)
(*                                                                         *)
(* A step is what a task does between two suspension points; the UPDATE of *)
(* a changed username is flushed by the commit and is one step with it.    *)
(*                                                                         *)
(* The middlewares are registered on dispatcher.update, so the event they  *)
(* see is an Update: it has no from_user, which is why ThrottlingMiddleware *)
(* passes every update on and no limiter appears here.                     *)
(***************************************************************************)
EXTENDS Naturals

CONSTANTS
    Bots,      \* bot processes
    Users,     \* Telegram users
    Updates,   \* /start messages sent to the bots
    BotOf,     \* the bot each update is for
    From,      \* its from_user
    NameIn,    \* the username it carries, or NoName
    Names,     \* usernames
    MaxFaults  \* bound: failed commits, queries, requests and pollings

NoName == "none"
Absent == "absent"

ASSUME UpdatesAssumption ==
    /\ BotOf \in [Updates -> Bots]
    /\ From \in [Updates -> Users]
    /\ NameIn \in [Updates -> Names \cup {NoName}]
    /\ Absent \notin Names
    /\ MaxFaults \in Nat

VARIABLES
    process,   \* phase of each process's _run
    open,      \* what each process's _run has still to close
    pc,        \* phase of each update
    outcome,   \* how its handling ended
    inserted,  \* updates whose open transaction has inserted the user's row
    renamed,   \* updates whose session holds a changed username
    row,       \* users, as committed: the username, or Absent
    faults     \* faults so far

processVars == <<process, open>>
vars == <<processVars, pc, outcome, inserted, renamed, row, faults>>

Resources == {"bot", "redis", "engine"}
InHand == {"selecting", "inserting", "answering", "committing"}
Outcomes == {"none", "ok", "telegram_error", "error", "cancelled"}

TypeOK ==
    /\ process \in [Bots -> {"polling", "deaf", "stopping", "closing", "exited"}]
    /\ open \in [Bots -> SUBSET Resources]
    /\ pc \in [Updates -> InHand \cup {"waiting", "done"}]
    /\ outcome \in [Updates -> Outcomes]
    /\ \A u \in Updates : pc[u] = "done" <=> outcome[u] # "none"
    /\ inserted \subseteq {u \in Updates : pc[u] \in {"answering", "committing"}}
    /\ renamed \subseteq {u \in Updates : pc[u] \in {"answering", "committing"}} \ inserted
    /\ row \in [Users -> Names \cup {NoName, Absent}]
    /\ faults \in 0..MaxFaults

Init ==
    /\ process = [b \in Bots |-> "polling"]
    /\ open = [b \in Bots |-> Resources]
    /\ pc = [u \in Updates |-> "waiting"]
    /\ outcome = [u \in Updates |-> "none"]
    /\ inserted = {}
    /\ renamed = {}
    /\ row = [x \in Users |-> Absent]
    /\ faults = 0

Fault ==
    /\ faults < MaxFaults
    /\ faults' = faults + 1

-----------------------------------------------------------------------------
(* The handling of an update. *)

\* Variant: the session stays open, and its locks are kept.
Faulty_End(u, o) ==
    /\ pc' = [pc EXCEPT ![u] = "done"]
    /\ outcome' = [outcome EXCEPT ![u] = o]
    /\ UNCHANGED <<inserted, renamed>>

\* The handling of u ends, its session is closed, what it has not committed is
\* rolled back, and ErrorLoggingMiddleware counts the outcome.
End(u, o) ==
    /\ pc' = [pc EXCEPT ![u] = "done"]
    /\ outcome' = [outcome EXCEPT ![u] = o]
    /\ inserted' = inserted \ {u}
    /\ renamed' = renamed \ {u}

\* The polling of its bot receives u and starts a task for it.
Fetch(u) ==
    /\ pc[u] = "waiting"
    /\ process[BotOf[u]] \in {"polling", "stopping"}
    /\ pc' = [pc EXCEPT ![u] = "selecting"]
    /\ UNCHANGED <<processVars, outcome, inserted, renamed, row, faults>>

\* Variant: a missing username replaces the stored one.
Faulty_Select(u) ==
    /\ pc[u] = "selecting"
    /\ IF row[From[u]] = Absent
       THEN /\ pc' = [pc EXCEPT ![u] = "inserting"]
            /\ UNCHANGED renamed
       ELSE /\ pc' = [pc EXCEPT ![u] = "answering"]
            /\ renamed' = IF NameIn[u] # row[From[u]] THEN renamed \cup {u} ELSE renamed
    /\ UNCHANGED <<processVars, outcome, inserted, row, faults>>

\* get_or_create: the SELECT.  A user without a username keeps the stored one.
Select(u) ==
    /\ pc[u] = "selecting"
    /\ IF row[From[u]] = Absent
       THEN /\ pc' = [pc EXCEPT ![u] = "inserting"]
            /\ UNCHANGED renamed
       ELSE /\ pc' = [pc EXCEPT ![u] = "answering"]
            /\ renamed' = IF NameIn[u] \notin {NoName, row[From[u]]}
                          THEN renamed \cup {u} ELSE renamed
    /\ UNCHANGED <<processVars, outcome, inserted, row, faults>>

\* Another open transaction has inserted the row that u is to insert.
Blocked(u) == \E v \in inserted \ {u} : From[v] = From[u]

\* Variant: a row that another transaction has only inserted is a conflict.
Faulty_Insert(u) ==
    /\ pc[u] = "inserting"
    /\ \/ /\ row[From[u]] = Absent /\ ~Blocked(u)
          /\ pc' = [pc EXCEPT ![u] = "answering"]
          /\ inserted' = inserted \cup {u}
          /\ UNCHANGED <<outcome, renamed>>
       \/ /\ row[From[u]] # Absent \/ Blocked(u)
          /\ End(u, "error")
    /\ UNCHANGED <<processVars, row, faults>>

\* get_or_create: the flush.  The unique index makes the INSERT wait for the
\* other transaction, and fail (IntegrityError) if that one has committed.
Insert(u) ==
    /\ pc[u] = "inserting"
    /\ ~Blocked(u)
    /\ \/ /\ row[From[u]] = Absent
          /\ pc' = [pc EXCEPT ![u] = "answering"]
          /\ inserted' = inserted \cup {u}
          /\ UNCHANGED <<outcome, renamed>>
       \/ /\ row[From[u]] # Absent
          /\ End(u, "error")
    /\ UNCHANGED <<processVars, row, faults>>

\* message.answer returns, and so does the handler.
Answer(u) ==
    /\ pc[u] = "answering"
    /\ pc' = [pc EXCEPT ![u] = "committing"]
    /\ UNCHANGED <<processVars, outcome, inserted, renamed, row, faults>>

\* The table after the commits of the updates in S.
Stored(S) ==
    LET by(x) == {u \in S \cap (inserted \cup renamed) : From[u] = x}
    IN  [x \in Users |-> IF by(x) = {} THEN row[x] ELSE NameIn[CHOOSE u \in by(x) : TRUE]]

\* Variant: the error is swallowed inside the session, which then commits.
Faulty_AnswerRefused(u) ==
    /\ pc[u] = "answering"
    /\ row' = Stored({u})
    /\ End(u, "telegram_error")
    /\ UNCHANGED <<processVars, faults>>

\* message.answer raises TelegramBadRequest or TelegramForbiddenError, say
\* because the user has blocked the bot.
AnswerRefused(u) ==
    /\ pc[u] = "answering"
    /\ End(u, "telegram_error")
    /\ UNCHANGED <<processVars, row, faults>>

\* Variant: the session is closed without a commit.
Faulty_Commit(u) ==
    /\ pc[u] = "committing"
    /\ End(u, "ok")
    /\ UNCHANGED <<processVars, row, faults>>

\* DbSessionMiddleware commits after the handler has returned.
Commit(u) ==
    /\ pc[u] = "committing"
    /\ row' = Stored({u})
    /\ End(u, "ok")
    /\ UNCHANGED <<processVars, faults>>

\* message.answer raises anything else, with the greeting delivered or not.
AnswerFails(u) ==
    /\ pc[u] = "answering"
    /\ Fault
    /\ End(u, "error")
    /\ UNCHANGED <<processVars, row>>

\* A query or the commit raises; a lost connection may hide a commit that has
\* taken effect.
DatabaseFails(u) ==
    /\ pc[u] \in {"selecting", "inserting", "committing"}
    /\ Fault
    /\ row' \in {row} \cup (IF pc[u] = "committing" THEN {Stored({u})} ELSE {})
    /\ End(u, "error")
    /\ UNCHANGED processVars

-----------------------------------------------------------------------------
(* The process: _run. *)

\* start_polling raises.  Nobody looks at its task before the signal.
PollingFails(b) ==
    /\ process[b] = "polling"
    /\ Fault
    /\ process' = [process EXCEPT ![b] = "deaf"]
    /\ UNCHANGED <<open, pc, outcome, inserted, renamed, row>>

\* _run returns or raises; asyncio.run cancels the tasks that are left.  A
\* commit that is under way may still take effect.
Exit(b) ==
    LET left == {u \in Updates : BotOf[u] = b /\ pc[u] \in InHand}
    IN  /\ process' = [process EXCEPT ![b] = "exited"]
        /\ pc' = [u \in Updates |-> IF u \in left THEN "done" ELSE pc[u]]
        /\ outcome' = [u \in Updates |-> IF u \in left THEN "cancelled" ELSE outcome[u]]
        /\ inserted' = inserted \ left
        /\ renamed' = renamed \ left
        /\ row' \in {Stored(S) : S \in SUBSET {u \in left : pc[u] = "committing"}}

\* SIGINT or SIGTERM sets stop_event, and _run calls stop_polling: it raises
\* RuntimeError, past the clean-up, if the dispatcher is not polling.
Signal(b) ==
    \/ /\ process[b] = "polling"
       /\ process' = [process EXCEPT ![b] = "stopping"]
       /\ UNCHANGED <<open, pc, outcome, inserted, renamed, row, faults>>
    \/ /\ process[b] = "deaf"
       /\ Exit(b)
       /\ UNCHANGED <<open, faults>>

\* stop_polling and the polling task return.
Stopped(b) ==
    /\ process[b] = "stopping"
    /\ process' = [process EXCEPT ![b] = "closing"]
    /\ UNCHANGED <<open, pc, outcome, inserted, renamed, row, faults>>

\* What _run closes next.
Closing(b) ==
    IF "bot" \in open[b] THEN "bot" ELSE IF "redis" \in open[b] THEN "redis" ELSE "engine"

\* _run closes one resource after another, while handlers may still be running:
\* what they open again nobody closes, and nothing here depends on.
Close(b) ==
    /\ process[b] = "closing"
    /\ open[b] # {}
    /\ open' = [open EXCEPT ![b] = @ \ {Closing(b)}]
    /\ UNCHANGED <<process, pc, outcome, inserted, renamed, row, faults>>

\* What _run awaits raises: the rest stays open.
CloseFails(b) ==
    /\ process[b] \in {"stopping", "closing"}
    /\ open[b] # {}
    /\ Fault
    /\ Exit(b)
    /\ UNCHANGED open

Leave(b) ==
    /\ process[b] = "closing"
    /\ open[b] = {}
    /\ Exit(b)
    /\ UNCHANGED <<open, faults>>

-----------------------------------------------------------------------------

Handle(u) == Select(u) \/ Insert(u) \/ Answer(u) \/ AnswerRefused(u) \/ Commit(u)

Next ==
    \/ \E u \in Updates : Fetch(u) \/ Handle(u) \/ AnswerFails(u) \/ DatabaseFails(u)
    \/ \E b \in Bots :
          \/ PollingFails(b) \/ Signal(b)
          \/ Stopped(b) \/ Close(b) \/ CloseFails(b) \/ Leave(b)

\* The event loop runs every task that can go on; time limits end every wait
\* for Telegram, and the only unlimited wait for PostgreSQL is Blocked.
Fairness == \A u \in Updates : WF_vars(Handle(u))

Spec == Init /\ [][Next]_vars /\ Fairness

-----------------------------------------------------------------------------

(* A user whose updates Telegram refused to answer, because the bot is
   blocked, say, has no row, although the row is inserted before the answer is
   sent and ErrorLoggingMiddleware swallows the refusal. *)
RefusedLeaveNoTrace ==
    \A x \in Users :
        (\A u \in Updates : From[u] = x => outcome[u] \in {"none", "telegram_error"})
        => row[x] = Absent

(* Without faults, an update fails only because another update of the same
   user has stored the row: a user is not turned away by a transaction that
   is rolled back in the end. *)
FailureNeedsWinner ==
    faults = 0 =>
        \A u \in Updates : outcome[u] = "error" => row[From[u]] # Absent

(* The user of an update that was handled to its end is stored, whatever the
   other bots did to the same user's row in between. *)
HandledIsStored == \A u \in Updates : outcome[u] = "ok" => row[From[u]] # Absent

(* A stored username is never lost to an update that carries none, not even
   to one that was handled when the user had no row yet. *)
NamesAreKept == [][\A x \in Users : row[x] \in Names => row'[x] \in Names]_vars

(* Every update a bot has begun to handle ends: no update waits for ever for
   the row lock of another one. *)
EveryUpdateEnds == \A u \in Updates : pc[u] \in InHand ~> pc[u] = "done"

=============================================================================
