---------------------------- MODULE TaskDispatch ----------------------------
(***************************************************************************)
(* Task reminders: Celery beat posts a dispatch message every minute, the  *)
(* broker keeps it, worker processes take it and run                       *)
(* worker.runtime.dispatch_due_task_notifications: read the rows due at    *)
(* the minute of the wall clock, send each reminder through Telegram,      *)
(* retire the one-shot rows, commit.  Messages are acknowledged after the  *)
(* run (task_acks_late), returned to the queue when the worker process is  *)
(* lost (task_reject_on_worker_lost) and published again, up to MaxRetries *)
(* times, when the run raises (autoretry_for).                             *)
(*                                                                         *)
(* A message carries nothing but its retry count.  A row's `data` is       *)
(* abstracted to the days on which _task_should_fire holds for it, or to   *)
(* the fact that evaluating it raises.                                     *)
(***************************************************************************)
EXTENDS Naturals

CONSTANTS
    Workers,        \* worker processes
    Tasks,          \* rows of the tasks table
    Once,           \* rows of kind ONCE
    Poison,         \* WEEKLY and MONTHLY rows whose data int() rejects
    DueAt,          \* notification_time of each row, a minute of the day
    FiresOn,        \* the days on which each row's kind and data let it fire
    MinutesPerDay,
    LastMinute,     \* bound: the clock stops here
    MaxRetries,     \* max_retries of the Celery task
    MaxFaults       \* bound: crashes, time limits, failed sends and database errors

ASSUME DispatchAssumption ==
    /\ MinutesPerDay \in Nat \ {0}
    /\ LastMinute \in Nat
    /\ MaxRetries \in Nat
    /\ MaxFaults \in Nat
    /\ Once \subseteq Tasks
    /\ Poison \subseteq Tasks \ Once
    /\ DueAt \in [Tasks -> 0..(MinutesPerDay - 1)]
    /\ FiresOn \in [Tasks -> SUBSET Nat]

VARIABLES
    clock,      \* the wall clock, in minutes since some midnight
    nextBeat,   \* the earliest minute of beat's next message
    queue,      \* messages waiting at the broker, by retry count
    pc,         \* phase of each worker
    retries,    \* retry count of the message in hand
    held,       \* does the broker hold that message for the worker's ack?
    minute,     \* now_t of the run: the minute of the day it captured
    todo,       \* rows its loop has still to visit
    current,    \* the row its loop is at
    retired,    \* rows its open transaction has deactivated, and locked
    active,     \* is_active of each row, as committed
    faults,     \* faults so far
    sent,       \* observation: reminders Telegram accepted, by row
    scans,      \* observation: runs that captured each minute of the day
    disturbed   \* observation: a fault, an aborted run, or overlapping runs

brokerVars == <<clock, nextBeat, queue>>
runVars == <<pc, retries, held, minute, todo, current, retired>>
observed == <<sent, scans, disturbed>>
vars == <<brokerVars, runVars, active, faults, observed>>

Phases == {"idle", "loading", "looping", "sending", "answered", "flushing",
           "failing", "acking"}

NoRow == "none"

TypeOK ==
    /\ clock \in 0..LastMinute
    /\ nextBeat \in 0..(LastMinute + 1)
    /\ queue \in [0..MaxRetries -> Nat]
    /\ pc \in [Workers -> Phases]
    /\ retries \in [Workers -> 0..MaxRetries]
    /\ held \in [Workers -> BOOLEAN]
    /\ minute \in [Workers -> 0..(MinutesPerDay - 1)]
    /\ todo \in [Workers -> SUBSET Tasks]
    /\ current \in [Workers -> Tasks \cup {NoRow}]
    /\ \A w \in Workers :
          pc[w] \in {"sending", "answered", "flushing"} => current[w] \in todo[w]
    /\ retired \in [Workers -> SUBSET Once]
    /\ active \in [Tasks -> BOOLEAN]
    /\ faults \in 0..MaxFaults
    /\ sent \in [Tasks -> Nat]
    /\ scans \in [0..(MinutesPerDay - 1) -> Nat]
    /\ disturbed \in BOOLEAN

Init ==
    /\ clock = 0
    /\ nextBeat = 0
    /\ queue = [n \in 0..MaxRetries |-> 0]
    /\ pc = [w \in Workers |-> "idle"]
    /\ retries = [w \in Workers |-> 0]
    /\ held = [w \in Workers |-> FALSE]
    /\ minute = [w \in Workers |-> 0]
    /\ todo = [w \in Workers |-> {}]
    /\ current = [w \in Workers |-> NoRow]
    /\ retired = [w \in Workers |-> {}]
    /\ active = [t \in Tasks |-> TRUE]
    /\ faults = 0
    /\ sent = [t \in Tasks |-> 0]
    /\ scans = [m \in 0..(MinutesPerDay - 1) |-> 0]
    /\ disturbed = FALSE

-----------------------------------------------------------------------------
(* The clock and beat. *)

Tick ==
    /\ clock < LastMinute
    /\ clock' = clock + 1
    /\ UNCHANGED <<nextBeat, queue, runVars, active, faults, observed>>

\* Beat posts at most once a minute and does not make up for minutes it missed.
Beat ==
    /\ nextBeat <= clock
    /\ nextBeat' = clock + 1
    /\ queue' = [queue EXCEPT ![0] = @ + 1]
    /\ UNCHANGED <<clock, runVars, active, faults, observed>>

-----------------------------------------------------------------------------
(* A run of dispatch_due_task_notifications. *)

\* The worker takes a message and the run captures the minute.
Take(w) ==
    /\ pc[w] = "idle"
    /\ \E n \in 0..MaxRetries :
          /\ queue[n] > 0
          /\ queue' = [queue EXCEPT ![n] = @ - 1]
          /\ retries' = [retries EXCEPT ![w] = n]
    /\ held' = [held EXCEPT ![w] = TRUE]
    /\ pc' = [pc EXCEPT ![w] = "loading"]
    /\ minute' = [minute EXCEPT ![w] = clock % MinutesPerDay]
    /\ scans' = [scans EXCEPT ![clock % MinutesPerDay] = @ + 1]
    /\ disturbed' = (disturbed \/ \E v \in Workers \ {w} : pc[v] # "idle")
    /\ UNCHANGED <<clock, nextBeat, todo, current, retired, active, faults, sent>>

\* list_due reads the committed rows.
Load(w) ==
    /\ pc[w] = "loading"
    /\ pc' = [pc EXCEPT ![w] = "looping"]
    /\ todo' = [todo EXCEPT ![w] = {t \in Tasks : active[t] /\ DueAt[t] = minute[w]}]
    /\ UNCHANGED <<brokerVars, retries, held, minute, current, retired, active, faults,
                   observed>>

\* Variant: no rollback, the transaction of the failed run stays open.
Faulty_Abort(w) ==
    /\ pc' = [pc EXCEPT ![w] = "failing"]
    /\ todo' = [todo EXCEPT ![w] = {}]
    /\ current' = [current EXCEPT ![w] = NoRow]
    /\ disturbed' = TRUE
    /\ UNCHANGED <<brokerVars, retries, held, minute, retired, active, sent, scans>>

\* The exception leaves session_scope: rollback, and the Celery task raises.
Abort(w) ==
    /\ pc' = [pc EXCEPT ![w] = "failing"]
    /\ todo' = [todo EXCEPT ![w] = {}]
    /\ current' = [current EXCEPT ![w] = NoRow]
    /\ retired' = [retired EXCEPT ![w] = {}]
    /\ disturbed' = TRUE
    /\ UNCHANGED <<brokerVars, retries, held, minute, active, sent, scans>>

\* The loop leaves the current row behind.
Advance(w, t) ==
    /\ pc' = [pc EXCEPT ![w] = "looping"]
    /\ todo' = [todo EXCEPT ![w] = @ \ {t}]
    /\ current' = [current EXCEPT ![w] = NoRow]

\* _task_should_fire reads the clock anew for every row ...
ShouldFire(t) == clock \div MinutesPerDay \in FiresOn[t]

\* Variant: a one-shot row is deactivated before it is sent.
Faulty_Begin(w, t) ==
    /\ pc[w] = "looping"
    /\ t \in todo[w] \ Poison
    /\ ShouldFire(t)
    /\ pc' = [pc EXCEPT ![w] = "sending"]
    /\ current' = [current EXCEPT ![w] = t]
    /\ retired' = [retired EXCEPT ![w] = @ \cup ({t} \cap Once)]
    /\ UNCHANGED <<brokerVars, retries, held, minute, todo, active, faults, observed>>

Begin(w, t) ==
    /\ pc[w] = "looping"
    /\ t \in todo[w] \ Poison
    /\ ShouldFire(t)
    /\ pc' = [pc EXCEPT ![w] = "sending"]
    /\ current' = [current EXCEPT ![w] = t]
    /\ UNCHANGED <<brokerVars, retries, held, minute, todo, retired, active, faults,
                   observed>>

\* Variant: break where the code has continue.
Faulty_Skip(w, t) ==
    /\ pc[w] = "looping"
    /\ t \in todo[w] \ Poison
    /\ ~ShouldFire(t)
    /\ todo' = [todo EXCEPT ![w] = {}]
    /\ UNCHANGED <<brokerVars, pc, retries, held, minute, current, retired, active,
                   faults, observed>>

Skip(w, t) ==
    /\ pc[w] = "looping"
    /\ t \in todo[w] \ Poison
    /\ ~ShouldFire(t)
    /\ Advance(w, t)
    /\ UNCHANGED <<brokerVars, retries, held, minute, retired, active, faults, observed>>

\* ... and outside the try block: what it raises ends the run.
Choke(w, t) ==
    /\ pc[w] = "looping"
    /\ t \in todo[w] \cap Poison
    /\ Abort(w)
    /\ UNCHANGED <<active, faults>>

\* Telegram accepts the message.
Deliver(w) ==
    /\ pc[w] = "sending"
    /\ pc' = [pc EXCEPT ![w] = "answered"]
    /\ sent' = [sent EXCEPT ![current[w]] = @ + 1]
    /\ UNCHANGED <<brokerVars, retries, held, minute, todo, current, retired, active,
                   faults, scans, disturbed>>

\* Variant: every row is deactivated after it is sent.
Faulty_Answer(w) ==
    /\ pc[w] = "answered"
    /\ pc' = [pc EXCEPT ![w] = "flushing"]
    /\ UNCHANGED <<brokerVars, retries, held, minute, todo, current, retired, active,
                   faults, observed>>

\* send_message returns: a ONCE row is deactivated next.
Answer(w) ==
    /\ pc[w] = "answered"
    /\ IF current[w] \in Once
       THEN pc' = [pc EXCEPT ![w] = "flushing"] /\ UNCHANGED <<todo, current>>
       ELSE Advance(w, current[w])
    /\ UNCHANGED <<brokerVars, retries, held, minute, retired, active, faults, observed>>

\* Another open transaction has updated the row that w is to update.
WaitsFor(w, v) ==
    /\ v # w
    /\ pc[w] = "flushing"
    /\ current[w] \in retired[v]

\* deactivate: the UPDATE gets its row lock.
Flush(w) ==
    /\ pc[w] = "flushing"
    /\ \A v \in Workers : ~WaitsFor(w, v)
    /\ retired' = [retired EXCEPT ![w] = @ \cup {current[w]}]
    /\ Advance(w, current[w])
    /\ UNCHANGED <<brokerVars, retries, held, minute, active, faults, observed>>

\* PostgreSQL resolves a cycle of waiting transactions by failing one of them.
\* The failed flush leaves a session that raises at its next use.
Deadlocked(w) ==
    \E S \in SUBSET Workers :
        w \in S /\ \A v \in S : \E u \in S : WaitsFor(v, u)

BreakDeadlock(w) ==
    /\ Deadlocked(w)
    /\ Abort(w)
    /\ UNCHANGED <<active, faults>>

\* Variant: the session is closed without a commit.
Faulty_Commit(w) ==
    /\ pc[w] = "looping"
    /\ todo[w] = {}
    /\ retired' = [retired EXCEPT ![w] = {}]
    /\ pc' = [pc EXCEPT ![w] = "acking"]
    /\ UNCHANGED <<brokerVars, retries, held, minute, todo, current, active, faults,
                   observed>>

\* The loop is over: session_scope commits.
Commit(w) ==
    /\ pc[w] = "looping"
    /\ todo[w] = {}
    /\ active' = [t \in Tasks |-> active[t] /\ t \notin retired[w]]
    /\ retired' = [retired EXCEPT ![w] = {}]
    /\ pc' = [pc EXCEPT ![w] = "acking"]
    /\ UNCHANGED <<brokerVars, retries, held, minute, todo, current, faults, observed>>

-----------------------------------------------------------------------------
(* Celery around the run. *)

\* autoretry_for: a copy is published with its retry count increased, unless
\* the retries are used up.
Republish(w) ==
    /\ pc[w] = "failing"
    /\ pc' = [pc EXCEPT ![w] = "acking"]
    /\ queue' = IF retries[w] < MaxRetries
                THEN [queue EXCEPT ![retries[w] + 1] = @ + 1]
                ELSE queue
    /\ UNCHANGED <<clock, nextBeat, retries, held, minute, todo, current, retired,
                   active, faults, observed>>

\* The message in hand and the captured minute are gone with the run.
Forget(w) ==
    /\ retries' = [retries EXCEPT ![w] = 0]
    /\ held' = [held EXCEPT ![w] = FALSE]
    /\ minute' = [minute EXCEPT ![w] = 0]

Ack(w) ==
    /\ pc[w] = "acking"
    /\ pc' = [pc EXCEPT ![w] = "idle"]
    /\ Forget(w)
    /\ UNCHANGED <<brokerVars, todo, current, retired, active, faults, observed>>

-----------------------------------------------------------------------------
(* Faults. *)

Fault ==
    /\ faults < MaxFaults
    /\ faults' = faults + 1

\* Variant: the row is tried again in the same run.
Faulty_SendFails(w) ==
    /\ pc[w] \in {"sending", "answered"}
    /\ Fault
    /\ pc' = [pc EXCEPT ![w] = "looping"]
    /\ current' = [current EXCEPT ![w] = NoRow]
    /\ disturbed' = TRUE
    /\ UNCHANGED <<brokerVars, retries, held, minute, todo, retired, active, sent, scans>>

\* send_message raises, before or after Telegram has accepted the message:
\* logged, and the loop goes on.
SendFails(w) ==
    /\ pc[w] \in {"sending", "answered"}
    /\ Fault
    /\ Advance(w, current[w])
    /\ disturbed' = TRUE
    /\ UNCHANGED <<brokerVars, retries, held, minute, retired, active, sent, scans>>

\* list_due, the flush of a deactivation or the commit raises.
DatabaseFails(w) ==
    /\ pc[w] \in {"loading", "flushing"} \/ (pc[w] = "looping" /\ todo[w] = {})
    /\ Fault
    /\ Abort(w)
    /\ UNCHANGED active

\* task_soft_time_limit: SoftTimeLimitExceeded ends the run wherever it is (in the
\* try block of a send it may be caught instead, which is SendFails).
SoftTimeLimit(w) ==
    /\ pc[w] \in {"loading", "looping", "sending", "answered", "flushing"}
    /\ Fault
    /\ Abort(w)
    /\ UNCHANGED active

\* The run fails with its rows committed: the commit's acknowledgement is lost, or
\* bot.session.close() raises behind session_scope.
FailsCommitted(w) ==
    /\ pc[w] = "looping"
    /\ todo[w] = {}
    /\ Fault
    /\ active' = [t \in Tasks |-> active[t] /\ t \notin retired[w]]
    /\ retired' = [retired EXCEPT ![w] = {}]
    /\ pc' = [pc EXCEPT ![w] = "failing"]
    /\ disturbed' = TRUE
    /\ UNCHANGED <<brokerVars, retries, held, minute, todo, current, sent, scans>>

\* The worker process ends with its transaction open or its message unacked.
Leave(w) ==
    /\ pc[w] # "idle"
    /\ Fault
    /\ pc' = [pc EXCEPT ![w] = "idle"]
    /\ todo' = [todo EXCEPT ![w] = {}]
    /\ current' = [current EXCEPT ![w] = NoRow]
    /\ retired' = [retired EXCEPT ![w] = {}]
    /\ Forget(w)
    /\ disturbed' = TRUE
    /\ UNCHANGED <<clock, nextBeat, active, sent, scans>>

\* The process is lost: a message the broker holds for it is queued again.
Crash(w) ==
    /\ Leave(w)
    /\ queue' = IF held[w] THEN [queue EXCEPT ![retries[w]] = @ + 1] ELSE queue

\* task_time_limit: the process is killed and the message acknowledged.
Kill(w) ==
    /\ Leave(w)
    /\ UNCHANGED queue

\* The connection to the broker is lost: the message is queued again while the
\* run goes on; the acknowledgement that ends it will find nothing to settle.
Disconnect(w) ==
    /\ held[w]
    /\ Fault
    /\ held' = [held EXCEPT ![w] = FALSE]
    /\ queue' = [queue EXCEPT ![retries[w]] = @ + 1]
    /\ disturbed' = TRUE
    /\ UNCHANGED <<clock, nextBeat, pc, retries, minute, todo, current, retired,
                   active, sent, scans>>

-----------------------------------------------------------------------------

Run(w) ==
    \/ Take(w) \/ Load(w) \/ Deliver(w) \/ Answer(w) \/ Flush(w)
    \/ BreakDeadlock(w) \/ Commit(w) \/ Republish(w) \/ Ack(w)
    \/ \E t \in Tasks : Begin(w, t) \/ Skip(w, t) \/ Choke(w, t)

Next ==
    \/ Tick
    \/ Beat
    \/ \E w \in Workers :
          \/ Run(w)
          \/ SendFails(w) \/ DatabaseFails(w) \/ SoftTimeLimit(w) \/ FailsCommitted(w)
          \/ Crash(w) \/ Kill(w) \/ Disconnect(w)

\* Time passes, beat posts, and a worker process that is not stopped goes on.
Fairness ==
    /\ WF_vars(Tick)
    /\ WF_vars(Beat)
    /\ \A w \in Workers : WF_vars(Run(w))

Spec == Init /\ [][Next]_vars /\ Fairness

-----------------------------------------------------------------------------

(* A one-shot reminder is deactivated, even tentatively, only after Telegram
   has accepted it: no crash, lost answer, rollback or concurrent run can
   retire a reminder nobody received. *)
RetiredOnlyAfterDelivery ==
    \A t \in Once :
        ~active[t] \/ (\E w \in Workers : t \in retired[w]) => sent[t] > 0

(* A run sends a reminder at most once: whatever retries, crashes and
   redeliveries do, every duplicate has a scan of its own. *)
DuplicatesNeedRescans == \A t \in Tasks : sent[t] <= scans[DueAt[t]]

(* Without faults, aborted runs and overlapping runs a one-shot reminder is
   sent at most once, however late or bunched the runs are. *)
OnceSentOnce == ~disturbed => \A t \in Once : sent[t] <= 1

\* The rows that fire on every day of the bounded clock.
Daily == {t \in Tasks \ (Once \cup Poison) :
              0..(LastMinute \div MinutesPerDay) \subseteq FiresOn[t]}

(* Without faults, aborted runs and overlapping runs no scan skips a row: a
   row that fires every day has been sent once per finished scan. *)
EveryScanDelivers ==
    ~disturbed /\ (\A w \in Workers : pc[w] = "idle") =>
        \A t \in Daily : active[t] => sent[t] = scans[DueAt[t]]

(* Every message is worked off: retries are bounded, poison rows do not keep
   a run coming back and runs that lock each other's rows get out again. *)
WorkDrains ==
    <>[](/\ \A n \in 0..MaxRetries : queue[n] = 0
         /\ \A w \in Workers : pc[w] = "idle")

=============================================================================
