---------------------------- MODULE WorkerProcess ----------------------------
(***************************************************************************)
(* The pool processes of a Celery worker and what they keep from one task  *)
(* to the next: the start times that the signal handlers of celery_app.py  *)
(* record, and the engine of session.py with the connection in its pool.   *)
(* Every dispatch task runs in an event loop of its own (tasks._run_async) *)
(* and uses one connection; the connection belongs to the loop in which it *)
(* was made, and is of no use when that loop has been closed.              *)
(*                                                                         *)
(* What a dispatch does with its rows is TaskDispatch.  Here a message is  *)
(* one dispatch of beat, retried under the same task id.                   *)
(***************************************************************************)
EXTENDS Naturals, FiniteSets

CONSTANTS
    Children,          \* the slots of the pool (--concurrency)
    Messages,          \* the dispatch messages that exist at a time
    MaxRetries,
    MaxTasksPerChild,  \* worker_max_tasks_per_child
    Faults             \* subset of {"raise", "kill"}: what may go wrong

ASSUME WorkerAssumption ==
    /\ IsFiniteSet(Messages)
    /\ "none" \notin Messages
    /\ MaxRetries \in Nat
    /\ MaxTasksPerChild \in Nat \ {0}

VARIABLES
    queue,    \* what has become of each message
    retries,  \* request.retries of each message
    job,      \* the message each process works on
    served,   \* tasks that the process has begun
    pooled,   \* the connection of its engine: none, of the loop that runs, of a closed one
    starts,   \* its _task_start_times: none, of the run under way, of one that was retried
    leaked,   \* entries of _task_start_times whose task id never comes back
    observed  \* observation: the kind of entry last turned into a latency

vars == <<queue, retries, job, served, pooled, starts, leaked, observed>>

TypeOK ==
    /\ queue \in [Messages -> {"none", "queued", "running", "done", "failed"}]
    /\ retries \in [Messages -> 0..MaxRetries]
    /\ job \in [Children -> Messages \cup {"none"}]
    /\ served \in [Children -> 0..MaxTasksPerChild]
    /\ pooled \in [Children -> {"none", "own", "closed"}]
    /\ starts \in [Children -> [Messages -> {"none", "current", "retried"}]]
    /\ leaked \in [Children -> Nat]
    /\ observed \in {"none", "current", "retried"}

NoStarts == [m \in Messages |-> "none"]

Init ==
    /\ queue = [m \in Messages |-> "none"]
    /\ retries = [m \in Messages |-> 0]
    /\ job = [c \in Children |-> "none"]
    /\ served = [c \in Children |-> 0]
    /\ pooled = [c \in Children |-> "none"]
    /\ starts = [c \in Children |-> NoStarts]
    /\ leaked = [c \in Children |-> 0]
    /\ observed = "none"

Idle(c) == job[c] = "none"
Entries(c) == {m \in Messages : starts[c][m] # "none"}

-----------------------------------------------------------------------------
(* Beat and the pool. *)

\* Beat posts a dispatch, under a new task id: what the last id left behind
\* stays where it is.
Post(m) ==
    /\ queue[m] \notin {"queued", "running"}
    /\ queue' = [queue EXCEPT ![m] = "queued"]
    /\ retries' = [retries EXCEPT ![m] = 0]
    /\ leaked' = [c \in Children |-> leaked[c] + IF m \in Entries(c) THEN 1 ELSE 0]
    /\ starts' = [c \in Children |-> [starts[c] EXCEPT ![m] = "none"]]
    /\ UNCHANGED <<job, served, pooled, observed>>

\* health_tick: it starts, succeeds, and touches neither loop nor engine.
Heartbeat(c) ==
    /\ Idle(c)
    /\ served[c] < MaxTasksPerChild
    /\ served' = [served EXCEPT ![c] = @ + 1]
    /\ observed' = "current"
    /\ UNCHANGED <<queue, retries, job, pooled, starts, leaked>>

\* A new process in the slot of c has imported its modules and done nothing.
Fresh(c) ==
    /\ job' = [job EXCEPT ![c] = "none"]
    /\ served' = [served EXCEPT ![c] = 0]
    /\ pooled' = [pooled EXCEPT ![c] = "none"]
    /\ starts' = [starts EXCEPT ![c] = NoStarts]
    /\ leaked' = [leaked EXCEPT ![c] = 0]
    /\ UNCHANGED <<retries, observed>>

\* A process that has served its tasks is replaced.
Replace(c) ==
    /\ Idle(c)
    /\ served[c] = MaxTasksPerChild
    /\ Fresh(c)
    /\ UNCHANGED queue

\* A process is killed in the middle of a task: by the kernel, and the broker still
\* has the message, or by task_time_limit, which acknowledges it.
Kill(c) ==
    /\ "kill" \in Faults
    /\ ~Idle(c)
    /\ \E q \in {"queued", "failed"} : queue' = [queue EXCEPT ![job[c]] = q]
    /\ Fresh(c)

-----------------------------------------------------------------------------
(* A task in a process. *)

\* Variant: a process is never replaced.
Faulty_Prerun(c, m) ==
    /\ Idle(c)
    /\ queue[m] = "queued"
    /\ queue' = [queue EXCEPT ![m] = "running"]
    /\ job' = [job EXCEPT ![c] = m]
    /\ starts' = [starts EXCEPT ![c][m] = "current"]
    /\ UNCHANGED <<retries, served, pooled, leaked, observed>>

\* Variant: an entry that is there is kept (setdefault).
Faulty_PrerunKeeps(c, m) ==
    /\ Idle(c)
    /\ queue[m] = "queued"
    /\ served[c] < MaxTasksPerChild
    /\ queue' = [queue EXCEPT ![m] = "running"]
    /\ job' = [job EXCEPT ![c] = m]
    /\ served' = [served EXCEPT ![c] = @ + 1]
    /\ starts' = [starts EXCEPT ![c][m] = IF @ = "none" THEN "current" ELSE @]
    /\ UNCHANGED <<retries, pooled, leaked, observed>>

\* A process takes a message; _on_prerun.
Prerun(c, m) ==
    /\ Idle(c)
    /\ queue[m] = "queued"
    /\ served[c] < MaxTasksPerChild
    /\ queue' = [queue EXCEPT ![m] = "running"]
    /\ job' = [job EXCEPT ![c] = m]
    /\ served' = [served EXCEPT ![c] = @ + 1]
    /\ starts' = [starts EXCEPT ![c][m] = "current"]
    /\ UNCHANGED <<retries, pooled, leaked, observed>>

\* _on_success and _on_failure: the entry of m, if there is one, is removed
\* and becomes a latency.
Pop(c, m) ==
    /\ observed' = IF starts[c][m] = "none" THEN observed ELSE starts[c][m]
    /\ starts' = [starts EXCEPT ![c][m] = "none"]

\* Variant: there is no last retry.
Faulty_Except(c) ==
    /\ queue' = [queue EXCEPT ![job[c]] = "queued"]
    /\ retries' = [retries EXCEPT ![job[c]] = @ + 1]
    /\ starts' = [starts EXCEPT ![c][job[c]] = "retried"]
    /\ job' = [job EXCEPT ![c] = "none"]
    /\ UNCHANGED <<served, leaked, observed>>

\* The task of c raises.  A retry has a signal of its own, which celery_app.py
\* does not listen to, so that the entry stays.
Except(c) ==
    LET m == job[c] IN
    /\ \/ /\ retries[m] < MaxRetries
          /\ queue' = [queue EXCEPT ![m] = "queued"]
          /\ retries' = [retries EXCEPT ![m] = @ + 1]
          /\ starts' = [starts EXCEPT ![c][m] = "retried"]
          /\ UNCHANGED observed
       \/ /\ retries[m] = MaxRetries
          /\ queue' = [queue EXCEPT ![m] = "failed"]
          /\ Pop(c, m)
          /\ UNCHANGED retries
    /\ job' = [job EXCEPT ![c] = "none"]
    /\ UNCHANGED <<served, leaked>>

\* The first query of the run: there is no connection in the pool, or one that
\* is due to be replaced (pool_recycle).
Connect(c) ==
    /\ ~Idle(c)
    /\ pooled[c] # "own"
    /\ pooled' = [pooled EXCEPT ![c] = "own"]
    /\ UNCHANGED <<queue, retries, job, served, starts, leaked, observed>>

\* The pool has the connection of an earlier run.  The ping fails with "attached
\* to a different loop", which is no database error: it is thrown out and the
\* error raised.
MeetClosed(c) ==
    /\ ~Idle(c)
    /\ pooled[c] = "closed"
    /\ pooled' = [pooled EXCEPT ![c] = "none"]
    /\ Except(c)

\* The end of a run closes its loop; the connection goes back to the pool.
CloseLoop(c) ==
    pooled' = [pooled EXCEPT ![c] = IF @ = "own" THEN "closed" ELSE @]

Return(c) ==
    /\ ~Idle(c)
    /\ pooled[c] = "own"
    /\ CloseLoop(c)
    /\ Pop(c, job[c])
    /\ queue' = [queue EXCEPT ![job[c]] = "done"]
    /\ job' = [job EXCEPT ![c] = "none"]
    /\ UNCHANGED <<retries, served, leaked>>

\* The run fails for another reason: the database is down, a row malformed.
Raise(c) ==
    /\ "raise" \in Faults
    /\ ~Idle(c)
    /\ CloseLoop(c)
    /\ Except(c)

-----------------------------------------------------------------------------

Next ==
    \/ \E m \in Messages : Post(m) \/ \E c \in Children : Prerun(c, m)
    \/ \E c \in Children :
          \/ Heartbeat(c) \/ Replace(c) \/ Kill(c)
          \/ Connect(c) \/ MeetClosed(c) \/ Return(c) \/ Raise(c)

Spec == Init /\ [][Next]_vars

-----------------------------------------------------------------------------

(* A retried task leaves its start time in every process it was retried from
   and does not end in.  All that bounds these is that a process ends: it never
   holds more than one for each task it may serve. *)
EntriesBounded ==
    \A c \in Children : leaked[c] + Cardinality(Entries(c)) <= MaxTasksPerChild

(* A task that has ended, well or badly, leaves nothing in the process in which
   it ended: entries of a process that is not at work on them are of retries. *)
EndedTasksAreForgotten ==
    \A c \in Children, m \in Messages : starts[c][m] = "current" => job[c] = m

(* The latency of a task is that of the run that ended, in whichever processes
   it was tried before, this one included. *)
LatencyOfLastRun == observed # "retried"

(* A fresh loop per call is "sufficient for the extracted jobs at hand"
   (tasks.py:33): with nothing failing around it, a dispatch is not given up. *)
NothingGivenUp == \A m \in Messages : queue[m] # "failed"

=============================================================================
