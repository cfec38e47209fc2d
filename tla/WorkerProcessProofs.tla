------------------------- MODULE WorkerProcessProofs -------------------------
(***************************************************************************)
(* WorkerProcess for every pool, every number of messages, retries and     *)
(* tasks per process, and any faults.                                      *)
(***************************************************************************)
EXTENDS WorkerProcess, FiniteSetTheorems, TLAPS

\* A message is with one process at a time, and running there.
OneProcess ==
    /\ \A c \in Children : ~Idle(c) => queue[job[c]] = "running"
    /\ \A c, d \in Children : ~Idle(c) /\ job[c] = job[d] => c = d

\* A process at work has the entry of its run.
BusyIsTimed == \A c \in Children : ~Idle(c) => starts[c][job[c]] = "current"

\* Every entry was paid for with a task served.
EntriesPaid == \A c \in Children : leaked[c] + Cardinality(Entries(c)) <= served[c]

\* Inductive.  EntriesBounded follows from EntriesPaid, and LatencyOfLastRun is
\* kept because of BusyIsTimed, which needs OneProcess.
IInv ==
    /\ TypeOK
    /\ OneProcess
    /\ BusyIsTimed
    /\ EntriesPaid
    /\ EndedTasksAreForgotten
    /\ LatencyOfLastRun

-----------------------------------------------------------------------------

LEMMA EntriesFinite ==
    ASSUME NEW c \in Children
    PROVE  IsFiniteSet(Entries(c)) /\ Cardinality(Entries(c)) \in Nat
  <1>1. Entries(c) \subseteq Messages
    BY DEF Entries
  <1> QED
    BY <1>1, WorkerAssumption, FS_Subset, FS_CardinalityType

\* The entries of a process that has just begun.
LEMMA NoEntries == Cardinality({m \in Messages : NoStarts[m] # "none"}) = 0
  <1>1. {m \in Messages : NoStarts[m] # "none"} = {}
    BY DEF NoStarts
  <1> QED
    BY <1>1, FS_EmptySet

LEMMA InitInv == Init => IInv
  <1> SUFFICES ASSUME Init PROVE IInv
    OBVIOUS
  <1>1. TypeOK
    BY WorkerAssumption DEF Init, TypeOK, NoStarts
  <1>2. OneProcess /\ BusyIsTimed /\ EndedTasksAreForgotten /\ LatencyOfLastRun
    BY DEF Init, OneProcess, BusyIsTimed, EndedTasksAreForgotten, LatencyOfLastRun, Idle, NoStarts
  <1>3. EntriesPaid
    <2> SUFFICES ASSUME NEW c \in Children
                 PROVE  leaked[c] + Cardinality(Entries(c)) <= served[c]
      BY DEF EntriesPaid
    <2>1. starts[c] = NoStarts /\ leaked[c] = 0 /\ served[c] = 0
      BY DEF Init
    <2> QED
      BY <2>1, NoEntries DEF Entries
  <1> QED
    BY <1>1, <1>2, <1>3 DEF IInv

\* A new process in the slot of c, whose message, if it had one, is queued again.
LEMMA FreshStep ==
    ASSUME IInv, NEW c \in Children, Fresh(c),
           \/ Idle(c) /\ UNCHANGED queue
           \/ ~Idle(c) /\ \E q \in {"queued", "failed"} : queue' = [queue EXCEPT ![job[c]] = q]
    PROVE  IInv'
  <1> USE DEF IInv
  <1>1. TypeOK'
    BY WorkerAssumption DEF Fresh, TypeOK, NoStarts, Idle
  <1>2. OneProcess'
    BY DEF Fresh, TypeOK, OneProcess, Idle
  <1>3. BusyIsTimed' /\ EndedTasksAreForgotten' /\ LatencyOfLastRun'
    BY DEF Fresh, TypeOK, BusyIsTimed, EndedTasksAreForgotten, LatencyOfLastRun, NoStarts, Idle
  <1>4. ASSUME NEW d \in Children
        PROVE  leaked'[d] + Cardinality(Entries(d)') <= served'[d]
    <2>1. CASE d = c
      <3>1. starts'[d] = NoStarts /\ leaked'[d] = 0 /\ served'[d] = 0
        BY <2>1 DEF Fresh, TypeOK
      <3> QED
        BY <3>1, NoEntries DEF Entries
    <2>2. CASE d # c
      <3>1. starts'[d] = starts[d] /\ leaked'[d] = leaked[d] /\ served'[d] = served[d]
        BY <2>2 DEF Fresh, TypeOK
      <3> QED
        BY <3>1 DEF Entries, EntriesPaid
    <2> QED
      BY <2>1, <2>2
  <1> QED
    BY <1>1, <1>2, <1>3, <1>4 DEF EntriesPaid

\* A run ends in process c: its entry stays, as one of a retry, or is removed.
LEMMA RunEnds ==
    ASSUME IInv, NEW c \in Children, ~Idle(c),
           NEW what \in {"queued", "done", "failed"},
           queue' = [queue EXCEPT ![job[c]] = what],
           retries' \in [Messages -> 0..MaxRetries],
           \/ /\ starts' = [starts EXCEPT ![c][job[c]] = "retried"]
              /\ UNCHANGED observed
           \/ Pop(c, job[c]),
           NEW p \in {"none", "own", "closed"},
           pooled' = [pooled EXCEPT ![c] = p],
           job' = [job EXCEPT ![c] = "none"],
           UNCHANGED <<served, leaked>>
    PROVE  IInv'
  <1> USE DEF IInv
  <1> DEFINE m == job[c]
  <1>1. m \in Messages /\ starts[c][m] = "current"
    BY DEF TypeOK, BusyIsTimed, Idle
  <1>2. /\ starts'[c][m] # "current"
        /\ \A n \in Messages : n # m => starts'[c][n] = starts[c][n]
        /\ \A d \in Children : d # c => starts'[d] = starts[d]
        /\ observed' \in {observed, "current"}
    BY <1>1 DEF Pop, TypeOK
  <1>3. TypeOK'
    <2>1. starts' \in [Children -> [Messages -> {"none", "current", "retried"}]]
      <3>1. PICK x \in {"none", "retried"} : starts' = [starts EXCEPT ![c][m] = x]
        BY DEF Pop
      <3> QED
        BY <1>1, <3>1 DEF TypeOK
    <2>2. observed' \in {"none", "current", "retried"}
      BY <1>2 DEF TypeOK
    <2> QED
      BY <1>1, <2>1, <2>2 DEF TypeOK
  <1>4. OneProcess'
    BY <1>1 DEF TypeOK, OneProcess, Idle
  <1>5. BusyIsTimed' /\ EndedTasksAreForgotten' /\ LatencyOfLastRun'
    BY <1>1, <1>2 DEF TypeOK, BusyIsTimed, EndedTasksAreForgotten, LatencyOfLastRun, Idle
  <1>6. ASSUME NEW d \in Children
        PROVE  leaked[d] + Cardinality(Entries(d)') <= served[d]
    <2>1. Entries(d)' \subseteq Entries(d)
      BY <1>1, <1>2 DEF Entries
    <2>2. Cardinality(Entries(d)') \in Nat /\ Cardinality(Entries(d)') <= Cardinality(Entries(d))
      BY <2>1, EntriesFinite, FS_Subset, FS_CardinalityType
    <2> QED
      BY <2>2, EntriesFinite DEF EntriesPaid, TypeOK
  <1> QED
    BY <1>3, <1>4, <1>5, <1>6 DEF EntriesPaid

LEMMA ExceptStep ==
    ASSUME IInv, NEW c \in Children, ~Idle(c), Except(c),
           NEW p \in {"none", "own", "closed"},
           pooled' = [pooled EXCEPT ![c] = p]
    PROVE  IInv'
  <1>1. job[c] \in Messages /\ retries[job[c]] \in 0..MaxRetries
    BY DEF IInv, TypeOK, Idle
  <1>2. retries' \in [Messages -> 0..MaxRetries]
    BY <1>1, WorkerAssumption DEF Except, IInv, TypeOK
  <1>3. CASE retries[job[c]] < MaxRetries
    <2>1. /\ queue' = [queue EXCEPT ![job[c]] = "queued"]
          /\ starts' = [starts EXCEPT ![c][job[c]] = "retried"]
          /\ UNCHANGED observed
      BY <1>1, <1>3, WorkerAssumption DEF Except
    <2> QED
      BY <1>2, <2>1, RunEnds DEF Except
  <1>4. CASE retries[job[c]] = MaxRetries
    <2>1. queue' = [queue EXCEPT ![job[c]] = "failed"] /\ Pop(c, job[c])
      BY <1>1, <1>4, WorkerAssumption DEF Except
    <2> QED
      BY <1>2, <2>1, RunEnds DEF Except
  <1> QED
    BY <1>1, <1>3, <1>4, WorkerAssumption

LEMMA PostStep ==
    ASSUME IInv, NEW m \in Messages, Post(m)
    PROVE  IInv'
  <1> USE DEF IInv
  <1>1. \A c \in Children : job[c] # m
    BY WorkerAssumption DEF Post, OneProcess, TypeOK, Idle
  <1>2. TypeOK'
    BY WorkerAssumption DEF Post, TypeOK
  <1>3. OneProcess'
    BY <1>1 DEF Post, TypeOK, OneProcess, Idle
  <1>4. BusyIsTimed' /\ EndedTasksAreForgotten' /\ LatencyOfLastRun'
    BY <1>1 DEF Post, TypeOK, BusyIsTimed, EndedTasksAreForgotten, LatencyOfLastRun, Idle
  <1>5. ASSUME NEW c \in Children
        PROVE  leaked'[c] + Cardinality(Entries(c)') <= served[c]
    <2>1. Entries(c)' = Entries(c) \ {m}
      BY DEF Post, Entries, TypeOK
    <2>2. CASE m \in Entries(c)
      <3>1. leaked'[c] = leaked[c] + 1
        BY <2>2 DEF Post
      <3>2. Cardinality(Entries(c)') = Cardinality(Entries(c)) - 1
        BY <2>1, <2>2, EntriesFinite, FS_RemoveElement
      <3> QED
        BY <3>1, <3>2, EntriesFinite DEF EntriesPaid, TypeOK
    <2>3. CASE m \notin Entries(c)
      <3>1. Entries(c)' = Entries(c) /\ leaked'[c] = leaked[c]
        BY <2>1, <2>3 DEF Post, TypeOK
      <3> QED
        BY <3>1 DEF EntriesPaid
    <2> QED
      BY <2>2, <2>3
  <1> QED
    BY <1>2, <1>3, <1>4, <1>5 DEF EntriesPaid, Post

LEMMA PrerunStep ==
    ASSUME IInv, NEW c \in Children, NEW m \in Messages, Prerun(c, m)
    PROVE  IInv'
  <1> USE DEF IInv
  <1>1. \A d \in Children : job[d] # m
    BY WorkerAssumption DEF Prerun, OneProcess, Idle
  <1>2. TypeOK'
    BY WorkerAssumption DEF Prerun, TypeOK
  <1>3. OneProcess'
    BY <1>1, WorkerAssumption DEF Prerun, TypeOK, OneProcess, Idle
  <1>4. BusyIsTimed' /\ EndedTasksAreForgotten' /\ LatencyOfLastRun'
    BY <1>1, WorkerAssumption DEF Prerun, TypeOK, BusyIsTimed, EndedTasksAreForgotten, LatencyOfLastRun, Idle
  <1>5. ASSUME NEW d \in Children
        PROVE  leaked[d] + Cardinality(Entries(d)') <= served'[d]
    <2>1. CASE d = c
      <3>1. Entries(d)' = Entries(d) \cup {m} /\ served'[d] = served[d] + 1
        BY <2>1 DEF Prerun, Entries, TypeOK
      <3>2. Cardinality(Entries(d)') \in {Cardinality(Entries(d)), Cardinality(Entries(d)) + 1}
        BY <3>1, EntriesFinite, FS_AddElement
      <3> QED
        BY <3>1, <3>2, EntriesFinite DEF EntriesPaid, TypeOK
    <2>2. CASE d # c
      <3>1. starts'[d] = starts[d] /\ served'[d] = served[d]
        BY <2>2 DEF Prerun, TypeOK
      <3> QED
        BY <3>1 DEF Entries, EntriesPaid
    <2> QED
      BY <2>1, <2>2
  <1> QED
    BY <1>2, <1>3, <1>4, <1>5 DEF EntriesPaid, Prerun

LEMMA InductiveStep ==
    ASSUME IInv, Next
    PROVE  IInv'
  <1>1. ASSUME NEW m \in Messages, Post(m)  PROVE IInv'
    BY <1>1, PostStep
  <1>2. ASSUME NEW m \in Messages, NEW c \in Children, Prerun(c, m)  PROVE IInv'
    BY <1>2, PrerunStep
  <1>3. ASSUME NEW c \in Children, Heartbeat(c)  PROVE IInv'
    <2>1. TypeOK'
      BY <1>3, WorkerAssumption DEF Heartbeat, IInv, TypeOK
    <2>2. /\ OneProcess' /\ BusyIsTimed' /\ EndedTasksAreForgotten' /\ LatencyOfLastRun'
      BY <1>3 DEF Heartbeat, IInv, OneProcess, BusyIsTimed, EndedTasksAreForgotten,
                  LatencyOfLastRun, Idle
    <2>3. ASSUME NEW d \in Children
          PROVE  leaked'[d] + Cardinality(Entries(d)') <= served'[d]
      <3>1. served'[d] \in {served[d], served[d] + 1} /\ Entries(d)' = Entries(d)
        BY <1>3 DEF Heartbeat, IInv, TypeOK, Entries
      <3> QED
        BY <1>3, <3>1, EntriesFinite DEF Heartbeat, IInv, TypeOK, EntriesPaid
    <2> QED
      BY <2>1, <2>2, <2>3 DEF IInv, EntriesPaid
  <1>4. ASSUME NEW c \in Children, Replace(c) \/ Kill(c)  PROVE IInv'
    BY <1>4, FreshStep DEF Replace, Kill
  <1>5. ASSUME NEW c \in Children, Connect(c)  PROVE IInv'
    <2>1. TypeOK'
      BY <1>5 DEF Connect, IInv, TypeOK
    <2> QED
      BY <1>5, <2>1 DEF Connect, IInv, OneProcess, BusyIsTimed, EndedTasksAreForgotten,
                        LatencyOfLastRun, EntriesPaid, Entries, Idle
  <1>6. ASSUME NEW c \in Children, MeetClosed(c)  PROVE IInv'
    BY <1>6, ExceptStep DEF MeetClosed
  <1>7. ASSUME NEW c \in Children, CloseLoop(c)
        PROVE  \E p \in {"none", "own", "closed"} : pooled' = [pooled EXCEPT ![c] = p]
    <2>1. pooled[c] \in {"none", "own", "closed"}
      BY DEF IInv, TypeOK
    <2> QED
      BY <1>7, <2>1 DEF CloseLoop
  <1>8. ASSUME NEW c \in Children, Return(c)  PROVE IInv'
    <2>1. PICK p \in {"none", "own", "closed"} : pooled' = [pooled EXCEPT ![c] = p]
      BY <1>7, <1>8 DEF Return
    <2>2. retries' \in [Messages -> 0..MaxRetries]
      BY <1>8 DEF Return, IInv, TypeOK
    <2> QED
      BY <1>8, <2>1, <2>2, RunEnds DEF Return
  <1>9. ASSUME NEW c \in Children, Raise(c)  PROVE IInv'
    <2>1. PICK p \in {"none", "own", "closed"} : pooled' = [pooled EXCEPT ![c] = p]
      BY <1>7, <1>9 DEF Raise
    <2> QED
      BY <1>9, <2>1, ExceptStep DEF Raise
  <1> QED
    BY <1>1, <1>2, <1>3, <1>4, <1>5, <1>6, <1>8, <1>9 DEF Next

LEMMA Invariant == Spec => []IInv
  <1>1. IInv /\ UNCHANGED vars => IInv'
    BY DEF vars, IInv, TypeOK, OneProcess, BusyIsTimed, EntriesPaid, Entries,
           EndedTasksAreForgotten, LatencyOfLastRun, Idle
  <1> QED
    BY <1>1, InitInv, InductiveStep, PTL DEF Spec

(* Processes, messages and their start times stay in their types. *)
THEOREM TypeCorrect == Spec => []TypeOK
  <1>1. IInv => TypeOK
    BY DEF IInv
  <1> QED
    BY <1>1, Invariant, PTL

(* _task_start_times of a process is bounded by worker_max_tasks_per_child. *)
THEOREM LeakIsBounded == Spec => []EntriesBounded
  <1>1. ASSUME IInv, NEW c \in Children
        PROVE  leaked[c] + Cardinality(Entries(c)) <= MaxTasksPerChild
    <2>1. leaked[c] \in Nat /\ served[c] \in 0..MaxTasksPerChild
      BY <1>1 DEF IInv, TypeOK
    <2> QED
      BY <1>1, <2>1, EntriesFinite, WorkerAssumption DEF IInv, EntriesPaid
  <1>2. IInv => EntriesBounded
    BY <1>1 DEF EntriesBounded
  <1> QED
    BY <1>2, Invariant, PTL

(* _on_success and _on_failure forget the tasks that have ended. *)
THEOREM ForgetsEnded == Spec => []EndedTasksAreForgotten
  <1>1. IInv => EndedTasksAreForgotten
    BY DEF IInv
  <1> QED
    BY <1>1, Invariant, PTL

(* A latency is never measured from the start of an earlier try. *)
THEOREM MeasuresLastRun == Spec => []LatencyOfLastRun
  <1>1. IInv => LatencyOfLastRun
    BY DEF IInv
  <1> QED
    BY <1>1, Invariant, PTL
=============================================================================
