-------------------------- MODULE BotUpdatesProofs --------------------------
(***************************************************************************)
(* BotUpdates for every set of bots, users and updates and every number of *)
(* faults: its types, what the committed rows owe to the outcomes of the   *)
(* updates, that no username is lost, and that a faultless exit is clean.  *)
(***************************************************************************)
EXTENDS BotUpdates, TLAPS

\* What an open transaction knows of the row it is about.  An inserted row is
\* the only one of its user, as the unique index has it, and not committed; a
\* transaction past its flush that has not inserted one has seen one.
TableInv ==
    /\ \A u \in inserted : row[From[u]] = Absent
    /\ \A u, v \in inserted : From[u] = From[v] => u = v
    /\ \A u \in renamed : NameIn[u] \in Names
    /\ \A u \in Updates \ inserted :
          pc[u] \in {"answering", "committing"} => row[From[u]] # Absent

\* A stored row has an update that may have stored it.
Traced ==
    \A x \in Users :
        row[x] # Absent =>
            \E u \in Updates : From[u] = x /\ outcome[u] \in {"ok", "error", "cancelled"}

\* Inductive.  TableInv is what HandledIsStored and NamesAreKept rest on: a
\* commit that writes nothing finds the row there, one that inserts a row
\* without a name replaces none.
IInv ==
    /\ TypeOK
    /\ TableInv
    /\ Traced
    /\ HandledIsStored
    /\ FailureNeedsWinner

-----------------------------------------------------------------------------
(* The table after a set of commits. *)

Writers(S, x) == {u \in S \cap (inserted \cup renamed) : From[u] = x}

\* Each row is as it was, or carries the name of one of the updates that
\* commit what they have written to it.
LEMMA StoredBy ==
    ASSUME TypeOK, NEW S \in SUBSET Updates
    PROVE  /\ Stored(S) \in [Users -> Names \cup {NoName, Absent}]
           /\ \A x \in Users :
                 \/ Writers(S, x) = {} /\ Stored(S)[x] = row[x]
                 \/ \E u \in Writers(S, x) : Stored(S)[x] = NameIn[u]
  <1> SUFFICES ASSUME NEW x \in Users
               PROVE  /\ Stored(S)[x] \in Names \cup {NoName, Absent}
                      /\ \/ Writers(S, x) = {} /\ Stored(S)[x] = row[x]
                         \/ \E u \in Writers(S, x) : Stored(S)[x] = NameIn[u]
    BY DEF Stored
  <1>1. Stored(S)[x] = IF Writers(S, x) = {} THEN row[x]
                       ELSE NameIn[CHOOSE u \in Writers(S, x) : TRUE]
    BY DEF Stored, Writers
  <1>2. CASE Writers(S, x) = {}
    BY <1>1, <1>2 DEF TypeOK
  <1>3. CASE Writers(S, x) # {}
    <2>1. (CHOOSE u \in Writers(S, x) : TRUE) \in Writers(S, x)
      BY <1>3
    <2>2. Writers(S, x) \subseteq Updates
      BY DEF Writers
    <2> QED
      BY <1>1, <1>3, <2>1, <2>2, UpdatesAssumption
  <1> QED
    BY <1>2, <1>3

\* Every step commits a set of updates, perhaps none, whose handling it ends.
Commits(S) ==
    /\ row' = Stored(S)
    /\ \A u \in S : pc'[u] = "done" /\ outcome'[u] \in {"ok", "error", "cancelled"}

LEMMA NoCommit ==
    ASSUME TypeOK, row' = row
    PROVE  Commits({})
  <1>1. Stored({}) = [x \in Users |-> row[x]]
    BY DEF Stored
  <1> QED
    BY <1>1 DEF Commits, TypeOK

LEMMA RowStep ==
    ASSUME TypeOK, Next
    PROVE  \E S \in SUBSET {u \in Updates : pc[u] = "committing"} : Commits(S)
  <1> USE DEF TypeOK, processVars
  <1>1. CASE row' = row
    BY <1>1, NoCommit
  <1>2. ASSUME NEW b \in Bots, Exit(b)
        PROVE  \E S \in SUBSET {u \in Updates : pc[u] = "committing"} : Commits(S)
    BY <1>2 DEF Exit, Commits, InHand
  <1>3. ASSUME NEW u \in Updates, Commit(u)
        PROVE  Commits({u}) /\ pc[u] = "committing"
    BY <1>3 DEF Commit, End, Commits
  <1>4. ASSUME NEW u \in Updates, DatabaseFails(u), row' # row
        PROVE  Commits({u}) /\ pc[u] = "committing"
    <2>1. pc[u] = "committing" /\ row' = Stored({u})
      BY <1>4 DEF DatabaseFails
    <2> QED
      BY <1>4, <2>1 DEF DatabaseFails, End, Commits
  <1>5. ASSUME NEW u \in Updates,
               Fetch(u) \/ Select(u) \/ Insert(u) \/ Answer(u) \/ AnswerRefused(u)
               \/ AnswerFails(u)
        PROVE  row' = row
    BY <1>5 DEF Fetch, Select, Insert, Answer, AnswerRefused, AnswerFails
  <1>6. ASSUME NEW b \in Bots, PollingFails(b) \/ Stopped(b) \/ Close(b)
        PROVE  row' = row
    BY <1>6 DEF PollingFails, Stopped, Close
  <1>7. ASSUME NEW b \in Bots, Signal(b) \/ CloseFails(b) \/ Leave(b)
        PROVE  row' = row \/ Exit(b)
    BY <1>7 DEF Signal, CloseFails, Leave
  <1> QED
    BY <1>1, <1>2, <1>3, <1>4, <1>5, <1>6, <1>7 DEF Next, Handle

-----------------------------------------------------------------------------
(* Types. *)

LEMMA TypeStep ==
    ASSUME TypeOK, Next
    PROVE  TypeOK'
  <1> USE UpdatesAssumption
          DEF TypeOK, processVars, InHand, Outcomes, Resources
  <1>1. row' \in [Users -> Names \cup {NoName, Absent}]
    BY RowStep, StoredBy DEF Commits
  <1>2. ASSUME NEW u \in Updates, Fetch(u)  PROVE TypeOK'
    BY <1>2, <1>1 DEF Fetch
  <1>3. ASSUME NEW u \in Updates, Select(u)  PROVE TypeOK'
    BY <1>3, <1>1 DEF Select
  <1>4. ASSUME NEW u \in Updates, Insert(u)  PROVE TypeOK'
    BY <1>4, <1>1 DEF Insert, End
  <1>5. ASSUME NEW u \in Updates, Answer(u)  PROVE TypeOK'
    BY <1>5, <1>1 DEF Answer
  <1>6. ASSUME NEW u \in Updates, AnswerRefused(u)  PROVE TypeOK'
    BY <1>6, <1>1 DEF AnswerRefused, End
  <1>7. ASSUME NEW u \in Updates, Commit(u)  PROVE TypeOK'
    BY <1>7, <1>1 DEF Commit, End
  <1>8. ASSUME NEW u \in Updates, AnswerFails(u)  PROVE TypeOK'
    BY <1>8, <1>1 DEF AnswerFails, Fault, End
  <1>9. ASSUME NEW u \in Updates, DatabaseFails(u)  PROVE TypeOK'
    BY <1>9, <1>1 DEF DatabaseFails, Fault, End
  <1>10. ASSUME NEW b \in Bots, PollingFails(b)  PROVE TypeOK'
    BY <1>10, <1>1 DEF PollingFails, Fault
  <1>11. ASSUME NEW b \in Bots, Signal(b)  PROVE TypeOK'
    BY <1>11, <1>1 DEF Signal, Exit
  <1>12. ASSUME NEW b \in Bots, Stopped(b)  PROVE TypeOK'
    BY <1>12, <1>1 DEF Stopped
  <1>13. ASSUME NEW b \in Bots, Close(b)  PROVE TypeOK'
    BY <1>13, <1>1 DEF Close
  <1>14. ASSUME NEW b \in Bots, CloseFails(b)  PROVE TypeOK'
    BY <1>14, <1>1 DEF CloseFails, Fault, Exit
  <1>15. ASSUME NEW b \in Bots, Leave(b)  PROVE TypeOK'
    BY <1>15, <1>1 DEF Leave, Exit
  <1> QED
    BY <1>2, <1>3, <1>4, <1>5, <1>6, <1>7, <1>8, <1>9, <1>10, <1>11, <1>12, <1>13, <1>14,
       <1>15 DEF Next, Handle

-----------------------------------------------------------------------------
(* The table. *)

LEMMA NeverAbsentAgain ==
    ASSUME TypeOK, TableInv, Next, NEW x \in Users, row[x] # Absent
    PROVE  row'[x] # Absent
  <1>1. PICK S \in SUBSET {u \in Updates : pc[u] = "committing"} : Commits(S)
    BY RowStep
  <1>2. ASSUME NEW u \in Writers(S, x)  PROVE NameIn[u] # Absent
    BY UpdatesAssumption DEF Writers, NoName, Absent
  <1> QED
    BY <1>1, <1>2, StoredBy DEF Commits

\* Nobody else commits to the row that an open transaction has inserted.
LEMMA StillAbsent ==
    ASSUME TypeOK, TableInv, NEW S \in SUBSET {u \in Updates : pc[u] = "committing"},
           Commits(S), NEW u \in inserted, pc'[u] # "done"
    PROVE  row'[From[u]] = Absent
  <1>1. u \in Updates /\ From[u] \in Users /\ u \notin S
    BY UpdatesAssumption DEF TypeOK, Commits
  <1>2. ASSUME NEW v \in Writers(S, From[u])  PROVE FALSE
    <2>1. v \in S /\ v # u /\ From[v] = From[u] /\ v \in inserted \cup renamed
      BY <1>1, <1>2 DEF Writers
    <2>2. v \notin inserted
      BY <2>1 DEF TableInv
    <2> QED
      BY <2>1, <2>2 DEF TableInv
  <1> QED
    BY <1>1, <1>2, StoredBy DEF Commits, TableInv

\* The transactions of a step that opens none and writes nothing.
Quiet ==
    /\ inserted' \subseteq inserted
    /\ renamed' \subseteq renamed
    /\ \A u \in Updates :
          pc'[u] \in {"answering", "committing"} =>
              /\ pc[u] \in {"answering", "committing"}
              /\ u \in inserted => u \in inserted'

LEMMA QuietStep ==
    ASSUME TypeOK, TypeOK', TableInv, Next, Quiet
    PROVE  TableInv'
  <1> USE DEF Quiet
  <1>1. PICK S \in SUBSET {u \in Updates : pc[u] = "committing"} : Commits(S)
    BY RowStep
  <1>2. ASSUME NEW u \in inserted'  PROVE row'[From[u]] = Absent
    <2>1. u \in Updates /\ u \in inserted /\ pc'[u] # "done"
      BY <1>2 DEF TypeOK
    <2> QED
      BY <1>1, <2>1, StillAbsent
  <1>3. ASSUME NEW u \in Updates \ inserted', pc'[u] \in {"answering", "committing"}
        PROVE  row'[From[u]] # Absent
    <2>1. row[From[u]] # Absent /\ From[u] \in Users
      BY <1>3, UpdatesAssumption DEF TableInv
    <2> QED
      BY <2>1, NeverAbsentAgain
  <1> QED
    BY <1>2, <1>3 DEF TableInv

LEMMA TableStep ==
    ASSUME TypeOK, TypeOK', TableInv, Next
    PROVE  TableInv'
  <1> USE DEF TypeOK, processVars, InHand, Outcomes
  <1>1. SUFFICES ASSUME ~Quiet  PROVE TableInv'
    BY QuietStep
  <1> USE <1>1 DEF Quiet
  <1>2. ASSUME NEW u \in Updates, Fetch(u)  PROVE TableInv'
    BY <1>2 DEF Fetch
  <1>3. ASSUME NEW u \in Updates, Select(u)  PROVE TableInv'
    BY <1>3, UpdatesAssumption DEF Select, TableInv
  <1>4. ASSUME NEW u \in Updates, Insert(u)  PROVE TableInv'
    BY <1>4, UpdatesAssumption DEF Insert, Blocked, End, TableInv
  <1>5. ASSUME NEW u \in Updates, Answer(u)  PROVE TableInv'
    BY <1>5 DEF Answer
  <1>6. ASSUME NEW u \in Updates, AnswerRefused(u)  PROVE TableInv'
    BY <1>6 DEF AnswerRefused, End
  <1>7. ASSUME NEW u \in Updates, Commit(u)  PROVE TableInv'
    BY <1>7 DEF Commit, End
  <1>8. ASSUME NEW u \in Updates, AnswerFails(u)  PROVE TableInv'
    BY <1>8 DEF AnswerFails, Fault, End
  <1>9. ASSUME NEW u \in Updates, DatabaseFails(u)  PROVE TableInv'
    BY <1>9 DEF DatabaseFails, Fault, End
  <1>10. ASSUME NEW b \in Bots, PollingFails(b)  PROVE TableInv'
    BY <1>10 DEF PollingFails, Fault
  <1>11. ASSUME NEW b \in Bots, Signal(b)  PROVE TableInv'
    BY <1>11 DEF Signal, Exit
  <1>12. ASSUME NEW b \in Bots, Stopped(b)  PROVE TableInv'
    BY <1>12 DEF Stopped
  <1>13. ASSUME NEW b \in Bots, Close(b)  PROVE TableInv'
    BY <1>13 DEF Close
  <1>14. ASSUME NEW b \in Bots, CloseFails(b)  PROVE TableInv'
    BY <1>14 DEF CloseFails, Fault, Exit
  <1>15. ASSUME NEW b \in Bots, Leave(b)  PROVE TableInv'
    BY <1>15 DEF Leave, Exit
  <1> QED
    BY <1>2, <1>3, <1>4, <1>5, <1>6, <1>7, <1>8, <1>9, <1>10, <1>11, <1>12, <1>13, <1>14,
       <1>15 DEF Next, Handle
-----------------------------------------------------------------------------
(* Outcomes. *)

\* How an outcome comes about.
OutcomeFrom(u) ==
    \/ outcome'[u] = outcome[u]
    \/ /\ outcome[u] = "none"
       /\ \/ outcome'[u] \in {"cancelled", "telegram_error"}
          \/ outcome'[u] = "ok" /\ Commit(u)
          \/ outcome'[u] = "error" /\ (faults' > 0 \/ row[From[u]] # Absent)

LEMMA OutcomeStep ==
    ASSUME TypeOK, Next, NEW w \in Updates
    PROVE  OutcomeFrom(w)
  <1> USE UpdatesAssumption DEF TypeOK, processVars, InHand, OutcomeFrom
  <1>1. ASSUME NEW u \in Updates, Fetch(u)  PROVE OutcomeFrom(w)
    BY <1>1 DEF Fetch
  <1>2. ASSUME NEW u \in Updates, Select(u)  PROVE OutcomeFrom(w)
    BY <1>2 DEF Select
  <1>3. ASSUME NEW u \in Updates, Insert(u)  PROVE OutcomeFrom(w)
    BY <1>3 DEF Insert, End
  <1>4. ASSUME NEW u \in Updates, Answer(u)  PROVE OutcomeFrom(w)
    BY <1>4 DEF Answer
  <1>5. ASSUME NEW u \in Updates, AnswerRefused(u)  PROVE OutcomeFrom(w)
    BY <1>5 DEF AnswerRefused, End
  <1>6. ASSUME NEW u \in Updates, Commit(u)  PROVE OutcomeFrom(w)
    BY <1>6 DEF Commit, End
  <1>7. ASSUME NEW u \in Updates, AnswerFails(u)  PROVE OutcomeFrom(w)
    BY <1>7 DEF AnswerFails, Fault, End
  <1>8. ASSUME NEW u \in Updates, DatabaseFails(u)  PROVE OutcomeFrom(w)
    BY <1>8 DEF DatabaseFails, Fault, End
  <1>9. ASSUME NEW b \in Bots, PollingFails(b)  PROVE OutcomeFrom(w)
    BY <1>9 DEF PollingFails
  <1>10. ASSUME NEW b \in Bots, Signal(b)  PROVE OutcomeFrom(w)
    BY <1>10 DEF Signal, Exit
  <1>11. ASSUME NEW b \in Bots, Stopped(b)  PROVE OutcomeFrom(w)
    BY <1>11 DEF Stopped
  <1>12. ASSUME NEW b \in Bots, Close(b)  PROVE OutcomeFrom(w)
    BY <1>12 DEF Close
  <1>13. ASSUME NEW b \in Bots, CloseFails(b)  PROVE OutcomeFrom(w)
    BY <1>13 DEF CloseFails, Fault, Exit
  <1>14. ASSUME NEW b \in Bots, Leave(b)  PROVE OutcomeFrom(w)
    BY <1>14 DEF Leave, Exit
  <1> QED
    BY <1>1, <1>2, <1>3, <1>4, <1>5, <1>6, <1>7, <1>8, <1>9, <1>10, <1>11, <1>12, <1>13, <1>14
       DEF Next, Handle

LEMMA FaultsStay ==
    ASSUME TypeOK, Next
    PROVE  faults' \in Nat /\ faults' >= faults
  <1>1. ASSUME NEW u \in Updates, Fetch(u) \/ Handle(u) \/ AnswerFails(u) \/ DatabaseFails(u)
        PROVE  faults' = faults \/ Fault
    BY <1>1 DEF Handle, Fetch, Select, Insert, Answer, AnswerRefused, Commit, AnswerFails,
       DatabaseFails
  <1>2. ASSUME NEW b \in Bots,
               \/ PollingFails(b) \/ Signal(b)
               \/ Stopped(b) \/ Close(b) \/ CloseFails(b) \/ Leave(b)
        PROVE  faults' = faults \/ Fault
    BY <1>2 DEF PollingFails, Signal, Stopped, Close, CloseFails, Leave
  <1>3. faults' = faults \/ Fault
    BY <1>1, <1>2 DEF Next
  <1> QED
    BY <1>3, UpdatesAssumption DEF TypeOK, Fault

LEMMA TracedStep ==
    ASSUME TypeOK, Traced, Next
    PROVE  Traced'
  <1> SUFFICES ASSUME NEW x \in Users, row'[x] # Absent
               PROVE  \E u \in Updates :
                         From[u] = x /\ outcome'[u] \in {"ok", "error", "cancelled"}
    BY DEF Traced
  <1>1. PICK S \in SUBSET {u \in Updates : pc[u] = "committing"} : Commits(S)
    BY RowStep
  <1>2. CASE row[x] # Absent
    <2>1. PICK u \in Updates : From[u] = x /\ outcome[u] \in {"ok", "error", "cancelled"}
      BY <1>2 DEF Traced
    <2> QED
      BY <2>1, OutcomeStep DEF OutcomeFrom
  <1>3. CASE row[x] = Absent
    <2>1. PICK u \in Writers(S, x) : TRUE
      BY <1>1, <1>3, StoredBy DEF Commits
    <2> QED
      BY <1>1, <2>1 DEF Commits, Writers
  <1> QED
    BY <1>2, <1>3

LEMMA HandledStep ==
    ASSUME TypeOK, TableInv, HandledIsStored, Next
    PROVE  HandledIsStored'
  <1> SUFFICES ASSUME NEW u \in Updates, outcome'[u] = "ok"
               PROVE  row'[From[u]] # Absent
    BY DEF HandledIsStored
  <1>0. From[u] \in Users
    BY UpdatesAssumption
  <1>1. CASE row[From[u]] # Absent
    BY <1>0, <1>1, NeverAbsentAgain
  <1>2. CASE row[From[u]] = Absent
    <2>1. Commit(u)
      BY <1>2, OutcomeStep DEF OutcomeFrom, HandledIsStored
    <2>2. u \in inserted
      BY <1>2, <2>1 DEF Commit, TableInv
    <2>3. row' = Stored({u}) /\ Writers({u}, From[u]) = {u}
      BY <2>1, <2>2 DEF Commit, Writers
    <2>4. row'[From[u]] = NameIn[u]
      BY <1>0, <2>3, StoredBy
    <2> QED
      BY <2>4, UpdatesAssumption DEF NoName, Absent
  <1> QED
    BY <1>1, <1>2

LEMMA WinnerStep ==
    ASSUME TypeOK, TableInv, FailureNeedsWinner, Next
    PROVE  FailureNeedsWinner'
  <1> SUFFICES ASSUME faults' = 0, NEW u \in Updates, outcome'[u] = "error"
               PROVE  row'[From[u]] # Absent
    BY DEF FailureNeedsWinner
  <1>1. faults = 0
    BY FaultsStay DEF TypeOK
  <1>2. row[From[u]] # Absent
    BY <1>1, OutcomeStep DEF OutcomeFrom, FailureNeedsWinner
  <1> QED
    BY <1>2, NeverAbsentAgain, UpdatesAssumption

-----------------------------------------------------------------------------
(* The theorems. *)

LEMMA Invariant == Spec => []IInv
  <1>1. Init => IInv
    BY UpdatesAssumption
    DEF Init, IInv, TypeOK, TableInv, Traced, HandledIsStored, FailureNeedsWinner,
        InHand, Outcomes, Resources
  <1>2. IInv /\ [Next]_vars => IInv'
    <2> SUFFICES ASSUME IInv, [Next]_vars PROVE IInv'
      OBVIOUS
    <2>1. CASE Next
      BY <2>1, TypeStep, TableStep, TracedStep, HandledStep, WinnerStep DEF IInv
    <2>2. CASE UNCHANGED vars
      BY <2>2
      DEF vars, processVars, IInv, TypeOK, TableInv, Traced, HandledIsStored,
          FailureNeedsWinner
    <2> QED
      BY <2>1, <2>2
  <1> QED
    BY <1>1, <1>2, PTL DEF Spec

(* The variables of bots, updates and table keep their types; an open
   transaction belongs to an update that is past its flush. *)
THEOREM TypeCorrect == Spec => []TypeOK
  <1>1. IInv => TypeOK
    BY DEF IInv
  <1> QED
    BY <1>1, Invariant, PTL

(* A user whom Telegram has only ever refused to be answered has no row, for
   any number of updates, bots and faults. *)
THEOREM NoTraceOfRefused == Spec => []RefusedLeaveNoTrace
  <1>1. IInv => RefusedLeaveNoTrace
    BY DEF IInv, Traced, RefusedLeaveNoTrace
  <1> QED
    BY <1>1, Invariant, PTL

(* Every update that is handled to its end finds its user stored ever after. *)
THEOREM Stores == Spec => []HandledIsStored
  <1>1. IInv => HandledIsStored
    BY DEF IInv
  <1> QED
    BY <1>1, Invariant, PTL

(* Only a committed row fails an update, as long as nothing else does. *)
THEOREM LosersHaveWinners == Spec => []FailureNeedsWinner
  <1>1. IInv => FailureNeedsWinner
    BY DEF IInv
  <1> QED
    BY <1>1, Invariant, PTL

(* No commit, however late, replaces a username by none. *)
THEOREM KeepsNames == Spec => NamesAreKept
  <1>1. IInv /\ [Next]_vars => [\A x \in Users : row[x] \in Names => row'[x] \in Names]_vars
    <2> SUFFICES ASSUME IInv, Next, NEW x \in Users, row[x] \in Names
                 PROVE  row'[x] \in Names
      OBVIOUS
    <2>1. PICK S \in SUBSET {u \in Updates : pc[u] = "committing"} : Commits(S)
      BY RowStep DEF IInv
    <2>2. ASSUME NEW u \in Writers(S, x)  PROVE NameIn[u] \in Names
      <3>1. u \notin inserted
        BY <2>2, UpdatesAssumption DEF Writers, IInv, TableInv
      <3> QED
        BY <2>2, <3>1 DEF Writers, IInv, TableInv
    <2> QED
      BY <2>1, <2>2, StoredBy DEF IInv, Commits
  <1> QED
    BY <1>1, Invariant, PTL DEF Spec, NamesAreKept

=============================================================================
