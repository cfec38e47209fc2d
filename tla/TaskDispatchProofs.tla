------------------------- MODULE TaskDispatchProofs -------------------------
(***************************************************************************)
(* TaskDispatch for every set of workers and rows and every bound: its     *)
(* types, that no one-shot reminder is retired before it is delivered,     *)
(* that every duplicate has a scan of its own, and that undisturbed runs   *)
(* deliver what they scan, one-shot reminders once.                        *)
(***************************************************************************)
EXTENDS TaskDispatch, FiniteSetTheorems, TLAPS

\* A worker between Telegram's acceptance of a reminder and the end of its
\* loop's turn knows that the reminder was delivered.
KnowsDelivered ==
    \A w \in Workers :
        /\ pc[w] \in {"answered", "flushing"} => sent[current[w]] > 0
        /\ pc[w] = "flushing" => current[w] \in Once

\* Inductive: a flush retires the current row, so what is known of that row
\* while the worker waits for the answer and for the row's lock is needed.
IInv == TypeOK /\ KnowsDelivered /\ RetiredOnlyAfterDelivery

-----------------------------------------------------------------------------

(* A counter of a family of counters goes up. *)
LEMMA Incremented ==
    ASSUME NEW S, NEW f \in [S -> Nat], NEW k \in S
    PROVE  [f EXCEPT ![k] = @ + 1] \in [S -> Nat]
  <1>1. f[k] + 1 \in Nat
    OBVIOUS
  <1> QED
    BY <1>1

LEMMA TypeStep ==
    ASSUME TypeOK, KnowsDelivered, Next
    PROVE  TypeOK'
  <1> USE DispatchAssumption DEF TypeOK, Phases, NoRow, brokerVars, runVars, observed
  <1>1. CASE Tick
    BY <1>1 DEF Tick
  <1>2. CASE Beat
    BY <1>2 DEF Beat
  <1>3. ASSUME NEW w \in Workers, Take(w)  PROVE TypeOK'
    <2>1. clock % MinutesPerDay \in 0..(MinutesPerDay - 1)
      OBVIOUS
    <2>2. minute' \in [Workers -> 0..(MinutesPerDay - 1)]
      BY <1>3, <2>1 DEF Take
    <2>3. scans' \in [0..(MinutesPerDay - 1) -> Nat]
      BY <1>3, <2>1, Incremented, SMTT(30) DEF Take
    <2>4. queue' \in [0..MaxRetries -> Nat] /\ retries' \in [Workers -> 0..MaxRetries]
      BY <1>3, SMTT(30) DEF Take
    <2>5. /\ pc' \in [Workers -> Phases]
          /\ held' \in [Workers -> BOOLEAN]
          /\ \A v \in Workers :
                pc'[v] \in {"sending", "answered", "flushing"} => current'[v] \in todo'[v]
      BY <1>3 DEF Take
    <2>6. disturbed' \in BOOLEAN
      BY <1>3 DEF Take
    <2> QED
      BY <1>3, <2>2, <2>3, <2>4, <2>5, <2>6 DEF Take
  <1>4. ASSUME NEW w \in Workers, Load(w)  PROVE TypeOK'
    BY <1>4 DEF Load
  <1>5. ASSUME NEW w \in Workers, Deliver(w)  PROVE TypeOK'
    BY <1>5, SMTT(30) DEF Deliver
  <1>6. ASSUME NEW w \in Workers, Answer(w)  PROVE TypeOK'
    <2>1. CASE current[w] \in Once
      BY <1>6, <2>1 DEF Answer
    <2>2. CASE current[w] \notin Once
      <3>1. Advance(w, current[w]) /\ UNCHANGED <<retired, active>>
        BY <1>6, <2>2 DEF Answer
      <3> QED
        BY <1>6, <3>1 DEF Answer, Advance
    <2> QED
      BY <2>1, <2>2
  <1>7. ASSUME NEW w \in Workers, Flush(w)  PROVE TypeOK'
    BY <1>7 DEF Flush, Advance, KnowsDelivered
  <1>8. ASSUME NEW w \in Workers, BreakDeadlock(w)  PROVE TypeOK'
    BY <1>8 DEF BreakDeadlock, Abort
  <1>9. ASSUME NEW w \in Workers, Commit(w) \/ FailsCommitted(w)  PROVE TypeOK'
    <2>1. CASE Commit(w)
      BY <2>1 DEF Commit
    <2>2. CASE FailsCommitted(w)
      BY <2>2, SMTT(30) DEF FailsCommitted, Fault
    <2> QED
      BY <1>9, <2>1, <2>2
  <1>10. ASSUME NEW w \in Workers, Republish(w)  PROVE TypeOK'
    <2>1. CASE retries[w] < MaxRetries
      <3>1. retries[w] + 1 \in 0..MaxRetries
        BY <2>1
      <3>2. queue' \in [0..MaxRetries -> Nat]
        BY <1>10, <2>1, <3>1, Incremented DEF Republish
      <3> QED
        BY <1>10, <3>2 DEF Republish
    <2>2. CASE ~(retries[w] < MaxRetries)
      BY <1>10, <2>2 DEF Republish
    <2> QED
      BY <2>1, <2>2
  <1>11. ASSUME NEW w \in Workers, Ack(w)  PROVE TypeOK'
    BY <1>11 DEF Ack, Forget
  <1>12. ASSUME NEW w \in Workers, SendFails(w)  PROVE TypeOK'
    BY <1>12, SMTT(30) DEF SendFails, Fault, Advance
  <1>13. ASSUME NEW w \in Workers, DatabaseFails(w) \/ SoftTimeLimit(w)  PROVE TypeOK'
    <2>1. Abort(w) /\ Fault /\ UNCHANGED active
      BY <1>13 DEF DatabaseFails, SoftTimeLimit
    <2> QED
      BY <2>1 DEF Fault, Abort
  <1>14. ASSUME NEW w \in Workers, Crash(w)  PROVE TypeOK'
    <2>1. queue' \in [0..MaxRetries -> Nat]
      BY <1>14, Incremented, SMTT(30) DEF Crash
    <2>2. /\ faults' \in 0..MaxFaults
          /\ retries' \in [Workers -> 0..MaxRetries]
          /\ minute' \in [Workers -> 0..(MinutesPerDay - 1)]
          /\ held' \in [Workers -> BOOLEAN]
      BY <1>14 DEF Crash, Leave, Fault, Forget
    <2> QED
      BY <1>14, <2>1, <2>2 DEF Crash, Leave
  <1>15. ASSUME NEW w \in Workers, Kill(w)  PROVE TypeOK'
    BY <1>15, SMTT(30) DEF Kill, Leave, Fault, Forget
  <1>16. ASSUME NEW w \in Workers, Disconnect(w)  PROVE TypeOK'
    <2>1. queue' \in [0..MaxRetries -> Nat]
      BY <1>16, Incremented DEF Disconnect
    <2> QED
      BY <1>16, <2>1, SMTT(30) DEF Disconnect, Fault
  <1>17. ASSUME NEW w \in Workers, NEW t \in Tasks, Begin(w, t)  PROVE TypeOK'
    BY <1>17 DEF Begin
  <1>18. ASSUME NEW w \in Workers, NEW t \in Tasks, Skip(w, t)  PROVE TypeOK'
    BY <1>18 DEF Skip, Advance
  <1>19. ASSUME NEW w \in Workers, NEW t \in Tasks, Choke(w, t)  PROVE TypeOK'
    BY <1>19 DEF Choke, Abort
  <1> QED
    BY <1>1, <1>2, <1>3, <1>4, <1>5, <1>6, <1>7, <1>8, <1>9, <1>10, <1>11, <1>12, <1>13, <1>14, <1>15, <1>16, <1>17, <1>18, <1>19 DEF Next, Run

(* What a worker knows stays true: `sent` never decreases, and a worker reaches
   the two phases only through Deliver and Answer. *)
LEMMA KnowsStep ==
    ASSUME TypeOK, KnowsDelivered, Next
    PROVE  KnowsDelivered'
  <1> USE DEF TypeOK, NoRow, KnowsDelivered, brokerVars, runVars, observed
  <1>1. CASE Tick
    BY <1>1 DEF Tick
  <1>2. CASE Beat
    BY <1>2 DEF Beat
  <1>3. ASSUME NEW w \in Workers, Take(w)  PROVE KnowsDelivered'
    BY <1>3 DEF Take
  <1>4. ASSUME NEW w \in Workers, Load(w)  PROVE KnowsDelivered'
    BY <1>4 DEF Load
  <1>5. ASSUME NEW w \in Workers, Answer(w)  PROVE KnowsDelivered'
    BY <1>5 DEF Answer, Advance
  <1>6. ASSUME NEW w \in Workers, Deliver(w)  PROVE KnowsDelivered'
    BY <1>6 DEF Deliver
  <1>7. ASSUME NEW w \in Workers, Flush(w)  PROVE KnowsDelivered'
    BY <1>7 DEF Flush, Advance
  <1>8. ASSUME NEW w \in Workers, BreakDeadlock(w)  PROVE KnowsDelivered'
    BY <1>8 DEF BreakDeadlock, Abort
  <1>9. ASSUME NEW w \in Workers, Commit(w) \/ FailsCommitted(w)  PROVE KnowsDelivered'
    BY <1>9 DEF Commit, FailsCommitted
  <1>10. ASSUME NEW w \in Workers, Republish(w)  PROVE KnowsDelivered'
    BY <1>10 DEF Republish
  <1>11. ASSUME NEW w \in Workers, Ack(w)  PROVE KnowsDelivered'
    BY <1>11 DEF Ack
  <1>12. ASSUME NEW w \in Workers, SendFails(w)  PROVE KnowsDelivered'
    BY <1>12 DEF SendFails, Advance
  <1>13. ASSUME NEW w \in Workers, DatabaseFails(w) \/ SoftTimeLimit(w)  PROVE KnowsDelivered'
    BY <1>13 DEF DatabaseFails, SoftTimeLimit, Abort
  <1>14. ASSUME NEW w \in Workers, Crash(w)  PROVE KnowsDelivered'
    BY <1>14 DEF Crash, Leave
  <1>15. ASSUME NEW w \in Workers, Kill(w)  PROVE KnowsDelivered'
    BY <1>15 DEF Kill, Leave
  <1>16. ASSUME NEW w \in Workers, Disconnect(w)  PROVE KnowsDelivered'
    BY <1>16 DEF Disconnect
  <1>17. ASSUME NEW w \in Workers, NEW t \in Tasks, Begin(w, t)  PROVE KnowsDelivered'
    BY <1>17 DEF Begin
  <1>18. ASSUME NEW w \in Workers, NEW t \in Tasks, Skip(w, t)  PROVE KnowsDelivered'
    BY <1>18 DEF Skip, Advance
  <1>19. ASSUME NEW w \in Workers, NEW t \in Tasks, Choke(w, t)  PROVE KnowsDelivered'
    BY <1>19 DEF Choke, Abort
  <1> QED
    BY <1>1, <1>2, <1>3, <1>4, <1>5, <1>6, <1>7, <1>8, <1>9, <1>10, <1>11, <1>12, <1>13, <1>14, <1>15, <1>16, <1>17, <1>18, <1>19 DEF Next, Run

(* Only Flush adds to what a transaction has retired, and only Commit makes it
   permanent. *)
LEMMA RetiredStep ==
    ASSUME TypeOK, KnowsDelivered, RetiredOnlyAfterDelivery, Next
    PROVE  RetiredOnlyAfterDelivery'
  <1> USE DEF TypeOK, NoRow, RetiredOnlyAfterDelivery, KnowsDelivered, brokerVars, runVars, observed
  <1>1. CASE Tick
    BY <1>1 DEF Tick
  <1>2. CASE Beat
    BY <1>2 DEF Beat
  <1>3. ASSUME NEW w \in Workers, Take(w)  PROVE RetiredOnlyAfterDelivery'
    BY <1>3 DEF Take
  <1>4. ASSUME NEW w \in Workers, Load(w)  PROVE RetiredOnlyAfterDelivery'
    BY <1>4 DEF Load
  <1>5. ASSUME NEW w \in Workers, Answer(w)  PROVE RetiredOnlyAfterDelivery'
    BY <1>5 DEF Answer, Advance
  <1>6. ASSUME NEW w \in Workers, Deliver(w)  PROVE RetiredOnlyAfterDelivery'
    BY <1>6 DEF Deliver
  <1>7. ASSUME NEW w \in Workers, Flush(w)  PROVE RetiredOnlyAfterDelivery'
    BY <1>7 DEF Flush, Advance
  <1>8. ASSUME NEW w \in Workers, BreakDeadlock(w)  PROVE RetiredOnlyAfterDelivery'
    BY <1>8 DEF BreakDeadlock, Abort
  <1>9. ASSUME NEW w \in Workers, Commit(w) \/ FailsCommitted(w)  PROVE RetiredOnlyAfterDelivery'
    <2> SUFFICES ASSUME NEW t \in Once,
                        ~active'[t] \/ (\E v \in Workers : t \in retired'[v])
                 PROVE  sent'[t] > 0
      OBVIOUS
    <2>1. t \in Tasks /\ sent' = sent
      BY <1>9, DispatchAssumption DEF Commit, FailsCommitted
    <2>2. ~active[t] \/ t \in retired[w] \/ (\E v \in Workers : t \in retired[v])
      BY <1>9, <2>1 DEF Commit, FailsCommitted
    <2> QED
      BY <2>1, <2>2
  <1>10. ASSUME NEW w \in Workers, Republish(w)  PROVE RetiredOnlyAfterDelivery'
    BY <1>10 DEF Republish
  <1>11. ASSUME NEW w \in Workers, Ack(w)  PROVE RetiredOnlyAfterDelivery'
    BY <1>11 DEF Ack
  <1>12. ASSUME NEW w \in Workers, SendFails(w)  PROVE RetiredOnlyAfterDelivery'
    BY <1>12 DEF SendFails, Advance
  <1>13. ASSUME NEW w \in Workers, DatabaseFails(w) \/ SoftTimeLimit(w)  PROVE RetiredOnlyAfterDelivery'
    BY <1>13 DEF DatabaseFails, SoftTimeLimit, Abort
  <1>14. ASSUME NEW w \in Workers, Crash(w)  PROVE RetiredOnlyAfterDelivery'
    BY <1>14 DEF Crash, Leave
  <1>15. ASSUME NEW w \in Workers, Kill(w)  PROVE RetiredOnlyAfterDelivery'
    BY <1>15 DEF Kill, Leave
  <1>16. ASSUME NEW w \in Workers, Disconnect(w)  PROVE RetiredOnlyAfterDelivery'
    BY <1>16 DEF Disconnect
  <1>17. ASSUME NEW w \in Workers, NEW t \in Tasks, Begin(w, t)  PROVE RetiredOnlyAfterDelivery'
    BY <1>17 DEF Begin
  <1>18. ASSUME NEW w \in Workers, NEW t \in Tasks, Skip(w, t)  PROVE RetiredOnlyAfterDelivery'
    BY <1>18 DEF Skip, Advance
  <1>19. ASSUME NEW w \in Workers, NEW t \in Tasks, Choke(w, t)  PROVE RetiredOnlyAfterDelivery'
    BY <1>19 DEF Choke, Abort
  <1> QED
    BY <1>1, <1>2, <1>3, <1>4, <1>5, <1>6, <1>7, <1>8, <1>9, <1>10, <1>11, <1>12, <1>13, <1>14, <1>15, <1>16, <1>17, <1>18, <1>19 DEF Next, Run

LEMMA InductiveInvariant == Spec => []IInv
  <1>1. Init => IInv
    <2> SUFFICES ASSUME Init PROVE IInv
      OBVIOUS
    <2>1. TypeOK
      <3>1. 0 \in 0..(MinutesPerDay - 1) /\ 0 \in 0..MaxRetries /\ 0 \in 0..MaxFaults
        BY DispatchAssumption
      <3>2. /\ clock \in 0..LastMinute
            /\ nextBeat \in 0..(LastMinute + 1)
            /\ minute \in [Workers -> 0..(MinutesPerDay - 1)]
            /\ retries \in [Workers -> 0..MaxRetries]
            /\ faults \in 0..MaxFaults
        BY <3>1, DispatchAssumption DEF Init
      <3>3. /\ pc \in [Workers -> Phases]
            /\ \A w \in Workers : pc[w] = "idle"
            /\ current \in [Workers -> Tasks \cup {NoRow}]
            /\ todo \in [Workers -> SUBSET Tasks]
            /\ retired \in [Workers -> SUBSET Once]
        BY DEF Init, Phases
      <3> QED
        BY <3>2, <3>3 DEF Init, TypeOK
    <2>2. KnowsDelivered
      BY DEF Init, KnowsDelivered
    <2>3. RetiredOnlyAfterDelivery
      BY DispatchAssumption DEF Init, RetiredOnlyAfterDelivery
    <2> QED
      BY <2>1, <2>2, <2>3 DEF IInv
  <1>2. IInv /\ [Next]_vars => IInv'
    <2> SUFFICES ASSUME IInv, [Next]_vars PROVE IInv'
      OBVIOUS
    <2>1. CASE Next
      BY <2>1, TypeStep, KnowsStep, RetiredStep DEF IInv
    <2>2. CASE UNCHANGED vars
      BY <2>2
      DEF IInv, TypeOK, KnowsDelivered, RetiredOnlyAfterDelivery,
          vars, brokerVars, runVars, observed
    <2> QED
      BY <2>1, <2>2
  <1> QED
    BY <1>1, <1>2, PTL DEF Spec

(* Every variable of the dispatch keeps its type; in particular no message is
   retried more than MaxRetries times. *)
THEOREM TypeCorrect == Spec => []TypeOK
  <1>1. IInv => TypeOK
    BY DEF IInv
  <1> QED
    BY <1>1, InductiveInvariant, PTL

(* However runs overlap, fail, are killed or are redelivered, a one-shot
   reminder is retired only after Telegram has accepted it. *)
THEOREM NeverRetiredUndelivered == Spec => []RetiredOnlyAfterDelivery
  <1>1. IInv => RetiredOnlyAfterDelivery
    BY DEF IInv
  <1> QED
    BY <1>1, InductiveInvariant, PTL

-----------------------------------------------------------------------------
(* Scans and deliveries. *)

\* The run of w may still send the reminder of t.
IsPending(w, t) ==
    \/ pc[w] = "loading" /\ minute[w] = DueAt[t]
    \/ pc[w] \in {"looping", "sending"} /\ t \in todo[w]
    \/ pc[w] \in {"answered", "flushing"} /\ t \in todo[w] /\ t # current[w]

Pending(t) == {w \in Workers : IsPending(w, t)}

\* Each scan pays for one reminder of each row, sent or still to be sent; an
\* undisturbed scan is used up by the rows that fire every day.
ScansPay ==
    \A t \in Tasks :
        /\ IsFiniteSet(Pending(t))
        /\ sent[t] + Cardinality(Pending(t)) <= scans[DueAt[t]]
        /\ ~disturbed /\ t \in Daily /\ active[t] =>
              sent[t] + Cardinality(Pending(t)) = scans[DueAt[t]]

\* What a step does to one row: nothing but that runs may give up on it, which
\* those of an undisturbed Daily row do not; a scan; or a delivery.
Quiet(t) ==
    /\ Pending(t)' \subseteq Pending(t)
    /\ sent'[t] = sent[t]
    /\ scans'[DueAt[t]] = scans[DueAt[t]]
    /\ ~disturbed' /\ t \in Daily /\ active'[t] =>
          ~disturbed /\ active[t] /\ Pending(t) \subseteq Pending(t)'

Scanned(t) ==
    /\ \E w \in Workers : w \notin Pending(t) /\ Pending(t)' = Pending(t) \cup {w}
    /\ sent'[t] = sent[t]
    /\ scans'[DueAt[t]] = scans[DueAt[t]] + 1
    /\ (disturbed => disturbed') /\ active' = active

Delivered(t) ==
    /\ \E w \in Pending(t) : Pending(t)' = Pending(t) \ {w}
    /\ sent'[t] = sent[t] + 1
    /\ scans'[DueAt[t]] = scans[DueAt[t]]
    /\ (disturbed => disturbed') /\ active' = active

(* The days of the clock are those up to its last minute. *)
LEMMA DayInBounds ==
    ASSUME clock \in 0..LastMinute
    PROVE  clock \div MinutesPerDay \in 0..(LastMinute \div MinutesPerDay)
  <1> DEFINE q == clock \div MinutesPerDay
             r == clock % MinutesPerDay
             p == LastMinute \div MinutesPerDay
             s == LastMinute % MinutesPerDay
  <1>1. /\ q \in Nat /\ r \in 0..(MinutesPerDay - 1) /\ clock = MinutesPerDay * q + r
        /\ p \in Nat /\ s \in 0..(MinutesPerDay - 1) /\ LastMinute = MinutesPerDay * p + s
    BY DispatchAssumption
  <1> HIDE DEF q, r, p, s
  <1>2. SUFFICES ASSUME p < q PROVE FALSE
    BY <1>1 DEF q, p
  <1>3. MinutesPerDay * (q - p) >= MinutesPerDay
    BY <1>1, <1>2, DispatchAssumption
  <1>4. MinutesPerDay * (q - p) = MinutesPerDay * q - MinutesPerDay * p
    BY <1>1, DispatchAssumption
  <1> QED
    BY <1>1, <1>3, <1>4, DispatchAssumption

LEMMA RowStep ==
    ASSUME TypeOK, Next, NEW t \in Tasks
    PROVE  Quiet(t) \/ Scanned(t) \/ Delivered(t)
  <1> USE DispatchAssumption DEF TypeOK, Phases, NoRow, brokerVars, runVars, observed, Pending, IsPending
  <1>1. CASE Tick
    BY <1>1 DEF Tick, Quiet
  <1>2. CASE Beat
    BY <1>2 DEF Beat, Quiet
  <1>3. ASSUME NEW w \in Workers, Take(w)  PROVE Quiet(t) \/ Scanned(t)
    <2> DEFINE m == clock % MinutesPerDay
    <2>1. m \in 0..(MinutesPerDay - 1) /\ DueAt[t] \in 0..(MinutesPerDay - 1)
      OBVIOUS
    <2>2. /\ w \notin Pending(t) /\ sent' = sent /\ active' = active
          /\ disturbed => disturbed'
          /\ pc[w] = "idle" /\ pc' = [pc EXCEPT ![w] = "loading"]
          /\ minute' = [minute EXCEPT ![w] = m]
          /\ scans' = [scans EXCEPT ![m] = @ + 1]
          /\ todo' = todo /\ current' = current
      BY <1>3 DEF Take
    <2> HIDE DEF m
    <2>3. CASE m = DueAt[t]
      <3>1. Pending(t)' = Pending(t) \cup {w}
        <4>1. \A v \in Workers : IsPending(v, t)' <=> v = w \/ IsPending(v, t)
          <5> SUFFICES ASSUME NEW v \in Workers
                       PROVE  IsPending(v, t)' <=> v = w \/ IsPending(v, t)
            OBVIOUS
          <5>1. CASE v = w
            BY <2>1, <2>2, <2>3, <5>1
          <5>2. CASE v # w
            BY <2>1, <2>2, <5>2
          <5> QED
            BY <5>1, <5>2
        <4> HIDE DEF IsPending
        <4> QED
          BY <4>1
      <3>2. scans'[DueAt[t]] = scans[DueAt[t]] + 1
        BY <2>1, <2>2, <2>3
      <3> QED
        BY <2>2, <3>1, <3>2 DEF Scanned
    <2>4. CASE m # DueAt[t]
      <3>1. Pending(t)' = Pending(t)
        BY <2>1, <2>2, <2>4
      <3>2. scans'[DueAt[t]] = scans[DueAt[t]]
        BY <2>1, <2>2, <2>4
      <3>3. disturbed' = (disturbed \/ \E v \in Workers \ {w} : pc[v] # "idle")
        BY <1>3 DEF Take
      <3> QED
        BY <2>2, <3>1, <3>2, <3>3 DEF Quiet
    <2> QED
      BY <2>3, <2>4
  <1>4. ASSUME NEW w \in Workers, Load(w)  PROVE Quiet(t)
    BY <1>4 DEF Load, Quiet
  <1>5. ASSUME NEW w \in Workers, Answer(w)  PROVE Quiet(t)
    <2>1. /\ pc[w] = "answered"
          /\ UNCHANGED <<minute, active, sent, scans, disturbed>>
      BY <1>5 DEF Answer
    <2>2. CASE current[w] \in Once
      <3>1. pc' = [pc EXCEPT ![w] = "flushing"] /\ UNCHANGED <<todo, current>>
        BY <1>5, <2>2 DEF Answer
      <3>2. Pending(t)' = Pending(t)
        BY <2>1, <3>1
      <3> QED
        BY <2>1, <3>2 DEF Quiet
    <2>3. CASE current[w] \notin Once
      <3>1. Advance(w, current[w])
        BY <1>5, <2>3 DEF Answer
      <3>2. Pending(t)' = Pending(t)
        BY <2>1, <3>1 DEF Advance
      <3> QED
        BY <2>1, <3>2 DEF Quiet
    <2> QED
      BY <2>2, <2>3
  <1>6. ASSUME NEW w \in Workers, Deliver(w)  PROVE Quiet(t) \/ Delivered(t)
    <2>1. CASE current[w] = t
      <3>1. w \in Pending(t) /\ Pending(t)' = Pending(t) \ {w}
        BY <1>6, <2>1 DEF Deliver
      <3>2. sent'[t] = sent[t] + 1 /\ UNCHANGED <<scans, disturbed, active>>
        BY <1>6, <2>1 DEF Deliver
      <3> QED
        BY <3>1, <3>2 DEF Delivered
    <2>2. CASE current[w] # t
      <3>1. Pending(t)' = Pending(t)
        BY <1>6, <2>2 DEF Deliver
      <3>2. sent'[t] = sent[t] /\ UNCHANGED <<scans, disturbed, active>>
        BY <1>6, <2>2 DEF Deliver
      <3> QED
        BY <3>1, <3>2 DEF Quiet
    <2> QED
      BY <2>1, <2>2
  <1>7. ASSUME NEW w \in Workers, Flush(w)  PROVE Quiet(t)
    BY <1>7 DEF Flush, Advance, Quiet
  <1>8. ASSUME NEW w \in Workers, BreakDeadlock(w)  PROVE Quiet(t)
    BY <1>8 DEF BreakDeadlock, Abort, Quiet
  <1>9. ASSUME NEW w \in Workers, Commit(w) \/ FailsCommitted(w)  PROVE Quiet(t)
    BY <1>9 DEF Commit, FailsCommitted, Quiet
  <1>10. ASSUME NEW w \in Workers, Republish(w)  PROVE Quiet(t)
    BY <1>10 DEF Republish, Quiet
  <1>11. ASSUME NEW w \in Workers, Ack(w)  PROVE Quiet(t)
    BY <1>11 DEF Ack, Forget, Quiet
  <1>12. ASSUME NEW w \in Workers, SendFails(w)  PROVE Quiet(t)
    BY <1>12 DEF SendFails, Advance, Quiet
  <1>13. ASSUME NEW w \in Workers, DatabaseFails(w) \/ SoftTimeLimit(w)  PROVE Quiet(t)
    BY <1>13 DEF DatabaseFails, SoftTimeLimit, Abort, Quiet
  <1>14. ASSUME NEW w \in Workers, Leave(w)  PROVE Quiet(t)
    BY <1>14 DEF Leave, Forget, Quiet
  <1>15. ASSUME NEW w \in Workers, Disconnect(w)  PROVE Quiet(t)
    BY <1>15 DEF Disconnect, Quiet
  <1>16. ASSUME NEW w \in Workers, NEW u \in Tasks, Begin(w, u)  PROVE Quiet(t)
    BY <1>16 DEF Begin, Quiet
  <1>17. ASSUME NEW w \in Workers, NEW u \in Tasks, Skip(w, u)  PROVE Quiet(t)
    <2>1. t \in Daily => t # u
      BY <1>17, DayInBounds DEF Skip, ShouldFire, Daily
    <2>2. Pending(t)' \subseteq Pending(t) /\ (t # u => Pending(t)' = Pending(t))
      BY <1>17 DEF Skip, Advance
    <2>3. UNCHANGED <<sent, scans, disturbed, active>>
      BY <1>17 DEF Skip
    <2> QED
      BY <2>1, <2>2, <2>3 DEF Quiet
  <1>18. ASSUME NEW w \in Workers, NEW u \in Tasks, Choke(w, u)  PROVE Quiet(t)
    BY <1>18 DEF Choke, Abort, Quiet
  <1> QED
    BY <1>1, <1>2, <1>3, <1>4, <1>5, <1>6, <1>7, <1>8, <1>9, <1>10, <1>11, <1>12, <1>13, <1>14, <1>15, <1>16, <1>17, <1>18 DEF Next, Run, Crash, Kill

(* The account of one row is kept by each of the three. *)
LEMMA ScansStep ==
    ASSUME TypeOK, TypeOK', ScansPay, Next
    PROVE  ScansPay'
  <1> SUFFICES ASSUME NEW t \in Tasks
               PROVE  /\ IsFiniteSet(Pending(t)')
                      /\ sent'[t] + Cardinality(Pending(t)') <= scans'[DueAt[t]]
                      /\ ~disturbed' /\ t \in Daily /\ active'[t] =>
                            sent'[t] + Cardinality(Pending(t)') = scans'[DueAt[t]]
    BY DEF ScansPay, Daily
  <1>1. /\ IsFiniteSet(Pending(t)) /\ Cardinality(Pending(t)) \in Nat
        /\ sent[t] + Cardinality(Pending(t)) <= scans[DueAt[t]]
        /\ ~disturbed /\ t \in Daily /\ active[t] =>
              sent[t] + Cardinality(Pending(t)) = scans[DueAt[t]]
        /\ sent[t] \in Nat /\ scans[DueAt[t]] \in Nat
    <2>1. IsFiniteSet(Pending(t)) /\ DueAt[t] \in 0..(MinutesPerDay - 1)
      BY DispatchAssumption DEF ScansPay
    <2> QED
      BY <2>1, FS_CardinalityType DEF ScansPay, TypeOK
  <1>2. CASE Quiet(t)
    <2>1. /\ IsFiniteSet(Pending(t)') /\ Cardinality(Pending(t)') \in Nat
          /\ Cardinality(Pending(t)') <= Cardinality(Pending(t))
      BY <1>1, <1>2, FS_Subset, FS_CardinalityType DEF Quiet
    <2>2. ~disturbed' /\ t \in Daily /\ active'[t] => Pending(t)' = Pending(t)
      BY <1>2 DEF Quiet
    <2> QED
      BY <1>1, <1>2, <2>1, <2>2 DEF Quiet
  <1>3. CASE Scanned(t)
    <2>1. /\ IsFiniteSet(Pending(t)')
          /\ Cardinality(Pending(t)') = Cardinality(Pending(t)) + 1
      BY <1>1, <1>3, FS_AddElement DEF Scanned
    <2> QED
      BY <1>1, <1>3, <2>1 DEF Scanned
  <1>4. CASE Delivered(t)
    <2>1. /\ IsFiniteSet(Pending(t)')
          /\ Cardinality(Pending(t)') = Cardinality(Pending(t)) - 1
      BY <1>1, <1>4, FS_RemoveElement DEF Delivered
    <2> QED
      BY <1>1, <1>4, <2>1 DEF Delivered
  <1> QED
    BY RowStep, <1>2, <1>3, <1>4

LEMMA ScansPayAlways == Spec => []ScansPay
  <1>1. Init => ScansPay
    <2> SUFFICES ASSUME Init, NEW t \in Tasks
                 PROVE  /\ IsFiniteSet(Pending(t))
                        /\ sent[t] + Cardinality(Pending(t)) <= scans[DueAt[t]]
                        /\ sent[t] + Cardinality(Pending(t)) = scans[DueAt[t]]
      BY DEF ScansPay
    <2>1. Pending(t) = {}
      BY DEF Init, Pending, IsPending
    <2>2. sent[t] = 0 /\ scans[DueAt[t]] = 0
      BY DispatchAssumption DEF Init
    <2> QED
      BY <2>1, <2>2, FS_EmptySet
  <1>2. ScansPay /\ TypeOK /\ TypeOK' /\ [Next]_vars => ScansPay'
    <2> SUFFICES ASSUME ScansPay, TypeOK, TypeOK', [Next]_vars PROVE ScansPay'
      OBVIOUS
    <2>1. CASE Next
      BY <2>1, ScansStep
    <2>2. CASE UNCHANGED vars
      BY <2>2 DEF ScansPay, Pending, IsPending, vars, brokerVars, runVars, observed
    <2> QED
      BY <2>1, <2>2
  <1> QED
    BY <1>1, <1>2, TypeCorrect, PTL DEF Spec

(* However runs are retried, redelivered and overlap, the reminders sent of a
   row do not outnumber the scans of its minute. *)
THEOREM DuplicatesHaveScans == Spec => []DuplicatesNeedRescans
  <1>1. TypeOK /\ ScansPay => DuplicatesNeedRescans
    <2> SUFFICES ASSUME TypeOK, ScansPay, NEW t \in Tasks
                 PROVE  sent[t] <= scans[DueAt[t]]
      BY DEF DuplicatesNeedRescans
    <2>1. /\ sent[t] \in Nat /\ Cardinality(Pending(t)) \in Nat
          /\ sent[t] + Cardinality(Pending(t)) <= scans[DueAt[t]]
          /\ scans[DueAt[t]] \in Nat
      <3>1. DueAt[t] \in 0..(MinutesPerDay - 1) /\ IsFiniteSet(Pending(t))
        BY DispatchAssumption DEF ScansPay
      <3> QED
        BY <3>1, FS_CardinalityType DEF ScansPay, TypeOK
    <2> QED
      BY <2>1
  <1> QED
    BY <1>1, ScansPayAlways, TypeCorrect, PTL

(* Without faults, aborted and overlapping runs a row that fires every day has
   been sent once per finished scan of its minute. *)
THEOREM ScansDeliver == Spec => []EveryScanDelivers
  <1>1. TypeOK /\ ScansPay => EveryScanDelivers
    <2> SUFFICES ASSUME TypeOK, ScansPay, ~disturbed,
                        \A w \in Workers : pc[w] = "idle",
                        NEW t \in Daily, active[t]
                 PROVE  sent[t] = scans[DueAt[t]]
      BY DEF EveryScanDelivers
    <2>1. t \in Tasks /\ Pending(t) = {}
      BY DEF Pending, IsPending, Daily
    <2>2. sent[t] + Cardinality(Pending(t)) = scans[DueAt[t]] /\ sent[t] \in Nat
      BY <2>1 DEF ScansPay, TypeOK
    <2> QED
      BY <2>1, <2>2, FS_EmptySet
  <1> QED
    BY <1>1, ScansPayAlways, TypeCorrect, PTL

-----------------------------------------------------------------------------
(* One-shot reminders. *)

\* A run that is not in its loop has nothing left to visit and has retired
\* nothing.
Tidy ==
    \A w \in Workers :
        pc[w] \notin {"looping", "sending", "answered", "flushing"} =>
            todo[w] = {} /\ retired[w] = {}

\* The run of w is past its list, and may still send the reminder of t.
Visits(w, t) ==
    \/ pc[w] \in {"looping", "sending"} /\ t \in todo[w]
    \/ pc[w] \in {"answered", "flushing"} /\ t \in todo[w] /\ t # current[w]

\* The run of w has sent the reminder of t and not committed yet.
HasServed(w, t) ==
    \/ t \in retired[w]
    \/ pc[w] \in {"answered", "flushing"} /\ current[w] = t

\* Runs that do not disturb come one at a time.
OneRun == \A v, w \in Workers : pc[v] # "idle" /\ pc[w] # "idle" => v = w

\* A one-shot reminder that was sent is retired, or about to be, and no run
\* visits it again.
SentAndDone(t) ==
    /\ sent[t] <= 1
    /\ sent[t] # 0 /\ active[t] => \E w \in Workers : HasServed(w, t)
    /\ sent[t] # 0 => \A w \in Workers : ~Visits(w, t)

Undisturbed == ~disturbed => OneRun /\ \A t \in Once : SentAndDone(t)

\* Most steps take nothing back and list nothing anew.
Keeps(t) ==
    /\ sent'[t] = sent[t]
    /\ active'[t] => active[t]
    /\ \A w \in Workers :
          /\ HasServed(w, t) /\ active'[t] => HasServed(w, t)'
          /\ Visits(w, t)' => Visits(w, t)

LEMMA TidyStep ==
    ASSUME TypeOK, Tidy, Next
    PROVE  Tidy'
  <1> USE DEF TypeOK, Tidy, brokerVars, runVars, observed
  <1>1. CASE Tick \/ Beat
    BY <1>1 DEF Tick, Beat
  <1>2. ASSUME NEW w \in Workers, Take(w) \/ Load(w)  PROVE Tidy'
    BY <1>2 DEF Take, Load
  <1>3. ASSUME NEW w \in Workers, Deliver(w) \/ Answer(w) \/ Flush(w)  PROVE Tidy'
    BY <1>3 DEF Deliver, Answer, Flush, Advance
  <1>4. ASSUME NEW w \in Workers, BreakDeadlock(w) \/ DatabaseFails(w) \/ SoftTimeLimit(w)  PROVE Tidy'
    BY <1>4 DEF BreakDeadlock, DatabaseFails, SoftTimeLimit, Abort
  <1>5. ASSUME NEW w \in Workers, Commit(w) \/ FailsCommitted(w)  PROVE Tidy'
    BY <1>5 DEF Commit, FailsCommitted
  <1>6. ASSUME NEW w \in Workers, Republish(w)  PROVE Tidy'
    BY <1>6 DEF Republish
  <1>7. ASSUME NEW w \in Workers, Ack(w)  PROVE Tidy'
    BY <1>7 DEF Ack
  <1>8. ASSUME NEW w \in Workers, SendFails(w)  PROVE Tidy'
    BY <1>8 DEF SendFails, Advance
  <1>9. ASSUME NEW w \in Workers, Leave(w)  PROVE Tidy'
    BY <1>9 DEF Leave
  <1>10. ASSUME NEW w \in Workers, Disconnect(w)  PROVE Tidy'
    BY <1>10 DEF Disconnect
  <1>11. ASSUME NEW w \in Workers, NEW t \in Tasks, Begin(w, t) \/ Skip(w, t)  PROVE Tidy'
    BY <1>11 DEF Begin, Skip, Advance
  <1>12. ASSUME NEW w \in Workers, NEW t \in Tasks, Choke(w, t)  PROVE Tidy'
    BY <1>12 DEF Choke, Abort
  <1> QED
    BY <1>1, <1>2, <1>3, <1>4, <1>5, <1>6, <1>7, <1>8, <1>9, <1>10, <1>11, <1>12 DEF Next, Run, Crash, Kill

LEMMA OneRunStep ==
    ASSUME TypeOK, OneRun, Next, ~disturbed'
    PROVE  OneRun'
  <1> USE DEF TypeOK, OneRun, brokerVars, runVars, observed
  <1>1. CASE Tick \/ Beat
    BY <1>1 DEF Tick, Beat
  <1>2. ASSUME NEW w \in Workers, Take(w)  PROVE OneRun'
    BY <1>2 DEF Take
  <1>3. ASSUME NEW w \in Workers, Answer(w)  PROVE OneRun'
    BY <1>3 DEF Answer, Advance
  <1>4. ASSUME NEW w \in Workers,
               Load(w) \/ Deliver(w) \/ Flush(w) \/ Commit(w) \/ Republish(w) \/ Ack(w)
        PROVE  OneRun'
    <2>1. pc[w] # "idle" /\ \E p \in Phases : pc' = [pc EXCEPT ![w] = p]
      BY <1>4 DEF Load, Deliver, Flush, Advance, Commit, Republish, Ack, Phases
    <2> QED
      BY <2>1
  <1>5. ASSUME NEW w \in Workers,
               SendFails(w) \/ DatabaseFails(w) \/ SoftTimeLimit(w) \/ FailsCommitted(w) \/
               Leave(w) \/ Disconnect(w) \/ BreakDeadlock(w)
        PROVE  FALSE
    BY <1>5
    DEF SendFails, DatabaseFails, SoftTimeLimit, FailsCommitted, Leave, Disconnect, BreakDeadlock, Abort
  <1>6. ASSUME NEW w \in Workers, NEW t \in Tasks, Begin(w, t) \/ Skip(w, t) \/ Choke(w, t)
        PROVE  OneRun'
    BY <1>6 DEF Begin, Skip, Advance, Choke, Abort
  <1> QED
    BY <1>1, <1>2, <1>3, <1>4, <1>5, <1>6 DEF Next, Run, Crash, Kill

(* Faults and aborted runs disturb; of the other steps, Load lists no row that
   was sent, since no other run is open, and Deliver sends one that was not. *)
LEMMA SentAndDoneStep ==
    ASSUME TypeOK, Tidy, OneRun, NEW t \in Once, SentAndDone(t), Next, ~disturbed'
    PROVE  SentAndDone(t)'
  <1> t \in Tasks
    BY DispatchAssumption
  <1>1. CASE Keeps(t)
    BY <1>1 DEF Keeps, SentAndDone, TypeOK
  <1> USE DEF TypeOK, NoRow, brokerVars, runVars, observed
  <1>2. CASE Tick \/ Beat
    <2>1. Keeps(t)
      BY <1>2 DEF Tick, Beat, Keeps, HasServed, Visits
    <2> QED
      BY <1>1, <2>1
  <1>3. ASSUME NEW w \in Workers, Take(w)  PROVE SentAndDone(t)'
    <2>1. Keeps(t)
      BY <1>3 DEF Take, Keeps, HasServed, Visits
    <2> QED
      BY <1>1, <2>1
  <1>4. ASSUME NEW w \in Workers, Load(w)  PROVE SentAndDone(t)'
    <2>1. \A v \in Workers : ~HasServed(v, t) /\ ~(v # w /\ Visits(v, t)')
      BY <1>4 DEF Load, OneRun, Tidy, HasServed, Visits
    <2>2. Visits(w, t)' => active[t]
      BY <1>4 DEF Load, Visits
    <2>3. UNCHANGED <<sent, active>>
      BY <1>4 DEF Load
    <2> QED
      BY <2>1, <2>2, <2>3 DEF SentAndDone
  <1>5. ASSUME NEW w \in Workers, Deliver(w)  PROVE SentAndDone(t)'
    <2>1. CASE current[w] = t
      <3>1. Visits(w, t)
        BY <1>5, <2>1 DEF Deliver, Visits
      <3>2. sent'[t] = 1
        BY <1>5, <2>1, <3>1 DEF Deliver, SentAndDone
      <3>3. HasServed(w, t)'
        BY <1>5, <2>1 DEF Deliver, HasServed
      <3>4. \A v \in Workers : ~Visits(v, t)'
        BY <1>5, <2>1 DEF Deliver, OneRun, Visits
      <3> QED
        BY <3>2, <3>3, <3>4 DEF SentAndDone
    <2>2. CASE current[w] # t
      <3>1. Keeps(t)
        BY <1>5, <2>2 DEF Deliver, Keeps, HasServed, Visits
      <3> QED
        BY <1>1, <3>1
    <2> QED
      BY <2>1, <2>2
  <1>6. ASSUME NEW w \in Workers, Answer(w)  PROVE SentAndDone(t)'
    <2>1. CASE current[w] \in Once
      <3>1. Keeps(t)
        BY <1>6, <2>1 DEF Answer, Keeps, HasServed, Visits
      <3> QED
        BY <1>1, <3>1
    <2>2. CASE current[w] \notin Once
      <3>1. Advance(w, current[w]) /\ pc[w] = "answered" /\ UNCHANGED <<retired, active, sent>>
        BY <1>6, <2>2 DEF Answer
      <3>2. Keeps(t)
        BY <2>2, <3>1 DEF Advance, Keeps, HasServed, Visits
      <3> QED
        BY <1>1, <3>2
    <2> QED
      BY <2>1, <2>2
  <1>7. ASSUME NEW w \in Workers, Flush(w)  PROVE SentAndDone(t)'
    <2>1. Keeps(t)
      BY <1>7 DEF Flush, Advance, Keeps, HasServed, Visits
    <2> QED
      BY <1>1, <2>1
  <1>8. ASSUME NEW w \in Workers, Commit(w)  PROVE SentAndDone(t)'
    <2>1. Keeps(t)
      BY <1>8 DEF Commit, Keeps, HasServed, Visits
    <2> QED
      BY <1>1, <2>1
  <1>9. ASSUME NEW w \in Workers, Republish(w) \/ Ack(w)  PROVE SentAndDone(t)'
    <2>1. Keeps(t)
      BY <1>9 DEF Republish, Ack, Keeps, HasServed, Visits
    <2> QED
      BY <1>1, <2>1
  <1>10. ASSUME NEW w \in Workers,
                SendFails(w) \/ DatabaseFails(w) \/ SoftTimeLimit(w) \/ FailsCommitted(w) \/
                Leave(w) \/ Disconnect(w) \/ BreakDeadlock(w)
         PROVE  FALSE
    BY <1>10
    DEF SendFails, DatabaseFails, SoftTimeLimit, FailsCommitted, Leave, Disconnect, BreakDeadlock, Abort
  <1>11. ASSUME NEW w \in Workers, NEW u \in Tasks, Begin(w, u)  PROVE SentAndDone(t)'
    <2>1. Keeps(t)
      BY <1>11 DEF Begin, Keeps, HasServed, Visits
    <2> QED
      BY <1>1, <2>1
  <1>12. ASSUME NEW w \in Workers, NEW u \in Tasks, Skip(w, u)  PROVE SentAndDone(t)'
    <2>1. Keeps(t)
      BY <1>12 DEF Skip, Advance, Keeps, HasServed, Visits
    <2> QED
      BY <1>1, <2>1
  <1>13. ASSUME NEW w \in Workers, NEW u \in Tasks, Choke(w, u)  PROVE FALSE
    BY <1>13 DEF Choke, Abort
  <1> QED
    BY <1>2, <1>3, <1>4, <1>5, <1>6, <1>7, <1>8, <1>9, <1>10, <1>11, <1>12, <1>13 DEF Next, Run, Crash, Kill

(* What was disturbed stays so. *)
LEMMA DisturbedStays ==
    ASSUME disturbed, Next
    PROVE  disturbed'
  <1> USE DEF observed
  <1>1. CASE Tick \/ Beat
    BY <1>1 DEF Tick, Beat
  <1>2. ASSUME NEW w \in Workers, Run(w)  PROVE disturbed'
    BY <1>2
    DEF Run, Take, Load, Deliver, Answer, Flush, BreakDeadlock, Abort, Commit, Republish, Ack,
        Begin, Skip, Choke
  <1>3. ASSUME NEW w \in Workers,
               SendFails(w) \/ DatabaseFails(w) \/ SoftTimeLimit(w) \/ FailsCommitted(w) \/
               Leave(w) \/ Disconnect(w)
        PROVE  disturbed'
    BY <1>3
    DEF SendFails, DatabaseFails, SoftTimeLimit, FailsCommitted, Leave, Disconnect, Abort
  <1> QED
    BY <1>1, <1>2, <1>3 DEF Next, Crash, Kill

(* Without faults, aborted and overlapping runs a one-shot reminder is sent at
   most once, however late and bunched the runs are. *)
THEOREM SendsOnceOnce == Spec => []OnceSentOnce
  <1>1. Init => Tidy /\ Undisturbed
    BY DispatchAssumption
    DEF Init, Tidy, Undisturbed, OneRun, SentAndDone, HasServed, Visits
  <1>2. TypeOK /\ Tidy /\ Undisturbed /\ [Next]_vars => (Tidy /\ Undisturbed)'
    <2> SUFFICES ASSUME TypeOK, Tidy, Undisturbed, [Next]_vars PROVE (Tidy /\ Undisturbed)'
      OBVIOUS
    <2>1. CASE Next
      <3>1. Undisturbed'
        BY <2>1, OneRunStep, SentAndDoneStep, DisturbedStays DEF Undisturbed
      <3> QED
        BY <2>1, <3>1, TidyStep
    <2>2. CASE UNCHANGED vars
      BY <2>2
      DEF Tidy, Undisturbed, OneRun, SentAndDone, HasServed, Visits, vars, brokerVars,
          runVars, observed
    <2> QED
      BY <2>1, <2>2
  <1>3. Undisturbed => OnceSentOnce
    BY DEF Undisturbed, SentAndDone, OnceSentOnce
  <1> QED
    BY <1>1, <1>2, <1>3, TypeCorrect, PTL DEF Spec

=============================================================================
