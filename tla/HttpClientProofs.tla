-------------------------- MODULE HttpClientProofs --------------------------
(***************************************************************************)
(* HttpClient for every number of requests, retries and connections: no    *)
(* request is written more often than its method allows, the in-flight     *)
(* gauge and the connection pool are exact, and no request gives up early. *)
(***************************************************************************)
EXTENDS HttpClient, FiniteSetTheorems, TLAPS

\* The types of everything but the two counters.
DataOK ==
    /\ session \in {"none", "open", "closing"}
    /\ pc \in [Requests -> Phases]
    /\ method \in [Requests -> Methods]
    /\ attempts \in [Requests -> Nat]
    /\ status \in [Requests -> Classes]
    /\ result \in [Requests -> Results]
    /\ closers \in 0..MaxClosers
    /\ cut \subseteq Requests
    /\ adrift \subseteq Requests
    /\ wire \in [Requests -> Nat]

\* An attempt that is waiting for a connection has not been written yet, and
\* a request that sleeps before a retry has a retry left.
AttemptsPending ==
    \A r \in Requests :
        /\ pc[r] = "connecting" => wire[r] < attempts[r]
        /\ pc[r] = "backoff" => attempts[r] < AttemptLimit(method[r])

AttemptInv == WrittenAtMost /\ AttemptsPending /\ RaisesAfterLastAttempt

PoolInv == PoolExact /\ pooled \in 0..MaxConnections

\* Inductive: the two counters have the types of TypeOK because they are exact.
IInv ==
    /\ BreakerInv
    /\ DataOK
    /\ AttemptInv
    /\ GaugeExact
    /\ PoolInv

-----------------------------------------------------------------------------

(* The critical sections keep the breaker's fields in step, whichever step of a
   request they are part of. *)
LEMMA PrecheckInv ==
    ASSUME BreakerInv, Precheck
    PROVE  BreakerInv'
  BY ThresholdAssumption, TimeoutAssumption
  DEF BreakerInv, BreakerTypeOK, TrippedAtThreshold, Precheck, Allows

LEMMA OnSuccessInv ==
    ASSUME OnSuccess
    PROVE  BreakerInv'
  BY ThresholdAssumption, TimeoutAssumption
  DEF BreakerInv, BreakerTypeOK, TrippedAtThreshold, OnSuccess

LEMMA OnFailureInv ==
    ASSUME BreakerInv, OnFailure
    PROVE  BreakerInv'
  BY ThresholdAssumption, TimeoutAssumption
  DEF BreakerInv, BreakerTypeOK, TrippedAtThreshold, OnFailure

LEMMA ElapseInv ==
    ASSUME BreakerInv, Elapse
    PROVE  BreakerInv'
  BY ThresholdAssumption, TimeoutAssumption
  DEF BreakerInv, BreakerTypeOK, TrippedAtThreshold, Elapse

LEMMA UnchangedInv ==
    ASSUME BreakerInv, UNCHANGED breakerVars
    PROVE  BreakerInv'
  BY DEF BreakerInv, BreakerTypeOK, TrippedAtThreshold, breakerVars

(* The data keep their types. *)
LEMMA DataStep ==
    ASSUME DataOK, Next
    PROVE  DataOK'
  <1> USE ClosersAssumption DEF DataOK, Phases, Methods, Results, Classes, sessionVars, detached
  <1>1. ASSUME NEW r \in Requests, NotStarted(r)  PROVE DataOK'
    BY <1>1 DEF NotStarted, Finish
  <1>2. ASSUME NEW r \in Requests, NEW m \in Methods, Begin(r, m)  PROVE DataOK'
    BY <1>2 DEF Begin, Attempt, Finish
  <1>3. ASSUME NEW r \in Requests, Retry(r)  PROVE DataOK'
    BY <1>3 DEF Retry, Attempt, Finish
  <1>4. ASSUME NEW r \in Requests, Send(r)  PROVE DataOK'
    BY <1>4 DEF Send
  <1>5. ASSUME NEW r \in Requests, Break(r)  PROVE DataOK'
    BY <1>5 DEF Break, Release, Raise, Finish
  <1>6. ASSUME NEW r \in Requests, NEW s \in Classes, Respond(r, s)  PROVE DataOK'
    BY <1>6 DEF Respond
  <1>7. ASSUME NEW r \in Requests, NEW s \in Classes, RespondRetryable(r, s)  PROVE DataOK'
    BY <1>7 DEF RespondRetryable
  <1>8. ASSUME NEW r \in Requests, Drain(r)  PROVE DataOK'
    BY <1>8 DEF Drain, Release, Raise, Finish
  <1>9. ASSUME NEW r \in Requests, Read(r)  PROVE DataOK'
    BY <1>9 DEF Read, Release, Finish
  <1>10. ASSUME NEW r \in Requests, Cancel(r)  PROVE DataOK'
    BY <1>10 DEF Cancel, Release, Finish
  <1>11. CASE Start
    BY <1>11 DEF Start
  <1>12. CASE BeginClose
    BY <1>12 DEF BeginClose, In
  <1>13. CASE CloseAgain \/ FinishClose \/ AbandonClose
    BY <1>13 DEF CloseAgain, FinishClose, AbandonClose, In
  <1>14. CASE Tick
    BY <1>14 DEF Tick, reqVars, sessionVars, detached
  <1> QED
    BY <1>1, <1>2, <1>3, <1>4, <1>5, <1>6, <1>7, <1>8, <1>9, <1>10, <1>11, <1>12, <1>13, <1>14 DEF Next, RequestStep

(* Every step of the client is one critical section of the breaker, or none. *)
LEMMA BreakerStep ==
    ASSUME BreakerInv, Next
    PROVE  BreakerInv'
  <1>1. ASSUME NEW r \in Requests, NotStarted(r)  PROVE BreakerInv'
    BY <1>1, UnchangedInv DEF NotStarted, breakerVars
  <1>2. ASSUME NEW r \in Requests, NEW m \in Methods, Begin(r, m)  PROVE BreakerInv'
    BY <1>2, PrecheckInv, OnFailureInv, UnchangedInv DEF Begin, Attempt
  <1>3. ASSUME NEW r \in Requests, Retry(r)  PROVE BreakerInv'
    BY <1>3, PrecheckInv, OnFailureInv, UnchangedInv DEF Retry, Attempt
  <1>4. ASSUME NEW r \in Requests, Send(r)  PROVE BreakerInv'
    BY <1>4, UnchangedInv DEF Send, breakerVars
  <1>5. ASSUME NEW r \in Requests, Break(r)  PROVE BreakerInv'
    BY <1>5, OnFailureInv DEF Break, Raise
  <1>6. ASSUME NEW r \in Requests, NEW s \in Classes, Respond(r, s)  PROVE BreakerInv'
    BY <1>6, OnSuccessInv DEF Respond
  <1>7. ASSUME NEW r \in Requests, NEW s \in Classes, RespondRetryable(r, s)  PROVE BreakerInv'
    BY <1>7, UnchangedInv DEF RespondRetryable, breakerVars
  <1>8. ASSUME NEW r \in Requests, Drain(r)  PROVE BreakerInv'
    BY <1>8, OnFailureInv DEF Drain, Raise
  <1>9. ASSUME NEW r \in Requests, Read(r)  PROVE BreakerInv'
    BY <1>9, UnchangedInv DEF Read, breakerVars
  <1>10. ASSUME NEW r \in Requests, Cancel(r)  PROVE BreakerInv'
    BY <1>10, UnchangedInv DEF Cancel, breakerVars
  <1>11. CASE Start
    BY <1>11, UnchangedInv DEF Start, breakerVars
  <1>12. CASE BeginClose
    BY <1>12, UnchangedInv DEF BeginClose, breakerVars
  <1>13. CASE CloseAgain \/ FinishClose \/ AbandonClose
    BY <1>13, UnchangedInv DEF CloseAgain, FinishClose, AbandonClose, breakerVars
  <1>14. CASE Tick
    BY <1>14, ElapseInv DEF Tick
  <1> QED
    BY <1>1, <1>2, <1>3, <1>4, <1>5, <1>6, <1>7, <1>8, <1>9, <1>10, <1>11, <1>12, <1>13, <1>14 DEF Next, RequestStep

(* Attempts are counted before they are made and made before they are written. *)
LEMMA AttemptStep ==
    ASSUME DataOK, AttemptInv, Next
    PROVE  AttemptInv'
  <1> USE RetriesAssumption DEF DataOK, AttemptInv, WrittenAtMost, AttemptsPending,
          RaisesAfterLastAttempt, AttemptLimit, Methods, Phases
  <1>1. ASSUME NEW r \in Requests, NotStarted(r)  PROVE AttemptInv'
    BY <1>1 DEF NotStarted, Finish
  <1>2. ASSUME NEW r \in Requests, NEW m \in Methods, Begin(r, m)  PROVE AttemptInv'
    BY <1>2 DEF Begin, Attempt, Finish
  <1>3. ASSUME NEW r \in Requests, Retry(r)  PROVE AttemptInv'
    BY <1>3 DEF Retry, Attempt, Finish
  <1>4. ASSUME NEW r \in Requests, Send(r)  PROVE AttemptInv'
    BY <1>4 DEF Send
  <1>5. ASSUME NEW r \in Requests, Break(r)  PROVE AttemptInv'
    BY <1>5 DEF Break, Release, Raise, Finish
  <1>6. ASSUME NEW r \in Requests, NEW s \in Classes, Respond(r, s)  PROVE AttemptInv'
    BY <1>6 DEF Respond
  <1>7. ASSUME NEW r \in Requests, NEW s \in Classes, RespondRetryable(r, s)  PROVE AttemptInv'
    BY <1>7 DEF RespondRetryable
  <1>8. ASSUME NEW r \in Requests, Drain(r)  PROVE AttemptInv'
    BY <1>8 DEF Drain, Release, Raise, Finish
  <1>9. ASSUME NEW r \in Requests, Read(r)  PROVE AttemptInv'
    BY <1>9 DEF Read, Release, Finish
  <1>10. ASSUME NEW r \in Requests, Cancel(r)  PROVE AttemptInv'
    BY <1>10 DEF Cancel, Release, Finish
  <1>11. CASE Start
    BY <1>11 DEF Start
  <1>12. CASE BeginClose
    BY <1>12 DEF BeginClose
  <1>13. CASE CloseAgain \/ FinishClose \/ AbandonClose
    BY <1>13 DEF CloseAgain, FinishClose, AbandonClose
  <1>14. CASE Tick
    BY <1>14 DEF Tick, reqVars, sessionVars, detached
  <1> QED
    BY <1>1, <1>2, <1>3, <1>4, <1>5, <1>6, <1>7, <1>8, <1>9, <1>10, <1>11, <1>12, <1>13, <1>14 DEF Next, RequestStep

(* Counting a set of requests that one request joins or leaves. *)
LEMMA Counting ==
    ASSUME NEW S \in SUBSET Requests, NEW r
    PROVE  /\ Cardinality(S) \in Nat
           /\ r \notin S => Cardinality(S \cup {r}) = Cardinality(S) + 1
           /\ r \in S => Cardinality(S \ {r}) = Cardinality(S) - 1
  <1>1. IsFiniteSet(S)
    BY FiniteAssumption, FS_Subset
  <1> QED
    BY <1>1, FS_CardinalityType, FS_AddElement, FS_RemoveElement

(* A request joins the gauge when it enters session.request and leaves it on
   every way out. *)
LEMMA GaugeStep ==
    ASSUME DataOK, GaugeExact, Next
    PROVE  GaugeExact'
  <1> USE DEF DataOK, GaugeExact, In, Awaiting, Phases
  <1>1. ASSUME NEW r \in Requests, NotStarted(r)  PROVE GaugeExact'
    <2>1. In(Awaiting)' = In(Awaiting) /\ inFlight' = inFlight
      BY <1>1 DEF NotStarted, Finish
    <2> QED
      BY <2>1
  <1>2. ASSUME NEW r \in Requests, NEW m \in Methods, Begin(r, m)  PROVE GaugeExact'
    <2>1. \/ In(Awaiting)' = In(Awaiting) /\ inFlight' = inFlight
          \/ /\ r \notin In(Awaiting)
             /\ In(Awaiting)' = In(Awaiting) \cup {r}
             /\ inFlight' = inFlight + 1
      BY <1>2 DEF Begin, Attempt, Finish
    <2> QED
      BY <2>1, Counting
  <1>3. ASSUME NEW r \in Requests, Retry(r)  PROVE GaugeExact'
    <2>1. \/ In(Awaiting)' = In(Awaiting) /\ inFlight' = inFlight
          \/ /\ r \notin In(Awaiting)
             /\ In(Awaiting)' = In(Awaiting) \cup {r}
             /\ inFlight' = inFlight + 1
      BY <1>3 DEF Retry, Attempt, Finish
    <2> QED
      BY <2>1, Counting
  <1>4. ASSUME NEW r \in Requests, Send(r)  PROVE GaugeExact'
    <2>1. In(Awaiting)' = In(Awaiting) /\ inFlight' = inFlight
      BY <1>4 DEF Send
    <2> QED
      BY <2>1
  <1>5. ASSUME NEW r \in Requests, Break(r)  PROVE GaugeExact'
    <2>1. /\ r \in In(Awaiting)
          /\ In(Awaiting)' = In(Awaiting) \ {r}
          /\ inFlight' = inFlight - 1
      BY <1>5 DEF Break, Release, Raise, Finish
    <2> QED
      BY <2>1, Counting
  <1>6. ASSUME NEW r \in Requests, NEW s \in Classes, Respond(r, s)  PROVE GaugeExact'
    <2>1. /\ r \in In(Awaiting)
          /\ In(Awaiting)' = In(Awaiting) \ {r}
          /\ inFlight' = inFlight - 1
      BY <1>6 DEF Respond
    <2> QED
      BY <2>1, Counting
  <1>7. ASSUME NEW r \in Requests, NEW s \in Classes, RespondRetryable(r, s)  PROVE GaugeExact'
    <2>1. /\ r \in In(Awaiting)
          /\ In(Awaiting)' = In(Awaiting) \ {r}
          /\ inFlight' = inFlight - 1
      BY <1>7 DEF RespondRetryable
    <2> QED
      BY <2>1, Counting
  <1>8. ASSUME NEW r \in Requests, Drain(r)  PROVE GaugeExact'
    <2>1. In(Awaiting)' = In(Awaiting) /\ inFlight' = inFlight
      BY <1>8 DEF Drain, Release, Raise, Finish
    <2> QED
      BY <2>1
  <1>9. ASSUME NEW r \in Requests, Read(r)  PROVE GaugeExact'
    <2>1. In(Awaiting)' = In(Awaiting) /\ inFlight' = inFlight
      BY <1>9 DEF Read, Release, Finish
    <2> QED
      BY <2>1
  <1>10. ASSUME NEW r \in Requests, Cancel(r)  PROVE GaugeExact'
    <2>1. \/ In(Awaiting)' = In(Awaiting) /\ inFlight' = inFlight
          \/ /\ r \in In(Awaiting)
             /\ In(Awaiting)' = In(Awaiting) \ {r}
             /\ inFlight' = inFlight - 1
      BY <1>10 DEF Cancel, Release, Finish
    <2> QED
      BY <2>1, Counting
  <1>11. CASE Start
    <2>1. In(Awaiting)' = In(Awaiting) /\ inFlight' = inFlight
      BY <1>11 DEF Start
    <2> QED
      BY <2>1
  <1>12. CASE BeginClose
    <2>1. In(Awaiting)' = In(Awaiting) /\ inFlight' = inFlight
      BY <1>12 DEF BeginClose
    <2> QED
      BY <2>1
  <1>13. CASE CloseAgain \/ FinishClose \/ AbandonClose
    <2>1. In(Awaiting)' = In(Awaiting) /\ inFlight' = inFlight
      BY <1>13 DEF CloseAgain, FinishClose, AbandonClose
    <2> QED
      BY <2>1
  <1>14. CASE Tick
    <2>1. In(Awaiting)' = In(Awaiting) /\ inFlight' = inFlight
      BY <1>14 DEF Tick, reqVars, sessionVars, detached
    <2> QED
      BY <2>1
  <1> QED
    BY <1>1, <1>2, <1>3, <1>4, <1>5, <1>6, <1>7, <1>8, <1>9, <1>10, <1>11, <1>12, <1>13, <1>14 DEF Next, RequestStep

(* The ways in which the pool and the requests that hold a connection of it
   change together. *)
LEMMA PoolCount ==
    ASSUME PoolInv, NEW r,
           \/ Held' = Held /\ pooled' = pooled
           \/ Held' = {} /\ pooled' = 0
           \/ r \in Held /\ Held' = Held \ {r} /\ pooled' = pooled - 1
           \/ /\ r \notin Held /\ Held' = Held \cup {r} /\ pooled' = pooled + 1
              /\ pooled < MaxConnections
    PROVE  PoolInv'
  <1>1. Held \in SUBSET Requests
    BY DEF Held, In
  <1>2. pooled' = Cardinality(Held')
    <2>1. /\ r \notin Held => Cardinality(Held \cup {r}) = Cardinality(Held) + 1
          /\ r \in Held => Cardinality(Held \ {r}) = Cardinality(Held) - 1
      BY <1>1, Counting
    <2>2. pooled = Cardinality(Held) /\ Cardinality({}) = 0
      BY FS_EmptySet DEF PoolInv, PoolExact
    <2> QED
      BY <2>1, <2>2
  <1>3. Cardinality(Held') \in Nat
    <2>1. Held' \in SUBSET Requests
      BY DEF Held, In
    <2> QED
      BY <2>1, Counting
  <1> QED
    BY <1>2, <1>3, PoolAssumption DEF PoolInv, PoolExact

(* A connection is taken when a request is written and given back on every way
   out, or goes with the pool of a closed session. *)
LEMMA PoolStep ==
    ASSUME DataOK, PoolInv, Next
    PROVE  PoolInv'
  <1>1. ASSUME NEW r \in Requests, NotStarted(r)  PROVE PoolInv'
    <2>1. Held' = Held /\ pooled' = pooled
      BY <1>1 DEF DataOK, Held, In, Holding, Awaiting, detached, NotStarted, Finish
    <2> QED
      BY <2>1, PoolCount
  <1>2. ASSUME NEW r \in Requests, NEW m \in Methods, Begin(r, m)  PROVE PoolInv'
    <2>1. Held' = Held /\ pooled' = pooled
      BY <1>2 DEF DataOK, Held, In, Holding, Awaiting, detached, Begin, Attempt, Finish
    <2> QED
      BY <2>1, PoolCount
  <1>3. ASSUME NEW r \in Requests, Retry(r)  PROVE PoolInv'
    <2>1. Held' = Held /\ pooled' = pooled
      BY <1>3 DEF DataOK, Held, In, Holding, Awaiting, detached, Retry, Attempt, Finish
    <2> QED
      BY <2>1, PoolCount
  <1>4. ASSUME NEW r \in Requests, Send(r)  PROVE PoolInv'
    <2>1. \/ Held' = Held /\ pooled' = pooled
          \/ /\ r \notin Held
             /\ Held' = Held \cup {r}
             /\ pooled' = pooled + 1
             /\ pooled < MaxConnections
      BY <1>4 DEF DataOK, Held, In, Holding, Awaiting, detached, Send
    <2> QED
      BY <2>1, PoolCount
  <1>5. ASSUME NEW r \in Requests, Break(r)  PROVE PoolInv'
    <2>1. \/ Held' = Held /\ pooled' = pooled
          \/ /\ r \in Held
             /\ Held' = Held \ {r}
             /\ pooled' = pooled - 1
      BY <1>5 DEF DataOK, Held, In, Holding, Awaiting, detached, Break, Release, Raise, Finish
    <2> QED
      BY <2>1, PoolCount
  <1>6. ASSUME NEW r \in Requests, NEW s \in Classes, Respond(r, s)  PROVE PoolInv'
    <2>1. Held' = Held /\ pooled' = pooled
      BY <1>6 DEF DataOK, Held, In, Holding, Awaiting, detached, Respond
    <2> QED
      BY <2>1, PoolCount
  <1>7. ASSUME NEW r \in Requests, NEW s \in Classes, RespondRetryable(r, s)  PROVE PoolInv'
    <2>1. Held' = Held /\ pooled' = pooled
      BY <1>7 DEF DataOK, Held, In, Holding, Awaiting, detached, RespondRetryable
    <2> QED
      BY <2>1, PoolCount
  <1>8. ASSUME NEW r \in Requests, Drain(r)  PROVE PoolInv'
    <2>1. \/ Held' = Held /\ pooled' = pooled
          \/ /\ r \in Held
             /\ Held' = Held \ {r}
             /\ pooled' = pooled - 1
      BY <1>8 DEF DataOK, Held, In, Holding, Awaiting, detached, Drain, Release, Raise, Finish
    <2> QED
      BY <2>1, PoolCount
  <1>9. ASSUME NEW r \in Requests, Read(r)  PROVE PoolInv'
    <2>1. \/ Held' = Held /\ pooled' = pooled
          \/ /\ r \in Held
             /\ Held' = Held \ {r}
             /\ pooled' = pooled - 1
      BY <1>9 DEF DataOK, Held, In, Holding, Awaiting, detached, Read, Release, Finish
    <2> QED
      BY <2>1, PoolCount
  <1>10. ASSUME NEW r \in Requests, Cancel(r)  PROVE PoolInv'
    <2>1. \/ Held' = Held /\ pooled' = pooled
          \/ /\ r \in Held
             /\ Held' = Held \ {r}
             /\ pooled' = pooled - 1
      BY <1>10 DEF DataOK, Held, In, Holding, Awaiting, detached, Cancel, Release, Finish
    <2> QED
      BY <2>1, PoolCount
  <1>11. CASE Start
    <2>1. Held' = Held /\ pooled' = pooled
      BY <1>11 DEF DataOK, Held, In, Holding, Awaiting, detached, Start
    <2> QED
      BY <2>1, PoolCount
  <1>12. CASE BeginClose
    <2>1. Held' = {} /\ pooled' = 0
      BY <1>12 DEF DataOK, Held, In, Holding, Awaiting, detached, BeginClose
    <2> QED
      BY <2>1, PoolCount
  <1>13. CASE CloseAgain \/ FinishClose \/ AbandonClose
    <2>1. \/ Held' = Held /\ pooled' = pooled
          \/ Held' = {} /\ pooled' = 0
      BY <1>13 DEF DataOK, Held, In, Holding, Awaiting, detached, CloseAgain, FinishClose, AbandonClose
    <2> QED
      BY <2>1, PoolCount
  <1>14. CASE Tick
    <2>1. Held' = Held /\ pooled' = pooled
      BY <1>14 DEF DataOK, Held, In, Holding, Awaiting, detached, Tick, reqVars, sessionVars
    <2> QED
      BY <2>1, PoolCount
  <1> QED
    BY <1>1, <1>2, <1>3, <1>4, <1>5, <1>6, <1>7, <1>8, <1>9, <1>10, <1>11, <1>12, <1>13, <1>14 DEF Next, RequestStep

LEMMA InductiveInvariant == Spec => []IInv
  <1> USE ThresholdAssumption, TimeoutAssumption, RetriesAssumption, PoolAssumption
  <1>1. Init => IInv
    <2> SUFFICES ASSUME Init PROVE IInv
      OBVIOUS
    <2>1. BreakerInv
      BY DEF Init, BreakerInit, BreakerInv, BreakerTypeOK, TrippedAtThreshold
    <2>2. DataOK
      BY ClosersAssumption DEF Init, DataOK, Phases, Methods, Results, Classes
    <2>3. AttemptInv
      BY DEF Init, AttemptInv, WrittenAtMost, AttemptsPending, RaisesAfterLastAttempt,
             AttemptLimit
    <2>4. In(Awaiting) = {} /\ Held = {}
      BY DEF Init, In, Awaiting, Holding, Held
    <2>5. GaugeExact /\ PoolInv
      BY <2>4, FS_EmptySet DEF Init, GaugeExact, PoolInv, PoolExact
    <2> QED
      BY <2>1, <2>2, <2>3, <2>5 DEF IInv
  <1>2. IInv /\ [Next]_vars => IInv'
    <2> SUFFICES ASSUME IInv, [Next]_vars PROVE IInv'
      OBVIOUS
    <2>1. CASE Next
      BY <2>1, BreakerStep, DataStep, AttemptStep, GaugeStep, PoolStep DEF IInv
    <2>2. CASE UNCHANGED vars
      <3>1. UNCHANGED breakerVars
        BY <2>2 DEF vars
      <3>2. BreakerInv'
        BY <3>1, UnchangedInv DEF IInv
      <3> QED
        BY <2>2, <3>2
        DEF IInv, DataOK, AttemptInv, WrittenAtMost, AttemptsPending,
            RaisesAfterLastAttempt, GaugeExact, PoolInv, PoolExact, Held, In, vars, reqVars,
            sessionVars, detached
    <2> QED
      BY <2>1, <2>2
  <1> QED
    BY <1>1, <1>2, PTL DEF Spec

(* Every variable of the client keeps its type: in particular both counters
   stay within their ranges. *)
THEOREM TypeCorrect == Spec => []TypeOK
  <1>1. IInv => TypeOK
    <2> SUFFICES ASSUME IInv PROVE TypeOK
      OBVIOUS
    <2>1. inFlight \in Nat
      <3>1. In(Awaiting) \in SUBSET Requests
        BY DEF In
      <3> QED
        BY <3>1, Counting DEF IInv, GaugeExact
    <2>2. \A r \in Requests : attempts[r] <= MaxRetries + 1 /\ wire[r] <= MaxRetries + 1
      BY RetriesAssumption
      DEF IInv, DataOK, AttemptInv, WrittenAtMost, AttemptLimit, Methods
    <2>3. /\ attempts \in [Requests -> 0..(MaxRetries + 1)]
          /\ wire \in [Requests -> 0..(MaxRetries + 1)]
      BY <2>2, RetriesAssumption DEF IInv, DataOK
    <2> QED
      BY <2>1, <2>3 DEF IInv, BreakerInv, DataOK, PoolInv, TypeOK
  <1> QED
    BY <1>1, InductiveInvariant, PTL

(* No request goes out more often than its method allows: a POST at most
   once. *)
THEOREM NoDuplicateWrites == Spec => []WrittenAtMost
  <1>1. IInv => WrittenAtMost
    BY DEF IInv, AttemptInv
  <1> QED
    BY <1>1, InductiveInvariant, PTL

(* Retryable errors reach the caller only when the retries are used up. *)
THEOREM NoEarlySurrender == Spec => []RaisesAfterLastAttempt
  <1>1. IInv => RaisesAfterLastAttempt
    BY DEF IInv, AttemptInv
  <1> QED
    BY <1>1, InductiveInvariant, PTL

(* The gauge counts the requests inside session.request, and the pool the
   connections of the session that are in use, for any number of each. *)
THEOREM CountersExact == Spec => []NothingLeaks
  <1>1. IInv => NothingLeaks
    BY DEF IInv, PoolInv, NothingLeaks
  <1> QED
    BY <1>1, InductiveInvariant, PTL

(* A breaker that refuses calls lets no attempt through, first or retried. *)
THEOREM NoAttemptWhileOpen == Spec => OpenBreakerAdmitsNothing
  <1>1. IInv /\ [Next]_vars =>
            [~Allows => In({"connecting"})' \subseteq In({"connecting"})]_vars
    <2> SUFFICES ASSUME IInv, Next, ~Allows
                 PROVE  In({"connecting"})' \subseteq In({"connecting"})
      OBVIOUS
    <2> USE DEF IInv, DataOK, In
    <2>1. ASSUME NEW r \in Requests, NotStarted(r)
         PROVE  In({"connecting"})' \subseteq In({"connecting"})
      BY <2>1 DEF NotStarted, Finish
    <2>2. ASSUME NEW r \in Requests, NEW m \in Methods, Begin(r, m)
         PROVE  In({"connecting"})' \subseteq In({"connecting"})
      BY <2>2 DEF Begin, Attempt, Finish, Precheck
    <2>3. ASSUME NEW r \in Requests, Retry(r)
         PROVE  In({"connecting"})' \subseteq In({"connecting"})
      BY <2>3 DEF Retry, Attempt, Finish, Precheck
    <2>4. ASSUME NEW r \in Requests, Send(r)
         PROVE  In({"connecting"})' \subseteq In({"connecting"})
      BY <2>4 DEF Send
    <2>5. ASSUME NEW r \in Requests, Break(r)
         PROVE  In({"connecting"})' \subseteq In({"connecting"})
      BY <2>5 DEF Break, Release, Raise, Finish
    <2>6. ASSUME NEW r \in Requests, NEW s \in Classes, Respond(r, s)
         PROVE  In({"connecting"})' \subseteq In({"connecting"})
      BY <2>6 DEF Respond
    <2>7. ASSUME NEW r \in Requests, NEW s \in Classes, RespondRetryable(r, s)
         PROVE  In({"connecting"})' \subseteq In({"connecting"})
      BY <2>7 DEF RespondRetryable
    <2>8. ASSUME NEW r \in Requests, Drain(r)
         PROVE  In({"connecting"})' \subseteq In({"connecting"})
      BY <2>8 DEF Drain, Release, Raise, Finish
    <2>9. ASSUME NEW r \in Requests, Read(r)
         PROVE  In({"connecting"})' \subseteq In({"connecting"})
      BY <2>9 DEF Read, Release, Finish
    <2>10. ASSUME NEW r \in Requests, Cancel(r)
         PROVE  In({"connecting"})' \subseteq In({"connecting"})
      BY <2>10 DEF Cancel, Release, Finish
    <2>11. CASE Start
      BY <2>11 DEF Start
    <2>12. CASE BeginClose
      BY <2>12 DEF BeginClose
    <2>13. CASE CloseAgain \/ FinishClose \/ AbandonClose
      BY <2>13 DEF CloseAgain, FinishClose, AbandonClose
    <2>14. CASE Tick
      BY <2>14 DEF Tick, reqVars, sessionVars, detached
    <2> QED
      BY <2>1, <2>2, <2>3, <2>4, <2>5, <2>6, <2>7, <2>8, <2>9, <2>10, <2>11, <2>12, <2>13, <2>14 DEF Next, RequestStep
  <1> QED
    BY <1>1, InductiveInvariant, PTL DEF Spec, OpenBreakerAdmitsNothing

-----------------------------------------------------------------------------
(* The client implements RequestPromise. *)

\* A request under way has been tried, and one that gets a response has gone out.
Tried ==
    \A r \in Requests :
        /\ pc[r] \notin {"idle", "done"} => attempts[r] > 0
        /\ pc[r] \in Holding => wire[r] > 0

\* Inductive.
PromiseInv == IInv /\ Tried

LEMMA TriedStep ==
    ASSUME DataOK, Tried, Next
    PROVE  Tried'
  <1> USE DEF DataOK, Tried, Holding, Phases
  <1>1. ASSUME NEW r \in Requests, NotStarted(r)  PROVE Tried'
    BY <1>1 DEF NotStarted, Finish
  <1>2. ASSUME NEW r \in Requests, NEW m \in Methods, Begin(r, m)  PROVE Tried'
    BY <1>2 DEF Begin, Attempt, Finish
  <1>3. ASSUME NEW r \in Requests, Retry(r)  PROVE Tried'
    BY <1>3 DEF Retry, Attempt, Finish
  <1>4. ASSUME NEW r \in Requests, Send(r)  PROVE Tried'
    BY <1>4 DEF Send
  <1>5. ASSUME NEW r \in Requests, Break(r)  PROVE Tried'
    BY <1>5 DEF Break, Release, Raise, Finish, Awaiting
  <1>6. ASSUME NEW r \in Requests, NEW s \in Classes, Respond(r, s)  PROVE Tried'
    BY <1>6 DEF Respond
  <1>7. ASSUME NEW r \in Requests, NEW s \in Classes, RespondRetryable(r, s)  PROVE Tried'
    BY <1>7 DEF RespondRetryable
  <1>8. ASSUME NEW r \in Requests, Drain(r)  PROVE Tried'
    BY <1>8 DEF Drain, Release, Raise, Finish
  <1>9. ASSUME NEW r \in Requests, Read(r)  PROVE Tried'
    BY <1>9 DEF Read, Release, Finish
  <1>10. ASSUME NEW r \in Requests, Cancel(r)  PROVE Tried'
    BY <1>10 DEF Cancel, Release, Finish
  <1>11. CASE Start \/ BeginClose \/ CloseAgain \/ FinishClose \/ AbandonClose \/ Tick
    BY <1>11
    DEF Start, BeginClose, CloseAgain, FinishClose, AbandonClose, Tick, reqVars, sessionVars,
        detached
  <1> QED
    BY <1>1, <1>2, <1>3, <1>4, <1>5, <1>6, <1>7, <1>8, <1>9, <1>10, <1>11
    DEF Next, RequestStep

LEMMA PromiseInvariant == Spec => []PromiseInv
  <1>1. Init => Tried
    BY DEF Init, Tried, Holding
  <1>2. IInv /\ Tried /\ [Next]_vars => Tried'
    BY TriedStep DEF IInv, Tried, vars, reqVars, sessionVars, detached
  <1>3. IInv /\ Tried => PromiseInv
    BY DEF PromiseInv
  <1> QED
    BY <1>1, <1>2, <1>3, InductiveInvariant, PTL DEF Spec

\* A step that only takes request r further leaves every answer as it is.
LEMMA StillPending ==
    ASSUME DataOK, NEW r \in Requests, NEW p, pc' = [pc EXCEPT ![r] = p],
           pc[r] \notin {"idle", "done"}, p \notin {"idle", "done"},
           \A q \in Requests : q # r => result'[q] = result[q]
    PROVE  Answer' = Answer
  BY DEF Answer, DataOK

\* A request that is finished has the answer it is finished with.
LEMMA Answered ==
    ASSUME DataOK, NEW r \in Requests, NEW x, Finish(r, x)
    PROVE  Answer' = [Answer EXCEPT ![r] = x]
  BY DEF Answer, DataOK, Finish

\* So has one that begins: it is under way.
LEMMA Pending ==
    ASSUME DataOK, NEW r \in Requests, pc' = [pc EXCEPT ![r] = "connecting"],
           result' = [result EXCEPT ![r] = "none"]
    PROVE  Answer' = [Answer EXCEPT ![r] = "pending"]
  BY DEF Answer, DataOK

\* A step is one of the promise, or the caller sees nothing of it.
Unseen == method' = method /\ wire' = wire /\ Answer' = Answer
Kept == Promise!Next \/ Unseen

LEMMA StepKeepsPromise ==
    ASSUME PromiseInv, Next
    PROVE  Kept
  <1> USE DEF Methods
  <1>1. /\ DataOK /\ AttemptInv /\ Tried
        /\ \A r \in Requests : Answer[r] = "pending" <=> pc[r] \notin {"idle", "done"}
    BY DEF PromiseInv, IInv, DataOK, Results, Phases, Answer
  <1>2. ASSUME NEW r \in Requests, NotStarted(r)  PROVE Promise!Next
    <2>1. Promise!Deny(r)
      BY <1>1, <1>2, Answered DEF NotStarted, Promise!Deny, Promise!Answers
    <2> QED
      BY <2>1 DEF Promise!Next
  <1>3. ASSUME NEW r \in Requests, NEW m \in Methods, Begin(r, m)  PROVE Promise!Next
    <2>1. \E x \in {"pending", "refused", "error"} : Promise!Answers(r, x)
      BY <1>1, <1>3, Answered, Pending DEF Begin, Attempt, Promise!Answers
    <2>2. Promise!Ask(r, m)
      BY <1>1, <1>3, <2>1 DEF Begin, Promise!Ask
    <2> QED
      BY <2>2 DEF Promise!Next
  <1>4. ASSUME NEW r \in Requests, NEW x \in {"transient", "refused", "error"},
               pc[r] \notin {"idle", "done"}, Finish(r, x), UNCHANGED <<method, wire>>,
               x = "refused" => method[r] = "GET"
        PROVE  Promise!Next
    <2>1. Promise!End(r, x)
      BY <1>1, <1>4, Answered DEF Promise!End, Promise!Answers
    <2> QED
      BY <2>1 DEF Promise!Next
  <1>5. ASSUME NEW r \in Requests, Retry(r)  PROVE Kept
    <2>1. method[r] = "GET" /\ pc[r] = "backoff"
      BY <1>1, <1>5, RetriesAssumption
      DEF Retry, AttemptInv, AttemptsPending, Tried, DataOK, AttemptLimit
    <2>2. CASE \E x \in {"refused", "error"} : Finish(r, x)
      BY <1>4, <1>5, <2>1, <2>2 DEF Retry, Kept
    <2>3. CASE pc' = [pc EXCEPT ![r] = "connecting"]
                /\ result' = [result EXCEPT ![r] = "none"]
      <3>1. Answer' = Answer
        BY <1>1, <2>1, <2>3, StillPending DEF DataOK
      <3> QED
        BY <1>5, <3>1 DEF Retry, Kept, Unseen
    <2> QED
      BY <1>5, <2>2, <2>3 DEF Retry, Attempt, Kept
  <1>6. ASSUME NEW r \in Requests, Send(r)  PROVE Promise!Next
    <2>1. /\ wire[r] < attempts[r] /\ attempts[r] <= AttemptLimit(method[r])
          /\ wire[r] \in Nat /\ attempts[r] \in Nat
      BY <1>1, <1>6 DEF Send, AttemptInv, AttemptsPending, WrittenAtMost, DataOK
    <2>2. wire[r] > 0 => method[r] = "GET" /\ wire[r] <= MaxRetries
      BY <2>1, RetriesAssumption DEF AttemptLimit
    <2>3. Answer' = Answer
      BY <1>1, <1>6, StillPending DEF Send
    <2>4. Promise!Write(r)
      BY <1>1, <1>6, <2>2, <2>3 DEF Send, Promise!Write
    <2> QED
      BY <2>4 DEF Promise!Next
  <1>7. ASSUME NEW r \in Requests, NEW error \in {"transient", "error"},
               pc[r] \notin {"idle", "done"}, Raise(r, error), UNCHANGED <<method, wire>>
        PROVE  Kept
    <2>1. CASE Finish(r, error)
      BY <1>4, <1>7, <2>1 DEF Kept
    <2>2. CASE pc' = [pc EXCEPT ![r] = "backoff"] /\ UNCHANGED result
      <3>1. /\ "backoff" \notin {"idle", "done"}
            /\ \A q \in Requests : q # r => result'[q] = result[q]
        BY <2>2
      <3>2. Answer' = Answer
        BY <1>1, <1>7, <2>2, <3>1, StillPending
      <3> QED
        BY <1>7, <3>2 DEF Kept, Unseen
    <2> QED
      BY <1>7, <2>1, <2>2 DEF Raise
  <1>8. ASSUME NEW r \in Requests, Break(r) \/ Drain(r)  PROVE Kept
    BY <1>7, <1>8 DEF Break, Drain, Awaiting
  <1>9. ASSUME NEW r \in Requests, NEW s \in Classes,
               Respond(r, s) \/ RespondRetryable(r, s)
        PROVE  Kept
    BY <1>1, <1>9, StillPending DEF Respond, RespondRetryable, Kept, Unseen
  <1>10. ASSUME NEW r \in Requests, Read(r)  PROVE Kept
    <2>1. PICK x \in {"ok", "error"} : Finish(r, x)
      BY <1>10 DEF Read
    <2>2. wire[r] > 0
      BY <1>1, <1>10 DEF Read, Tried, Holding
    <2>3. Promise!End(r, x)
      BY <1>1, <1>10, <2>1, <2>2, Answered DEF Read, Promise!End, Promise!Answers
    <2> QED
      BY <2>3 DEF Promise!Next, Kept
  <1>11. ASSUME NEW r \in Requests, Cancel(r)  PROVE Kept
    BY <1>4, <1>11 DEF Cancel, Kept
  <1>12. ASSUME Start \/ BeginClose \/ CloseAgain \/ FinishClose \/ AbandonClose \/ Tick
         PROVE  Unseen
    <2>1. UNCHANGED <<pc, result, method, wire>>
      BY <1>12
      DEF Start, BeginClose, CloseAgain, FinishClose, AbandonClose, Tick, reqVars, sessionVars,
          detached
    <2> QED
      BY <2>1 DEF Answer, Unseen
  <1>13. ASSUME NEW r \in Requests, RequestStep(r)  PROVE Kept
    BY <1>13, <1>2, <1>3, <1>5, <1>6, <1>8, <1>9, <1>10, <1>11 DEF RequestStep, Kept
  <1> QED
    BY <1>12, <1>13 DEF Next, Kept

(* For any number of requests, connections and retries, every answer a caller
   gets is true of what went out: what the client does is what RequestPromise
   allows, or hidden from the caller. *)
THEOREM KeepsRequestPromise == Spec => AnswersAreTrue
  <1>1. Init => Promise!Init
    BY DEF Init, Answer, Promise!Init
  <1>2. PromiseInv /\ [Next]_vars => [Promise!Next]_(Promise!promiseVars)
    <2>1. ASSUME UNCHANGED vars  PROVE UNCHANGED Promise!promiseVars
      BY <2>1 DEF vars, reqVars, sessionVars, detached, Answer, Promise!promiseVars
    <2> QED
      BY <2>1, StepKeepsPromise DEF Kept, Unseen, Promise!promiseVars
  <1> QED
    BY <1>1, <1>2, PromiseInvariant, PTL DEF Spec, AnswersAreTrue, Promise!Spec

=============================================================================
