------------------------- MODULE BreakerCallsProofs -------------------------
(***************************************************************************)
(* BreakerCalls for every threshold, timeout and set of tasks: its types,  *)
(* the agreement of the breaker's two fields, and that it implements       *)
(* BreakerPromise.                                                         *)
(***************************************************************************)
EXTENDS BreakerCalls, TLAPS

\* Inductive.
IInv == TypeOK /\ TrippedAtThreshold

-----------------------------------------------------------------------------

(* The rest of the state keeps its type: every action changes `call` at one
   caller, or not at all. *)
CallsTypeOK ==
    /\ call \in [Calls -> Ended \cup {"running"}]
    /\ up \in BOOLEAN
    /\ touched \subseteq Calls

LEMMA CallsType ==
    ASSUME CallsTypeOK, Next
    PROVE  CallsTypeOK'
  <1>1. ASSUME NEW c \in Calls, Admit(c)   PROVE CallsTypeOK'
    BY <1>1 DEF CallsTypeOK, Admit
  <1>2. ASSUME NEW c \in Calls, Refuse(c)  PROVE CallsTypeOK'
    BY <1>2 DEF CallsTypeOK, Refuse, Ended
  <1>3. ASSUME NEW c \in Calls, Settle(c)  PROVE CallsTypeOK'
    BY <1>3 DEF CallsTypeOK, Settle, Succeed, Fail, Cancel, Ended
  <1>4. CASE Tick
    BY <1>4 DEF CallsTypeOK, Tick
  <1>5. CASE Outage
    BY <1>5 DEF CallsTypeOK, Outage, Running
  <1>6. CASE Recover
    BY <1>6 DEF CallsTypeOK, Recover
  <1> QED
    BY <1>1, <1>2, <1>3, <1>4, <1>5, <1>6 DEF Next

(* The critical sections keep the breaker's fields in step, and nothing else
   touches them. *)
LEMMA BreakerStep ==
    ASSUME BreakerInv, Next
    PROVE  BreakerInv'
  <1> USE ThresholdAssumption, TimeoutAssumption
      DEF BreakerInv, BreakerTypeOK, TrippedAtThreshold, breakerVars
  <1>1. ASSUME NEW c \in Calls, Admit(c)    PROVE BreakerInv'
    BY <1>1 DEF Admit, Precheck, Allows
  <1>2. ASSUME NEW c \in Calls, Refuse(c)   PROVE BreakerInv'
    BY <1>2 DEF Refuse
  <1>3. ASSUME NEW c \in Calls, Succeed(c)  PROVE BreakerInv'
    BY <1>3 DEF Succeed, OnSuccess
  <1>4. ASSUME NEW c \in Calls, Fail(c)     PROVE BreakerInv'
    BY <1>4 DEF Fail, OnFailure
  <1>5. ASSUME NEW c \in Calls, Cancel(c)   PROVE BreakerInv'
    BY <1>5 DEF Cancel
  <1>6. CASE Tick
    BY <1>6 DEF Tick, Elapse
  <1>7. CASE Outage
    BY <1>7 DEF Outage
  <1>8. CASE Recover
    BY <1>8 DEF Recover
  <1> QED
    BY <1>1, <1>2, <1>3, <1>4, <1>5, <1>6, <1>7, <1>8 DEF Next, Settle

LEMMA InductiveInvariant == Spec => []IInv
  <1>1. Init => IInv
    BY ThresholdAssumption, TimeoutAssumption
    DEF Init, BreakerInit, IInv, TypeOK, BreakerTypeOK, TrippedAtThreshold, Ended
  <1>2. IInv /\ [Next]_vars => IInv'
    <2> SUFFICES ASSUME IInv, [Next]_vars PROVE IInv'
      OBVIOUS
    <2>1. CASE Next
      <3>1. BreakerInv /\ CallsTypeOK
        BY DEF IInv, TypeOK, BreakerInv, CallsTypeOK
      <3>2. BreakerInv' /\ CallsTypeOK'
        BY <2>1, <3>1, BreakerStep, CallsType
      <3> QED
        BY <3>2 DEF IInv, TypeOK, BreakerInv, CallsTypeOK
    <2>2. CASE UNCHANGED vars
      BY <2>2 DEF IInv, TypeOK, BreakerTypeOK, TrippedAtThreshold, vars, breakerVars
    <2> QED
      BY <2>1, <2>2
  <1> QED
    BY <1>1, <1>2, PTL DEF Spec

(* The variables of the breaker and of its callers keep their types, for any
   number of concurrent calls. *)
THEOREM TypeCorrect == Spec => []TypeOK
  <1>1. IInv => TypeOK
    BY DEF IInv
  <1> QED
    BY <1>1, InductiveInvariant, PTL

(* The breaker is out of the closed state exactly at FailureThreshold counted
   failures, whatever calls overlap. *)
THEOREM FieldsAgree == Spec => []TrippedAtThreshold
  <1>1. IInv => TrippedAtThreshold
    BY DEF IInv
  <1> QED
    BY <1>1, InductiveInvariant, PTL

-----------------------------------------------------------------------------

(* Admission by state and time is admission by streak and age: the code leaves
   nothing open between the two conditions of the promise. *)
LEMMA AllowsIsNotHot ==
    ASSUME BreakerInv
    PROVE  /\ Allows <=> ~Promise!Hot
           /\ ~Allows => Promise!Tripped
  BY ThresholdAssumption, TimeoutAssumption
  DEF BreakerInv, BreakerTypeOK, TrippedAtThreshold, Allows, Promise!Tripped, Promise!Hot

LEMMA StepRefines ==
    ASSUME IInv, Next
    PROVE  [Promise!Next]_(Promise!promiseVars)
  <1> USE DEF Ended, Promise!Ended
  <1>0. BreakerInv
    BY DEF IInv, TypeOK, BreakerInv
  <1>1. ASSUME NEW c \in Calls, Admit(c)    PROVE Promise!Admit(c)
    BY <1>0, <1>1, AllowsIsNotHot DEF Admit, Precheck, Promise!Admit
  <1>2. ASSUME NEW c \in Calls, Refuse(c)   PROVE Promise!Refuse(c)
    BY <1>0, <1>2, AllowsIsNotHot DEF Refuse, breakerVars, Promise!Refuse
  <1>3. ASSUME NEW c \in Calls, Succeed(c)  PROVE Promise!Succeed(c)
    BY <1>3 DEF Succeed, OnSuccess, Promise!Succeed
  <1>4. ASSUME NEW c \in Calls, Fail(c)     PROVE Promise!Fail(c)
    BY <1>0, <1>4, ThresholdAssumption
    DEF Fail, OnFailure, Promise!Fail, BreakerInv, BreakerTypeOK
  <1>5. ASSUME NEW c \in Calls, Cancel(c)   PROVE Promise!Cancel(c)
    BY <1>5 DEF Cancel, breakerVars, Promise!Cancel
  <1>6. ASSUME Tick PROVE Promise!Wait
    BY <1>6 DEF Tick, Elapse, Promise!Wait
  <1>7. ASSUME Outage \/ Recover PROVE UNCHANGED Promise!promiseVars
    BY <1>7 DEF Outage, Recover, breakerVars, Promise!promiseVars
  <1> QED
    BY <1>1, <1>2, <1>3, <1>4, <1>5, <1>6, <1>7 DEF Next, Settle, Promise!Next

(* The three-state breaker implements its promise: every admission and every
   refusal is one that the run of failures and its age allow. *)
THEOREM ImplementsPromise == Spec => KeepsPromise
  <1>1. Init => Promise!Init
    BY DEF Init, BreakerInit, Promise!Init
  <1>2. IInv /\ [Next]_vars => [Promise!Next]_(Promise!promiseVars)
    <2>1. ASSUME UNCHANGED vars PROVE UNCHANGED Promise!promiseVars
      BY <2>1 DEF vars, breakerVars, Promise!promiseVars
    <2> QED
      BY <2>1, StepRefines
  <1> QED
    BY <1>1, <1>2, InductiveInvariant, PTL DEF Spec, KeepsPromise, Promise!Spec

=============================================================================
