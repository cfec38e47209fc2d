--------------------------- MODULE MCTaskDispatch ---------------------------
(* Two-minute days and three rows due in one minute, which the messages of   *)
(* two minutes can both reach when the first is late; a row with bad data is *)
(* due in the other minute, which comes round a second time.                 *)
(*                                                                           *)
(* Two histories.  In one the second one-shot row was retired the day        *)
(* before, and a fault may strike at any step.  In the other the rows but    *)
(* the two one-shot ones are switched off and no fault is left: two runs     *)
(* that overlap deactivate the same two rows in any two orders.              *)
EXTENDS TaskDispatch

CONSTANTS w1, w2, once, once2, daily, bad

MCDueAt == [t \in Tasks |-> IF t = bad THEN 0 ELSE 1]
MCFiresOn == [t \in Tasks |-> IF t \in Once THEN {0} ELSE 0..LastMinute]

MCInit ==
    /\ clock = 0
    /\ nextBeat = 0
    /\ queue = [n \in 0..MaxRetries |-> 0]
    /\ pc = [w \in Workers |-> "idle"]
    /\ retries = [w \in Workers |-> 0]
    /\ held = [w \in Workers |-> FALSE]
    /\ minute = [w \in Workers |-> 0]
    /\ todo = [w \in Workers |-> {}]
    /\ current = [w \in Workers |-> NoRow]
    /\ retired = [w \in Workers |-> {}]
    /\ scans = [m \in 0..(MinutesPerDay - 1) |-> m]
    /\ disturbed = FALSE
    /\ \/ /\ active = [t \in Tasks |-> t # once2]
          /\ sent = [t \in Tasks |-> IF t \in {once2, daily} THEN 1 ELSE 0]
          /\ faults = 0
       \/ /\ active = [t \in Tasks |-> t \in Once]
          /\ sent = [t \in Tasks |-> IF t = daily THEN 1 ELSE 0]
          /\ faults = MaxFaults

MCSpec == MCInit /\ [][Next]_vars /\ Fairness
=============================================================================
