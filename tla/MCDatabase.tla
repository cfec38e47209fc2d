----------------------------- MODULE MCDatabase -----------------------------
(* The two users of the database, KeyRotation and UnitsOfWork.  They share no *)
(* row, so each is checked while the other is as it was in the beginning.     *)
(*                                                                           *)
(* KeyRotation: two processes that are restarted one after the other, two    *)
(* rows of a user, and three keys, so that a second rotation can begin in    *)
(* the middle of one.                                                        *)
(*                                                                           *)
(* UnitsOfWork: a lookup, two probes that can hold the whole pool between    *)
(* them, and two sets of different balances.                                 *)
EXTENDS KeyRotation, UnitsOfWork, TLC

CONSTANTS p1, p2, m1, m2, key1, key2, key3, v1, v2
CONSTANTS look, probe1, probe2, set1, set2

MCUnits == {look, probe1, probe2, set1, set2}
MCKindOf == look :> "lookup" @@ probe1 :> "probe" @@ probe2 :> "probe"
            @@ set1 :> "set" @@ set2 :> "set"
MCWant == look :> 0 @@ probe1 :> 0 @@ probe2 :> 0 @@ set1 :> 0 @@ set2 :> 1

KeysUntouched == Running = {} /\ Filled = {} /\ env.keys = {FirstKey}

DatabaseInit == Init /\ UnitsInit

DatabaseNext ==
    \/ Next /\ UnitsInit /\ UNCHANGED unitsVars
    \/ UnitsNext /\ KeysUntouched /\ UNCHANGED vars

DatabaseSpec ==
    /\ DatabaseInit
    /\ [][DatabaseNext]_<<vars, unitsVars>>
    /\ Fairness
=============================================================================
