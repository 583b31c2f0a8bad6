--------------------------- MODULE MCCoolingUnits ---------------------------
(***************************************************************************)
(* The units around the sealed system and the air path for TLC: the times  *)
(* are a few ticks, long enough for every timer to be restarted, to be     *)
(* stopped and to expire behind another.                                   *)
(***************************************************************************)
EXTENDS ReadyToDefrost, Sabbath, CoolingPolicies, SealedSystem, FansAndDampers, Grid

MCDoorFactor == [d \in DefrostDoors |-> 2]

\* The order of the valve's positions in its parametric data.
MCValvePositionStep ==
    [p \in {"Home", "A", "B", "C", "D"} |->
        CASE p = "Home" -> 0 [] p = "A" -> 1 [] p = "B" -> 2 [] p = "C" -> 3 [] p = "D" -> 4]

\* Two dimensions of two rows; only the first follows the set point.
MCGridLineData ==
    [d \in 1 .. 2 |-> [r \in 0 .. 1 |-> [l \in 0 .. 0 |->
        [temperature |-> 1 + r, correction |-> IF d = 1 THEN "AdjustedSetpoint" ELSE "Offset"]]]]

MCGridTemperatures == {0, 2}
MCSetpointShifts == {0, 1}

Init ==
    \/ ReadyInit \/ SabbathInit \/ PoliciesInit
    \/ SealedSystemInit \/ FansAndDampersInit \/ GridInit

Next ==
    \/ ReadyNext \/ SabbathNext \/ PoliciesNext
    \/ SealedSystemNext \/ FansAndDampersNext \/ GridNext

Spec == Init /\ [][Next]_unitVars
=============================================================================
