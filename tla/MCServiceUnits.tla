--------------------------- MODULE MCServiceUnits ---------------------------
(***************************************************************************)
(* The units around filter, water, pan, lights, sensors and board drivers  *)
(* for TLC.  Temperatures are those that fall below, between and above the *)
(* limits of the code; coefficients are small numbers of the tables' signs.*)
(***************************************************************************)
EXTENDS WaterFilter, CabinetServices, PanAndIceCabinet, SetpointsAndSensors, BoardDrivers

MCMinimumRequests == [f \in RfidFaults |-> IF f = "tag" THEN 2 ELSE 1]

MCSweatLinear ==
    [v \in {"T", "H", "F", "Z"} |->
        CASE v = "T" -> 331 [] v = "H" -> -250 [] v = "F" -> 90 [] v = "Z" -> -70]
MCSweatQuadratic ==
    [p \in {q \in SUBSET {"T", "H", "F", "Z"} : Cardinality(q) \in 1 .. 2} |->
        300 * Cardinality(p) - 400]
MCSweatInputs == {-500, 900}

MCModeRange == [i \in 1 .. 2 |-> [min |-> 10 * i, max |-> 10 * i + 5, default |-> 10 * i + 2]]
MCModeOffset == [i \in 1 .. 2 |-> i]
MCSetpointTable == << <<0, -4>>, <<5, 1>> >>
MCFreezerSetpoints == {-6, 0, 6}
MCGammaTemperatures == {-3, 0, 4}
MCFreezerHysteresis == <<-2, 2>>
MCCabinetHysteresis == <<-4, 2>>
MCHeaterCoefficient ==
    [slope |-> 100, fan |-> 900, formation |-> 700, intercept |-> 1200, minimum |-> 5]

MCZoneOffset ==
    [z \in {"Cold", "Middle", "Warm"} |->
        CASE z = "Cold" -> -30 [] z = "Middle" -> 0 [] z = "Warm" -> 40]
MCCrossMinimum == -50
MCShiftTemperatures == {-150, 0, 70, 300}
MCShiftSetpoints == {0, 150}
MCMinShift == -20

Init ==
    \/ WaterFilterInit \/ CabinetServicesInit \/ PanAndIceCabinetInit
    \/ SetpointsAndSensorsInit \/ BoardDriversInit

Next ==
    \/ WaterFilterNext \/ CabinetServicesNext \/ PanAndIceCabinetNext
    \/ SetpointsAndSensorsNext \/ BoardDriversNext

Spec == Init /\ [][Next]_unitVars
=============================================================================
