------------------------ MODULE MCAluminumMoldSystem ------------------------
(* Two heater bands on a scale of four temperatures. *)
EXTENDS AluminumMoldSystem

MCOnTemperature == [b \in {"harvest", "fix"} |-> IF b = "harvest" THEN 0 ELSE 1]
MCOffTemperature == [b \in {"harvest", "fix"} |-> IF b = "harvest" THEN 1 ELSE 2]
=============================================================================
