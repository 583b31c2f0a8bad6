-------------------- MODULE IceMakerMoldHeaterController --------------------
(***************************************************************************)
(* The mold heater of an aluminum mold ice maker                           *)
(* (src/src/Application/IceMaker/IceMakerMoldHeaterController.c).  A       *)
(* request names the band of temperatures to keep: the harvest's, after an *)
(* initial on-time, or the harvest fix's, at once.                         *)
(***************************************************************************)
EXTENDS Integers

CONSTANTS
    OnTemperature, OffTemperature,  \* [{"harvest", "fix"} -> temperature]
    InitialMotorOnTemperature       \* ends the initial on-time early

Bands == {"harvest", "fix"}

ASSUME BandsAreOrdered ==
    /\ OnTemperature \in [Bands -> Int] /\ OffTemperature \in [Bands -> Int]
    /\ InitialMotorOnTemperature \in Int
    /\ \A b \in Bands : OnTemperature[b] < OffTemperature[b]

HeaterStates == {"Disabled", "InitialMoldHeaterOn", "MoldHeaterOn", "MoldHeaterOff"}

\* band is the temperatures of the last request, which a cleared one keeps.
Heater == [state : HeaterStates, enable : BOOLEAN, band : Bands]

InitialHeater == [state |-> "Disabled", enable |-> FALSE, band |-> "harvest"]

HeaterIsOn(h) == h.state \in {"InitialMoldHeaterOn", "MoldHeaterOn"}

\* The transition out of Disabled or of the initial on-time.
EnterBand(h, temperature) ==
    [h EXCEPT !.state = IF temperature < OffTemperature[h.band]
                        THEN "MoldHeaterOn" ELSE "MoldHeaterOff"]

\* State_InitialMoldHeaterOn's entry compares the temperature at once.
EnterInitialMoldHeaterOn(h, temperature) ==
    IF temperature > InitialMotorOnTemperature
    THEN EnterBand(h, temperature)
    ELSE [h EXCEPT !.state = "InitialMoldHeaterOn"]

\* Signal_Enable means something to Disabled only; the heater timer runs
\* exactly in InitialMoldHeaterOn.
RequestHeater(h, band, temperature) ==
    LET g == [h EXCEPT !.enable = TRUE, !.band = band] IN
    CASE h.state # "Disabled" -> g
      [] h.state = "Disabled" /\ band = "harvest" -> EnterInitialMoldHeaterOn(g, temperature)
      [] h.state = "Disabled" /\ band = "fix" -> EnterBand(g, temperature)

ClearHeaterRequest(h) == [h EXCEPT !.enable = FALSE, !.state = "Disabled"]

HeaterTimerExpired(h, temperature) ==
    IF h.state = "InitialMoldHeaterOn" THEN EnterBand(h, temperature) ELSE h

\* Mutant: the heater is switched off by the temperature that switched it on.
HeaterNeverSwitchesOff(h, temperature) ==
    IF h.state = "MoldHeaterOff" /\ temperature <= OnTemperature[h.band]
    THEN [h EXCEPT !.state = "MoldHeaterOn"] ELSE h

HeaterTemperatureChanged(h, temperature) ==
    CASE h.state = "MoldHeaterOn" /\ temperature >= OffTemperature[h.band] ->
            [h EXCEPT !.state = "MoldHeaterOff"]
      [] h.state = "MoldHeaterOff" /\ temperature <= OnTemperature[h.band] ->
            [h EXCEPT !.state = "MoldHeaterOn"]
      [] OTHER -> h
=============================================================================
