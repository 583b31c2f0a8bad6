------------------------------- MODULE Defrost -------------------------------
(***************************************************************************)
(* Defrost.c: the hierarchical state machine that prechills, heats and     *)
(* rests the evaporators, with the DefrostHeaterOnTimeCounters its heater  *)
(* votes and states drive (the ERDs publish synchronously, so a counter    *)
(* reacts inside the write).  Every operator maps the machine m and the    *)
(* ERDs x it reads to the machine after a run-to-completion step.          *)
(*                                                                         *)
(* The four groups of load votes name the same loads, so `loads' is the    *)
(* group that cares, and LoadVote says what it votes.  A duration is a     *)
(* timer that runs: only its expiry is seen.  A temperature is the limit   *)
(* it has passed: `now' is what the code finds when it reads the cooling   *)
(* mode and the temperatures.  The defrost statistics (numberOfDefrosts,   *)
(* numberOfAbnormalDefrosts) have no reader here.                          *)
(***************************************************************************)
EXTENDS Integers, FiniteSets

CONSTANTS
    Compartments,       \* of "Freezer", "FreshFood", "Convertible",
    Evaporators,        \*   and those with an evaporator of their own
    NormalLimit,        \* numberOfSecondaryOnlyDefrostsBeforeFullDefrost,
    AbnormalLimit,      \*   ... WhenAbnormalIsSet,
    SabbathLimit,       \*   and the enhanced sabbath data's
    MaxOnTime,          \* minutes a heater may be on,
    MaxOnTimeInvalid,   \*   the same with an invalid thermistor,
    AbnormalOnTime,     \*   and the minutes that make a defrost abnormal
    AsFreezerMaxOnTimeInvalid,  \* the same for the convertible compartment
    AsFreezerAbnormalOnTime     \*   when it acts as a freezer

ASSUME DefrostAssumption ==
    /\ Evaporators \in {{"Freezer"}, {"FreshFood"}, {"Freezer", "FreshFood"},
                        {"Freezer", "FreshFood", "Convertible"}}
    /\ Evaporators \subseteq Compartments
    /\ Compartments \subseteq {"Freezer", "FreshFood", "Convertible"}
    /\ Evaporators = {"FreshFood"} => "Freezer" \notin Compartments
    /\ {NormalLimit, AbnormalLimit, SabbathLimit} \subseteq 0 .. 254
    /\ {MaxOnTime, MaxOnTimeInvalid, AbnormalOnTime,
        AsFreezerMaxOnTimeInvalid, AsFreezerAbnormalOnTime} \subseteq 1 .. 255

Types == {"Full", "SecondaryOnly"}
Prechills == {"PrechillPrep", "Prechill"}
HsmStates == Prechills \cup
    {"Idle", "HeaterOnEntry", "HeaterOn", "Dwell", "PostDwell", "Disabled"}
WaitingStates == {"Idle", "PostDwell"}
TimedStates == Prechills \cup {"HeaterOnEntry", "Dwell", "PostDwell"}
Loads == {"None", "Prechill", "HeaterOn", "Dwell", "PostDwell"}
TestStates == {"None", "Idle", "Prechill", "Defrost", "ExitDefrostHeaterOnState"}

Thermistors == Evaporators \cup {"FreezerCabinet"}
Flags == {"ready", "sabbath", "enhanced", "sabbathReady", "requesting"}

\* The ERDs the machine reads: a thermistor is Undiscovered until it has been
\* valid once; a flag is set; the convertible compartment acts as one of two.
Erds ==
    [thermistor : [Thermistors -> {"Undiscovered", "Valid", "Invalid"}],
     flags : SUBSET Flags,
     convertible : {"FreshFood", "Freezer"}, coolingStatus : BOOLEAN,
     coolingOff : BOOLEAN]

\* What is read: the mode the compressor cools in, "Off" when it is off (every
\* further mode differs from "Freezer" as "ConvertibleCompartment" does), and
\* one reading that is past the limit it is compared with ("Time" is the
\* prechill time, which may be used up).  The code looks for any such reading.
Readings ==
    [mode : {"Off", "Freezer", "ConvertibleCompartment"},
     past : Thermistors \cup {"Nothing", "Time", "FreshFoodCabinet"}]

Machines ==
    [hsm : HsmStates, type : Types, override : Types \cup {"DontCare"},
     count : 0 .. 255,                  \* numberOfSecondaryOnlyDefrosts
     skipTest : BOOLEAN, skipDisable : BOOLEAN,
     request : TestStates, dontSkipPrechill : BOOLEAN, aham : BOOLEAN,
     disable : BOOLEAN,
     tooWarm : BOOLEAN, cleared : BOOLEAN, invalidThermistor : BOOLEAN,
     abnormal : SUBSET Evaporators, fault : SUBSET Evaporators,
     heater : [Evaporators -> {"On", "Off", "DontCare"}],
     counting : SUBSET Evaporators, onTime : [Evaporators -> 0 .. 255],
     loads : Loads, timer : BOOLEAN, homing : BOOLEAN,
     waiting : BOOLEAN, defrosting : BOOLEAN]

-----------------------------------------------------------------------------
(* The evaporators, and what is known of them.                             *)

\* SetPrimaryEvaporators and SetSecondaryEvaporators run at every change of
\* the convertible compartment, so the two configurations follow from it.
Primary(x) ==
    CASE Cardinality(Evaporators) = 3 ->
            IF x.convertible = "Freezer" THEN {"Freezer", "Convertible"} ELSE {"Freezer"}
      [] Cardinality(Evaporators) = 2 -> {"Freezer"}
      [] Cardinality(Evaporators) = 1 ->
            IF "Freezer" \in Compartments THEN {"Freezer"} ELSE {"FreshFood"}
Secondary(x) ==
    CASE Cardinality(Evaporators) = 3 ->
            IF x.convertible = "Freezer" THEN {"FreshFood"} ELSE {"FreshFood", "Convertible"}
      [] Cardinality(Evaporators) = 2 -> {"FreshFood"}
      [] Cardinality(Evaporators) = 1 -> {}

Valid(x, t) == x.thermistor[t] = "Valid"
HasBeenDiscovered(x, t) == x.thermistor[t] # "Undiscovered"
PrimaryAndSecondaryEvaporatorsAreAllValid(x) == \A e \in Evaporators : Valid(x, e)
AnyDiscoveredIsInvalid(x) ==
    \E t \in Thermistors : ~Valid(x, t) /\ HasBeenDiscovered(x, t)

ActsAsAFreezer(x, e) == e = "Convertible" /\ x.convertible = "Freezer"

\* DefrostHeaterMaxOnTime writes this again whenever the validity of a
\* thermistor or the state of the convertible compartment changes, so it
\* follows from the two.
HeaterMaxOnTime(x, e) ==
    CASE Valid(x, e) -> MaxOnTime
      [] ~Valid(x, e) /\ ActsAsAFreezer(x, e) -> AsFreezerMaxOnTimeInvalid
      [] ~Valid(x, e) /\ ~ActsAsAFreezer(x, e) -> MaxOnTimeInvalid

SabbathIsOn(x) == x.flags \cap {"sabbath", "enhanced"} # {}

\* The compressor is on and cools the evaporator that is to be prechilled.
PrechillConditionsAreMet(x, now) ==
    /\ now.mode # "Off"
    /\ CASE Cardinality(Evaporators) = 3 ->
               IF x.convertible = "Freezer" THEN now.mode = "ConvertibleCompartment"
               ELSE now.mode = "Freezer"
         [] Cardinality(Evaporators) < 3 ->
               {"Freezer", "FreshFood"} \subseteq Compartments => now.mode = "Freezer"

\* PrechillTimeLeft is zero, or PrechillExitConditionMetFor... a cabinet or a
\* primary evaporator: one too cold, a fresh food cabinet also too warm.  (A
\* valid convertible cabinet ends the prechill as the fresh food one does.)
PrechillExitConditionMet(x, now) ==
    \/ now.past \in {"Time", "FreshFoodCabinet"}
    \/ now.past \in Primary(x) \cup {"FreezerCabinet"} /\ Valid(x, now.past)

\* A primary evaporator is cold enough, whatever its thermistor is worth.
PostDwellPrimaryEvapExitConditionIsMet(x, now) == now.past \in Primary(x)

\* SetErdIfCabinetFilteredTemperatureIsTooWarm: the thermistor warm reads a
\* temperature that only a heater explains ("None" does).
CabinetIsTooWarm(x, warm) ==
    warm \in Primary(x) \cup {"FreezerCabinet"} /\ Valid(x, warm)

-----------------------------------------------------------------------------
(* The votes for the loads.                                                *)

Fans == {"CondenserFan", "FreezerEvapFan", "FreshFoodEvapFan", "ConvertibleEvapFan",
         "IceCabinetFan", "DeliFan"}
VotedLoads == Fans \cup {"Compressor", "FreshFoodDamper", "ConvertibleDamper",
                         "DeliDamper", "SealedSystemValve"}

\* VoteForHeaterOnEntryLoads, VoteForHeaterOnLoads and VoteForDwellLoads;
\* "Data" is what the parametric data says.
HeaterOnVote(load) ==
    CASE load \in Fans \cup {"Compressor"} -> "Off"
      [] load \in {"ConvertibleDamper", "DeliDamper"} -> "Closed"
      [] load \in {"FreshFoodDamper", "SealedSystemValve"} -> "Data"

PostDwellVote(load) == IF load \in Fans \ {"CondenserFan"} THEN "Off" ELSE "Data"

\* What the group that cares votes for a load.
LoadVote(group, load) ==
    CASE group = "None" -> "DontCare"
      [] group = "Prechill" -> "Data"
      [] group \in {"HeaterOn", "Dwell"} -> HeaterOnVote(load)
      [] group = "PostDwell" -> PostDwellVote(load)

VoteForLoads(m, group) == [m EXCEPT !.loads = group]

-----------------------------------------------------------------------------
(* The heater votes, the state and the counters that follow both.          *)

\* DefrostStateOnCompareMatch.
DefrostState(hsm) == IF hsm = "HeaterOnEntry" THEN "HeaterOn" ELSE hsm

\* The resolved vote: cooling off outvotes the defrost, and Off is the default.
HeaterIsOn(m, x, e) == m.heater[e] = "On" /\ ~x.coolingOff

\* Mutant: a counter that stops after the heating is not reset.
CountHeatersKeepsTime(m, x) ==
    LET on == {e \in Evaporators : HeaterIsOn(m, x, e)} IN
    [m EXCEPT !.counting = IF DefrostState(m.hsm) = "HeaterOn" THEN on ELSE @ \cap on]

\* Every DefrostHeaterOnTimeCounter sees its resolved vote and the state.
CountHeaters(m, x) ==
    LET on == {e \in Evaporators : HeaterIsOn(m, x, e)} IN
    [m EXCEPT !.counting =
                IF DefrostState(m.hsm) = "HeaterOn" THEN on ELSE @ \cap on,
              !.onTime = [e \in Evaporators |->
                            IF e \in on \/ DefrostState(m.hsm) = "HeaterOn"
                            THEN @[e] ELSE 0]]

VoteHeaters(m, x, evaporators, vote) ==
    CountHeaters([m EXCEPT !.heater = [e \in Evaporators |->
                     IF e \in evaporators THEN vote ELSE @[e]]], x)

SetHsmStateTo(m, x, s) == CountHeaters([m EXCEPT !.hsm = s], x)

\* SetWaitingToDefrostTo and SetDefrostingTo.
SetStatus(m, waiting, defrosting) ==
    [m EXCEPT !.waiting = waiting, !.defrosting = defrosting]

\* The entries of State_WaitingToDefrost and State_Defrosting.
Waiting(m) == SetStatus(m, TRUE, FALSE)
Defrosting(m) == SetStatus(m, FALSE, TRUE)

StartDefrostTimer(m) == [m EXCEPT !.timer = TRUE]

ClearDefrostTestStateRequest(m) == [m EXCEPT !.request = "None"]

-----------------------------------------------------------------------------
(* The exits.                                                              *)

DetermineNumberOfSecondaryOnlyDefrosts(m, x) ==
    IF SabbathIsOn(x) THEN SabbathLimit
    ELSE IF m.abnormal \cap Primary(x) # {} THEN AbnormalLimit
    ELSE NormalLimit

\* Mutant: an override that does not care is copied as well.
SetDefrostTypeCopiesOverride(m, x) ==
    [m EXCEPT !.type = m.override, !.override = "DontCare",
              !.count = IF m.override = "SecondaryOnly" THEN (@ + 1) % 256 ELSE 0]

ChosenType(m, x) ==
    CASE m.override # "DontCare" -> m.override
      [] m.override = "DontCare" ->
            IF m.count < DetermineNumberOfSecondaryOnlyDefrosts(m, x)
            THEN "SecondaryOnly" ELSE "Full"

SetDefrostType(m, x) ==
    LET type == ChosenType(m, x)
    IN [m EXCEPT !.type = type, !.override = "DontCare",
                 !.count = IF type = "SecondaryOnly" THEN (@ + 1) % 256 ELSE 0]

\* What the first defrost after a power up makes up for.
ClearPowerUp(m) == [m EXCEPT !.tooWarm = FALSE, !.cleared = FALSE]

ExitIdle(m, x) ==
    LET left == ClearPowerUp(m) IN
    [(IF m.skipTest \/ m.skipDisable THEN left ELSE SetDefrostType(left, x))
        EXCEPT !.skipTest = FALSE]

\* Mutant: only the secondary heaters are voted off.
ExitHeaterOnLeavesPrimaryOn(m, x) ==
    VoteHeaters(VoteForLoads(m, "None"), x, Secondary(x), "DontCare")

ExitHeaterOn(m, x) ==
    VoteHeaters(
        VoteForLoads([m EXCEPT !.invalidThermistor =
                         @ /\ ~PrimaryAndSecondaryEvaporatorsAreAllValid(x)], "None"),
        x,
        IF m.type = "Full" THEN Evaporators ELSE Secondary(x),
        "DontCare")

ExitDisabled(m, x) ==
    VoteHeaters([m EXCEPT !.skipDisable = FALSE], x, Evaporators, "DontCare")

\* Mutant: the timer of the state runs on.
ExitTimedKeepsTimer(m, x) ==
    LET left == VoteForLoads(m, "None") IN
    IF m.hsm \in {"Dwell", "PostDwell"}
    THEN VoteHeaters(left, x, Evaporators, "DontCare") ELSE left

\* The exits of the states that run defrostTimer.
ExitTimed(m, x) ==
    LET left == [VoteForLoads(m, "None") EXCEPT !.timer = FALSE] IN
    IF m.hsm \in {"Dwell", "PostDwell"}
    THEN VoteHeaters(left, x, Evaporators, "DontCare") ELSE left

Exit(m, x) ==
    CASE m.hsm = "Idle" -> ExitIdle(m, x)
      [] m.hsm = "HeaterOn" -> ExitHeaterOn(m, x)
      [] m.hsm = "Disabled" -> ExitDisabled(m, x)
      [] OTHER -> ExitTimed(m, x)

-----------------------------------------------------------------------------
(* The entries; an entry that moves on at once nests the next one.         *)

EnterHeaterOnEntry(m, x) ==
    LET entered == SetHsmStateTo(Defrosting(m), x, "HeaterOnEntry") IN
    StartDefrostTimer(VoteForLoads(ClearDefrostTestStateRequest(entered), "HeaterOn"))

EnterHeaterOn(m, x) ==
    VoteHeaters(
        VoteForLoads(SetHsmStateTo(Defrosting(m), x, "HeaterOn"), "HeaterOn"),
        x,
        IF m.type = "Full" THEN Evaporators ELSE Secondary(x),
        "On")

EnterPrechill(m, x, now) ==
    LET entered == VoteForLoads(SetHsmStateTo(Defrosting(m), x, "Prechill"), "Prechill")
    IN IF PrechillExitConditionMet(x, now)
       THEN EnterHeaterOnEntry(ExitTimed(entered, x), x)
       ELSE StartDefrostTimer(entered)

EnterPrechillPrep(m, x, now) ==
    IF AnyDiscoveredIsInvalid(x) THEN EnterHeaterOnEntry(m, x)
    ELSE LET entered ==
               ClearDefrostTestStateRequest(
                  [SetHsmStateTo(Defrosting(m), x, "PrechillPrep")
                      EXCEPT !.dontSkipPrechill = FALSE, !.aham = FALSE])
         IN IF PrechillConditionsAreMet(x, now)
            THEN EnterPrechill(ExitTimed(entered, x), x, now)
            ELSE StartDefrostTimer(entered)

EnterIdle(m, x, now) ==
    LET entered == SetHsmStateTo(Waiting(m), x, "Idle") IN
    CASE m.request = "Prechill" -> EnterPrechillPrep(ExitIdle(entered, x), x, now)
      [] m.request = "Defrost" -> EnterHeaterOnEntry(ExitIdle(entered, x), x)
      [] m.request = "Idle" -> ClearDefrostTestStateRequest(entered)
      [] OTHER -> entered

EnterDwell(m, x) ==
    LET entered == [SetHsmStateTo(Defrosting(m), x, "Dwell") EXCEPT !.homing = TRUE] IN
    ClearDefrostTestStateRequest(StartDefrostTimer(
        VoteHeaters(VoteForLoads(entered, "Dwell"), x, Evaporators, "Off")))

EnterPostDwell(m, x) ==
    LET entered == SetHsmStateTo(Waiting(m), x, "PostDwell") IN
    StartDefrostTimer(
        VoteHeaters(VoteForLoads(entered, "PostDwell"), x, Evaporators, "Off"))

EnterDisabled(m, x) ==
    SetStatus(VoteHeaters(SetHsmStateTo(m, x, "Disabled"), x, Evaporators, "Off"),
              FALSE, FALSE)

-----------------------------------------------------------------------------
(* The signals.                                                            *)

AnyPreviousDefrostWasAbnormal(m) == m.abnormal # {}

\* Signal_ReadyToDefrost, Signal_AtLeastOneSabbathModeIsDisabled.
ReadyToDefrost(m, x, now) ==
    IF m.hsm # "Idle" \/ SabbathIsOn(x) \/ "ready" \notin x.flags THEN m
    ELSE IF /\ ~m.dontSkipPrechill
            /\ \/ AnyPreviousDefrostWasAbnormal(m)
               \/ m.tooWarm \/ m.invalidThermistor \/ m.cleared
    THEN EnterHeaterOnEntry(ExitIdle(m, x), x)
    ELSE EnterPrechillPrep(ExitIdle(m, x), x, now)

\* Signal_EnhancedSabbathIsRequestingToDefrost, Signal_SabbathIsReadyToDefrost,
\* Signal_AtLeastOneSabbathModeIsEnabled.
SabbathReadyToDefrost(m, x, now) ==
    IF m.hsm # "Idle" \/ ~SabbathIsOn(x) \/ "sabbathReady" \notin x.flags THEN m
    ELSE IF {"requesting", "enhanced"} \subseteq x.flags
    THEN EnterHeaterOnEntry(ExitIdle(m, x), x)
    ELSE IF "enhanced" \notin x.flags THEN EnterPrechillPrep(ExitIdle(m, x), x, now)
    ELSE m

\* Signal_DefrostTimerExpired, in a state that runs the timer.
DefrostTimerExpired(m, x, now) ==
    CASE m.hsm = "PrechillPrep" -> EnterPrechill(Exit(m, x), x, now)
      [] m.hsm = "Prechill" -> EnterHeaterOnEntry(Exit(m, x), x)
      [] m.hsm = "HeaterOnEntry" -> EnterHeaterOn(Exit(m, x), x)
      [] m.hsm = "Dwell" /\ ~PostDwellPrimaryEvapExitConditionIsMet(x, now) ->
            EnterPostDwell(Exit(m, x), x)
      [] OTHER -> EnterIdle(Exit(m, x), x, now)

\* Signal_PrechillConditionsAreMet.
EndPrechillPrep(m, x, now) ==
    IF m.hsm = "PrechillPrep" /\ PrechillConditionsAreMet(x, now)
    THEN EnterPrechill(Exit(m, x), x, now) ELSE m

\* Signal_FreezerThermistorIsInvalid and the evaporators' signals; also the
\* temperatures that end a prechill.
EndPrechill(m, x, states) ==
    IF m.hsm \in states THEN EnterHeaterOnEntry(Exit(m, x), x) ELSE m

\* AllHeatersAreOff.
DwellOnceAllHeatersAreOff(m, x) ==
    IF \A e \in Evaporators : m.heater[e] # "On"
    THEN EnterDwell(Exit(m, x), x) ELSE m

AbnormalTime(x, e) ==
    IF ActsAsAFreezer(x, e) THEN AsFreezerAbnormalOnTime ELSE AbnormalOnTime

\* A heating that ends in time makes up for an abnormal one.
AbnormalAfterHeating(m, x, e) ==
    IF m.onTime[e] < AbnormalTime(x, e) THEN m.abnormal \ {e} ELSE m.abnormal

\* Signal_...EvaporatorTemperatureChanged at the termination temperature.
TerminationTemperature(m, x, e) ==
    IF m.hsm # "HeaterOn" THEN m
    ELSE LET off == VoteHeaters(m, x, {e}, "Off") IN
         DwellOnceAllHeatersAreOff(
            [off EXCEPT !.abnormal = AbnormalAfterHeating(off, x, e),
                        !.fault = @ \ {e}], x)

\* Signal_PrimaryEvaporatorTemperatureChanged at an exit temperature.
PrimaryIsCold(m, x, now) ==
    CASE m.hsm = "Prechill" -> EndPrechill(m, x, {"Prechill"})
      [] m.hsm = "PostDwell" -> EnterIdle(Exit(m, x), x, now)
      [] OTHER -> m

\* Mutant: only a temperature looks whether all the heaters are off.
HeaterMaxOnTimeReachedStays(m, x, e) ==
    IF m.hsm # "HeaterOn" THEN m
    ELSE [VoteHeaters(m, x, {e}, "Off")
            EXCEPT !.fault = IF Valid(x, e) THEN @ \cup {e} ELSE @,
                   !.invalidThermistor = @ \/ ~Valid(x, e)]

HeaterMaxOnTimeReached(m, x, e) ==
    IF m.hsm # "HeaterOn" THEN m
    ELSE DwellOnceAllHeatersAreOff(
           [VoteHeaters(m, x, {e}, "Off")
              EXCEPT !.fault = IF Valid(x, e) THEN @ \cup {e} ELSE @,
                     !.invalidThermistor = @ \/ ~Valid(x, e)], x)

MaxOnTimeIsReached(m, x, e) == m.onTime[e] >= HeaterMaxOnTime(x, e)

\* IncrementHeaterOnTimeCounter and the machine's reaction to the new time.
DefrostHeaterOnTime(m, x, e) ==
    LET counted == [m EXCEPT !.onTime[e] = (@ + 1) % 256] IN
    CASE MaxOnTimeIsReached(counted, x, e) ->
            HeaterMaxOnTimeReached(counted, x, e)
      [] /\ ~MaxOnTimeIsReached(counted, x, e)
         /\ counted.onTime[e] = AbnormalTime(x, e) /\ m.hsm = "HeaterOn" ->
            [counted EXCEPT !.abnormal = @ \cup {e}]
      [] OTHER -> counted

\* disableDefrostErd is written.
SetDisableDefrost(m, x, disable, now) ==
    LET written == [m EXCEPT !.disable = disable] IN
    IF disable = m.disable THEN m
    ELSE IF disable
    THEN IF m.hsm = "Disabled" THEN written
         ELSE EnterDisabled(
                Exit([written EXCEPT !.skipDisable = @ \/ m.hsm \in WaitingStates], x), x)
    ELSE IF m.hsm = "Disabled" THEN EnterIdle(Exit(written, x), x, now) ELSE written

\* defrostTestStateRequestErd is written (its requestId changes every time).
\* The handler makes no request while the defrost is disabled.
RequestDefrostTestState(m, x, request, now) ==
    LET written == [m EXCEPT !.request = request] IN
    IF request = "ExitDefrostHeaterOnState"
    THEN IF m.hsm \in {"HeaterOnEntry", "HeaterOn"}
         THEN EnterDwell(Exit(written, x), x)
         ELSE ClearDefrostTestStateRequest(written)
    ELSE EnterIdle(
            Exit([written EXCEPT !.skipTest = @ \/ m.hsm \in WaitingStates], x), x, now)

-----------------------------------------------------------------------------
(* Power up.                                                               *)

\* The non-volatile defaults, used when the EEPROM is blank.
DefaultSettings ==
    [state |-> "Idle", type |-> "Full", override |-> "Full", count |-> 0,
     abnormal |-> {}, cleared |-> TRUE]

\* What a power loss leaves of a machine.
Settings(m) ==
    [state |-> DefrostState(m.hsm), type |-> m.type, override |-> m.override,
     count |-> m.count, abnormal |-> m.abnormal, cleared |-> m.cleared]

\* Mutant: only a blank EEPROM asks for a full defrost at power up.
PowerUpKeepsOverride(settings, x, tooWarm) ==
    [hsm |-> "Idle",
     type |-> settings.type,
     override |-> IF settings.cleared THEN "Full" ELSE settings.override,
     count |-> settings.count, abnormal |-> settings.abnormal,
     cleared |-> settings.cleared, tooWarm |-> tooWarm,
     skipTest |-> FALSE, skipDisable |-> FALSE, request |-> "None",
     dontSkipPrechill |-> FALSE, aham |-> FALSE, disable |-> x.coolingOff,
     invalidThermistor |-> FALSE, fault |-> {},
     heater |-> [e \in Evaporators |-> "DontCare"],
     counting |-> {}, onTime |-> [e \in Evaporators |-> 0],
     loads |-> "None", timer |-> FALSE, homing |-> FALSE,
     waiting |-> FALSE, defrosting |-> FALSE]

\* The RAM at reset with the settings, and what Defrost_Init sets before it
\* starts the machine.  disable is what CoolingSystemRequestHandler_Init, which
\* runs first, has written; the machine has not subscribed yet.
PowerUp(settings, x, tooWarm) ==
    [hsm |-> "Idle",
     type |-> IF Cardinality(Evaporators) = 1 THEN "Full" ELSE settings.type,
     override |-> IF settings.cleared \/ tooWarm \/ settings.state = "Disabled"
                  THEN "Full" ELSE settings.override,
     count |-> settings.count, abnormal |-> settings.abnormal,
     cleared |-> settings.cleared, tooWarm |-> tooWarm,
     skipTest |-> FALSE, skipDisable |-> FALSE, request |-> "None",
     dontSkipPrechill |-> FALSE, aham |-> FALSE, disable |-> x.coolingOff,
     invalidThermistor |-> FALSE, fault |-> {},
     heater |-> [e \in Evaporators |-> "DontCare"],
     counting |-> {}, onTime |-> [e \in Evaporators |-> 0],
     loads |-> "None", timer |-> FALSE, homing |-> FALSE,
     waiting |-> FALSE, defrosting |-> FALSE]

\* Mutant: an interrupted heating restarts as a new waiting period.
InitialStateForgetsHeating(settings, tooWarm) ==
    IF settings.state = "Dwell" /\ ~settings.cleared /\ ~tooWarm THEN "Dwell" ELSE "Idle"

InitialState(settings, tooWarm) ==
    CASE settings.cleared -> "Idle"
      [] ~settings.cleared /\ tooWarm ->
            IF settings.state = "HeaterOn" THEN "Dwell" ELSE "Idle"
      [] OTHER ->
            CASE settings.state = "Dwell" -> "Dwell"
              [] settings.state \in Prechills \cup {"HeaterOn"} -> "HeaterOnEntry"
              [] OTHER -> "Idle"

\* Defrost_Init.  No test request survives a reset, so the entry of Idle goes
\* no further.
Start(settings, x, warm) ==
    LET tooWarm == CabinetIsTooWarm(x, warm)
        m == PowerUp(settings, x, tooWarm)
        state == InitialState(settings, tooWarm)
    IN CASE state = "Dwell" -> EnterDwell(m, x)
         [] state = "HeaterOnEntry" -> EnterHeaterOnEntry(m, x)
         [] OTHER -> SetHsmStateTo(Waiting(m), x, "Idle")
=============================================================================
