------------------------ MODULE AluminumMoldIceMaker ------------------------
(***************************************************************************)
(* The aluminum mold ice maker                                             *)
(* (src/src/Application/IceMaker/AluminumMoldIceMaker/                     *)
(* AluminumMoldIceMaker.c): freeze, heat the mold and rake the ice out,    *)
(* fill, with two stages of recovery when the rake does not come around.   *)
(*                                                                         *)
(* The ice maker is a record with its rake, mold heater, feeler arm and    *)
(* fill monitor inside: their ERDs publish into each other's handlers, so  *)
(* one signal runs all of them.  e is what the handlers read: home and     *)
(* full (rake and feeler arm), temp (the mold), valid (its thermistor),    *)
(* inhibited (the fill), makesIce (enabled and no sabbath) and ready (the  *)
(* rest of the harvest's conditions).                                      *)
(***************************************************************************)
EXTENDS IceMakerWaterFillMonitor, RakeController, IceMakerMoldHeaterController

MoldStates == {"Freeze", "Harvest", "HarvestFix", "HarvestFault", "Fill",
               "IdleFill", "ThermistorFault"}
MoldTimers == {"fillTubeHeater", "maxHarvest", "minimumHeaterOn",
               "maxHarvestFix", "rakeOn", "rakeOff", "harvestFaultMax"}
FillStates == {"Fill", "IdleFill"}

Mold == [state : MoldStates, valves : BOOLEAN, tubeHeater : BOOLEAN,
         counting : BOOLEAN, skipFill : BOOLEAN, initialFreeze : BOOLEAN,
         revolutionInFix : BOOLEAN, pauseFill : BOOLEAN, delayFill : BOOLEAN,
         iceRate : BOOLEAN, timers : SUBSET MoldTimers,
         rake : Rake, heater : Heater, arm : FeelerArm, fill : Monitor]

VoteForWaterValves(m, on) == [m EXCEPT !.valves = on]
VoteForFillTubeHeater(m, on) == [m EXCEPT !.tubeHeater = on]
RequestHarvestCountCalculation(m, on) == [m EXCEPT !.counting = on]
SetSkipFillFlag(m, on) == [m EXCEPT !.skipFill = on]
SetRevolutionFlag(m, on) == [m EXCEPT !.revolutionInFix = on]

StartTimer(m, t) == [m EXCEPT !.timers = @ \union {t}]
StopTimers(m, ts) == [m EXCEPT !.timers = @ \ ts]

\* rakeMotorControlTimer is one timer with four callbacks.
StopRakeMotorControlTimer(m) == StopTimers(m, {"rakeOn", "rakeOff"})
StartRakeMotorControlTimer(m, t) == StartTimer(StopRakeMotorControlTimer(m), t)
StartRakeOnTimer(m) == StartRakeMotorControlTimer(m, "rakeOn")
StartRakeOffTimer(m) == StartRakeMotorControlTimer(m, "rakeOff")

StartMaxHarvestFixTimer(m) == StartTimer(m, "maxHarvestFix")
StopMaxHarvestFixTimer(m) == StopTimers(m, {"maxHarvestFix"})
StartHarvestFaultMaxTimer(m) == StartTimer(m, "harvestFaultMax")
StopHarvestFaultMaxTimer(m) == StopTimers(m, {"harvestFaultMax"})

SetRakeControllerRequest(m, e) ==
    [m EXCEPT !.rake = RequestRake(@, TRUE, e.home, e.full)]
ClearRakeControllerRequest(m, e) ==
    [m EXCEPT !.rake = RequestRake(@, FALSE, e.home, e.full)]
SetMoldHeaterControlRequestForHarvest(m, e) ==
    [m EXCEPT !.heater = RequestHeater(@, "harvest", e.temp)]
SetMoldHeaterControlRequestForHarvestFix(m, e) ==
    [m EXCEPT !.heater = RequestHeater(@, "fix", e.temp)]
ClearMoldHeaterControlRequest(m) ==
    [m EXCEPT !.heater = ClearHeaterRequest(@)]
RequestFill(m, request) == [m EXCEPT !.fill = RequestMonitor(@, request)]

TriggerFreezerIceRateIfNecessary(m, e) ==
    IF ~m.initialFreeze /\ e.makesIce /\ ~e.full
    THEN [m EXCEPT !.iceRate = TRUE] ELSE m

\* What the two signals that end a harvest wait for.
RakeAndFillTubeAreDone(m) ==
    m.rake.completedRevolution /\ "fillTubeHeater" \notin m.timers

\* The conditions beside the mold's temperature and the feeler arm, each named
\* as the signal that is sent when it begins to hold.
HarvestConditions == {"HarvestCountIsReady", "CoolingSystemTurnedOn",
                      "IceMakerIsEnabled", "SabbathModeDisabled", "NotInhibitedByRfid"}

HarvestConditionsAreMet(m, e) == e.ready /\ m.arm.ready /\ e.makesIce

-----------------------------------------------------------------------------
\* Mutant: the rake is left running when the harvest ends.
ExitHarvestKeepsRake(m, e) ==
    ClearMoldHeaterControlRequest(
        SetSkipFillFlag(VoteForFillTubeHeater(
            StopTimers(m, {"fillTubeHeater", "maxHarvest"}), FALSE), FALSE))

\* The minimum heater timer is the one timer that no exit stops.
ExitHarvest(m, e) ==
    ClearRakeControllerRequest(
        ClearMoldHeaterControlRequest(
            SetSkipFillFlag(VoteForFillTubeHeater(
                StopTimers(m, {"fillTubeHeater", "maxHarvest"}), FALSE), FALSE)), e)

\* Mutant: the rake's timer still runs in the state after the harvest fix.
ExitHarvestFixKeepsRakeTimer(m, e) ==
    ClearRakeControllerRequest(
        ClearMoldHeaterControlRequest(
            SetRevolutionFlag(StopMaxHarvestFixTimer(m), FALSE)), e)

ExitHarvestFix(m, e) ==
    ClearRakeControllerRequest(
        ClearMoldHeaterControlRequest(
            SetRevolutionFlag(
                StopRakeMotorControlTimer(StopMaxHarvestFixTimer(m)), FALSE)), e)

ExitHarvestFault(m, e) ==
    ClearRakeControllerRequest(
        StopRakeMotorControlTimer(StopHarvestFaultMaxTimer(m)), e)

ExitFreeze(m, e) ==
    [RequestHarvestCountCalculation(m, FALSE)
        EXCEPT !.initialFreeze = FALSE,
               !.arm = RequestFeelerArmMonitoring(@, FALSE, e.full)]

ExitFill(m) ==
    VoteForWaterValves(
        RequestFill(m, IF m.pauseFill THEN "Pause" ELSE "Stop"), FALSE)

ExitMold(m, e) ==
    CASE m.state = "Freeze" -> ExitFreeze(m, e)
      [] m.state = "Harvest" -> ExitHarvest(m, e)
      [] m.state = "HarvestFix" -> ExitHarvestFix(m, e)
      [] m.state = "HarvestFault" -> ExitHarvestFault(m, e)
      [] m.state = "Fill" -> ExitFill(m)
      [] m.state \in {"IdleFill", "ThermistorFault"} -> m

-----------------------------------------------------------------------------
EnterFreeze(m, e) ==
    TriggerFreezerIceRateIfNecessary(
        [RequestHarvestCountCalculation(VoteForWaterValves(m, FALSE), TRUE)
            EXCEPT !.state = "Freeze",
                   !.arm = RequestFeelerArmMonitoring(@, TRUE, e.full)], e)

EnterHarvest(m, e) ==
    SetMoldHeaterControlRequestForHarvest(
        [VoteForFillTubeHeater(m, TRUE)
            EXCEPT !.state = "Harvest",
                   !.timers = @ \union {"fillTubeHeater", "maxHarvest",
                                        "minimumHeaterOn"}], e)

EnterHarvestFix(m, e) ==
    StartRakeOnTimer(
        SetRakeControllerRequest(
            SetMoldHeaterControlRequestForHarvestFix(
                [SetSkipFillFlag(StartMaxHarvestFixTimer(m), TRUE)
                    EXCEPT !.state = "HarvestFix"], e), e))

TurnOnRakeMotor(m, e) == StartRakeOnTimer(SetRakeControllerRequest(m, e))
TurnOffRakeMotor(m, e) == StartRakeOffTimer(ClearRakeControllerRequest(m, e))

EnterHarvestFault(m, e) ==
    TurnOnRakeMotor(
        StartHarvestFaultMaxTimer(ClearMoldHeaterControlRequest(
            [m EXCEPT !.state = "HarvestFault"])), e)

EnterIdleFillOfMold(m) == [m EXCEPT !.state = "IdleFill"]

\* The valves open before the entry decides to leave again.
EnterFillOfMold(m, e) ==
    LET f == [VoteForWaterValves(m, TRUE) EXCEPT !.state = "Fill"] IN
    CASE m.pauseFill -> [RequestFill(f, "Resume") EXCEPT !.pauseFill = FALSE]
      [] ~m.pauseFill /\ (m.delayFill \/ e.inhibited) ->
            EnterIdleFillOfMold(ExitFill([f EXCEPT !.delayFill = FALSE]))
      [] OTHER -> RequestFill(f, "Start")

EnterThermistorFault(m) ==
    [VoteForWaterValves(m, FALSE) EXCEPT !.state = "ThermistorFault"]

EnterMold(m, target, e) ==
    CASE target = "Freeze" -> EnterFreeze(m, e)
      [] target = "Harvest" -> EnterHarvest(m, e)
      [] target = "HarvestFix" -> EnterHarvestFix(m, e)
      [] target = "HarvestFault" -> EnterHarvestFault(m, e)
      [] target = "Fill" -> EnterFillOfMold(m, e)
      [] target = "IdleFill" -> EnterIdleFillOfMold(m)
      [] target = "ThermistorFault" -> EnterThermistorFault(m)

MoldTo(m, target, e) == EnterMold(ExitMold(m, e), target, e)

-----------------------------------------------------------------------------
State_Global(m, signal, e) ==
    CASE signal = "MoldThermistorIsInvalid" -> MoldTo(m, "ThermistorFault", e)
      [] signal = "TestRequest_Fill" -> MoldTo(m, "Fill", e)
      [] signal = "TestRequest_Harvest" -> MoldTo(m, "Harvest", e)
      [] signal = "DispensingActive" -> [m EXCEPT !.delayFill = TRUE]
      [] signal = "DispensingInactive" -> [m EXCEPT !.delayFill = FALSE]
      [] OTHER -> m

HarvestSignals == HarvestConditions \union {"TemperatureIsReady", "FeelerArmIsReady"}

State_Freeze(m, signal, e) ==
    CASE signal = "FreezerIceRateIsInactive" -> TriggerFreezerIceRateIfNecessary(m, e)
      [] signal \in HarvestSignals /\ HarvestConditionsAreMet(m, e) -> MoldTo(m, "Harvest", e)
      [] signal \in HarvestSignals /\ ~HarvestConditionsAreMet(m, e) ->
            TriggerFreezerIceRateIfNecessary(m, e)
      [] OTHER -> State_Global(m, signal, e)

State_Harvest(m, signal, e) ==
    LET f == IF signal = "FillTubeHeaterTimerExpired"
             THEN VoteForFillTubeHeater(m, FALSE) ELSE m IN
    CASE signal = "MinimumHeaterOnTimeReached" -> SetRakeControllerRequest(m, e)
      [] signal = "MaxHarvestTimeReached" -> MoldTo(m, "HarvestFix", e)
      [] signal \in {"FillTubeHeaterTimerExpired", "RakeCompletedRevolution"} ->
            IF RakeAndFillTubeAreDone(m)
            THEN MoldTo(f, IF m.skipFill THEN "Freeze" ELSE "Fill", e)
            ELSE f
      [] signal = "TestRequest_Harvest" -> m
      [] OTHER -> State_Global(m, signal, e)

State_HarvestFix(m, signal, e) ==
    CASE signal = "RakeOnTimerExpired" -> TurnOffRakeMotor(m, e)
      [] signal = "RakeOffTimerExpired" -> TurnOnRakeMotor(m, e)
      [] signal = "MaxHarvestFixTimeReached" -> MoldTo(m, "HarvestFault", e)
      [] signal = "RakeCompletedRevolution" /\ ~m.revolutionInFix ->
            SetRevolutionFlag(m, TRUE)
      [] signal = "RakeCompletedRevolution" /\ m.revolutionInFix -> MoldTo(m, "Freeze", e)
      [] OTHER -> State_Global(m, signal, e)

State_HarvestFault(m, signal, e) ==
    CASE signal = "RakeOffTimerExpired" -> TurnOnRakeMotor(m, e)
      [] signal = "RakeOnTimerExpired" -> TurnOffRakeMotor(m, e)
      [] signal \in {"HarvestFaultMaxTimerExpired", "RakeCompletedRevolution"} ->
            MoldTo(m, "Harvest", e)
      [] OTHER -> State_Global(m, signal, e)

State_FillParent(m, signal, e) ==
    IF signal \in {"MoldThermistorIsInvalid", "TestRequest_Fill"} THEN m
    ELSE State_Global(m, signal, e)

State_Fill(m, signal, e) ==
    CASE signal = "StopFill" ->
            (CASE ~e.valid -> MoldTo(m, "ThermistorFault", e)
               [] e.valid /\ ~e.home -> MoldTo(SetSkipFillFlag(m, TRUE), "Harvest", e)
               [] e.valid /\ e.home -> MoldTo(m, "Freeze", e))
      [] signal \in {"DispensingActive", "IceMakerFillIsInhibited"} ->
            MoldTo([m EXCEPT !.pauseFill = TRUE], "IdleFill", e)
      [] OTHER -> State_FillParent(m, signal, e)

State_IdleFill(m, signal, e) ==
    IF signal \in {"DispensingInactive", "IceMakerFillIsNotInhibited"}
    THEN MoldTo(m, "Fill", e) ELSE State_FillParent(m, signal, e)

State_ThermistorFault(m, signal, e) ==
    CASE signal = "MoldThermistorIsValid" /\ e.home -> MoldTo(m, "Freeze", e)
      [] signal = "MoldThermistorIsValid" /\ ~e.home ->
            MoldTo(SetSkipFillFlag(m, TRUE), "Harvest", e)
      [] signal \in {"TestRequest_Harvest", "TestRequest_Fill"} -> m
      [] OTHER -> State_Global(m, signal, e)

\* Hsm_SendSignal.
SendToMold(m, signal, e) ==
    CASE m.state = "Freeze" -> State_Freeze(m, signal, e)
      [] m.state = "Harvest" -> State_Harvest(m, signal, e)
      [] m.state = "HarvestFix" -> State_HarvestFix(m, signal, e)
      [] m.state = "HarvestFault" -> State_HarvestFault(m, signal, e)
      [] m.state = "Fill" -> State_Fill(m, signal, e)
      [] m.state = "IdleFill" -> State_IdleFill(m, signal, e)
      [] m.state = "ThermistorFault" -> State_ThermistorFault(m, signal, e)

\* A handler of the rake that completes a revolution publishes it at once.
RakeTo(m, r, e) ==
    LET n == [m EXCEPT !.rake = r] IN
    IF r.completedRevolution /\ ~m.rake.completedRevolution
    THEN SendToMold(n, "RakeCompletedRevolution", e) ELSE n

\* AluminumMoldIceMaker_Init and the entry of InitialState.
InitialMold(e) ==
    LET m == [state |-> "ThermistorFault", valves |-> FALSE, tubeHeater |-> FALSE,
              counting |-> FALSE, skipFill |-> FALSE, initialFreeze |-> FALSE,
              revolutionInFix |-> FALSE, pauseFill |-> FALSE, delayFill |-> FALSE,
              iceRate |-> FALSE, timers |-> {}, rake |-> InitialRake,
              heater |-> InitialHeater, arm |-> InitialFeelerArm,
              fill |-> InitialMonitor] IN
    CASE ~e.valid -> EnterThermistorFault(m)
      [] e.valid /\ e.home -> EnterFreeze([m EXCEPT !.initialFreeze = TRUE], e)
      [] e.valid /\ ~e.home -> EnterHarvest(m, e)
=============================================================================
