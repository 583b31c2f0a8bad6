-------------------------- MODULE TwistTrayIceMaker --------------------------
(***************************************************************************)
(* The twist tray ice maker                                                *)
(* (src/src/Application/IceMaker/TwistTrayIceMaker/TwistTrayIceMaker.c):   *)
(* home the tray, freeze, harvest, fill, and wait while the bucket is full *)
(* or the water is wanted elsewhere, with the water fill monitor that ends *)
(* a fill and the freezer ice rate it asks for.                            *)
(*                                                                         *)
(* The ice maker is one record; a state's function is an operator from the *)
(* record and a signal to the record after it, transitions included, since *)
(* every handler runs to completion in the main loop.                      *)
(*                                                                         *)
(* What the code reads of its surroundings is the record e: the sabbath    *)
(* mode (either of the two), enabled (the enable and the cooling system,   *)
(* which the code always uses together), valid (the thermistor), inhibited *)
(* (the fill), ready (temperature, harvest count and RFID allow a harvest) *)
(* and warm (the tray is warm enough to freeze again with a full bucket).  *)
(***************************************************************************)
EXTENDS IceMakerWaterFillMonitor

MakerStates == {"Homing", "Freeze", "Harvesting", "Fill", "BucketIsFull",
                "MotorError", "ThermistorFault", "IdleFill"}
MakerTimers == {"doorHarvestDelay", "fillTubeHeater", "fullBucketWait",
                "doorOpenCheck", "retryMotorInit", "dispensingIce", "iceRate"}
MotorVotes == {"Off", "Home", "Run"}
World == [sabbath : BOOLEAN, enabled : BOOLEAN, valid : BOOLEAN,
          inhibited : BOOLEAN, ready : BOOLEAN, warm : BOOLEAN]

Maker ==
    [state : MakerStates, motorVote : MotorVotes, valve : BOOLEAN,
     tubeHeater : BOOLEAN, counting : BOOLEAN, full : BOOLEAN,
     motorFault : BOOLEAN,
     doorDelayElapsed : BOOLEAN, firstFreeze : BOOLEAN,
     icedLongEnough : BOOLEAN, pauseFill : BOOLEAN, delayFill : BOOLEAN,
     doorCheckElapsed : BOOLEAN, motorHarvested : BOOLEAN,
     timers : SUBSET MakerTimers, fill : Monitor]

Start(m, t) == [m EXCEPT !.timers = @ \union {t}]
Cancel(m, ts) == [m EXCEPT !.timers = @ \ ts]
Running(m, t) == t \in m.timers

SetWaterFillMonitoringRequestTo(m, request) ==
    [m EXCEPT !.fill = RequestMonitor(@, request)]

\* SendFreezerIceRateSignal: the handler (re)starts the rate's time.
SendFreezerIceRateSignal(m) == Start(m, "iceRate")

MayMakeIce(e) == ~e.sabbath /\ e.enabled

-----------------------------------------------------------------------------
(***************************************************************************)
(* Fsm_Exit of every state.                                                *)
(***************************************************************************)
\* Mutant: the door check of this full bucket is kept for the next one.
ExitBucketIsFullKeepsCheck(m) == Cancel(m, {"fullBucketWait", "doorOpenCheck"})

ExitBucketIsFull(m) ==
    [Cancel(m, {"fullBucketWait", "doorOpenCheck"})
        EXCEPT !.doorCheckElapsed = FALSE]

Exit(m) ==
    CASE m.state = "Homing" -> [m EXCEPT !.motorVote = "Off"]
      [] m.state = "Freeze" ->
            [Cancel(m, {"doorHarvestDelay"})
                EXCEPT !.firstFreeze = FALSE, !.counting = FALSE,
                       !.doorDelayElapsed = TRUE]
      [] m.state = "Harvesting" ->
            [Cancel(m, {"fillTubeHeater"})
                EXCEPT !.tubeHeater = FALSE, !.motorHarvested = FALSE,
                       !.motorVote = "Off"]
      [] m.state = "Fill" ->
            [SetWaterFillMonitoringRequestTo(
                Cancel(m, {"fullBucketWait"}),
                IF m.pauseFill THEN "Pause" ELSE "Stop")
                EXCEPT !.valve = FALSE]
      [] m.state = "BucketIsFull" -> ExitBucketIsFull(m)
      [] m.state = "MotorError" -> Cancel(m, {"retryMotorInit"})
      [] m.state \in {"ThermistorFault", "IdleFill"} -> m

(***************************************************************************)
(* Fsm_Entry of every state; Fill passes on to IdleFill from its entry.    *)
(***************************************************************************)
EnterIdleFill(m) == [m EXCEPT !.state = "IdleFill"]

EnterFill(m, e) ==
    LET f == [m EXCEPT !.state = "Fill"] IN
    CASE m.pauseFill ->
            [SetWaterFillMonitoringRequestTo(f, "Resume") EXCEPT !.pauseFill = FALSE]
      [] ~m.pauseFill /\ (m.delayFill \/ e.inhibited) ->
            EnterIdleFill(Exit([f EXCEPT !.delayFill = FALSE]))
      [] OTHER ->
            SetWaterFillMonitoringRequestTo([f EXCEPT !.valve = TRUE], "Start")

\* Mutant: the motor is voted for with a result instead of a state.
EnterHomingVotesResult(m) == [m EXCEPT !.state = "Homing", !.motorVote = "Homed"]

EnterHoming(m) == [m EXCEPT !.state = "Homing", !.motorVote = "Home"]

EnterFreeze(m, e) ==
    LET f == [m EXCEPT !.state = "Freeze", !.counting = TRUE] IN
    IF ~m.firstFreeze /\ MayMakeIce(e) THEN SendFreezerIceRateSignal(f) ELSE f

\* Mutant: the heater is switched on and never timed.
EnterHarvestingUntimed(m) ==
    [m EXCEPT !.state = "Harvesting", !.motorVote = "Run", !.tubeHeater = TRUE]

EnterHarvesting(m) ==
    [Start(m, "fillTubeHeater")
        EXCEPT !.state = "Harvesting", !.motorVote = "Run", !.tubeHeater = TRUE]

Enter(m, target, e) ==
    CASE target = "Homing" -> EnterHoming(m)
      [] target = "Freeze" -> EnterFreeze(m, e)
      [] target = "Harvesting" -> EnterHarvesting(m)
      [] target = "Fill" -> EnterFill(m, e)
      [] target = "BucketIsFull" ->
            [Start(m, "fullBucketWait") EXCEPT !.state = target, !.full = TRUE]
      [] target = "MotorError" ->
            [Start(m, "retryMotorInit")
                EXCEPT !.state = target, !.motorVote = "Off", !.motorFault = TRUE]
      [] target = "ThermistorFault" -> [m EXCEPT !.state = target]
      [] target = "IdleFill" -> EnterIdleFill(m)

Transition(m, target, e) == Enter(Exit(m), target, e)

\* The choice every completed movement and fill makes.
TransitionIfThermistorIsValid(m, target, e) ==
    Transition(m, IF e.valid THEN target ELSE "ThermistorFault", e)

-----------------------------------------------------------------------------
(***************************************************************************)
(* The other signals, state by state.                                      *)
(***************************************************************************)
\* Mutant: the end of a dispense is not noticed.
DispensingNeverEnds(m, signal) ==
    IF signal = "DispensingActive" THEN [m EXCEPT !.delayFill = TRUE] ELSE m

DispensingSignal(m, signal) ==
    CASE signal = "DispensingActive" -> [m EXCEPT !.delayFill = TRUE]
      [] signal = "DispensingInactive" -> [m EXCEPT !.delayFill = FALSE]
      [] OTHER -> m

Homing(m, signal, e) ==
    CASE signal = "Homed" -> TransitionIfThermistorIsValid(m, "Freeze", e)
      [] signal = "MotorError" -> Transition(m, "MotorError", e)
      [] OTHER -> DispensingSignal(m, signal)

FreezeSignals == {"IceRateNoLongerActive", "SabbathModeDisabled", "Enabled",
                  "TemperatureChanged", "HarvestCountIsReady",
                  "HarvestDoorDelayElapsed", "NotInhibitedByRfid"}

Freeze(m, signal, e) ==
    CASE signal = "DoorOpened" ->
            [Start(m, "doorHarvestDelay") EXCEPT !.doorDelayElapsed = FALSE]
      [] signal \in FreezeSignals /\ MayMakeIce(e) ->
            IF e.ready /\ m.doorDelayElapsed THEN Transition(m, "Harvesting", e)
            ELSE IF ~Running(m, "iceRate") /\ ~m.firstFreeze
                 THEN SendFreezerIceRateSignal(m) ELSE m
      [] signal = "ThermistorIsInvalid" -> Transition(m, "ThermistorFault", e)
      [] signal = "TestFill" -> Transition(m, "Fill", e)
      [] signal = "TestHarvest" -> Transition(m, "Harvesting", e)
      [] OTHER -> DispensingSignal(m, signal)

\* Mutant: the heater's time ends after the harvest and nobody goes on.
FillTubeHeaterTimerExpiredAlone(m, e) == [m EXCEPT !.tubeHeater = FALSE]

FillTubeHeaterTimerExpired(m, e) ==
    LET n == [m EXCEPT !.tubeHeater = FALSE]
    IN  IF m.motorHarvested THEN TransitionIfThermistorIsValid(n, "Fill", e) ELSE n

Harvesting(m, signal, e) ==
    CASE signal = "FillTubeHeaterTimerExpired" -> FillTubeHeaterTimerExpired(m, e)
      [] signal = "Harvested" ->
            LET n == [m EXCEPT !.motorHarvested = TRUE, !.motorVote = "Off", !.full = FALSE]
            IN  IF Running(m, "fillTubeHeater") THEN n
                ELSE TransitionIfThermistorIsValid(n, "Fill", e)
      [] signal = "BucketWasFull" ->
            TransitionIfThermistorIsValid(m, IF e.enabled THEN "BucketIsFull" ELSE "Freeze", e)
      [] signal = "MotorError" -> TransitionIfThermistorIsValid(m, "MotorError", e)
      [] signal = "TestFill" /\ m.motorHarvested -> Transition(m, "Fill", e)
      [] OTHER -> DispensingSignal(m, signal)

Filling(m, signal, e) ==
    CASE signal = "TrayFilled" -> TransitionIfThermistorIsValid(m, "Freeze", e)
      [] signal \in {"DispensingActive", "FillIsInhibited"} ->
            Transition([m EXCEPT !.pauseFill = TRUE], "IdleFill", e)
      [] signal = "TestHarvest" -> Transition(m, "Harvesting", e)
      [] OTHER -> m

DoorClosed(m, e) ==
    LET n == Cancel(m, {"doorOpenCheck"})
    IN  IF m.doorCheckElapsed THEN Transition(n, "Harvesting", e) ELSE n

BucketIsFull(m, signal, e) ==
    CASE signal = "IceHasStoppedDispensing" /\ m.icedLongEnough ->
            Transition([m EXCEPT !.icedLongEnough = FALSE], "Harvesting", e)
      [] signal = "DoorOpened" -> Start(m, "doorOpenCheck")
      [] signal = "DoorClosed" -> DoorClosed(m, e)
      [] signal \in {"FullBucketWaitElapsed", "TestHarvest"} ->
            Transition(m, "Harvesting", e)
      [] signal = "TemperatureChanged" /\ e.warm -> Transition(m, "Freeze", e)
      [] signal = "ThermistorIsInvalid" -> Transition(m, "ThermistorFault", e)
      [] signal = "TestFill" -> Transition(m, "Fill", e)
      [] signal \in {"SabbathModeEnabled", "Disabled"} -> Transition(m, "Freeze", e)
      [] OTHER -> DispensingSignal(m, signal)

MotorError(m, signal, e) ==
    CASE signal = "TestFill" -> Transition(m, "Fill", e)
      [] signal = "TestHarvest" -> Transition(m, "Harvesting", e)
      [] signal = "MotorErrorRetryTimerExpired" -> Transition(m, "Homing", e)
      [] OTHER -> DispensingSignal(m, signal)

\* Mutant: a thermistor that recovers is not heard.
ThermistorFaultStays(m, signal, e) == DispensingSignal(m, signal)

ThermistorFault(m, signal, e) ==
    CASE signal = "ThermistorIsValid" -> Transition(m, "Homing", e)
      [] OTHER -> DispensingSignal(m, signal)

IdleFill(m, signal, e) ==
    CASE signal \in {"DispensingInactive", "FillIsNotInhibited"} -> Transition(m, "Fill", e)
      [] OTHER -> m

SendSignal(m, signal, e) ==
    CASE m.state = "Homing" -> Homing(m, signal, e)
      [] m.state = "Freeze" -> Freeze(m, signal, e)
      [] m.state = "Harvesting" -> Harvesting(m, signal, e)
      [] m.state = "Fill" -> Filling(m, signal, e)
      [] m.state = "BucketIsFull" -> BucketIsFull(m, signal, e)
      [] m.state = "MotorError" -> MotorError(m, signal, e)
      [] m.state = "ThermistorFault" -> ThermistorFault(m, signal, e)
      [] m.state = "IdleFill" -> IdleFill(m, signal, e)
=============================================================================
