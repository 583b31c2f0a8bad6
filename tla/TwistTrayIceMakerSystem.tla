----------------------- MODULE TwistTrayIceMakerSystem -----------------------
(***************************************************************************)
(* The twist tray ice maker among the ERDs it watches: one action for each *)
(* branch of DataSourceChanged, each timer and each event of the water     *)
(* fill monitor.  The motor is taken at the word TwistTrayMotorSystem      *)
(* keeps: a vote that stands is answered by a final result of its kind.    *)
(***************************************************************************)
EXTENDS TwistTrayIceMaker

CONSTANT StopsNameTheirSelection
    \* Does the end of a dispense carry the selection of its start?  The
    \* status takes it from the request that ends it
    \* (DispensingRequestHandler.c:66).

ASSUME StopsAreBoolean == StopsNameTheirSelection \in BOOLEAN

VARIABLES
    im,         \* the ice maker
    sabbath, enabled, valid, inhibited, doorOpen,
    status      \* dispensingRequestStatusErd: [selection, dispensing]

worldVars == <<sabbath, enabled, valid, inhibited, doorOpen, status>>
vars == <<im, worldVars>>

Statuses == [selection : {"water", "ice"}, dispensing : BOOLEAN]

TypeOK ==
    /\ im \in Maker
    /\ sabbath \in BOOLEAN /\ enabled \in BOOLEAN /\ valid \in BOOLEAN
    /\ inhibited \in BOOLEAN /\ doorOpen \in BOOLEAN
    /\ status \in Statuses

\* What a handler reads when the ERDs have their new values.
Reads(ready, warm) ==
    [sabbath |-> sabbath', enabled |-> enabled', valid |-> valid',
     inhibited |-> inhibited', ready |-> ready, warm |-> warm]

\* TwistTrayIceMaker_Init and the entry of the initial state.
Init ==
    /\ sabbath \in BOOLEAN /\ enabled \in BOOLEAN /\ valid \in BOOLEAN
    /\ inhibited = FALSE /\ doorOpen = FALSE
    /\ status = [selection |-> "water", dispensing |-> FALSE]
    /\ im = [state |-> IF valid THEN "Homing" ELSE "ThermistorFault",
             motorVote |-> IF valid THEN "Home" ELSE "Off",
             valve |-> FALSE, tubeHeater |-> FALSE, counting |-> FALSE,
             full |-> FALSE, motorFault |-> FALSE, doorDelayElapsed |-> TRUE,
             firstFreeze |-> TRUE, icedLongEnough |-> FALSE,
             pauseFill |-> FALSE, delayFill |-> FALSE,
             doorCheckElapsed |-> FALSE, motorHarvested |-> FALSE,
             timers |-> {}, fill |-> InitialMonitor]

\* Fsm_SendSignal to a machine that has already been changed to m.
Signal(m, signal) ==
    \E ready, warm \in BOOLEAN :
        im' = SendSignal(m, signal, Reads(ready, warm))

-----------------------------------------------------------------------------
SabbathModeChanges ==
    /\ sabbath' = ~sabbath
    /\ UNCHANGED <<enabled, valid, inhibited, doorOpen, status>>
    /\ Signal(im, IF sabbath' THEN "SabbathModeEnabled" ELSE "SabbathModeDisabled")

EnableChanges ==
    /\ enabled' = ~enabled
    /\ UNCHANGED <<sabbath, valid, inhibited, doorOpen, status>>
    /\ Signal(im, IF enabled' THEN "Enabled" ELSE "Disabled")

ThermistorValidityChanges ==
    /\ valid' = ~valid
    /\ UNCHANGED <<sabbath, enabled, inhibited, doorOpen, status>>
    /\ Signal(im, IF valid' THEN "ThermistorIsValid" ELSE "ThermistorIsInvalid")

FillInhibitionChanges ==
    /\ inhibited' = ~inhibited
    /\ UNCHANGED <<sabbath, enabled, valid, doorOpen, status>>
    /\ Signal(im, IF inhibited' THEN "FillIsInhibited" ELSE "FillIsNotInhibited")

DoorChanges ==
    /\ doorOpen' = ~doorOpen
    /\ UNCHANGED <<sabbath, enabled, valid, inhibited, status>>
    /\ Signal(im, IF doorOpen' THEN "DoorOpened" ELSE "DoorClosed")

\* The filtered temperature, the harvest count, the RFID inhibition.
HarvestConditionChanges ==
    /\ UNCHANGED worldVars
    /\ \E signal \in {"TemperatureChanged", "HarvestCountIsReady",
                      "NotInhibitedByRfid"} : Signal(im, signal)

TestRequested ==
    /\ UNCHANGED worldVars
    /\ \E signal \in {"TestFill", "TestHarvest"} : Signal(im, signal)

\* dispensingRequestStatusErd takes a new value s.
DispensingRequestStatusChanges(s) ==
    /\ status' = s
    /\ UNCHANGED <<sabbath, enabled, valid, inhibited, doorOpen>>
    /\ CASE s.selection = "water" ->
                Signal(im, IF s.dispensing THEN "DispensingActive" ELSE "DispensingInactive")
         [] s.selection = "ice" /\ s.dispensing -> im' = Start(im, "dispensingIce")
         [] s.selection = "ice" /\ ~s.dispensing ->
                Signal(Cancel(im, {"dispensingIce"}), "IceHasStoppedDispensing")

DispenseStarts ==
    /\ ~status.dispensing
    /\ \E s \in Statuses : s.dispensing /\ DispensingRequestStatusChanges(s)

DispenseEnds ==
    /\ status.dispensing
    /\ \E s \in Statuses :
        /\ ~s.dispensing
        /\ StopsNameTheirSelection => s.selection = status.selection
        /\ DispensingRequestStatusChanges(s)

\* motorActionResultErd takes a final value while the vote it answers stands.
MotorEnds ==
    /\ UNCHANGED worldVars
    /\ \/ /\ im.motorVote = "Home"
          /\ \E result \in {"Homed", "MotorError"} : Signal(im, result)
       \/ /\ im.motorVote = "Run"
          /\ \E result \in {"Harvested", "BucketWasFull", "MotorError"} :
                Signal(im, result)

-----------------------------------------------------------------------------
TimerExpires(t) ==
    /\ Running(im, t)
    /\ UNCHANGED worldVars
    /\ LET m == Cancel(im, {t}) IN
       CASE t = "doorHarvestDelay" ->
                Signal([m EXCEPT !.doorDelayElapsed = TRUE], "HarvestDoorDelayElapsed")
         [] t = "fillTubeHeater" -> Signal(m, "FillTubeHeaterTimerExpired")
         [] t = "fullBucketWait" -> Signal(m, "FullBucketWaitElapsed")
         [] t = "doorOpenCheck" -> im' = [m EXCEPT !.doorCheckElapsed = TRUE]
         [] t = "retryMotorInit" -> Signal(m, "MotorErrorRetryTimerExpired")
         [] t = "dispensingIce" -> im' = [m EXCEPT !.icedLongEnough = TRUE]
         [] t = "iceRate" -> Signal(m, "IceRateNoLongerActive")

\* StopMonitoring from either fill timer, or from a flow meter that has seen
\* enough water.
TrayIsFilled ==
    /\ \/ im.fill.timedFill = "running"
       \/ im.fill.maxFill = "running"
       \/ im.fill.listening
    /\ UNCHANGED worldVars
    /\ Signal([im EXCEPT !.fill = StopMonitoring(@)], "TrayFilled")

FillTimerExpires ==
    /\ im.fill.timedFill = "running" \/ im.fill.maxFill = "running"
    /\ TrayIsFilled

WaterFlows ==
    /\ im.fill.listening
    /\ im' = [im EXCEPT !.fill = FlowSeen(@)]
    /\ UNCHANGED worldVars

Next ==
    \/ SabbathModeChanges \/ EnableChanges \/ ThermistorValidityChanges
    \/ FillInhibitionChanges \/ DoorChanges \/ HarvestConditionChanges
    \/ TestRequested \/ DispenseStarts \/ DispenseEnds \/ MotorEnds
    \/ TrayIsFilled \/ WaterFlows
    \/ \E t \in MakerTimers : TimerExpires(t)

(***************************************************************************)
(* Timers expire, the motor answers, a dispense comes to its end           *)
(* (DispenseController.c bounds its time), an inhibited fill is allowed    *)
(* again.                                                                  *)
(***************************************************************************)
Fairness ==
    /\ \A t \in MakerTimers : WF_vars(TimerExpires(t))
    /\ WF_vars(FillTimerExpires) /\ WF_vars(MotorEnds) /\ WF_vars(DispenseEnds)
    /\ WF_vars(inhibited /\ FillInhibitionChanges)

Spec == Init /\ [][Next]_vars /\ Fairness

-----------------------------------------------------------------------------
\* Every output belongs to one state: water runs only in Fill, the fill tube
\* heater is on only in Harvesting and only while its timer runs, a movement
\* is voted for only in the state that waits for its result.
OutputsBelongToTheirState ==
    /\ im.valve => im.state = "Fill"
    /\ im.tubeHeater => im.state = "Harvesting" /\ Running(im, "fillTubeHeater")
    /\ im.motorVote = "Home" <=> im.state = "Homing"
    /\ im.motorVote = "Run" <=> im.state = "Harvesting" /\ ~im.motorHarvested
    /\ im.counting <=> im.state = "Freeze"

\* No timer or flag of a state outlives it: nothing is left to fire into, or
\* to be believed in, the next time around.
NothingIsLeftBehind ==
    /\ Running(im, "retryMotorInit") <=> im.state = "MotorError"
    /\ Running(im, "fullBucketWait") <=> im.state = "BucketIsFull"
    /\ Running(im, "doorOpenCheck") \/ im.doorCheckElapsed => im.state = "BucketIsFull"
    /\ Running(im, "doorHarvestDelay") <=> ~im.doorDelayElapsed
    /\ ~im.doorDelayElapsed => im.state = "Freeze"
    /\ im.motorHarvested => im.state = "Harvesting"
    /\ im.pauseFill => im.state = "IdleFill" /\ im.fill.request = "Pause"

\* The ice maker waits for a thermistor only while that is invalid.
FaultMeansInvalid == im.state = "ThermistorFault" => ~valid

\* While the tray fills, the maximum time runs and the flow meter is heard:
\* the fill ends even when one of the two is of no use.
FillIsMonitored ==
    im.state = "Fill" => im.fill.maxFill = "running" /\ im.fill.listening

\* A delayed fill is owed to a dispense that still goes on.
DelayMeansDispensing == im.delayFill => status = [selection |-> "water", dispensing |-> TRUE]

\* A fill ends, a motor error is retried, a postponed fill is taken up again.
EveryWaitEnds ==
    /\ im.state = "Fill" ~> im.state # "Fill"
    /\ im.state = "MotorError" ~> im.state # "MotorError"
    /\ im.state = "Harvesting" ~> im.state # "Harvesting"
    /\ im.state = "IdleFill" ~> im.state # "IdleFill"

\* "ShouldResumeWaterFillMonitoring..." and the helper
\* GivenIceMakerHasResumedFillAndIsInFillingTrayWithWater
\* (TwistTrayIceMaker_Test.cpp:725): a resumed fill is a fill, water runs.
WaterRunsWhileFilling == im.state = "Fill" => im.valve

\* "ShouldNotTransitionToFillingTrayWithWaterWhenDispensingIsActiveWhile-
\* IceMakerStateIsInIdleFill" (TwistTrayIceMaker_Test.cpp): the tray does not
\* take the water a user is dispensing.
NoFillWhileDispensing ==
    im.valve => status # [selection |-> "water", dispensing |-> TRUE]

\* "ShouldTransitionToFreezeWhenSabbathModeBecomesOnWhileBucketIsFull"
\* (TwistTrayIceMaker_Test.cpp): in sabbath mode the ice maker waits in
\* Freeze, not with a timer that starts the next harvest.
SabbathIsSpentInFreeze == sabbath => im.state # "BucketIsFull"

\* What a state of the ice maker starts, it ends, and a state that waits for a
\* cause is entered only while there is one.
StateOwnsWhatItStarts ==
    /\ TypeOK
    /\ OutputsBelongToTheirState
    /\ NothingIsLeftBehind
    /\ FaultMeansInvalid

\* A fill that runs is bounded, a fill that is postponed has a cause that ends.
FillIsAccountedFor == FillIsMonitored /\ DelayMeansDispensing
=============================================================================
