------------------ MODULE TwistTrayIceMakerMotorController ------------------
(***************************************************************************)
(* The controller of the twist tray ice maker's motor                      *)
(* (src/src/Application/IceMaker/TwistTrayIceMaker/                        *)
(* TwistTrayIceMakerMotorController.c).  It is a flat state machine that   *)
(* two contexts feed: the 1 ms interrupt runs its two timers               *)
(* (TwistTrayIceMakerMotorController_Run), the main loop delivers switch   *)
(* changes and new requested states.  Nothing locks one out of the other.  *)
(*                                                                         *)
(* The controller is one record.  The interrupt is not interrupted: there  *)
(* a state's function is an operator from the record and a signal to the   *)
(* record after the function's assignments and the state it then           *)
(* transitions to (Stay: none).  The main loop is: there a state's         *)
(* function is the sequence of its calls (Calls), made one by one.         *)
(*                                                                         *)
(* Time is counted in ticks of the interrupt; the periods are parameters.  *)
(* The reason of a motor error and the operation state are left out.       *)
(***************************************************************************)
EXTENDS Integers, Sequences

CONSTANTS
    LongMotorErrorTimeout, ShortMotorErrorTimeout,
    HomePositionLandingDelayPeriod, FullBucketDetectionPeriod,
    InitialHomingTwistPeriod, StoppingPeriod

\* timeCount stops at UINT16_MAX: a longer period would never be over.  One of
\* a single tick could be over between the three writes of StartOneShot.
TimerPeriods == 2 .. 65535

ASSUME PeriodsAreTimes ==
    /\ LongMotorErrorTimeout \in TimerPeriods
    /\ ShortMotorErrorTimeout \in TimerPeriods
    /\ HomePositionLandingDelayPeriod \in TimerPeriods
    /\ FullBucketDetectionPeriod \in TimerPeriods
    /\ InitialHomingTwistPeriod \in TimerPeriods
    /\ StoppingPeriod \in TimerPeriods

HomingStates == {"MakingSureTheTrayIsHome", "JumpingOutOfHome",
                 "HomingReadyToLand"}
HarvestStates == {"CheckingIfBucketIsFull", "BucketWasFoundToBeFull",
                  "StoppingAtFullTwist", "Untwisting", "HarvestReadyToLand"}
ControllerStates == HomingStates \union HarvestStates \union {"Idle"}

Moving == {"MotorTwisting", "MotorUntwisting"}
MotorStates == Moving \union {"MotorCoasting", "MotorBraking"}

FinalResults == {"Homed", "Harvested", "BucketWasFull", "MotorError"}
Results == FinalResults \union {"NoAction", "Homing", "Harvesting"}

RequestedStates == {"Off", "Home", "Run"}

\* The signals of the timers; the main loop sends those of the switch and the
\* requested states.
TimerSignals == {"MotorTimeout", "InitialHomingTwistPeriodElapsed",
                 "HomingJumpOutPeriodElapsed", "LandingDelayElapsed",
                 "FullBucketWaitElapsed", "StoppingPeriodElapsed"}
MainSignals == {"SwitchLow", "SwitchHigh"} \union RequestedStates

Timers == {"MotorError", "GeneralPurpose"}

Stopped == [left |-> 0, signal |-> "none"]

MaxPeriod == LongMotorErrorTimeout + ShortMotorErrorTimeout
    + HomePositionLandingDelayPeriod + FullBucketDetectionPeriod
    + InitialHomingTwistPeriod + StoppingPeriod

Controller ==
    [state : ControllerStates, switch : BOOLEAN,
     motor : MotorStates,       \* what Output_Write has told the motor
     lastMotor : MotorStates,   \* lastMotorState
     timer : [Timers -> [left : 0 .. MaxPeriod,
                         signal : TimerSignals \union {"none"}]],
     result : Results, harvestResult : Results]

\* TwistTrayIceMakerMotorController_Init.
InitialController ==
    [state |-> "Idle", switch |-> FALSE,
     motor |-> "MotorCoasting", lastMotor |-> "MotorCoasting",
     timer |-> [t \in Timers |-> Stopped],
     result |-> "NoAction", harvestResult |-> "NoAction"]

-----------------------------------------------------------------------------
\* A cut among the three writes of each of these two moves nothing but the
\* start of the count, by at most one tick.
StartOneShot(c, t, period, signal) ==
    [c EXCEPT !.timer[t] = [left |-> period, signal |-> signal]]

Stop(c, t) == [c EXCEPT !.timer[t] = Stopped]

(***************************************************************************)
(* UpdateMotorState: the output is written, the error timer is started or  *)
(* stopped, and only then is the state remembered that the next call will  *)
(* compare with.                                                           *)
(***************************************************************************)
StartErrorTimer(c, timeout) ==
    StartOneShot(c, "MotorError", timeout, "MotorTimeout")

\* Mutant: a motor that is told to go on keeps the old timer even when its
\* direction changes.
TimeMotorKeepsTimer(c, new, timeout) ==
    IF new \notin Moving THEN Stop(c, "MotorError")
    ELSE IF c.lastMotor \notin Moving /\ c.timer["MotorError"] # Stopped
         THEN StartErrorTimer(c, timeout)
         ELSE c

TimeMotor(c, new, timeout) ==
    IF new \notin Moving THEN Stop(c, "MotorError")
    ELSE IF c.lastMotor # new THEN StartErrorTimer(c, timeout) ELSE c

UpdateMotorState(c, new, timeout) ==
    [TimeMotor([c EXCEPT !.motor = new], new, timeout) EXCEPT !.lastMotor = new]

ThrowMotorError(c) ==
    [UpdateMotorState(c, "MotorCoasting", 0)
        EXCEPT !.result = "MotorError", !.harvestResult = "MotorError"]

-----------------------------------------------------------------------------
(***************************************************************************)
(* Fsm_Entry and Fsm_Exit of every state.                                  *)
(***************************************************************************)
Entry(c) ==
    CASE c.state = "MakingSureTheTrayIsHome" ->
            LET d == UpdateMotorState(c, "MotorUntwisting", LongMotorErrorTimeout)
            IN  IF c.switch
                THEN StartOneShot(d, "GeneralPurpose", InitialHomingTwistPeriod,
                                  "InitialHomingTwistPeriodElapsed")
                ELSE d
      [] c.state = "JumpingOutOfHome" ->
            UpdateMotorState(c, "MotorTwisting", ShortMotorErrorTimeout)
      [] c.state = "HomingReadyToLand" ->
            UpdateMotorState(c, "MotorUntwisting", ShortMotorErrorTimeout)
      [] c.state = "CheckingIfBucketIsFull" ->
            StartOneShot(
                UpdateMotorState(c, "MotorTwisting", LongMotorErrorTimeout),
                "GeneralPurpose", FullBucketDetectionPeriod,
                "FullBucketWaitElapsed")
      [] c.state = "BucketWasFoundToBeFull" ->
            StartOneShot(
                UpdateMotorState(c, "MotorCoasting", 0),
                "GeneralPurpose", StoppingPeriod, "StoppingPeriodElapsed")
      [] c.state = "StoppingAtFullTwist" -> c
      [] c.state \in {"Untwisting", "HarvestReadyToLand"} ->
            UpdateMotorState(c, "MotorUntwisting", LongMotorErrorTimeout)
      [] c.state = "Idle" -> Stop(Stop(c, "GeneralPurpose"), "MotorError")

Exit(c) ==
    CASE c.state \in HomingStates ->
            Stop(UpdateMotorState(c, "MotorCoasting", 0), "GeneralPurpose")
      [] c.state = "HarvestReadyToLand" ->
            [Stop(UpdateMotorState(c, "MotorCoasting", 0), "GeneralPurpose")
                EXCEPT !.result = c.harvestResult]
      [] c.state \in {"CheckingIfBucketIsFull", "BucketWasFoundToBeFull",
                      "StoppingAtFullTwist"} -> Stop(c, "GeneralPurpose")
      [] OTHER -> c

Transition(c, target) == Entry([Exit(c) EXCEPT !.state = target])

-----------------------------------------------------------------------------
(***************************************************************************)
(* The signals of the timers, in every state: the record after the         *)
(* assignments of the case, and the state its Fsm_Transition then goes to. *)
(***************************************************************************)
Stay(c) == [ctl |-> c, target |-> "none"]
Go(c, target) == [ctl |-> c, target |-> target]

MotorTimedOut(c) == Go(ThrowMotorError(c), "Idle")

MakingSureTheTrayIsHome(c, signal) ==
    CASE signal = "InitialHomingTwistPeriodElapsed" -> Go(c, "JumpingOutOfHome")
      [] signal = "MotorTimeout" -> MotorTimedOut(c)
      [] OTHER -> Stay(c)

JumpingOutOfHome(c, signal) ==
    CASE signal = "HomingJumpOutPeriodElapsed" -> Go(c, "HomingReadyToLand")
      [] signal = "MotorTimeout" -> MotorTimedOut(c)
      [] OTHER -> Stay(c)

\* The landing of both movements: the delay, the brake.
Landing(c, signal, landed) ==
    CASE signal = "LandingDelayElapsed" ->
            Stay(StartOneShot(UpdateMotorState(c, "MotorBraking", 0),
                              "GeneralPurpose", StoppingPeriod,
                              "StoppingPeriodElapsed"))
      [] signal = "StoppingPeriodElapsed" -> Go(landed, "Idle")
      [] signal = "MotorTimeout" -> MotorTimedOut(c)
      [] OTHER -> Stay(c)

\* Mutant: homing reports the result the harvest left behind.
HomingReportsHarvest(c, signal) ==
    Landing(c, signal, [c EXCEPT !.result = c.harvestResult])

HomingReadyToLand(c, signal) == Landing(c, signal, [c EXCEPT !.result = "Homed"])

HarvestReadyToLand(c, signal) == Landing(c, signal, c)

\* The motor's time-out is not listened to here, nor in the state after it.
CheckingIfBucketIsFull(c, signal) ==
    CASE signal = "FullBucketWaitElapsed" ->
            Go([c EXCEPT !.harvestResult = "Harvested"], "StoppingAtFullTwist")
      [] OTHER -> Stay(c)

BucketWasFoundToBeFull(c, signal) ==
    CASE signal = "StoppingPeriodElapsed" -> Go(c, "HarvestReadyToLand")
      [] OTHER -> Stay(c)

StoppingAtFullTwist(c, signal) ==
    CASE signal = "StoppingPeriodElapsed" -> Go(c, "Untwisting")
      [] signal = "MotorTimeout" -> MotorTimedOut(c)
      [] OTHER -> Stay(c)

Untwisting(c, signal) ==
    CASE signal = "MotorTimeout" -> MotorTimedOut(c)
      [] OTHER -> Stay(c)

Handle(c, signal) ==
    CASE c.state = "MakingSureTheTrayIsHome" -> MakingSureTheTrayIsHome(c, signal)
      [] c.state = "JumpingOutOfHome" -> JumpingOutOfHome(c, signal)
      [] c.state = "HomingReadyToLand" -> HomingReadyToLand(c, signal)
      [] c.state = "CheckingIfBucketIsFull" -> CheckingIfBucketIsFull(c, signal)
      [] c.state = "BucketWasFoundToBeFull" -> BucketWasFoundToBeFull(c, signal)
      [] c.state = "StoppingAtFullTwist" -> StoppingAtFullTwist(c, signal)
      [] c.state = "Untwisting" -> Untwisting(c, signal)
      [] c.state = "HarvestReadyToLand" -> HarvestReadyToLand(c, signal)
      [] c.state = "Idle" -> Stay(c)

Finish(c, target) == IF target = "none" THEN c ELSE Transition(c, target)

\* Fsm_SendSignal in the interrupt.
SendSignal(c, signal) ==
    LET h == Handle(c, signal) IN Finish(h.ctl, h.target)

-----------------------------------------------------------------------------
(***************************************************************************)
(* The same functions in the main loop: the calls each makes, in order.    *)
(***************************************************************************)
Output(new) == [call |-> "Output", motor |-> new]
Compare(new, timeout) ==
    [call |-> "Compare", motor |-> new, timeout |-> timeout]
Remember(new) == [call |-> "Remember", motor |-> new]
Start(t, period, signal) ==
    [call |-> "Start", timer |-> t, period |-> period, signal |-> signal]
StopTimer(t) == [call |-> "Stop", timer |-> t]
SetResult(r) == [call |-> "SetResult", result |-> r]
SetHarvestResult(r) == [call |-> "SetHarvestResult", result |-> r]
ReportHarvest == [call |-> "ReportHarvest"]
TransitionTo(target) == [call |-> "TransitionTo", target |-> target]
Become(target) == [call |-> "Become", target |-> target]

\* UpdateMotorState for a motor that is to stop, and for one that is to turn:
\* all that the main loop lets turn has the long timeout.
Coast == <<Output("MotorCoasting"), StopTimer("MotorError"),
           Remember("MotorCoasting")>>

Turn(new) ==
    <<Output(new), Compare(new, LongMotorErrorTimeout), Remember(new)>>

StartHomingTwist == Start("GeneralPurpose", InitialHomingTwistPeriod,
                          "InitialHomingTwistPeriodElapsed")
StartJumpOut == Start("GeneralPurpose", HomePositionLandingDelayPeriod,
                      "HomingJumpOutPeriodElapsed")
StartLanding == Start("GeneralPurpose", HomePositionLandingDelayPeriod,
                      "LandingDelayElapsed")
StartFullBucketWait == Start("GeneralPurpose", FullBucketDetectionPeriod,
                             "FullBucketWaitElapsed")
StartStopping == Start("GeneralPurpose", StoppingPeriod, "StoppingPeriodElapsed")

\* Mutant: the harvest is called successful when its arm meets a full bucket.
FullBucketIsHarvested ==
    <<SetHarvestResult("Harvested")>> \o Coast
        \o <<TransitionTo("BucketWasFoundToBeFull")>>

FullBucketIsFound ==
    <<SetHarvestResult("BucketWasFull")>> \o Coast
        \o <<TransitionTo("BucketWasFoundToBeFull")>>

\* Mutant: the pause at the full twist is not timed.
FullTwistForever == Coast

FullTwistIsReached == Coast \o <<StartStopping>>

\* A new requested state is looked at only by Idle; the others drop it.
Calls(state, signal) ==
    CASE state = "MakingSureTheTrayIsHome" /\ signal = "SwitchLow" ->
            <<StopTimer("GeneralPurpose")>>
      [] state = "MakingSureTheTrayIsHome" /\ signal = "SwitchHigh" ->
            <<StartHomingTwist>>
      [] state = "JumpingOutOfHome" /\ signal = "SwitchLow" -> <<StartJumpOut>>
      [] state \in {"HomingReadyToLand", "HarvestReadyToLand"}
            /\ signal = "SwitchHigh" -> <<StartLanding>>
      [] state = "CheckingIfBucketIsFull" /\ signal = "SwitchHigh" ->
            FullBucketIsFound
      [] state = "StoppingAtFullTwist" /\ signal = "SwitchHigh" ->
            FullTwistIsReached
      [] state = "Untwisting" /\ signal = "SwitchHigh" ->
            <<TransitionTo("HarvestReadyToLand")>>
      [] state = "Idle" /\ signal = "Home" ->
            <<SetResult("Homing"), TransitionTo("MakingSureTheTrayIsHome")>>
      [] state = "Idle" /\ signal = "Run" ->
            <<SetResult("Harvesting"), TransitionTo("CheckingIfBucketIsFull")>>
      [] state = "Idle" /\ signal = "Off" -> <<SetResult("NoAction")>>
      [] OTHER -> <<>>

ExitCalls(state) ==
    CASE state \in HomingStates -> Coast \o <<StopTimer("GeneralPurpose")>>
      [] state = "HarvestReadyToLand" ->
            Coast \o <<ReportHarvest, StopTimer("GeneralPurpose")>>
      [] state \in {"CheckingIfBucketIsFull", "BucketWasFoundToBeFull",
                     "StoppingAtFullTwist"} -> <<StopTimer("GeneralPurpose")>>
      [] OTHER -> <<>>

\* Of the states the main loop makes a transition to (MainTargets).
EntryCalls(state, switch) ==
    CASE state = "MakingSureTheTrayIsHome" ->
            Turn("MotorUntwisting")
                \o (IF switch THEN <<StartHomingTwist>> ELSE <<>>)
      [] state = "CheckingIfBucketIsFull" ->
            Turn("MotorTwisting") \o <<StartFullBucketWait>>
      [] state = "BucketWasFoundToBeFull" -> Coast \o <<StartStopping>>
      [] state = "HarvestReadyToLand" ->
            Turn("MotorUntwisting")

\* The states the main loop makes a transition to.
MainTargets == {"MakingSureTheTrayIsHome", "CheckingIfBucketIsFull",
                "BucketWasFoundToBeFull", "HarvestReadyToLand"}

CallsOfHandlers ==
    {Output(m) : m \in MotorStates} \union {Remember(m) : m \in MotorStates}
    \union {Compare(m, LongMotorErrorTimeout) : m \in Moving}
    \union {StopTimer(t) : t \in Timers}
    \union {Start("MotorError", LongMotorErrorTimeout, "MotorTimeout"),
            StartHomingTwist, StartJumpOut, StartLanding, StartFullBucketWait,
            StartStopping, ReportHarvest}
    \union {SetResult(r) : r \in Results} \union {SetHarvestResult(r) : r \in Results}
    \union {TransitionTo(s) : s \in MainTargets} \union {Become(s) : s \in MainTargets}

\* What one call does to the controller ...
Do(c, k) ==
    CASE k.call = "Output" -> [c EXCEPT !.motor = k.motor]
      [] k.call = "Remember" -> [c EXCEPT !.lastMotor = k.motor]
      [] k.call = "Start" -> StartOneShot(c, k.timer, k.period, k.signal)
      [] k.call = "Stop" -> Stop(c, k.timer)
      [] k.call = "SetResult" -> [c EXCEPT !.result = k.result]
      [] k.call = "SetHarvestResult" -> [c EXCEPT !.harvestResult = k.result]
      [] k.call = "ReportHarvest" -> [c EXCEPT !.result = c.harvestResult]
      [] k.call = "Become" -> [c EXCEPT !.state = k.target]
      [] OTHER -> c

\* ... and what is then still to be called: a motor state that is new starts its
\* timer; Fsm_Transition runs the exit of the state that the machine is in at
\* that moment, then the entry of the new one.
Rest(c, k, rest) ==
    CASE k.call = "Compare" ->
            IF c.lastMotor = k.motor THEN rest
            ELSE <<Start("MotorError", k.timeout, "MotorTimeout")>> \o rest
      [] k.call = "TransitionTo" -> ExitCalls(c.state) \o <<Become(k.target)>>
      [] k.call = "Become" -> EntryCalls(k.target, c.switch)
      [] OTHER -> rest

-----------------------------------------------------------------------------
(***************************************************************************)
(* TwistTrayIceMakerMotorController_Run: timer 0 is the motor error timer, *)
(* timer 1 the general one.                                                *)
(***************************************************************************)
\* Mutant: a stopped timer is counted down too.
RunTimerCountsStopped(c, t) ==
    LET left == c.timer[t].left IN
    IF left = 1 THEN SendSignal(Stop(c, t), c.timer[t].signal)
    ELSE [c EXCEPT !.timer[t].left = left - 1]

RunTimer(c, t) ==
    LET left == c.timer[t].left IN
    CASE left > 1 -> [c EXCEPT !.timer[t].left = left - 1]
      [] left = 1 -> SendSignal(Stop(c, t), c.timer[t].signal)
      [] OTHER -> c

Run(c) == RunTimer(RunTimer(c, "MotorError"), "GeneralPurpose")
=============================================================================
