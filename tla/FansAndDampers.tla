---------------------------- MODULE FansAndDampers ----------------------------
(***************************************************************************)
(* A fan from its resolved vote to its PWM (FanSpeedResolver.c,            *)
(* FanController.c), its faults (FanFaultHandler.c) and the vote against   *)
(* sweat on the condenser (CondenserFanAntiSweatBehavior.c); and what      *)
(* keeps a damper free of ice (DamperFreezePrevention.c,                   *)
(* PeriodicDamperCycling.c, DamperHeaterDefrostControl.c).  One unit each. *)
(***************************************************************************)
EXTENDS ControlUnits, Integers

CONSTANTS
    FanFaultTimeout,    \* checks until a fault is reported, fanData
    CheckCap            \* bound on the counted checks

ASSUME FansAssumption == FanFaultTimeout \in Nat \ {0} /\ CheckCap \in Nat

-----------------------------------------------------------------------------
(* Resolver and controller.  A control is the entry of the parametric data *)
(* that is chosen: its speed with the mode and zone it was written for.    *)
(* In the data an entry is a duty cycle or a speed in rpm; RpmSpeeds are   *)
(* the entries in rpm, "Custom" a vote that is itself a number of rpm.     *)

FanModes == {"FreshFood", "Freezer", "Convertible"}
SetpointZones == {"Cold", "Warm"}
FanSpeeds == {"Off", "Low", "High", "Custom"}
RpmSpeeds == {"High", "Custom"}

\* The low speed of fresh food cooling has one entry for all zones.
FanControlFromCoolingModeAndFreezerSetpoint(s) ==
    IF s.mode = "FreshFood" THEN <<"Low", s.mode>> ELSE <<"Low", s.mode, s.zone>>

CoolingModeFanSpeedWithSetpoint(s) ==
    CASE s.vote = "Low" -> FanControlFromCoolingModeAndFreezerSetpoint(s)
      [] s.vote = "High" -> <<"High", s.mode>>
      [] s.vote = "Off" -> <<"Off">>

\* Every other mode runs the fan as freezer cooling does.
CoolingModeFanSpeedWithoutSetpoint(s) ==
    CASE s.vote # "Off" -> <<s.vote, IF s.mode = "FreshFood" THEN "FreshFood" ELSE "Freezer">>
      [] s.vote = "Off" -> <<"Off">>

VotedSpeedIsCustomSpeedInRpm(s) == s.vote = "Custom"

FanControlFor(s) ==
    CASE VotedSpeedIsCustomSpeedInRpm(s) \/ ~s.cares -> <<s.vote>>
      [] ~VotedSpeedIsCustomSpeedInRpm(s) /\ s.cares /\ s.setpoint -> CoolingModeFanSpeedWithSetpoint(s)
      [] ~VotedSpeedIsCustomSpeedInRpm(s) /\ s.cares /\ ~s.setpoint -> CoolingModeFanSpeedWithoutSetpoint(s)

IsRpm(control) == control[1] \in RpmSpeeds

\* UpdatePwm.  pid is fresh when nothing has run through the PID controller.
UpdatePwm(s) ==
    [s EXCEPT !.pid = CASE IsRpm(s.control) -> "used"
                        [] ~IsRpm(s.control) /\ s.previousIsRpm -> "fresh"
                        [] OTHER -> @,
              !.previousIsRpm = IsRpm(s.control),
              !.pwm = s.control]

\* Mutant: the periodic update goes on behind a duty cycle.
RunFanWithTimer(s) == UpdatePwm([s EXCEPT !.pwmTimer = @ \/ IsRpm(s.control)])

RunFanBasedOnFanControlType(s) == UpdatePwm([s EXCEPT !.pwmTimer = IsRpm(s.control)])

\* Mutant: a new cooling mode is only taken up with the next vote.
CalculateFanControlOnVote(s) ==
    IF s.mode # st.mode THEN s
    ELSE RunFanBasedOnFanControlType([s EXCEPT !.control = FanControlFor(s)])

\* DataModelChanged, CalculateResolvedFanSpeedBasedOnDependence: the request
\* is published to the controller when it changes.
CalculateFanControl(s) ==
    IF FanControlFor(s) = s.control THEN s
    ELSE RunFanBasedOnFanControlType([s EXCEPT !.control = FanControlFor(s)])

FanInit ==
    /\ unit = "fan"
    /\ \E cares, setpoint \in BOOLEAN, mode \in FanModes, zone \in SetpointZones :
        st = RunFanBasedOnFanControlType(
               [vote |-> "Off", mode |-> mode, zone |-> zone, cares |-> cares,
                setpoint |-> setpoint, control |-> <<"Off">>, pwm |-> <<"Off">>,
                pwmTimer |-> FALSE, pid |-> "fresh", previousIsRpm |-> FALSE])

FanInputsChange ==
    /\ Runs("fan")
    /\ \E s \in {[st EXCEPT !.vote = v] : v \in FanSpeeds}
                 \union {[st EXCEPT !.mode = m] : m \in FanModes}
                 \union {[st EXCEPT !.zone = z] : z \in SetpointZones} :
        st' = CalculateFanControl(s)

PwmPeriodEnds ==
    /\ Runs("fan") /\ st.pwmTimer
    /\ st' = UpdatePwm(st)

\* The fan always runs on the entry for the vote, mode and zone of now, and
\* speed control begins with a controller that remembers nothing of an
\* earlier run.
FanIsDrivenFresh ==
    unit = "fan" =>
        /\ st.pwm = FanControlFor(st)
        /\ st.pwmTimer <=> IsRpm(st.control)
        /\ ~IsRpm(st.control) => st.pid = "fresh"

-----------------------------------------------------------------------------
(* FanFaultHandler: one check a minute of the control, the feedback and    *)
(* the PWM, which is low below 95 %.  deaf, loud and strained count, for   *)
(* the property, the checks that really saw the fan's failure without      *)
(* anything in between that speaks against it.                             *)

FaultControls == {<<"Duty", 0>>, <<"Duty", 50>>, <<"Rpm", 50>>, <<"Rpm", 90>>}
CountCheck(n) == IF n < CheckCap THEN n + 1 ELSE n

CheckMissingFeedbackWhenOn(s) ==
    CASE s.control[1] = "Rpm" /\ s.feedback = 0 ->
            [s EXCEPT !.missing = CountCheck(@),
                      !.missingFault = @ \/ CountCheck(s.missing) >= FanFaultTimeout]
      [] s.control[1] = "Rpm" /\ s.feedback > 0 ->
            [s EXCEPT !.missing = 0, !.missingFault = FALSE]
      [] s.control[1] = "Duty" -> [s EXCEPT !.missing = 0]

CheckFeedbackPresentWhenOff(s) ==
    CASE s.control[1] = "Rpm" -> [s EXCEPT !.present = 0]
      [] s.control = <<"Duty", 0>> /\ s.feedback > 0 ->
            [s EXCEPT !.present = CountCheck(@),
                      !.presentFault = @ \/ CountCheck(s.present) >= FanFaultTimeout]
      [] s.control = <<"Duty", 0>> /\ s.feedback = 0 ->
            [s EXCEPT !.present = 0, !.presentFault = FALSE]
      [] OTHER -> s

\* Mutant: a new target inherits the time of the old one.
CheckCannotReachTargetRpmOfAnyTarget(s) ==
    CASE s.control[1] = "Rpm" /\ s.pwm = "max" ->
            [s EXCEPT !.target = CountCheck(@),
                      !.targetFault = @ \/ CountCheck(s.target) >= FanFaultTimeout]
      [] s.control[1] = "Rpm" /\ s.pwm = "low" -> [s EXCEPT !.target = 0, !.targetFault = FALSE]
      [] OTHER -> s

CheckCannotReachTargetRpm(s) ==
    LET c == CASE s.control[1] = "Rpm" /\ s.pwm = "max" ->
                     [s EXCEPT !.target = CountCheck(@),
                               !.targetFault = @ \/ CountCheck(s.target) >= FanFaultTimeout]
               [] s.control[1] = "Rpm" /\ s.pwm = "low" ->
                     [s EXCEPT !.target = 0, !.targetFault = FALSE]
               [] OTHER -> s
    IN IF s.control = s.previous THEN c
       ELSE [c EXCEPT !.target = 0, !.targetFault = FALSE, !.previous = s.control]

FanFaultInit ==
    /\ unit = "fan fault"
    /\ \E control \in FaultControls :
        st = [control |-> control, previous |-> control, feedback |-> 0, pwm |-> "low",
              missing |-> 0, present |-> 0, target |-> 0, missingFault |-> FALSE,
              presentFault |-> FALSE, targetFault |-> FALSE,
              deaf |-> 0, loud |-> 0, strained |-> 0]

FanFaultInputsChange ==
    /\ Runs("fan fault")
    /\ \E s \in {[st EXCEPT !.control = c] : c \in FaultControls \ {st.control}}
                 \union {[st EXCEPT !.feedback = 1 - @]}
                 \union {[st EXCEPT !.pwm = p] : p \in {"low", "between", "max"}} :
        st' = s

OneMinutePeriodicCheck ==
    /\ Runs("fan fault")
    /\ LET rpm == st.control[1] = "Rpm"
           s == [st EXCEPT
                  !.deaf = IF ~rpm THEN 0 ELSE IF st.feedback = 0 THEN CountCheck(@) ELSE 0,
                  !.loud = CASE rpm \/ (st.control = <<"Duty", 0>> /\ st.feedback = 0) -> 0
                             [] st.control = <<"Duty", 0>> /\ st.feedback > 0 -> CountCheck(@)
                             [] OTHER -> @,
                  !.strained = CASE ~rpm \/ st.pwm = "low" \/ st.control # st.previous -> 0
                                 [] rpm /\ st.pwm = "max" /\ st.control = st.previous -> CountCheck(@)
                                 [] OTHER -> @] IN
       st' = CheckCannotReachTargetRpm(CheckFeedbackPresentWhenOff(CheckMissingFeedbackWhenOn(s)))

\* No fan is reported before its failure has lasted: the counters never run
\* ahead of what the checks saw, and a fan that cannot reach its target is
\* judged on the target it has now.
FanFaultsAreEarned ==
    unit = "fan fault" =>
        /\ st.missing <= st.deaf /\ st.present <= st.loud /\ st.target <= st.strained
        /\ st.targetFault => st.strained >= FanFaultTimeout

-----------------------------------------------------------------------------
(* CondenserFanAntiSweatBehavior.                                          *)

AntiSweatVote(s) ==
    IF s.humid /\ s.valid /\ s.enabled
    THEN <<"Care", s.warm, s.freshFood>> ELSE <<"DontCare">>

AntiSweatInit ==
    /\ unit = "anti sweat"
    /\ \E humid, valid, enabled, warm, freshFood \in BOOLEAN :
        LET s == [humid |-> humid, valid |-> valid, enabled |-> enabled,
                  warm |-> warm, freshFood |-> freshFood, vote |-> <<"DontCare">>] IN
        st = [s EXCEPT !.vote = AntiSweatVote(s)]

\* Mutant: the loss of a sensor is not looked at.
AntiSweatInputChangesExceptValidity ==
    /\ Runs("anti sweat")
    /\ \E f \in {"humid", "valid", "enabled", "warm", "freshFood"} :
        LET s == [st EXCEPT ![f] = ~@] IN
        st' = IF f = "valid" THEN s ELSE [s EXCEPT !.vote = AntiSweatVote(s)]

AntiSweatInputChanges ==
    /\ Runs("anti sweat")
    /\ \E f \in {"humid", "valid", "enabled", "warm", "freshFood"} :
        LET s == [st EXCEPT ![f] = ~@] IN st' = [s EXCEPT !.vote = AntiSweatVote(s)]

-----------------------------------------------------------------------------
(* DamperFreezePrevention: a damper that does not change the temperature   *)
(* behind it is heated and then cycled.  The exits stop no timer.          *)

ReadyToMonitor(s) == s.target /\ s.source /\ s.coldEnough

EnterMonitoring(s) == [s EXCEPT !.state = "Monitoring", !.timer = "change"]
EnterDamperHeaterOn(s) == [s EXCEPT !.state = "HeaterOn", !.timer = "heater", !.heater = TRUE]
EnterFreezeIdle(s) == [s EXCEPT !.state = "Idle"]

FreezeReadingSignal(s) ==
    CASE s.state = "Idle" /\ ReadyToMonitor(s) -> EnterMonitoring(s)
      [] s.state = "Monitoring" /\ ~ReadyToMonitor(s) -> EnterFreezeIdle(s)
      [] OTHER -> s

FreezeInit ==
    /\ unit = "damper freeze"
    /\ \E target, source, coldEnough \in BOOLEAN :
        LET s == [target |-> target, source |-> source, coldEnough |-> coldEnough,
                  state |-> "Idle", timer |-> "none", heater |-> FALSE, cycle |-> FALSE] IN
        st = IF ReadyToMonitor(s) THEN EnterMonitoring(s) ELSE s

FreezeReadingsChange ==
    /\ Runs("damper freeze")
    /\ \E f \in {"target", "source", "coldEnough"} :
        st' = FreezeReadingSignal([st EXCEPT ![f] = ~@])

DamperPositionIsHeard ==
    /\ Runs("damper freeze")
    /\ st' = IF st.state = "Monitoring" THEN EnterMonitoring(st) ELSE st

\* The timer of an abandoned watch expires unheard in State_Idle.
FreezeTimerExpires ==
    /\ Runs("damper freeze") /\ st.timer # "none"
    /\ LET s == [st EXCEPT !.timer = "none"]
           h == [s EXCEPT !.heater = FALSE, !.cycle = TRUE] IN
       CASE st.timer = "change" /\ st.state = "Monitoring" ->
                st' = EnterDamperHeaterOn(s) \/ st' = EnterMonitoring(s)
         [] st.timer = "heater" /\ st.state = "HeaterOn" ->
                st' = IF ReadyToMonitor(h) THEN EnterMonitoring(h) ELSE EnterFreezeIdle(h)
         [] OTHER -> st' = s

FullCycleIsDone ==
    /\ Runs("damper freeze") /\ st.cycle /\ st' = [st EXCEPT !.cycle = FALSE]

-----------------------------------------------------------------------------
(* PeriodicDamperCycling, with the full cycle of DamperRequestManager seen *)
(* from the position ERD: the position changes, ends closed, and the       *)
(* request is taken back with it.                                          *)

MaxDamperTimeCheck(s) == [s EXCEPT !.timer = s.limited[s.position]]

DamperCyclingInit ==
    /\ unit = "damper cycling"
    /\ \E limited \in [{"Open", "Closed"} -> BOOLEAN], position \in {"Open", "Closed"} :
        st = MaxDamperTimeCheck([position |-> position, limited |-> limited,
                                 request |-> FALSE, timer |-> FALSE])

CyclingDamperMoves ==
    /\ Runs("damper cycling")
    /\ LET s == MaxDamperTimeCheck([st EXCEPT !.position = IF @ = "Open" THEN "Closed" ELSE "Open"])
       IN \/ st' = s
          \/ st.request /\ s.position = "Closed" /\ st' = [s EXCEPT !.request = FALSE]

MaxDamperTimerExpired ==
    /\ Runs("damper cycling") /\ st.timer
    /\ st' = [st EXCEPT !.timer = FALSE, !.request = TRUE]

-----------------------------------------------------------------------------
(* DamperHeaterDefrostControl: the damper's heater follows the defrost     *)
(* heater, or runs for a time of its own.                                  *)

\* Mutant: a defrost heater that is no longer voted for is still followed.
DefrostHeaterVoteChangedKeepsListening(s) ==
    CASE s.follows /\ s.care -> [s EXCEPT !.sync = s.on, !.listens = TRUE]
      [] ~s.follows /\ s.care /\ s.votedOn -> [s EXCEPT !.sync = TRUE, !.timer = TRUE]
      [] OTHER -> s

DefrostHeaterVoteChanged(s) ==
    CASE s.follows /\ s.care -> [s EXCEPT !.sync = s.on, !.listens = TRUE]
      [] s.follows /\ ~s.care -> [s EXCEPT !.sync = FALSE, !.listens = FALSE]
      [] ~s.follows /\ s.care /\ s.votedOn -> [s EXCEPT !.sync = TRUE, !.timer = TRUE]
      [] OTHER -> s

DamperHeaterInit ==
    /\ unit = "damper heater"
    /\ \E follows \in BOOLEAN :
        st = [follows |-> follows, care |-> FALSE, votedOn |-> FALSE, on |-> FALSE,
              listens |-> FALSE, sync |-> FALSE, timer |-> FALSE]

DefrostHeaterVotes ==
    /\ Runs("damper heater")
    /\ \E care, votedOn \in BOOLEAN :
        /\ <<care, votedOn>> # <<st.care, st.votedOn>>
        /\ st' = DefrostHeaterVoteChanged([st EXCEPT !.care = care, !.votedOn = votedOn])

DefrostHeaterSwitches ==
    /\ Runs("damper heater")
    /\ st' = [st EXCEPT !.on = ~@, !.sync = IF st.listens THEN ~st.on ELSE @]

DamperHeaterTimeEnds ==
    /\ Runs("damper heater") /\ st.timer
    /\ st' = [st EXCEPT !.timer = FALSE, !.sync = FALSE]

\* No heater and no fan is left running by a reading, a sensor, a vote or a
\* timer that somebody else has taken over; and a damper is watched whenever
\* its readings allow it and moved before it has rested too long.
IceGuardsLetGo ==
    /\ unit = "damper freeze" =>
        /\ st.heater <=> st.state = "HeaterOn"
        /\ st.state = "HeaterOn" => st.timer = "heater"
        /\ st.state = "Monitoring" => st.timer = "change" /\ ReadyToMonitor(st)
        /\ st.state = "Idle" => ~ReadyToMonitor(st)
    /\ unit = "damper cycling" /\ st.limited[st.position] => st.timer \/ st.request
    /\ unit = "damper heater" /\ st.sync =>
        IF st.follows THEN st.care /\ st.on ELSE st.timer
    /\ unit = "anti sweat" => st.vote = AntiSweatVote(st)

-----------------------------------------------------------------------------
FansAndDampersInit ==
    \/ FanInit \/ FanFaultInit \/ AntiSweatInit
    \/ FreezeInit \/ DamperCyclingInit \/ DamperHeaterInit

FansAndDampersNext ==
    \/ FanInputsChange \/ PwmPeriodEnds
    \/ FanFaultInputsChange \/ OneMinutePeriodicCheck
    \/ AntiSweatInputChanges
    \/ FreezeReadingsChange \/ DamperPositionIsHeard \/ FreezeTimerExpires \/ FullCycleIsDone
    \/ CyclingDamperMoves \/ MaxDamperTimerExpired
    \/ DefrostHeaterVotes \/ DefrostHeaterSwitches \/ DamperHeaterTimeEnds

\* Fans are driven by the votes and readings of the moment, their faults are
\* earned minute by minute, and the guards against ice and sweat let go of
\* what they hold.
AirPathIsInStep == FanIsDrivenFresh /\ FanFaultsAreEarned /\ IceGuardsLetGo
=============================================================================
