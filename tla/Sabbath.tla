------------------------------- MODULE Sabbath -------------------------------
(***************************************************************************)
(* The sabbath modes, as three units: the stages of the enhanced mode      *)
(* (EnhancedSabbathMode.c) with the clock of sabbath defrosts              *)
(* (SabbathReadyToDefrost.c) and what the defrost does with their ERDs;    *)
(* the delay of loads behind the compressor (SabbathDelayHandler.c); and   *)
(* the doors that are reported closed (SabbathInhibitDoors.c).             *)
(*                                                                         *)
(* ERDs publish synchronously, so a request for a defrost made in the      *)
(* entry of a stage starts the defrost, and ends the stage, inside that    *)
(* entry.  Temperatures are reduced to the speed they ask for.             *)
(***************************************************************************)
EXTENDS ControlUnits, Integers

CONSTANTS
    TimeBetweenSabbathDefrosts,     \* minutes, sabbathData
    MaxEnhancedSabbathTime          \* minutes, enhancedSabbathData

ASSUME SabbathAssumption ==
    TimeBetweenSabbathDefrosts \in Nat \ {0} /\ MaxEnhancedSabbathTime \in Nat \ {0}

Speeds == {"Off", "Low", "Medium"}
SabbathModeOn(s) == s.status \/ s.sabbath
WaitingForDefrost(s) == s.defrost \in {"Idle", "PostDwell"}

SabbathLoads == {"compressor", "condenser fan", "freezer fan"}
SabbathSetpoints == {"fresh food", "freezer"}

(* What the stages write: a speed for each load and a position for the     *)
(* damper (or no care), a set point for each compartment, the lights, the  *)
(* grid's override and the dispenser.                                      *)

SetSetpointVotesTo(s, vote) ==
    [s EXCEPT !.setpoints = [compartment \in SabbathSetpoints |-> vote]]

SetLightVotesTo(s, vote) == [s EXCEPT !.lights = vote]
SetGridOverrideTo(s, on) == [s EXCEPT !.gridOverride = on]
SetDispensingDisabledTo(s, on) == [s EXCEPT !.dispensingDisabled = on]
SetCoolingModeTo(s, mode) == [s EXCEPT !.coolingMode = mode]
SetDamperPositionVoteTo(s, vote) == [s EXCEPT !.damper = vote]
SetLoadVotesTo(s, vote) == [s EXCEPT !.loads = [load \in SabbathLoads |-> vote]]

SetAllLoadVotesToDontCare(s) ==
    SetDamperPositionVoteTo(SetLoadVotesTo(s, "DontCare"), "DontCare")

VoteCompressorFansAndDamperToOff(s) ==
    SetDamperPositionVoteTo(SetLoadVotesTo(s, "Off"), "Closed")

\* The votes of a stage that cools: VoteCompressorAndFansToLow or ToMedium.
VoteToCool(s, level, position) ==
    IF level = "Off" THEN VoteCompressorFansAndDamperToOff(s)
    ELSE SetDamperPositionVoteTo(SetLoadVotesTo(s, level), position)

StartStageTimer(s) == [s EXCEPT !.timed = TRUE]
StopAllTimers(s) == [s EXCEPT !.running = FALSE, !.timed = FALSE]

-----------------------------------------------------------------------------
(* Entries of the stages.  level is the speed the average temperature asks *)
(* for: Off below the low-speed hysteresis, then Low, then Medium.         *)

EnterDisabledMode(s) ==
    LET v == SetSetpointVotesTo(SetAllLoadVotesToDontCare(s), "DontCare")
        g == SetDispensingDisabledTo(SetGridOverrideTo(v, FALSE), FALSE) IN
    [SetLightVotesTo(g, "DontCare") EXCEPT !.mode = "Disabled", !.minutes = 0]

\* State_Enabled: its exit stops both timers.
EnterEnabledMode(s) ==
    LET v == SetSetpointVotesTo(s, "Sabbath")
        g == SetGridOverrideTo(SetDispensingDisabledTo(v, TRUE), TRUE) IN
    [SetLightVotesTo(g, "Sabbath") EXCEPT !.running = TRUE]

EnterFreshFoodStage(s, level) ==
    LET c == SetCoolingModeTo(StartStageTimer(s), "FreshFood") IN
    [VoteToCool(c, level, "Open")
        EXCEPT !.mode = "FreshFood", !.freshFoodCooling = level # "Off"]

EnterDefrostingStage(s) == [s EXCEPT !.mode = "Defrosting", !.requesting = FALSE]

EnterOffStage(s) ==
    LET c == SetCoolingModeTo(StartStageTimer(s), "Off") IN
    [VoteCompressorFansAndDamperToOff(c) EXCEPT !.mode = "Off"]

-----------------------------------------------------------------------------
(* The clock of sabbath defrosts and the defrost itself.                   *)

\* Mutant: the flag of before the defrost is kept.
SabbathClockStartsReady(s) == [s EXCEPT !.waited = 0]

\* SabbathReadyToDefrost: the exit of State_Defrosting and the entry of
\* State_WaitingToDefrost.
SabbathClockStarts(s) == [s EXCEPT !.waited = 0, !.ready = FALSE]

\* The defrost leaves Idle: waitingToDefrost falls, then defrosting rises.
DefrostStarts(s) ==
    LET d == [s EXCEPT !.defrost = "Heating"] IN
    IF s.mode = "Freezer" THEN EnterDefrostingStage(d) ELSE d

\* State_Idle of the defrost on a signal of the sabbath modes.
DefrostHearsSabbath(s) ==
    IF /\ s.defrost = "Idle" /\ s.ready /\ SabbathModeOn(s)
       /\ s.status => s.requesting
    THEN DefrostStarts(s) ELSE s

RequestSabbathDefrost(s) ==
    IF s.requesting THEN s ELSE DefrostHearsSabbath([s EXCEPT !.requesting = TRUE])

EnterFreezerStage(s, level) ==
    LET c == SetCoolingModeTo(StartStageTimer(s), "Freezer")
        f == [VoteToCool(c, level, "Closed")
                EXCEPT !.mode = "Freezer", !.freezerCooling = level # "Off"] IN
    IF level = "Off" /\ s.ready THEN RequestSabbathDefrost(f) ELSE f

\* Signal_EnhancedSabbathModeEnabled, also what InitialState chooses.
EnableEnhancedMode(s, level) ==
    IF s.mode # "Disabled" THEN s
    ELSE IF WaitingForDefrost(s) THEN EnterFreshFoodStage(EnterEnabledMode(s), level)
    ELSE IF s.defrost = "Heating" THEN EnterDefrostingStage(EnterEnabledMode(s))
    ELSE s

\* Signal_EnhancedSabbathModeDisabled: the regular mode ends as well.
DisableEnhancedMode(s) ==
    IF s.mode = "Disabled" THEN s
    ELSE EnterDisabledMode(StopAllTimers([s EXCEPT !.sabbath = FALSE]))

-----------------------------------------------------------------------------
EnhancedSabbathInit ==
    /\ unit = "enhanced sabbath"
    /\ \E status, sabbath \in BOOLEAN, defrost \in {"Idle", "Heating", "Disabled"},
          waited \in 0..TimeBetweenSabbathDefrosts, level \in Speeds :
        LET s == [mode |-> "Disabled", status |-> status, sabbath |-> sabbath,
                  loads |-> [load \in SabbathLoads |-> "DontCare"],
                  damper |-> "DontCare", lights |-> "DontCare",
                  setpoints |-> [compartment \in SabbathSetpoints |-> "DontCare"],
                  gridOverride |-> FALSE, dispensingDisabled |-> FALSE,
                  coolingMode |-> "Off", timed |-> FALSE,
                  running |-> FALSE, minutes |-> 0, requesting |-> FALSE,
                  freshFoodCooling |-> FALSE, freezerCooling |-> FALSE, defrost |-> defrost, waited |-> waited,
                  ready |-> defrost = "Idle" /\ waited >= TimeBetweenSabbathDefrosts] IN
        st = IF status /\ defrost # "Disabled" THEN EnableEnhancedMode(s, level)
             ELSE EnterDisabledMode(s)

\* The defrost subscribed before the enhanced mode, so it reacts first.
EnhancedStatusChanges(level) ==
    /\ Runs("enhanced sabbath")
    /\ st' = IF st.status THEN DisableEnhancedMode([st EXCEPT !.status = FALSE])
             ELSE EnableEnhancedMode(DefrostHearsSabbath([st EXCEPT !.status = TRUE]), level)

RegularStatusChanges ==
    /\ Runs("enhanced sabbath")
    /\ st' = IF st.sabbath THEN [st EXCEPT !.sabbath = FALSE]
             ELSE DefrostHearsSabbath([st EXCEPT !.sabbath = TRUE])

StageTimerExpires(level) ==
    /\ Runs("enhanced sabbath") /\ st.timed
    /\ st' = LET s == [st EXCEPT !.timed = FALSE] IN
             CASE s.mode = "FreshFood" -> EnterFreezerStage(s, level)
               [] s.mode = "Freezer" /\ s.ready -> RequestSabbathDefrost(s)
               [] s.mode = "Freezer" /\ ~s.ready -> EnterOffStage(s)
               [] s.mode = "Off" -> EnterFreshFoodStage(s, level)
               [] OTHER -> s

RunTimeMinute ==
    /\ Runs("enhanced sabbath") /\ st.running
    /\ st' = LET s == [st EXCEPT !.minutes = @ + 1] IN
             IF s.minutes >= MaxEnhancedSabbathTime THEN DisableEnhancedMode(s) ELSE s

\* OneMinuteTimerExpired; when the time is up, the sabbath mode (a request in
\* a freezer stage that does not cool) and the defrost hear of it.  The rest
\* after a defrost is shorter than the time between two of them.
SabbathClockMinute ==
    /\ Runs("enhanced sabbath") /\ WaitingForDefrost(st)
    /\ st.waited < TimeBetweenSabbathDefrosts
    /\ st.defrost = "PostDwell" => st.waited + 1 < TimeBetweenSabbathDefrosts
    /\ LET s == [st EXCEPT !.waited = @ + 1,
                           !.ready = @ \/ st.waited + 1 >= TimeBetweenSabbathDefrosts] IN
       st' = IF s.ready = st.ready THEN s
             ELSE LET d == DefrostHearsSabbath(s) IN
                  IF d.mode = "Freezer" /\ ~d.freezerCooling THEN RequestSabbathDefrost(d) ELSE d

\* A defrost that is due without a sabbath mode.
OrdinaryDefrostStarts ==
    /\ Runs("enhanced sabbath") /\ st.defrost = "Idle" /\ ~SabbathModeOn(st)
    /\ st' = DefrostStarts(st)

\* The defrost ends, or is enabled again: waitingToDefrost rises.
DefrostWaitsAgain(level) ==
    /\ Runs("enhanced sabbath") /\ ~WaitingForDefrost(st)
    /\ LET s == SabbathClockStarts(
                  [st EXCEPT !.defrost = IF @ = "Heating" THEN "PostDwell" ELSE "Idle"]) IN
       st' = IF s.mode = "Defrosting" THEN EnterFreshFoodStage(s, level) ELSE s

PostDwellEnds ==
    /\ Runs("enhanced sabbath") /\ st.defrost = "PostDwell"
    /\ st' = [st EXCEPT !.defrost = "Idle"]

CoolingOffDisablesTheDefrost ==
    /\ Runs("enhanced sabbath") /\ st.defrost # "Disabled"
    /\ st' = [st EXCEPT !.defrost = "Disabled"]

EnhancedSabbathNext ==
    \/ RegularStatusChanges \/ RunTimeMinute \/ SabbathClockMinute
    \/ OrdinaryDefrostStarts \/ PostDwellEnds \/ CoolingOffDisablesTheDefrost
    \/ \E level \in Speeds : \/ EnhancedStatusChanges(level) \/ StageTimerExpires(level)
                             \/ DefrostWaitsAgain(level)

\* A stage always has a way on: its timer, or a request for a defrost that an
\* idle defrost has not passed over.  The request is written once, and the
\* defrost looks at it only when one of three ERDs changes.
EnhancedSabbathNeverStalls ==
    unit = "enhanced sabbath" =>
        /\ st.mode \in {"FreshFood", "Off"} => st.timed
        /\ st.mode = "Freezer" => st.timed \/ st.requesting
        /\ st.requesting /\ st.status /\ st.defrost = "Idle" => ~st.ready
        /\ st.damper = "Open" => st.loads["compressor"] \notin {"DontCare", "Off"}

-----------------------------------------------------------------------------
(* SabbathDelayHandler: with a sabbath mode on, a load follows the         *)
(* compressor's start only after a delay.                                  *)

SabbathDelayInit ==
    /\ unit = "sabbath delay"
    /\ \E compressor, load, active \in BOOLEAN :
        st = [compressor |-> compressor, load |-> load, delayed |-> load,
              active |-> active, timer |-> FALSE]

SabbathDelayModeChanges ==
    /\ Runs("sabbath delay") /\ st' = [st EXCEPT !.active = ~@]

\* A vote that starts the compressor holds back the load's later votes, also
\* when the compressor stops again before the delay is over.
CompressorVoteChanges ==
    /\ Runs("sabbath delay")
    /\ st' = [st EXCEPT !.compressor = ~@,
                        !.timer = @ \/ (~st.compressor /\ st.active)]

\* Mutant: a vote during the delay is dropped with the timer's restart.
LoadVoteChangesOnlyWhenActive ==
    /\ Runs("sabbath delay")
    /\ st' = [st EXCEPT !.load = ~@, !.delayed = IF st.active THEN @ ELSE ~st.load]

LoadVoteChanges ==
    /\ Runs("sabbath delay")
    /\ st' = [st EXCEPT !.load = ~@, !.delayed = IF st.timer THEN @ ELSE ~st.load]

SabbathDelayEnds ==
    /\ Runs("sabbath delay") /\ st.timer
    /\ st' = [st EXCEPT !.timer = FALSE, !.delayed = st.load]

SabbathDelayNext ==
    SabbathDelayModeChanges \/ CompressorVoteChanges \/ LoadVoteChanges \/ SabbathDelayEnds

\* Once no delay runs, the load has the vote that was resolved for it: none
\* is lost in the delay, whatever the mode and the compressor did meanwhile.
NoLoadVoteIsLostInTheDelay ==
    unit = "sabbath delay" /\ ~st.timer => st.delayed = st.load

-----------------------------------------------------------------------------
(* SabbathInhibitDoors: the doors' override requests and the pin that      *)
(* grounds the door switches.                                              *)

InhibitDoorsInSabbathMode(s) ==
    IF SabbathModeOn(s) THEN [s EXCEPT !.overridden = TRUE, !.gpio = FALSE]
    ELSE [s EXCEPT !.gpio = TRUE, !.timer = TRUE]

SabbathDoorsInit ==
    /\ unit = "sabbath doors"
    /\ \E status, sabbath \in BOOLEAN :
        st = InhibitDoorsInSabbathMode(
               [status |-> status, sabbath |-> sabbath, overridden |-> FALSE,
                gpio |-> FALSE, timer |-> FALSE])

SabbathDoorsModeChanges ==
    /\ Runs("sabbath doors")
    /\ \/ st' = InhibitDoorsInSabbathMode([st EXCEPT !.status = ~@])
       \/ st' = InhibitDoorsInSabbathMode([st EXCEPT !.sabbath = ~@])

ClearOverrideRequests ==
    /\ Runs("sabbath doors") /\ st.timer
    /\ st' = [st EXCEPT !.timer = FALSE, !.overridden = FALSE]

SabbathDoorsNext == SabbathDoorsModeChanges \/ ClearOverrideRequests

\* In a sabbath mode every door is reported closed.
SabbathDoorsStayOverridden ==
    unit = "sabbath doors" /\ SabbathModeOn(st) => st.overridden

SabbathInit == EnhancedSabbathInit \/ SabbathDelayInit \/ SabbathDoorsInit
SabbathNext == EnhancedSabbathNext \/ SabbathDelayNext \/ SabbathDoorsNext

\* EnhancedSabbathMode.c and SabbathDelayHandler.c: neither the cycle of the
\* modes nor the delay of the loads stops for want of an event.
SabbathGoesOn == EnhancedSabbathNeverStalls /\ NoLoadVoteIsLostInTheDelay
=============================================================================
