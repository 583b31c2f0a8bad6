--------------------------- MODULE CoolingPolicies ---------------------------
(***************************************************************************)
(* Small state machines around the cooling system, one unit each: the time *)
(* that prechill conditions are met, the monitor of a cabinet that is too  *)
(* warm, the cycle defrost without a heater, the loads that rest while a   *)
(* door is open, the freezer's ice rate and the harvest count.             *)
(***************************************************************************)
EXTENDS ControlUnits, Integers

CONSTANTS
    PolicyDoors,
    PrechillTimeCap,    \* UINT16_MAX minutes
    OpenTimeout,        \* timeoutInSeconds > 0 of the loads' data
    IceRateSpeed,       \* freezerEvaporatorFanSpeed of the ice rate
    StartIntegration, FreezeInitiation,     \* temperatures of the harvest count
    MinimumFreezeTime, TargetIntegration, IntegrationCap

ASSUME CoolingPoliciesAssumption ==
    /\ OpenTimeout \in BOOLEAN /\ IceRateSpeed \in 0..3
    /\ {PrechillTimeCap, StartIntegration, FreezeInitiation, MinimumFreezeTime,
        TargetIntegration, IntegrationCap} \subseteq Nat
    /\ MinimumFreezeTime > 0 /\ TargetIntegration <= IntegrationCap

Toggled(S, e) == IF e \in S THEN S \ {e} ELSE S \union {e}

-----------------------------------------------------------------------------
(* TimeThatPrechillConditionsAreMet.  The cooling mode, seen from the      *)
(* convertible compartment's state, is either the one to prechill or not.  *)

CoolingModes == {"FreshFood", "Freezer", "Convertible", "Off"}

PrechillConditions(s) ==
    /\ s.compressor
    /\ s.mode = IF s.evaporators = 3 /\ s.actsAsFreezer THEN "Convertible" ELSE "Freezer"

\* Signals of the compressor, the mode and the convertible compartment: the
\* exit of State_Count stops the minutes, the entry of State_Stop resets them.
PrechillSignal(s) ==
    IF PrechillConditions(s) THEN [s EXCEPT !.counting = TRUE]
    ELSE [s EXCEPT !.counting = FALSE, !.time = IF s.counting THEN 0 ELSE @]

PrechillTimeInit ==
    /\ unit = "prechill time"
    /\ \E compressor, acts \in BOOLEAN, mode \in CoolingModes, n \in 1..3 :
        st = PrechillSignal([compressor |-> compressor, mode |-> mode, evaporators |-> n,
                             actsAsFreezer |-> acts, counting |-> TRUE, time |-> 0, met |-> 0])

\* met counts the whole minutes for which the conditions have been met.
PrechillMinute ==
    /\ Runs("prechill time") /\ st.met <= PrechillTimeCap
    /\ st' = [st EXCEPT !.met = IF PrechillConditions(st) THEN @ + 1 ELSE @,
                        !.time = IF st.counting /\ @ < PrechillTimeCap THEN @ + 1 ELSE @]

\* Mutant: a convertible compartment that changes sides is not looked at.
PrechillInputChangesButNotSides ==
    /\ Runs("prechill time")
    /\ \E s \in {[st EXCEPT !.compressor = ~@], [st EXCEPT !.actsAsFreezer = ~@]}
                 \union {[st EXCEPT !.mode = m] : m \in CoolingModes \ {st.mode}} :
        LET n == [s EXCEPT !.met = IF PrechillConditions(s) /\ PrechillConditions(st) THEN @ ELSE 0]
        IN st' = IF s.actsAsFreezer = st.actsAsFreezer THEN PrechillSignal(n) ELSE n

PrechillInputChanges ==
    /\ Runs("prechill time")
    /\ \E s \in {[st EXCEPT !.compressor = ~@], [st EXCEPT !.actsAsFreezer = ~@]}
                 \union {[st EXCEPT !.mode = m] : m \in CoolingModes \ {st.mode}} :
        st' = PrechillSignal(
                [s EXCEPT !.met = IF PrechillConditions(s) /\ PrechillConditions(st) THEN @ ELSE 0])

\* The time that shortens a prechill is the time the conditions have really
\* been met without a break, up to the counter's limit.
PrechillTimeIsUnbroken ==
    unit = "prechill time" =>
        st.time = (IF st.met < PrechillTimeCap THEN st.met ELSE PrechillTimeCap)

-----------------------------------------------------------------------------
(* CabinetTemperatureExceededMonitor: two machines and a timer that is the *)
(* power-up timer first and the door timer later.                          *)

TooWarm(s) == s.temperature = "high" /\ s.valid
ExceededConditions(s) == TooWarm(s) /\ s.doors = "ClosedLong" /\ s.defrost = "IdleLong"

SetExceeded(s) == IF ExceededConditions(s) THEN [s EXCEPT !.fault = TRUE] ELSE s

\* MinimumTimeSincePowerOnComplete starts both machines and subscribes.
StartExceededMachines(s) ==
    [s EXCEPT !.doors = IF s.open = {} THEN "Closed" ELSE "Open",
              !.doorTimer = s.open = {},
              !.defrost = IF s.idle THEN "Idle" ELSE "NotIdle",
              !.defrostTimer = s.idle]

ExceededDoorSignal(s) ==
    CASE s.open = {} /\ s.doors = "Open" -> [s EXCEPT !.doors = "Closed", !.doorTimer = TRUE]
      [] s.open # {} /\ s.doors # "Open" -> [s EXCEPT !.doors = "Open", !.doorTimer = FALSE]
      [] OTHER -> s

ExceededDefrostSignal(s) ==
    CASE s.idle /\ s.defrost = "NotIdle" -> [s EXCEPT !.defrost = "Idle", !.defrostTimer = TRUE]
      [] ~s.idle /\ s.defrost # "NotIdle" ->
            [s EXCEPT !.defrost = "NotIdle", !.defrostTimer = FALSE]
      [] OTHER -> s

ExceededInit ==
    /\ unit = "temperature exceeded"
    /\ \E open \in SUBSET PolicyDoors, idle, valid \in BOOLEAN :
        st = [on |-> FALSE, open |-> open, idle |-> idle, valid |-> valid,
              temperature |-> "high", doors |-> "Open", defrost |-> "NotIdle",
              doorTimer |-> FALSE, defrostTimer |-> FALSE, fault |-> FALSE]

PowerOnTimeComplete ==
    /\ Runs("temperature exceeded") /\ ~st.on
    /\ st' = StartExceededMachines([st EXCEPT !.on = TRUE])

ExceededDoorChanges(d) ==
    /\ Runs("temperature exceeded")
    /\ LET s == [st EXCEPT !.open = Toggled(@, d)] IN
       st' = IF s.on THEN ExceededDoorSignal(s) ELSE s

ExceededDefrostChanges ==
    /\ Runs("temperature exceeded")
    /\ LET s == [st EXCEPT !.idle = ~@] IN st' = IF s.on THEN ExceededDefrostSignal(s) ELSE s

ExceededReadingChanges ==
    /\ Runs("temperature exceeded")
    /\ \E s \in {[st EXCEPT !.valid = ~@]}
                 \union {[st EXCEPT !.temperature = t] : t \in {"high", "between", "low"}} :
        st' = IF s.on /\ s.temperature = "low" /\ s.valid THEN [s EXCEPT !.fault = FALSE]
              ELSE IF s.on THEN SetExceeded(s) ELSE s

\* Mutant: the time of the doors is up, but nobody looks at the temperature.
DoorTimeCompleteSilently ==
    /\ Runs("temperature exceeded") /\ st.doorTimer
    /\ st' = [st EXCEPT !.doors = "ClosedLong", !.doorTimer = FALSE]

DoorTimeComplete ==
    /\ Runs("temperature exceeded") /\ st.doorTimer
    /\ st' = SetExceeded([st EXCEPT !.doors = "ClosedLong", !.doorTimer = FALSE])

DefrostTimeComplete ==
    /\ Runs("temperature exceeded") /\ st.defrostTimer
    /\ st' = SetExceeded([st EXCEPT !.defrost = "IdleLong", !.defrostTimer = FALSE])

\* A cabinet that is too warm is reported as soon as doors and defrost excuse
\* it no more, whichever of the conditions comes last; and each machine that
\* waits for a minimum time has its timer running.
WarmCabinetIsReported ==
    unit = "temperature exceeded" /\ st.on =>
        /\ ExceededConditions(st) => st.fault
        /\ st.open = {} => st.doorTimer \/ st.doors = "ClosedLong"
        /\ st.idle => st.defrostTimer \/ st.defrost = "IdleLong"

-----------------------------------------------------------------------------
(* FreshFoodNonHeatedCycleDefrost: the fan melts the frost with air after  *)
(* the fresh food evaporator has stopped cooling.                          *)

ValvePositions == {"A", "B", "C", "D"}

\* The positions in which the valve feeds the fresh food evaporator.
FreshFoodPositions(n) ==
    CASE n = 1 -> ValvePositions [] n = 2 -> {"A", "C"} [] n = 3 -> {"A", "D"}
OtherPositions(n) == CASE n = 1 -> {} [] n = 2 -> {"B"} [] n = 3 -> {"B", "C"}

\* State_Running starts its timer; State_Off leaves it running.
EnterCycleRunning(s, state) == [s EXCEPT !.state = state, !.timer = TRUE]
EnterCycleOff(s) == [s EXCEPT !.state = "Off"]

CycleCompressorOff(s) ==
    IF /\ s.state = "Off" /\ ~s.heating /\ s.whenOff
       /\ s.previous \in FreshFoodPositions(s.evaporators)
    THEN EnterCycleRunning(s, "CompressorIsOff") ELSE s

CycleCompressorOn(s) ==
    IF s.state # "Off" /\ s.current \in FreshFoodPositions(s.evaporators)
    THEN EnterCycleOff(s) ELSE s

\* State_Running: the valve feeds the fresh food evaporator again.
RunningCycleValveChanged(s) ==
    IF /\ s.compressor /\ s.evaporators > 1
       /\ s.current \in FreshFoodPositions(s.evaporators)
    THEN EnterCycleOff(s) ELSE s

\* Mutant: the state of the heated defrost is only looked at with the compressor off.
CycleValveChangedWhileHeating(s) ==
    LET n == s.evaporators IN
    IF /\ s.state = "Off" /\ s.compressor /\ s.whenChanged
       /\ s.previous \in FreshFoodPositions(n) /\ s.current \in OtherPositions(n)
    THEN EnterCycleRunning(s, "CompressorIsOn") ELSE s

CycleValveChanged(s) ==
    LET n == s.evaporators IN
    CASE /\ s.state = "Off" /\ ~s.heating /\ ~s.compressor /\ s.whenOff
         /\ n > 1 /\ s.previous \in FreshFoodPositions(n) ->
            EnterCycleRunning(s, "CompressorIsOff")
      [] /\ s.state = "Off" /\ ~s.heating /\ s.compressor /\ s.whenChanged
         /\ s.previous \in FreshFoodPositions(n) /\ s.current \in OtherPositions(n) ->
            EnterCycleRunning(s, "CompressorIsOn")
      [] s.state # "Off" -> RunningCycleValveChanged(s)
      [] OTHER -> s

CycleDefrostInit ==
    /\ unit = "cycle defrost"
    /\ \E n \in 1..3, whenOff, whenChanged, compressor \in BOOLEAN :
        st = [state |-> "Off", timer |-> FALSE, evaporators |-> n, whenOff |-> whenOff,
              whenChanged |-> whenChanged, compressor |-> compressor, heating |-> FALSE,
              previous |-> "A", current |-> "B"]

CycleCompressorChanges ==
    /\ Runs("cycle defrost")
    /\ LET s == [st EXCEPT !.compressor = ~@] IN
       st' = IF s.compressor THEN CycleCompressorOn(s) ELSE CycleCompressorOff(s)

CycleDefrostChanges ==
    /\ Runs("cycle defrost")
    /\ LET s == [st EXCEPT !.heating = ~@] IN
       st' = IF s.heating /\ s.state # "Off" THEN EnterCycleOff(s) ELSE s

CycleValveMoves(p) ==
    /\ Runs("cycle defrost") /\ p # st.current
    /\ st' = CycleValveChanged([st EXCEPT !.previous = st.current, !.current = p])

\* A timer of an earlier cycle is ignored in State_Off.
CycleTimeExpires ==
    /\ Runs("cycle defrost") /\ st.timer
    /\ st' = EnterCycleOff([st EXCEPT !.timer = FALSE])

\* The fan never works against the heater, and a cycle that runs will end,
\* although the timer of a cycle that ended early is left running.
CycleDefrostIsHarmless ==
    unit = "cycle defrost" /\ st.state # "Off" => ~st.heating /\ st.timer

-----------------------------------------------------------------------------
(* LoadOffDoorOpen: loads are voted off while an associated door is open,  *)
(* for at most a timeout, and for a delay after the last one has closed.   *)

\* The votes of all the loads of the list are off, or do not care.
VoteOffAllLoads(s) == [s EXCEPT !.off = TRUE]
VoteDontCareAllLoads(s) == [s EXCEPT !.off = FALSE]

EnterDoorIsOpen(s) == [VoteOffAllLoads(s) EXCEPT !.state = "Open", !.timer = OpenTimeout]

\* Mutant: the delay is only started when the loads are voted for.
EnterAllDoorsAreClosedWithoutDelay(s) == [s EXCEPT !.state = "Closed", !.timer = ~s.off]

EnterAllDoorsAreClosed(s) == [s EXCEPT !.state = "Closed", !.timer = TRUE]

LoadsInit ==
    /\ unit = "loads off"
    /\ \E open \in SUBSET PolicyDoors :
        LET s == [open |-> open, state |-> "Closed", off |-> FALSE, timer |-> FALSE] IN
        st = IF open = {} THEN EnterAllDoorsAreClosed(s) ELSE EnterDoorIsOpen(s)

LoadsDoorChanges(d) ==
    /\ Runs("loads off")
    /\ LET s == [st EXCEPT !.open = Toggled(@, d)] IN
       st' = CASE s.open = {} /\ s.state = "Open" -> EnterAllDoorsAreClosed(s)
               [] s.open # {} /\ s.state = "Closed" -> EnterDoorIsOpen(s)
               [] OTHER -> s

LoadsTimeoutExpires ==
    /\ Runs("loads off") /\ st.timer
    /\ st' = VoteDontCareAllLoads([st EXCEPT !.timer = FALSE])

-----------------------------------------------------------------------------
(* FreezerIceRateHandler: more fan and a colder freezer for a while.       *)
(* Votes of a higher priority come first, the grid's vote comes last.      *)

NoVote == -1
ResolvedFan(s) ==
    IF s.above # NoVote THEN s.above ELSE IF s.iceVote # NoVote THEN s.iceVote ELSE s.grid

\* UpdateFreezerIceRateVoteBasedOnFreezerEvapFanSpeed: the handler hears the
\* resolved vote, and so its own.
UpdateIceRateVote(s) ==
    IF s.active
    THEN [s EXCEPT !.iceVote = IF ResolvedFan(s) < IceRateSpeed THEN IceRateSpeed ELSE ResolvedFan(s)]
    ELSE s

IceRateInit ==
    /\ unit = "ice rate"
    /\ \E grid \in 0..3 :
        st = [active |-> FALSE, timer |-> FALSE, above |-> NoVote, iceVote |-> NoVote, grid |-> grid]

IceRateTriggered ==
    /\ Runs("ice rate")
    /\ st' = UpdateIceRateVote([st EXCEPT !.timer = TRUE, !.active = TRUE])

IceRateVotesChange ==
    /\ Runs("ice rate")
    /\ \E s \in {[st EXCEPT !.above = v] : v \in 0..3 \union {NoVote}}
                 \union {[st EXCEPT !.grid = v] : v \in 0..3} :
        st' = IF ResolvedFan(s) # ResolvedFan(st) THEN UpdateIceRateVote(s) ELSE s

IceRateTimeExpires ==
    /\ Runs("ice rate") /\ st.timer
    /\ st' = [st EXCEPT !.timer = FALSE, !.active = FALSE, !.iceVote = NoVote]

\* Votes that hold loads back or drive them harder end: either what asked for
\* them lasts or the timer that withdraws them runs; and the ice rate keeps
\* the fan fast enough unless a higher vote decides.
VotesAreWithdrawn ==
    /\ unit = "loads off" /\ st.off => st.timer \/ (st.open # {} /\ ~OpenTimeout)
    /\ unit = "ice rate" =>
        /\ st.iceVote # NoVote <=> st.timer
        /\ st.timer /\ st.above = NoVote => ResolvedFan(st) >= IceRateSpeed

-----------------------------------------------------------------------------
(* HarvestCountCalculator: ice is ready when it has been cold enough for   *)
(* long enough, measured by an integral and by whole minutes.              *)

\* Mutant: a mold that warms up keeps the minutes it had.
CalculateHarvestCountKeepsMinutes(s) ==
    LET count == IF s.temperature <= StartIntegration
                 THEN s.count + StartIntegration - s.temperature ELSE 0
        cold == s.temperature <= FreezeInitiation
        ready == cold /\ s.satisfied /\ count >= TargetIntegration
    IN [s EXCEPT !.count = count, !.ready = @ \/ ready,
                 !.seconds = @ /\ ~ready,
                 !.minuteTimer = cold /\ ~ready /\ (@ \/ ~s.satisfied),
                 !.satisfied = @ /\ cold, !.frozen = IF cold THEN @ ELSE 0]

CalculateHarvestCount(s) ==
    LET count == IF s.temperature <= StartIntegration
                 THEN s.count + StartIntegration - s.temperature ELSE 0
        cold == s.temperature <= FreezeInitiation
        ready == cold /\ s.satisfied /\ count >= TargetIntegration
    IN [s EXCEPT !.count = count,
                 !.ready = @ \/ ready,
                 !.seconds = @ /\ ~ready,
                 !.minuteTimer = cold /\ ~ready /\ (@ \/ ~s.satisfied),
                 !.minutes = IF cold THEN @ ELSE 0,
                 !.satisfied = @ /\ cold,
                 !.frozen = IF cold THEN @ ELSE 0]

HarvestCountRequestChanged(s) ==
    IF s.requested
    THEN [CalculateHarvestCount(
            [s EXCEPT !.count = 0, !.satisfied = FALSE, !.minutes = 0, !.frozen = 0])
          EXCEPT !.seconds = TRUE]
    ELSE [s EXCEPT !.ready = FALSE, !.minuteTimer = FALSE, !.seconds = FALSE]

HarvestCountInit ==
    /\ unit = "harvest count"
    /\ \E requested \in BOOLEAN, t \in 0..3 :
        st = HarvestCountRequestChanged(
               [requested |-> requested, temperature |-> t, count |-> 0, minutes |-> 0,
                satisfied |-> FALSE, ready |-> FALSE, seconds |-> FALSE, minuteTimer |-> FALSE,
                frozen |-> 0])

HarvestCountRequest ==
    /\ Runs("harvest count")
    /\ st' = HarvestCountRequestChanged([st EXCEPT !.requested = ~@])

HarvestCountSecond(t) ==
    /\ Runs("harvest count") /\ st.seconds /\ st.count <= IntegrationCap
    /\ st' = CalculateHarvestCount([st EXCEPT !.temperature = t])

\* IncrementMinimumFreezeTimerCounter; frozen counts whole minutes since the
\* mold was last seen too warm.  The bound keeps the uint8 counter from 255,
\* where the code stops it.
HarvestCountMinute ==
    /\ Runs("harvest count") /\ st.minuteTimer /\ st.minutes < MinimumFreezeTime + 1
    /\ st' = [st EXCEPT !.minutes = @ + 1, !.frozen = @ + 1,
                        !.satisfied = @ \/ st.minutes + 1 >= MinimumFreezeTime]

\* A harvest is announced only for a mold that stayed cold for the minimum
\* time without a warm reading, and a calculation that is asked for and not
\* finished goes on.
HarvestNeedsAWholeFreeze ==
    unit = "harvest count" =>
        /\ st.ready => st.requested /\ st.frozen >= MinimumFreezeTime
        /\ st.requested => st.ready \/ st.seconds

-----------------------------------------------------------------------------
PoliciesInit ==
    \/ PrechillTimeInit \/ ExceededInit \/ CycleDefrostInit \/ LoadsInit
    \/ IceRateInit \/ HarvestCountInit

PoliciesNext ==
    \/ PrechillMinute \/ PrechillInputChanges
    \/ PowerOnTimeComplete \/ ExceededDefrostChanges \/ ExceededReadingChanges
    \/ DoorTimeComplete \/ DefrostTimeComplete
    \/ CycleCompressorChanges \/ CycleDefrostChanges \/ CycleTimeExpires
    \/ LoadsTimeoutExpires
    \/ IceRateTriggered \/ IceRateVotesChange \/ IceRateTimeExpires
    \/ HarvestCountRequest \/ HarvestCountMinute
    \/ \E p \in ValvePositions : CycleValveMoves(p)
    \/ \E d \in PolicyDoors : ExceededDoorChanges(d) \/ LoadsDoorChanges(d)
    \/ \E t \in 0..3 : HarvestCountSecond(t)

\* The policies that count time or vote while a condition lasts keep their
\* count, their vote and their timer in step with the condition.
PoliciesFollowTheirConditions ==
    /\ PrechillTimeIsUnbroken
    /\ WarmCabinetIsReported
    /\ CycleDefrostIsHarmless
    /\ VotesAreWithdrawn
    /\ HarvestNeedsAWholeFreeze
=============================================================================
