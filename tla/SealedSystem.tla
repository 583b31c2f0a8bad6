----------------------------- MODULE SealedSystem -----------------------------
(***************************************************************************)
(* The sealed system, as units: the compressor's votes with the modules    *)
(* that hear the resolved vote and vote again (CompressorStartup,          *)
(* CompressorMinimumOnOffTime, CompressorSealedSystemValveDelay), the      *)
(* delay of a sabbath mode between the resolved vote and the compressor    *)
(* (SabbathDelayHandler, CompressorSpeedDriver), its fault handler, and    *)
(* the refrigerant valve (SealedSystemValveRequestManager and              *)
(* -ControlOnPowerUp).                                                     *)
(***************************************************************************)
EXTENDS ControlUnits, Integers

-----------------------------------------------------------------------------
(* The compressor.  Startup is the startup frequency, voted for as a speed.*)
(* system stands for the votes between startup and minimum time (cooling   *)
(* off, enhanced sabbath, defrost), which are only ever read in that order.*)

CompressorSpeeds == {"Off", "Low", "High"}
NoSpeed == "DontCare"

\* ErdResolver: the first vote that cares, by the order of the voting ERDs.
ResolvedSpeed(s) ==
    CASE s.factory # NoSpeed -> s.factory
      [] s.factory = NoSpeed /\ s.startup # NoSpeed -> s.startup
      [] s.factory = NoSpeed /\ s.startup = NoSpeed /\ s.system # NoSpeed -> s.system
      [] {s.factory, s.startup, s.system} = {NoSpeed} /\ s.minimum # NoSpeed -> s.minimum
      [] {s.factory, s.startup, s.system, s.minimum} = {NoSpeed} /\ s.delay # NoSpeed -> s.delay
      [] {s.factory, s.startup, s.system, s.minimum, s.delay} = {NoSpeed} /\ s.grid # NoSpeed -> s.grid
      [] OTHER -> "Off"

GridWins(s) ==
    {s.factory, s.startup, s.system, s.minimum, s.delay} = {NoSpeed} /\ s.grid # NoSpeed

\* Mutant: the times of the last switch stay in force until they expire.
MinimumOnOffTimeHearsOnce(s, speed) ==
    [s EXCEPT !.minimum = IF (s.minPrevious = "Off") # (speed = "Off") /\ ~s.minTimer
                          THEN speed ELSE @,
              !.minTimer = @ \/ (s.minPrevious = "Off") # (speed = "Off"),
              !.minPrevious = speed]

\* ResolvedVoteChanged of CompressorMinimumOnOffTime: the new vote is below
\* the winner or repeats it, so it publishes nothing.
MinimumOnOffTimeHears(s, speed) ==
    LET switches == (s.minPrevious = "Off") # (speed = "Off") IN
    [s EXCEPT !.minimum = IF switches THEN speed ELSE @,
              !.minTimer = @ \/ switches,
              !.minPrevious = speed]

\* The driver hears the vote that has passed the sabbath delay.
DriveCompressor(s) == [s EXCEPT !.isOn = s.delayed # "Off"]

\* PassThroughLoadVote reads the vote that is resolved when it runs.
PassThroughLoadVote(s) == DriveCompressor([s EXCEPT !.delayed = ResolvedSpeed(s)])

\* Mutant: the delay holds back the start, but no later vote.
SabbathDelayHearsStarts(s, speed) ==
    LET delays == s.delayPrevious = "Off" /\ speed # "Off" /\ s.sabbath
        d == [s EXCEPT !.sabbathTimer = @ \/ delays, !.delayPrevious = speed]
    IN IF delays THEN d ELSE PassThroughLoadVote(d)

\* DataModelChanged of SabbathDelayHandler, for which the compressor is its
\* own load: a start in a sabbath mode (re)starts the delay, and while the
\* delay runs no vote passes, a vote to stop included.  The handler hears all
\* ERDs; that it comes last makes no difference to what the publication
\* leaves behind, since it passes on what it reads.
SabbathDelayHears(s, speed) ==
    LET delays == s.delayPrevious = "Off" /\ speed # "Off" /\ s.sabbath
        d == [s EXCEPT !.sabbathTimer = @ \/ delays, !.delayPrevious = speed]
    IN IF d.sabbathTimer THEN d ELSE PassThroughLoadVote(d)

\* What comes after the startup's own handler.
OthersHear(s, speed) ==
    SabbathDelayHears(MinimumOnOffTimeHears([s EXCEPT !.startPrevious = speed], speed), speed)

StartsUp(s, speed) == s.startPrevious = "Off" /\ speed # "Off"

\* CompressorStateChanged of CompressorStartup, before its own vote publishes.
StartupVotes(s) ==
    [s EXCEPT !.startup = IF s.single THEN @ ELSE "Startup",
              !.startTimer = TRUE, !.fanVotes = TRUE]

\* The subscribers of the resolved vote, in their order.  The startup vote
\* publishes to all of them before they hear of the vote that caused it; the
\* outer publication then goes on with the older speed.
ResolvedVotePublishes(s) ==
    LET speed == ResolvedSpeed(s)
        v == IF StartsUp(s, speed) THEN StartupVotes(s) ELSE s
        again == ResolvedSpeed(v)
    IN OthersHear(IF again = speed THEN v ELSE OthersHear(v, again), speed)

\* A vote is written: the resolver publishes when the outcome changes.
CompressorVote(s, new) ==
    IF ResolvedSpeed(new) = ResolvedSpeed(s) THEN new ELSE ResolvedVotePublishes(new)

CompressorInit ==
    /\ unit = "compressor"
    /\ \E single, sabbath \in BOOLEAN :
        st = [factory |-> NoSpeed, startup |-> NoSpeed, system |-> NoSpeed,
              minimum |-> NoSpeed, delay |-> NoSpeed, grid |-> NoSpeed,
              startPrevious |-> "Off", minPrevious |-> "Off",
              startTimer |-> FALSE, minTimer |-> FALSE, delayTimer |-> FALSE,
              hearsValve |-> FALSE, fanVotes |-> FALSE, single |-> single,
              sabbath |-> sabbath, delayPrevious |-> "Off", sabbathTimer |-> FALSE,
              delayed |-> "Off", isOn |-> FALSE]

SystemVotes(speed) ==
    /\ Runs("compressor")
    /\ \/ st' = CompressorVote(st, [st EXCEPT !.factory = speed])
       \/ st' = CompressorVote(st, [st EXCEPT !.system = speed])

\* The valve delay follows the grid's vote until the first that is not off.
GridVotes(speed) ==
    /\ Runs("compressor")
    /\ st' = CompressorVote(st, [st EXCEPT !.grid = speed,
                                           !.hearsValve = @ \/ speed # "Off"])

\* SealedSystemValveChanged: the valve moves while the grid has it off.
ValveVoteChanges ==
    /\ Runs("compressor") /\ st.hearsValve
    /\ GridWins(st) /\ st.grid = "Off"
    /\ st' = CompressorVote(st, [st EXCEPT !.delay = "Off", !.delayTimer = TRUE])

StartupTimeEnds ==
    /\ Runs("compressor") /\ st.startTimer
    /\ st' = [CompressorVote(st, [st EXCEPT !.startup = NoSpeed, !.startTimer = FALSE])
                EXCEPT !.fanVotes = FALSE]

MinimumTimeEnds ==
    /\ Runs("compressor") /\ st.minTimer
    /\ st' = CompressorVote(st, [st EXCEPT !.minimum = NoSpeed, !.minTimer = FALSE])

ValveDelayEnds ==
    /\ Runs("compressor") /\ st.delayTimer
    /\ st' = CompressorVote(st, [st EXCEPT !.delay = NoSpeed, !.delayTimer = FALSE])

\* Either of the two sabbath modes.
SabbathModeChanges ==
    /\ Runs("compressor")
    /\ st' = [st EXCEPT !.sabbath = ~@]

CompressorDelayEnds ==
    /\ Runs("compressor") /\ st.sabbathTimer
    /\ st' = PassThroughLoadVote([st EXCEPT !.sabbathTimer = FALSE])

CompressorNext ==
    \/ \E speed \in CompressorSpeeds \union {NoSpeed} : SystemVotes(speed)
    \/ \E speed \in CompressorSpeeds : GridVotes(speed)
    \/ ValveVoteChanges \/ StartupTimeEnds \/ MinimumTimeEnds \/ ValveDelayEnds
    \/ SabbathModeChanges \/ CompressorDelayEnds

VotedOn(s) == ResolvedSpeed(s) # "Off"

\* Through all nested publications the votes that protect the compressor
\* describe the vote that is resolved in the end: the minimum time is voted
\* for its side, each vote has the timer that withdraws it, and the startup's
\* fan votes end with the startup.  The compressor itself runs exactly when
\* it is voted on and no sabbath delay runs, and then at the resolved speed.
CompressorVotesAreCurrent ==
    unit = "compressor" =>
        /\ st.isOn <=> VotedOn(st) /\ ~st.sabbathTimer
        /\ ~st.sabbathTimer => st.delayed = ResolvedSpeed(st)
        /\ st.minimum # NoSpeed <=> st.minTimer
        /\ st.minTimer => (st.minimum = "Off" <=> ~VotedOn(st))
        /\ st.startup # NoSpeed => st.startTimer
        /\ st.fanVotes <=> st.startTimer
        /\ st.delay # NoSpeed <=> st.delayTimer

\* The minimum times are those of the vote: within one the vote changes sides
\* only by a vote that is meant to override it.  The compressor is switched
\* together with its vote, or switched on by the end of a sabbath delay: a
\* delay may shorten a run but never a rest.
CompressorIsNotShortCycled ==
    [][unit = "compressor" =>
        /\ st.minTimer /\ (VotedOn(st') # VotedOn(st)) =>
              \/ {st'.factory, st'.startup, st'.system} # {NoSpeed}
              \/ MinimumTimeEnds
        /\ st'.isOn # st.isOn =>
              \/ VotedOn(st') # VotedOn(st)
              \/ CompressorDelayEnds /\ st'.isOn]_unitVars

\* CompressorStartup.h:3: "When the compressor turns ON - the compressor and
\* various fans need to be turned on or off for the same start up time".
CompressorStartsUp ==
    [][unit = "compressor" /\ ~st.isOn /\ st'.isOn => st'.startTimer]_unitVars

-----------------------------------------------------------------------------
(* CompressorSpeedDriver: relay, frequency and compressorIsOn.  A frequency*)
(* is the entry of the parametric data it was read from.  Only a new speed *)
(* is heard: mode and zone are read when it comes.                         *)

DriverModes == {"FreshFood", "Freezer", "Convertible", "Off"}
DriverSpeeds == {"Off", "SuperLow", "Low", "Medium", "High", "SuperHigh", "Startup"}

\* The cooling mode Off has no entry: the frequency stays.
UpdateCompressorFrequencyWhenCompressorSpeedIsLow(s) ==
    IF s.mode = "Off" THEN s ELSE [s EXCEPT !.frequency = <<"Low", s.mode, s.zone>>]
UpdateCompressorFrequencyWhenCompressorSpeedIsMedium(s) ==
    IF s.mode = "Off" THEN s ELSE [s EXCEPT !.frequency = <<"Medium", s.mode, s.zone>>]
UpdateCompressorFrequencyWhenCompressorSpeedIsHigh(s) ==
    IF s.mode = "Off" THEN s ELSE [s EXCEPT !.frequency = <<"High", s.mode>>]

\* A speed that is none of the enumeration is itself the frequency.
UpdateCompressorFrequency(s) ==
    IF s.speed \in {"Off", "SuperLow", "SuperHigh", "Startup"} \/ ~s.dependent
    THEN [s EXCEPT !.frequency = <<s.speed>>]
    ELSE CASE s.speed = "Low" -> UpdateCompressorFrequencyWhenCompressorSpeedIsLow(s)
           [] s.speed = "Medium" -> UpdateCompressorFrequencyWhenCompressorSpeedIsMedium(s)
           [] s.speed = "High" -> UpdateCompressorFrequencyWhenCompressorSpeedIsHigh(s)

\* Mutant: the relay of a variable speed compressor is left to the frequency.
CompressorControllerSpeedUpdatedByRelay(s) ==
    [(IF s.single THEN s ELSE UpdateCompressorFrequency(s))
        EXCEPT !.relay = IF s.single THEN s.speed # "Off" ELSE @ \/ s.relayEnabled, !.on = s.speed # "Off"]

CompressorControllerSpeedUpdated(s) ==
    [(IF s.single THEN s ELSE UpdateCompressorFrequency(s))
        EXCEPT !.relay = (s.single \/ s.relayEnabled) /\ s.speed # "Off", !.on = s.speed # "Off"]

DriverOfCompressorInit ==
    /\ unit = "compressor driver"
    /\ \E single, relayEnabled, dependent \in BOOLEAN :
        st = [speed |-> "Off", mode |-> "Off", zone |-> "Warm", single |-> single,
              relayEnabled |-> relayEnabled, dependent |-> dependent,
              relay |-> FALSE, frequency |-> <<"Off">>, on |-> FALSE]

CompressorSpeedChanges ==
    /\ Runs("compressor driver")
    /\ \E v \in DriverSpeeds \ {st.speed} :
        st' = CompressorControllerSpeedUpdated([st EXCEPT !.speed = v])

DriverReadingsChange ==
    /\ Runs("compressor driver")
    /\ \/ \E m \in DriverModes : st' = [st EXCEPT !.mode = m]
       \/ \E z \in {"Cold", "Middle", "Warm"} : st' = [st EXCEPT !.zone = z]

\* Relay, frequency and compressorIsOn tell the same story: nothing drives a
\* compressor that is said to be off, and a single speed compressor that is
\* said to be on has its relay closed.
CompressorDriveIsConsistent ==
    unit = "compressor driver" =>
        /\ ~st.on => ~st.relay /\ st.frequency = <<"Off">>
        /\ st.single => st.relay = st.on
        /\ ~st.single /\ st.relayEnabled => st.relay = st.on

-----------------------------------------------------------------------------
(* CompressorFaultHandler: one timer for a compressor that runs too long   *)
(* and for one that rests too long while the cooling is on.                *)

FaultHandlerHearsCompressor(s) ==
    IF s.isOn
    THEN [s EXCEPT !.timer = IF s.cycled THEN "running" ELSE "none", !.offFault = FALSE]
    ELSE [s EXCEPT !.timer = IF s.coolingOff THEN "none" ELSE "resting",
                   !.runFault = FALSE, !.cycled = TRUE]

\* Mutant: the rest is timed only from the compressor's own switch.
FaultHandlerHearsCoolingOff(s) ==
    IF s.coolingOff THEN [s EXCEPT !.timer = "none"] ELSE s

FaultHandlerHearsCooling(s) ==
    CASE s.coolingOff -> [s EXCEPT !.timer = "none"]
      [] ~s.coolingOff /\ ~s.isOn -> [s EXCEPT !.timer = "resting"]
      [] OTHER -> s

CompressorFaultInit ==
    /\ unit = "compressor fault"
    /\ \E isOn, coolingOff \in BOOLEAN :
        st = [isOn |-> isOn, coolingOff |-> coolingOff, cycled |-> FALSE,
              timer |-> IF isOn \/ coolingOff THEN "none" ELSE "resting",
              runFault |-> FALSE, offFault |-> FALSE]

FaultInputsChange ==
    /\ Runs("compressor fault")
    /\ \/ st' = FaultHandlerHearsCompressor([st EXCEPT !.isOn = ~@])
       \/ st' = FaultHandlerHearsCooling([st EXCEPT !.coolingOff = ~@])

FaultTimeEnds ==
    /\ Runs("compressor fault") /\ st.timer # "none"
    /\ st' = [st EXCEPT !.timer = "none",
                        !.runFault = @ \/ st.timer = "running",
                        !.offFault = @ \/ st.timer = "resting"]

\* A compressor that should run and does not is timed until it is reported,
\* whichever of compressor and cooling came last, and neither fault outlives
\* the compressor's next switch.
RestingCompressorIsReported ==
    unit = "compressor fault" =>
        /\ ~st.isOn /\ ~st.coolingOff => st.timer = "resting" \/ st.offFault
        /\ st.runFault => st.isOn
        /\ st.offFault => ~st.isOn

-----------------------------------------------------------------------------
(* The refrigerant valve.  Votes are positions; NoPosition does not care.  *)
(* The stepper's request ERD is written by the manager and counted down to *)
(* zero steps by the driver, whose moves are the ones of the damper.       *)

CONSTANTS
    ValvePositionStep,  \* [{"Home", "A", "B", "C", "D"} -> steps from home]
    ServicePosition     \* refrigerantValvePowerUpServicePosition

NoPosition == "DontCare"
VotedPositions == {"A", "B", "C", "D"}
AllPositions == {"Home"} \union VotedPositions

ASSUME ValveAssumption ==
    /\ \A p \in AllPositions : ValvePositionStep[p] \in Nat
    /\ \A p \in VotedPositions : ValvePositionStep[p] > ValvePositionStep["Home"]
    /\ ServicePosition \in AllPositions

\* defaultData is position B that nobody cares for: a different vote.
ResolvedPosition(s) ==
    CASE s.powerUp # NoPosition -> [position |-> s.powerUp, care |-> TRUE]
      [] s.powerUp = NoPosition /\ s.defrost # NoPosition -> [position |-> s.defrost, care |-> TRUE]
      [] {s.powerUp, s.defrost} = {NoPosition} /\ s.valveGrid # NoPosition ->
            [position |-> s.valveGrid, care |-> TRUE]
      [] OTHER -> [position |-> "B", care |-> FALSE]

Requested(s) == ResolvedPosition(s).position

MoveSteps(s, position) ==
    LET from == ValvePositionStep[s.current]
        to == ValvePositionStep[position] IN
    [steps |-> IF from < to THEN to - from ELSE from - to,
     clockwise |-> from < to, reset |-> FALSE]

\* State_Homing and State_Moving, entries.  A move of zero steps publishes,
\* and is over at once, only if the ERD held another request before.
EnterValveHoming(s) ==
    [s EXCEPT !.state = "Homing", !.active = "Home",
              !.request = [steps |-> 1, clockwise |-> FALSE, reset |-> TRUE]]

\* The exit of State_Homing takes the request for homing back.
PositionReached(s) ==
    [s EXCEPT !.previous = s.current, !.current = s.active, !.state = "Idle",
              !.homingRequired = @ /\ s.state # "Homing",
              !.homingErd = @ /\ s.state # "Homing"]

BeginMove(s) ==
    [s EXCEPT !.state = "Moving", !.active = Requested(s), !.request = MoveSteps(s, Requested(s)),
              !.stalled = MoveSteps(s, Requested(s)).steps = 0 /\ MoveSteps(s, Requested(s)) = s.request]

\* Mutant: a vote that arrives during a move is not looked at again.
StepRequestCompletedAtRest(s) == PositionReached(s)

\* The entry of State_Idle looks at once for a newer request.
EnterValveIdle(r) ==
    CASE r.current = Requested(r) -> r
      [] r.current # Requested(r) /\ Requested(r) = "Home" -> EnterValveHoming(r)
      [] r.current # Requested(r) /\ Requested(r) # "Home" -> BeginMove(r)

StepRequestCompleted(s) ==
    IF s.state = "Moving" /\ s.homingRequired THEN EnterValveHoming(PositionReached(s))
    ELSE EnterValveIdle(PositionReached(s))

EnterValveMoving(s) ==
    LET m == BeginMove(s) IN
    IF m.request.steps = 0 /\ ~m.stalled THEN StepRequestCompleted(m) ELSE m

ValveVote(s) ==
    IF ResolvedPosition(s) # ResolvedPosition(st) /\ s.state = "Idle"
    THEN EnterValveMoving(s) ELSE s

ValveInit ==
    /\ unit = "valve"
    /\ st = EnterValveHoming(
              [state |-> "Idle", active |-> "Home", current |-> "Home", previous |-> "Home",
               powerUp |-> ServicePosition, defrost |-> NoPosition, valveGrid |-> NoPosition,
               powerUpTimer |-> TRUE, homingRequired |-> FALSE, homingErd |-> FALSE,
               request |-> [steps |-> 0, clockwise |-> FALSE, reset |-> FALSE],
               stalled |-> FALSE])

PowerUpTimeEnds ==
    /\ Runs("valve") /\ st.powerUpTimer
    /\ st' = ValveVote([st EXCEPT !.powerUp = NoPosition, !.powerUpTimer = FALSE])

ValveVotesChange ==
    /\ Runs("valve")
    /\ \/ \E p \in VotedPositions : st' = ValveVote([st EXCEPT !.valveGrid = p])
       \/ \E p \in VotedPositions \union {NoPosition} : st' = ValveVote([st EXCEPT !.defrost = p])

HomingIsRequested ==
    /\ Runs("valve") /\ ~st.homingErd
    /\ LET s == [st EXCEPT !.homingErd = TRUE] IN
       st' = CASE s.state = "Idle" -> EnterValveHoming(s)
               [] s.state = "Moving" -> [s EXCEPT !.homingRequired = TRUE]
               [] s.state = "Homing" -> s

\* The driver has held the last step and clears the count.
ValveMotorStops ==
    /\ Runs("valve") /\ st.request.steps > 0
    /\ st' = StepRequestCompleted([st EXCEPT !.request.steps = 0])

\* A valve at rest is where the votes want it, and a valve that moves has
\* steps to go.  The one exception is a vote that repeats the position the
\* valve has, in the direction it came from: the manager then waits for steps
\* that are never made.
ValveFollowsItsVotes ==
    unit = "valve" =>
        /\ st.state = "Idle" => st.current = Requested(st) /\ ~st.homingErd
        /\ st.state # "Idle" /\ ~st.stalled => st.request.steps > 0
        /\ st.stalled => st.state = "Moving" /\ st.active = st.current

\* Only the change between the default vote and a vote for the same position
\* stalls the valve.
OnlyTheDefaultVoteStallsTheValve ==
    [][unit = "valve" /\ st'.stalled /\ ~st.stalled =>
        ResolvedPosition(st).care # ResolvedPosition(st').care]_unitVars

-----------------------------------------------------------------------------
SealedSystemInit ==
    CompressorInit \/ DriverOfCompressorInit \/ CompressorFaultInit \/ ValveInit
SealedSystemNext ==
    \/ CompressorNext
    \/ CompressorSpeedChanges \/ DriverReadingsChange
    \/ FaultInputsChange \/ FaultTimeEnds
    \/ PowerUpTimeEnds \/ ValveVotesChange \/ HomingIsRequested \/ ValveMotorStops

\* The compressor, its drive, its fault handler and the valve end every chain
\* of nested events in agreement with the votes that are current then.
SealedSystemIsInStep ==
    /\ CompressorVotesAreCurrent
    /\ CompressorDriveIsConsistent
    /\ RestingCompressorIsReported
    /\ ValveFollowsItsVotes

\* The two steps the sealed system may never take: a change of the compressor
\* within its minimum time that nobody entitled to it voted for, and a stall of
\* the valve that is not the withdrawal of the last vote.
SealedSystemIsSpared == CompressorIsNotShortCycled /\ OnlyTheDefaultVoteStallsTheValve
=============================================================================
