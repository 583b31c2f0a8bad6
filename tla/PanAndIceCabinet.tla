-------------------------- MODULE PanAndIceCabinet --------------------------
(***************************************************************************)
(* The feature pan (a deli pan or a convertible compartment) and the ice   *)
(* cabinet: voters that follow a few ERDs, the chain from a requested mode *)
(* to the voted set point, and the fan of the ice cabinet with the startup *)
(* vote that hears the resolution it takes part in.                        *)
(***************************************************************************)
EXTENDS ControlUnits, Integers, Sequences, FiniteSetsExt

CONSTANTS
    PanTemperatures, PulldownLimit, SlopeLowerLimit, SlopeUpperLimit,
    DeliCoolingSpeed, StartupSpeed, CabinetSpeeds, \* fan speeds; Off is 0 and On is 1
    PanModes, MinAllowedMode, MaxAllowedMode, DefaultMode, \* Off is 0, the modes 1 .. PanModes
    ModeRange, ModeOffset, RequestedSetpoints, \* per mode [min, max, default], the offset
    SetpointTable,      \* freezer set point -> ice cabinet set point, in rising order
    FreezerSetpoints, GammaTemperatures,
    FreezerHysteresis, CabinetHysteresis, \* <<low, high>> lines of the grids
    HeaterCoefficient   \* [slope, fan, formation, intercept, minimum]

NotControllable == 255

ASSUME PanAndIceCabinetAssumption ==
    /\ PanTemperatures \subseteq Int /\ {SlopeLowerLimit, SlopeUpperLimit} \subseteq Int
    /\ SlopeLowerLimit < SlopeUpperLimit
    /\ {DeliCoolingSpeed, StartupSpeed} \subseteq CabinetSpeeds \ {0}
    /\ PanModes \in 1 .. 7 /\ MinAllowedMode \in Nat /\ MaxAllowedMode \in Nat
    /\ DefaultMode \in MinAllowedMode .. MaxAllowedMode /\ MaxAllowedMode <= PanModes
    /\ ModeRange \in [1 .. PanModes -> [min : Int, max : Int, default : Int]]
    /\ \A i \in 1 .. PanModes : ModeRange[i].default \in ModeRange[i].min .. ModeRange[i].max
    /\ RequestedSetpoints \subseteq Int
    /\ GammaTemperatures \cup FreezerSetpoints \subseteq Int
    /\ SetpointTable \in Seq(Int \X Int) /\ SetpointTable # << >>
    /\ FreezerHysteresis \in Int \X Int /\ FreezerHysteresis[1] < FreezerHysteresis[2]
    /\ CabinetHysteresis \in Int \X Int /\ CabinetHysteresis[1] < CabinetHysteresis[2]

Clamp(n, low, high) == Min({high, Max({low, n})})

-----------------------------------------------------------------------------
(* The voters of the pan.  A vote of the value a voter always votes for is *)
(* a Boolean: whether it cares.                                            *)

DualEvapFanVote(s) == s.mode = "ActiveCooling"
HeaterDisablingVote(s) == s.hot /\ s.mode = "ActiveHeating"
PulldownVote(s) == s.temperature > PulldownLimit
DeliFanDependencyVote(s) == s.rpm = 0
FreshFoodFanDependencyVote(s) == s.resolved.care /\ s.resolved.speed = 0
FreezerFanDependencyVote(s) == s.resolved.care /\ s.resolved.speed = 0
DeliCoolingFanSpeed(grid) == IF grid.speed # 0 THEN Max({DeliCoolingSpeed, grid.speed}) ELSE 0
DeliPanVote(s) ==
    IF s.mode = "ActiveCooling" /\ s.grid.care
      THEN [speed |-> DeliCoolingFanSpeed(s.grid), care |-> TRUE]
      ELSE [speed |-> 0, care |-> FALSE]

VotesOfThePan(s) ==
    [dualEvapFan |-> DualEvapFanVote(s), heaterDisabling |-> HeaterDisablingVote(s),
     pulldown |-> PulldownVote(s), deliFan |-> DeliFanDependencyVote(s),
     freshFoodFan |-> FreshFoodFanDependencyVote(s), freezerFan |-> FreezerFanDependencyVote(s),
     deliPan |-> DeliPanVote(s)]

\* Mutant: the voter of the deli pan does not hear the vote of the grid.
PanListenersWithoutGrid(input) ==
    CASE input = "mode" -> {"dualEvapFan", "heaterDisabling", "deliPan"}
      [] input = "hot" -> {"heaterDisabling"}
      [] input = "temperature" -> {"pulldown"}
      [] input = "rpm" -> {"deliFan"}
      [] input = "resolved" -> {"freshFoodFan", "freezerFan"}
      [] input = "grid" -> {}

\* The voters that subscribe to an ERD.
PanListeners(input) ==
    CASE input = "mode" -> {"dualEvapFan", "heaterDisabling", "deliPan"}
      [] input = "hot" -> {"heaterDisabling"}
      [] input = "temperature" -> {"pulldown"}
      [] input = "rpm" -> {"deliFan"}
      [] input = "resolved" -> {"freshFoodFan", "freezerFan"}
      [] input = "grid" -> {"deliPan"}

\* The warm-up voter keeps its vote while the slope is between the limits.
PerformSlopeVote(s) ==
    IF s.mode # "ActiveHeating" THEN [s EXCEPT !.warmup = "DontCare"]
    ELSE IF s.slope < SlopeLowerLimit THEN [s EXCEPT !.warmup = "Max"]
    ELSE IF s.slope > SlopeUpperLimit THEN [s EXCEPT !.warmup = "Min"]
    ELSE s

FanVotes == [speed : CabinetSpeeds, care : BOOLEAN]
PanInputs ==
    [mode |-> {"Neutral", "ActiveCooling", "ActiveHeating", "ForcedHeating"}, hot |-> BOOLEAN,
     temperature |-> PanTemperatures, rpm |-> {0, 1}, resolved |-> FanVotes, grid |-> FanVotes]

PanVotesInit ==
    /\ unit = "pan votes"
    /\ \E mode \in PanInputs.mode, t \in PanTemperatures :
         LET s == [mode |-> mode, hot |-> FALSE, temperature |-> t, rpm |-> 0,
                   resolved |-> [speed |-> 0, care |-> FALSE],
                   grid |-> [speed |-> 0, care |-> TRUE]]
         IN  st = [input |-> s, votes |-> VotesOfThePan(s),
                   slope |-> [mode |-> mode, old |-> t, slope |-> 0, known |-> FALSE,
                              warmup |-> IF mode = "ActiveHeating" THEN "Min" ELSE "DontCare"]]

OnDataFeaturePanModeChange(s, mode) ==
    IF s.known THEN PerformSlopeVote([s EXCEPT !.mode = mode]) ELSE [s EXCEPT !.mode = mode]

PanInputChanges ==
    /\ Runs("pan votes")
    /\ \E input \in DOMAIN PanInputs : \E value \in PanInputs[input] \ {st.input[input]} :
         LET new == [st.input EXCEPT ![input] = value]
         IN  st' = [st EXCEPT !.input = new,
                      !.votes = [v \in DOMAIN @ |->
                                   IF v \in PanListeners(input) THEN VotesOfThePan(new)[v] ELSE @[v]],
                      !.slope = IF input = "mode" THEN OnDataFeaturePanModeChange(@, value) ELSE @]

CalculateSlope ==
    /\ Runs("pan votes")
    /\ st' = [st EXCEPT !.slope = PerformSlopeVote(
                [st.slope EXCEPT !.slope = st.input.temperature - st.slope.old, !.old = st.input.temperature,
                          !.known = TRUE])]

-----------------------------------------------------------------------------
(* FeaturePanModeRequestHandler, FeaturePanModeSetpointResolver,           *)
(* FeaturePanUserSetpointVoter and FeaturePanSetpointOffsetUpdater.  shift *)
(* is the mode for which the thermal shift was last reset.                 *)

VoteOfTheUser(s) ==
    IF s.mode \in 1 .. PanModes
      THEN [temperature |-> s.status[s.mode], care |-> TRUE]
      ELSE [temperature |-> 0, care |-> FALSE]
OffsetOfTheMode(s) == IF s.mode \in 1 .. PanModes THEN ModeOffset[s.mode] ELSE 0

\* Mutant: the voter hears set points and not the mode.
ModeStatusChangesUnheard(s, mode) ==
    LET t == [s EXCEPT !.mode = mode] IN [t EXCEPT !.offset = OffsetOfTheMode(t)]

ModeStatusChanges(s, mode) ==
    LET t == [s EXCEPT !.mode = mode]
    IN  IF mode = s.mode THEN s
        ELSE [t EXCEPT !.vote = VoteOfTheUser(t), !.offset = OffsetOfTheMode(t)]

\* A status that was never set takes the default of its range; a request of
\* zero stands for none yet.
PanSetpointInit ==
    /\ unit = "pan set point"
    /\ \E mode \in {NotControllable} \cup MinAllowedMode .. MaxAllowedMode, kept \in BOOLEAN :
         LET m == IF mode = NotControllable THEN DefaultMode ELSE mode
             s == [mode |-> m, request |-> NotControllable, shift |-> m,
                   asked |-> [i \in 1 .. PanModes |-> 0],
                   status |-> [i \in 1 .. PanModes |->
                                 IF kept THEN ModeRange[i].max ELSE ModeRange[i].default]]
         IN  st = [mode |-> s.mode, request |-> s.request, shift |-> s.shift, asked |-> s.asked,
                   status |-> s.status, vote |-> VoteOfTheUser(s), offset |-> OffsetOfTheMode(s)]

\* A request outside the allowed modes is neither applied nor reset.
ModeIsRequested ==
    /\ Runs("pan set point")
    /\ \E mode \in 0 .. PanModes + 1 :
         /\ st.request # mode
         /\ st' = IF mode \in MinAllowedMode .. MaxAllowedMode
                    THEN [ModeStatusChanges(st, mode) EXCEPT !.request = NotControllable, !.shift = mode]
                    ELSE [st EXCEPT !.request = mode]

\* Only a new request is published, and only a new status reaches the voter.
SetpointIsRequested ==
    /\ Runs("pan set point")
    /\ \E i \in 1 .. PanModes, t \in RequestedSetpoints :
         LET new == Clamp(t, ModeRange[i].min, ModeRange[i].max)
             s == [st EXCEPT !.asked[i] = t, !.status[i] = new]
         IN  /\ st.asked[i] # t
             /\ st' = IF new # st.status[i] /\ i = Clamp(st.mode, 1, PanModes)
                        THEN [s EXCEPT !.vote = VoteOfTheUser(s)] ELSE s

-----------------------------------------------------------------------------
(* The fan and the heater of the ice cabinet.  Of the votes that switch    *)
(* the fan off, "above" are those the resolver asks before the startup     *)
(* vote and "below" those it asks after it: an open door, a defrost, the   *)
(* harvest fix of the ice maker and the freezer fan.                       *)

OffVotes == {"door", "harvestFix", "freezerFan"}

\* ErdResolver takes the first vote that cares.
ResolvedFanSpeed(s) ==
    IF s.above THEN 0
    ELSE IF s.startup THEN StartupSpeed
    ELSE IF s.below # {} THEN 0 ELSE s.grid

HeaterDutyCycle(s) ==
    LET fanIsOn == s.resolved = 1
        c == HeaterCoefficient
    IN  Clamp((c.slope * s.setpoint + (IF fanIsOn THEN c.fan ELSE 0)
                 + (IF fanIsOn /\ s.forming THEN c.formation ELSE 0) + c.intercept) \div 100,
              c.minimum, 100)

\* The startup vote is written in the handler of the resolved vote, so that
\* the resolved vote changes again before the handler has ended.
\* Mutant: the previous speed is kept when the fan stops.
IceCabinetFanResolvedVoteChangedOnStart(s) ==
    IF s.previous = 0 /\ s.resolved # 0
      THEN LET t == [s EXCEPT !.startup = TRUE, !.timer = TRUE, !.previous = s.resolved]
           IN  [t EXCEPT !.resolved = ResolvedFanSpeed(t)]
      ELSE s

IceCabinetFanResolvedVoteChanged(s) ==
    IF s.previous = 0 /\ s.resolved # 0
      THEN LET t == [s EXCEPT !.startup = TRUE, !.timer = TRUE, !.previous = s.resolved]
           IN  [t EXCEPT !.resolved = ResolvedFanSpeed(t)]
      ELSE [s EXCEPT !.previous = s.resolved]

FanVotesChange(s) ==
    LET t == [s EXCEPT !.resolved = ResolvedFanSpeed(s)]
        u == IceCabinetFanResolvedVoteChanged(t)
    IN  IF t.resolved = s.resolved THEN s ELSE [u EXCEPT !.heater = HeaterDutyCycle(u)]

\* The heater votes only after one of its inputs has changed (-1: no vote).
IceCabinetFanInit ==
    /\ unit = "ice cabinet fan"
    /\ \E grid \in CabinetSpeeds, setpoint \in FreezerSetpoints :
         st = IceCabinetFanResolvedVoteChanged(
                [above |-> FALSE, below |-> {}, startup |-> FALSE, timer |-> FALSE, grid |-> grid,
                 previous |-> 0, resolved |-> grid, forming |-> FALSE, setpoint |-> setpoint,
                 heater |-> -1])

IceCabinetGridVotes ==
    Runs("ice cabinet fan") /\ \E v \in CabinetSpeeds \ {st.grid} : st' = FanVotesChange([st EXCEPT !.grid = v])
FanIsForcedOff == Runs("ice cabinet fan") /\ st' = FanVotesChange([st EXCEPT !.above = ~@])
OnIceMakerStateChange(on) ==
    FanVotesChange([st EXCEPT !.below = IF on THEN @ \cup {"harvestFix"} ELSE @ \ {"harvestFix"}])
OnFreezerEvapResolvedVoteChange(off) ==
    FanVotesChange([st EXCEPT !.below = IF off THEN @ \cup {"freezerFan"} ELSE @ \ {"freezerFan"}])
DoorVotes(off) == FanVotesChange([st EXCEPT !.below = IF off THEN @ \cup {"door"} ELSE @ \ {"door"}])
OffVotesChange ==
    /\ Runs("ice cabinet fan")
    /\ \E on \in BOOLEAN : st' \in {OnIceMakerStateChange(on), OnFreezerEvapResolvedVoteChange(on), DoorVotes(on)}
StartupTimeExpires ==
    /\ Runs("ice cabinet fan")
    /\ st.timer
    /\ st' = FanVotesChange([st EXCEPT !.timer = FALSE, !.startup = FALSE])
HeaterInputChanges ==
    /\ Runs("ice cabinet fan")
    /\ \E s \in {[st EXCEPT !.forming = ~@]} \cup {[st EXCEPT !.setpoint = v] : v \in FreezerSetpoints \ {st.setpoint}} :
         st' = [s EXCEPT !.heater = HeaterDutyCycle(s)]

-----------------------------------------------------------------------------
(* The set point of the ice cabinet, its forced cooling and gamma.         *)

MappedSetpoint(freezer) ==
    LET reached == {i \in 1 .. Len(SetpointTable) : freezer <= SetpointTable[i][1]}
    IN  SetpointTable[IF reached = {} THEN Len(SetpointTable) ELSE Min(reached)][2]

ForcedCoolingVote(s) ==
    IF s.forced THEN [speed |-> Max({1, s.grid}), care |-> TRUE] ELSE [speed |-> 0, care |-> FALSE]

\* Where a temperature is between the hysteresis lines, in percent.
HysteresisRatio(temperature, setpoint, lines) ==
    Clamp((100 * (temperature - (setpoint + lines[1]))) \div (lines[2] - lines[1]), 0, 100)
Gamma(s) ==
    (100 - (HysteresisRatio(s.freezer, s.setpoint, FreezerHysteresis)
              - HysteresisRatio(s.cabinet, s.cabinetSetpoint, CabinetHysteresis))) \div 2

CabinetInputs ==
    [setpoint |-> FreezerSetpoints, forced |-> BOOLEAN, grid |-> CabinetSpeeds,
     freezer |-> GammaTemperatures, cabinet |-> GammaTemperatures]

IceCabinetInit ==
    /\ unit = "ice cabinet"
    /\ \E setpoint \in FreezerSetpoints, t \in GammaTemperatures :
         LET s == [setpoint |-> setpoint, cabinetSetpoint |-> MappedSetpoint(setpoint),
                   forced |-> FALSE, grid |-> 0, freezer |-> t, cabinet |-> t]
         IN  st = [input |-> s, forcedVote |-> ForcedCoolingVote(s), gamma |-> Gamma(s)]

\* A new freezer set point moves the ice cabinet set point, and each of the
\* two is heard by the calculator of gamma.
CabinetInputChanges ==
    /\ Runs("ice cabinet")
    /\ \E input \in DOMAIN CabinetInputs : \E value \in CabinetInputs[input] \ {st.input[input]} :
         LET new == [st.input EXCEPT ![input] = value,
                       !.cabinetSetpoint = IF input = "setpoint" THEN MappedSetpoint(value) ELSE @]
         IN  st' = [st EXCEPT !.input = new,
                      !.forcedVote = IF input \in {"forced", "grid"} THEN ForcedCoolingVote(new) ELSE @,
                      !.gamma = IF input \in {"setpoint", "freezer", "cabinet"} THEN Gamma(new) ELSE @]

PanAndIceCabinetInit == PanVotesInit \/ PanSetpointInit \/ IceCabinetFanInit \/ IceCabinetInit
PanAndIceCabinetNext ==
    \/ PanInputChanges \/ CalculateSlope
    \/ ModeIsRequested \/ SetpointIsRequested
    \/ IceCabinetGridVotes \/ FanIsForcedOff \/ OffVotesChange \/ StartupTimeExpires \/ HeaterInputChanges
    \/ CabinetInputChanges

-----------------------------------------------------------------------------
(* Properties.                                                             *)

\* The pan's voters hear every ERD their votes depend on: no vote outlives
\* the condition it was made for, the heater is disabled in a hot room, and
\* after the first minute the warm-up vote is withdrawn with the heating
\* mode and follows the slope while heating.
PanVotesAreFresh ==
    unit = "pan votes" =>
        LET w == st.slope
        IN  /\ st.votes = VotesOfThePan(st.input)
            /\ w.mode = st.input.mode
            /\ w.known => /\ w.mode # "ActiveHeating" => w.warmup = "DontCare"
                          /\ w.mode = "ActiveHeating" /\ w.slope < SlopeLowerLimit => w.warmup = "Max"
                          /\ w.mode = "ActiveHeating" /\ w.slope > SlopeUpperLimit => w.warmup = "Min"

\* The set point, the offset and the thermal shift of the pan all belong to
\* the mode the pan is in, whatever was requested before, and the voted set
\* point is inside the range of that mode.
PanSetpointFollowsTheMode ==
    unit = "pan set point" =>
        /\ st.vote = VoteOfTheUser(st) /\ st.offset = OffsetOfTheMode(st) /\ st.shift = st.mode
        /\ st.mode \in MinAllowedMode .. MaxAllowedMode
        /\ st.vote.care =>
             st.vote.temperature \in ModeRange[st.mode].min .. ModeRange[st.mode].max

\* The startup vote of the ice cabinet fan never outlives its timer, and the
\* resolved speed and the heater's duty cycle are those the votes call for,
\* although the startup vote is written while the resolution is published.
StartupVoteIsTimed ==
    /\ unit = "ice cabinet fan" =>
        /\ st.startup <=> st.timer
        /\ st.resolved = ResolvedFanSpeed(st) /\ (st.previous = 0 <=> st.resolved = 0)
        /\ st.heater \in {-1, HeaterDutyCycle(st)}
    /\ unit = "ice cabinet" =>
        /\ st.forcedVote = ForcedCoolingVote(st.input)
        /\ st.gamma = Gamma(st.input) /\ st.gamma \in 0 .. 100

\* The ice cabinet fan never leaves standstill at another speed than the
\* startup speed.
FanStartsAtStartupSpeed ==
    [][unit = "ice cabinet fan" /\ st.resolved = 0 /\ st'.resolved # 0
         => st'.resolved = StartupSpeed]_unitVars

\* The pan's and the ice cabinet's votes are those of the readings, modes and
\* fan speeds of the moment, after every order of events.
PanAndFanFollowTheirVotes ==
    PanVotesAreFresh /\ PanSetpointFollowsTheMode /\ StartupVoteIsTimed
=============================================================================
