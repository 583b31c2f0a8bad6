--------------------------- MODULE CabinetServices ---------------------------
(***************************************************************************)
(* Services around the cabinet: the auger motor, the lights, the heaters   *)
(* that follow the surroundings, the soft PWM that drives heaters, the     *)
(* door of the convertible compartment, the boards on the bus and the      *)
(* factory mode.                                                           *)
(***************************************************************************)
EXTENDS ControlUnits, Integers

CONSTANTS
    LightDoors,         \* the doors of a light
    MinDutyCycle, MaxDutyCycle, MaximumLight, LightLevels, \* percentages; the requests of a user
    SweatIntercept, SweatLinear, SweatQuadratic, \* coefficients, in thousandths
    SweatFallback, SweatInputs,
    PwmMax,             \* PwmDutyCycle_Max
    Boards, AndroidBoard, DiscoveryRetries, MissedLimit, MissedCap,
    FactoryTimes, TimeModulus \* minutes that are requested; 2^8 in the code

ASSUME CabinetServicesAssumption ==
    /\ {MinDutyCycle, MaxDutyCycle, MaximumLight} \subseteq 0 .. 100 /\ LightLevels \subseteq 0 .. 255
    /\ SweatFallback \in Nat /\ SweatIntercept \in Int /\ SweatInputs \subseteq Int
    /\ LET variables == {"T", "H", "F", "Z"}
       IN  /\ SweatLinear \in [variables -> Int]
           /\ SweatQuadratic \in [{{v, w} : v, w \in variables} -> Int]
    /\ PwmMax \in Nat \ {0} /\ AndroidBoard \in Boards
    /\ {DiscoveryRetries, MissedLimit} \subseteq Nat \ {0} /\ MissedCap \in Nat /\ MissedCap > MissedLimit
    /\ TimeModulus \in Nat \ {0} /\ FactoryTimes \subseteq 0 .. TimeModulus - 1

-----------------------------------------------------------------------------
(* AugerMotorController.c.  A relay is fresh until a delay has ended.      *)

SetAugerMotorPowerTo(s, on) == [s EXCEPT !.power = on, !.fresh = @ \/ s.power # on]
SetAugerMotorDirectionRelayTo(s, on) == [s EXCEPT !.direction = on, !.fresh = @ \/ s.direction # on]
StartDelayBetweenRelayOperations(s) == [s EXCEPT !.timer = "delay"]

EnterPreIdleDelay(s) == StartDelayBetweenRelayOperations([s EXCEPT !.fsm = "PreIdleDelay"])
EnterCubed(s) == SetAugerMotorPowerTo([s EXCEPT !.fsm = "Cubed", !.stored = "Cubed"], TRUE)
EnterCrushed(s) ==
    StartDelayBetweenRelayOperations(
        SetAugerMotorDirectionRelayTo([s EXCEPT !.fsm = "Crushed", !.stored = "Crushed"], TRUE))
EnterDispensingComplete(s) ==
    StartDelayBetweenRelayOperations(SetAugerMotorPowerTo([s EXCEPT !.fsm = "DispensingComplete"], FALSE))

ReverseAugerDirectionRelay(s) ==
    CASE s.stored = "Cubed" -> SetAugerMotorDirectionRelayTo(s, TRUE)
      [] s.stored = "Crushed" -> SetAugerMotorDirectionRelayTo(s, FALSE)
      [] OTHER -> s

\* Mutant: the reversed auger is switched on together with its direction.
EnterMoveInReverseDirectionAtOnce(s) ==
    [SetAugerMotorPowerTo(ReverseAugerDirectionRelay([s EXCEPT !.fsm = "MoveInReverseDirection"]), TRUE)
        EXCEPT !.timer = "relief"]

EnterMoveInReverseDirection(s) ==
    StartDelayBetweenRelayOperations(ReverseAugerDirectionRelay([s EXCEPT !.fsm = "MoveInReverseDirection"]))
EnterEnsureRelaysAreOff(s) ==
    StartDelayBetweenRelayOperations(SetAugerMotorPowerTo([s EXCEPT !.fsm = "EnsureRelaysAreOff"], FALSE))

AugerInit ==
    /\ unit = "auger"
    /\ st = [fsm |-> "Idle", stored |-> "Off", power |-> FALSE, direction |-> FALSE,
             timer |-> "none", vote |-> "Off", fresh |-> FALSE]

IceTypeVoteChanges ==
    /\ Runs("auger")
    /\ \E type \in {"Off", "Crushed", "Cubed"} \ {st.vote} :
        LET s == [st EXCEPT !.vote = type]
        IN  st' = CASE s.fsm = "Idle" /\ type = "Crushed" -> EnterCrushed(s)
                    [] s.fsm = "Idle" /\ type = "Cubed" -> EnterCubed(s)
                    [] s.fsm = "Cubed" /\ type \in {"Off", "Crushed"} -> EnterDispensingComplete(s)
                    [] s.fsm = "Crushed" /\ type \in {"Off", "Cubed"} -> EnterDispensingComplete(s)
                    [] OTHER -> s

\* Signal_RelayOperationDelayTimerExpired, Signal_PressureReliefTimerExpired.
AugerTimerExpires ==
    /\ Runs("auger") /\ st.timer # "none"
    /\ LET s == [st EXCEPT !.timer = "none", !.fresh = FALSE]
       IN  st' = CASE s.fsm = "PreIdleDelay" ->
                        (CASE s.vote = "Off" -> [s EXCEPT !.fsm = "Idle"]
                           [] s.vote = "Crushed" -> EnterCrushed(s)
                           [] s.vote = "Cubed" -> EnterCubed(s))
                   [] s.fsm = "Crushed" -> SetAugerMotorPowerTo(s, TRUE)
                   [] s.fsm = "DispensingComplete" -> EnterMoveInReverseDirection(s)
                   [] s.fsm = "MoveInReverseDirection" /\ st.timer = "delay" ->
                        [SetAugerMotorPowerTo(s, TRUE) EXCEPT !.timer = "relief"]
                   [] s.fsm = "MoveInReverseDirection" /\ st.timer = "relief" -> EnterEnsureRelaysAreOff(s)
                   [] s.fsm = "EnsureRelaysAreOff" ->
                        EnterPreIdleDelay(SetAugerMotorDirectionRelayTo(s, FALSE))

\* However quickly the ice type is voted back and forth, the direction is
\* only switched without power, a delay lies between the operation of a
\* relay and the next that switches the direction or the power on, and the
\* auger rests only when nobody wants ice.
AugerRelaysAreSpared ==
    [][unit = "auger" =>
        /\ st'.direction # st.direction => ~st.power /\ ~st'.power
        /\ st'.direction # st.direction \/ (st'.power /\ ~st.power) =>
               ~st.fresh \/ st'.vote = st.vote     \* a delay ends in this step
        /\ st'.fsm = "Idle" => st'.vote = "Off" /\ ~st'.power /\ ~st'.direction]_unitVars

-----------------------------------------------------------------------------
(* The light of a compartment: the user's level, LightingDoorVoteResolver, *)
(* LightingController.                                                     *)

\* UserAllowableInteriorLightingRequestHandler clamps the request, and
\* UserAllowableInteriorLightingResolver scales it, for every light that is
\* in the bitmap of the request.
ClampedRequest(request) == IF request > 100 THEN 100 ELSE request
AllowableLevel(request) == (MaxDutyCycle * ClampedRequest(request)) \div 100
SetLightState(s, request) == IF s.allowable THEN [s EXCEPT !.level = AllowableLevel(request)] ELSE s

LightLevel(s) == IF s.allowable THEN s.level ELSE MaxDutyCycle

\* LightingController follows the vote.
Vote(s, percentage) == [s EXCEPT !.vote = percentage, !.pwm = (percentage * MaximumLight) \div 100]

\* The light jumps to the minimum before it ramps up.
SetRampingPwmDutyCyclePercentageToMinThenToMax(s) == Vote(Vote(s, MinDutyCycle), LightLevel(s))
SetRampingPwmDutyCyclePercentageToMinCycle(s) == Vote(s, 0)
StartMaxDoorOpenTimer(s) == [s EXCEPT !.timer = TRUE]
StopMaxDoorOpenTimer(s) == [s EXCEPT !.timer = FALSE]

\* State_AnAssociatedDoorIsOpen, State_AllAssociatedDoorsAreClosed.
EnterAssociatedDoorIsOpen(s) ==
    StartMaxDoorOpenTimer([SetRampingPwmDutyCyclePercentageToMinThenToMax(s) EXCEPT !.fsm = "Open", !.relit = FALSE])
EnterDoorsAreClosed(s) ==
    [SetRampingPwmDutyCyclePercentageToMinCycle(StopMaxDoorOpenTimer(s)) EXCEPT !.fsm = "Closed", !.relit = FALSE]

LightingInit ==
    /\ unit = "lighting"
    /\ \E open \in SUBSET LightDoors, allowable \in BOOLEAN, request \in LightLevels :
        LET s == [open |-> open, allowable |-> allowable,
                  level |-> 0, fsm |-> "none", vote |-> 0, pwm |-> 0, timer |-> FALSE, relit |-> FALSE]
        IN  st = IF open = {} THEN EnterDoorsAreClosed(SetLightState(s, request))
                              ELSE EnterAssociatedDoorIsOpen(SetLightState(s, request))

LightDoorChanges ==
    /\ Runs("lighting")
    /\ \E d \in LightDoors :
        LET s == [st EXCEPT !.open = IF d \in @ THEN @ \ {d} ELSE @ \cup {d}]
        IN  st' = CASE s.open = {} /\ s.fsm = "Open" -> EnterDoorsAreClosed(s)
                    [] d \in s.open /\ s.fsm = "Closed" -> EnterAssociatedDoorIsOpen(s)
                    [] d \in s.open /\ s.fsm = "Open" -> StartMaxDoorOpenTimer(s)
                    [] OTHER -> s

\* Mutant: the light keeps the level it was switched on with.
UserAllowableLightStateChangesLater(s) == s

\* Signal_UserAllowableLightStateChanged.
UserAllowableLightStateChanges(s) ==
    IF s.fsm = "Open" THEN [SetRampingPwmDutyCyclePercentageToMinThenToMax(s) EXCEPT !.relit = @ \/ ~s.timer] ELSE s

\* A request becomes the status, and the status the state of the light.
LightIsRequested ==
    /\ Runs("lighting") /\ st.allowable
    /\ \E request \in LightLevels :
        /\ AllowableLevel(request) # st.level
        /\ st' = UserAllowableLightStateChanges(SetLightState(st, request))

MaxDoorOpenTimeExpires ==
    /\ Runs("lighting") /\ st.timer
    /\ st' = SetRampingPwmDutyCyclePercentageToMinCycle([st EXCEPT !.timer = FALSE])

\* A light is on only behind an open door and, unless the user dims it after
\* its time is up, only while its time runs; a light whose time runs and that
\* has not been switched off has the level the user wants now.
LightsFollowTheDoors ==
    unit = "lighting" =>
        /\ st.open = {} => st.vote = 0 /\ ~st.timer
        /\ st.vote > 0 => st.timer \/ st.relit
        /\ st.vote \in {0, LightLevel(st)}

-----------------------------------------------------------------------------
(* Heaters that follow the surroundings: VariableSweatHeaterDutyCycle-     *)
(* Calculator.c and NonHarvestFillTubeHeaterControl.c.  T, H, F and Z are  *)
(* the ambient temperature and humidity and the two set points.            *)

SweatVariables(type) ==
    CASE type = 1 -> {"T"} [] type = 2 -> {"T", "H"} [] type = 3 -> {"T", "F"} [] type = 4 -> {"T", "Z"}
      [] type = 5 -> {"T", "H", "F"} [] type = 6 -> {"T", "H", "Z"} [] type = 7 -> {"T", "H", "F", "Z"}

\* The products of the polynomial; type 2 has no square of the humidity.
SweatProducts(type) ==
    {{a, b} : a, b \in SweatVariables(type)} \ (IF type = 2 THEN {{"H"}} ELSE {})

\* Division in C rounds towards zero.
TruncatedQuotient(a, b) == IF a >= 0 THEN a \div b ELSE -((-a) \div b)
ClampToPercentage(x) == IF x < 0 THEN 0 ELSE IF x > 100 THEN 100 ELSE x

SweatPolynomial(s) ==
    LET linear(v) ==
            IF v \in SweatVariables(s.type) THEN TruncatedQuotient(SweatLinear[v] * s[v], 100) ELSE 0
        quadratic(v, w) ==
            IF {v, w} \in SweatProducts(s.type)
            THEN TruncatedQuotient(SweatQuadratic[{v, w}] * s[v] * s[w], 10000) ELSE 0
    IN  linear("T") + linear("H") + linear("F") + linear("Z")
        + quadratic("T", "T") + quadratic("H", "H") + quadratic("F", "F") + quadratic("Z", "Z")
        + quadratic("T", "H") + quadratic("T", "F") + quadratic("T", "Z")
        + quadratic("H", "F") + quadratic("H", "Z") + quadratic("F", "Z")

CaresAboutHumidity(type) == type \notin {1, 3, 4}

CalculateDutyCycle(s) ==
    ClampToPercentage(
        IF ~s.temperatureIsValid \/ (~s.humidityIsValid /\ CaresAboutHumidity(s.type)) THEN SweatFallback
        ELSE TruncatedQuotient(SweatPolynomial(s) + SweatIntercept, 1000))

\* UpdateNonHarvestFillTubeHeaterControlVote.  A product whose duty cycles are
\* all zero never asks for the heater.
FillTubeDutyCycle(s) ==
    CASE ~s.heats -> "do not care"
      [] s.heats /\ s.cold /\ s.compressorIsOn /\ s.fanIsOn /\ s.iceMaking -> "formation"
      [] s.heats /\ s.cold /\ s.compressorIsOn /\ s.fanIsOn /\ ~s.iceMaking -> "maintenance"
      [] OTHER -> "off"

SweatHeaterInit ==
    /\ unit = "sweat heater"
    /\ \E type \in 1..7, t, h, f, z \in SweatInputs :
        LET s == [type |-> type, T |-> t, H |-> h, F |-> f, Z |-> z,
                  temperatureIsValid |-> TRUE, humidityIsValid |-> TRUE, vote |-> 0]
        IN  st = [s EXCEPT !.vote = CalculateDutyCycle(s)]

FillTubeInit ==
    /\ unit = "fill tube heater"
    /\ \E heats, cold, compressorIsOn, fanIsOn, iceMaking \in BOOLEAN :
        LET s == [heats |-> heats, cold |-> cold, compressorIsOn |-> compressorIsOn, fanIsOn |-> fanIsOn,
                  iceMaking |-> iceMaking, vote |-> "none"]
        IN  st = [s EXCEPT !.vote = FillTubeDutyCycle(s)]

\* Mutant: a set point is only read when the surroundings change.
SweatInputChangesDeaf(s, v) ==
    IF v \in {"F", "Z"} THEN s ELSE [s EXCEPT !.vote = CalculateDutyCycle(s)]

SweatInputChanges(s, v) == [s EXCEPT !.vote = CalculateDutyCycle(s)]

SurroundingsChange ==
    /\ Runs("sweat heater")
    /\ \/ \E v \in {"T", "H", "F", "Z"} : \E x \in SweatInputs : st' = SweatInputChanges([st EXCEPT ![v] = x], v)
       \/ \E v \in {"temperatureIsValid", "humidityIsValid"} : st' = SweatInputChanges([st EXCEPT ![v] = ~@], v)

FillTubeInputChanges ==
    /\ Runs("fill tube heater")
    /\ \E x \in {"cold", "compressorIsOn", "fanIsOn", "iceMaking"} :
        LET s == [st EXCEPT ![x] = ~@]
        IN  st' = [s EXCEPT !.vote = IF s.heats THEN FillTubeDutyCycle(s) ELSE @]

\* No vote of these heaters is older than what it was worked out from, in
\* any order of changes; a heater of the humidity does not lose its fallback.
HeaterVotesAreFresh ==
    /\ unit = "sweat heater" => st.vote = CalculateDutyCycle(st) /\ st.vote \in 0..100
    /\ unit = "fill tube heater" => st.vote = FillTubeDutyCycle(st)

-----------------------------------------------------------------------------
(* SoftPwm.c, with the initial delays that stagger the heaters.            *)

\* PeriodTimerExpired.
SoftPwmPeriodBegins(s) ==
    IF s.duty = 0 THEN [s EXCEPT !.begun = 0]
    ELSE [s EXCEPT !.begun = s.duty, !.gpio = TRUE, !.onTimer = @ \/ s.duty < PwmMax]

\* Mutant: the on time runs out by itself later.
SoftPwmDutyCycleChangedSlowly(s) == s

SoftPwmDutyCycleChanged(s) == IF s.duty = 0 THEN [s EXCEPT !.gpio = FALSE, !.onTimer = FALSE] ELSE s

SoftPwmInit ==
    /\ unit = "soft pwm"
    /\ \E duty \in 0..PwmMax : st = [duty |-> duty, begun |-> 0, gpio |-> FALSE, onTimer |-> FALSE]

DutyCycleChanges ==
    /\ Runs("soft pwm")
    /\ \E duty \in 0..PwmMax \ {st.duty} : st' = SoftPwmDutyCycleChanged([st EXCEPT !.duty = duty])

\* DelayTimerExpired begins the first period.  The on time is shorter than
\* the period, so it has ended when the next begins.
PeriodTimerExpires ==
    /\ Runs("soft pwm") /\ ~st.onTimer
    /\ st' = SoftPwmPeriodBegins(st)

DutyCycleOnCompletes ==
    /\ Runs("soft pwm") /\ st.onTimer
    /\ st' = [st EXCEPT !.gpio = FALSE, !.onTimer = FALSE]

\* A heater is never on without a way off, however the duty cycle changes
\* within a period: its on time runs, or the period began with the full
\* duty cycle; and none is on at duty cycle zero.
HeaterCanSwitchOff ==
    unit = "soft pwm" =>
        /\ st.gpio => st.onTimer \/ st.begun = PwmMax
        /\ st.onTimer => st.gpio
        /\ st.duty = 0 => ~st.gpio

-----------------------------------------------------------------------------
(* ConvertibleCompartmentDoorStateResolver.c: one door, reported as that   *)
(* of the compartment it is at the time.                                   *)

ConvertibleDoorInit ==
    /\ unit = "convertible door"
    /\ \E open \in BOOLEAN, state \in {"FreshFood", "Freezer"} :
        st = [open |-> open, state |-> state, asFreshFood |-> open /\ state = "FreshFood",
              asFreezer |-> open /\ state = "Freezer"]

ConvertibleDoorChanges ==
    /\ Runs("convertible door")
    /\ LET s == [st EXCEPT !.open = ~@]
       IN  st' = IF s.state = "FreshFood" THEN [s EXCEPT !.asFreshFood = s.open] ELSE [s EXCEPT !.asFreezer = s.open]

\* Mutant: the door of the other compartment stays as it was.
DoorOfNewStateKeepsOther(s) ==
    IF s.state = "FreshFood" THEN [s EXCEPT !.asFreshFood = s.open] ELSE [s EXCEPT !.asFreezer = s.open]

\* A closed door only closes the one of the new state.
DoorOfNewState(s) ==
    CASE s.open -> [s EXCEPT !.asFreshFood = s.state = "FreshFood", !.asFreezer = s.state # "FreshFood"]
      [] ~s.open /\ s.state = "FreshFood" -> [s EXCEPT !.asFreshFood = FALSE]
      [] ~s.open /\ s.state # "FreshFood" -> [s EXCEPT !.asFreezer = FALSE]

ConvertibleStateChanges ==
    /\ Runs("convertible door")
    /\ st' = DoorOfNewState([st EXCEPT !.state = IF @ = "Freezer" THEN "FreshFood" ELSE "Freezer"])

\* The two doors that other components see are the one door there is.
ConvertibleDoorIsOneDoor ==
    unit = "convertible door" =>
        /\ st.asFreshFood = (st.open /\ st.state = "FreshFood")
        /\ st.asFreezer = (st.open /\ st.state = "Freezer")

-----------------------------------------------------------------------------
(* BoardsInSystem.c and AndroidSignOfLifeMonitor.c.  pending are requests  *)
(* under way: each is answered or lost, and an answer may be late.         *)

RequestVersionFromUnaccountedForBoards(s) ==
    [s EXCEPT !.pending = @ \cup (Boards \ s.inSystem), !.retries = @ + 1]

BoardsInit ==
    /\ unit = "boards"
    /\ \E known \in SUBSET Boards :
        st = [phase |-> "delay", retries |-> 0, inSystem |-> known, pending |-> {}, faults |-> {},
              missed |-> [b \in Boards |-> 0], watchdog |-> AndroidBoard \in known]

InitialDelayTimerExpires ==
    /\ Runs("boards") /\ st.phase = "delay"
    /\ st' = RequestVersionFromUnaccountedForBoards([st EXCEPT !.phase = "discovery", !.retries = 0])

RetryTimerExpires ==
    /\ Runs("boards") /\ st.phase = "discovery"
    /\ LET s == RequestVersionFromUnaccountedForBoards(st)
       IN  st' = IF s.retries = DiscoveryRetries THEN [s EXCEPT !.phase = "monitoring"] ELSE s

\* Mutant: the request that has just been sent counts as missed.
MonitorBoardsEarly(s) ==
    LET missed == [b \in Boards |-> IF b \in s.inSystem /\ s.missed[b] < MissedCap THEN s.missed[b] + 1 ELSE s.missed[b]]
    IN  [s EXCEPT !.missed = missed, !.faults = @ \cup {b \in s.inSystem : missed[b] >= MissedLimit},
                  !.pending = @ \cup s.inSystem]

\* The faults are set before the requests are counted and sent.
MonitorBoards(s) ==
    [s EXCEPT !.faults = @ \cup {b \in s.inSystem : s.missed[b] >= MissedLimit},
              !.missed = [b \in Boards |-> IF b \in s.inSystem /\ @[b] < MissedCap THEN @[b] + 1 ELSE @[b]],
              !.pending = @ \cup s.inSystem]

MonitoringTimerExpires ==
    /\ Runs("boards") /\ st.phase = "monitoring"
    /\ st' = MonitorBoards(st)

\* Gea2PacketReceived, AndroidBoardInSystemChanged.
BoardAnswers ==
    /\ Runs("boards")
    /\ \E b \in st.pending :
        st' = [st EXCEPT !.pending = @ \ {b}, !.inSystem = @ \cup {b}, !.missed[b] = 0,
                         !.faults = @ \ {b}, !.watchdog = @ \/ b = AndroidBoard]

BoardRequestIsLost ==
    /\ Runs("boards")
    /\ \E b \in st.pending : st' = [st EXCEPT !.pending = @ \ {b}]

\* A board has a communication fault exactly when it has missed more than
\* the limit of requests in a row, whatever is lost or late, and only boards
\* that have been seen are watched.
BoardFaultsAreEarned ==
    unit = "boards" =>
        /\ \A b \in Boards : b \in st.faults <=> st.missed[b] > MissedLimit
        /\ st.faults \subseteq st.inSystem
        /\ st.watchdog <=> AndroidBoard \in st.inSystem

-----------------------------------------------------------------------------
(* FactoryMode.c and BroadcastReset.c.                                     *)

\* What the factory mode turns off: the loads by their votes and the lights
\* by theirs, and what has no vote by its ERD.
FactoryVotes == {"loads", "lights", "values"}
FillOffValueInFactoryVote(s) == [s EXCEPT !.off = @ \cup {"loads"}]
VoteOffForAllLights(s) == [s EXCEPT !.off = @ \cup {"lights"}]
WriteOffToErdValuePairs(s) == [s EXCEPT !.off = @ \cup {"values"}]
VoteOffForAllTheLoads(s) == VoteOffForAllLights(FillOffValueInFactoryVote(s))

EnterFactoryMode(s) ==
    IF s.entered THEN s ELSE [VoteOffForAllTheLoads(WriteOffToErdValuePairs(s)) EXCEPT !.entered = TRUE]

\* Mutant: the end of the time only stops the countdown.
FactoryModeTimeChangedWithoutReset(s) ==
    IF s.time > 0 THEN [EnterFactoryMode(s) EXCEPT !.timer = TRUE] ELSE [s EXCEPT !.timer = FALSE]

FactoryModeTimeChanged(s) ==
    IF s.time > 0 THEN [EnterFactoryMode(s) EXCEPT !.timer = TRUE] ELSE [s EXCEPT !.reset = TRUE]

FactoryModeAtStart == [time |-> 0, entered |-> FALSE, off |-> {}, timer |-> FALSE, reset |-> FALSE, requested |-> 0]

FactoryInit == unit = "factory mode" /\ st = FactoryModeAtStart

FactoryTimeIsRequested ==
    /\ Runs("factory mode")
    /\ \E t \in FactoryTimes \ {st.time} : st' = FactoryModeTimeChanged([st EXCEPT !.time = t, !.requested = t])

FactoryMinuteEnds ==
    /\ Runs("factory mode") /\ st.timer
    /\ st' = FactoryModeTimeChanged([st EXCEPT !.timer = FALSE, !.time = (@ - 1) % TimeModulus])

\* The boards start again some seconds after the broadcast.
BoardsReset ==
    /\ Runs("factory mode") /\ st.reset
    /\ st' = FactoryModeAtStart

\* Factory mode always has an end: the loads stay off until every board is
\* reset, the countdown runs or the reset has been broadcast, and a countdown
\* that runs on below zero after the broadcast does not take it back.
FactoryModeEnds ==
    unit = "factory mode" =>
        /\ st.entered => st.off = FactoryVotes /\ (st.timer \/ st.reset)
        /\ st.time > st.requested => st.reset

-----------------------------------------------------------------------------
CabinetServicesInit ==
    \/ AugerInit \/ LightingInit \/ SweatHeaterInit \/ FillTubeInit \/ SoftPwmInit
    \/ ConvertibleDoorInit \/ BoardsInit \/ FactoryInit

CabinetServicesNext ==
    \/ IceTypeVoteChanges \/ AugerTimerExpires
    \/ LightDoorChanges \/ LightIsRequested \/ MaxDoorOpenTimeExpires
    \/ SurroundingsChange \/ FillTubeInputChanges
    \/ DutyCycleChanges \/ PeriodTimerExpires \/ DutyCycleOnCompletes
    \/ ConvertibleDoorChanges \/ ConvertibleStateChanges
    \/ InitialDelayTimerExpires \/ RetryTimerExpires \/ MonitoringTimerExpires \/ BoardAnswers \/ BoardRequestIsLost
    \/ FactoryTimeIsRequested \/ FactoryMinuteEnds \/ BoardsReset

\* Each service ends every event with outputs that belong to its inputs, and
\* with the timer it needs to end what it has begun.
ServicesFollowTheirInputs ==
    /\ LightsFollowTheDoors
    /\ HeaterVotesAreFresh
    /\ HeaterCanSwitchOff
    /\ ConvertibleDoorIsOneDoor
    /\ BoardFaultsAreEarned
    /\ FactoryModeEnds
=============================================================================
