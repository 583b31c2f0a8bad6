------------------------- MODULE SetpointsAndSensors -------------------------
(***************************************************************************)
(* From a reading to the temperature that the grid compares, and from the  *)
(* request of a user to the adjusted set point it compares it with.        *)
(* Temperatures are in hundredths of a degree Fahrenheit, as in the code.  *)
(***************************************************************************)
EXTENDS ControlUnits, Integers, Sequences, FiniteSets, FiniteSetsExt

CONSTANTS
    LowSetpoint, HighSetpoint, DefaultSetpoint, AskedSetpoints, \* degrees
    TurboSetpoint, TurboTime, OtherVotes, SabbathSetpoint, NoSetpointVote,
    ColdBound, WarmBound, ZoneOffset, CabinetOffset, PulldownOffset,
    CrossSlope, CrossMinimum, CrossMaximum, AmbientAverages,
    HumiditySetpoint, HumidityOffset,
    ShiftTemperatures, ShiftSetpoints, Beta, LowerAdjustment, UpperAdjustment,
    MinShift, MaxShift, PostDefrostShift, FeedCap,
    Readings, BadReading, FallbackValue, GoodMax, BadMax, SlewLimit, RunCap,
    AverageCount        \* samples in the window of the ambient average

ASSUME SetpointsAndSensorsAssumption ==
    /\ DefaultSetpoint \in LowSetpoint .. HighSetpoint /\ ColdBound < WarmBound
    /\ {TurboTime, Beta, GoodMax, BadMax, AverageCount} \subseteq Nat \ {0}
    /\ Readings \subseteq Int /\ BadReading \in Readings /\ SlewLimit \in Nat
    /\ RunCap \in Nat /\ RunCap >= GoodMax /\ RunCap >= BadMax
    /\ {LowSetpoint, HighSetpoint, ColdBound, WarmBound, CrossSlope} \subseteq Int
    /\ AskedSetpoints \subseteq Int /\ AmbientAverages \subseteq Int
    /\ ShiftTemperatures \subseteq Int /\ ShiftSetpoints \subseteq Int
    /\ {LowerAdjustment, UpperAdjustment} \subseteq Int
    /\ 0 \in MinShift .. MaxShift /\ PostDefrostShift \in MinShift .. MaxShift

\* No set point is the value that stands for no vote, and the values of the
\* data sheets are so far from the limits of an int16_t that no sum meets them.
SetpointLimit == 20000
OffsetLimit == 2000
Setpoints == -SetpointLimit .. SetpointLimit
Offsets == -OffsetLimit .. OffsetLimit
ASSUME TemperaturesFit ==
    /\ {100 * d : d \in LowSetpoint .. HighSetpoint} \subseteq Setpoints
    /\ OtherVotes \cup {TurboSetpoint, SabbathSetpoint} \subseteq Setpoints
    /\ NoSetpointVote \in Int /\ NoSetpointVote \notin Setpoints
    /\ ZoneOffset \in [{"Cold", "Middle", "Warm"} -> Offsets]
    /\ {CabinetOffset, PulldownOffset, HumidityOffset, CrossMinimum, CrossMaximum,
        MinShift, MaxShift} \subseteq Offsets
    /\ CrossMinimum <= CrossMaximum

INT16_MIN == -32768
INT16_MAX == 32767
SmallerOf(a, b) == IF a <= b THEN a ELSE b
LargerOf(a, b) == IF a >= b THEN a ELSE b
Clamped(n, low, high) == SmallerOf(high, LargerOf(low, n))
\* Division of the language: it truncates towards zero.
Quotient(a, b) == IF a >= 0 THEN a \div b ELSE -((-a) \div b)

-----------------------------------------------------------------------------
(* The set point of a compartment.                                         *)

\* ColdestOfSetpointVotes: the first of the coldest votes that care.
SetpointVoters == <<"turbo", "other", "user">>
SetpointVote(s, v) ==
    CASE v = "turbo" -> s.turboVote
      [] v = "other" -> s.other
      [] v = "user" -> 100 * s.status
ColdestVoter(s) ==
    LET care == {i \in 1 .. 3 : SetpointVote(s, SetpointVoters[i]) # NoSetpointVote}
        Temperature(i) == SetpointVote(s, SetpointVoters[i])
    IN  SetpointVoters[Min({i \in care : \A j \in care : Temperature(i) <= Temperature(j)})]

\* SetpointZoneResolver.
SetSetpointZone(temperature) ==
    IF temperature <= ColdBound THEN "Cold" ELSE IF temperature >= WarmBound THEN "Warm" ELSE "Middle"

CrossAmbientOffset(average) ==
    Clamped(Quotient(CrossSlope * (average - 9000), 1000), CrossMinimum, CrossMaximum)
HighAmbientHumidityOffset(s) ==
    IF s.humidityValid /\ s.status < HumiditySetpoint /\ s.humid THEN HumidityOffset ELSE 0

\* I16ErdAdder: the sum is clamped after every addend.
AddErd(sum, addend) == Clamped(sum + addend, INT16_MIN, INT16_MAX)
AdjustedWithoutShift(s) ==
    LET byPosition == AddErd(AddErd(s.resolved, CabinetOffset), s.zoneOffset)
    IN  AddErd(AddErd(AddErd(byPosition, s.cross), s.highAmbient), s.pulldown)
AdderHears(s) == [s EXCEPT !.adjusted = AddErd(AdjustedWithoutShift(s), s.shift)]

\* Mutant: the offset of the zone is not written when the zone changes.
ResolvedVoteChangesWithoutZone(s, t) ==
    IF t = s.resolved THEN s ELSE AdderHears([s EXCEPT !.resolved = t, !.zone = SetSetpointZone(t)])

\* The writer of the resolved set point, the zone and the offset of the zone
\* hear the resolved vote, and the adders hear them.
ResolvedVoteChanges(s, t) ==
    LET zone == SetSetpointZone(t)
    IN  IF t = s.resolved THEN s
        ELSE AdderHears([s EXCEPT !.resolved = t, !.zone = zone, !.zoneOffset = ZoneOffset[zone]])

\* ErdResolver asks the enhanced Sabbath vote before the coldest one.
SetpointVotesChange(s) ==
    LET winner == ColdestVoter(s)
        t == [s EXCEPT !.winner = winner]
    IN  ResolvedVoteChanges(t, IF s.sabbath # NoSetpointVote THEN s.sabbath ELSE SetpointVote(s, winner))

\* SetpointTurboMode.
TurboModeRequestedOn(s) == [s EXCEPT !.turboVote = TurboSetpoint, !.turboTimer = TRUE]

\* Mutant: the on-time is kept.
TurboModeRequestedOffKeepsTime(s) ==
    [s EXCEPT !.turboTimer = FALSE, !.turboVote = NoSetpointVote, !.turbo = FALSE]

TurboModeRequestedOff(s) ==
    [s EXCEPT !.turboTimer = FALSE, !.turboVote = NoSetpointVote, !.minutes = 0, !.turbo = FALSE]

\* Initialisation over the ERDs that survive a loss of power: the status of
\* the set point, the state of the turbo mode and its on-time.
SetpointAtPowerUp(status, turbo, minutes, average) ==
    LET temperature == 100 * status
        s == [status |-> status, turbo |-> turbo, minutes |-> minutes, turboVote |-> NoSetpointVote,
              turboTimer |-> FALSE, other |-> NoSetpointVote, sabbath |-> NoSetpointVote, winner |-> "user",
              resolved |-> temperature, zone |-> SetSetpointZone(temperature),
              zoneOffset |-> ZoneOffset[SetSetpointZone(temperature)], average |-> average,
              cross |-> 0, humid |-> FALSE, humidityValid |-> TRUE, highAmbient |-> 0,
              pulldown |-> 0, shift |-> 0, adjusted |-> 0]
        t == AdderHears(s)
    IN  IF turbo THEN SetpointVotesChange(TurboModeRequestedOn(t)) ELSE t

SetpointInit ==
    /\ unit = "set point"
    /\ \E average \in AmbientAverages : st = SetpointAtPowerUp(DefaultSetpoint, FALSE, 0, average)

SetpointPowerFails ==
    Runs("set point") /\ st' = SetpointAtPowerUp(st.status, st.turbo, st.minutes, st.average)

\* The request is reset in the same handler, so that any request is new.
RequestedSetpointUpdated ==
    /\ Runs("set point")
    /\ \E asked \in AskedSetpoints :
         LET s == [st EXCEPT !.status = asked]
             t == [s EXCEPT !.highAmbient = HighAmbientHumidityOffset(s)]
         IN  st' = IF asked \in LowSetpoint .. HighSetpoint /\ asked # st.status
                     THEN AdderHears(SetpointVotesChange(t)) ELSE st

TurboModeStatusChanged ==
    /\ Runs("set point")
    /\ st' = SetpointVotesChange(IF st.turbo THEN TurboModeRequestedOff(st)
                                 ELSE TurboModeRequestedOn([st EXCEPT !.turbo = TRUE]))

AddElapsedMinutesToTurboModeOnTime ==
    /\ Runs("set point")
    /\ st.turboTimer
    /\ LET s == [st EXCEPT !.minutes = @ + 1]
       IN  st' = IF s.minutes >= TurboTime THEN SetpointVotesChange(TurboModeRequestedOff(s)) ELSE s

OtherVoterVotes ==
    /\ Runs("set point")
    /\ \/ \E v \in (OtherVotes \cup {NoSetpointVote}) \ {st.other} : st' = SetpointVotesChange([st EXCEPT !.other = v])
       \/ \E v \in {SabbathSetpoint, NoSetpointVote} \ {st.sabbath} : st' = SetpointVotesChange([st EXCEPT !.sabbath = v])

AmbientChanges ==
    /\ Runs("set point")
    /\ \/ \E a \in AmbientAverages \ {st.average} :
            st' = AdderHears([st EXCEPT !.average = a, !.cross = CrossAmbientOffset(a)])
       \/ LET s == [st EXCEPT !.humid = ~@]
          IN  st' = AdderHears([s EXCEPT !.highAmbient = HighAmbientHumidityOffset(s)])

\* The offset does not hear the validity of the humidity sensor.
HumiditySensorChanges == Runs("set point") /\ st' = [st EXCEPT !.humidityValid = ~@]

\* No module writes the offset of the pulldown: it comes from outside.
PulldownOffsetChanges ==
    /\ Runs("set point")
    /\ \E offset \in {0, PulldownOffset} \ {st.pulldown} :
         st' = AdderHears([st EXCEPT !.pulldown = offset])

ThermalShiftChanges ==
    /\ Runs("set point")
    /\ \E shift \in {MinShift, 0, MaxShift} : st' = AdderHears([st EXCEPT !.shift = shift])

-----------------------------------------------------------------------------
(* ShiftOffsetCalculator over Filter_LongTermAverage.  low and high bound  *)
(* what the filter has seen since it was seeded; fed counts its feeds.     *)

FilterSeed(s, t) ==
    [s EXCEPT !.average1 = t, !.average2 = t, !.average3 = t, !.low = t, !.high = t, !.fed = 0]
\* The filter calls itself ready while its average is not zero.
FilterIsReady(s) == s.average1 # 0

\* Mutant: the last average follows the reading itself, undivided.
FilterFeedUndivided(s, t) ==
    LET a3 == s.average3 + (t - s.average3)
        a2 == s.average2 + (a3 - s.average2)
    IN  [s EXCEPT !.average3 = a3, !.average2 = a2, !.average1 = s.average1 + Beta * (a2 - s.average1),
                  !.low = SmallerOf(@, t), !.high = LargerOf(@, t), !.fed = @ + 1]

FilterFeed(s, t) ==
    LET a3 == s.average3 + Quotient(t - s.average3, Beta)
        a2 == s.average2 + Quotient(a3 - s.average2, Beta)
    IN  [s EXCEPT !.average3 = a3, !.average2 = a2, !.average1 = s.average1 + Quotient(a2 - s.average1, Beta),
                  !.low = SmallerOf(@, t), !.high = LargerOf(@, t), !.fed = @ + 1]

ShiftInit ==
    /\ unit = "shift"
    /\ \E t \in ShiftTemperatures, setpoint \in ShiftSetpoints :
         st = FilterSeed([average1 |-> 0, average2 |-> 0, average3 |-> 0, low |-> 0, high |-> 0, fed |-> 0,
                          temperature |-> t, setpoint |-> setpoint, shift |-> 0, defrost |-> "other"], setpoint)

LongTermAverageUpdateTimeExpired ==
    /\ Runs("shift")
    /\ st.fed < FeedCap
    /\ st' = IF FilterIsReady(st) THEN FilterFeed(st, st.temperature) ELSE FilterSeed(st, st.temperature)

ShiftFor(difference) ==
    IF difference > 100 THEN -10 ELSE IF difference > 20 THEN -2
    ELSE IF difference < -100 THEN 10 ELSE IF difference < -20 THEN 2 ELSE 0

ShiftOffsetCalculateTimeExpired ==
    /\ Runs("shift")
    /\ st' = IF st.average1 > st.setpoint - LowerAdjustment /\ st.average1 < st.setpoint + UpperAdjustment
               THEN [st EXCEPT !.shift = Clamped(@ + ShiftFor(st.average1 - st.setpoint), MinShift, MaxShift)]
               ELSE st

ResetThermalShift == Runs("shift") /\ st' = [FilterSeed(st, st.setpoint) EXCEPT !.shift = 0]

\* PostDwellCompletionSignalRequester: only a dwell that ends in Idle signals.
DefrostHsmStateUpdated ==
    /\ Runs("shift")
    /\ \E state \in {"PostDwell", "Idle", "other"} \ {st.defrost} :
         st' = [st EXCEPT !.defrost = state,
                  !.shift = IF st.defrost = "PostDwell" /\ state = "Idle" THEN PostDefrostShift ELSE @]

ShiftInputChanges ==
    /\ Runs("shift")
    /\ \/ \E t \in ShiftTemperatures \ {st.temperature} : st' = [st EXCEPT !.temperature = t]
       \/ \E t \in ShiftSetpoints \ {st.setpoint} : st' = [st EXCEPT !.setpoint = t]

-----------------------------------------------------------------------------
(* SensorFiltering over Filter_Fallback, Filter_Slew and an average.  run  *)
(* counts the latest readings of one quality, good or bad.                 *)

ValueIsValid(reading) == reading # BadReading

\* Filter_Scaled over the library's moving average, with one half of weight.
AverageFeed(old, reading) == Quotient(Quotient(255 * old + 255 * reading, 2), 255)

\* The parametric data of a sensor may leave the slew filter out.
SlewRead(s) ==
    IF ~s.slews \/ ~s.hasPrevious THEN s.average
    ELSE Clamped(s.average, s.previous - SlewLimit, s.previous + SlewLimit)

WrappedSeed(s, reading) == [s EXCEPT !.average = reading, !.hasPrevious = FALSE]

\* Mutant: a single good reading ends a fault.
FeedTrusting(s, reading) ==
    IF ValueIsValid(reading)
      THEN IF s.valid THEN [s EXCEPT !.bad = 0, !.average = AverageFeed(@, reading)]
           ELSE [WrappedSeed(s, reading) EXCEPT !.bad = 0, !.good = @ + 1, !.valid = TRUE]
      ELSE [s EXCEPT !.good = 0, !.bad = IF s.valid THEN @ + 1 ELSE @,
                     !.valid = @ /\ s.bad + 1 # BadMax]

Feed(s, reading) ==
    IF ValueIsValid(reading)
      THEN IF s.valid THEN [s EXCEPT !.bad = 0, !.average = AverageFeed(@, reading)]
           ELSE IF s.good + 1 = GoodMax
             THEN [WrappedSeed(s, reading) EXCEPT !.bad = 0, !.good = @ + 1, !.valid = TRUE]
             ELSE [s EXCEPT !.bad = 0, !.good = @ + 1]
      ELSE [s EXCEPT !.good = 0, !.bad = IF s.valid THEN @ + 1 ELSE @,
                     !.valid = @ /\ s.bad + 1 # BadMax]

\* Reading the filters moves the slew filter on.
UpdateFiltered(s) ==
    IF s.valid THEN [s EXCEPT !.filtered = SlewRead(s), !.previous = SlewRead(s), !.hasPrevious = TRUE]
    ELSE [s EXCEPT !.filtered = FallbackValue]

\* ExternalFilteredSensorResolver.
UpdateResolvedSensorErds(s) ==
    IF s.checked /\ ~s.valid /\ s.externalValid
      THEN [s EXCEPT !.resolved = s.external, !.resolvedValid = TRUE]
      ELSE [s EXCEPT !.resolved = s.filtered, !.resolvedValid = s.valid]

SensorInit ==
    /\ unit = "sensor"
    /\ \E reading \in Readings, mapped, discoverable, checked, slews \in BOOLEAN :
         LET valid == ValueIsValid(reading)
             known == valid \/ (mapped /\ ~discoverable)
         IN  st = UpdateResolvedSensorErds(UpdateFiltered(
               [good |-> 0, bad |-> 0, valid |-> valid, average |-> reading, previous |-> 0,
                hasPrevious |-> FALSE, filtered |-> 0, discovered |-> known, fault |-> known /\ ~valid,
                run |-> [good |-> valid, length |-> IF valid THEN GoodMax ELSE BadMax],
                slews |-> slews, checked |-> checked, external |-> 0, externalValid |-> FALSE,
                resolved |-> 0, resolvedValid |-> FALSE]))

RunAfter(run, good) ==
    IF run.good = good THEN [run EXCEPT !.length = SmallerOf(@ + 1, RunCap)]
    ELSE [good |-> good, length |-> 1]

UpdateSensorValues ==
    /\ Runs("sensor")
    /\ \E reading \in Readings :
         LET s == UpdateFiltered(Feed(st, reading))
             t == [s EXCEPT !.discovered = @ \/ s.valid, !.run = RunAfter(@, ValueIsValid(reading))]
         IN  st' = UpdateResolvedSensorErds([t EXCEPT !.fault = IF t.discovered THEN ~t.valid ELSE @])

ExternalSensorChanges ==
    /\ Runs("sensor")
    /\ \E value \in {0, 100}, valid \in BOOLEAN :
         st' = UpdateResolvedSensorErds([st EXCEPT !.external = value, !.externalValid = valid])

-----------------------------------------------------------------------------
(* AmbientTemperatureAverage and EnhancedSabbathAverageTemperature.        *)

WindowAverage(window) ==
    LET sum[n \in 0 .. Len(window)] == IF n = 0 THEN 0 ELSE sum[n - 1] + window[n]
    IN  Quotient(sum[Len(window)], Len(window))

AveragesInit ==
    /\ unit = "averages"
    /\ \E t \in Readings : st = [temperature |-> t, window |-> <<>>, ambient |-> t,
                                 sabbath |-> FALSE, override |-> FALSE, value |-> 0,
                                 samples |-> <<>>, reading |-> FALSE, random |-> FALSE]

\* The window is filled with the first temperature that differs from the one
\* at the start; only then do the periodic samples begin.
AmbientTemperatureChanges ==
    /\ Runs("averages")
    /\ \E t \in Readings \ {st.temperature} :
         st' = IF st.window # <<>> THEN [st EXCEPT !.temperature = t]
               ELSE [st EXCEPT !.temperature = t, !.window = [i \in 1 .. AverageCount |-> t], !.ambient = t]

CallbackForFeedingFilter ==
    /\ Runs("averages")
    /\ st.window # <<>>
    /\ LET window == Append(Tail(st.window), st.temperature)
       IN  st' = [st EXCEPT !.window = window, !.ambient = WindowAverage(window)]

OnEnhancedSabbathModeStatusChange ==
    /\ Runs("averages")
    /\ st' = IF ~st.sabbath
               THEN [st EXCEPT !.sabbath = TRUE, !.override = TRUE, !.value = st.temperature,
                               !.samples = <<st.temperature>>, !.reading = TRUE, !.random = TRUE]
               ELSE [st EXCEPT !.sabbath = FALSE, !.override = FALSE, !.samples = <<>>,
                               !.reading = FALSE, !.random = FALSE]

CalculateAverage ==
    /\ Runs("averages")
    /\ st.reading
    /\ Len(st.samples) < AverageCount
    /\ st' = [st EXCEPT !.samples = Append(@, st.temperature)]

\* The random time is at least a minute and the readings come every 100 ms,
\* so that the filter is read only after it was fed.
ResetFilterAndRestartPeriodicTimer ==
    /\ Runs("averages")
    /\ st.random /\ st.samples # <<>>
    /\ st' = [st EXCEPT !.value = WindowAverage(st.samples), !.samples = <<>>]

SetpointsAndSensorsInit == SetpointInit \/ ShiftInit \/ SensorInit \/ AveragesInit
SetpointsAndSensorsNext ==
    \/ SetpointPowerFails \/ RequestedSetpointUpdated \/ TurboModeStatusChanged
    \/ AddElapsedMinutesToTurboModeOnTime \/ OtherVoterVotes \/ AmbientChanges
    \/ HumiditySensorChanges \/ PulldownOffsetChanges \/ ThermalShiftChanges
    \/ LongTermAverageUpdateTimeExpired \/ ShiftOffsetCalculateTimeExpired \/ ResetThermalShift
    \/ DefrostHsmStateUpdated \/ ShiftInputChanges
    \/ UpdateSensorValues \/ ExternalSensorChanges
    \/ AmbientTemperatureChanges \/ CallbackForFeedingFilter
    \/ OnEnhancedSabbathModeStatusChange \/ CalculateAverage \/ ResetFilterAndRestartPeriodicTimer

-----------------------------------------------------------------------------
(* Properties.                                                             *)

\* The adjusted set point is always the sum of its current parts: the set
\* point of the enhanced Sabbath or else the coldest one that is voted, and
\* the offset of the zone of that set point.  The turbo mode ends after its
\* time, over losses of power too, and its next run starts from zero.
SetpointChainIsConsistent ==
    unit = "set point" =>
        /\ st.resolved = IF st.sabbath # NoSetpointVote THEN st.sabbath
                         ELSE Min({100 * st.status} \cup ({st.turboVote, st.other} \ {NoSetpointVote}))
        /\ st.zoneOffset = ZoneOffset[SetSetpointZone(st.resolved)]
        /\ st.adjusted = st.resolved + CabinetOffset + st.zoneOffset + st.cross
                           + st.highAmbient + st.pulldown + st.shift
        /\ st.status \in LowSetpoint .. HighSetpoint
        /\ st.turbo <=> st.turboTimer
        /\ st.turbo <=> st.turboVote # NoSetpointVote
        /\ st.minutes < TurboTime /\ (st.minutes > 0 => st.turbo)

\* The long-term average never leaves the range of what the filter was fed
\* since its seed, the truncating divisions included, and the shift stays
\* within its limits.
AverageStaysInRange ==
    unit = "shift" =>
        /\ st.average1 \in st.low .. st.high /\ st.average2 \in st.low .. st.high
        /\ st.shift \in MinShift .. MaxShift

\* A sensor turns bad only after BadMax bad readings in a row and good only
\* after GoodMax good ones; a fault is reported only of a sensor that has
\* been there, and the resolved temperature is never that of a bad sensor
\* while a good one may be used.
SensorValidityIsEarned ==
    /\ unit = "sensor" =>
        /\ ~st.valid => st.filtered = FallbackValue
        /\ st.run.good /\ st.run.length >= GoodMax => st.valid
        /\ ~st.run.good /\ st.run.length >= BadMax => ~st.valid
        /\ st.fault <=> st.discovered /\ ~st.valid
        /\ ~st.resolvedValid => ~st.valid /\ (st.checked => ~st.externalValid)
    /\ unit = "averages" =>
        /\ st.override <=> st.sabbath
        /\ st.reading <=> st.sabbath
        /\ st.random <=> st.sabbath
        /\ st.window = <<>> => st.ambient = st.temperature

\* A sensor changes its validity with the reading that completes the row and
\* never earlier, and between two readings of a good sensor with a slew filter
\* its temperature moves no further than the limit of that filter.
SensorTurnsInTime ==
    [][unit = "sensor" =>
         /\ st.valid /\ ~st'.valid => st'.run.length >= BadMax /\ ~st'.run.good
         /\ ~st.valid /\ st'.valid => st'.run.length >= GoodMax /\ st'.run.good
         /\ st.slews /\ st.valid /\ st'.valid =>
              st'.filtered \in st.filtered - SlewLimit .. st.filtered + SlewLimit]_unitVars

\* Filter_LongTermAverage_Test.cpp: "ShouldBeReadyAfterSeeded".
SeededFilterIsReady == unit = "shift" => FilterIsReady(st)

\* From a reading to the adjusted set point, every value belongs to the ones
\* it is computed from.
TemperaturesAreConsistent ==
    SetpointChainIsConsistent /\ AverageStaysInRange /\ SensorValidityIsEarned
=============================================================================
