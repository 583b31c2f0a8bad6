--------------------------- MODULE ReadyToDefrost ---------------------------
(***************************************************************************)
(* When a defrost is due                                                   *)
(* (src/src/Application/Defrost/ReadyToDefrost.c): after enough compressor *)
(* run time, counted faster while doors are open, and never before a       *)
(* minimum of compressor run time.  One timer serves three purposes: the   *)
(* periodic save of the counters, the end of the minimum and the end of    *)
(* the rest.                                                               *)
(*                                                                         *)
(* Times are whole units of a second.  st.elapsed is what                  *)
(* TimerModule_TicksSinceLastStarted returns, st.left the time to go,      *)
(* st.accelerations the sum of the doors' ERDs, which are only read as a   *)
(* sum, and st.waited the waiting time that is published.  ran and opened  *)
(* record what really happened since the last reset: the compressor's run  *)
(* time and the weighted time of the open doors.                           *)
(***************************************************************************)
EXTENDS ControlUnits, Integers, FiniteSetsExt

CONSTANTS
    DefrostDoors, DoorFactor,   \* [DefrostDoors -> accelerations per second]
    UpdatePeriod,               \* UpdatePeriodInSeconds
    MinimumTime, MaximumTime, AhamTime,     \* defrostData->idleData
    HasConvertibleCompartment,  \* BOOLEAN
    DefrostConditions,          \* those of AbnormalConditions that come and go
    TimeCap                     \* bound on the counters

\* The ERDs that make the next defrost due early.
AbnormalConditions ==
    {"fresh food defrost was abnormal", "freezer defrost was abnormal",
     "convertible compartment defrost was abnormal",
     "evaporator thermistor was invalid during the defrost",
     "cabinet was too warm on power up", "eeprom was cleared"}

ASSUME ReadyToDefrostAssumption ==
    /\ DefrostConditions \subseteq AbnormalConditions
    /\ HasConvertibleCompartment \in BOOLEAN
    /\ UpdatePeriod \in Nat \ {0} /\ TimeCap \in Nat
    /\ MinimumTime \in Nat /\ MaximumTime \in Nat /\ AhamTime \in Nat
    /\ MinimumTime <= MaximumTime
    /\ IsFiniteSet(DefrostDoors) /\ \A d \in DefrostDoors : DoorFactor[d] \in Nat \ {0}

ReadyStates == {"WaitingForMinimum", "WaitingForRemaining", "ReadyAndDefrosting"}
DefrostTimers == {"none", "update", "minimum", "remaining"}

\* SumOfOpenDoorFactors of the doors in D.
Factors(D) == MapThenSumSet(LAMBDA d : DoorFactor[d], D)

Truncated(a, b) == IF a > b THEN a - b ELSE 0

StartReadyTimer(s, timer, time) ==
    [s EXCEPT !.timer = timer, !.left = time, !.elapsed = 0]
StopReadyTimer(s) == [s EXCEPT !.timer = "none"]

ConvertibleCompartmentIsAbnormal(s) ==
    /\ HasConvertibleCompartment
    /\ "convertible compartment defrost was abnormal" \in s.abnormal

TimeBetweenDefrostsShouldBeMinimum(s) ==
    \/ s.abnormal \ {"convertible compartment defrost was abnormal"} # {}
    \/ ConvertibleCompartmentIsAbnormal(s)

\* TimeBetweenDefrostsInMinutesDependingOnCurrentSystemConditions.
TimeBetweenDefrosts(s) ==
    IF TimeBetweenDefrostsShouldBeMinimum(s) THEN MinimumTime ELSE MaximumTime

\* AddElapsedTicksToCompressorOnTime(IfCompressorIsOn): wasOn is the
\* compressor's state while the ticks elapsed.
AddElapsedToCompressor(s, wasOn) ==
    IF wasOn THEN [s EXCEPT !.onTime = @ + s.elapsed] ELSE s

\* AddElapsedTicksToDoorAccelerationFor... the doors that were open.
AddElapsedToDoors(s, wereOpen) ==
    [s EXCEPT !.accelerations = @ + s.elapsed * Factors(wereOpen)]

\* SetWaitingForDefrostTimeInSecondsTo...: with the doors only after the minimum.
PublishWaitingTime(s) ==
    [s EXCEPT !.waited = IF s.state = "WaitingForMinimum" THEN s.onTime
                         ELSE s.onTime + s.accelerations]

ResetCounts(s) ==
    [s EXCEPT !.onTime = 0, !.accelerations = 0, !.ran = 0, !.opened = 0]

TimeUntilMinimum(s) ==
    Truncated(IF s.aham THEN AhamTime ELSE MinimumTime, s.onTime)

\* Mutant: the save is not timed anew while the compressor runs.
StartMinimumOrUpdateTimerOnce(s) ==
    IF s.timer = "update" THEN s
    ELSE IF s.compressor /\ TimeUntilMinimum(s) < UpdatePeriod
         THEN StartReadyTimer(s, "minimum", TimeUntilMinimum(s))
         ELSE IF s.compressor \/ s.open # {}
              THEN StartReadyTimer(s, "update", UpdatePeriod) ELSE s

\* StartMinimumTimeBetweenDefrostsTimerIf...: with the compressor off and the
\* doors closed the timer is left as it is.
StartMinimumOrUpdateTimer(s) ==
    CASE s.compressor /\ TimeUntilMinimum(s) < UpdatePeriod ->
            StartReadyTimer(s, "minimum", TimeUntilMinimum(s))
      [] (s.compressor /\ TimeUntilMinimum(s) >= UpdatePeriod)
            \/ (~s.compressor /\ s.open # {}) ->
            StartReadyTimer(s, "update", UpdatePeriod)
      [] ~s.compressor /\ s.open = {} -> s

RemainingTime(s) == Truncated(s.between, s.onTime + s.accelerations)

TimeUntilReady(s) ==
    RemainingTime(s) \div ((IF s.compressor THEN 1 ELSE 0) + Factors(s.open))

StartRemainingOrUpdateTimer(s) ==
    CASE ~s.compressor /\ s.open = {} -> StopReadyTimer(s)
      [] s.compressor \/ s.open # {} ->
            IF TimeUntilReady(s) < UpdatePeriod
            THEN StartReadyTimer(s, "remaining", TimeUntilReady(s))
            ELSE StartReadyTimer(s, "update", UpdatePeriod)

-----------------------------------------------------------------------------
EnterWaitingForMinimum(s) ==
    LET w == [s EXCEPT !.state = "WaitingForMinimum", !.ready = FALSE] IN
    StartMinimumOrUpdateTimer(
        [PublishWaitingTime(w)
            EXCEPT !.between = IF s.aham THEN AhamTime ELSE TimeBetweenDefrosts(s)])

\* ReadyToDefrost: enough run time, and enough of it with the doors' time.
IsReadyToDefrost(s) ==
    s.onTime >= MinimumTime /\ s.onTime + s.accelerations >= s.between

EnterWaitingForRemaining(s) ==
    LET w == PublishWaitingTime(
                [s EXCEPT !.state = "WaitingForRemaining",
                          !.between = TimeBetweenDefrosts(s)]) IN
    IF IsReadyToDefrost(w) THEN StartReadyTimer(w, "remaining", 0)
    ELSE StartRemainingOrUpdateTimer(w)

\* The counts survive the defrost and are reset when it is over.
EnterReadyAndDefrosting(s) ==
    [StopReadyTimer(s) EXCEPT !.state = "ReadyAndDefrosting"]

\* Signals that add up what has elapsed and start the timer again: s has the
\* new inputs, wasOn and wereOpen the old ones.
AddElapsedAndRestart(s, wasOn, wereOpen) ==
    LET a == AddElapsedToDoors(AddElapsedToCompressor(s, wasOn), wereOpen) IN
    CASE s.state = "WaitingForMinimum" ->
            StartMinimumOrUpdateTimer(PublishWaitingTime(a))
      [] s.state = "WaitingForRemaining" ->
            StartRemainingOrUpdateTimer(PublishWaitingTime(a))
      [] s.state = "ReadyAndDefrosting" -> s

MinimumTimeExpired(s) ==
    LET a == PublishWaitingTime(
                AddElapsedToDoors(AddElapsedToCompressor(s, s.compressor), s.open)) IN
    IF s.between \in {AhamTime, MinimumTime} THEN [a EXCEPT !.ready = TRUE]
    ELSE EnterWaitingForRemaining(StopReadyTimer(a))

RemainingTimeExpired(s) ==
    LET a == AddElapsedToDoors(AddElapsedToCompressor(s, s.compressor), s.open) IN
    [PublishWaitingTime(a) EXCEPT !.ready = TRUE]

\* Signal_UseAhamPrechillTimeBetweenDefrostsAndResetDefrostCounts.
UseAhamTime(s) ==
    CASE s.state = "WaitingForMinimum" ->
            LET r == [ResetCounts(s) EXCEPT !.between = AhamTime, !.waited = 0] IN
            IF s.compressor \/ s.open # {}
            THEN StartReadyTimer(r, "update", UpdatePeriod) ELSE r
      [] s.state = "WaitingForRemaining" ->
            EnterWaitingForMinimum(StopReadyTimer(ResetCounts(s)))
      [] s.state = "ReadyAndDefrosting" -> ResetCounts(s)

-----------------------------------------------------------------------------
\* InitialState.
ReadyInitialState(s) ==
    CASE s.waiting /\ s.onTime < MinimumTime -> EnterWaitingForMinimum(s)
      [] s.waiting /\ s.onTime >= MinimumTime -> EnterWaitingForRemaining(s)
      [] ~s.waiting -> [s EXCEPT !.state = "ReadyAndDefrosting"]

\* ReadyToDefrost_Init: the counts of before the power failure are kept
\* unless the cabinet is too warm.
ReadyInit ==
    /\ unit = "ready to defrost"
    /\ \E abnormal \in SUBSET DefrostConditions, compressor, waiting, warm \in BOOLEAN,
          run \in 0..MaximumTime, opened \in {0, 1} :
        LET s == [state |-> "ReadyAndDefrosting", ready |-> FALSE, waiting |-> waiting,
                  timer |-> "none", left |-> 0, elapsed |-> 0, waited |-> 0,
                  onTime |-> run, accelerations |-> opened,
                  between |-> 0, abnormal |-> abnormal, aham |-> FALSE,
                  compressor |-> compressor, open |-> {},
                  ran |-> run, opened |-> opened] IN
        st = ReadyInitialState(IF warm THEN ResetCounts(s) ELSE s)

ReadyCompressorChanges ==
    /\ Runs("ready to defrost")
    /\ st' = AddElapsedAndRestart([st EXCEPT !.compressor = ~@], st.compressor, st.open)

ReadyDoorChanges(d) ==
    /\ Runs("ready to defrost")
    /\ st' = AddElapsedAndRestart(
                [st EXCEPT !.open = IF d \in @ THEN @ \ {d} ELSE @ \union {d}],
                st.compressor, st.open)

AhamPrechillChanges ==
    /\ Runs("ready to defrost")
    /\ LET s == [st EXCEPT !.aham = ~@] IN st' = IF s.aham THEN UseAhamTime(s) ELSE s

ConditionsChange ==
    /\ Runs("ready to defrost")
    /\ \E c \in DefrostConditions :
        st' = [st EXCEPT !.abnormal = IF c \in @ THEN @ \ {c} ELSE @ \union {c}]

\* waitingToDefrostErd: the defrost leaves Idle, for a defrost that is due or
\* one that was asked for, and comes back.
WaitingChanges ==
    /\ Runs("ready to defrost")
    /\ LET s == [st EXCEPT !.waiting = ~@] IN
       st' = IF s.waiting THEN EnterWaitingForMinimum(ResetCounts(s))
             ELSE EnterReadyAndDefrosting(s)

\* A second passes; a running timer cannot be passed by.
ReadyTick ==
    /\ Runs("ready to defrost")
    /\ st.timer # "none" => st.left > 0
    /\ st.ran < TimeCap /\ st.opened < TimeCap /\ st.elapsed < TimeCap
    /\ st' = [st EXCEPT !.elapsed = @ + 1,
                        !.left = IF st.timer = "none" THEN @ ELSE @ - 1,
                        !.ran = IF st.compressor THEN @ + 1 ELSE @,
                        !.opened = @ + Factors(st.open)]

ReadyTimerExpires ==
    /\ Runs("ready to defrost")
    /\ st.timer # "none" /\ st.left = 0
    /\ st' = LET s == [st EXCEPT !.timer = "none"] IN
             CASE st.timer = "update" -> AddElapsedAndRestart(s, s.compressor, s.open)
               [] st.timer = "minimum" -> MinimumTimeExpired(s)
               [] st.timer = "remaining" -> RemainingTimeExpired(s)

ReadyNext ==
    \/ ReadyCompressorChanges \/ AhamPrechillChanges \/ ConditionsChange
    \/ WaitingChanges \/ ReadyTick \/ ReadyTimerExpires
    \/ \E d \in DefrostDoors : ReadyDoorChanges(d)

-----------------------------------------------------------------------------
\* Until a defrost is due, no second of compressor run time and no second of
\* an open door is lost or counted twice, however the compressor, the doors
\* and the one timer interleave.
NoTimeIsLostOrCountedTwice ==
    unit = "ready to defrost" /\ st.state # "ReadyAndDefrosting" /\ ~st.ready =>
        /\ st.onTime + (IF st.compressor THEN st.elapsed ELSE 0) = st.ran
        /\ st.accelerations + st.elapsed * Factors(st.open) = st.opened
        /\ st.waited \in {st.onTime, st.onTime + st.accelerations}

\* The timer that can make a defrost due never outlasts the time that is left.
ReadinessIsTimed ==
    unit = "ready to defrost" /\ st.state # "ReadyAndDefrosting" /\ ~st.ready
        /\ st.compressor => st.timer # "none"

\* "ShouldNotSetReadyToDefrostAfterMinimumTimeBetweenDefrostsIfCompressorWas-
\* NotOnForMinimumTimeBetweenDefrosts..." (ReadyToDefrost_Test.cpp:1525).
ReadyMeansCompressorRan ==
    [][unit = "ready to defrost" /\ st'.ready /\ ~st.ready =>
        st'.ran >= (IF st.between = AhamTime THEN AhamTime ELSE MinimumTime)]_unitVars

\* ReadyToDefrost.c: between defrosts the compressor's time is counted once,
\* in whatever order timers, doors and the compressor change, and a timer runs
\* while it counts.
DefrostTimeIsKept == NoTimeIsLostOrCountedTwice /\ ReadinessIsTimed
=============================================================================
