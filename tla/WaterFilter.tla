----------------------------- MODULE WaterFilter -----------------------------
(***************************************************************************)
(* The water filter.  A board on the GEA bus reads and writes the RFID tag *)
(* of the filter; RfidCommunicationController.c decides when,              *)
(* RfidCommunicator.c sends and stores, NewFilterInstalledHandler.c takes  *)
(* over the data of another filter and RfidFaultHandler.c keeps its        *)
(* faults: one unit.  What the used volume and time mean for the user is   *)
(* the unit "filter life"; FlowMeterMonitor.c, and                         *)
(* WaterVolumeUsageCalculator.c with ErdAccumulatorService.c, measure the  *)
(* water.                                                                  *)
(***************************************************************************)
EXTENDS ControlUnits, Integers, Sequences

CONSTANTS
    Filters,            \* the filters a user may install
    BypassPlug,         \* one of them: the plug without a filter
    UsageCap,           \* bound on the usage a filter can have
    RequestCap,         \* requests that may wait at the RFID board
    MinimumRequests,    \* fault -> consecutive requests that set it
    RatedVolume, RatedLife, ReplacementPercent,
    MinimumVolume,      \* minimumVolumeNeededToStartFilterLifeTimer
    PurgeVolume, FillDelay, \* what ends the block of ice maker fills
    MonthLength, OuncesPerGallon,
    CountModulus,       \* 2^32 in the code: the flow meter's counter wraps
    FlowRate, TicksPerSecond, OpenTicks, \* of a water valve; how long it is open
    TotalMaximum        \* 2^32 - 1 in the code: a total stops there

ASSUME WaterFilterAssumption ==
    /\ BypassPlug \in Filters /\ UsageCap \in Nat /\ RequestCap \in Nat \ {0}
    /\ {RatedVolume, RatedLife, MonthLength, OuncesPerGallon, TicksPerSecond} \subseteq Nat \ {0}
    /\ CountModulus \in Nat /\ CountModulus > 1
    /\ {FlowRate, OpenTicks, TotalMaximum} \subseteq Nat
    /\ {PurgeVolume, FillDelay, MinimumVolume} \subseteq Nat /\ ReplacementPercent \in 0..99

Smaller(a, b) == IF a < b THEN a ELSE b
TruncatedDifference(a, b) == IF a > b THEN a - b ELSE 0

-----------------------------------------------------------------------------
(* The RFID unit.  filter is the filter that is really installed and tags  *)
(* holds, for each filter, its usage, the number of appliances it has been *)
(* in and whether the last of them is this one (its serial number); board  *)
(* is what the RFID board last reported.  overtaken is a history variable: *)
(* the filters whose data was taken over before a write of it had arrived. *)

RfidFaults == {"leak", "blocked", "tag", "hardware"}

\* minimumConsecutiveRequestsToSetFault, 5 for each fault.
ASSUME FaultsNeedRequests == MinimumRequests \in [RfidFaults -> Nat \ {0}]

\* RfidFaultHandler: counts consecutive requests.
RequestRfidFault(s, fault, status) ==
    [s EXCEPT !.requests[fault] = IF status THEN Smaller(@ + 1, MinimumRequests[fault]) ELSE 0]
FaultIsSet(s, fault) == s.requests[fault] >= MinimumRequests[fault]

\* OnDataSourceChange: the request is sent at once, with the data of now.
\* A request that the bus does not take after its retries is lost.
SendRfidFilterDataRequest(s, request) ==
    IF Len(s.waiting) = RequestCap THEN [s EXCEPT !.lost = TRUE]
    ELSE [s EXCEPT !.waiting = Append(@, [request |-> request, uid |-> s.uid, usage |-> s.usage, units |-> s.units])]

ClearRfidFilterTagAuthenticationFailedAndHardwareFailureFaults(s) ==
    RequestRfidFault(RequestRfidFault(s, "tag", FALSE), "hardware", FALSE)

\* Mutant: the filter's own count is not asked for.
NewFilterInstalledCountsAgain(s) ==
    [s EXCEPT !.uid = s.board.uid, !.usage = s.board.usage, !.units = Smaller(@ + 1, UsageCap + 1),
              !.bypassPlugInstalled = s.board.uid = BypassPlug]

UpdateUnitWithNewFilterData(s) ==
    [s EXCEPT !.uid = s.board.uid, !.usage = s.board.usage, !.units = s.board.units]

SetBypassPlugInstalledTo(s, state) == [s EXCEPT !.bypassPlugInstalled = state]

ClearRfidLeakAndBlockedTagFaults(s) ==
    RequestRfidFault(RequestRfidFault(s, "leak", FALSE), "blocked", FALSE)

\* The count stops at the largest value of its byte.
IncrementNumberOfUnitsFilterHasBeenOn(s) == [s EXCEPT !.units = Smaller(@ + 1, UsageCap + 1)]

\* NewFilterInstalledSignalChanged, with an RFID board.
NewFilterInstalledHandler(s) ==
    LET isPlug == s.board.uid = BypassPlug
        updated == SetBypassPlugInstalledTo(UpdateUnitWithNewFilterData(s), isPlug)
        cleared == IF isPlug THEN ClearRfidLeakAndBlockedTagFaults(updated) ELSE updated
    IN  IF s.board.ours THEN cleared ELSE IncrementNumberOfUnitsFilterHasBeenOn(cleared)

\* A successful result outside State_AllDoorsClosedWrite.
TakeResult(s) ==
    LET cleared == ClearRfidFilterTagAuthenticationFailedAndHardwareFailureFaults(s)
    IN  IF s.board.uid # s.uid THEN NewFilterInstalledHandler(cleared) ELSE cleared

\* Entry of the states.  Exit of each stops its own timers.
ExitRfidState(s) == [s EXCEPT !.readTimer = FALSE, !.readWriteTimer = FALSE, !.timeoutTimer = FALSE]

EnterFreshFoodDoorOpen(s) ==
    SendRfidFilterDataRequest([ExitRfidState(s) EXCEPT !.hsm = "DoorOpen", !.readTimer = TRUE], "Read")

EnterAllFreshFoodDoorsJustClosed(s) ==
    SendRfidFilterDataRequest(
        [ExitRfidState(s) EXCEPT !.hsm = "JustClosed", !.readTimer = TRUE, !.timeoutTimer = TRUE], "Read")

EnterAllDoorsClosedRead(s) ==
    [ExitRfidState(s) EXCEPT !.hsm = "Read", !.readWriteTimer = TRUE,
                             !.readTimer = s.board.leak \/ s.result \in {"ReadFailure", "HardwareFailure"}]

EnterAllDoorsClosedWrite(s) ==
    SendRfidFilterDataRequest([ExitRfidState(s) EXCEPT !.hsm = "Write", !.timeoutTimer = TRUE], "Write")

EnterRfidDemoMode(s) == [ExitRfidState(s) EXCEPT !.hsm = "Demo"]

\* Mutant: the read of a bypass plug does not arm the next one.
ReadWriteResultSuccessfulWithoutRestart(s) ==
    CASE s.hsm = "Read" /\ ~s.readWriteTimer /\ s.board.uid # BypassPlug -> EnterAllDoorsClosedWrite(TakeResult(s))
      [] s.hsm = "Write" -> EnterAllDoorsClosedRead(s)
      [] s.hsm \in {"DoorOpen", "JustClosed", "Read"} -> TakeResult(s)
      [] OTHER -> s

ReadWriteResultSuccessful(s) ==
    CASE s.hsm = "DoorOpen" -> TakeResult(s)
      [] s.hsm = "JustClosed" /\ s.board.uid # s.uid -> EnterAllDoorsClosedRead(TakeResult(s))
      [] s.hsm = "JustClosed" /\ s.board.uid = s.uid -> TakeResult(s)
      [] s.hsm = "Read" /\ s.readWriteTimer -> TakeResult(s)
      [] s.hsm = "Read" /\ ~s.readWriteTimer /\ s.board.uid # BypassPlug -> EnterAllDoorsClosedWrite(TakeResult(s))
      [] s.hsm = "Read" /\ ~s.readWriteTimer /\ s.board.uid = BypassPlug ->
            [TakeResult(s) EXCEPT !.readWriteTimer = TRUE]
      [] s.hsm = "Write" -> EnterAllDoorsClosedRead(s)
      [] s.hsm = "Demo" -> s

\* The faults of a successful result; a plug has none.
TakeFilterStatus(s) ==
    IF s.board.uid = BypassPlug THEN s
    ELSE RequestRfidFault(RequestRfidFault(s, "leak", s.board.leak), "blocked", s.board.blocked)

\* OnDataModelChange: the result.
ResultArrives(s) ==
    CASE s.result = "Success" -> ReadWriteResultSuccessful(TakeFilterStatus(s))
      [] s.result = "ReadFailure" ->
            LET failed == IF s.doorsClosed THEN RequestRfidFault(s, "tag", TRUE) ELSE s
            IN  IF s.hsm = "Read" THEN [failed EXCEPT !.readTimer = TRUE] ELSE failed
      [] s.result = "WriteFailure" ->
            LET failed == IF s.doorsClosed THEN RequestRfidFault(s, "tag", TRUE) ELSE s
            IN  IF s.hsm = "Write" THEN EnterAllDoorsClosedRead(failed) ELSE failed
      [] s.result = "HardwareFailure" ->
            LET failed == RequestRfidFault(s, "hardware", TRUE)
            IN  IF s.hsm = "Read" THEN [failed EXCEPT !.readTimer = TRUE] ELSE failed

RfidInit ==
    /\ unit = "rfid"
    /\ \E closed, demo \in BOOLEAN, f \in Filters :
        LET s == [hsm |-> "none", doorsClosed |-> closed, uid |-> f, usage |-> 0, units |-> 1,
                  board |-> [uid |-> f, usage |-> 0, units |-> 1, ours |-> TRUE, leak |-> FALSE, blocked |-> FALSE],
                  result |-> "Success", requests |-> [x \in RfidFaults |-> 0],
                  bypassPlugInstalled |-> f = BypassPlug, filter |-> f, 
                  tags |-> [x \in Filters |-> [usage |-> 0, units |-> IF x = f THEN 1 ELSE 0, ours |-> x = f]],
                  waiting |-> <<>>, lost |-> FALSE, overtaken |-> {},
                  readTimer |-> FALSE, readWriteTimer |-> FALSE, timeoutTimer |-> FALSE]
        IN  st = CASE demo -> EnterRfidDemoMode(s)
                   [] ~demo /\ closed -> EnterAllFreshFoodDoorsJustClosed(s)
                   [] ~demo /\ ~closed -> EnterFreshFoodDoorOpen(s)

FreshFoodDoorsChange ==
    /\ Runs("rfid")
    /\ LET s == [st EXCEPT !.doorsClosed = ~@]
       IN  st' = CASE s.doorsClosed /\ s.hsm = "DoorOpen" -> EnterAllFreshFoodDoorsJustClosed(s)
                   [] ~s.doorsClosed /\ s.hsm \in {"JustClosed", "Read", "Write"} -> EnterFreshFoodDoorOpen(s)
                   [] OTHER -> s

RfidDemoModeIsEnabled ==
    /\ Runs("rfid") /\ st.hsm # "Demo"
    /\ st' = EnterRfidDemoMode(st)

\* ReadRequestTimerExpired, of the periodic timer and of the one-shot timer.
ReadRequestTimeEnds ==
    /\ Runs("rfid")
    /\ \/ st.readTimer /\ st' = SendRfidFilterDataRequest(st, "Read")
       \/ st.readWriteTimer
          /\ st' = SendRfidFilterDataRequest([st EXCEPT !.readWriteTimer = FALSE, !.lost = FALSE], "Read")

RfidTimeoutEnds ==
    /\ Runs("rfid") /\ st.timeoutTimer
    /\ st' = EnterAllDoorsClosedRead([st EXCEPT !.timeoutTimer = FALSE])

\* The user changes the filter with the door open, and draws water.
FilterIsChanged ==
    /\ Runs("rfid") /\ ~st.doorsClosed
    /\ \E f \in Filters : st' = [st EXCEPT !.filter = f]

WaterIsUsed ==
    /\ Runs("rfid") /\ st.usage < UsageCap
    /\ st' = [st EXCEPT !.usage = @ + 1]

\* The board's half: external.  A write is refused if the tag is not the one
\* it was meant for; the answer carries the tag as it is then, or nothing
\* of it after a failure to read.
Answer(s, result, leak) ==
    LET r == Head(s.waiting)
        written == r.request = "Write" /\ result = "Success"
        tags == IF written THEN [s.tags EXCEPT ![s.filter] = [usage |-> r.usage, units |-> r.units, ours |-> TRUE]] ELSE s.tags
    IN  [s EXCEPT !.waiting = Tail(@), !.result = result, !.tags = tags,
                  !.board = IF result = "Success"
                            THEN [uid |-> s.filter, leak |-> leak, blocked |-> FALSE, usage |-> tags[s.filter].usage,
                                  units |-> tags[s.filter].units, ours |-> tags[s.filter].ours]
                            ELSE @]

IsWritten(s, f) == \E i \in DOMAIN s.waiting : s.waiting[i].request = "Write" /\ s.waiting[i].uid = f

\* What a change of the filter from s to t means for the history variable.
WithTakeover(s, t) ==
    [t EXCEPT !.overtaken = IF t.uid = s.uid THEN @ ELSE IF IsWritten(s, t.uid) THEN @ \cup {t.uid} ELSE @ \ {t.uid}]

\* OnMessageReceived, StoreAllRfidDataOnMainboard.
RfidBoardAnswers ==
    /\ Runs("rfid") /\ st.waiting # <<>>
    /\ \E result \in {"Success", "ReadFailure", "WriteFailure", "HardwareFailure"}, leak \in BOOLEAN :
        /\ result = "WriteFailure" => Head(st.waiting).request = "Write"
        /\ result = "Success" /\ Head(st.waiting).request = "Write" =>
               Head(st.waiting).uid = st.filter /\ st.filter # BypassPlug
        /\ leak => result = "Success"
        /\ LET answered == Answer(st, result, leak)
           IN  st' = WithTakeover(answered, ResultArrives(answered))

RequestIsLost ==
    /\ Runs("rfid") /\ st.waiting # <<>>
    /\ st' = [st EXCEPT !.waiting = Tail(@), !.lost = TRUE]

\* The controller never goes deaf: in every state but the demo mode a timer
\* runs, or a request is on its way, or the bus has lost one.
RfidIsAlwaysArmed ==
    unit = "rfid" =>
        CASE st.hsm = "DoorOpen" -> st.readTimer
          [] st.hsm = "JustClosed" -> st.readTimer /\ st.timeoutTimer
          [] st.hsm = "Read" -> st.readWriteTimer \/ st.readTimer \/ st.waiting # <<>> \/ st.lost
          [] st.hsm = "Write" -> st.timeoutTimer
          [] OTHER -> ~st.readTimer /\ ~st.readWriteTimer /\ ~st.timeoutTimer

\* However filters are swapped around reads and writes that are still under
\* way, this appliance is counted once on every tag, a plug does not inherit the
\* leak of the filter before, and what a tag has counted never goes back, but
\* for a filter that is taken over again before a write of it has arrived.
UsageFollowsTheFilter ==
    [][unit = "rfid" => /\ \A f \in Filters : /\ f \notin st.overtaken => st'.tags[f].usage >= st.tags[f].usage
                                                /\ st'.tags[f].units <= 1
                        /\ st'.bypassPlugInstalled /\ st'.hsm # "Demo" => ~FaultIsSet(st', "leak")]_unitVars

\* Without that exception it would be false: two reads that wait before the
\* write let the filter be changed away and back, and the older usage is written.
TagsNeverGoBack ==
    [][unit = "rfid" => \A f \in Filters : st'.tags[f].usage >= st.tags[f].usage]_unitVars

-----------------------------------------------------------------------------
(* The life of a filter: the updaters of the used volume and time and of   *)
(* what depends on them, down to what keeps the dispenser and the ice      *)
(* makers from taking water.                                               *)

\* UpdateWaterFilterLifeStatus.
WaterFilterLifeStatus(s) ==
    CASE s.volume >= RatedVolume \/ s.calendar >= RatedLife -> "Expired"
      [] /\ s.volume < RatedVolume /\ s.calendar < RatedLife
         /\ s.volume > (ReplacementPercent * RatedVolume) \div 100
            \/ s.calendar > (ReplacementPercent * RatedLife) \div 100 -> "Replace"
      [] OTHER -> "NoOrderNecessary"

\* CalculatePercentUsageRemaining.
PercentUsageRemaining(s) ==
    Smaller((TruncatedDifference(RatedVolume, s.volume) * 100) \div RatedVolume,
            (TruncatedDifference(RatedLife, s.calendar) * 100) \div RatedLife)

\* ResolveWaterFilterState.
ResolvedFilterState(s) ==
    CASE s.demo -> "Good"
      [] ~s.demo /\ s.leak -> "Leak"
      [] ~s.demo /\ ~s.leak /\ s.error -> "Error"
      [] ~s.demo /\ ~s.leak /\ ~s.error /\ s.bypass -> "Bypass"
      [] OTHER -> CASE s.status = "Expired" -> "Expired" [] s.status = "Replace" -> "Replace" [] OTHER -> "Good"

\* DispensingDisabler hears the resolved state.
ResolveWaterFilterState(s) ==
    [s EXCEPT !.state = ResolvedFilterState(s), !.disabled = ResolvedFilterState(s) \in {"Leak", "Error"}]

\* WaterFilterLifeStatusChanged, of the usage since expiration.
LifeStatusChanged(s) ==
    IF s.status = "Expired" THEN [s EXCEPT !.counting = TRUE, !.days = TruncatedDifference(s.calendar, RatedLife)]
    ELSE [s EXCEPT !.counting = FALSE, !.days = 0, !.dispenses = 0]

\* IceMakerFillBlocker.
UnitIsADispensingModel(s) == s.dispensed
FilterHasBeenPurged(s) == s.volume >= PurgeVolume
NewFilterFillStateDelayHasExpired(s) == s.calendar >= FillDelay

IceMakerInhibitClearConditionsHaveBeenMet(s) ==
    \/ ~UnitIsADispensingModel(s)
    \/ FilterHasBeenPurged(s)
    \/ NewFilterFillStateDelayHasExpired(s)

SetIceMakerInhibitDueToNewFilter(s) ==
    [s EXCEPT !.blocked = ~IceMakerInhibitClearConditionsHaveBeenMet(s)]

\* Mutant: the counters of the old filter are kept.
UsageChangedKeepsDays(s) ==
    ResolveWaterFilterState([s EXCEPT !.status = WaterFilterLifeStatus(s), !.percent = PercentUsageRemaining(s),
                                      !.counting = WaterFilterLifeStatus(s) = "Expired"])

\* What the change of the volume or of the time sets off.
UsageChanged(s) ==
    LET status == [SetIceMakerInhibitDueToNewFilter(s)
                    EXCEPT !.status = WaterFilterLifeStatus(s), !.percent = PercentUsageRemaining(s)]
    IN  ResolveWaterFilterState(IF status.status = s.status THEN status ELSE LifeStatusChanged(status))

\* WriteToVolumeUsageErds and WriteToCalendarUsageErds; an expired filter has
\* its days counted anew.
WriteToVolumeUsageErds(s, v) == UsageChanged([s EXCEPT !.volume = v, !.previous = v])

WriteToCalendarUsageErds(s, c) ==
    LET t == UsageChanged([s EXCEPT !.calendar = c])
    IN  IF t.counting THEN [t EXCEPT !.days = TruncatedDifference(c, RatedLife)] ELSE t

ClearVolumeAndCalendarUsage(s) == WriteToCalendarUsageErds(WriteToVolumeUsageErds(s, 0), 0)

\* The calendar starts once and for all when the appliance has drawn enough
\* water or has run long enough.
EnoughWaterIsDrawn(s) == s.lifetime > MinimumVolume

StartIncrementWaterFilterCalendarUsageTimer(s) == [s EXCEPT !.started = TRUE]

FilterLifeInit ==
    /\ unit = "filter life"
    /\ \E v \in {0, RatedVolume}, lifetime \in {0, MinimumVolume + 1}, late \in BOOLEAN :
        LET s == UsageChanged([volume |-> v, calendar |-> 0, started |-> FALSE, lifetime |-> lifetime,
                           dispensed |-> lifetime > 0,
                           status |-> "none", percent |-> 100, demo |-> FALSE, leak |-> FALSE, error |-> FALSE,
                           bypass |-> FALSE, state |-> "Good", disabled |-> FALSE, blocked |-> FALSE,
                           counting |-> FALSE, days |-> 0, dispenses |-> 0,
                           minutes |-> 0, previous |-> v, months |-> <<0, 0>>])
        IN  st = IF late \/ EnoughWaterIsDrawn(s) THEN StartIncrementWaterFilterCalendarUsageTimer(s) ELSE s

\* Water is drawn.  An expired filter counts the dispense; the dispense that
\* expires it is counted if the new subscriber already hears it.
VolumeChanges ==
    /\ Runs("filter life") /\ st.volume < RatedVolume + 1
    /\ \E counted \in BOOLEAN :
        LET drawn == UsageChanged([st EXCEPT !.volume = @ + 1, !.dispensed = TRUE,
                                             !.lifetime = Smaller(@ + 1, MinimumVolume + 1)])
            s == IF EnoughWaterIsDrawn(drawn)
                 THEN StartIncrementWaterFilterCalendarUsageTimer(drawn) ELSE drawn
        IN  /\ st.counting => counted
            /\ counted => s.counting
            /\ st' = IF counted THEN [s EXCEPT !.dispenses = Smaller(@ + 1, UsageCap)] ELSE s

\* The run time of the appliance passes the delay for low usage.
LowUsageDelayEnds ==
    /\ Runs("filter life") /\ ~st.started
    /\ st' = StartIncrementWaterFilterCalendarUsageTimer(st)

CalendarMinuteEnds ==
    /\ Runs("filter life") /\ st.started /\ st.calendar < RatedLife + 1
    /\ st' = WriteToCalendarUsageErds(st, st.calendar + 1)

\* A new filter.  Without an RFID board its usage is cleared; with one the
\* volume, the time and the months are those of its tag.
FilterIsReset ==
    /\ Runs("filter life")
    /\ \/ st' = ClearVolumeAndCalendarUsage(st)
       \/ \E v \in {0, RatedVolume}, c \in {0, RatedLife} :
            st' = [WriteToCalendarUsageErds(WriteToVolumeUsageErds(st, v), c)
                    EXCEPT !.months = <<0, 0>>, !.minutes = 0]

FilterInputsChange ==
    /\ Runs("filter life")
    /\ \E s \in {[st EXCEPT !.demo = ~@], [st EXCEPT !.leak = ~@], [st EXCEPT !.error = ~@], [st EXCEPT !.bypass = ~@]} :
        st' = ResolveWaterFilterState(s)

\* The months, newest first: whole gallons, in a byte each.
StoreNewMonthWaterUsageInGallons(s) ==
    LET gallons == TruncatedDifference(s.volume, s.previous) \div OuncesPerGallon
    IN  [s EXCEPT !.months = <<Smaller(gallons, 255), @[1]>>]

\* IncrementWaterFilterMonthTimeInMinutes.
MonthMinuteEnds ==
    /\ Runs("filter life")
    /\ LET s == [st EXCEPT !.minutes = @ + 1]
       IN  st' = IF s.minutes < MonthLength THEN s
                 ELSE [StoreNewMonthWaterUsageInGallons(s) EXCEPT !.previous = s.volume, !.minutes = 0]

\* The parts that each follow the usage on their own tell one story in any
\* order of events: a filter that is expired has nothing left, one that has
\* nothing left is at least to be replaced, only an expired one counts days
\* and dispenses, and a month never begins above the volume used.
FilterLifeIsConsistent ==
    unit = "filter life" =>
        /\ st.status = "Expired" => st.percent = 0
        /\ st.percent = 0 => st.status # "NoOrderNecessary"
        /\ st.status # "Expired" => ~st.counting /\ st.days = 0 /\ st.dispenses = 0
        /\ st.status = "Expired" => st.counting /\ st.days = TruncatedDifference(st.calendar, RatedLife)
        /\ st.previous <= st.volume
        /\ st.lifetime > MinimumVolume => st.started
        /\ st.disabled => st.state \in {"Leak", "Error"} /\ ~st.demo

-----------------------------------------------------------------------------
(* FlowMeterMonitor polls a counter that wraps.  pulses is what has really *)
(* passed since the start, wrapped whether the counter wrapped meanwhile.  *)

\* Mutant: the pulses before the start are counted too.
CountsDifferenceFromZero(s) == s.counts

CountsDifference(s) ==
    IF s.counts < s.previous THEN (CountModulus - 1) - s.previous + s.counts ELSE s.counts - s.previous

CalculateAndWriteOuncesDispensed(s) ==
    LET since == s.since + CountsDifference(s)
    IN  [s EXCEPT !.since = since, !.previous = s.counts, !.ounces = IF since >= 2 THEN since ELSE 0]

MonitoringRequestChanged(s, request) ==
    CASE request = "Start" -> [s EXCEPT !.previous = s.counts, !.since = 0, !.pollTimer = "running",
                                        !.pulses = 0, !.wrapped = FALSE]
      [] request = "Stop" -> [s EXCEPT !.pollTimer = "stopped", !.ounces = 0]
      [] request = "Pause" -> [s EXCEPT !.pollTimer = IF @ = "running" THEN "paused" ELSE @]
      [] request = "Resume" -> [s EXCEPT !.pollTimer = IF @ = "paused" THEN "running" ELSE @]

FlowMeterInit ==
    /\ unit = "flow meter"
    /\ \E n \in {0, CountModulus - 2}, r \in {"Start", "Stop"} :
        st = MonitoringRequestChanged(
               [counts |-> n, previous |-> 0, since |-> 0, ounces |-> 0, pollTimer |-> "stopped",
                pulses |-> 0, wrapped |-> FALSE], r)

WaterFlows ==
    /\ Runs("flow meter") /\ st.pulses < CountModulus - 1
    /\ st' = [st EXCEPT !.counts = (@ + 1) % CountModulus, !.pulses = @ + 1,
                        !.wrapped = @ \/ st.counts = CountModulus - 1]

FlowMeterIsPolled ==
    /\ Runs("flow meter") /\ st.pollTimer = "running"
    /\ st' = CalculateAndWriteOuncesDispensed(st)

MonitoringIsRequested ==
    /\ Runs("flow meter")
    /\ \E r \in {"Start", "Stop", "Pause", "Resume"} : st' = MonitoringRequestChanged(st, r)

PollsCountEveryPulse ==
    st.pollTimer # "stopped" => st.since + ((st.counts - st.previous) % CountModulus) = st.pulses

\* Between start and stop every pulse is counted once, through pauses and
\* late polls, as long as the counter does not wrap.
FlowIsCountedOnce ==
    unit = "flow meter" => /\ ~st.wrapped => PollsCountEveryPulse
                           /\ st.pollTimer = "stopped" => st.ounces = 0

\* The same of a counter that wraps, which the test
\* ShouldUpdateOuncesDispensedCorrectlyWhenPulsesOverflows is named for.
FlowIsCountedWhenPulsesOverflow == unit = "flow meter" => PollsCountEveryPulse

-----------------------------------------------------------------------------
(* Without a flow meter a WaterVolumeUsageCalculator per valve measures by *)
(* time and publishes the volume of each opening; ErdAccumulatorServices   *)
(* add what is published to a total of all the valves and to one of the    *)
(* dispenser.  used is what really flowed.                                 *)

WaterValves == {"iceMaker", "dispenser"}

\* One AccumulatorFunction for each type: the sum stops at its maximum.
Accumulate(total, volume) == IF volume > TotalMaximum - total THEN TotalMaximum ELSE total + volume

\* A write that changes nothing is not published, so nothing accumulates it.
WriteVolume(s, v, volume) ==
    IF s.volume[v] = volume THEN s
    ELSE [s EXCEPT !.volume[v] = volume, !.total = Accumulate(@, volume),
                   !.dispensed = IF v = "dispenser" THEN Accumulate(@, volume) ELSE @]

CalculateWaterVolumeUsage(elapsed) == (elapsed * FlowRate) \div TicksPerSecond

WaterVolumeInit ==
    /\ unit = "water volume"
    /\ \E open \in SUBSET WaterValves :
        st = [relay |-> open, elapsed |-> [v \in WaterValves |-> 0], volume |-> [v \in WaterValves |-> 0],
              total |-> 0, dispensed |-> 0, used |-> [v \in WaterValves |-> 0]]

\* Mutant: the volume of the last opening is left standing.
WaterValveRelayOpensSilently(s, v) == [s EXCEPT !.relay = @ \cup {v}]

WaterValveRelayOpens(s, v) == WriteVolume([s EXCEPT !.relay = @ \cup {v}], v, 0)

WaterValveRelayCloses(s, v) ==
    LET volume == CalculateWaterVolumeUsage(s.elapsed[v])
        measured == WriteVolume([s EXCEPT !.relay = @ \ {v}], v, volume)
    IN  [measured EXCEPT !.elapsed[v] = 0, !.used[v] = Smaller(@ + volume, TotalMaximum)]

WaterValveRelayChanged ==
    /\ Runs("water volume")
    /\ \E v \in WaterValves :
        st' = IF v \in st.relay THEN WaterValveRelayCloses(st, v) ELSE WaterValveRelayOpens(st, v)

WaterValveIsOpen ==
    /\ Runs("water volume")
    /\ \E v \in st.relay : st.elapsed[v] < OpenTicks /\ st' = [st EXCEPT !.elapsed[v] = @ + 1]

\* Every opening of every valve is counted, also one that gives exactly as
\* much water as the one before it and two that overlap, and a total that is
\* full stays full.
EveryOpeningIsCounted ==
    unit = "water volume" =>
        /\ st.total = Smaller(st.used["iceMaker"] + st.used["dispenser"], TotalMaximum)
        /\ st.dispensed = st.used["dispenser"]

-----------------------------------------------------------------------------
WaterFilterInit == RfidInit \/ FilterLifeInit \/ FlowMeterInit \/ WaterVolumeInit

WaterFilterNext ==
    \/ FreshFoodDoorsChange \/ RfidDemoModeIsEnabled \/ ReadRequestTimeEnds \/ RfidTimeoutEnds
    \/ FilterIsChanged \/ WaterIsUsed \/ RfidBoardAnswers \/ RequestIsLost
    \/ VolumeChanges \/ LowUsageDelayEnds \/ CalendarMinuteEnds \/ FilterIsReset \/ FilterInputsChange \/ MonthMinuteEnds
    \/ WaterFlows \/ FlowMeterIsPolled \/ MonitoringIsRequested \/ WaterValveRelayChanged \/ WaterValveIsOpen

\* The used water is counted once on each of its ways: pulses of the flow
\* meter (unless its counter wraps), openings of the valves, and the life of
\* the filter that follows from them.
WaterIsCountedOnce == FilterLifeIsConsistent /\ FlowIsCountedOnce /\ EveryOpeningIsCounted
=============================================================================
