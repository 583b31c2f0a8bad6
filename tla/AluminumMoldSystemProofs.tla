---------------------- MODULE AluminumMoldSystemProofs ----------------------
(***************************************************************************)
(* The states of the aluminum mold ice maker own what they start, a fill   *)
(* is bounded through every pause, and the mold heater keeps its band.     *)
(* The signals run on one record that holds the ice maker with its rake,   *)
(* heater, feeler arm and fill monitor: Left says what every exit leaves,  *)
(* Leavable what it may be called on, and Found what a signal finds.       *)
(***************************************************************************)
EXTENDS AluminumMoldSystem, TLAPS

\* A postponed fill stands still outside Fill.
Postponed(f) ==
    /\ f.request = "Pause" /\ f.maxFill = "paused"
    /\ f.timedFill # "running" /\ ~f.listening

\* A rake without a request is as it was at the start, and one that has come
\* around does not run on.
RakeOk(r) ==
    /\ ~r.request => r = InitialRake
    /\ r.run => r.request /\ ~r.completedRevolution

\* The heater keeps its band at the temperature t.
InBand(h, t) ==
    /\ h.state = "MoldHeaterOn" => t < OffTemperature[h.band]
    /\ h.state = "MoldHeaterOff" => t > OnTemperature[h.band]

\* Between two states.
Left(m) ==
    /\ m \in Mold
    /\ ~m.valves /\ ~m.tubeHeater /\ ~m.counting /\ ~m.revolutionInFix
    /\ \A t \in m.timers : t = "minimumHeaterOn"
    /\ m.rake = InitialRake
    /\ ~m.heater.enable /\ m.heater.state = "Disabled"
    /\ ~m.arm.request
    /\ m.fill.request = IF m.pauseFill THEN "Pause" ELSE "Stop"
    /\ m.pauseFill => Postponed(m.fill)

\* In a state that may be left: what its exit does not clear is clear.
Leavable(m) ==
    /\ m \in Mold
    /\ m.valves => m.state = "Fill"
    /\ m.tubeHeater => m.state = "Harvest"
    /\ m.counting => m.state = "Freeze"
    /\ m.revolutionInFix => m.state = "HarvestFix"
    /\ m.arm.request => m.state = "Freeze"
    /\ "fillTubeHeater" \in m.timers \/ "maxHarvest" \in m.timers => m.state = "Harvest"
    /\ "maxHarvestFix" \in m.timers => m.state = "HarvestFix"
    /\ "harvestFaultMax" \in m.timers => m.state = "HarvestFault"
    /\ "rakeOn" \in m.timers \/ "rakeOff" \in m.timers =>
          m.state \in {"HarvestFix", "HarvestFault"}
    /\ RakeOk(m.rake)
    /\ m.rake.request => m.state \in {"Harvest", "HarvestFix", "HarvestFault"}
    /\ m.heater.enable => m.state \in {"Harvest", "HarvestFix"}
    /\ ~m.heater.enable => m.heater.state = "Disabled"
    /\ IF m.state = "Fill"
       THEN /\ m.fill.request \in {"Start", "Resume"}
            /\ m.pauseFill => m.fill.maxFill = "running"
       ELSE /\ m.fill.request = IF m.pauseFill THEN "Pause" ELSE "Stop"
            /\ m.pauseFill => Postponed(m.fill)

\* What a signal finds at the temperature t: a timer that has expired, or a
\* fill that has ended, tells so by its own signal.
Found(m, signal, t) ==
    /\ Leavable(m)
    /\ m.state = "Fill" => m.valves /\ ~m.pauseFill
    /\ m.state = "Fill" =>
          (m.fill.maxFill = "running" /\ m.fill.listening) \/ signal = "StopFill"
    /\ m.state = "Freeze" => m.counting /\ m.arm.request
    /\ "fillTubeHeater" \in m.timers =>
          m.tubeHeater /\ signal # "FillTubeHeaterTimerExpired"
    /\ m.tubeHeater => "fillTubeHeater" \in m.timers \/ signal = "FillTubeHeaterTimerExpired"
    /\ m.state = "Harvest" => "maxHarvest" \in m.timers \/ signal = "MaxHarvestTimeReached"
    /\ m.state = "HarvestFix" =>
          "maxHarvestFix" \in m.timers \/ signal = "MaxHarvestFixTimeReached"
    /\ m.state = "HarvestFault" =>
          "harvestFaultMax" \in m.timers \/ signal = "HarvestFaultMaxTimerExpired"
    /\ m.state \in {"HarvestFix", "HarvestFault"} =>
          \/ "rakeOn" \in m.timers \/ "rakeOff" \in m.timers
          \/ signal \in {"RakeOnTimerExpired", "RakeOffTimerExpired"}
    /\ m.state \in {"Harvest", "HarvestFix"} => m.heater.enable
    /\ InBand(m.heater, t)

MoldInv == MoldTypeOK /\ Found(mold, "none", temp)

\* What the handlers read is of the types of the ERDs.
ReadOk(e) ==
    /\ e.home \in BOOLEAN /\ e.full \in BOOLEAN /\ e.valid \in BOOLEAN
    /\ e.inhibited \in BOOLEAN /\ e.temp \in Int

-----------------------------------------------------------------------------
(***************************************************************************)
(* The parts: what a request makes of the rake, the heater, the arm and    *)
(* the monitor.                                                            *)
(***************************************************************************)
\* The fields of the ice maker have their types.
LEMMA MoldFields ==
    ASSUME NEW m \in Mold
    PROVE  /\ m.state \in MoldStates /\ m.valves \in BOOLEAN
           /\ m.tubeHeater \in BOOLEAN /\ m.counting \in BOOLEAN
           /\ m.skipFill \in BOOLEAN /\ m.revolutionInFix \in BOOLEAN
           /\ m.pauseFill \in BOOLEAN /\ m.delayFill \in BOOLEAN
           /\ m.timers \in SUBSET MoldTimers /\ m.rake \in Rake
           /\ m.heater \in Heater /\ m.arm \in FeelerArm /\ m.fill \in Monitor
BY DEF Mold

\* The fields of the rake's controller have their types.
LEMMA RakeFields ==
    ASSUME NEW r \in Rake
    PROVE  /\ r.request \in BOOLEAN /\ r.run \in BOOLEAN
           /\ r.hearsRake \in BOOLEAN /\ r.hearsArm \in BOOLEAN
           /\ r.notHomeTimer \in BOOLEAN /\ r.fullTimer \in BOOLEAN
           /\ r.hasNotBeenHome \in BOOLEAN /\ r.hasBeenFull \in BOOLEAN
           /\ r.completedRevolution \in BOOLEAN
BY DEF Rake

\* A rake that waits has seen nothing.
LEMMA InitialRakeFacts ==
    /\ InitialRake \in Rake /\ RakeOk(InitialRake)
    /\ ~InitialRake.request /\ ~InitialRake.run
    /\ ~InitialRake.hearsRake /\ ~InitialRake.hearsArm
    /\ ~InitialRake.notHomeTimer /\ ~InitialRake.fullTimer
    /\ ~InitialRake.completedRevolution
BY DEF InitialRake, Rake, RakeOk

\* A request starts the rake, or leaves it at what it has begun.
LEMMA RakeRequested ==
    ASSUME NEW r \in Rake, RakeOk(r), NEW atHome \in BOOLEAN, NEW full \in BOOLEAN
    PROVE  /\ RequestRake(r, TRUE, atHome, full) \in Rake
           /\ RakeOk(RequestRake(r, TRUE, atHome, full))
<1>1. CASE r.request
  BY <1>1, RakeFields DEF RequestRake
<1>2. CASE ~r.request
  <2> DEFINE away == r.notHomeTimer \/ ~atHome
             up == r.fullTimer \/ full
             q == [r EXCEPT !.request = TRUE, !.run = TRUE,
                            !.hearsRake = TRUE, !.hearsArm = TRUE,
                            !.notHomeTimer = away, !.fullTimer = up]
  <2>1. away \in BOOLEAN /\ up \in BOOLEAN
    OBVIOUS
  <2>2. RequestRake(r, TRUE, atHome, full) = q
    BY <1>2 DEF RequestRake
  <2> HIDE DEF away, up
  <2>3. q \in Rake /\ q.request /\ q.completedRevolution = r.completedRevolution
    BY <2>1, RakeFields, ZenonT(120) DEF Rake
  <2>4. ~r.completedRevolution
    BY <1>2, InitialRakeFacts DEF RakeOk
  <2> HIDE DEF q
  <2> QED BY <2>2, <2>3, <2>4 DEF RakeOk
<1> QED BY <1>1, <1>2, RakeFields

\* A cleared request leaves nothing of a revolution.
LEMMA RakeCleared ==
    ASSUME NEW r \in Rake, RakeOk(r), NEW atHome, NEW full
    PROVE  RequestRake(r, FALSE, atHome, full) = InitialRake
<1>1. CASE r.request
  BY <1>1 DEF RequestRake, ClearedRake
<1>2. CASE ~r.request
  <2>1. RequestRake(r, FALSE, atHome, full) = r
    BY <1>2, RakeFields DEF RequestRake
  <2> QED BY <1>2, <2>1 DEF RakeOk
<1> QED BY <1>1, <1>2

\* A rake that comes around stops.
LEMMA RakeStops ==
    ASSUME NEW r \in Rake, r.request, RakeOk(r), NEW atHome \in BOOLEAN
    PROVE  LET s == StopRakeControlWhenRakeRevolutionHasCompleted(r, atHome) IN
           s \in Rake /\ RakeOk(s) /\ s.request
<1> DEFINE s == [r EXCEPT !.run = FALSE, !.hearsRake = FALSE, !.completedRevolution = TRUE]
<1>1. s \in Rake /\ s.request = r.request /\ ~s.run
  BY RakeFields, ZenonT(120) DEF Rake
<1>2. \/ StopRakeControlWhenRakeRevolutionHasCompleted(r, atHome) = s
      \/ StopRakeControlWhenRakeRevolutionHasCompleted(r, atHome) = r
  BY DEF StopRakeControlWhenRakeRevolutionHasCompleted
<1> HIDE DEF s
<1>3. RakeOk(s) /\ s.request
  BY <1>1 DEF RakeOk
<1> QED BY <1>1, <1>2, <1>3

\* What the rake's own events make of it: its request stays as it is.
LEMMA RakeEvents ==
    ASSUME NEW r \in Rake, RakeOk(r), NEW b \in BOOLEAN
    PROVE  /\ LET s == RakePositionUpdated(r, b) IN
              s \in Rake /\ RakeOk(s) /\ s.request = r.request
           /\ LET s == FeelerArmPositionUpdated(r, b) IN
              /\ s \in Rake /\ RakeOk(s) /\ s.request = r.request
              /\ s.completedRevolution = r.completedRevolution
           /\ r.notHomeTimer => LET s == RakeNotHomeTestTimerExpired(r) IN
              /\ s \in Rake /\ RakeOk(s) /\ s.request = r.request
              /\ s.completedRevolution = r.completedRevolution
           /\ r.fullTimer => LET s == FeelerArmBucketFullTestTimerExpired(r, b) IN
              s \in Rake /\ RakeOk(s) /\ s.request = r.request
<1> USE RakeFields, InitialRakeFacts
<1>1. LET s == RakePositionUpdated(r, b) IN s \in Rake /\ RakeOk(s) /\ s.request = r.request
  <2>1. CASE ~r.hearsRake
    BY <2>1 DEF RakePositionUpdated
  <2>2. CASE r.hearsRake
    <3> DEFINE q(on) == [r EXCEPT !.notHomeTimer = on]
    <3>1. r.request
      BY <2>2 DEF RakeOk
    <3>2. ASSUME NEW on \in BOOLEAN
          PROVE  q(on) \in Rake /\ q(on).request = r.request /\ q(on).run = r.run
                 /\ q(on).completedRevolution = r.completedRevolution
      BY DEF Rake
    <3>3. /\ b => RakePositionUpdated(r, b) =
                     StopRakeControlWhenRakeRevolutionHasCompleted(q(FALSE), b)
          /\ ~b => RakePositionUpdated(r, b) = q(TRUE)
      BY <2>2 DEF RakePositionUpdated
    <3> HIDE DEF q
    <3>4. RakeOk(q(FALSE)) /\ RakeOk(q(TRUE)) /\ q(FALSE).request /\ q(TRUE).request
      BY <3>1, <3>2 DEF RakeOk
    <3>5. CASE b
      <4>1. q(FALSE) \in Rake
        BY <3>2
      <4>2. LET s == StopRakeControlWhenRakeRevolutionHasCompleted(q(FALSE), b) IN
            s \in Rake /\ RakeOk(s) /\ s.request
        BY <3>4, <4>1, RakeStops
      <4> QED BY <3>1, <3>3, <3>5, <4>2
    <3>6. CASE ~b
      <4>1. q(TRUE) \in Rake
        BY <3>2
      <4> QED BY <3>1, <3>3, <3>4, <3>6, <4>1
    <3> QED BY <3>5, <3>6
  <2> QED BY <2>1, <2>2
<1>2. LET s == FeelerArmPositionUpdated(r, b) IN
      /\ s \in Rake /\ RakeOk(s) /\ s.request = r.request
      /\ s.completedRevolution = r.completedRevolution
  <2>1. CASE ~r.hearsArm
    BY <2>1 DEF FeelerArmPositionUpdated
  <2>2. CASE r.hearsArm
    <3> DEFINE q == [r EXCEPT !.fullTimer = b]
    <3>1. r.request
      BY <2>2 DEF RakeOk
    <3>2. /\ q \in Rake /\ q.request = r.request /\ q.run = r.run
          /\ q.completedRevolution = r.completedRevolution
      BY DEF Rake
    <3>3. FeelerArmPositionUpdated(r, b) = q
      BY <2>2 DEF FeelerArmPositionUpdated
    <3> HIDE DEF q
    <3> QED BY <3>1, <3>2, <3>3 DEF RakeOk
  <2> QED BY <2>1, <2>2
<1>3. r.notHomeTimer => LET s == RakeNotHomeTestTimerExpired(r) IN
      /\ s \in Rake /\ RakeOk(s) /\ s.request = r.request
      /\ s.completedRevolution = r.completedRevolution
  <2> HAVE r.notHomeTimer
  <2> DEFINE q == RakeNotHomeTestTimerExpired(r)
  <2>1. r.request
    BY DEF RakeOk
  <2>2. /\ q \in Rake /\ q.request = r.request /\ q.run = r.run
        /\ q.completedRevolution = r.completedRevolution
    BY ZenonT(120) DEF RakeNotHomeTestTimerExpired, Rake
  <2> HIDE DEF q
  <2>3. RakeOk(q)
    BY <2>1, <2>2 DEF RakeOk
  <2> QED BY <2>2, <2>3 DEF q
<1>4. r.fullTimer => LET s == FeelerArmBucketFullTestTimerExpired(r, b) IN
      s \in Rake /\ RakeOk(s) /\ s.request = r.request
  <2> HAVE r.fullTimer
  <2> DEFINE q == [r EXCEPT !.fullTimer = FALSE, !.hasBeenFull = TRUE, !.hearsArm = FALSE]
  <2>1. r.request
    BY DEF RakeOk
  <2>2. /\ q \in Rake /\ q.request = r.request /\ q.run = r.run
        /\ q.completedRevolution = r.completedRevolution
    BY ZenonT(120) DEF Rake
  <2>3. FeelerArmBucketFullTestTimerExpired(r, b) =
            StopRakeControlWhenRakeRevolutionHasCompleted(q, b)
    BY DEF FeelerArmBucketFullTestTimerExpired
  <2> HIDE DEF q
  <2>4. RakeOk(q) /\ q.request
    BY <2>1, <2>2 DEF RakeOk
  <2>5. LET s == StopRakeControlWhenRakeRevolutionHasCompleted(q, b) IN
        s \in Rake /\ RakeOk(s) /\ s.request
    BY <2>2, <2>4, RakeStops
  <2> QED BY <2>1, <2>3, <2>5
<1> QED BY <1>1, <1>2, <1>3, <1>4

\* Entering the band compares the temperature with it.
LEMMA BandFacts ==
    ASSUME NEW h \in Heater, NEW t \in Int
    PROVE  /\ EnterBand(h, t) \in Heater /\ InBand(EnterBand(h, t), t)
           /\ EnterBand(h, t).enable = h.enable
<1> DEFINE s == IF t < OffTemperature[h.band] THEN "MoldHeaterOn" ELSE "MoldHeaterOff"
           g == [h EXCEPT !.state = s]
<1>1. s \in HeaterStates
  BY DEF HeaterStates
<1>2. EnterBand(h, t) = g
  BY DEF EnterBand
<1>3. h.band \in Bands /\ OffTemperature[h.band] \in Int /\ OnTemperature[h.band] \in Int
      /\ OnTemperature[h.band] < OffTemperature[h.band]
  BY BandsAreOrdered DEF Heater
<1>4. /\ s = "MoldHeaterOn" => t < OffTemperature[h.band]
      /\ s = "MoldHeaterOff" => t > OnTemperature[h.band]
  BY <1>3
<1> HIDE DEF s
<1>5. g \in Heater /\ g.state = s /\ g.band = h.band /\ g.enable = h.enable
  BY <1>1 DEF Heater
<1> HIDE DEF g
<1> QED BY <1>2, <1>4, <1>5 DEF InBand

\* A request out of Disabled, for either band.
LEMMA HeaterRequested ==
    ASSUME NEW h \in Heater, h.state = "Disabled", NEW band \in Bands, NEW t \in Int
    PROVE  LET g == RequestHeater(h, band, t) IN
           g \in Heater /\ g.enable /\ InBand(g, t)
<1> DEFINE g == [h EXCEPT !.enable = TRUE, !.band = band]
           i == [g EXCEPT !.state = "InitialMoldHeaterOn"]
<1>1. g \in Heater /\ g.enable
  BY DEF Heater
<1>2. \/ RequestHeater(h, band, t) = EnterBand(g, t)
      \/ RequestHeater(h, band, t) = i
  BY DEF RequestHeater, EnterInitialMoldHeaterOn, Bands
<1> HIDE DEF g
<1>3. i \in Heater /\ i.enable /\ i.state = "InitialMoldHeaterOn"
  BY <1>1 DEF Heater, HeaterStates
<1> HIDE DEF i
<1>4. InBand(i, t)
  BY <1>3 DEF InBand
<1>5. EnterBand(g, t) \in Heater /\ InBand(EnterBand(g, t), t) /\ EnterBand(g, t).enable = g.enable
  BY <1>1, BandFacts
<1> QED BY <1>1, <1>2, <1>3, <1>4, <1>5

\* A cleared request disables the heater.
LEMMA HeaterCleared ==
    ASSUME NEW h \in Heater
    PROVE  LET g == ClearHeaterRequest(h) IN
           g \in Heater /\ ~g.enable /\ g.state = "Disabled"
BY DEF ClearHeaterRequest, Heater, HeaterStates

\* A new temperature moves the heater within its band, and only there.
LEMMA HeaterFollows ==
    ASSUME NEW h \in Heater, NEW t \in Int
    PROVE  LET g == HeaterTemperatureChanged(h, t) IN
           /\ g \in Heater /\ g.enable = h.enable /\ InBand(g, t)
           /\ h.state = "Disabled" => g.state = "Disabled"
<1>1. h.band \in Bands /\ OffTemperature[h.band] \in Int /\ OnTemperature[h.band] \in Int
      /\ OnTemperature[h.band] < OffTemperature[h.band]
  BY BandsAreOrdered DEF Heater
<1>2. CASE h.state = "MoldHeaterOn" /\ t >= OffTemperature[h.band]
  <2> DEFINE g == [h EXCEPT !.state = "MoldHeaterOff"]
  <2>1. HeaterTemperatureChanged(h, t) = g
    BY <1>2 DEF HeaterTemperatureChanged
  <2>2. /\ g \in Heater /\ g.state = "MoldHeaterOff" /\ g.band = h.band
        /\ g.enable = h.enable
    BY DEF Heater, HeaterStates
  <2> HIDE DEF g
  <2> QED BY <1>1, <1>2, <2>1, <2>2 DEF InBand
<1>3. CASE h.state = "MoldHeaterOff" /\ t <= OnTemperature[h.band]
  <2> DEFINE g == [h EXCEPT !.state = "MoldHeaterOn"]
  <2>1. HeaterTemperatureChanged(h, t) = g
    BY <1>3 DEF HeaterTemperatureChanged
  <2>2. /\ g \in Heater /\ g.state = "MoldHeaterOn" /\ g.band = h.band
        /\ g.enable = h.enable
    BY DEF Heater, HeaterStates
  <2> HIDE DEF g
  <2> QED BY <1>1, <1>3, <2>1, <2>2 DEF InBand
<1>4. CASE /\ ~(h.state = "MoldHeaterOn" /\ t >= OffTemperature[h.band])
           /\ ~(h.state = "MoldHeaterOff" /\ t <= OnTemperature[h.band])
  <2>1. HeaterTemperatureChanged(h, t) = h
    BY <1>4 DEF HeaterTemperatureChanged
  <2> QED BY <1>1, <1>4, <2>1 DEF InBand
<1> QED BY <1>2, <1>3, <1>4

\* The request of the feeler arm's monitor is what was last asked.
LEMMA ArmFacts ==
    ASSUME NEW a \in FeelerArm, NEW request \in BOOLEAN, NEW full \in BOOLEAN
    PROVE  /\ LET b == RequestFeelerArmMonitoring(a, request, full) IN
              b \in FeelerArm /\ (b.request <=> request)
           /\ LET b == UpdateFeelerArm(a, full) IN
              b \in FeelerArm /\ b.request = a.request
           /\ LET b == FeelerArmDelayTimerExpired(a) IN
              b \in FeelerArm /\ b.request = a.request
<1>1. ASSUME NEW x \in FeelerArm
      PROVE  UpdateFeelerArm(x, full) \in FeelerArm
             /\ UpdateFeelerArm(x, full).request = x.request
  <2> DEFINE d == x.request /\ ~full
             y == x.ready /\ x.request /\ ~full
             b == [x EXCEPT !.delayTimer = d, !.ready = y]
  <2>1. d \in BOOLEAN /\ y \in BOOLEAN
    OBVIOUS
  <2>2. UpdateFeelerArm(x, full) = b
    BY DEF UpdateFeelerArm
  <2> HIDE DEF d, y
  <2>3. b \in FeelerArm /\ b.request = x.request
    BY <2>1 DEF FeelerArm
  <2> QED BY <2>2, <2>3
<1>2. FeelerArmDelayTimerExpired(a) \in FeelerArm
      /\ FeelerArmDelayTimerExpired(a).request = a.request
  BY DEF FeelerArmDelayTimerExpired, FeelerArm
<1> DEFINE c == [a EXCEPT !.request = request]
<1>3. c \in FeelerArm /\ c.request = request /\ a.request \in BOOLEAN
  BY DEF FeelerArm
<1>4. \/ RequestFeelerArmMonitoring(a, request, full) = a /\ request = a.request
      \/ RequestFeelerArmMonitoring(a, request, full) = UpdateFeelerArm(c, full)
  BY DEF RequestFeelerArmMonitoring
<1> HIDE DEF c
<1>5. UpdateFeelerArm(c, full) \in FeelerArm /\ UpdateFeelerArm(c, full).request = c.request
  BY <1>1, <1>3
<1>6. UpdateFeelerArm(a, full) \in FeelerArm /\ UpdateFeelerArm(a, full).request = a.request
  BY <1>1
<1> QED BY <1>2, <1>3, <1>4, <1>5, <1>6

\* The fields of the fill monitor have their types.
LEMMA MonitorFields ==
    ASSUME NEW f \in Monitor
    PROVE  /\ f.request \in MonitorRequests /\ f.timedFill \in TimerStates
           /\ f.maxFill \in TimerStates /\ f.listening \in BOOLEAN
BY DEF Monitor

\* What a request makes of the fill monitor.
LEMMA RequestFacts ==
    ASSUME NEW f \in Monitor, NEW r \in MonitorRequests
    PROVE  /\ RequestMonitor(f, r) \in Monitor
           /\ RequestMonitor(f, r).request = r
           /\ r = "Start" /\ f.request # r =>
                 RequestMonitor(f, r).maxFill = "running" /\ RequestMonitor(f, r).listening
           /\ r = "Resume" /\ f.request # r /\ f.maxFill = "paused" =>
                 RequestMonitor(f, r).maxFill = "running" /\ RequestMonitor(f, r).listening
           /\ r = "Pause" /\ f.request # r /\ f.maxFill = "running" =>
                 Postponed(RequestMonitor(f, r))
<1> DEFINE g == [f EXCEPT !.request = r]
<1>1. /\ g \in Monitor /\ g.request = r /\ g.maxFill = f.maxFill
      /\ g.timedFill = f.timedFill /\ g.listening = f.listening
  BY DEF Monitor
<1>2. CASE r = f.request
  BY <1>2 DEF RequestMonitor
<1>3. CASE r = "Start" /\ r # f.request
  <2>1. RequestMonitor(f, r) = StartMonitoring(g)
    BY <1>3 DEF RequestMonitor
  <2> HIDE DEF g
  <2>2. /\ StartMonitoring(g) \in Monitor /\ StartMonitoring(g).request = g.request
        /\ StartMonitoring(g).maxFill = "running" /\ StartMonitoring(g).listening
    BY <1>1 DEF StartMonitoring, Monitor, TimerStates
  <2> QED BY <1>1, <1>3, <2>1, <2>2
<1>4. CASE r = "Pause" /\ r # f.request
  <2>1. RequestMonitor(f, r) = PauseMonitoring(g)
    BY <1>4 DEF RequestMonitor
  <2> HIDE DEF g
  <2>2. /\ PauseMonitoring(g) \in Monitor /\ PauseMonitoring(g).request = g.request
        /\ g.maxFill = "running" => PauseMonitoring(g).maxFill = "paused"
        /\ PauseMonitoring(g).timedFill # "running" /\ ~PauseMonitoring(g).listening
    BY <1>1 DEF PauseMonitoring, Paused, Monitor, TimerStates
  <2> QED BY <1>1, <1>4, <2>1, <2>2 DEF Postponed
<1>5. CASE r = "Resume" /\ r # f.request
  <2>1. RequestMonitor(f, r) = ResumeMonitoring(g)
    BY <1>5 DEF RequestMonitor
  <2> HIDE DEF g
  <2>2. /\ ResumeMonitoring(g) \in Monitor /\ ResumeMonitoring(g).request = g.request
        /\ g.maxFill = "paused" => ResumeMonitoring(g).maxFill = "running"
        /\ ResumeMonitoring(g).listening
    BY <1>1 DEF ResumeMonitoring, Resumed, Monitor, TimerStates
  <2> QED BY <1>1, <1>5, <2>1, <2>2
<1>6. CASE r = "Stop" /\ r # f.request
  <2>1. RequestMonitor(f, r) = g
    BY <1>6 DEF RequestMonitor
  <2> QED BY <1>1, <1>6, <2>1
<1> QED BY <1>2, <1>3, <1>4, <1>5, <1>6 DEF MonitorRequests

-----------------------------------------------------------------------------
(***************************************************************************)
(* The ice maker: what one operation changes.                              *)
(***************************************************************************)
\* n is m but for the fields in fs (and those no lemma here is about).
Agree(n, m, fs) ==
    /\ n \in Mold
    /\ "state" \notin fs => n.state = m.state
    /\ "valves" \notin fs => n.valves = m.valves
    /\ "tubeHeater" \notin fs => n.tubeHeater = m.tubeHeater
    /\ "counting" \notin fs => n.counting = m.counting
    /\ "revolutionInFix" \notin fs => n.revolutionInFix = m.revolutionInFix
    /\ "pauseFill" \notin fs => n.pauseFill = m.pauseFill
    /\ "timers" \notin fs => n.timers = m.timers
    /\ "rake" \notin fs => n.rake = m.rake
    /\ "heater" \notin fs => n.heater = m.heater
    /\ "arm" \notin fs => n.arm = m.arm
    /\ "fill" \notin fs => n.fill = m.fill

\* The votes and the flags.
LEMMA VoteFacts ==
    ASSUME NEW m \in Mold, NEW on \in BOOLEAN
    PROVE  /\ Agree(VoteForWaterValves(m, on), m, {"valves"})
           /\ VoteForWaterValves(m, on).valves = on
           /\ Agree(VoteForFillTubeHeater(m, on), m, {"tubeHeater"})
           /\ VoteForFillTubeHeater(m, on).tubeHeater = on
           /\ Agree(RequestHarvestCountCalculation(m, on), m, {"counting"})
           /\ RequestHarvestCountCalculation(m, on).counting = on
           /\ Agree(SetSkipFillFlag(m, on), m, {})
           /\ Agree(SetRevolutionFlag(m, on), m, {"revolutionInFix"})
           /\ SetRevolutionFlag(m, on).revolutionInFix = on
           /\ Agree([m EXCEPT !.pauseFill = on], m, {"pauseFill"})
           /\ [m EXCEPT !.pauseFill = on].pauseFill = on
           /\ Agree([m EXCEPT !.delayFill = on], m, {})
           /\ Agree([m EXCEPT !.initialFreeze = on], m, {})
           /\ Agree([m EXCEPT !.iceRate = on], m, {})
<1>1. /\ Agree(VoteForWaterValves(m, on), m, {"valves"})
      /\ VoteForWaterValves(m, on).valves = on
  BY DEF VoteForWaterValves, Mold, Agree
<1>2. /\ Agree(VoteForFillTubeHeater(m, on), m, {"tubeHeater"})
      /\ VoteForFillTubeHeater(m, on).tubeHeater = on
  BY DEF VoteForFillTubeHeater, Mold, Agree
<1>3. /\ Agree(RequestHarvestCountCalculation(m, on), m, {"counting"})
      /\ RequestHarvestCountCalculation(m, on).counting = on
  BY DEF RequestHarvestCountCalculation, Mold, Agree
<1>4. Agree(SetSkipFillFlag(m, on), m, {})
  BY DEF SetSkipFillFlag, Mold, Agree
<1>5. /\ Agree(SetRevolutionFlag(m, on), m, {"revolutionInFix"})
      /\ SetRevolutionFlag(m, on).revolutionInFix = on
  BY DEF SetRevolutionFlag, Mold, Agree
<1>6. /\ Agree([m EXCEPT !.pauseFill = on], m, {"pauseFill"})
      /\ [m EXCEPT !.pauseFill = on].pauseFill = on
  BY DEF Mold, Agree
<1>7. Agree([m EXCEPT !.delayFill = on], m, {})
  BY DEF Mold, Agree
<1>8. Agree([m EXCEPT !.initialFreeze = on], m, {})
  BY DEF Mold, Agree
<1>9. Agree([m EXCEPT !.iceRate = on], m, {})
  BY DEF Mold, Agree
<1> QED BY <1>1, <1>2, <1>3, <1>4, <1>5, <1>6, <1>7, <1>8, <1>9

\* The timers, one started or some stopped.
LEMMA TimerFacts ==
    ASSUME NEW m \in Mold, NEW t \in MoldTimers, NEW ts
    PROVE  /\ Agree(StartTimer(m, t), m, {"timers"})
           /\ StartTimer(m, t).timers = m.timers \union {t}
           /\ Agree(StopTimers(m, ts), m, {"timers"})
           /\ StopTimers(m, ts).timers = m.timers \ ts
<1>1. m.timers \union {t} \in SUBSET MoldTimers /\ m.timers \ ts \in SUBSET MoldTimers
  BY MoldFields
<1>2. StartTimer(m, t) = [m EXCEPT !.timers = m.timers \union {t}]
  BY DEF StartTimer
<1>3. StopTimers(m, ts) = [m EXCEPT !.timers = m.timers \ ts]
  BY DEF StopTimers
<1>4. /\ Agree([m EXCEPT !.timers = m.timers \union {t}], m, {"timers"})
      /\ [m EXCEPT !.timers = m.timers \union {t}].timers = m.timers \union {t}
  BY <1>1 DEF Mold, Agree
<1>5. /\ Agree([m EXCEPT !.timers = m.timers \ ts], m, {"timers"})
      /\ [m EXCEPT !.timers = m.timers \ ts].timers = m.timers \ ts
  BY <1>1 DEF Mold, Agree
<1> QED BY <1>2, <1>3, <1>4, <1>5

\* The rake's timer runs for one of its callbacks.
LEMMA RakeTimerFacts ==
    ASSUME NEW m \in Mold, NEW t \in {"rakeOn", "rakeOff"}
    PROVE  /\ Agree(StartRakeMotorControlTimer(m, t), m, {"timers"})
           /\ StartRakeMotorControlTimer(m, t).timers =
                  (m.timers \ {"rakeOn", "rakeOff"}) \union {t}
           /\ Agree(StopRakeMotorControlTimer(m), m, {"timers"})
           /\ StopRakeMotorControlTimer(m).timers = m.timers \ {"rakeOn", "rakeOff"}
<1> DEFINE s == StopRakeMotorControlTimer(m)
<1>1. Agree(s, m, {"timers"}) /\ s.timers = m.timers \ {"rakeOn", "rakeOff"}
  BY TimerFacts DEF StopRakeMotorControlTimer, MoldTimers
<1>2. StartRakeMotorControlTimer(m, t) = StartTimer(s, t)
  BY DEF StartRakeMotorControlTimer
<1> HIDE DEF s
<1>3. s \in Mold /\ t \in MoldTimers
  BY <1>1 DEF Agree, MoldTimers
<1>4. Agree(StartTimer(s, t), s, {"timers"}) /\ StartTimer(s, t).timers = s.timers \union {t}
  BY <1>3, TimerFacts
<1>5. Agree(StartTimer(s, t), m, {"timers"})
  BY <1>1, <1>4 DEF Agree
<1> QED BY <1>1, <1>2, <1>4, <1>5 DEF s

\* The requests to the rake.
LEMMA RakeRequestFacts ==
    ASSUME NEW m \in Mold, NEW e, ReadOk(e), RakeOk(m.rake)
    PROVE  /\ Agree(SetRakeControllerRequest(m, e), m, {"rake"})
           /\ RakeOk(SetRakeControllerRequest(m, e).rake)
           /\ Agree(ClearRakeControllerRequest(m, e), m, {"rake"})
           /\ ClearRakeControllerRequest(m, e).rake = InitialRake
<1> DEFINE r == RequestRake(m.rake, TRUE, e.home, e.full)
<1>1. m.rake \in Rake
  BY MoldFields
<1>2. r \in Rake /\ RakeOk(r)
  BY <1>1, RakeRequested DEF ReadOk
<1>3. SetRakeControllerRequest(m, e) = [m EXCEPT !.rake = r]
  BY DEF SetRakeControllerRequest
<1> HIDE DEF r
<1>4. Agree([m EXCEPT !.rake = r], m, {"rake"}) /\ [m EXCEPT !.rake = r].rake = r
  BY <1>2 DEF Mold, Agree
<1>5. RequestRake(m.rake, FALSE, e.home, e.full) = InitialRake /\ InitialRake \in Rake
  BY <1>1, RakeCleared, InitialRakeFacts
<1>6. ClearRakeControllerRequest(m, e) = [m EXCEPT !.rake = InitialRake]
  BY <1>5 DEF ClearRakeControllerRequest
<1>7. /\ Agree([m EXCEPT !.rake = InitialRake], m, {"rake"})
      /\ [m EXCEPT !.rake = InitialRake].rake = InitialRake
  BY <1>5 DEF Mold, Agree
<1> QED BY <1>2, <1>3, <1>4, <1>6, <1>7

\* The requests to the mold heater.
LEMMA HeaterRequestFacts ==
    ASSUME NEW m \in Mold, NEW e, ReadOk(e)
    PROVE  /\ LET n == SetMoldHeaterControlRequestForHarvest(m, e) IN
              m.heater.state = "Disabled" =>
                 Agree(n, m, {"heater"}) /\ n.heater.enable /\ InBand(n.heater, e.temp)
           /\ LET n == SetMoldHeaterControlRequestForHarvestFix(m, e) IN
              m.heater.state = "Disabled" =>
                 Agree(n, m, {"heater"}) /\ n.heater.enable /\ InBand(n.heater, e.temp)
           /\ LET n == ClearMoldHeaterControlRequest(m) IN
              Agree(n, m, {"heater"}) /\ ~n.heater.enable /\ n.heater.state = "Disabled"
<1>1. m.heater \in Heater /\ e.temp \in Int
  BY MoldFields DEF ReadOk
<1>2. ASSUME NEW h \in Heater
      PROVE  Agree([m EXCEPT !.heater = h], m, {"heater"}) /\ [m EXCEPT !.heater = h].heater = h
  BY DEF Mold, Agree
<1>3. ASSUME NEW band \in Bands, m.heater.state = "Disabled"
      PROVE  LET n == [m EXCEPT !.heater = RequestHeater(@, band, e.temp)] IN
             Agree(n, m, {"heater"}) /\ n.heater.enable /\ InBand(n.heater, e.temp)
  <2> DEFINE h == RequestHeater(m.heater, band, e.temp)
  <2>1. h \in Heater /\ h.enable /\ InBand(h, e.temp)
    BY <1>1, <1>3, HeaterRequested
  <2> HIDE DEF h
  <2>2. Agree([m EXCEPT !.heater = h], m, {"heater"}) /\ [m EXCEPT !.heater = h].heater = h
    BY <1>2, <2>1
  <2>3. LET n == [m EXCEPT !.heater = h] IN
        Agree(n, m, {"heater"}) /\ n.heater.enable /\ InBand(n.heater, e.temp)
    BY <2>1, <2>2
  <2> QED BY <2>3 DEF h
<1>4. LET n == ClearMoldHeaterControlRequest(m) IN
      Agree(n, m, {"heater"}) /\ ~n.heater.enable /\ n.heater.state = "Disabled"
  <2> DEFINE h == ClearHeaterRequest(m.heater)
  <2>1. h \in Heater /\ ~h.enable /\ h.state = "Disabled"
    BY <1>1, HeaterCleared
  <2>2. ClearMoldHeaterControlRequest(m) = [m EXCEPT !.heater = h]
    BY DEF ClearMoldHeaterControlRequest
  <2> HIDE DEF h
  <2>3. Agree([m EXCEPT !.heater = h], m, {"heater"}) /\ [m EXCEPT !.heater = h].heater = h
    BY <1>2, <2>1
  <2> QED BY <2>1, <2>2, <2>3
<1>5. "harvest" \in Bands /\ "fix" \in Bands
  BY DEF Bands
<1> QED
  BY <1>3, <1>4, <1>5 DEF SetMoldHeaterControlRequestForHarvest,
                          SetMoldHeaterControlRequestForHarvestFix

\* The requests to the fill monitor.
LEMMA FillRequestFacts ==
    ASSUME NEW m \in Mold, NEW request \in MonitorRequests
    PROVE  /\ Agree(RequestFill(m, request), m, {"fill"})
           /\ RequestFill(m, request).fill = RequestMonitor(m.fill, request)
<1> DEFINE f == RequestMonitor(m.fill, request)
<1>1. f \in Monitor
  BY MoldFields, RequestFacts
<1>2. RequestFill(m, request) = [m EXCEPT !.fill = f]
  BY DEF RequestFill
<1> HIDE DEF f
<1>3. Agree([m EXCEPT !.fill = f], m, {"fill"}) /\ [m EXCEPT !.fill = f].fill = f
  BY <1>1 DEF Mold, Agree
<1> QED BY <1>2, <1>3 DEF f

-----------------------------------------------------------------------------
(***************************************************************************)
(* Transitions: exits leave nothing behind, entries start what the state   *)
(* needs.                                                                  *)
(***************************************************************************)
\* Freeze stops counting and lets the feeler arm go.
LEMMA ExitFreezeFacts ==
    ASSUME NEW m, NEW e, ReadOk(e), Leavable(m), m.state = "Freeze"
    PROVE  Left(ExitMold(m, e))
<1> DEFINE n == RequestHarvestCountCalculation(m, FALSE)
           i == [n EXCEPT !.initialFreeze = FALSE]
           a == RequestFeelerArmMonitoring(n.arm, FALSE, e.full)
           x == [i EXCEPT !.arm = a]
<1>1. m \in Mold
  BY DEF Leavable
<1>2. ExitMold(m, e) = [n EXCEPT !.initialFreeze = FALSE, !.arm = a]
  BY DEF ExitMold, ExitFreeze
<1>3. Agree(n, m, {"counting"}) /\ ~n.counting
  BY <1>1, VoteFacts
<1> HIDE DEF n
<1>4. n \in Mold /\ n.arm \in FeelerArm
  BY <1>3, MoldFields DEF Agree
<1>5. a \in FeelerArm /\ ~a.request
  BY <1>4, ArmFacts DEF ReadOk
<1>6. Agree(i, n, {})
  BY <1>4, VoteFacts
<1> HIDE DEF a
<1>7. [n EXCEPT !.initialFreeze = FALSE, !.arm = a] = x
  BY <1>4 DEF Mold
<1> HIDE DEF i
<1>8. Agree(x, i, {"arm"}) /\ x.arm = a
  BY <1>5, <1>6 DEF Mold, Agree
<1> HIDE DEF x
<1>9. Left(x)
  BY <1>3, <1>5, <1>6, <1>8 DEF Leavable, Left, Agree, RakeOk, Mold, MoldTimers
<1> QED BY <1>2, <1>7, <1>9

\* Harvest ends its loads and its timers but for the minimum heater timer.
LEMMA ExitHarvestFacts ==
    ASSUME NEW m, NEW e, ReadOk(e), Leavable(m), m.state = "Harvest"
    PROVE  Left(ExitMold(m, e))
<1> DEFINE a == StopTimers(m, {"fillTubeHeater", "maxHarvest"})
           b == VoteForFillTubeHeater(a, FALSE)
           c == SetSkipFillFlag(b, FALSE)
           d == ClearMoldHeaterControlRequest(c)
           x == ClearRakeControllerRequest(d, e)
<1>0. m \in Mold
  BY DEF Leavable
<1>1. ExitMold(m, e) = x
  BY DEF ExitMold, ExitHarvest
<1>2. Agree(a, m, {"timers"}) /\ a.timers = m.timers \ {"fillTubeHeater", "maxHarvest"}
  BY <1>0, TimerFacts DEF MoldTimers
<1> HIDE DEF a
<1>3. Agree(b, a, {"tubeHeater"}) /\ ~b.tubeHeater
  <2>1. a \in Mold
    BY <1>2 DEF Agree
  <2> QED BY <2>1, VoteFacts
<1> HIDE DEF b
<1>4. Agree(c, b, {})
  BY <1>3, VoteFacts, ZenonT(120) DEF Agree
<1> HIDE DEF c
<1>5. Agree(d, c, {"heater"}) /\ ~d.heater.enable /\ d.heater.state = "Disabled"
  BY <1>4, HeaterRequestFacts DEF Agree
<1> HIDE DEF d
<1>6. Agree(d, m, {"timers", "tubeHeater", "heater"})
  BY <1>2, <1>3, <1>4, <1>5 DEF Agree
<1>7. RakeOk(d.rake)
  BY <1>6 DEF Agree, Leavable
<1>8. Agree(x, d, {"rake"}) /\ x.rake = InitialRake
  BY <1>5, <1>7, RakeRequestFacts DEF Agree
<1> HIDE DEF x
<1>9. /\ Agree(x, m, {"timers", "tubeHeater", "heater", "rake"}) /\ ~x.tubeHeater
      /\ ~x.heater.enable /\ x.heater.state = "Disabled"
      /\ x.timers = m.timers \ {"fillTubeHeater", "maxHarvest"}
  BY <1>2, <1>3, <1>4, <1>5, <1>6, <1>8 DEF Agree
<1>10. Left(x)
  BY <1>0, <1>8, <1>9, MoldFields DEF Leavable, Left, Agree, MoldTimers
<1> QED BY <1>1, <1>10

\* HarvestFix ends its time, the rake's timer and its count of revolutions.
LEMMA ExitHarvestFixFacts ==
    ASSUME NEW m, NEW e, ReadOk(e), Leavable(m), m.state = "HarvestFix"
    PROVE  Left(ExitMold(m, e))
<1> DEFINE a == StopMaxHarvestFixTimer(m)
           b == StopRakeMotorControlTimer(a)
           c == SetRevolutionFlag(b, FALSE)
           d == ClearMoldHeaterControlRequest(c)
           x == ClearRakeControllerRequest(d, e)
<1>0. m \in Mold
  BY DEF Leavable
<1>1. ExitMold(m, e) = x
  BY DEF ExitMold, ExitHarvestFix
<1>2. Agree(a, m, {"timers"}) /\ a.timers = m.timers \ {"maxHarvestFix"}
  BY <1>0, TimerFacts DEF StopMaxHarvestFixTimer, MoldTimers
<1> HIDE DEF a
<1>3. Agree(b, a, {"timers"}) /\ b.timers = a.timers \ {"rakeOn", "rakeOff"}
  BY <1>2, RakeTimerFacts DEF Agree
<1> HIDE DEF b
<1>4. Agree(c, b, {"revolutionInFix"}) /\ ~c.revolutionInFix
  <2>1. b \in Mold
    BY <1>3 DEF Agree
  <2> QED BY <2>1, VoteFacts
<1> HIDE DEF c
<1>5. Agree(d, c, {"heater"}) /\ ~d.heater.enable /\ d.heater.state = "Disabled"
  BY <1>4, HeaterRequestFacts DEF Agree
<1> HIDE DEF d
<1>6. Agree(d, m, {"timers", "revolutionInFix", "heater"})
  BY <1>2, <1>3, <1>4, <1>5 DEF Agree
<1>7. RakeOk(d.rake)
  BY <1>6 DEF Agree, Leavable
<1>8. Agree(x, d, {"rake"}) /\ x.rake = InitialRake
  BY <1>5, <1>7, RakeRequestFacts DEF Agree
<1> HIDE DEF x
<1>9. /\ Agree(x, m, {"timers", "revolutionInFix", "heater", "rake"})
      /\ ~x.revolutionInFix /\ ~x.heater.enable /\ x.heater.state = "Disabled"
      /\ x.timers = m.timers \ {"maxHarvestFix", "rakeOn", "rakeOff"}
  BY <1>2, <1>3, <1>4, <1>5, <1>6, <1>8 DEF Agree
<1>10. Left(x)
  BY <1>0, <1>8, <1>9, MoldFields DEF Leavable, Left, Agree, MoldTimers
<1> QED BY <1>1, <1>10

\* HarvestFault ends its time and the rake's timer.
LEMMA ExitHarvestFaultFacts ==
    ASSUME NEW m, NEW e, ReadOk(e), Leavable(m), m.state = "HarvestFault"
    PROVE  Left(ExitMold(m, e))
<1> DEFINE a == StopHarvestFaultMaxTimer(m)
           b == StopRakeMotorControlTimer(a)
           x == ClearRakeControllerRequest(b, e)
<1>0. m \in Mold
  BY DEF Leavable
<1>1. ExitMold(m, e) = x
  BY DEF ExitMold, ExitHarvestFault
<1>2. Agree(a, m, {"timers"}) /\ a.timers = m.timers \ {"harvestFaultMax"}
  BY <1>0, TimerFacts DEF StopHarvestFaultMaxTimer, MoldTimers
<1> HIDE DEF a
<1>3. Agree(b, a, {"timers"}) /\ b.timers = a.timers \ {"rakeOn", "rakeOff"}
  BY <1>2, RakeTimerFacts DEF Agree
<1> HIDE DEF b
<1>4. b \in Mold /\ RakeOk(b.rake)
  BY <1>2, <1>3 DEF Agree, Leavable
<1>5. Agree(x, b, {"rake"}) /\ x.rake = InitialRake
  BY <1>4, RakeRequestFacts
<1> HIDE DEF x
<1>6. /\ Agree(x, m, {"timers", "rake"})
      /\ x.timers = m.timers \ {"harvestFaultMax", "rakeOn", "rakeOff"}
  BY <1>2, <1>3, <1>5 DEF Agree
<1>7. Left(x)
  BY <1>0, <1>5, <1>6, MoldFields DEF Leavable, Left, Agree, MoldTimers
<1> QED BY <1>1, <1>7

\* Fill closes the valves and ends, or postpones, the fill.
LEMMA ExitFillFacts ==
    ASSUME NEW m, NEW e, Leavable(m), m.state = "Fill"
    PROVE  Left(ExitFill(m)) /\ Left(ExitMold(m, e))
<1> DEFINE r == IF m.pauseFill THEN "Pause" ELSE "Stop"
           a == RequestFill(m, r)
           x == VoteForWaterValves(a, FALSE)
<1>0. m \in Mold /\ m.fill \in Monitor
  BY MoldFields DEF Leavable
<1>1. ExitMold(m, e) = x /\ ExitFill(m) = x
  BY DEF ExitMold, ExitFill
<1>2. r \in MonitorRequests
  BY DEF MonitorRequests
<1>3. Agree(a, m, {"fill"}) /\ a.fill = RequestMonitor(m.fill, r)
  BY <1>0, <1>2, FillRequestFacts
<1> HIDE DEF a
<1>4. a \in Mold
  BY <1>3 DEF Agree
<1>5. Agree(x, a, {"valves"}) /\ ~x.valves
  BY <1>4, VoteFacts
<1> HIDE DEF x
<1>6. /\ m.fill.request \in {"Start", "Resume"}
      /\ m.pauseFill => m.fill.maxFill = "running"
  BY DEF Leavable
<1>7. /\ RequestMonitor(m.fill, r).request = r
      /\ m.pauseFill => Postponed(RequestMonitor(m.fill, r))
  BY <1>0, <1>2, <1>6, RequestFacts
<1>8. Agree(x, m, {"valves", "fill"}) /\ x.fill = RequestMonitor(m.fill, r)
  BY <1>3, <1>5 DEF Agree
<1>9. Left(x)
  BY <1>0, <1>5, <1>7, <1>8, MoldFields DEF Leavable, Left, Agree, RakeOk, MoldTimers
<1> QED BY <1>1, <1>9

\* Every state leaves nothing behind.
LEMMA ExitFacts ==
    ASSUME NEW m, NEW e, ReadOk(e), Leavable(m)
    PROVE  Left(ExitMold(m, e))
<1>0. m \in Mold /\ m.state \in MoldStates
  BY MoldFields DEF Leavable
<1>1. CASE m.state \in {"IdleFill", "ThermistorFault"}
  <2>1. ExitMold(m, e) = m
    BY <1>1 DEF ExitMold
  <2>2. Left(m)
    BY <1>0, <1>1, MoldFields DEF Leavable, Left, RakeOk, MoldTimers
  <2> QED BY <2>1, <2>2
<1> QED
  BY <1>0, <1>1, ExitFreezeFacts, ExitHarvestFacts, ExitHarvestFixFacts,
     ExitHarvestFaultFacts, ExitFillFacts DEF MoldStates

\* A heater, an arm and a signal at rest.
LEMMA AtRest ==
    ASSUME NEW m, Left(m), NEW t
    PROVE  InBand(m.heater, t) /\ RakeOk(m.rake) /\ ~m.rake.request
BY InitialRakeFacts DEF Left, InBand

\* Freeze counts and watches the feeler arm.
LEMMA EnterFreezeFacts ==
    ASSUME NEW m, NEW e, ReadOk(e), Left(m)
    PROVE  Found(EnterFreeze(m, e), "none", e.temp)
<1> DEFINE n == VoteForWaterValves(m, FALSE)
           c == RequestHarvestCountCalculation(n, TRUE)
           s == [c EXCEPT !.state = "Freeze"]
           a == RequestFeelerArmMonitoring(c.arm, TRUE, e.full)
           x == [s EXCEPT !.arm = a]
           i == [x EXCEPT !.iceRate = TRUE]
<1>0. m \in Mold
  BY DEF Left
<1>1. EnterFreeze(m, e) = TriggerFreezerIceRateIfNecessary(
                              [c EXCEPT !.state = "Freeze", !.arm = a], e)
  BY DEF EnterFreeze
<1>2. Agree(n, m, {"valves"}) /\ ~n.valves
  BY <1>0, VoteFacts
<1> HIDE DEF n
<1>3. Agree(c, n, {"counting"}) /\ c.counting
  <2>1. n \in Mold
    BY <1>2 DEF Agree
  <2> QED BY <2>1, VoteFacts
<1> HIDE DEF c
<1>4. c \in Mold /\ c.arm \in FeelerArm
  BY <1>3, MoldFields DEF Agree
<1>5. a \in FeelerArm /\ a.request
  BY <1>4, ArmFacts DEF ReadOk
<1> HIDE DEF a
<1>6. Agree(s, c, {"state"}) /\ s.state = "Freeze"
  BY <1>4 DEF Mold, MoldStates, Agree
<1>7. [c EXCEPT !.state = "Freeze", !.arm = a] = x
  BY <1>4 DEF Mold
<1> HIDE DEF s
<1>8. Agree(x, s, {"arm"}) /\ x.arm = a
  BY <1>5, <1>6 DEF Mold, Agree
<1>9. EnterFreeze(m, e) = x \/ EnterFreeze(m, e) = i
  BY <1>1, <1>7 DEF TriggerFreezerIceRateIfNecessary
<1> HIDE DEF x
<1>10. Agree(i, x, {})
  BY <1>8 DEF Mold, Agree
<1> HIDE DEF i
<1>11. Found(x, "none", e.temp)
  <2>1. /\ Agree(x, m, {"valves", "counting", "state", "arm"})
        /\ ~x.valves /\ x.counting /\ x.state = "Freeze" /\ x.arm.request
    BY <1>2, <1>3, <1>5, <1>6, <1>8, ZenonT(120) DEF Agree
  <2>2. Leavable(x)
    BY <2>1, AtRest DEF Left, Leavable, Agree
  <2> QED BY <2>1, <2>2, AtRest DEF Left, Found, Agree
<1>12. Found(i, "none", e.temp)
  BY <1>10, <1>11 DEF Found, Leavable, Agree
<1> QED BY <1>9, <1>11, <1>12

\* Harvest heats the fill tube and the mold, each against its time.
LEMMA EnterHarvestFacts ==
    ASSUME NEW m, NEW e, ReadOk(e), Left(m)
    PROVE  Found(EnterHarvest(m, e), "none", e.temp)
<1> DEFINE v == VoteForFillTubeHeater(m, TRUE)
           s == [v EXCEPT !.state = "Harvest"]
           ts == v.timers \union {"fillTubeHeater", "maxHarvest", "minimumHeaterOn"}
           q == [s EXCEPT !.timers = ts]
           x == SetMoldHeaterControlRequestForHarvest(q, e)
<1>0. m \in Mold
  BY DEF Left
<1>1. Agree(v, m, {"tubeHeater"}) /\ v.tubeHeater
  BY <1>0, VoteFacts
<1>2. EnterHarvest(m, e) = SetMoldHeaterControlRequestForHarvest(
                               [v EXCEPT !.state = "Harvest", !.timers = ts], e)
  BY DEF EnterHarvest
<1> HIDE DEF v
<1>3. v \in Mold /\ ts \in SUBSET MoldTimers
  BY <1>1, MoldFields DEF Agree, MoldTimers
<1> HIDE DEF ts
<1>4. Agree(s, v, {"state"}) /\ s.state = "Harvest"
  BY <1>3 DEF Mold, MoldStates, Agree
<1>5. [v EXCEPT !.state = "Harvest", !.timers = ts] = q
  BY <1>3 DEF Mold
<1> HIDE DEF s
<1>6. Agree(q, s, {"timers"}) /\ q.timers = ts
  BY <1>3, <1>4 DEF Mold, Agree
<1> HIDE DEF q
<1>7. q \in Mold /\ q.heater = m.heater /\ q.heater.state = "Disabled"
  BY <1>1, <1>4, <1>6 DEF Agree, Left
<1>8. Agree(x, q, {"heater"}) /\ x.heater.enable /\ InBand(x.heater, e.temp)
  BY <1>7, HeaterRequestFacts
<1> HIDE DEF x
<1>9. /\ Agree(x, m, {"tubeHeater", "state", "timers", "heater"})
      /\ x.tubeHeater /\ x.state = "Harvest"
      /\ x.timers = m.timers \union {"fillTubeHeater", "maxHarvest", "minimumHeaterOn"}
  BY <1>1, <1>4, <1>6, <1>8, ZenonT(120) DEF Agree, ts
<1>10. Found(x, "none", e.temp)
  <2>1. Leavable(x)
    BY <1>8, <1>9, AtRest DEF Left, Leavable, Agree
  <2>2. /\ "fillTubeHeater" \in x.timers /\ "maxHarvest" \in x.timers
        /\ x.tubeHeater /\ x.state = "Harvest"
    BY <1>9
  <2> QED BY <1>8, <2>1, <2>2 DEF Found
<1> QED BY <1>2, <1>5, <1>10 DEF x

\* HarvestFix runs the rake in turns.
LEMMA EnterHarvestFixFacts ==
    ASSUME NEW m, NEW e, ReadOk(e), Left(m)
    PROVE  Found(EnterHarvestFix(m, e), "none", e.temp)
<1> DEFINE a == StartMaxHarvestFixTimer(m)
           b == SetSkipFillFlag(a, TRUE)
           s == [b EXCEPT !.state = "HarvestFix"]
           h == SetMoldHeaterControlRequestForHarvestFix(s, e)
           r == SetRakeControllerRequest(h, e)
           x == StartRakeOnTimer(r)
<1>0. m \in Mold
  BY DEF Left
<1>1. EnterHarvestFix(m, e) = x
  BY DEF EnterHarvestFix
<1>2. Agree(a, m, {"timers"}) /\ a.timers = m.timers \union {"maxHarvestFix"}
  BY <1>0, TimerFacts DEF StartMaxHarvestFixTimer, MoldTimers
<1> HIDE DEF a
<1>3. Agree(b, a, {})
  <2>1. a \in Mold
    BY <1>2 DEF Agree
  <2> QED BY <2>1, VoteFacts
<1> HIDE DEF b
<1>4. Agree(s, b, {"state"}) /\ s.state = "HarvestFix"
  BY <1>3 DEF Mold, MoldStates, Agree
<1> HIDE DEF s
<1>5. s \in Mold /\ s.heater.state = "Disabled"
  BY <1>2, <1>3, <1>4 DEF Agree, Left
<1>6. Agree(h, s, {"heater"}) /\ h.heater.enable /\ InBand(h.heater, e.temp)
  BY <1>5, HeaterRequestFacts
<1> HIDE DEF h
<1>7. h \in Mold /\ RakeOk(h.rake)
  BY <1>2, <1>3, <1>4, <1>6, AtRest DEF Agree
<1>8. Agree(r, h, {"rake"}) /\ RakeOk(r.rake)
  BY <1>7, RakeRequestFacts
<1> HIDE DEF r
<1>9. /\ Agree(x, r, {"timers"})
      /\ x.timers = (r.timers \ {"rakeOn", "rakeOff"}) \union {"rakeOn"}
  BY <1>8, RakeTimerFacts DEF StartRakeOnTimer, Agree
<1> HIDE DEF x
<1>10. /\ Agree(x, m, {"timers", "state", "heater", "rake"})
       /\ x.state = "HarvestFix" /\ x.heater.enable /\ InBand(x.heater, e.temp)
       /\ RakeOk(x.rake)
       /\ x.timers = ((m.timers \union {"maxHarvestFix"}) \ {"rakeOn", "rakeOff"})
                         \union {"rakeOn"}
  BY <1>2, <1>3, <1>4, <1>6, <1>8, <1>9 DEF Agree
<1>11. Found(x, "none", e.temp)
  BY <1>0, <1>10, MoldFields DEF Left, Found, Leavable, Agree, MoldTimers
<1> QED BY <1>1, <1>11

\* The rake turned on, or off, with the timer of its turn.
LEMMA TurnFacts ==
    ASSUME NEW m \in Mold, NEW e, ReadOk(e), RakeOk(m.rake)
    PROVE  /\ Agree(TurnOnRakeMotor(m, e), m, {"rake", "timers"})
           /\ RakeOk(TurnOnRakeMotor(m, e).rake)
           /\ TurnOnRakeMotor(m, e).timers =
                  (m.timers \ {"rakeOn", "rakeOff"}) \union {"rakeOn"}
           /\ Agree(TurnOffRakeMotor(m, e), m, {"rake", "timers"})
           /\ RakeOk(TurnOffRakeMotor(m, e).rake)
           /\ TurnOffRakeMotor(m, e).timers =
                  (m.timers \ {"rakeOn", "rakeOff"}) \union {"rakeOff"}
<1>1. ASSUME NEW n, NEW t \in {"rakeOn", "rakeOff"}, Agree(n, m, {"rake"}), RakeOk(n.rake)
      PROVE  LET x == StartRakeMotorControlTimer(n, t) IN
             /\ Agree(x, m, {"rake", "timers"}) /\ RakeOk(x.rake)
             /\ x.timers = (m.timers \ {"rakeOn", "rakeOff"}) \union {t}
  <2> DEFINE x == StartRakeMotorControlTimer(n, t)
  <2>1. n \in Mold /\ n.timers = m.timers
    BY <1>1 DEF Agree
  <2>2. /\ Agree(x, n, {"timers"})
        /\ x.timers = (n.timers \ {"rakeOn", "rakeOff"}) \union {t}
    BY <1>1, <2>1, RakeTimerFacts
  <2> HIDE DEF x
  <2>3. Agree(x, m, {"rake", "timers"}) /\ RakeOk(x.rake)
    BY <1>1, <2>2 DEF Agree
  <2> QED BY <2>1, <2>2, <2>3 DEF x
<1>2. /\ Agree(SetRakeControllerRequest(m, e), m, {"rake"})
      /\ RakeOk(SetRakeControllerRequest(m, e).rake)
      /\ Agree(ClearRakeControllerRequest(m, e), m, {"rake"})
      /\ RakeOk(ClearRakeControllerRequest(m, e).rake)
  BY RakeRequestFacts, InitialRakeFacts
<1> QED
  BY <1>1, <1>2 DEF TurnOnRakeMotor, TurnOffRakeMotor, StartRakeOnTimer, StartRakeOffTimer

\* HarvestFault runs the rake in turns too, without heat.
LEMMA EnterHarvestFaultFacts ==
    ASSUME NEW m, NEW e, ReadOk(e), Left(m)
    PROVE  Found(EnterHarvestFault(m, e), "none", e.temp)
<1> DEFINE s == [m EXCEPT !.state = "HarvestFault"]
           h == ClearMoldHeaterControlRequest(s)
           a == StartHarvestFaultMaxTimer(h)
           x == TurnOnRakeMotor(a, e)
<1>0. m \in Mold
  BY DEF Left
<1>1. EnterHarvestFault(m, e) = x
  BY DEF EnterHarvestFault
<1>2. Agree(s, m, {"state"}) /\ s.state = "HarvestFault"
  BY <1>0 DEF Mold, MoldStates, Agree
<1> HIDE DEF s
<1>3. s \in Mold
  BY <1>2 DEF Agree
<1>4. Agree(h, s, {"heater"}) /\ ~h.heater.enable /\ h.heater.state = "Disabled"
  BY <1>3, HeaterRequestFacts
<1> HIDE DEF h
<1>5. h \in Mold
  BY <1>4 DEF Agree
<1>6. Agree(a, h, {"timers"}) /\ a.timers = h.timers \union {"harvestFaultMax"}
  BY <1>5, TimerFacts DEF StartHarvestFaultMaxTimer, MoldTimers
<1> HIDE DEF a
<1>7. a \in Mold /\ RakeOk(a.rake)
  BY <1>2, <1>4, <1>6, AtRest DEF Agree
<1>8. /\ Agree(x, a, {"rake", "timers"}) /\ RakeOk(x.rake)
      /\ x.timers = (a.timers \ {"rakeOn", "rakeOff"}) \union {"rakeOn"}
  BY <1>7, TurnFacts
<1> HIDE DEF x
<1>9. /\ Agree(x, m, {"state", "heater", "rake", "timers"})
      /\ x.state = "HarvestFault" /\ ~x.heater.enable /\ x.heater.state = "Disabled"
      /\ RakeOk(x.rake)
      /\ x.timers = ((m.timers \union {"harvestFaultMax"}) \ {"rakeOn", "rakeOff"})
                        \union {"rakeOn"}
  BY <1>2, <1>4, <1>6, <1>8 DEF Agree
<1>10. Found(x, "none", e.temp)
  BY <1>0, <1>9, MoldFields DEF Left, Found, Leavable, InBand, Agree, MoldTimers
<1> QED BY <1>1, <1>10

\* The states that start nothing.
LEMMA EnterWaitFacts ==
    ASSUME NEW m, NEW t, Left(m)
    PROVE  /\ Found(EnterIdleFillOfMold(m), "none", t)
           /\ Found(EnterThermistorFault(m), "none", t)
<1>0. m \in Mold
  BY DEF Left
<1> DEFINE s == [m EXCEPT !.state = "IdleFill"]
           v == VoteForWaterValves(m, FALSE)
           x == [v EXCEPT !.state = "ThermistorFault"]
<1>1. Agree(s, m, {"state"}) /\ s.state = "IdleFill"
  BY <1>0 DEF Mold, MoldStates, Agree
<1>2. EnterIdleFillOfMold(m) = s
  BY DEF EnterIdleFillOfMold
<1> HIDE DEF s
<1>3. Found(s, "none", t)
  BY <1>0, <1>1, AtRest, MoldFields DEF Left, Found, Leavable, Agree, MoldTimers
<1>4. Agree(v, m, {"valves"}) /\ ~v.valves
  BY <1>0, VoteFacts
<1>5. EnterThermistorFault(m) = x
  BY DEF EnterThermistorFault
<1> HIDE DEF v
<1>6. Agree(x, v, {"state"}) /\ x.state = "ThermistorFault"
  BY <1>4 DEF Mold, MoldStates, Agree
<1> HIDE DEF x
<1>7. Found(x, "none", t)
  BY <1>0, <1>4, <1>6, AtRest, MoldFields DEF Left, Found, Leavable, Agree, MoldTimers
<1> QED BY <1>2, <1>3, <1>5, <1>7

\* Fill starts or resumes its monitor, or leaves at once for IdleFill.
LEMMA EnterFillFacts ==
    ASSUME NEW m, NEW e, ReadOk(e), Left(m)
    PROVE  Found(EnterFillOfMold(m, e), "none", e.temp)
<1> DEFINE v == VoteForWaterValves(m, TRUE)
           f == [v EXCEPT !.state = "Fill"]
<1>0. m \in Mold /\ m.fill \in Monitor /\ m.pauseFill \in BOOLEAN
  BY MoldFields DEF Left
<1>1. Agree(v, m, {"valves"}) /\ v.valves
  BY <1>0, VoteFacts
<1>2. f = [VoteForWaterValves(m, TRUE) EXCEPT !.state = "Fill"]
  OBVIOUS
<1> HIDE DEF v
<1>3. Agree(f, v, {"state"}) /\ f.state = "Fill"
  BY <1>1 DEF Mold, MoldStates, Agree
<1> HIDE DEF f
<1>4. Agree(f, m, {"valves", "state"}) /\ f.valves /\ f \in Mold
  BY <1>1, <1>3, ZenonT(120) DEF Agree
<1>5. CASE m.pauseFill
  <2> DEFINE a == RequestFill(f, "Resume")
             x == [a EXCEPT !.pauseFill = FALSE]
  <2>1. EnterFillOfMold(m, e) = x
    BY <1>2, <1>5 DEF EnterFillOfMold
  <2>2. Agree(a, f, {"fill"}) /\ a.fill = RequestMonitor(f.fill, "Resume")
    BY <1>4, FillRequestFacts DEF MonitorRequests
  <2> HIDE DEF a
  <2>3. a \in Mold
    BY <2>2 DEF Agree
  <2>4. Agree(x, a, {"pauseFill"}) /\ ~x.pauseFill
    BY <2>3, VoteFacts
  <2> HIDE DEF x
  <2>5. m.fill.request # "Resume" /\ m.fill.maxFill = "paused"
    BY <1>5 DEF Left, Postponed
  <2>6. LET g == RequestMonitor(m.fill, "Resume") IN
        g.request = "Resume" /\ g.maxFill = "running" /\ g.listening
    BY <1>0, <2>5, RequestFacts DEF MonitorRequests
  <2>7. /\ Agree(x, m, {"valves", "state", "pauseFill", "fill"})
        /\ x.valves /\ x.state = "Fill"
        /\ x.fill = RequestMonitor(m.fill, "Resume")
    BY <1>3, <1>4, <2>2, <2>4, ZenonT(120) DEF Agree
  <2>8. Found(x, "none", e.temp)
    BY <1>0, <2>4, <2>6, <2>7, AtRest, MoldFields
       DEF Left, Found, Leavable, Agree, MoldTimers
  <2> QED BY <2>1, <2>8
<1>6. CASE ~m.pauseFill /\ (m.delayFill \/ e.inhibited)
  <2> DEFINE d == [f EXCEPT !.delayFill = FALSE]
             a == RequestFill(d, "Stop")
             x == VoteForWaterValves(a, FALSE)
  <2>1. EnterFillOfMold(m, e) = EnterIdleFillOfMold(ExitFill(d))
    BY <1>2, <1>6 DEF EnterFillOfMold
  <2>2. Agree(d, f, {})
    BY <1>4, VoteFacts
  <2> HIDE DEF d
  <2>3. d \in Mold /\ ~d.pauseFill
    BY <1>4, <1>6, <2>2 DEF Agree
  <2>4. ExitFill(d) = x
    BY <2>3 DEF ExitFill
  <2>5. Agree(a, d, {"fill"}) /\ a.fill = RequestMonitor(d.fill, "Stop")
    BY <2>3, FillRequestFacts DEF MonitorRequests
  <2> HIDE DEF a
  <2>6. a \in Mold
    BY <2>5 DEF Agree
  <2>7. Agree(x, a, {"valves"}) /\ ~x.valves
    BY <2>6, VoteFacts
  <2> HIDE DEF x
  <2>8. RequestMonitor(m.fill, "Stop").request = "Stop"
    BY <1>0, RequestFacts DEF MonitorRequests
  <2>9. Agree(x, m, {"valves", "state", "fill"}) /\ x.fill = RequestMonitor(m.fill, "Stop")
    BY <1>4, <2>2, <2>5, <2>7 DEF Agree
  <2>10. Left(x)
    BY <1>6, <2>7, <2>8, <2>9 DEF Left, Agree
  <2> QED BY <2>1, <2>4, <2>10, EnterWaitFacts
<1>7. CASE ~m.pauseFill /\ ~(m.delayFill \/ e.inhibited)
  <2> DEFINE x == RequestFill(f, "Start")
  <2>1. EnterFillOfMold(m, e) = x
    BY <1>2, <1>7 DEF EnterFillOfMold
  <2>2. Agree(x, f, {"fill"}) /\ x.fill = RequestMonitor(f.fill, "Start")
    BY <1>4, FillRequestFacts DEF MonitorRequests
  <2> HIDE DEF x
  <2>3. m.fill.request = "Stop"
    BY <1>7 DEF Left
  <2>4. LET g == RequestMonitor(m.fill, "Start") IN
        g.request = "Start" /\ g.maxFill = "running" /\ g.listening
    BY <1>0, <2>3, RequestFacts DEF MonitorRequests
  <2>5. /\ Agree(x, m, {"valves", "state", "fill"})
        /\ x.valves /\ x.state = "Fill"
        /\ x.fill = RequestMonitor(m.fill, "Start")
    BY <1>3, <1>4, <2>2, ZenonT(120) DEF Agree
  <2>6. Found(x, "none", e.temp)
    BY <1>0, <1>7, <2>4, <2>5, AtRest, MoldFields
       DEF Left, Found, Leavable, Agree, MoldTimers
  <2> QED BY <2>1, <2>6
<1> QED BY <1>0, <1>5, <1>6, <1>7

\* A transition leads from what may be left to what the next signal finds.
LEMMA TransitionFacts ==
    ASSUME NEW m, NEW e, ReadOk(e), Leavable(m), NEW target \in MoldStates
    PROVE  Found(MoldTo(m, target, e), "none", e.temp)
<1> DEFINE x == ExitMold(m, e)
<1>1. Left(x)
  BY ExitFacts
<1>2. MoldTo(m, target, e) = EnterMold(x, target, e)
  BY DEF MoldTo
<1> HIDE DEF x
<1>3. Found(EnterMold(x, target, e), "none", e.temp)
  <2>1. CASE target = "Freeze"
    BY <1>1, <2>1, EnterFreezeFacts DEF EnterMold
  <2>2. CASE target = "Harvest"
    BY <1>1, <2>2, EnterHarvestFacts DEF EnterMold
  <2>3. CASE target = "HarvestFix"
    BY <1>1, <2>3, EnterHarvestFixFacts DEF EnterMold
  <2>4. CASE target = "HarvestFault"
    BY <1>1, <2>4, EnterHarvestFaultFacts DEF EnterMold
  <2>5. CASE target = "Fill"
    BY <1>1, <2>5, EnterFillFacts DEF EnterMold
  <2>6. CASE target = "IdleFill"
    BY <1>1, <2>6, EnterWaitFacts DEF EnterMold
  <2>7. CASE target = "ThermistorFault"
    BY <1>1, <2>7, EnterWaitFacts DEF EnterMold
  <2> QED BY <2>1, <2>2, <2>3, <2>4, <2>5, <2>6, <2>7 DEF MoldStates
<1> QED BY <1>2, <1>3

-----------------------------------------------------------------------------
(***************************************************************************)
(* The states' functions.                                                  *)
(***************************************************************************)
\* What no property here looks at may change.
LEMMA FoundAgain ==
    ASSUME NEW m, NEW n, NEW signal, NEW t, Found(m, signal, t), Agree(n, m, {})
    PROVE  Found(n, signal, t)
BY DEF Found, Leavable, Agree

\* A signal finds what none would find, unless its state has waited for it.
LEMMA PlainSignal ==
    ASSUME NEW m, NEW signal, NEW t, Found(m, signal, t),
           m.state = "Harvest" =>
              signal \notin {"MaxHarvestTimeReached", "FillTubeHeaterTimerExpired"},
           m.state = "HarvestFix" => signal # "MaxHarvestFixTimeReached",
           m.state = "HarvestFault" => signal # "HarvestFaultMaxTimerExpired",
           m.state \in {"HarvestFix", "HarvestFault"} =>
              signal \notin {"RakeOnTimerExpired", "RakeOffTimerExpired"},
           m.state = "Fill" => signal # "StopFill"
    PROVE  Found(m, "none", t)
BY DEF Found, Leavable

\* The request for the freezer's ice rate.
LEMMA IceRateFacts ==
    ASSUME NEW m, NEW e, Found(m, "none", e.temp)
    PROVE  Found(TriggerFreezerIceRateIfNecessary(m, e), "none", e.temp)
<1>1. m \in Mold
  BY DEF Found, Leavable
<1>2. Agree([m EXCEPT !.iceRate = TRUE], m, {})
  BY <1>1, VoteFacts
<1> QED BY <1>2, FoundAgain DEF TriggerFreezerIceRateIfNecessary

\* What every state but the fill's passes on.
LEMMA GlobalFacts ==
    ASSUME NEW m, NEW signal, NEW e, ReadOk(e), Found(m, "none", e.temp)
    PROVE  Found(State_Global(m, signal, e), "none", e.temp)
<1>0. m \in Mold /\ Leavable(m)
  BY DEF Found, Leavable
<1>1. ASSUME NEW target \in {"ThermistorFault", "Fill", "Harvest"}
      PROVE  Found(MoldTo(m, target, e), "none", e.temp)
  BY <1>0, TransitionFacts DEF MoldStates
<1>2. ASSUME NEW on \in BOOLEAN
      PROVE  Found([m EXCEPT !.delayFill = on], "none", e.temp)
  <2>1. Agree([m EXCEPT !.delayFill = on], m, {})
    BY <1>0, VoteFacts
  <2> QED BY <2>1, FoundAgain
<1> QED BY <1>1, <1>2 DEF State_Global

\* Freeze harvests when the conditions are met.
LEMMA FreezeFacts ==
    ASSUME NEW m, NEW signal, NEW e, ReadOk(e), Found(m, signal, e.temp),
           m.state = "Freeze"
    PROVE  Found(State_Freeze(m, signal, e), "none", e.temp)
<1>1. Found(m, "none", e.temp) /\ Leavable(m)
  BY PlainSignal DEF Found
<1>2. Found(MoldTo(m, "Harvest", e), "none", e.temp)
  BY <1>1, TransitionFacts DEF MoldStates
<1>3. \/ State_Freeze(m, signal, e) = TriggerFreezerIceRateIfNecessary(m, e)
      \/ State_Freeze(m, signal, e) = MoldTo(m, "Harvest", e)
      \/ State_Freeze(m, signal, e) = State_Global(m, signal, e)
  BY DEF State_Freeze, HarvestSignals, HarvestConditions
<1> QED BY <1>1, <1>2, <1>3, IceRateFacts, GlobalFacts

\* Harvest ends with the rake's revolution and the fill tube's time, or
\* fails at its own.
LEMMA HarvestFacts ==
    ASSUME NEW m, NEW signal, NEW e, ReadOk(e), Found(m, signal, e.temp),
           m.state = "Harvest"
    PROVE  Found(State_Harvest(m, signal, e), "none", e.temp)
<1>0. m \in Mold /\ Leavable(m)
  BY DEF Found, Leavable
<1>1. CASE signal = "MinimumHeaterOnTimeReached"
  <2> DEFINE n == SetRakeControllerRequest(m, e)
  <2>1. State_Harvest(m, signal, e) = n
    BY <1>1 DEF State_Harvest
  <2>2. Agree(n, m, {"rake"}) /\ RakeOk(n.rake)
    BY <1>0, RakeRequestFacts DEF Leavable
  <2> HIDE DEF n
  <2>3. Found(m, "none", e.temp)
    BY <1>1, PlainSignal
  <2>4. Found(n, "none", e.temp)
    BY <2>2, <2>3 DEF Found, Leavable, Agree
  <2> QED BY <2>1, <2>4
<1>2. CASE signal = "MaxHarvestTimeReached"
  <2>1. State_Harvest(m, signal, e) = MoldTo(m, "HarvestFix", e)
    BY <1>2 DEF State_Harvest
  <2> QED BY <1>0, <2>1, TransitionFacts DEF MoldStates
<1>3. CASE signal \in {"FillTubeHeaterTimerExpired", "RakeCompletedRevolution"}
  <2> DEFINE f == IF signal = "FillTubeHeaterTimerExpired"
                  THEN VoteForFillTubeHeater(m, FALSE) ELSE m
             target == IF m.skipFill THEN "Freeze" ELSE "Fill"
  <2>1. \/ State_Harvest(m, signal, e) = MoldTo(f, target, e)
        \/ State_Harvest(m, signal, e) = f
    BY <1>3 DEF State_Harvest
  <2>2. Found(f, "none", e.temp)
    <3>1. CASE signal = "FillTubeHeaterTimerExpired"
      <4> DEFINE n == VoteForFillTubeHeater(m, FALSE)
      <4>1. Agree(n, m, {"tubeHeater"}) /\ ~n.tubeHeater
        BY <1>0, VoteFacts
      <4> HIDE DEF n
      <4>2. Found(n, "none", e.temp)
        BY <3>1, <4>1 DEF Found, Leavable, Agree
      <4> QED BY <3>1, <4>2 DEF n
    <3>2. CASE signal # "FillTubeHeaterTimerExpired"
      <4>1. Found(m, "none", e.temp)
        BY <1>3, <3>2, PlainSignal
      <4> QED BY <3>2, <4>1
    <3> QED BY <3>1, <3>2
  <2>3. target \in MoldStates
    BY DEF MoldStates
  <2> HIDE DEF f, target
  <2>4. Leavable(f)
    BY <2>2 DEF Found
  <2>5. Found(MoldTo(f, target, e), "none", e.temp)
    BY <2>3, <2>4, TransitionFacts
  <2> QED BY <2>1, <2>2, <2>5
<1>4. CASE signal \notin {"MinimumHeaterOnTimeReached", "MaxHarvestTimeReached",
                          "FillTubeHeaterTimerExpired", "RakeCompletedRevolution"}
  <2>1. Found(m, "none", e.temp)
    BY <1>4, PlainSignal
  <2>2. \/ State_Harvest(m, signal, e) = m
        \/ State_Harvest(m, signal, e) = State_Global(m, signal, e)
    BY <1>4 DEF State_Harvest
  <2> QED BY <2>1, <2>2, GlobalFacts
<1> QED BY <1>1, <1>2, <1>3, <1>4

\* A turn of the rake in one of the two recoveries.
LEMMA RecoveryTurns ==
    ASSUME NEW m, NEW signal, NEW e, ReadOk(e), Found(m, signal, e.temp),
           m.state \in {"HarvestFix", "HarvestFault"},
           signal \in {"RakeOnTimerExpired", "RakeOffTimerExpired"}
    PROVE  /\ Found(TurnOnRakeMotor(m, e), "none", e.temp)
           /\ Found(TurnOffRakeMotor(m, e), "none", e.temp)
<1>0. m \in Mold /\ RakeOk(m.rake)
  BY DEF Found, Leavable
<1>1. ASSUME NEW n, NEW t \in {"rakeOn", "rakeOff"},
             Agree(n, m, {"rake", "timers"}), RakeOk(n.rake),
             n.timers = (m.timers \ {"rakeOn", "rakeOff"}) \union {t}
      PROVE  Found(n, "none", e.temp)
  <2>1. Leavable(n)
    BY <1>1 DEF Found, Leavable, Agree
  <2> QED BY <1>1, <2>1 DEF Found, Agree
<1> DEFINE a == TurnOnRakeMotor(m, e)
           b == TurnOffRakeMotor(m, e)
<1>2. /\ Agree(a, m, {"rake", "timers"}) /\ RakeOk(a.rake)
      /\ a.timers = (m.timers \ {"rakeOn", "rakeOff"}) \union {"rakeOn"}
      /\ Agree(b, m, {"rake", "timers"}) /\ RakeOk(b.rake)
      /\ b.timers = (m.timers \ {"rakeOn", "rakeOff"}) \union {"rakeOff"}
  BY <1>0, TurnFacts
<1> HIDE DEF a, b
<1> QED BY <1>1, <1>2 DEF a, b

\* HarvestFix counts two revolutions, or gives up.
LEMMA HarvestFixFacts ==
    ASSUME NEW m, NEW signal, NEW e, ReadOk(e), Found(m, signal, e.temp),
           m.state = "HarvestFix"
    PROVE  Found(State_HarvestFix(m, signal, e), "none", e.temp)
<1>0. m \in Mold /\ Leavable(m) /\ m.revolutionInFix \in BOOLEAN
  BY MoldFields DEF Found, Leavable
<1>1. CASE signal \in {"RakeOnTimerExpired", "RakeOffTimerExpired"}
  <2>1. \/ State_HarvestFix(m, signal, e) = TurnOffRakeMotor(m, e)
        \/ State_HarvestFix(m, signal, e) = TurnOnRakeMotor(m, e)
    BY <1>1 DEF State_HarvestFix
  <2> QED BY <1>1, <2>1, RecoveryTurns
<1>2. CASE signal = "MaxHarvestFixTimeReached"
  <2>1. State_HarvestFix(m, signal, e) = MoldTo(m, "HarvestFault", e)
    BY <1>2 DEF State_HarvestFix
  <2> QED BY <1>0, <2>1, TransitionFacts DEF MoldStates
<1>3. CASE signal = "RakeCompletedRevolution"
  <2> DEFINE n == SetRevolutionFlag(m, TRUE)
  <2>1. \/ State_HarvestFix(m, signal, e) = n
        \/ State_HarvestFix(m, signal, e) = MoldTo(m, "Freeze", e)
    BY <1>0, <1>3 DEF State_HarvestFix
  <2>2. Agree(n, m, {"revolutionInFix"}) /\ n.revolutionInFix
    BY <1>0, VoteFacts
  <2> HIDE DEF n
  <2>3. Found(m, "none", e.temp)
    BY <1>3, PlainSignal
  <2>4. Found(n, "none", e.temp)
    BY <2>2, <2>3 DEF Found, Leavable, Agree
  <2>5. Found(MoldTo(m, "Freeze", e), "none", e.temp)
    BY <1>0, TransitionFacts DEF MoldStates
  <2> QED BY <2>1, <2>4, <2>5
<1>4. CASE signal \notin {"RakeOnTimerExpired", "RakeOffTimerExpired",
                          "MaxHarvestFixTimeReached", "RakeCompletedRevolution"}
  <2>1. State_HarvestFix(m, signal, e) = State_Global(m, signal, e)
    BY <1>4 DEF State_HarvestFix
  <2>2. Found(m, "none", e.temp)
    BY <1>4, PlainSignal
  <2> QED BY <2>1, <2>2, GlobalFacts
<1> QED BY <1>1, <1>2, <1>3, <1>4

\* HarvestFault tries the harvest again.
LEMMA HarvestFaultFacts ==
    ASSUME NEW m, NEW signal, NEW e, ReadOk(e), Found(m, signal, e.temp),
           m.state = "HarvestFault"
    PROVE  Found(State_HarvestFault(m, signal, e), "none", e.temp)
<1>0. m \in Mold /\ Leavable(m)
  BY DEF Found, Leavable
<1>1. CASE signal \in {"RakeOnTimerExpired", "RakeOffTimerExpired"}
  <2>1. \/ State_HarvestFault(m, signal, e) = TurnOffRakeMotor(m, e)
        \/ State_HarvestFault(m, signal, e) = TurnOnRakeMotor(m, e)
    BY <1>1 DEF State_HarvestFault
  <2> QED BY <1>1, <2>1, RecoveryTurns
<1>2. CASE signal \in {"HarvestFaultMaxTimerExpired", "RakeCompletedRevolution"}
  <2>1. State_HarvestFault(m, signal, e) = MoldTo(m, "Harvest", e)
    BY <1>2 DEF State_HarvestFault
  <2> QED BY <1>0, <2>1, TransitionFacts DEF MoldStates
<1>3. CASE signal \notin {"RakeOnTimerExpired", "RakeOffTimerExpired",
                          "HarvestFaultMaxTimerExpired", "RakeCompletedRevolution"}
  <2>1. State_HarvestFault(m, signal, e) = State_Global(m, signal, e)
    BY <1>3 DEF State_HarvestFault
  <2>2. Found(m, "none", e.temp)
    BY <1>3, PlainSignal
  <2> QED BY <2>1, <2>2, GlobalFacts
<1> QED BY <1>1, <1>2, <1>3

\* The two states of a fill hear no thermistor that fails.
LEMMA FillParentFacts ==
    ASSUME NEW m, NEW signal, NEW e, ReadOk(e), Found(m, "none", e.temp)
    PROVE  Found(State_FillParent(m, signal, e), "none", e.temp)
BY GlobalFacts DEF State_FillParent

\* A skipped fill, and then a state.
LEMMA SkipFacts ==
    ASSUME NEW m, NEW e, ReadOk(e), Leavable(m), NEW target \in MoldStates
    PROVE  Found(MoldTo(SetSkipFillFlag(m, TRUE), target, e), "none", e.temp)
<1> DEFINE n == SetSkipFillFlag(m, TRUE)
<1>1. m \in Mold
  BY DEF Leavable
<1>2. Agree(n, m, {})
  BY <1>1, VoteFacts
<1> HIDE DEF n
<1>3. Leavable(n)
  BY <1>2 DEF Leavable, Agree
<1>4. Found(MoldTo(n, target, e), "none", e.temp)
  BY <1>3, TransitionFacts
<1> QED BY <1>4 DEF n

\* Fill ends when it is told, and pauses while it may not run.
LEMMA FillFacts ==
    ASSUME NEW m, NEW signal, NEW e, ReadOk(e), Found(m, signal, e.temp),
           m.state = "Fill"
    PROVE  Found(State_Fill(m, signal, e), "none", e.temp)
<1>0. m \in Mold /\ Leavable(m)
  BY DEF Found, Leavable
<1>1. CASE signal = "StopFill"
  <2>1. \/ State_Fill(m, signal, e) = MoldTo(m, "ThermistorFault", e)
        \/ State_Fill(m, signal, e) = MoldTo(SetSkipFillFlag(m, TRUE), "Harvest", e)
        \/ State_Fill(m, signal, e) = MoldTo(m, "Freeze", e)
    BY <1>1 DEF State_Fill, ReadOk
  <2> QED BY <1>0, <2>1, SkipFacts, TransitionFacts DEF MoldStates
<1>2. CASE signal \in {"DispensingActive", "IceMakerFillIsInhibited"}
  <2> DEFINE n == [m EXCEPT !.pauseFill = TRUE]
  <2>1. State_Fill(m, signal, e) = MoldTo(n, "IdleFill", e)
    BY <1>2 DEF State_Fill
  <2>2. Agree(n, m, {"pauseFill"}) /\ n.pauseFill
    BY <1>0, VoteFacts
  <2> HIDE DEF n
  <2>3. m.fill.maxFill = "running"
    BY <1>2 DEF Found
  <2>4. Leavable(n)
    BY <1>0, <2>2, <2>3 DEF Leavable, Agree
  <2> QED BY <2>1, <2>4, TransitionFacts DEF MoldStates
<1>3. CASE signal \notin {"StopFill", "DispensingActive", "IceMakerFillIsInhibited"}
  <2>1. State_Fill(m, signal, e) = State_FillParent(m, signal, e)
    BY <1>3 DEF State_Fill
  <2>2. Found(m, "none", e.temp)
    BY <1>3, PlainSignal
  <2> QED BY <2>1, <2>2, FillParentFacts
<1> QED BY <1>1, <1>2, <1>3

\* A signal leaves what the next one finds.
LEMMA SendFacts ==
    ASSUME NEW m, NEW signal, NEW e, ReadOk(e), Found(m, signal, e.temp)
    PROVE  Found(SendToMold(m, signal, e), "none", e.temp)
<1>0. m \in Mold /\ Leavable(m) /\ m.state \in MoldStates
  BY MoldFields DEF Found, Leavable
<1>1. CASE m.state = "IdleFill"
  <2>1. Found(m, "none", e.temp)
    BY <1>1, PlainSignal
  <2>2. Found(MoldTo(m, "Fill", e), "none", e.temp)
    BY <1>0, TransitionFacts DEF MoldStates
  <2>3. SendToMold(m, signal, e) = State_IdleFill(m, signal, e)
    BY <1>1 DEF SendToMold
  <2> QED BY <2>1, <2>2, <2>3, FillParentFacts DEF State_IdleFill
<1>2. CASE m.state = "ThermistorFault"
  <2>1. Found(m, "none", e.temp)
    BY <1>2, PlainSignal
  <2>2. /\ Found(MoldTo(m, "Freeze", e), "none", e.temp)
        /\ Found(MoldTo(SetSkipFillFlag(m, TRUE), "Harvest", e), "none", e.temp)
    BY <1>0, TransitionFacts, SkipFacts DEF MoldStates
  <2>3. SendToMold(m, signal, e) = State_ThermistorFault(m, signal, e)
    BY <1>2 DEF SendToMold
  <2>4. \/ State_ThermistorFault(m, signal, e) = MoldTo(m, "Freeze", e)
        \/ State_ThermistorFault(m, signal, e) = MoldTo(SetSkipFillFlag(m, TRUE), "Harvest", e)
        \/ State_ThermistorFault(m, signal, e) = m
        \/ State_ThermistorFault(m, signal, e) = State_Global(m, signal, e)
    BY DEF State_ThermistorFault
  <2> QED BY <2>1, <2>2, <2>3, <2>4, GlobalFacts
<1>3. CASE m.state = "Freeze"
  BY <1>3, FreezeFacts DEF SendToMold
<1>4. CASE m.state = "Harvest"
  BY <1>4, HarvestFacts DEF SendToMold
<1>5. CASE m.state = "HarvestFix"
  BY <1>5, HarvestFixFacts DEF SendToMold
<1>6. CASE m.state = "HarvestFault"
  BY <1>6, HarvestFaultFacts DEF SendToMold
<1>7. CASE m.state = "Fill"
  BY <1>7, FillFacts DEF SendToMold
<1> QED BY <1>0, <1>1, <1>2, <1>3, <1>4, <1>5, <1>6, <1>7 DEF MoldStates

\* A handler of the rake, and the revolution it may have completed.
LEMMA RakeToFacts ==
    ASSUME NEW m, NEW r \in Rake, NEW e, ReadOk(e), Found(m, "none", e.temp),
           RakeOk(r), r.request = m.rake.request
    PROVE  Found(RakeTo(m, r, e), "none", e.temp)
<1> DEFINE n == [m EXCEPT !.rake = r]
<1>0. m \in Mold
  BY DEF Found, Leavable
<1>1. Agree(n, m, {"rake"}) /\ n.rake = r
  BY <1>0 DEF Mold, Agree
<1>2. \/ RakeTo(m, r, e) = n
      \/ RakeTo(m, r, e) = SendToMold(n, "RakeCompletedRevolution", e)
  BY DEF RakeTo
<1> HIDE DEF n
<1>3. Found(n, "none", e.temp) /\ Found(n, "RakeCompletedRevolution", e.temp)
  BY <1>1 DEF Found, Leavable, Agree
<1> QED BY <1>2, <1>3, SendFacts

-----------------------------------------------------------------------------
(***************************************************************************)
(* The steps.                                                              *)
(***************************************************************************)
\* The ERDs beside the ice maker have their types.
WorldOK ==
    /\ home \in BOOLEAN /\ armFull \in BOOLEAN /\ valid \in BOOLEAN
    /\ temp \in Temperatures /\ inhibited \in BOOLEAN
    /\ status \in {"nothing", "water", "ice"}

\* What the handlers may read once a step is taken.
LEMMA WorldReads ==
    ASSUME NEW known, NEW e \in PossibleReads(known), WorldOK'
    PROVE  ReadOk(e) /\ e.temp = temp'
<1>1. PICK met : e = MoldReads(met)
  BY DEF PossibleReads
<1>2. /\ e.home = home' /\ e.full = armFull' /\ e.valid = valid'
      /\ e.inhibited = inhibited' /\ e.temp = temp'
  BY <1>1 DEF MoldReads
<1> QED BY <1>2, MoldTemperatures DEF ReadOk, WorldOK

\* A signal sent on what it finds.
LEMMA SendStep ==
    ASSUME NEW m, NEW signal, Found(m, signal, temp'), WorldOK', Send(m, signal)
    PROVE  MoldInv'
<1>1. PICK e \in PossibleReads({}) : mold' = SendToMold(m, signal, e)
  BY DEF Send
<1>2. ReadOk(e) /\ e.temp = temp'
  BY WorldReads
<1>3. Found(SendToMold(m, signal, e), "none", temp')
  BY <1>2, SendFacts
<1>4. Found(mold', "none", temp')
  BY <1>1, <1>3
<1>5. mold' \in Mold
  BY <1>4 DEF Found, Leavable
<1> QED BY <1>4, <1>5 DEF MoldInv, MoldTypeOK, WorldOK

\* A handler of the rake.
LEMMA RakeStep ==
    ASSUME NEW r \in Rake, RakeOk(r), r.request = mold.rake.request,
           Found(mold, "none", temp'), WorldOK', SendRake(r)
    PROVE  MoldInv'
<1>1. PICK e \in PossibleReads({}) : mold' = RakeTo(mold, r, e)
  BY DEF SendRake
<1>2. ReadOk(e) /\ e.temp = temp'
  BY WorldReads
<1>3. Found(RakeTo(mold, r, e), "none", temp')
  BY <1>2, RakeToFacts
<1>4. Found(mold', "none", temp')
  BY <1>1, <1>3
<1>5. mold' \in Mold
  BY <1>4 DEF Found, Leavable
<1> QED BY <1>4, <1>5 DEF MoldInv, MoldTypeOK, WorldOK

\* Anything else that leaves what the next signal finds.
LEMMA OtherStep ==
    ASSUME Found(mold', "none", temp'), WorldOK'
    PROVE  MoldInv'
<1>1. mold' \in Mold
  BY DEF Found, Leavable
<1> QED BY <1>1 DEF MoldInv, MoldTypeOK, WorldOK

\* The temperature matters to the heater only.
LEMMA FoundElsewhere ==
    ASSUME NEW m, NEW n, NEW signal, NEW t, NEW u, Found(m, signal, t),
           Agree(n, m, {"heater"}), n.heater.enable = m.heater.enable,
           InBand(n.heater, u), m.heater.state = "Disabled" => n.heater.state = "Disabled"
    PROVE  Found(n, signal, u)
BY DEF Found, Leavable, Agree

\* A timer that expires says so.
LEMMA TimerStep ==
    ASSUME MoldInv, NEW t \in MoldTimers, MoldTimerExpires(t)
    PROVE  MoldInv'
<1> DEFINE m == StopTimers(mold, {t})
           signal == CASE t = "fillTubeHeater" -> "FillTubeHeaterTimerExpired"
                       [] t = "maxHarvest" -> "MaxHarvestTimeReached"
                       [] t = "minimumHeaterOn" -> "MinimumHeaterOnTimeReached"
                       [] t = "maxHarvestFix" -> "MaxHarvestFixTimeReached"
                       [] t = "rakeOn" -> "RakeOnTimerExpired"
                       [] t = "rakeOff" -> "RakeOffTimerExpired"
                       [] t = "harvestFaultMax" -> "HarvestFaultMaxTimerExpired"
<1>1. /\ mold \in Mold /\ Found(mold, "none", temp)
      /\ WorldOK' /\ temp' = temp
  BY DEF MoldInv, MoldTypeOK, WorldOK, MoldTimerExpires, moldWorld
<1>2. Send(m, signal)
  BY DEF MoldTimerExpires
<1>3. Agree(m, mold, {"timers"}) /\ m.timers = mold.timers \ {t}
  BY <1>1, TimerFacts
<1>4. /\ t = "fillTubeHeater" <=> signal = "FillTubeHeaterTimerExpired"
      /\ t = "maxHarvest" <=> signal = "MaxHarvestTimeReached"
      /\ t = "maxHarvestFix" <=> signal = "MaxHarvestFixTimeReached"
      /\ t = "rakeOn" <=> signal = "RakeOnTimerExpired"
      /\ t = "rakeOff" <=> signal = "RakeOffTimerExpired"
      /\ t = "harvestFaultMax" <=> signal = "HarvestFaultMaxTimerExpired"
  BY DEF MoldTimers
<1> HIDE DEF m, signal
<1>5. Leavable(m)
  BY <1>1, <1>3 DEF Found, Leavable, Agree
<1>6. Found(m, signal, temp)
  BY <1>1, <1>3, <1>4, <1>5 DEF Found, Agree
<1> QED BY <1>1, <1>2, <1>6, SendStep

\* The invariant holds at the start, whatever the initial state is.
LEMMA MoldInitInv ==
    ASSUME MoldInit
    PROVE  MoldInv
<1> DEFINE e == [home |-> home, full |-> armFull, temp |-> temp, valid |-> valid,
                 inhibited |-> inhibited, ready |-> FALSE, makesIce |-> FALSE]
           m == [state |-> "ThermistorFault", valves |-> FALSE, tubeHeater |-> FALSE,
                 counting |-> FALSE, skipFill |-> FALSE, initialFreeze |-> FALSE,
                 revolutionInFix |-> FALSE, pauseFill |-> FALSE, delayFill |-> FALSE,
                 iceRate |-> FALSE, timers |-> {}, rake |-> InitialRake,
                 heater |-> InitialHeater, arm |-> InitialFeelerArm,
                 fill |-> InitialMonitor]
           i == [m EXCEPT !.initialFreeze = TRUE]
<1>1. WorldOK
  BY DEF MoldInit, WorldOK
<1>2. ReadOk(e) /\ e.temp = temp
  BY <1>1, MoldTemperatures DEF ReadOk, WorldOK
<1>3. /\ InitialHeater \in Heater /\ ~InitialHeater.enable
      /\ InitialHeater.state = "Disabled"
      /\ InitialFeelerArm \in FeelerArm /\ ~InitialFeelerArm.request
      /\ InitialMonitor \in Monitor /\ InitialMonitor.request = "Stop"
  BY DEF InitialHeater, Heater, HeaterStates, Bands, InitialFeelerArm, FeelerArm,
         InitialMonitor, Monitor, MonitorRequests, TimerStates
<1>4. m \in Mold
  BY <1>3, InitialRakeFacts DEF Mold, MoldStates
<1>5. /\ ~m.valves /\ ~m.tubeHeater /\ ~m.counting /\ ~m.revolutionInFix
      /\ ~m.pauseFill /\ m.timers = {} /\ m.rake = InitialRake
      /\ m.heater = InitialHeater /\ m.arm = InitialFeelerArm /\ m.fill = InitialMonitor
  OBVIOUS
<1>6. \/ mold = EnterThermistorFault(m)
      \/ mold = EnterFreeze(i, e)
      \/ mold = EnterHarvest(m, e)
  BY <1>2 DEF MoldInit, InitialMold, ReadOk
<1> HIDE DEF m, e
<1>7. Left(m)
  BY <1>3, <1>4, <1>5 DEF Left
<1>8. Agree(i, m, {})
  BY <1>4, VoteFacts
<1> HIDE DEF i
<1>9. Left(i)
  BY <1>7, <1>8 DEF Left, Agree
<1>10. Found(mold, "none", temp)
  BY <1>2, <1>6, <1>7, <1>9, EnterWaitFacts, EnterFreezeFacts, EnterHarvestFacts
<1>11. mold \in Mold
  BY <1>10 DEF Found, Leavable
<1> QED BY <1>1, <1>10, <1>11 DEF MoldInv, MoldTypeOK, WorldOK

\* Every step keeps the invariant.
LEMMA MoldStep ==
    ASSUME MoldInv, [MoldNext]_moldVars
    PROVE  MoldInv'
<1>0. /\ WorldOK /\ mold \in Mold /\ Found(mold, "none", temp)
      /\ Leavable(mold) /\ mold.rake \in Rake /\ RakeOk(mold.rake)
      /\ mold.heater \in Heater /\ mold.arm \in FeelerArm /\ mold.fill \in Monitor
  BY MoldFields DEF MoldInv, MoldTypeOK, WorldOK, Found, Leavable
<1>a. ASSUME NEW m, NEW signal, NEW t, Found(m, "none", t),
             signal # "FillTubeHeaterTimerExpired"
      PROVE  Found(m, signal, t)
  BY <1>a DEF Found
<1>1. CASE MoldThermistorChanges
  <2>1. WorldOK' /\ temp' = temp
    BY <1>0, <1>1 DEF MoldThermistorChanges, WorldOK
  <2>2. \/ Send(mold, "MoldThermistorIsValid")
        \/ Send(mold, "MoldThermistorIsInvalid")
    BY <1>1 DEF MoldThermistorChanges
  <2>3. /\ Found(mold, "MoldThermistorIsValid", temp')
        /\ Found(mold, "MoldThermistorIsInvalid", temp')
    BY <1>0, <1>a, <2>1
  <2> QED BY <2>1, <2>2, <2>3, SendStep
<1>2. CASE MoldTemperatureChanges
  <2> DEFINE h == HeaterTemperatureChanged(mold.heater, temp')
             m == [mold EXCEPT !.heater = h]
  <2>1. WorldOK' /\ temp' \in Int
    BY <1>0, <1>2, MoldTemperatures DEF MoldTemperatureChanges, WorldOK
  <2>2. /\ h \in Heater /\ h.enable = mold.heater.enable /\ InBand(h, temp')
        /\ mold.heater.state = "Disabled" => h.state = "Disabled"
    BY <1>0, <2>1, HeaterFollows
  <2>3. Send(m, "TemperatureIsReady") \/ mold' = m
    BY <1>2 DEF MoldTemperatureChanges
  <2> HIDE DEF h
  <2>4. Agree(m, mold, {"heater"}) /\ m.heater = h
    BY <1>0, <2>2 DEF Mold, Agree
  <2> HIDE DEF m
  <2>5. Found(m, "none", temp')
    BY <1>0, <2>2, <2>4, FoundElsewhere
  <2>6. Found(m, "TemperatureIsReady", temp')
    BY <1>a, <2>5
  <2> QED BY <2>1, <2>3, <2>5, <2>6, SendStep, OtherStep
<1>3. CASE FillInhibitionChanges
  <2>1. WorldOK' /\ temp' = temp
    BY <1>0, <1>3 DEF FillInhibitionChanges, WorldOK
  <2>2. \/ Send(mold, "IceMakerFillIsInhibited")
        \/ Send(mold, "IceMakerFillIsNotInhibited")
    BY <1>3 DEF FillInhibitionChanges
  <2>3. /\ Found(mold, "IceMakerFillIsInhibited", temp')
        /\ Found(mold, "IceMakerFillIsNotInhibited", temp')
    BY <1>0, <1>a, <2>1
  <2> QED BY <2>1, <2>2, <2>3, SendStep
<1>4. CASE DispensingStarts
  <2>1. WorldOK' /\ temp' = temp
    BY <1>0, <1>4 DEF DispensingStarts, WorldOK
  <2>2. Send(mold, "DispensingActive") \/ mold' = mold
    BY <1>4 DEF DispensingStarts
  <2>3. Found(mold, "DispensingActive", temp') /\ Found(mold, "none", temp')
    BY <1>0, <1>a, <2>1
  <2> QED BY <2>1, <2>2, <2>3, SendStep, OtherStep
<1>5. CASE DispensingEnds
  <2>1. WorldOK' /\ temp' = temp
    BY <1>0, <1>5 DEF DispensingEnds, WorldOK
  <2>2. Send(mold, "DispensingInactive")
    BY <1>5 DEF DispensingEnds
  <2>3. Found(mold, "DispensingInactive", temp')
    BY <1>0, <1>a, <2>1
  <2> QED BY <2>1, <2>2, <2>3, SendStep
<1>6. CASE HarvestConditionChanges
  <2>1. WorldOK' /\ temp' = temp
    BY <1>0, <1>6 DEF HarvestConditionChanges, WorldOK, moldWorld
  <2>2. PICK condition \in HarvestConditions : \E e \in PossibleReads({condition}) :
            mold' = SendToMold(mold, condition, e)
    BY <1>6 DEF HarvestConditionChanges
  <2>3. PICK e \in PossibleReads({condition}) : mold' = SendToMold(mold, condition, e)
    BY <2>2
  <2>4. ReadOk(e) /\ e.temp = temp'
    BY <2>1, WorldReads
  <2>5. Found(mold, condition, temp')
    BY <1>0, <1>a, <2>1, <2>2 DEF HarvestConditions
  <2>6. Found(SendToMold(mold, condition, e), "none", temp')
    BY <2>4, <2>5, SendFacts
  <2> QED BY <2>1, <2>3, <2>6, OtherStep
<1>7. CASE MoldTestRequested
  <2>1. WorldOK' /\ temp' = temp
    BY <1>0, <1>7 DEF MoldTestRequested, WorldOK, moldWorld
  <2>2. Send(mold, "TestRequest_Fill") \/ Send(mold, "TestRequest_Harvest")
    BY <1>7 DEF MoldTestRequested
  <2>3. Found(mold, "TestRequest_Fill", temp') /\ Found(mold, "TestRequest_Harvest", temp')
    BY <1>0, <1>a, <2>1
  <2> QED BY <2>1, <2>2, <2>3, SendStep
<1>8. CASE RakeMoves
  <2> DEFINE r == RakePositionUpdated(mold.rake, home')
  <2>1. WorldOK' /\ temp' = temp /\ home' \in BOOLEAN
    BY <1>0, <1>8 DEF RakeMoves, WorldOK
  <2>2. r \in Rake /\ RakeOk(r) /\ r.request = mold.rake.request
    BY <1>0, <2>1, RakeEvents
  <2>3. SendRake(r)
    BY <1>8 DEF RakeMoves
  <2> HIDE DEF r
  <2> QED BY <1>0, <2>1, <2>2, <2>3, RakeStep
<1>9. CASE FeelerArmMoves
  <2> DEFINE r == FeelerArmPositionUpdated(mold.rake, armFull')
             a == UpdateFeelerArm(mold.arm, armFull')
             b == [mold EXCEPT !.arm = a]
             n == [b EXCEPT !.rake = r]
  <2>1. WorldOK' /\ temp' = temp /\ armFull' \in BOOLEAN
    BY <1>0, <1>9 DEF FeelerArmMoves, WorldOK
  <2>2. r \in Rake /\ RakeOk(r) /\ r.request = mold.rake.request
    BY <1>0, <2>1, RakeEvents
  <2>3. a \in FeelerArm /\ a.request = mold.arm.request
    BY <1>0, <2>1, ArmFacts
  <2>4. mold' = [mold EXCEPT !.arm = a, !.rake = r]
    BY <1>9 DEF FeelerArmMoves
  <2> HIDE DEF r, a
  <2>5. Agree(b, mold, {"arm"}) /\ b.arm = a
    BY <1>0, <2>3 DEF Mold, Agree
  <2>6. mold' = n
    BY <1>0, <2>4 DEF Mold
  <2> HIDE DEF b
  <2>7. Agree(n, b, {"rake"}) /\ n.rake = r
    BY <2>2, <2>5 DEF Mold, Agree
  <2> HIDE DEF n
  <2>8. Found(n, "none", temp)
    BY <1>0, <2>2, <2>3, <2>5, <2>7 DEF Found, Leavable, Agree
  <2> QED BY <2>1, <2>6, <2>8, OtherStep
<1>10. CASE \E t \in MoldTimers : MoldTimerExpires(t)
  BY <1>10, TimerStep
<1>11. CASE RakeNotHomeTimerExpires
  <2> DEFINE r == RakeNotHomeTestTimerExpired(mold.rake)
             n == [mold EXCEPT !.rake = r]
  <2>1. WorldOK' /\ temp' = temp /\ mold.rake.notHomeTimer
    BY <1>0, <1>11 DEF RakeNotHomeTimerExpires, WorldOK, moldWorld
  <2>2. r \in Rake /\ RakeOk(r) /\ r.request = mold.rake.request
    BY <1>0, <2>1, RakeEvents DEF WorldOK
  <2>3. mold' = n
    BY <1>11 DEF RakeNotHomeTimerExpires
  <2> HIDE DEF r
  <2>4. Agree(n, mold, {"rake"}) /\ n.rake = r
    BY <1>0, <2>2 DEF Mold, Agree
  <2> HIDE DEF n
  <2>5. Found(n, "none", temp)
    BY <1>0, <2>2, <2>4 DEF Found, Leavable, Agree
  <2> QED BY <2>1, <2>3, <2>5, OtherStep
<1>12. CASE ArmFullTimerExpires
  <2> DEFINE r == FeelerArmBucketFullTestTimerExpired(mold.rake, home)
  <2>1. WorldOK' /\ temp' = temp /\ mold.rake.fullTimer
    BY <1>0, <1>12 DEF ArmFullTimerExpires, WorldOK, moldWorld
  <2>2. r \in Rake /\ RakeOk(r) /\ r.request = mold.rake.request
    BY <1>0, <2>1, RakeEvents DEF WorldOK
  <2>3. SendRake(r)
    BY <1>12 DEF ArmFullTimerExpires
  <2> HIDE DEF r
  <2> QED BY <1>0, <2>1, <2>2, <2>3, RakeStep
<1>13. CASE ArmDelayExpires
  <2> DEFINE a == FeelerArmDelayTimerExpired(mold.arm)
             m == [mold EXCEPT !.arm = a]
  <2>1. WorldOK' /\ temp' = temp
    BY <1>0, <1>13 DEF ArmDelayExpires, WorldOK, moldWorld
  <2>2. a \in FeelerArm /\ a.request = mold.arm.request
    BY <1>0, ArmFacts DEF WorldOK
  <2>3. Send(m, "FeelerArmIsReady")
    BY <1>13 DEF ArmDelayExpires
  <2> HIDE DEF a
  <2>4. Agree(m, mold, {"arm"}) /\ m.arm = a
    BY <1>0, <2>2 DEF Mold, Agree
  <2> HIDE DEF m
  <2>5. Found(m, "none", temp)
    BY <1>0, <2>2, <2>4 DEF Found, Leavable, Agree
  <2>6. Found(m, "FeelerArmIsReady", temp')
    BY <1>a, <2>1, <2>5
  <2> QED BY <2>1, <2>3, <2>6, SendStep
<1>14. CASE HeaterTimerExpires
  <2> DEFINE h == HeaterTimerExpired(mold.heater, temp)
             n == [mold EXCEPT !.heater = h]
  <2>1. WorldOK' /\ temp' = temp /\ temp \in Int
    BY <1>0, <1>14, MoldTemperatures DEF HeaterTimerExpires, WorldOK, moldWorld
  <2>2. h = EnterBand(mold.heater, temp) /\ mold.heater.state # "Disabled"
    BY <1>14 DEF HeaterTimerExpires, HeaterTimerExpired
  <2>3. h \in Heater /\ h.enable = mold.heater.enable /\ InBand(h, temp)
    BY <1>0, <2>1, <2>2, BandFacts
  <2>4. mold' = n
    BY <1>14 DEF HeaterTimerExpires
  <2> HIDE DEF h
  <2>5. Agree(n, mold, {"heater"}) /\ n.heater = h
    BY <1>0, <2>3 DEF Mold, Agree
  <2> HIDE DEF n
  <2>6. Found(n, "none", temp)
    BY <1>0, <2>2, <2>3, <2>5, FoundElsewhere
  <2> QED BY <2>1, <2>4, <2>6, OtherStep
<1>15. CASE IceRateEnds
  <2> DEFINE m == [mold EXCEPT !.iceRate = FALSE]
  <2>1. WorldOK' /\ temp' = temp
    BY <1>0, <1>15 DEF IceRateEnds, WorldOK, moldWorld
  <2>2. Send(m, "FreezerIceRateIsInactive")
    BY <1>15 DEF IceRateEnds
  <2>3. Agree(m, mold, {})
    BY <1>0, VoteFacts
  <2> HIDE DEF m
  <2>4. Found(m, "none", temp)
    BY <1>0, <2>3, FoundAgain
  <2>5. Found(m, "FreezerIceRateIsInactive", temp')
    BY <1>a, <2>1, <2>4
  <2> QED BY <2>1, <2>2, <2>5, SendStep
<1>16. CASE MoldIsFilled
  <2> DEFINE f == StopMonitoring(mold.fill)
             m == [mold EXCEPT !.fill = f]
  <2>1. /\ WorldOK' /\ temp' = temp
        /\ \/ mold.fill.timedFill = "running" \/ mold.fill.maxFill = "running"
           \/ mold.fill.listening
    BY <1>0, <1>16 DEF MoldIsFilled, WorldOK, moldWorld
  <2>2. f \in Monitor /\ f.request = mold.fill.request
    BY <1>0 DEF StopMonitoring, Monitor, TimerStates
  <2>3. Send(m, "StopFill")
    BY <1>16 DEF MoldIsFilled
  <2> HIDE DEF f
  <2>4. Agree(m, mold, {"fill"}) /\ m.fill = f
    BY <1>0, <2>2 DEF Mold, Agree
  <2> HIDE DEF m
  <2>5. ~mold.pauseFill
    BY <1>0, <2>1 DEF Found, Leavable, Postponed
  <2>6. Leavable(m)
    BY <1>0, <2>2, <2>4, <2>5 DEF Leavable, Agree
  <2>7. Found(m, "StopFill", temp')
    BY <1>0, <2>1, <2>4, <2>6 DEF Found, Agree
  <2> QED BY <2>1, <2>3, <2>7, SendStep
<1>17. CASE WaterFlows
  <2> DEFINE f == FlowSeen(mold.fill)
             n == [mold EXCEPT !.fill = f]
  <2>1. WorldOK' /\ temp' = temp /\ mold.fill.listening
    BY <1>0, <1>17 DEF WaterFlows, WorldOK, moldWorld
  <2>2. /\ f \in Monitor /\ f.request = mold.fill.request
        /\ f.maxFill = mold.fill.maxFill /\ f.listening = mold.fill.listening
    BY <1>0 DEF FlowSeen, Monitor, TimerStates
  <2>3. mold' = n
    BY <1>17 DEF WaterFlows
  <2> HIDE DEF f
  <2>4. Agree(n, mold, {"fill"}) /\ n.fill = f
    BY <1>0, <2>2 DEF Mold, Agree
  <2> HIDE DEF n
  <2>5. ~mold.pauseFill
    BY <1>0, <2>1 DEF Found, Leavable, Postponed
  <2>6. Leavable(n)
    BY <1>0, <2>2, <2>4, <2>5 DEF Leavable, Agree
  <2>7. Found(n, "none", temp)
    BY <1>0, <2>2, <2>4, <2>6 DEF Found, Agree
  <2> QED BY <2>1, <2>3, <2>7, OtherStep
<1>18. CASE UNCHANGED moldVars
  BY <1>18 DEF moldVars, moldWorld, MoldInv, MoldTypeOK
<1> QED
  BY <1>1, <1>2, <1>3, <1>4, <1>5, <1>6, <1>7, <1>8, <1>9, <1>10, <1>11, <1>12,
     <1>13, <1>14, <1>15, <1>16, <1>17, <1>18 DEF MoldNext

\* The invariant holds in every state of every behavior.
LEMMA MoldInvariant == MoldSpec => []MoldInv
BY MoldInitInv, MoldStep, PTL DEF MoldSpec

-----------------------------------------------------------------------------
(***************************************************************************)
(* Theorems.                                                               *)
(***************************************************************************)
\* What the invariant says of the loads and the timers.
LEMMA MoldInvOwns ==
    ASSUME MoldInv
    PROVE  MoldStateOwnsWhatItStarts
<1>0. /\ MoldTypeOK /\ mold \in Mold /\ Found(mold, "none", temp) /\ Leavable(mold)
      /\ mold.state \in MoldStates /\ mold.timers \in SUBSET MoldTimers
      /\ mold.valves \in BOOLEAN /\ mold.counting \in BOOLEAN
      /\ mold.tubeHeater \in BOOLEAN
  BY MoldFields DEF MoldInv, MoldTypeOK, Found
<1>1. MoldLoadsBelongToTheirState
  BY <1>0 DEF Found, Leavable, RakeOk, MoldLoadsBelongToTheirState, HeaterIsOn
<1>2. MoldStateEndsWithItsTimers
  <2>1. /\ "maxHarvest" \in mold.timers <=> mold.state = "Harvest"
        /\ "maxHarvestFix" \in mold.timers <=> mold.state = "HarvestFix"
        /\ "harvestFaultMax" \in mold.timers <=> mold.state = "HarvestFault"
        /\ mold.revolutionInFix => mold.state = "HarvestFix"
        /\ mold.arm.request <=> mold.state = "Freeze"
    BY <1>0 DEF Found, Leavable
  <2>2. "rakeOn" \in mold.timers \/ "rakeOff" \in mold.timers <=>
            mold.state \in {"HarvestFix", "HarvestFault"}
    BY <1>0 DEF Found, Leavable
  <2>3. (mold.timers \cap {"rakeOn", "rakeOff"} # {}) <=>
            mold.state \in {"HarvestFix", "HarvestFault"}
    BY <2>2
  <2>4. ~mold.rake.request => mold.rake = InitialRake
    BY <1>0 DEF Leavable, RakeOk
  <2> QED BY <2>1, <2>3, <2>4 DEF MoldStateEndsWithItsTimers
<1> QED BY <1>0, <1>1, <1>2 DEF MoldStateOwnsWhatItStarts

\* AluminumMoldIceMaker.c: whatever event ends a state, what the state has
\* started ends with it: its loads, its requests, its timers and the evidence
\* of a revolution.
THEOREM MoldOwnsWhatItStarts == MoldSpec => []MoldStateOwnsWhatItStarts
BY MoldInvariant, MoldInvOwns, PTL

\* What the invariant says of water and heat.
LEMMA MoldInvBounds ==
    ASSUME MoldInv
    PROVE  MoldFillAndHeatAreBounded
BY DEF MoldInv, Found, Leavable, InBand, MoldFillAndHeatAreBounded

\* IceMakerWaterFillMonitor.c and IceMakerMoldHeaterController.c: water runs
\* only while a maximum time does, over any number of pauses, and the heater
\* is on or off by the temperature it has last seen.
THEOREM WaterAndHeatAreBounded == MoldSpec => []MoldFillAndHeatAreBounded
BY MoldInvariant, MoldInvBounds, PTL
=============================================================================
