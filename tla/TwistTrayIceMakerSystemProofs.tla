-------------------- MODULE TwistTrayIceMakerSystemProofs --------------------
(***************************************************************************)
(* The states of the twist tray ice maker own what they start, and a fill  *)
(* is always accounted for.  A state's function is an operator on the      *)
(* record of the ice maker, so the argument is one about records: Left     *)
(* says what every Fsm_Exit leaves, Found what a signal finds, and each    *)
(* state's function turns what it finds into what the next signal finds.   *)
(***************************************************************************)
EXTENDS TwistTrayIceMakerSystem, TLAPS

\* The fill monitor outside Fill: a postponed fill stands still there.
Postponed(f) ==
    /\ f.request = "Pause" /\ f.maxFill = "paused"
    /\ f.timedFill # "running" /\ ~f.listening

\* Between two states.
Left(m) ==
    /\ m \in Maker
    /\ ~m.valve /\ ~m.tubeHeater /\ ~m.counting /\ m.motorVote = "Off"
    /\ ~Running(m, "retryMotorInit") /\ ~Running(m, "fullBucketWait")
    /\ ~Running(m, "doorOpenCheck") /\ ~m.doorCheckElapsed
    /\ ~Running(m, "doorHarvestDelay") /\ m.doorDelayElapsed
    /\ ~m.motorHarvested
    /\ m.fill.request \in {"Stop", "Pause"}
    /\ m.pauseFill => Postponed(m.fill)

\* In a state that may be left: what its exit does not clear is clear.
Leavable(m) ==
    /\ m \in Maker
    /\ m.valve => m.state = "Fill"
    /\ m.tubeHeater => m.state = "Harvesting"
    /\ m.motorVote # "Off" => m.state \in {"Homing", "Harvesting"}
    /\ m.counting => m.state = "Freeze"
    /\ Running(m, "retryMotorInit") => m.state = "MotorError"
    /\ Running(m, "fullBucketWait") => m.state = "BucketIsFull"
    /\ Running(m, "doorOpenCheck") \/ m.doorCheckElapsed => m.state = "BucketIsFull"
    /\ Running(m, "doorHarvestDelay") \/ ~m.doorDelayElapsed => m.state = "Freeze"
    /\ m.motorHarvested => m.state = "Harvesting"
    /\ IF m.state = "Fill"
       THEN /\ m.fill.request \in {"Start", "Resume"}
            /\ m.pauseFill => m.fill.maxFill = "running"
       ELSE /\ m.fill.request \in {"Stop", "Pause"}
            /\ m.pauseFill => m.state = "IdleFill" /\ Postponed(m.fill)
    /\ m.state \in {"Fill", "IdleFill"} => ~m.delayFill

\* What a signal finds, v the validity of the thermistor: a timer that has
\* expired, or a fill that has ended, tells so by its own signal.
Found(m, signal, v) ==
    /\ Leavable(m)
    /\ m.motorVote = "Home" <=> m.state = "Homing"
    /\ m.motorVote = "Run" <=> m.state = "Harvesting" /\ ~m.motorHarvested
    /\ m.counting <=> m.state = "Freeze"
    /\ m.tubeHeater => Running(m, "fillTubeHeater") \/ signal = "FillTubeHeaterTimerExpired"
    /\ m.state = "MotorError" =>
          Running(m, "retryMotorInit") \/ signal = "MotorErrorRetryTimerExpired"
    /\ m.state = "BucketIsFull" =>
          Running(m, "fullBucketWait") \/ signal = "FullBucketWaitElapsed"
    /\ Running(m, "doorHarvestDelay") <=> ~m.doorDelayElapsed
    /\ m.pauseFill => m.state = "IdleFill"
    /\ m.state = "ThermistorFault" => ~v \/ signal = "ThermistorIsValid"
    /\ m.state = "Fill" =>
          (m.fill.maxFill = "running" /\ m.fill.listening) \/ signal = "TrayFilled"

MakerInv ==
    /\ TypeOK
    /\ Found(im, "none", valid)

-----------------------------------------------------------------------------
(***************************************************************************)
(* The records: what one write, one timer or one request changes.          *)
(***************************************************************************)
\* The fields of the ice maker have their types.
LEMMA MakerFields ==
    ASSUME NEW m \in Maker
    PROVE  /\ m.state \in MakerStates /\ m.motorVote \in MotorVotes
           /\ m.valve \in BOOLEAN /\ m.tubeHeater \in BOOLEAN
           /\ m.counting \in BOOLEAN /\ m.doorDelayElapsed \in BOOLEAN
           /\ m.pauseFill \in BOOLEAN /\ m.delayFill \in BOOLEAN
           /\ m.doorCheckElapsed \in BOOLEAN /\ m.motorHarvested \in BOOLEAN
           /\ m.firstFreeze \in BOOLEAN /\ m.icedLongEnough \in BOOLEAN
           /\ m.timers \in SUBSET MakerTimers /\ m.fill \in Monitor
BY DEF Maker

\* The fields of the fill monitor have their types.
LEMMA MonitorFields ==
    ASSUME NEW f \in Monitor
    PROVE  /\ f.request \in MonitorRequests /\ f.timedFill \in TimerStates
           /\ f.maxFill \in TimerStates /\ f.listening \in BOOLEAN
BY DEF Monitor

\* Two ice makers that differ in their timers only.
SameButTimers(n, m) ==
    /\ n \in Maker /\ n.state = m.state /\ n.motorVote = m.motorVote
    /\ n.valve = m.valve /\ n.tubeHeater = m.tubeHeater
    /\ n.counting = m.counting /\ n.doorDelayElapsed = m.doorDelayElapsed
    /\ n.pauseFill = m.pauseFill /\ n.delayFill = m.delayFill
    /\ n.doorCheckElapsed = m.doorCheckElapsed
    /\ n.motorHarvested = m.motorHarvested /\ n.fill = m.fill
    /\ n.firstFreeze = m.firstFreeze /\ n.icedLongEnough = m.icedLongEnough

\* A timer that is started runs, and nothing else changes.
LEMMA StartFacts ==
    ASSUME NEW m \in Maker, NEW t \in MakerTimers
    PROVE  /\ SameButTimers(Start(m, t), m)
           /\ \A u : Running(Start(m, t), u) <=> u = t \/ Running(m, u)
BY DEF Maker, Start, Running, SameButTimers

\* Timers that are cancelled do not run, and nothing else changes.
LEMMA CancelFacts ==
    ASSUME NEW m \in Maker, NEW ts
    PROVE  /\ SameButTimers(Cancel(m, ts), m)
           /\ \A u : Running(Cancel(m, ts), u) <=> u \notin ts /\ Running(m, u)
BY DEF Maker, Cancel, Running, SameButTimers

\* What a request makes of the fill monitor.
LEMMA RequestFacts ==
    ASSUME NEW f \in Monitor, NEW r \in MonitorRequests
    PROVE  /\ RequestMonitor(f, r) \in Monitor
           /\ RequestMonitor(f, r).request = r
           /\ r = "Start" /\ f.request # r =>
                 RequestMonitor(f, r).maxFill = "running" /\ RequestMonitor(f, r).listening
           /\ r = "Resume" /\ f.request # r /\ f.maxFill = "paused" =>
                 RequestMonitor(f, r).maxFill = "running" /\ RequestMonitor(f, r).listening
           /\ r = "Pause" /\ f.request # r /\ f.maxFill = "running" =>
                 Postponed(RequestMonitor(f, r))
<1> DEFINE g == [f EXCEPT !.request = r]
<1>1. /\ g \in Monitor /\ g.request = r /\ g.maxFill = f.maxFill
      /\ g.timedFill = f.timedFill /\ g.listening = f.listening
  BY DEF Monitor
<1>2. CASE r = f.request
  BY <1>2 DEF RequestMonitor
<1>3. CASE r = "Start" /\ r # f.request
  <2>1. RequestMonitor(f, r) = StartMonitoring(g)
    BY <1>3 DEF RequestMonitor
  <2> HIDE DEF g
  <2>2. /\ StartMonitoring(g) \in Monitor /\ StartMonitoring(g).request = g.request
        /\ StartMonitoring(g).maxFill = "running" /\ StartMonitoring(g).listening
    BY <1>1 DEF StartMonitoring, Monitor, TimerStates
  <2> QED BY <1>1, <1>3, <2>1, <2>2
<1>4. CASE r = "Pause" /\ r # f.request
  <2>1. RequestMonitor(f, r) = PauseMonitoring(g)
    BY <1>4 DEF RequestMonitor
  <2> HIDE DEF g
  <2>2. /\ PauseMonitoring(g) \in Monitor /\ PauseMonitoring(g).request = g.request
        /\ g.maxFill = "running" => PauseMonitoring(g).maxFill = "paused"
        /\ PauseMonitoring(g).timedFill # "running" /\ ~PauseMonitoring(g).listening
    BY <1>1 DEF PauseMonitoring, Paused, Monitor, TimerStates
  <2> QED BY <1>1, <1>4, <2>1, <2>2 DEF Postponed
<1>5. CASE r = "Resume" /\ r # f.request
  <2>1. RequestMonitor(f, r) = ResumeMonitoring(g)
    BY <1>5 DEF RequestMonitor
  <2> HIDE DEF g
  <2>2. /\ ResumeMonitoring(g) \in Monitor /\ ResumeMonitoring(g).request = g.request
        /\ g.maxFill = "paused" => ResumeMonitoring(g).maxFill = "running"
        /\ ResumeMonitoring(g).listening
    BY <1>1 DEF ResumeMonitoring, Resumed, Monitor, TimerStates
  <2> QED BY <1>1, <1>5, <2>1, <2>2
<1>6. CASE r = "Stop" /\ r # f.request
  <2>1. RequestMonitor(f, r) = g
    BY <1>6 DEF RequestMonitor
  <2> QED BY <1>1, <1>6, <2>1
<1> QED BY <1>2, <1>3, <1>4, <1>5, <1>6 DEF MonitorRequests

\* Two ice makers that differ in their fill monitor only.
SameButFill(n, m) ==
    /\ n \in Maker /\ n.state = m.state /\ n.motorVote = m.motorVote
    /\ n.valve = m.valve /\ n.tubeHeater = m.tubeHeater
    /\ n.counting = m.counting /\ n.doorDelayElapsed = m.doorDelayElapsed
    /\ n.pauseFill = m.pauseFill /\ n.delayFill = m.delayFill
    /\ n.doorCheckElapsed = m.doorCheckElapsed
    /\ n.motorHarvested = m.motorHarvested /\ n.timers = m.timers

\* A request reaches the fill monitor and changes nothing else.
LEMMA SetRequestFacts ==
    ASSUME NEW m \in Maker, NEW r \in MonitorRequests
    PROVE  /\ SameButFill(SetWaterFillMonitoringRequestTo(m, r), m)
           /\ SetWaterFillMonitoringRequestTo(m, r).fill = RequestMonitor(m.fill, r)
<1>1. RequestMonitor(m.fill, r) \in Monitor
  BY RequestFacts, MakerFields
<1> QED
  BY <1>1 DEF SetWaterFillMonitoringRequestTo, SameButFill, Maker

-----------------------------------------------------------------------------
(***************************************************************************)
(* Transitions: exits leave nothing behind, entries start what the state   *)
(* needs.                                                                  *)
(***************************************************************************)
\* Every state leaves nothing behind, and does not decide about fills.
LEMMA ExitFacts ==
    ASSUME NEW m \in Maker, Leavable(m)
    PROVE  /\ Left(Exit(m))
           /\ Exit(m).delayFill = m.delayFill
           /\ Exit(m).pauseFill = m.pauseFill
<1> USE MakerFields
<1>1. CASE m.state = "Homing"
  <2> DEFINE n == [m EXCEPT !.motorVote = "Off"]
  <2>1. Exit(m) = n
    BY <1>1 DEF Exit
  <2>2. n \in Maker /\ n.motorVote = "Off" /\ n = [m EXCEPT !.motorVote = "Off"]
    BY DEF Maker, MotorVotes
  <2>3. Left(n) /\ n.delayFill = m.delayFill /\ n.pauseFill = m.pauseFill
    BY <1>1, <2>2 DEF Leavable, Left, Running, Maker
  <2> QED BY <2>1, <2>3
<1>2. CASE m.state = "Freeze"
  <2> DEFINE c == Cancel(m, {"doorHarvestDelay"})
             n == [c EXCEPT !.firstFreeze = FALSE, !.counting = FALSE,
                            !.doorDelayElapsed = TRUE]
  <2>1. Exit(m) = n
    BY <1>2 DEF Exit
  <2>2. /\ SameButTimers(c, m)
        /\ \A u : Running(c, u) <=> u # "doorHarvestDelay" /\ Running(m, u)
    BY CancelFacts
  <2> HIDE DEF c
  <2>3. /\ n \in Maker /\ n.state = c.state /\ n.motorVote = c.motorVote
        /\ n.valve = c.valve /\ n.tubeHeater = c.tubeHeater
        /\ ~n.counting /\ n.doorDelayElapsed
        /\ n.pauseFill = c.pauseFill /\ n.delayFill = c.delayFill
        /\ n.doorCheckElapsed = c.doorCheckElapsed
        /\ n.motorHarvested = c.motorHarvested /\ n.fill = c.fill
        /\ n.timers = c.timers
    BY <2>2, ZenonT(120) DEF SameButTimers, Maker
  <2> HIDE DEF n
  <2>4. Left(n) /\ n.delayFill = m.delayFill /\ n.pauseFill = m.pauseFill
    BY <1>2, <2>2, <2>3 DEF Leavable, Left, Running, SameButTimers
  <2> QED BY <2>1, <2>4
<1>3. CASE m.state = "Harvesting"
  <2> DEFINE c == Cancel(m, {"fillTubeHeater"})
             n == [c EXCEPT !.tubeHeater = FALSE, !.motorHarvested = FALSE,
                            !.motorVote = "Off"]
  <2>1. Exit(m) = n
    BY <1>3 DEF Exit
  <2>2. /\ SameButTimers(c, m)
        /\ \A u : Running(c, u) <=> u # "fillTubeHeater" /\ Running(m, u)
    BY CancelFacts
  <2> HIDE DEF c
  <2>3. /\ n \in Maker /\ n.state = c.state /\ n.motorVote = "Off"
        /\ n.valve = c.valve /\ ~n.tubeHeater
        /\ n.counting = c.counting /\ n.doorDelayElapsed = c.doorDelayElapsed
        /\ n.pauseFill = c.pauseFill /\ n.delayFill = c.delayFill
        /\ n.doorCheckElapsed = c.doorCheckElapsed
        /\ ~n.motorHarvested /\ n.fill = c.fill
        /\ n.timers = c.timers
    BY <2>2, ZenonT(120) DEF SameButTimers, Maker, MotorVotes
  <2> HIDE DEF n
  <2>4. Left(n) /\ n.delayFill = m.delayFill /\ n.pauseFill = m.pauseFill
    BY <1>3, <2>2, <2>3 DEF Leavable, Left, Running, SameButTimers
  <2> QED BY <2>1, <2>4
<1>4. CASE m.state = "Fill"
  <2> DEFINE c == Cancel(m, {"fullBucketWait"})
             r == IF m.pauseFill THEN "Pause" ELSE "Stop"
             s == SetWaterFillMonitoringRequestTo(c, r)
             n == [s EXCEPT !.valve = FALSE]
  <2>1. Exit(m) = n
    BY <1>4 DEF Exit
  <2>2. /\ SameButTimers(c, m)
        /\ \A u : Running(c, u) <=> u # "fullBucketWait" /\ Running(m, u)
    BY CancelFacts
  <2>3. /\ r \in MonitorRequests /\ r \in {"Stop", "Pause"}
        /\ m.pauseFill => r = "Pause"
    BY DEF MonitorRequests
  <2> HIDE DEF c, r
  <2>4. c \in Maker /\ c.fill = m.fill /\ m.fill \in Monitor
    BY <2>2 DEF SameButTimers
  <2>5. SameButFill(s, c) /\ s.fill = RequestMonitor(c.fill, r)
    BY <2>3, <2>4, SetRequestFacts
  <2>6. /\ RequestMonitor(m.fill, r).request = r
        /\ r = "Pause" /\ m.fill.request # r /\ m.fill.maxFill = "running" =>
              Postponed(RequestMonitor(m.fill, r))
    BY <2>3, <2>4, RequestFacts
  <2> HIDE DEF s
  <2>7. /\ n \in Maker /\ n.state = s.state /\ n.motorVote = s.motorVote
        /\ ~n.valve /\ n.tubeHeater = s.tubeHeater
        /\ n.counting = s.counting /\ n.doorDelayElapsed = s.doorDelayElapsed
        /\ n.pauseFill = s.pauseFill /\ n.delayFill = s.delayFill
        /\ n.doorCheckElapsed = s.doorCheckElapsed
        /\ n.motorHarvested = s.motorHarvested /\ n.fill = s.fill
        /\ n.timers = s.timers
    BY <2>5, ZenonT(120) DEF SameButFill, Maker
  <2> HIDE DEF n
  <2>8. n.fill.request \in {"Stop", "Pause"} /\ (n.pauseFill => Postponed(n.fill))
    BY <1>4, <2>2, <2>3, <2>4, <2>5, <2>6, <2>7
       DEF Leavable, SameButTimers, SameButFill
  <2>9. Left(n) /\ n.delayFill = m.delayFill /\ n.pauseFill = m.pauseFill
    BY <1>4, <2>2, <2>5, <2>7, <2>8
       DEF Leavable, Left, Running, SameButTimers, SameButFill
  <2> QED BY <2>1, <2>9
<1>5. CASE m.state = "BucketIsFull"
  <2> DEFINE c == Cancel(m, {"fullBucketWait", "doorOpenCheck"})
             n == [c EXCEPT !.doorCheckElapsed = FALSE]
  <2>1. Exit(m) = n
    BY <1>5 DEF Exit, ExitBucketIsFull
  <2>2. /\ SameButTimers(c, m)
        /\ \A u : Running(c, u) <=>
              u \notin {"fullBucketWait", "doorOpenCheck"} /\ Running(m, u)
    BY CancelFacts
  <2> HIDE DEF c
  <2>3. /\ n \in Maker /\ n.state = c.state /\ n.motorVote = c.motorVote
        /\ n.valve = c.valve /\ n.tubeHeater = c.tubeHeater
        /\ n.counting = c.counting /\ n.doorDelayElapsed = c.doorDelayElapsed
        /\ n.pauseFill = c.pauseFill /\ n.delayFill = c.delayFill
        /\ ~n.doorCheckElapsed
        /\ n.motorHarvested = c.motorHarvested /\ n.fill = c.fill
        /\ n.timers = c.timers
    BY <2>2, ZenonT(120) DEF SameButTimers, Maker
  <2> HIDE DEF n
  <2>4. Left(n) /\ n.delayFill = m.delayFill /\ n.pauseFill = m.pauseFill
    BY <1>5, <2>2, <2>3 DEF Leavable, Left, Running, SameButTimers
  <2> QED BY <2>1, <2>4
<1>6. CASE m.state = "MotorError"
  <2> DEFINE n == Cancel(m, {"retryMotorInit"})
  <2>1. Exit(m) = n
    BY <1>6 DEF Exit
  <2>2. /\ SameButTimers(n, m)
        /\ \A u : Running(n, u) <=> u # "retryMotorInit" /\ Running(m, u)
    BY CancelFacts
  <2> HIDE DEF n
  <2>3. Left(n) /\ n.delayFill = m.delayFill /\ n.pauseFill = m.pauseFill
    BY <1>6, <2>2 DEF Leavable, Left, SameButTimers
  <2> QED BY <2>1, <2>3
<1>7. CASE m.state \in {"ThermistorFault", "IdleFill"}
  <2>1. Exit(m) = m
    BY <1>7 DEF Exit
  <2>2. Left(m)
    BY <1>7 DEF Leavable, Left, MotorVotes
  <2> QED BY <2>1, <2>2
<1> QED BY <1>1, <1>2, <1>3, <1>4, <1>5, <1>6, <1>7 DEF MakerStates

\* Where a transition may lead: to a thermistor fault while there is one, to
\* a pause only with a postponed fill, whose end is not delayed any further.
MayEnter(m, target, v) ==
    /\ target \in MakerStates
    /\ target = "ThermistorFault" => ~v
    /\ m.pauseFill => target \in {"Fill", "IdleFill"} /\ ~m.delayFill
    /\ target = "IdleFill" => m.pauseFill

\* What a signal may make of the ice maker: a delay that was not there is due
\* to a dispense that starts, and none outlasts its end.
Answered(m, n, signal, v) ==
    /\ Found(n, "none", v)
    /\ n.delayFill => \/ m.delayFill /\ signal # "DispensingInactive"
                      \/ signal = "DispensingActive"

\* Homing and an error of the motor.
LEMMA EnterHomingFacts ==
    ASSUME NEW m, Left(m), ~m.pauseFill
    PROVE  Answered(m, EnterHoming(m), "none", TRUE)
<1> DEFINE n == [m EXCEPT !.state = "Homing", !.motorVote = "Home"]
<1>1. m \in Maker
  BY DEF Left
<1>2. /\ n \in Maker /\ n.state = "Homing" /\ n.motorVote = "Home"
      /\ n.valve = m.valve /\ n.tubeHeater = m.tubeHeater
      /\ n.counting = m.counting /\ n.doorDelayElapsed = m.doorDelayElapsed
      /\ n.pauseFill = m.pauseFill /\ n.delayFill = m.delayFill
      /\ n.doorCheckElapsed = m.doorCheckElapsed
      /\ n.motorHarvested = m.motorHarvested /\ n.fill = m.fill
      /\ n.timers = m.timers
  BY <1>1 DEF Maker, MakerStates, MotorVotes
<1> HIDE DEF n
<1>3. Found(n, "none", TRUE) /\ n.delayFill = m.delayFill
  BY <1>2 DEF Left, Found, Leavable, Running
<1> QED BY <1>3 DEF EnterHoming, Answered, n

\* Freezing, with or without a request for the freezer's ice rate.
LEMMA EnterFreezeFacts ==
    ASSUME NEW m, NEW e, Left(m), ~m.pauseFill
    PROVE  Answered(m, EnterFreeze(m, e), "none", TRUE)
<1> DEFINE n == [m EXCEPT !.state = "Freeze", !.counting = TRUE]
<1>1. m \in Maker
  BY DEF Left
<1>2. /\ n \in Maker /\ n.state = "Freeze" /\ n.motorVote = m.motorVote
      /\ n.valve = m.valve /\ n.tubeHeater = m.tubeHeater
      /\ n.counting /\ n.doorDelayElapsed = m.doorDelayElapsed
      /\ n.pauseFill = m.pauseFill /\ n.delayFill = m.delayFill
      /\ n.doorCheckElapsed = m.doorCheckElapsed
      /\ n.motorHarvested = m.motorHarvested /\ n.fill = m.fill
      /\ n.timers = m.timers
  BY <1>1 DEF Maker, MakerStates
<1> DEFINE r == Start(n, "iceRate")
<1>3. EnterFreeze(m, e) = n \/ EnterFreeze(m, e) = r
  BY DEF EnterFreeze, SendFreezerIceRateSignal
<1> HIDE DEF n
<1>4. Found(n, "none", TRUE) /\ n.delayFill = m.delayFill
  BY <1>2 DEF Left, Found, Leavable, Running
<1>5. SameButTimers(r, n) /\ \A u : Running(r, u) <=> u = "iceRate" \/ Running(n, u)
  BY <1>2, StartFacts DEF MakerTimers
<1> HIDE DEF r
<1>6. Found(r, "none", TRUE) /\ r.delayFill = m.delayFill
  BY <1>4, <1>5 DEF Found, Leavable, SameButTimers
<1> QED BY <1>3, <1>4, <1>6 DEF Answered

\* A harvest: its heater is timed from the start.
LEMMA EnterHarvestingFacts ==
    ASSUME NEW m, Left(m), ~m.pauseFill
    PROVE  Answered(m, EnterHarvesting(m), "none", TRUE)
<1> DEFINE c == Start(m, "fillTubeHeater")
           n == [c EXCEPT !.state = "Harvesting", !.motorVote = "Run", !.tubeHeater = TRUE]
<1>1. m \in Maker
  BY DEF Left
<1>2. /\ SameButTimers(c, m)
      /\ \A u : Running(c, u) <=> u = "fillTubeHeater" \/ Running(m, u)
  BY <1>1, StartFacts DEF MakerTimers
<1>3. EnterHarvesting(m) = n
  BY DEF EnterHarvesting
<1> HIDE DEF c
<1>4. /\ n \in Maker /\ n.state = "Harvesting" /\ n.motorVote = "Run"
      /\ n.valve = c.valve /\ n.tubeHeater
      /\ n.counting = c.counting /\ n.doorDelayElapsed = c.doorDelayElapsed
      /\ n.pauseFill = c.pauseFill /\ n.delayFill = c.delayFill
      /\ n.doorCheckElapsed = c.doorCheckElapsed
      /\ n.motorHarvested = c.motorHarvested /\ n.fill = c.fill
      /\ n.timers = c.timers
  BY <1>2 DEF SameButTimers, Maker, MakerStates, MotorVotes
<1> HIDE DEF n
<1>5. Found(n, "none", TRUE) /\ n.delayFill = m.delayFill
  BY <1>2, <1>4 DEF Left, Found, Leavable, Running, SameButTimers
<1> QED BY <1>3, <1>5 DEF Answered

\* A full bucket, a motor that failed, a thermistor that failed, a fill that
\* waits: what the entry starts is what the state waits with.
LEMMA EnterWaitFacts ==
    ASSUME NEW m, NEW e, NEW target, Left(m), MayEnter(m, target, e.valid),
           target \in {"BucketIsFull", "MotorError", "ThermistorFault", "IdleFill"}
    PROVE  Answered(m, Enter(m, target, e), "none", e.valid)
<1>0. m \in Maker /\ m.pauseFill \in BOOLEAN /\ m.delayFill \in BOOLEAN
  BY MakerFields DEF Left
<1>1. CASE target = "BucketIsFull"
  <2> DEFINE c == Start(m, "fullBucketWait")
             n == [c EXCEPT !.state = target, !.full = TRUE]
  <2>1. Enter(m, target, e) = n
    BY <1>1 DEF Enter
  <2>2. /\ SameButTimers(c, m)
        /\ \A u : Running(c, u) <=> u = "fullBucketWait" \/ Running(m, u)
    BY <1>0, StartFacts DEF MakerTimers
  <2> HIDE DEF c
  <2>3. /\ n \in Maker /\ n.state = "BucketIsFull" /\ n.motorVote = c.motorVote
        /\ n.valve = c.valve /\ n.tubeHeater = c.tubeHeater
        /\ n.counting = c.counting /\ n.doorDelayElapsed = c.doorDelayElapsed
        /\ n.pauseFill = c.pauseFill /\ n.delayFill = c.delayFill
        /\ n.doorCheckElapsed = c.doorCheckElapsed
        /\ n.motorHarvested = c.motorHarvested /\ n.fill = c.fill
        /\ n.timers = c.timers
    BY <1>1, <2>2, ZenonT(120) DEF SameButTimers, Maker, MakerStates
  <2> HIDE DEF n
  <2>4. ~m.pauseFill
    BY <1>1 DEF MayEnter
  <2>5. Found(n, "none", e.valid) /\ n.delayFill = m.delayFill
    BY <2>2, <2>3, <2>4 DEF Left, Found, Leavable, Running, SameButTimers
  <2> QED BY <2>1, <2>5 DEF Answered
<1>2. CASE target = "MotorError"
  <2> DEFINE c == Start(m, "retryMotorInit")
             n == [c EXCEPT !.state = target, !.motorVote = "Off", !.motorFault = TRUE]
  <2>1. Enter(m, target, e) = n
    BY <1>2 DEF Enter
  <2>2. /\ SameButTimers(c, m)
        /\ \A u : Running(c, u) <=> u = "retryMotorInit" \/ Running(m, u)
    BY <1>0, StartFacts DEF MakerTimers
  <2> HIDE DEF c
  <2>3. /\ n \in Maker /\ n.state = "MotorError" /\ n.motorVote = "Off"
        /\ n.valve = c.valve /\ n.tubeHeater = c.tubeHeater
        /\ n.counting = c.counting /\ n.doorDelayElapsed = c.doorDelayElapsed
        /\ n.pauseFill = c.pauseFill /\ n.delayFill = c.delayFill
        /\ n.doorCheckElapsed = c.doorCheckElapsed
        /\ n.motorHarvested = c.motorHarvested /\ n.fill = c.fill
        /\ n.timers = c.timers
    BY <1>2, <2>2, ZenonT(120) DEF SameButTimers, Maker, MakerStates, MotorVotes
  <2> HIDE DEF n
  <2>4. ~m.pauseFill
    BY <1>2 DEF MayEnter
  <2>5. Found(n, "none", e.valid) /\ n.delayFill = m.delayFill
    BY <2>2, <2>3, <2>4 DEF Left, Found, Leavable, Running, SameButTimers
  <2> QED BY <2>1, <2>5 DEF Answered
<1>3. CASE target \in {"ThermistorFault", "IdleFill"}
  <2> DEFINE n == [m EXCEPT !.state = target]
  <2>1. Enter(m, target, e) = n
    BY <1>3 DEF Enter, EnterIdleFill
  <2>2. /\ n \in Maker /\ n.state = target /\ n.motorVote = m.motorVote
        /\ n.valve = m.valve /\ n.tubeHeater = m.tubeHeater
        /\ n.counting = m.counting /\ n.doorDelayElapsed = m.doorDelayElapsed
        /\ n.pauseFill = m.pauseFill /\ n.delayFill = m.delayFill
        /\ n.doorCheckElapsed = m.doorCheckElapsed
        /\ n.motorHarvested = m.motorHarvested /\ n.fill = m.fill
        /\ n.timers = m.timers
    BY <1>0, <1>3 DEF Maker, MakerStates
  <2> HIDE DEF n
  <2>3. Found(n, "none", e.valid) /\ n.delayFill = m.delayFill
    BY <1>0, <1>3, <2>2 DEF Left, Found, Leavable, Running, MayEnter
  <2> QED BY <2>1, <2>3 DEF Answered
<1> QED BY <1>1, <1>2, <1>3

\* A fill that starts or goes on is monitored; one that may not start waits.
LEMMA EnterFillFacts ==
    ASSUME NEW m, NEW e, Left(m), m.pauseFill => ~m.delayFill
    PROVE  Answered(m, EnterFill(m, e), "none", TRUE)
<1> DEFINE f == [m EXCEPT !.state = "Fill"]
<1>0. m \in Maker /\ m.pauseFill \in BOOLEAN /\ m.delayFill \in BOOLEAN
      /\ m.fill \in Monitor
  BY MakerFields DEF Left
<1>1. /\ f \in Maker /\ f.state = "Fill" /\ f.motorVote = m.motorVote
      /\ f.valve = m.valve /\ f.tubeHeater = m.tubeHeater
      /\ f.counting = m.counting /\ f.doorDelayElapsed = m.doorDelayElapsed
      /\ f.pauseFill = m.pauseFill /\ f.delayFill = m.delayFill
      /\ f.doorCheckElapsed = m.doorCheckElapsed
      /\ f.motorHarvested = m.motorHarvested /\ f.fill = m.fill
      /\ f.timers = m.timers
  BY <1>0 DEF Maker, MakerStates
<1>2. CASE m.pauseFill
  <2> DEFINE s == SetWaterFillMonitoringRequestTo(f, "Resume")
             n == [s EXCEPT !.pauseFill = FALSE]
  <2>1. EnterFill(m, e) = n
    BY <1>2 DEF EnterFill
  <2> HIDE DEF f
  <2>2. SameButFill(s, f) /\ s.fill = RequestMonitor(f.fill, "Resume")
    BY <1>1, SetRequestFacts DEF MonitorRequests
  <2>3. m.fill.request = "Pause" /\ m.fill.maxFill = "paused"
    BY <1>2 DEF Left, Postponed
  <2>4. /\ RequestMonitor(m.fill, "Resume").request = "Resume"
        /\ RequestMonitor(m.fill, "Resume").maxFill = "running"
        /\ RequestMonitor(m.fill, "Resume").listening
    BY <1>0, <2>3, RequestFacts DEF MonitorRequests
  <2> HIDE DEF s
  <2>5. /\ n \in Maker /\ n.state = s.state /\ n.motorVote = s.motorVote
        /\ n.valve = s.valve /\ n.tubeHeater = s.tubeHeater
        /\ n.counting = s.counting /\ n.doorDelayElapsed = s.doorDelayElapsed
        /\ ~n.pauseFill /\ n.delayFill = s.delayFill
        /\ n.doorCheckElapsed = s.doorCheckElapsed
        /\ n.motorHarvested = s.motorHarvested /\ n.fill = s.fill
        /\ n.timers = s.timers
    BY <2>2 DEF SameButFill, Maker
  <2> HIDE DEF n
  <2>6. n.fill.request = "Resume" /\ n.fill.maxFill = "running" /\ n.fill.listening
    BY <1>1, <2>2, <2>4, <2>5
  <2>7. Found(n, "none", TRUE) /\ n.delayFill = m.delayFill
    BY <1>1, <1>2, <2>2, <2>5, <2>6
       DEF Left, Found, Leavable, Running, SameButFill
  <2> QED BY <2>1, <2>7 DEF Answered
<1>3. CASE ~m.pauseFill /\ (m.delayFill \/ e.inhibited)
  <2> DEFINE d == [f EXCEPT !.delayFill = FALSE]
             c == Cancel(d, {"fullBucketWait"})
             s == SetWaterFillMonitoringRequestTo(c, "Stop")
             x == [s EXCEPT !.valve = FALSE]
             n == [x EXCEPT !.state = "IdleFill"]
  <2> HIDE DEF f
  <2>1. /\ d \in Maker /\ d.state = "Fill" /\ d.motorVote = m.motorVote
        /\ d.valve = m.valve /\ d.tubeHeater = m.tubeHeater
        /\ d.counting = m.counting /\ d.doorDelayElapsed = m.doorDelayElapsed
        /\ ~d.pauseFill /\ ~d.delayFill
        /\ d.doorCheckElapsed = m.doorCheckElapsed
        /\ d.motorHarvested = m.motorHarvested /\ d.fill = m.fill
        /\ d.timers = m.timers
    BY <1>1, <1>3 DEF Maker
  <2>2. EnterFill(m, e) = EnterIdleFill(Exit(d))
    BY <1>3 DEF EnterFill, f
  <2> HIDE DEF d
  <2>3. Exit(d) = x
    BY <2>1 DEF Exit
  <2>4. /\ SameButTimers(c, d)
        /\ \A u : Running(c, u) <=> u # "fullBucketWait" /\ Running(d, u)
    BY <2>1, CancelFacts
  <2> HIDE DEF c
  <2>5. c \in Maker /\ c.fill = m.fill
    BY <2>1, <2>4 DEF SameButTimers
  <2>6. SameButFill(s, c) /\ s.fill = RequestMonitor(c.fill, "Stop")
    BY <2>5, SetRequestFacts DEF MonitorRequests
  <2>7. RequestMonitor(m.fill, "Stop").request = "Stop"
    BY <1>0, RequestFacts DEF MonitorRequests
  <2> HIDE DEF s
  <2>8. /\ x \in Maker /\ x.motorVote = s.motorVote
        /\ ~x.valve /\ x.tubeHeater = s.tubeHeater
        /\ x.counting = s.counting /\ x.doorDelayElapsed = s.doorDelayElapsed
        /\ x.pauseFill = s.pauseFill /\ x.delayFill = s.delayFill
        /\ x.doorCheckElapsed = s.doorCheckElapsed
        /\ x.motorHarvested = s.motorHarvested /\ x.fill = s.fill
        /\ x.timers = s.timers
    BY <2>6 DEF SameButFill, Maker
  <2> HIDE DEF x
  <2>9. /\ n \in Maker /\ n.state = "IdleFill" /\ n.motorVote = x.motorVote
        /\ n.valve = x.valve /\ n.tubeHeater = x.tubeHeater
        /\ n.counting = x.counting /\ n.doorDelayElapsed = x.doorDelayElapsed
        /\ n.pauseFill = x.pauseFill /\ n.delayFill = x.delayFill
        /\ n.doorCheckElapsed = x.doorCheckElapsed
        /\ n.motorHarvested = x.motorHarvested /\ n.fill = x.fill
        /\ n.timers = x.timers
    BY <2>8 DEF Maker, MakerStates
  <2>10. EnterFill(m, e) = n
    BY <2>2, <2>3 DEF EnterIdleFill
  <2> HIDE DEF n
  <2>11. n.fill.request = "Stop"
    BY <2>5, <2>6, <2>7, <2>8, <2>9
  <2>12. /\ ~n.pauseFill /\ ~n.delayFill /\ ~n.valve
         /\ n.tubeHeater = m.tubeHeater /\ n.motorVote = m.motorVote
         /\ n.counting = m.counting /\ n.doorDelayElapsed = m.doorDelayElapsed
         /\ n.doorCheckElapsed = m.doorCheckElapsed
         /\ n.motorHarvested = m.motorHarvested
         /\ \A u : Running(n, u) => Running(m, u)
    BY <2>1, <2>4, <2>6, <2>8, <2>9 DEF SameButTimers, SameButFill, Running
  <2>13. Found(n, "none", TRUE)
    BY <2>9, <2>11, <2>12 DEF Left, Found, Leavable
  <2> QED BY <2>10, <2>12, <2>13 DEF Answered
<1>4. CASE ~m.pauseFill /\ ~(m.delayFill \/ e.inhibited)
  <2> DEFINE w == [f EXCEPT !.valve = TRUE]
             n == SetWaterFillMonitoringRequestTo(w, "Start")
  <2>1. EnterFill(m, e) = n
    BY <1>4 DEF EnterFill
  <2> HIDE DEF f
  <2>2. /\ w \in Maker /\ w.state = "Fill" /\ w.motorVote = m.motorVote
        /\ w.valve /\ w.tubeHeater = m.tubeHeater
        /\ w.counting = m.counting /\ w.doorDelayElapsed = m.doorDelayElapsed
        /\ w.pauseFill = m.pauseFill /\ w.delayFill = m.delayFill
        /\ w.doorCheckElapsed = m.doorCheckElapsed
        /\ w.motorHarvested = m.motorHarvested /\ w.fill = m.fill
        /\ w.timers = m.timers
    BY <1>1 DEF Maker
  <2> HIDE DEF w
  <2>3. SameButFill(n, w) /\ n.fill = RequestMonitor(w.fill, "Start")
    BY <2>2, SetRequestFacts DEF MonitorRequests
  <2>4. m.fill.request # "Start"
    BY DEF Left
  <2>5. /\ RequestMonitor(m.fill, "Start").request = "Start"
        /\ RequestMonitor(m.fill, "Start").maxFill = "running"
        /\ RequestMonitor(m.fill, "Start").listening
    BY <1>0, <2>4, RequestFacts DEF MonitorRequests
  <2> HIDE DEF n
  <2>6. n.fill.request = "Start" /\ n.fill.maxFill = "running" /\ n.fill.listening
    BY <2>2, <2>3, <2>5
  <2>7. Found(n, "none", TRUE) /\ n.delayFill = m.delayFill
    BY <1>4, <2>2, <2>3, <2>6
       DEF Left, Found, Leavable, Running, SameButFill
  <2> QED BY <2>1, <2>7 DEF Answered
<1> QED BY <1>0, <1>2, <1>3, <1>4

\* What holds of a valid thermistor holds outside its fault.
LEMMA AnsweredAnyway ==
    ASSUME NEW m, NEW n, NEW v, Answered(m, n, "none", TRUE)
    PROVE  Answered(m, n, "none", v)
BY DEF Answered, Found

\* A transition leads from what may be left to what the next signal finds.
LEMMA TransitionFacts ==
    ASSUME NEW m \in Maker, NEW e, NEW target,
           Leavable(m), MayEnter(m, target, e.valid)
    PROVE  Answered(m, Transition(m, target, e), "none", e.valid)
<1> DEFINE x == Exit(m)
<1>1. Left(x) /\ x.delayFill = m.delayFill /\ x.pauseFill = m.pauseFill
  BY ExitFacts
<1>2. Transition(m, target, e) = Enter(x, target, e)
  BY DEF Transition
<1> HIDE DEF x
<1>3. MayEnter(x, target, e.valid)
  BY <1>1 DEF MayEnter
<1>4. Answered(x, Enter(x, target, e), "none", e.valid)
  <2>1. CASE target = "Homing"
    <3>1. ~x.pauseFill
      BY <1>3, <2>1 DEF MayEnter
    <3>2. Enter(x, target, e) = EnterHoming(x)
      BY <2>1 DEF Enter
    <3> QED BY <1>1, <3>1, <3>2, EnterHomingFacts, AnsweredAnyway
  <2>2. CASE target = "Freeze"
    <3>1. ~x.pauseFill
      BY <1>3, <2>2 DEF MayEnter
    <3>2. Enter(x, target, e) = EnterFreeze(x, e)
      BY <2>2 DEF Enter
    <3> QED BY <1>1, <3>1, <3>2, EnterFreezeFacts, AnsweredAnyway
  <2>3. CASE target = "Harvesting"
    <3>1. ~x.pauseFill
      BY <1>3, <2>3 DEF MayEnter
    <3>2. Enter(x, target, e) = EnterHarvesting(x)
      BY <2>3 DEF Enter
    <3> QED BY <1>1, <3>1, <3>2, EnterHarvestingFacts, AnsweredAnyway
  <2>4. CASE target = "Fill"
    <3>1. x.pauseFill => ~x.delayFill
      BY <1>3 DEF MayEnter
    <3>2. Enter(x, target, e) = EnterFill(x, e)
      BY <2>4 DEF Enter
    <3> QED BY <1>1, <3>1, <3>2, EnterFillFacts, AnsweredAnyway
  <2>5. CASE target \in {"BucketIsFull", "MotorError", "ThermistorFault", "IdleFill"}
    BY <1>1, <1>3, <2>5, EnterWaitFacts
  <2> QED BY <1>3, <2>1, <2>2, <2>3, <2>4, <2>5 DEF MayEnter, MakerStates
<1> QED BY <1>1, <1>2, <1>4 DEF Answered

-----------------------------------------------------------------------------
(***************************************************************************)
(* The states' functions.                                                  *)
(***************************************************************************)
\* The choice between a state and the thermistor fault.
LEMMA ChoiceFacts ==
    ASSUME NEW m \in Maker, NEW e, NEW target \in MakerStates, e.valid \in BOOLEAN,
           Leavable(m), ~m.pauseFill, target \notin {"IdleFill", "ThermistorFault"}
    PROVE  Answered(m, TransitionIfThermistorIsValid(m, target, e), "none", e.valid)
<1> DEFINE t == IF e.valid THEN target ELSE "ThermistorFault"
<1>1. MayEnter(m, t, e.valid)
  BY DEF MayEnter, MakerStates
<1>2. TransitionIfThermistorIsValid(m, target, e) = Transition(m, t, e)
  BY DEF TransitionIfThermistorIsValid
<1> HIDE DEF t
<1> QED BY <1>1, <1>2, TransitionFacts

\* A dispense that starts or ends outside a fill.
LEMMA DispensingFacts ==
    ASSUME NEW m, NEW signal, NEW v, Found(m, "none", v),
           m.state \notin {"Fill", "IdleFill"}
    PROVE  Answered(m, DispensingSignal(m, signal), signal, v)
<1>0. m \in Maker
  BY DEF Found, Leavable
<1> DEFINE n(b) == [m EXCEPT !.delayFill = b]
<1>1. ASSUME NEW b \in BOOLEAN
      PROVE  Found(n(b), "none", v) /\ (n(b).delayFill => b)
  <2> DEFINE x == n(b)
  <2>1. /\ x \in Maker /\ x.state = m.state /\ x.motorVote = m.motorVote
        /\ x.valve = m.valve /\ x.tubeHeater = m.tubeHeater
        /\ x.counting = m.counting /\ x.doorDelayElapsed = m.doorDelayElapsed
        /\ x.pauseFill = m.pauseFill /\ (x.delayFill => b)
        /\ x.doorCheckElapsed = m.doorCheckElapsed
        /\ x.motorHarvested = m.motorHarvested /\ x.fill = m.fill
        /\ x.timers = m.timers
    BY <1>0 DEF Maker
  <2> HIDE DEF x
  <2>2. Found(x, "none", v)
    BY <2>1 DEF Found, Leavable, Running
  <2> QED BY <2>1, <2>2 DEF x
<1>2. CASE signal = "DispensingActive"
  <2>1. DispensingSignal(m, signal) = n(TRUE)
    BY <1>2 DEF DispensingSignal
  <2> HIDE DEF n
  <2> QED BY <1>1, <1>2, <2>1 DEF Answered
<1>3. CASE signal = "DispensingInactive"
  <2>1. DispensingSignal(m, signal) = n(FALSE)
    BY <1>3 DEF DispensingSignal
  <2>2. Found(n(FALSE), "none", v) /\ ~n(FALSE).delayFill
    BY <1>1
  <2> HIDE DEF n
  <2> QED BY <2>1, <2>2 DEF Answered
<1>4. CASE signal \notin {"DispensingActive", "DispensingInactive"}
  BY <1>4 DEF DispensingSignal, Answered
<1> QED BY <1>2, <1>3, <1>4

\* Any other signal answers as none would.
LEMMA OtherSignal ==
    ASSUME NEW m, NEW n, NEW signal, NEW v, Answered(m, n, "none", v),
           signal # "DispensingInactive"
    PROVE  Answered(m, n, signal, v)
BY DEF Answered

\* A signal finds what none would find, unless its state has waited for it.
LEMMA PlainSignal ==
    ASSUME NEW m, NEW signal, NEW v, Found(m, signal, v),
           m.state = "Harvesting" => signal # "FillTubeHeaterTimerExpired",
           m.state = "MotorError" => signal # "MotorErrorRetryTimerExpired",
           m.state = "BucketIsFull" => signal # "FullBucketWaitElapsed",
           m.state = "ThermistorFault" => signal # "ThermistorIsValid",
           m.state = "Fill" => signal # "TrayFilled"
    PROVE  Found(m, "none", v)
BY DEF Found, Leavable

\* Homing ends with a result, or hears of a dispense.
LEMMA HomingFacts ==
    ASSUME NEW m, NEW signal, NEW e, e.valid \in BOOLEAN,
           Found(m, signal, e.valid), m.state = "Homing"
    PROVE  Answered(m, Homing(m, signal, e), signal, e.valid)
<1>0. m \in Maker /\ Leavable(m) /\ ~m.pauseFill
  BY MakerFields DEF Found, Leavable
<1>1. CASE signal = "Homed"
  BY <1>0, <1>1, ChoiceFacts, OtherSignal DEF Homing, MakerStates
<1>2. CASE signal = "MotorError"
  <2>1. MayEnter(m, "MotorError", e.valid)
    BY <1>0 DEF MayEnter, MakerStates
  <2> QED BY <1>0, <1>2, <2>1, TransitionFacts, OtherSignal DEF Homing
<1>3. CASE signal \notin {"Homed", "MotorError"}
  <2>1. Found(m, "none", e.valid)
    BY PlainSignal
  <2>2. Homing(m, signal, e) = DispensingSignal(m, signal)
    BY <1>3 DEF Homing
  <2> QED BY <2>1, <2>2, DispensingFacts
<1> QED BY <1>1, <1>2, <1>3

\* Freeze goes on to a harvest, a fill or the fault, or delays its harvest.
LEMMA FreezeFacts ==
    ASSUME NEW m, NEW signal, NEW e, e.valid \in BOOLEAN,
           Found(m, signal, e.valid), m.state = "Freeze",
           signal = "ThermistorIsInvalid" => ~e.valid
    PROVE  Answered(m, Freeze(m, signal, e), signal, e.valid)
<1>0. m \in Maker /\ Leavable(m) /\ ~m.pauseFill
  BY MakerFields DEF Found, Leavable
<1>1. Found(m, "none", e.valid)
  BY PlainSignal
<1>2. ASSUME NEW target \in {"Harvesting", "Fill"}
      PROVE  Answered(m, Transition(m, target, e), "none", e.valid)
  <2>1. MayEnter(m, target, e.valid)
    BY <1>0 DEF MayEnter, MakerStates
  <2> QED BY <1>0, <2>1, TransitionFacts
<1>3. Answered(m, m, "none", e.valid)
  BY <1>1 DEF Answered
<1>4. CASE signal = "DoorOpened"
  <2> DEFINE c == Start(m, "doorHarvestDelay")
             n == [c EXCEPT !.doorDelayElapsed = FALSE]
  <2>1. Freeze(m, signal, e) = n
    BY <1>4 DEF Freeze, FreezeSignals
  <2>2. /\ SameButTimers(c, m)
        /\ \A u : Running(c, u) <=> u = "doorHarvestDelay" \/ Running(m, u)
    BY <1>0, StartFacts DEF MakerTimers
  <2> HIDE DEF c
  <2>3. /\ n \in Maker /\ n.state = c.state /\ n.motorVote = c.motorVote
        /\ n.valve = c.valve /\ n.tubeHeater = c.tubeHeater
        /\ n.counting = c.counting /\ ~n.doorDelayElapsed
        /\ n.pauseFill = c.pauseFill /\ n.delayFill = c.delayFill
        /\ n.doorCheckElapsed = c.doorCheckElapsed
        /\ n.motorHarvested = c.motorHarvested /\ n.fill = c.fill
        /\ n.timers = c.timers
    BY <2>2 DEF SameButTimers, Maker
  <2> HIDE DEF n
  <2>4. Found(n, "none", e.valid) /\ n.delayFill = m.delayFill
    BY <1>1, <2>2, <2>3 DEF Found, Leavable, Running, SameButTimers
  <2> QED BY <1>4, <2>1, <2>4 DEF Answered
<1>5. CASE signal \in FreezeSignals /\ MayMakeIce(e)
  <2> DEFINE r == SendFreezerIceRateSignal(m)
  <2>1. \/ Freeze(m, signal, e) = Transition(m, "Harvesting", e)
        \/ Freeze(m, signal, e) = r \/ Freeze(m, signal, e) = m
    BY <1>5 DEF Freeze, FreezeSignals
  <2>2. SameButTimers(r, m) /\ \A u : Running(r, u) <=> u = "iceRate" \/ Running(m, u)
    BY <1>0, StartFacts DEF MakerTimers, SendFreezerIceRateSignal
  <2> HIDE DEF r
  <2>3. Answered(m, r, "none", e.valid)
    BY <1>1, <2>2 DEF Found, Leavable, Running, SameButTimers, Answered
  <2>4. signal # "DispensingInactive"
    BY <1>5 DEF FreezeSignals
  <2> QED BY <1>2, <1>3, <2>1, <2>3, <2>4, OtherSignal
<1>6. CASE signal = "ThermistorIsInvalid"
  <2>1. MayEnter(m, "ThermistorFault", e.valid)
    BY <1>0, <1>6 DEF MayEnter, MakerStates
  <2>2. Freeze(m, signal, e) = Transition(m, "ThermistorFault", e)
    BY <1>6 DEF Freeze, FreezeSignals
  <2> QED BY <1>0, <1>6, <2>1, <2>2, TransitionFacts, OtherSignal
<1>7. CASE signal \in {"TestFill", "TestHarvest"}
  <2>1. \/ Freeze(m, signal, e) = Transition(m, "Fill", e)
        \/ Freeze(m, signal, e) = Transition(m, "Harvesting", e)
    BY <1>7 DEF Freeze, FreezeSignals
  <2> QED BY <1>2, <1>7, <2>1, OtherSignal
<1>8. CASE /\ signal \notin {"DoorOpened", "ThermistorIsInvalid", "TestFill", "TestHarvest"}
           /\ ~(signal \in FreezeSignals /\ MayMakeIce(e))
  <2>1. Freeze(m, signal, e) = DispensingSignal(m, signal)
    BY <1>8 DEF Freeze
  <2> QED BY <1>1, <2>1, DispensingFacts
<1> QED BY <1>4, <1>5, <1>6, <1>7, <1>8

\* A harvest ends when both the movement and the heater's time have ended.
LEMMA HarvestingFacts ==
    ASSUME NEW m, NEW signal, NEW e, e.valid \in BOOLEAN,
           Found(m, signal, e.valid), m.state = "Harvesting"
    PROVE  Answered(m, Harvesting(m, signal, e), signal, e.valid)
<1>0. m \in Maker /\ Leavable(m) /\ ~m.pauseFill
  BY MakerFields DEF Found, Leavable
<1>1. CASE signal = "FillTubeHeaterTimerExpired"
  <2> DEFINE n == [m EXCEPT !.tubeHeater = FALSE]
             k == TransitionIfThermistorIsValid(n, "Fill", e)
  <2>1. Harvesting(m, signal, e) = IF m.motorHarvested THEN k ELSE n
    BY <1>1 DEF Harvesting, FillTubeHeaterTimerExpired
  <2>2. /\ n \in Maker /\ n.state = m.state /\ n.motorVote = m.motorVote
        /\ n.valve = m.valve /\ ~n.tubeHeater
        /\ n.counting = m.counting /\ n.doorDelayElapsed = m.doorDelayElapsed
        /\ n.pauseFill = m.pauseFill /\ n.delayFill = m.delayFill
        /\ n.doorCheckElapsed = m.doorCheckElapsed
        /\ n.motorHarvested = m.motorHarvested /\ n.fill = m.fill
        /\ n.timers = m.timers
    BY <1>0 DEF Maker
  <2> HIDE DEF n
  <2>3. Found(n, "none", e.valid)
    BY <2>2 DEF Found, Leavable, Running
  <2>4. Leavable(n) /\ ~n.pauseFill
    BY <1>0, <2>2, <2>3 DEF Found
  <2>5. Answered(n, k, "none", e.valid)
    BY <2>2, <2>4, ChoiceFacts DEF MakerStates
  <2> HIDE DEF k
  <2>6. Answered(m, k, "none", e.valid) /\ Answered(m, n, "none", e.valid)
    BY <2>2, <2>3, <2>5 DEF Answered
  <2> QED BY <1>1, <2>1, <2>6, OtherSignal
<1>2. CASE signal = "Harvested"
  <2> DEFINE n == [m EXCEPT !.motorHarvested = TRUE, !.motorVote = "Off", !.full = FALSE]
             k == TransitionIfThermistorIsValid(n, "Fill", e)
  <2>1. Harvesting(m, signal, e) = IF Running(m, "fillTubeHeater") THEN n ELSE k
    BY <1>2 DEF Harvesting
  <2>2. /\ n \in Maker /\ n.state = m.state /\ n.motorVote = "Off"
        /\ n.valve = m.valve /\ n.tubeHeater = m.tubeHeater
        /\ n.counting = m.counting /\ n.doorDelayElapsed = m.doorDelayElapsed
        /\ n.pauseFill = m.pauseFill /\ n.delayFill = m.delayFill
        /\ n.doorCheckElapsed = m.doorCheckElapsed
        /\ n.motorHarvested /\ n.fill = m.fill
        /\ n.timers = m.timers
    BY <1>0 DEF Maker, MotorVotes
  <2> HIDE DEF n
  <2>3. Found(n, "none", e.valid)
    BY <1>2, <2>2 DEF Found, Leavable, Running
  <2>4. Leavable(n) /\ ~n.pauseFill
    BY <1>0, <2>2, <2>3 DEF Found
  <2>5. Answered(n, k, "none", e.valid)
    BY <2>2, <2>4, ChoiceFacts DEF MakerStates
  <2> HIDE DEF k
  <2>6. Answered(m, k, "none", e.valid) /\ Answered(m, n, "none", e.valid)
    BY <2>2, <2>3, <2>5 DEF Answered
  <2> QED BY <1>2, <2>1, <2>6, OtherSignal
<1>3. CASE signal = "BucketWasFull"
  <2> DEFINE t == IF e.enabled THEN "BucketIsFull" ELSE "Freeze"
  <2>1. t \in MakerStates /\ t \notin {"IdleFill", "ThermistorFault"}
    BY DEF MakerStates
  <2>2. Harvesting(m, signal, e) = TransitionIfThermistorIsValid(m, t, e)
    BY <1>3 DEF Harvesting
  <2> HIDE DEF t
  <2> QED BY <1>0, <1>3, <2>1, <2>2, ChoiceFacts, OtherSignal
<1>4. CASE signal = "MotorError"
  BY <1>0, <1>4, ChoiceFacts, OtherSignal DEF Harvesting, MakerStates
<1>5. CASE signal = "TestFill" /\ m.motorHarvested
  <2>1. MayEnter(m, "Fill", e.valid)
    BY <1>0 DEF MayEnter, MakerStates
  <2>2. Harvesting(m, signal, e) = Transition(m, "Fill", e)
    BY <1>5 DEF Harvesting
  <2> QED BY <1>0, <1>5, <2>1, <2>2, TransitionFacts, OtherSignal
<1>6. CASE /\ signal \notin {"FillTubeHeaterTimerExpired", "Harvested", "BucketWasFull",
                              "MotorError"}
           /\ ~(signal = "TestFill" /\ m.motorHarvested)
  <2>1. Found(m, "none", e.valid)
    BY <1>6, PlainSignal
  <2>2. Harvesting(m, signal, e) = DispensingSignal(m, signal)
    BY <1>6 DEF Harvesting
  <2> QED BY <2>1, <2>2, DispensingFacts
<1> QED BY <1>1, <1>2, <1>3, <1>4, <1>5, <1>6

\* A fill ends, is postponed with its timers paused, or gives way to a test.
LEMMA FillingFacts ==
    ASSUME NEW m, NEW signal, NEW e, e.valid \in BOOLEAN,
           Found(m, signal, e.valid), m.state = "Fill"
    PROVE  Answered(m, Filling(m, signal, e), signal, e.valid)
<1>0. /\ m \in Maker /\ Leavable(m) /\ ~m.pauseFill /\ ~m.delayFill
  BY MakerFields DEF Found, Leavable
<1>1. CASE signal = "TrayFilled"
  BY <1>0, <1>1, ChoiceFacts, OtherSignal DEF Filling, MakerStates
<1>2. CASE signal \in {"DispensingActive", "FillIsInhibited"}
  <2> DEFINE n == [m EXCEPT !.pauseFill = TRUE]
  <2>1. Filling(m, signal, e) = Transition(n, "IdleFill", e)
    BY <1>2 DEF Filling
  <2>2. /\ n \in Maker /\ n.state = m.state /\ n.motorVote = m.motorVote
        /\ n.valve = m.valve /\ n.tubeHeater = m.tubeHeater
        /\ n.counting = m.counting /\ n.doorDelayElapsed = m.doorDelayElapsed
        /\ n.pauseFill /\ n.delayFill = m.delayFill
        /\ n.doorCheckElapsed = m.doorCheckElapsed
        /\ n.motorHarvested = m.motorHarvested /\ n.fill = m.fill
        /\ n.timers = m.timers
    BY <1>0 DEF Maker
  <2> HIDE DEF n
  <2>3. m.fill.maxFill = "running"
    BY <1>2 DEF Found
  <2>4. Leavable(n)
    BY <1>0, <2>2, <2>3 DEF Leavable, Running
  <2>5. MayEnter(n, "IdleFill", e.valid)
    BY <1>0, <2>2 DEF MayEnter, MakerStates
  <2>6. Answered(n, Transition(n, "IdleFill", e), "none", e.valid)
    BY <2>2, <2>4, <2>5, TransitionFacts
  <2> QED BY <1>0, <1>2, <2>1, <2>2, <2>6 DEF Answered
<1>3. CASE signal = "TestHarvest"
  <2>1. MayEnter(m, "Harvesting", e.valid)
    BY <1>0 DEF MayEnter, MakerStates
  <2>2. Filling(m, signal, e) = Transition(m, "Harvesting", e)
    BY <1>3 DEF Filling
  <2> QED BY <1>0, <1>3, <2>1, <2>2, TransitionFacts, OtherSignal
<1>4. CASE signal \notin {"TrayFilled", "DispensingActive", "FillIsInhibited", "TestHarvest"}
  <2>1. Filling(m, signal, e) = m
    BY <1>4 DEF Filling
  <2>2. Found(m, "none", e.valid)
    BY <1>4, PlainSignal
  <2> QED BY <1>0, <2>1, <2>2 DEF Answered
<1> QED BY <1>1, <1>2, <1>3, <1>4

\* A full bucket is left for a harvest, for Freeze, for a fill or for the fault.
LEMMA BucketIsFullFacts ==
    ASSUME NEW m, NEW signal, NEW e, e.valid \in BOOLEAN,
           Found(m, signal, e.valid), m.state = "BucketIsFull",
           signal = "ThermistorIsInvalid" => ~e.valid
    PROVE  Answered(m, BucketIsFull(m, signal, e), signal, e.valid)
<1>0. m \in Maker /\ Leavable(m) /\ ~m.pauseFill
  BY MakerFields DEF Found, Leavable
<1>1. ASSUME NEW target \in {"Harvesting", "Fill", "Freeze"}
      PROVE  Answered(m, Transition(m, target, e), "none", e.valid)
  <2>1. MayEnter(m, target, e.valid)
    BY <1>0 DEF MayEnter, MakerStates
  <2> QED BY <1>0, <2>1, TransitionFacts
<1>2. CASE signal = "IceHasStoppedDispensing" /\ m.icedLongEnough
  <2> DEFINE n == [m EXCEPT !.icedLongEnough = FALSE]
  <2>1. BucketIsFull(m, signal, e) = Transition(n, "Harvesting", e)
    BY <1>2 DEF BucketIsFull
  <2>2. /\ n \in Maker /\ n.state = m.state /\ n.motorVote = m.motorVote
        /\ n.valve = m.valve /\ n.tubeHeater = m.tubeHeater
        /\ n.counting = m.counting /\ n.doorDelayElapsed = m.doorDelayElapsed
        /\ n.pauseFill = m.pauseFill /\ n.delayFill = m.delayFill
        /\ n.doorCheckElapsed = m.doorCheckElapsed
        /\ n.motorHarvested = m.motorHarvested /\ n.fill = m.fill
        /\ n.timers = m.timers
    BY <1>0 DEF Maker
  <2> HIDE DEF n
  <2>3. Leavable(n)
    BY <1>0, <2>2 DEF Leavable, Running
  <2>4. MayEnter(n, "Harvesting", e.valid)
    BY <1>0, <2>2 DEF MayEnter, MakerStates
  <2>5. Answered(n, Transition(n, "Harvesting", e), "none", e.valid)
    BY <2>2, <2>3, <2>4, TransitionFacts
  <2> QED BY <1>2, <2>1, <2>2, <2>5 DEF Answered
<1>3. CASE signal = "DoorOpened"
  <2> DEFINE n == Start(m, "doorOpenCheck")
  <2>1. BucketIsFull(m, signal, e) = n
    BY <1>3 DEF BucketIsFull
  <2>2. SameButTimers(n, m) /\ \A u : Running(n, u) <=> u = "doorOpenCheck" \/ Running(m, u)
    BY <1>0, StartFacts DEF MakerTimers
  <2> HIDE DEF n
  <2>3. Answered(m, n, "none", e.valid)
    BY <1>3, <2>2 DEF Found, Leavable, SameButTimers, Answered
  <2> QED BY <1>3, <2>1, <2>3, OtherSignal
<1>4. CASE signal = "DoorClosed"
  <2> DEFINE n == Cancel(m, {"doorOpenCheck"})
             k == Transition(n, "Harvesting", e)
  <2>1. BucketIsFull(m, signal, e) = IF m.doorCheckElapsed THEN k ELSE n
    BY <1>4 DEF BucketIsFull, DoorClosed
  <2>2. SameButTimers(n, m) /\ \A u : Running(n, u) <=> u # "doorOpenCheck" /\ Running(m, u)
    BY <1>0, CancelFacts
  <2> HIDE DEF n
  <2>3. Found(n, "none", e.valid)
    BY <1>4, <2>2 DEF Found, Leavable, SameButTimers
  <2>4. n \in Maker /\ Leavable(n) /\ MayEnter(n, "Harvesting", e.valid)
    BY <1>0, <2>2, <2>3 DEF Found, SameButTimers, MayEnter, MakerStates
  <2>5. Answered(n, k, "none", e.valid)
    BY <2>4, TransitionFacts
  <2> HIDE DEF k
  <2>6. Answered(m, k, "none", e.valid) /\ Answered(m, n, "none", e.valid)
    BY <2>2, <2>3, <2>5 DEF Answered, SameButTimers
  <2> QED BY <1>4, <2>1, <2>6, OtherSignal
<1>5. CASE \/ signal \in {"FullBucketWaitElapsed", "TestHarvest", "TestFill",
                           "SabbathModeEnabled", "Disabled"}
           \/ signal = "TemperatureChanged" /\ e.warm
  <2>1. \E target \in {"Harvesting", "Fill", "Freeze"} :
           BucketIsFull(m, signal, e) = Transition(m, target, e)
    BY <1>5 DEF BucketIsFull
  <2>2. signal # "DispensingInactive"
    BY <1>5
  <2> QED BY <1>1, <2>1, <2>2, OtherSignal
<1>6. CASE signal = "ThermistorIsInvalid"
  <2>1. MayEnter(m, "ThermistorFault", e.valid)
    BY <1>0, <1>6 DEF MayEnter, MakerStates
  <2>2. BucketIsFull(m, signal, e) = Transition(m, "ThermistorFault", e)
    BY <1>6 DEF BucketIsFull
  <2> QED BY <1>0, <1>6, <2>1, <2>2, TransitionFacts, OtherSignal
<1>7. CASE /\ signal \notin {"DoorOpened", "DoorClosed", "FullBucketWaitElapsed",
                              "TestHarvest", "TestFill", "SabbathModeEnabled",
                              "Disabled", "ThermistorIsInvalid"}
           /\ ~(signal = "IceHasStoppedDispensing" /\ m.icedLongEnough)
           /\ ~(signal = "TemperatureChanged" /\ e.warm)
  <2>1. Found(m, "none", e.valid)
    BY <1>7, PlainSignal
  <2>2. BucketIsFull(m, signal, e) = DispensingSignal(m, signal)
    BY <1>7 DEF BucketIsFull
  <2> QED BY <2>1, <2>2, DispensingFacts
<1> QED BY <1>2, <1>3, <1>4, <1>5, <1>6, <1>7

\* A motor error is retried or overridden by a test.
LEMMA MotorErrorFacts ==
    ASSUME NEW m, NEW signal, NEW e, e.valid \in BOOLEAN,
           Found(m, signal, e.valid), m.state = "MotorError"
    PROVE  Answered(m, MotorError(m, signal, e), signal, e.valid)
<1>0. m \in Maker /\ Leavable(m) /\ ~m.pauseFill
  BY MakerFields DEF Found, Leavable
<1>1. ASSUME NEW target \in {"Harvesting", "Fill", "Homing"}
      PROVE  Answered(m, Transition(m, target, e), "none", e.valid)
  <2>1. MayEnter(m, target, e.valid)
    BY <1>0 DEF MayEnter, MakerStates
  <2> QED BY <1>0, <2>1, TransitionFacts
<1>2. CASE signal \in {"TestFill", "TestHarvest", "MotorErrorRetryTimerExpired"}
  <2>1. \E target \in {"Harvesting", "Fill", "Homing"} :
           MotorError(m, signal, e) = Transition(m, target, e)
    BY <1>2 DEF MotorError
  <2>2. signal # "DispensingInactive"
    BY <1>2
  <2> QED BY <1>1, <2>1, <2>2, OtherSignal
<1>3. CASE signal \notin {"TestFill", "TestHarvest", "MotorErrorRetryTimerExpired"}
  <2>1. Found(m, "none", e.valid)
    BY <1>3, PlainSignal
  <2>2. MotorError(m, signal, e) = DispensingSignal(m, signal)
    BY <1>3 DEF MotorError
  <2> QED BY <2>1, <2>2, DispensingFacts
<1> QED BY <1>2, <1>3

\* A fault is left as soon as the thermistor is valid again.
LEMMA ThermistorFaultFacts ==
    ASSUME NEW m, NEW signal, NEW e, e.valid \in BOOLEAN,
           Found(m, signal, e.valid), m.state = "ThermistorFault"
    PROVE  Answered(m, ThermistorFault(m, signal, e), signal, e.valid)
<1>0. m \in Maker /\ Leavable(m) /\ ~m.pauseFill
  BY MakerFields DEF Found, Leavable
<1>1. CASE signal = "ThermistorIsValid"
  <2>1. MayEnter(m, "Homing", e.valid)
    BY <1>0 DEF MayEnter, MakerStates
  <2>2. ThermistorFault(m, signal, e) = Transition(m, "Homing", e)
    BY <1>1 DEF ThermistorFault
  <2> QED BY <1>0, <1>1, <2>1, <2>2, TransitionFacts, OtherSignal
<1>2. CASE signal # "ThermistorIsValid"
  <2>1. Found(m, "none", e.valid)
    BY <1>2, PlainSignal
  <2>2. ThermistorFault(m, signal, e) = DispensingSignal(m, signal)
    BY <1>2 DEF ThermistorFault
  <2> QED BY <2>1, <2>2, DispensingFacts
<1> QED BY <1>1, <1>2

\* A fill that waits is tried again when its cause ends.
LEMMA IdleFillFacts ==
    ASSUME NEW m, NEW signal, NEW e, e.valid \in BOOLEAN,
           Found(m, signal, e.valid), m.state = "IdleFill"
    PROVE  Answered(m, IdleFill(m, signal, e), signal, e.valid)
<1>0. m \in Maker /\ Leavable(m) /\ ~m.delayFill
  BY DEF Found, Leavable
<1>1. CASE signal \in {"DispensingInactive", "FillIsNotInhibited"}
  <2>1. MayEnter(m, "Fill", e.valid)
    BY <1>0 DEF MayEnter, MakerStates
  <2>2. IdleFill(m, signal, e) = Transition(m, "Fill", e)
    BY <1>1 DEF IdleFill
  <2>3. Answered(m, Transition(m, "Fill", e), "none", e.valid)
    BY <1>0, <2>1, TransitionFacts
  <2> QED BY <1>0, <2>2, <2>3 DEF Answered
<1>2. CASE signal \notin {"DispensingInactive", "FillIsNotInhibited"}
  <2>1. IdleFill(m, signal, e) = m
    BY <1>2 DEF IdleFill
  <2>2. Found(m, "none", e.valid)
    BY PlainSignal
  <2> QED BY <1>0, <2>1, <2>2 DEF Answered
<1> QED BY <1>1, <1>2

\* Whatever the state, a signal is answered.
LEMMA SendSignalFacts ==
    ASSUME NEW m, NEW signal, NEW e, e.valid \in BOOLEAN, Found(m, signal, e.valid),
           signal = "ThermistorIsInvalid" => ~e.valid
    PROVE  Answered(m, SendSignal(m, signal, e), signal, e.valid)
<1>0. m.state \in MakerStates
  BY MakerFields DEF Found, Leavable
<1>1. CASE m.state = "Homing"
  BY <1>1, HomingFacts DEF SendSignal
<1>2. CASE m.state = "Freeze"
  BY <1>2, FreezeFacts DEF SendSignal
<1>3. CASE m.state = "Harvesting"
  BY <1>3, HarvestingFacts DEF SendSignal
<1>4. CASE m.state = "Fill"
  BY <1>4, FillingFacts DEF SendSignal
<1>5. CASE m.state = "BucketIsFull"
  BY <1>5, BucketIsFullFacts DEF SendSignal
<1>6. CASE m.state = "MotorError"
  BY <1>6, MotorErrorFacts DEF SendSignal
<1>7. CASE m.state = "ThermistorFault"
  BY <1>7, ThermistorFaultFacts DEF SendSignal
<1>8. CASE m.state = "IdleFill"
  BY <1>8, IdleFillFacts DEF SendSignal
<1> QED BY <1>0, <1>1, <1>2, <1>3, <1>4, <1>5, <1>6, <1>7, <1>8 DEF MakerStates

-----------------------------------------------------------------------------
(***************************************************************************)
(* The system.                                                             *)
(***************************************************************************)
\* The surroundings and their types.
WorldOK ==
    /\ sabbath \in BOOLEAN /\ enabled \in BOOLEAN /\ valid \in BOOLEAN
    /\ inhibited \in BOOLEAN /\ doorOpen \in BOOLEAN
    /\ status \in Statuses

\* What a step keeps of the delay, when a stop names what it stops.
DelayKept == StopsNameTheirSelection /\ DelayMeansDispensing => DelayMeansDispensing'

\* A signal that finds what it may find is answered, and the ice maker is left
\* as the next one may find it.
LEMMA SignalFacts ==
    ASSUME NEW m, NEW signal, WorldOK', Found(m, signal, valid'),
           signal = "ThermistorIsInvalid" => ~valid', Signal(m, signal)
    PROVE  /\ MakerInv'
           /\ im'.delayFill => \/ m.delayFill /\ signal # "DispensingInactive"
                               \/ signal = "DispensingActive"
<1>1. PICK ready \in BOOLEAN, warm \in BOOLEAN :
         im' = SendSignal(m, signal, Reads(ready, warm))
  BY DEF Signal
<1> DEFINE e == Reads(ready, warm)
<1>2. e.valid = valid' /\ valid' \in BOOLEAN
  BY DEF Reads, WorldOK
<1> HIDE DEF e
<1>3. Found(m, signal, e.valid) /\ (signal = "ThermistorIsInvalid" => ~e.valid)
  BY <1>2
<1>4. e.valid \in BOOLEAN
  BY <1>2
<1>5. Answered(m, SendSignal(m, signal, e), signal, e.valid)
  BY <1>3, <1>4, SendSignalFacts
<1>6. Answered(m, im', signal, valid')
  BY <1>1, <1>2, <1>5 DEF e
<1>7. Found(im', "none", valid') /\ im' \in Maker
  BY <1>6 DEF Answered, Found, Leavable
<1> QED BY <1>6, <1>7 DEF MakerInv, TypeOK, WorldOK, Answered

\* The steps that bring a signal and change nothing else about a dispense.
LEMMA PlainStep ==
    ASSUME MakerInv, WorldOK', NEW signal, Signal(im, signal), status' = status,
           valid' = valid, signal \notin {"ThermistorIsInvalid", "DispensingActive"}
    PROVE  MakerInv' /\ DelayKept
<1>1. Found(im, signal, valid')
  BY DEF MakerInv, Found
<1>2. MakerInv' /\ (im'.delayFill => im.delayFill)
  BY <1>1, SignalFacts
<1> QED BY <1>2 DEF DelayKept, DelayMeansDispensing

\* The sabbath mode, the enable, the inhibition of the fill and the doors.
LEMMA SurroundingsChange ==
    ASSUME MakerInv, \/ SabbathModeChanges \/ EnableChanges
                     \/ FillInhibitionChanges \/ DoorChanges
    PROVE  MakerInv' /\ DelayKept
<1>1. WorldOK' /\ valid' = valid /\ status' = status
  BY DEF MakerInv, TypeOK, WorldOK, SabbathModeChanges, EnableChanges,
         FillInhibitionChanges, DoorChanges
<1>2. \E signal \in {"SabbathModeEnabled", "SabbathModeDisabled", "Enabled", "Disabled",
                     "FillIsInhibited", "FillIsNotInhibited", "DoorOpened", "DoorClosed"} :
         Signal(im, signal)
  BY DEF SabbathModeChanges, EnableChanges, FillInhibitionChanges, DoorChanges
<1> QED BY <1>1, <1>2, PlainStep

\* The thermistor: the fault is entered and left with its validity.
LEMMA ThermistorStep ==
    ASSUME MakerInv, ThermistorValidityChanges
    PROVE  MakerInv' /\ DelayKept
<1> DEFINE signal == IF valid' THEN "ThermistorIsValid" ELSE "ThermistorIsInvalid"
<1>1. WorldOK' /\ valid' = ~valid /\ status' = status /\ valid \in BOOLEAN
  BY DEF MakerInv, TypeOK, WorldOK, ThermistorValidityChanges
<1>2. Signal(im, signal)
  BY DEF ThermistorValidityChanges
<1>3. /\ signal \notin {"none", "DispensingActive"}
      /\ signal = "ThermistorIsInvalid" => ~valid'
      /\ ~valid' \/ signal = "ThermistorIsValid"
  BY <1>1
<1> HIDE DEF signal
<1>4. Found(im, signal, valid')
  BY <1>1, <1>3 DEF MakerInv, Found
<1>5. MakerInv' /\ (im'.delayFill => im.delayFill)
  BY <1>1, <1>2, <1>3, <1>4, SignalFacts
<1> QED BY <1>1, <1>5 DEF DelayKept, DelayMeansDispensing

\* The conditions of a harvest, the tests and the results of the motor.
LEMMA ConditionsAndTests ==
    ASSUME MakerInv, HarvestConditionChanges \/ TestRequested \/ MotorEnds
    PROVE  MakerInv' /\ DelayKept
<1>1. WorldOK' /\ valid' = valid /\ status' = status
  BY DEF MakerInv, TypeOK, WorldOK, HarvestConditionChanges, TestRequested, MotorEnds,
         worldVars
<1>2. \E signal \in {"TemperatureChanged", "HarvestCountIsReady", "NotInhibitedByRfid",
                     "TestFill", "TestHarvest", "Homed", "MotorError", "Harvested",
                     "BucketWasFull"} :
         Signal(im, signal)
  BY DEF HarvestConditionChanges, TestRequested, MotorEnds
<1> QED BY <1>1, <1>2, PlainStep

\* A status of the dispenser, and the one that delays a fill.
LEMMA StatusTypes ==
    ASSUME NEW s \in Statuses
    PROVE  /\ s.selection \in {"water", "ice"} /\ s.dispensing \in BOOLEAN
           /\ s.selection = "water" /\ s.dispensing =>
                 s = [selection |-> "water", dispensing |-> TRUE]
BY DEF Statuses

\* A dispense starts or ends: a delay is not outlasted by it.
LEMMA DispenseStep ==
    ASSUME MakerInv, DispenseStarts \/ DispenseEnds
    PROVE  MakerInv' /\ DelayKept
<1>1. PICK s \in Statuses :
         /\ DispensingRequestStatusChanges(s)
         /\ s.dispensing <=> ~status.dispensing
         /\ StopsNameTheirSelection /\ status.dispensing => s.selection = status.selection
  BY StatusTypes DEF DispenseStarts, DispenseEnds, MakerInv, TypeOK
<1>2. WorldOK' /\ valid' = valid /\ status' = s /\ status \in Statuses
  BY <1>1 DEF MakerInv, TypeOK, WorldOK, DispensingRequestStatusChanges
<1>3. /\ s.selection \in {"water", "ice"} /\ s.dispensing \in BOOLEAN
      /\ s.selection = "water" /\ s.dispensing =>
            s = [selection |-> "water", dispensing |-> TRUE]
  BY StatusTypes
<1>4. im \in Maker /\ Found(im, "none", valid)
  BY DEF MakerInv, TypeOK
<1>5. CASE s.selection = "water" /\ s.dispensing
  <2>1. Signal(im, "DispensingActive")
    BY <1>1, <1>5 DEF DispensingRequestStatusChanges
  <2>2. Found(im, "DispensingActive", valid')
    BY <1>2, <1>4 DEF Found
  <2>3. MakerInv'
    BY <1>2, <2>1, <2>2, SignalFacts
  <2> QED BY <1>2, <1>3, <1>5, <2>3 DEF DelayKept, DelayMeansDispensing
<1>6. CASE s.selection = "water" /\ ~s.dispensing
  <2>1. Signal(im, "DispensingInactive")
    BY <1>1, <1>6 DEF DispensingRequestStatusChanges
  <2>2. Found(im, "DispensingInactive", valid')
    BY <1>2, <1>4 DEF Found
  <2>3. MakerInv' /\ ~im'.delayFill
    BY <1>2, <2>1, <2>2, SignalFacts
  <2> QED BY <2>3 DEF DelayKept, DelayMeansDispensing
<1>7. ASSUME s.selection = "ice", DelayMeansDispensing, StopsNameTheirSelection
      PROVE  ~im.delayFill
  <2>1. SUFFICES ASSUME im.delayFill PROVE FALSE
    OBVIOUS
  <2>2. status.selection = "water" /\ status.dispensing
    BY <1>7, <2>1 DEF DelayMeansDispensing
  <2> QED BY <1>1, <1>7, <2>2
<1>8. CASE s.selection = "ice" /\ s.dispensing
  <2> DEFINE n == Start(im, "dispensingIce")
  <2>1. im' = n
    BY <1>1, <1>8 DEF DispensingRequestStatusChanges
  <2>2. SameButTimers(n, im) /\ \A u : Running(n, u) <=> u = "dispensingIce" \/ Running(im, u)
    BY <1>4, StartFacts DEF MakerTimers
  <2> HIDE DEF n
  <2>3. n \in Maker /\ Found(n, "none", valid) /\ n.delayFill = im.delayFill
    BY <1>4, <2>2 DEF Found, Leavable, SameButTimers
  <2>4. MakerInv'
    BY <1>2, <2>1, <2>3 DEF MakerInv, TypeOK, WorldOK
  <2> QED BY <1>7, <1>8, <2>1, <2>3, <2>4 DEF DelayKept, DelayMeansDispensing
<1>9. CASE s.selection = "ice" /\ ~s.dispensing
  <2> DEFINE n == Cancel(im, {"dispensingIce"})
  <2>1. Signal(n, "IceHasStoppedDispensing")
    BY <1>1, <1>9 DEF DispensingRequestStatusChanges
  <2>2. SameButTimers(n, im) /\ \A u : Running(n, u) <=> u # "dispensingIce" /\ Running(im, u)
    BY <1>4, CancelFacts
  <2> HIDE DEF n
  <2>3. Found(n, "IceHasStoppedDispensing", valid') /\ n.delayFill = im.delayFill
    BY <1>2, <1>4, <2>2 DEF Found, Leavable, SameButTimers
  <2>4. MakerInv' /\ (im'.delayFill => im.delayFill)
    BY <1>2, <2>1, <2>3, SignalFacts
  <2> QED BY <1>7, <1>9, <2>4 DEF DelayKept, DelayMeansDispensing
<1> QED BY <1>3, <1>5, <1>6, <1>8, <1>9

\* A timer that expires has stopped running; its signal finds that.
LEMMA TimerStep ==
    ASSUME MakerInv, NEW t \in MakerTimers, TimerExpires(t)
    PROVE  MakerInv' /\ DelayKept
<1> DEFINE m == Cancel(im, {t})
<1>1. WorldOK' /\ valid' = valid /\ status' = status
  BY DEF MakerInv, TypeOK, WorldOK, TimerExpires, worldVars
<1>2. im \in Maker /\ Found(im, "none", valid) /\ Running(im, t)
  BY DEF MakerInv, TypeOK, TimerExpires
<1>3. SameButTimers(m, im) /\ \A u : Running(m, u) <=> u # t /\ Running(im, u)
  BY <1>2, CancelFacts
<1>4. ASSUME NEW n, NEW signal, Signal(n, signal), Found(n, signal, valid'),
             n.delayFill = im.delayFill,
             signal \notin {"ThermistorIsInvalid", "DispensingActive"}
      PROVE  MakerInv' /\ DelayKept
  <2>1. MakerInv' /\ (im'.delayFill => im.delayFill)
    BY <1>1, <1>4, SignalFacts
  <2> QED BY <1>1, <2>1 DEF DelayKept, DelayMeansDispensing
<1>5. ASSUME NEW n, im' = n, Found(n, "none", valid), n.delayFill = im.delayFill
      PROVE  MakerInv' /\ DelayKept
  <2>1. n \in Maker
    BY <1>5 DEF Found, Leavable
  <2> QED BY <1>1, <1>5, <2>1
          DEF MakerInv, TypeOK, WorldOK, DelayKept, DelayMeansDispensing
<1>6. CASE t = "doorHarvestDelay"
  <2> DEFINE n == [m EXCEPT !.doorDelayElapsed = TRUE]
  <2>1. Signal(n, "HarvestDoorDelayElapsed")
    BY <1>6 DEF TimerExpires
  <2> HIDE DEF m
  <2>2. /\ n \in Maker /\ n.state = m.state /\ n.motorVote = m.motorVote
        /\ n.valve = m.valve /\ n.tubeHeater = m.tubeHeater
        /\ n.counting = m.counting /\ n.doorDelayElapsed
        /\ n.pauseFill = m.pauseFill /\ n.delayFill = m.delayFill
        /\ n.doorCheckElapsed = m.doorCheckElapsed
        /\ n.motorHarvested = m.motorHarvested /\ n.fill = m.fill
        /\ n.timers = m.timers
    BY <1>3 DEF SameButTimers, Maker
  <2> HIDE DEF n
  <2>3. Found(n, "HarvestDoorDelayElapsed", valid') /\ n.delayFill = im.delayFill
    BY <1>1, <1>2, <1>3, <1>6, <2>2 DEF Found, Leavable, SameButTimers, Running
  <2> QED BY <1>4, <2>1, <2>3
<1>7. CASE t = "doorOpenCheck"
  <2> DEFINE n == [m EXCEPT !.doorCheckElapsed = TRUE]
  <2>1. im' = n
    BY <1>7 DEF TimerExpires
  <2> HIDE DEF m
  <2>2. /\ n \in Maker /\ n.state = m.state /\ n.motorVote = m.motorVote
        /\ n.valve = m.valve /\ n.tubeHeater = m.tubeHeater
        /\ n.counting = m.counting /\ n.doorDelayElapsed = m.doorDelayElapsed
        /\ n.pauseFill = m.pauseFill /\ n.delayFill = m.delayFill
        /\ n.doorCheckElapsed
        /\ n.motorHarvested = m.motorHarvested /\ n.fill = m.fill
        /\ n.timers = m.timers
    BY <1>3 DEF SameButTimers, Maker
  <2> HIDE DEF n
  <2>3. Found(n, "none", valid) /\ n.delayFill = im.delayFill
    BY <1>2, <1>3, <1>7, <2>2 DEF Found, Leavable, SameButTimers, Running
  <2> QED BY <1>5, <2>1, <2>3
<1>8. CASE t = "dispensingIce"
  <2> DEFINE n == [m EXCEPT !.icedLongEnough = TRUE]
  <2>1. im' = n
    BY <1>8 DEF TimerExpires
  <2> HIDE DEF m
  <2>2. /\ n \in Maker /\ n.state = m.state /\ n.motorVote = m.motorVote
        /\ n.valve = m.valve /\ n.tubeHeater = m.tubeHeater
        /\ n.counting = m.counting /\ n.doorDelayElapsed = m.doorDelayElapsed
        /\ n.pauseFill = m.pauseFill /\ n.delayFill = m.delayFill
        /\ n.doorCheckElapsed = m.doorCheckElapsed
        /\ n.motorHarvested = m.motorHarvested /\ n.fill = m.fill
        /\ n.timers = m.timers
    BY <1>3 DEF SameButTimers, Maker
  <2> HIDE DEF n
  <2>3. Found(n, "none", valid) /\ n.delayFill = im.delayFill
    BY <1>2, <1>3, <1>8, <2>2 DEF Found, Leavable, SameButTimers, Running
  <2> QED BY <1>5, <2>1, <2>3
<1>9. CASE t = "fillTubeHeater"
  <2>1. Signal(m, "FillTubeHeaterTimerExpired")
    BY <1>9 DEF TimerExpires
  <2> HIDE DEF m
  <2>2. Found(m, "FillTubeHeaterTimerExpired", valid') /\ m.delayFill = im.delayFill
    BY <1>1, <1>2, <1>3, <1>9 DEF Found, Leavable, SameButTimers
  <2> QED BY <1>4, <2>1, <2>2
<1>10. CASE t = "fullBucketWait"
  <2>1. Signal(m, "FullBucketWaitElapsed")
    BY <1>10 DEF TimerExpires
  <2> HIDE DEF m
  <2>2. Found(m, "FullBucketWaitElapsed", valid') /\ m.delayFill = im.delayFill
    BY <1>1, <1>2, <1>3, <1>10 DEF Found, Leavable, SameButTimers
  <2> QED BY <1>4, <2>1, <2>2
<1>11. CASE t = "retryMotorInit"
  <2>1. Signal(m, "MotorErrorRetryTimerExpired")
    BY <1>11 DEF TimerExpires
  <2> HIDE DEF m
  <2>2. Found(m, "MotorErrorRetryTimerExpired", valid') /\ m.delayFill = im.delayFill
    BY <1>1, <1>2, <1>3, <1>11 DEF Found, Leavable, SameButTimers
  <2> QED BY <1>4, <2>1, <2>2
<1>12. CASE t = "iceRate"
  <2>1. Signal(m, "IceRateNoLongerActive")
    BY <1>12 DEF TimerExpires
  <2> HIDE DEF m
  <2>2. Found(m, "IceRateNoLongerActive", valid') /\ m.delayFill = im.delayFill
    BY <1>1, <1>2, <1>3, <1>12 DEF Found, Leavable, SameButTimers
  <2> QED BY <1>4, <2>1, <2>2
<1> QED BY <1>6, <1>7, <1>8, <1>9, <1>10, <1>11, <1>12 DEF MakerTimers

\* The monitor ends a fill, or hears that water flows: never one that is postponed.
LEMMA MonitorStep ==
    ASSUME MakerInv, TrayIsFilled \/ WaterFlows
    PROVE  MakerInv' /\ DelayKept
<1>1. WorldOK' /\ valid' = valid /\ status' = status
  BY DEF MakerInv, TypeOK, WorldOK, TrayIsFilled, WaterFlows, worldVars
<1>2. im \in Maker /\ Found(im, "none", valid) /\ im.fill \in Monitor
  BY MakerFields DEF MakerInv, TypeOK
<1>3. ASSUME NEW f \in Monitor
      PROVE  LET n == [im EXCEPT !.fill = f] IN
             SameButFill(n, im) /\ n.fill = f
  BY <1>2, <1>3 DEF SameButFill, Maker
<1>4. CASE TrayIsFilled
  <2> DEFINE f == StopMonitoring(im.fill)
             n == [im EXCEPT !.fill = f]
  <2>1. Signal(n, "TrayFilled")
    BY <1>4 DEF TrayIsFilled
  <2>2. ~Postponed(im.fill)
    BY <1>4 DEF TrayIsFilled, Postponed
  <2>3. f \in Monitor /\ f.request = im.fill.request
    BY <1>2 DEF StopMonitoring, Monitor, TimerStates
  <2> HIDE DEF f
  <2>4. SameButFill(n, im) /\ n.fill = f
    BY <1>3, <2>3
  <2> HIDE DEF n
  <2>5. Found(n, "TrayFilled", valid') /\ n.delayFill = im.delayFill
    BY <1>1, <1>2, <2>2, <2>3, <2>4 DEF Found, Leavable, SameButFill, Running
  <2>6. MakerInv' /\ (im'.delayFill => im.delayFill)
    BY <1>1, <2>1, <2>5, SignalFacts
  <2> QED BY <1>1, <2>6 DEF DelayKept, DelayMeansDispensing
<1>5. CASE WaterFlows
  <2> DEFINE f == FlowSeen(im.fill)
             n == [im EXCEPT !.fill = f]
  <2>1. im' = n
    BY <1>5 DEF WaterFlows
  <2>2. ~Postponed(im.fill)
    BY <1>5 DEF WaterFlows, Postponed
  <2>3. /\ f \in Monitor /\ f.request = im.fill.request
        /\ f.maxFill = im.fill.maxFill /\ f.listening = im.fill.listening
    BY <1>2 DEF FlowSeen, Monitor, TimerStates
  <2> HIDE DEF f
  <2>4. SameButFill(n, im) /\ n.fill = f
    BY <1>3, <2>3
  <2> HIDE DEF n
  <2>5. n \in Maker /\ Found(n, "none", valid) /\ n.delayFill = im.delayFill
    BY <1>2, <2>2, <2>3, <2>4 DEF Found, Leavable, SameButFill, Running
  <2> QED BY <1>1, <2>1, <2>5
          DEF MakerInv, TypeOK, WorldOK, DelayKept, DelayMeansDispensing
<1> QED BY <1>4, <1>5

\* The ice maker starts in a state that a signal may find, with no delay.
LEMMA MakerStarts ==
    ASSUME Init PROVE MakerInv /\ DelayMeansDispensing
<1>1. /\ im.state = IF valid THEN "Homing" ELSE "ThermistorFault"
      /\ im.motorVote = IF valid THEN "Home" ELSE "Off"
      /\ ~im.valve /\ ~im.tubeHeater /\ ~im.counting /\ im.doorDelayElapsed
      /\ ~im.pauseFill /\ ~im.delayFill /\ ~im.doorCheckElapsed
      /\ ~im.motorHarvested /\ im.timers = {} /\ im.fill = InitialMonitor
  BY DEF Init
<1>2. InitialMonitor \in Monitor /\ InitialMonitor.request = "Stop"
  BY DEF InitialMonitor, Monitor, MonitorRequests, TimerStates
<1>3. TypeOK
  <2>1. im \in Maker
    BY <1>2 DEF Init, Maker, MakerStates, MotorVotes
  <2> QED BY <2>1 DEF Init, TypeOK, Statuses
<1>4. Found(im, "none", valid)
  BY <1>1, <1>2, <1>3 DEF Found, Leavable, Running, TypeOK
<1> QED BY <1>1, <1>3, <1>4 DEF MakerInv, DelayMeansDispensing

\* Every step keeps the invariant, and the delay when stops name what they stop.
LEMMA MakerSteps ==
    ASSUME MakerInv, [Next]_vars PROVE MakerInv' /\ DelayKept
<1>1. CASE UNCHANGED vars
  BY <1>1 DEF vars, worldVars, MakerInv, TypeOK, DelayKept, DelayMeansDispensing
<1>2. CASE SabbathModeChanges \/ EnableChanges \/ FillInhibitionChanges \/ DoorChanges
  BY <1>2, SurroundingsChange
<1>3. CASE ThermistorValidityChanges
  BY <1>3, ThermistorStep
<1>4. CASE HarvestConditionChanges \/ TestRequested \/ MotorEnds
  BY <1>4, ConditionsAndTests
<1>5. CASE DispenseStarts \/ DispenseEnds
  BY <1>5, DispenseStep
<1>6. CASE TrayIsFilled \/ WaterFlows
  BY <1>6, MonitorStep
<1>7. CASE \E t \in MakerTimers : TimerExpires(t)
  BY <1>7, TimerStep
<1> QED BY <1>1, <1>2, <1>3, <1>4, <1>5, <1>6, <1>7 DEF Next

\* What the invariant says of the properties.
LEMMA MakerInvImplies ==
    ASSUME MakerInv PROVE StateOwnsWhatItStarts /\ FillIsMonitored
<1>1. TypeOK /\ Found(im, "none", valid) /\ im.fill \in Monitor
  BY MakerFields DEF MakerInv, TypeOK
<1>2. OutputsBelongToTheirState
  BY <1>1 DEF Found, Leavable, OutputsBelongToTheirState
<1>3. NothingIsLeftBehind
  BY <1>1 DEF Found, Leavable, Postponed, NothingIsLeftBehind
<1>4. FaultMeansInvalid /\ FillIsMonitored
  BY <1>1 DEF Found, FaultMeansInvalid, FillIsMonitored
<1> QED BY <1>1, <1>2, <1>3, <1>4 DEF StateOwnsWhatItStarts

\* What a state of the ice maker starts, it ends: its outputs belong to it, no
\* timer and no flag outlives it, and it waits for the thermistor only while
\* that is invalid (TwistTrayIceMaker.c).
THEOREM MakerOwnsWhatItStarts == Spec => []StateOwnsWhatItStarts
<1>1. Init => MakerInv
  BY MakerStarts
<1>2. MakerInv /\ [Next]_vars => MakerInv'
  BY MakerSteps
<1>3. MakerInv => StateOwnsWhatItStarts
  BY MakerInvImplies
<1> QED BY <1>1, <1>2, <1>3, PTL DEF Spec

\* While the tray fills, the maximum time runs and the flow meter is heard, and
\* a delayed fill is owed to a dispense that goes on: the second needs the stop
\* of a dispense to name the selection of its start.
THEOREM FillsAreAccountedFor ==
    ASSUME StopsNameTheirSelection
    PROVE  Spec => []FillIsAccountedFor
<1> DEFINE Inv == MakerInv /\ DelayMeansDispensing
<1>1. Init => Inv
  BY MakerStarts
<1>2. Inv /\ [Next]_vars => Inv'
  BY MakerSteps DEF DelayKept
<1>3. Inv => FillIsAccountedFor
  BY MakerInvImplies DEF FillIsAccountedFor
<1> HIDE DEF Inv
<1> QED BY <1>1, <1>2, <1>3, PTL DEF Spec

=============================================================================
