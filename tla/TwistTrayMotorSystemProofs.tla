--------------------- MODULE TwistTrayMotorSystemProofs ---------------------
(***************************************************************************)
(* The safety of the twist tray's motor, for every period that the         *)
(* parametric data may give: MovementsAreSafe of TwistTrayMotorSystem.     *)
(*                                                                         *)
(* The inductive invariant MovementInv names the points of the main loop's *)
(* handlers, that is what is still to be called, and says at each of them  *)
(* what the motor, the remembered motor state and the two timers are.      *)
(* Between handlers, and at most of the points, the controller is Sound:   *)
(* its motor is timed and each state has the timer it waits for.  Where a  *)
(* movement begins, a full bucket is found or a pause is made, the motor's *)
(* output is ahead of its timer and of lastMotorState, or behind them.     *)
(* A tick of the interrupt keeps the controller Sound; at the other points *)
(* it changes the state, which overtakes the handler, or counts only.      *)
(***************************************************************************)
EXTENDS TwistTrayMotorSystem, SequenceTheorems, TLAPS

\* A turning motor has its error timeout running, and only a turning one.
Timed(c) ==
    /\ c.lastMotor = c.motor
    /\ IF c.motor \in Moving
       THEN /\ c.timer["MotorError"].left > 0
            /\ c.timer["MotorError"].signal = "MotorTimeout"
       ELSE c.timer["MotorError"] = Stopped

\* The general purpose timer runs for one of the signals, or not at all.
Runs(c, signals) ==
    /\ c.timer["GeneralPurpose"].left > 0
    /\ c.timer["GeneralPurpose"].signal \in signals

Rests(c) == c.timer["GeneralPurpose"] = Stopped

\* What holds in each state.  The check of the bucket ends before the motor
\* times out, with one tick to spare until the motor's timer has been run.
Shape(c, spare) ==
    /\ c.state = "MakingSureTheTrayIsHome" =>
          /\ c.motor = "MotorUntwisting"
          /\ Rests(c) \/ Runs(c, {"InitialHomingTwistPeriodElapsed"})
    /\ c.state = "JumpingOutOfHome" =>
          /\ c.motor = "MotorTwisting"
          /\ Rests(c) \/ Runs(c, {"HomingJumpOutPeriodElapsed"})
    /\ c.state \in {"HomingReadyToLand", "HarvestReadyToLand"} =>
          \/ Rests(c) /\ c.motor \in Moving
          \/ Runs(c, {"LandingDelayElapsed", "StoppingPeriodElapsed"})
    /\ c.state = "CheckingIfBucketIsFull" =>
          /\ Runs(c, {"FullBucketWaitElapsed"})
          /\ c.motor = "MotorTwisting"
          /\ c.timer["GeneralPurpose"].left < c.timer["MotorError"].left + spare
    /\ c.state = "BucketWasFoundToBeFull" =>
          c.motor \notin Moving /\ Runs(c, {"StoppingPeriodElapsed"})
    /\ c.state = "StoppingAtFullTwist" =>
          \/ Runs(c, {"StoppingPeriodElapsed"})
          \/ Rests(c) /\ c.motor \in Moving
    /\ c.state = "Untwisting" => Rests(c) /\ c.motor = "MotorUntwisting"
    /\ c.state = "Idle" => Rests(c) /\ c.motor \notin Moving

Sound(c, spare) == c \in Controller /\ Timed(c) /\ Shape(c, spare)

HarvestEnds == {"Harvested", "BucketWasFull", "MotorError"}

\* A final result that answers a vote.
Answers(r, v) ==
    \/ r = "MotorError" /\ v # "Off"
    \/ r = "Homed" /\ v = "Home"
    \/ r \in {"Harvested", "BucketWasFull"} /\ v = "Run"

\* What the results tell of the vote, whether or not a handler is under way: a
\* movement is the one that is voted for and has no final result yet; a full
\* bucket that was felt is not forgotten once it has been left; a final result
\* that is not published yet is an answer.
Told(c, full, v, published) ==
    /\ c.state \in HomingStates => c.result = "Homing" /\ v = "Home"
    /\ c.state \in HarvestStates => c.result = "Harvesting" /\ v = "Run"
    /\ c.state \in HarvestStates \ {"CheckingIfBucketIsFull"} =>
          c.harvestResult \in HarvestEnds /\ (full => c.harvestResult # "Harvested")
    /\ full => c.result # "Harvested"
    /\ c.result \in FinalResults /\ c.result # published => Answers(c.result, v)

-----------------------------------------------------------------------------
\* What a timer can be started with.
PeriodValues == 1 .. MaxPeriod

\* A period is a number of ticks, more than one.
LEMMA APeriod == ASSUME NEW x \in TimerPeriods PROVE x \in Nat /\ x > 1
BY DEF TimerPeriods

\* Every period is one a timer can be set to.
LEMMA Periods ==
    /\ MaxPeriod \in Nat
    /\ LongMotorErrorTimeout \in PeriodValues
    /\ ShortMotorErrorTimeout \in PeriodValues
    /\ HomePositionLandingDelayPeriod \in PeriodValues
    /\ FullBucketDetectionPeriod \in PeriodValues
    /\ InitialHomingTwistPeriod \in PeriodValues
    /\ StoppingPeriod \in PeriodValues
<1>1. /\ LongMotorErrorTimeout \in Nat /\ LongMotorErrorTimeout > 1
      /\ ShortMotorErrorTimeout \in Nat /\ ShortMotorErrorTimeout > 1
      /\ HomePositionLandingDelayPeriod \in Nat /\ HomePositionLandingDelayPeriod > 1
      /\ FullBucketDetectionPeriod \in Nat /\ FullBucketDetectionPeriod > 1
      /\ InitialHomingTwistPeriod \in Nat /\ InitialHomingTwistPeriod > 1
      /\ StoppingPeriod \in Nat /\ StoppingPeriod > 1
  BY PeriodsAreTimes, APeriod
<1> QED BY <1>1 DEF MaxPeriod, PeriodValues

\* The check of the bucket ends long before its motor times out.
LEMMA BucketCheckIsShort ==
    /\ LongMotorErrorTimeout \in Nat /\ FullBucketDetectionPeriod \in Nat
    /\ FullBucketDetectionPeriod + PollPeriod < LongMotorErrorTimeout
    /\ FullBucketDetectionPeriod < LongMotorErrorTimeout
<1>1. LongMotorErrorTimeout \in Nat /\ FullBucketDetectionPeriod \in Nat
  BY PeriodsAreTimes, APeriod
<1> QED BY <1>1, BucketCheckEndsFirst, PollIsAPeriod

TimerValue == [left : 0 .. MaxPeriod, signal : TimerSignals \union {"none"}]

\* The controller's fields are of their types.
LEMMA ControllerFields ==
    ASSUME NEW c \in Controller
    PROVE  /\ c.state \in ControllerStates
           /\ c.motor \in MotorStates /\ c.lastMotor \in MotorStates
           /\ c.switch \in BOOLEAN
           /\ c.timer \in [Timers -> TimerValue]
           /\ c.result \in Results /\ c.harvestResult \in Results
           /\ \A t \in Timers :
                 /\ c.timer[t] \in TimerValue
                 /\ c.timer[t].left \in 0 .. MaxPeriod
                 /\ c.timer[t].left \in Nat
                 /\ c.timer[t].signal \in TimerSignals \union {"none"}
<1>1. /\ c.state \in ControllerStates
      /\ c.motor \in MotorStates /\ c.lastMotor \in MotorStates
      /\ c.switch \in BOOLEAN
      /\ c.timer \in [Timers -> TimerValue]
      /\ c.result \in Results /\ c.harvestResult \in Results
  BY DEF Controller, TimerValue
<1>2. \A t \in Timers : c.timer[t] \in TimerValue
  BY <1>1
<1>3. \A v \in TimerValue : /\ v.left \in 0 .. MaxPeriod /\ v.left \in Nat
                            /\ v.signal \in TimerSignals \union {"none"}
  BY Periods DEF TimerValue
<1> QED BY <1>1, <1>2, <1>3

\* Two controllers that differ in nothing but their motor and timers.
SamePlace(c, y) ==
    /\ y.state = c.state /\ y.switch = c.switch
    /\ y.result = c.result /\ y.harvestResult = c.harvestResult

\* One timer is written.
LEMMA TimerIsWritten ==
    ASSUME NEW c \in Controller, NEW t \in Timers, NEW v \in TimerValue
    PROVE  LET y == [c EXCEPT !.timer[t] = v] IN
           /\ y \in Controller
           /\ y.timer[t] = v
           /\ \A u \in Timers : u # t => y.timer[u] = c.timer[u]
           /\ y.motor = c.motor /\ y.lastMotor = c.lastMotor
           /\ SamePlace(c, y)
<1> DEFINE y == [c EXCEPT !.timer[t] = v]
           f == [c.timer EXCEPT ![t] = v]
<1>1. c.timer \in [Timers -> TimerValue]
  BY ControllerFields
<1>2. f \in [Timers -> TimerValue] /\ f[t] = v /\ \A u \in Timers : u # t => f[u] = c.timer[u]
  BY <1>1
<1>3. y = [c EXCEPT !.timer = f]
  OBVIOUS
<1> HIDE DEF f
<1>4. y \in Controller
  BY <1>2, <1>3 DEF Controller, TimerValue
<1>5. y.timer = f /\ y.motor = c.motor /\ y.lastMotor = c.lastMotor /\ SamePlace(c, y)
  BY <1>3 DEF Controller, SamePlace
<1> HIDE DEF y
<1> QED BY <1>2, <1>4, <1>5 DEF y

\* A timer that is stopped has neither time left nor a signal.
LEMMA StoppedFacts ==
    /\ Stopped \in TimerValue /\ Stopped.left = 0 /\ Stopped.signal = "none"
BY Periods DEF Stopped, TimerValue

\* Stopping a timer, and starting one for a signal.
LEMMA StopFacts ==
    ASSUME NEW c \in Controller, NEW t \in Timers
    PROVE  LET y == Stop(c, t) IN
           /\ y \in Controller
           /\ y.timer[t] = Stopped
           /\ \A u \in Timers : u # t => y.timer[u] = c.timer[u]
           /\ y.motor = c.motor /\ y.lastMotor = c.lastMotor
           /\ SamePlace(c, y)
BY TimerIsWritten, StoppedFacts DEF Stop

\* A timer that is started has its period to run, and its signal to send.
LEMMA StartFacts ==
    ASSUME NEW c \in Controller, NEW t \in Timers,
           NEW period \in PeriodValues, NEW signal \in TimerSignals
    PROVE  LET y == StartOneShot(c, t, period, signal) IN
           /\ y \in Controller
           /\ y.timer[t].left = period /\ y.timer[t].left > 0
           /\ y.timer[t].signal = signal
           /\ \A u \in Timers : u # t => y.timer[u] = c.timer[u]
           /\ y.motor = c.motor /\ y.lastMotor = c.lastMotor
           /\ SamePlace(c, y)
<1>1. [left |-> period, signal |-> signal] \in TimerValue
  BY Periods DEF TimerValue, PeriodValues
<1>2. period > 0
  BY Periods DEF PeriodValues
<1> QED BY <1>1, <1>2, TimerIsWritten DEF StartOneShot

\* The two timers are two.
LEMMA TwoTimers ==
    /\ "MotorError" \in Timers /\ "GeneralPurpose" \in Timers
    /\ "MotorError" # "GeneralPurpose"
BY DEF Timers

\* The signals of the general purpose timer.
LEMMA TheSignals ==
    /\ "InitialHomingTwistPeriodElapsed" \in TimerSignals
    /\ "HomingJumpOutPeriodElapsed" \in TimerSignals
    /\ "LandingDelayElapsed" \in TimerSignals
    /\ "FullBucketWaitElapsed" \in TimerSignals
    /\ "StoppingPeriodElapsed" \in TimerSignals
BY DEF TimerSignals

\* The general purpose timer is started.
LEMMA GeneralFacts ==
    ASSUME NEW c \in Controller,
           NEW period \in PeriodValues, NEW signal \in TimerSignals
    PROVE  LET y == StartOneShot(c, "GeneralPurpose", period, signal) IN
           /\ y \in Controller
           /\ Runs(y, {signal})
           /\ y.timer["GeneralPurpose"].left = period
           /\ y.timer["MotorError"] = c.timer["MotorError"]
           /\ y.motor = c.motor /\ y.lastMotor = c.lastMotor
           /\ SamePlace(c, y)
<1> DEFINE y == StartOneShot(c, "GeneralPurpose", period, signal)
<1>1. /\ y \in Controller
      /\ y.timer["GeneralPurpose"].left = period
      /\ y.timer["GeneralPurpose"].left > 0
      /\ y.timer["GeneralPurpose"].signal = signal
      /\ \A u \in Timers : u # "GeneralPurpose" => y.timer[u] = c.timer[u]
      /\ y.motor = c.motor /\ y.lastMotor = c.lastMotor
      /\ SamePlace(c, y)
  BY StartFacts, TwoTimers
<1> HIDE DEF y
<1>2. Runs(y, {signal})
  BY <1>1 DEF Runs
<1> QED BY <1>1, <1>2, TwoTimers DEF y

\* The motor is told something, of which the timer may or may not know.
LEMMA MotorIsWritten ==
    ASSUME NEW c \in Controller, NEW new \in MotorStates
    PROVE  LET y == [c EXCEPT !.motor = new]
               z == [c EXCEPT !.lastMotor = new]
           IN /\ y \in Controller /\ y.motor = new /\ y.lastMotor = c.lastMotor
              /\ y.timer = c.timer /\ SamePlace(c, y)
              /\ z \in Controller /\ z.lastMotor = new /\ z.motor = c.motor
              /\ z.timer = c.timer /\ SamePlace(c, z)
BY DEF Controller, SamePlace

\* The error timer follows what the motor is told: stopped with it, started
\* when it is something new.
LEMMA TimeMotorFacts ==
    ASSUME NEW c \in Controller, NEW new \in MotorStates, NEW timeout,
           new \in Moving => timeout \in PeriodValues
    PROVE  LET d == TimeMotor(c, new, timeout) IN
           /\ d \in Controller
           /\ d.motor = c.motor /\ d.lastMotor = c.lastMotor
           /\ d.timer["GeneralPurpose"] = c.timer["GeneralPurpose"]
           /\ SamePlace(c, d)
           /\ new \notin Moving => d.timer["MotorError"] = Stopped
           /\ new \in Moving /\ c.lastMotor # new =>
                 /\ d.timer["MotorError"].left = timeout
                 /\ d.timer["MotorError"].left > 0
                 /\ d.timer["MotorError"].signal = "MotorTimeout"
           /\ new \in Moving /\ c.lastMotor = new => d = c
<1> DEFINE d == TimeMotor(c, new, timeout)
<1>1. CASE new \notin Moving
  <2>1. d = Stop(c, "MotorError")
    BY <1>1 DEF TimeMotor
  <2> QED BY <1>1, <2>1, StopFacts, TwoTimers
<1>2. CASE new \in Moving /\ c.lastMotor # new
  <2>1. "MotorTimeout" \in TimerSignals /\ timeout \in PeriodValues
    BY <1>2 DEF TimerSignals
  <2> DEFINE e == StartOneShot(c, "MotorError", timeout, "MotorTimeout")
  <2>2. d = e
    BY <1>2 DEF TimeMotor, StartErrorTimer
  <2>3. /\ e \in Controller
        /\ e.timer["MotorError"].left = timeout
        /\ e.timer["MotorError"].left > 0
        /\ e.timer["MotorError"].signal = "MotorTimeout"
        /\ \A u \in Timers : u # "MotorError" => e.timer[u] = c.timer[u]
        /\ e.motor = c.motor /\ e.lastMotor = c.lastMotor
        /\ SamePlace(c, e)
    BY <2>1, StartFacts, TwoTimers
  <2> HIDE DEF d, e
  <2> QED BY <1>2, <2>2, <2>3, TwoTimers DEF d
<1>3. CASE new \in Moving /\ c.lastMotor = new
  BY <1>3 DEF TimeMotor, SamePlace
<1> QED BY <1>1, <1>2, <1>3

\* UpdateMotorState: the motor is told and it is remembered; only the error
\* timer is touched.
LEMMA UpdateFacts ==
    ASSUME NEW c \in Controller, NEW new \in MotorStates, NEW timeout,
           new \in Moving => timeout \in PeriodValues
    PROVE  LET y == UpdateMotorState(c, new, timeout) IN
           /\ y \in Controller
           /\ y.motor = new /\ y.lastMotor = new
           /\ y.timer["GeneralPurpose"] = c.timer["GeneralPurpose"]
           /\ SamePlace(c, y)
           /\ new \notin Moving => y.timer["MotorError"] = Stopped
           /\ new \in Moving /\ c.lastMotor # new =>
                 /\ y.timer["MotorError"].left = timeout
                 /\ y.timer["MotorError"].left > 0
                 /\ y.timer["MotorError"].signal = "MotorTimeout"
           /\ new \in Moving /\ c.lastMotor = new =>
                 y.timer["MotorError"] = c.timer["MotorError"]
<1> DEFINE o == [c EXCEPT !.motor = new]
           d == TimeMotor(o, new, timeout)
           y == [d EXCEPT !.lastMotor = new]
<1>1. /\ o \in Controller /\ o.motor = new /\ o.lastMotor = c.lastMotor
      /\ o.timer = c.timer /\ SamePlace(c, o)
  BY MotorIsWritten
<1> HIDE DEF o
<1>2. /\ d \in Controller
      /\ d.motor = o.motor
      /\ d.timer["GeneralPurpose"] = o.timer["GeneralPurpose"]
      /\ SamePlace(o, d)
      /\ new \notin Moving => d.timer["MotorError"] = Stopped
      /\ new \in Moving /\ o.lastMotor # new =>
            /\ d.timer["MotorError"].left = timeout
            /\ d.timer["MotorError"].left > 0
            /\ d.timer["MotorError"].signal = "MotorTimeout"
      /\ new \in Moving /\ o.lastMotor = new => d = o
  BY <1>1, TimeMotorFacts
<1> HIDE DEF d
<1>3. /\ y \in Controller /\ y.lastMotor = new /\ y.motor = d.motor
      /\ y.timer = d.timer /\ SamePlace(d, y)
  BY <1>2, MotorIsWritten
<1>4. UpdateMotorState(c, new, timeout) = y
  BY DEF UpdateMotorState, d, o
<1> HIDE DEF y
<1>5. SamePlace(c, y)
  BY <1>1, <1>2, <1>3 DEF SamePlace
<1> QED BY <1>1, <1>2, <1>3, <1>4, <1>5

\* A motor that is told to move is timed, from this moment if it is told
\* something new; one that is told to stop is not timed any more.
LEMMA MotorFacts ==
    ASSUME NEW c, c \in Controller, NEW new \in MotorStates, NEW timeout,
           new \in Moving => Timed(c), new \in Moving => timeout \in PeriodValues
    PROVE  LET y == UpdateMotorState(c, new, timeout) IN
           /\ y \in Controller
           /\ Timed(y)
           /\ y.motor = new
           /\ y.timer["GeneralPurpose"] = c.timer["GeneralPurpose"]
           /\ c.motor # new /\ new \in Moving =>
                 y.timer["MotorError"].left = timeout
           /\ SamePlace(c, y)
<1> DEFINE y == UpdateMotorState(c, new, timeout)
<1>1. /\ y \in Controller
      /\ y.motor = new /\ y.lastMotor = new
      /\ y.timer["GeneralPurpose"] = c.timer["GeneralPurpose"]
      /\ SamePlace(c, y)
      /\ new \notin Moving => y.timer["MotorError"] = Stopped
      /\ new \in Moving /\ c.lastMotor # new =>
            /\ y.timer["MotorError"].left = timeout
            /\ y.timer["MotorError"].left > 0
            /\ y.timer["MotorError"].signal = "MotorTimeout"
      /\ new \in Moving /\ c.lastMotor = new =>
            y.timer["MotorError"] = c.timer["MotorError"]
  BY UpdateFacts
<1> HIDE DEF y
<1>2. Timed(y)
  BY <1>1 DEF Timed
<1>3. new \in Moving => c.lastMotor = c.motor
  BY DEF Timed
<1> QED BY <1>1, <1>2, <1>3 DEF y

\* The state and the results are written.
LEMMA StateIsWritten ==
    ASSUME NEW c \in Controller, NEW s \in ControllerStates
    PROVE  LET y == [c EXCEPT !.state = s] IN
           /\ y \in Controller /\ y.state = s
           /\ y.motor = c.motor /\ y.lastMotor = c.lastMotor /\ y.timer = c.timer /\ y.switch = c.switch
           /\ y.result = c.result /\ y.harvestResult = c.harvestResult
BY DEF Controller

\* The result of the movement is written.
LEMMA ResultIsWritten ==
    ASSUME NEW c \in Controller, NEW r \in Results
    PROVE  LET y == [c EXCEPT !.result = r] IN
           /\ y \in Controller /\ y.result = r
           /\ y.state = c.state /\ y.motor = c.motor /\ y.lastMotor = c.lastMotor /\ y.timer = c.timer
           /\ y.switch = c.switch /\ y.harvestResult = c.harvestResult
BY DEF Controller

\* The result that the harvest will have is written.
LEMMA HarvestResultIsWritten ==
    ASSUME NEW c \in Controller, NEW r \in Results
    PROVE  LET y == [c EXCEPT !.harvestResult = r] IN
           /\ y \in Controller /\ y.harvestResult = r
           /\ y.state = c.state /\ y.motor = c.motor /\ y.lastMotor = c.lastMotor /\ y.timer = c.timer
           /\ y.switch = c.switch /\ y.result = c.result
BY DEF Controller

\* A motor error lets the motor coast and is the result of everything.
LEMMA ThrowFacts ==
    ASSUME NEW c \in Controller
    PROVE  LET y == ThrowMotorError(c) IN
           /\ y \in Controller /\ Timed(y)
           /\ y.state = c.state /\ y.motor \notin Moving
           /\ y.timer["GeneralPurpose"] = c.timer["GeneralPurpose"]
           /\ y.result = "MotorError" /\ y.harvestResult = "MotorError"
<1> DEFINE d == UpdateMotorState(c, "MotorCoasting", 0)
           e == [d EXCEPT !.result = "MotorError"]
           y == [e EXCEPT !.harvestResult = "MotorError"]
<1>1. /\ "MotorCoasting" \in MotorStates /\ "MotorCoasting" \notin Moving
      /\ "MotorError" \in Results
  BY DEF MotorStates, Moving, Results, FinalResults
<1>2. /\ d \in Controller /\ Timed(d) /\ d.motor = "MotorCoasting"
      /\ d.timer["GeneralPurpose"] = c.timer["GeneralPurpose"]
      /\ SamePlace(c, d)
  BY <1>1, MotorFacts
<1> HIDE DEF d
<1>3. /\ e \in Controller /\ e.motor = d.motor /\ e.lastMotor = d.lastMotor /\ e.timer = d.timer
      /\ e.state = d.state /\ e.result = "MotorError"
  BY <1>1, <1>2, ResultIsWritten
<1>4. ThrowMotorError(c) = y
  BY DEF ThrowMotorError, d
<1> HIDE DEF e
<1>5. /\ y \in Controller /\ y.motor = e.motor /\ y.lastMotor = e.lastMotor /\ y.timer = e.timer
      /\ y.state = e.state /\ y.result = e.result
      /\ y.harvestResult = "MotorError"
  BY <1>1, <1>3, HarvestResultIsWritten
<1> HIDE DEF y
<1>6. Timed(y)
  BY <1>2, <1>3, <1>5 DEF Timed
<1>7. QED BY <1>1, <1>2, <1>3, <1>4, <1>5, <1>6 DEF SamePlace

\* Whatever movement ends or passes its landing stops motor and timer; the
\* states of the check of the bucket leave the motor as it is.
LEMMA ExitFacts ==
    ASSUME NEW c \in Controller, Timed(c),
           c.state \in {"Untwisting", "Idle"} => Rests(c)
    PROVE  LET y == Exit(c) IN
           /\ y \in Controller /\ Timed(y) /\ Rests(y)
           /\ y.state = c.state /\ y.switch = c.switch
           /\ y.harvestResult = c.harvestResult
           /\ y.result = IF c.state = "HarvestReadyToLand"
                         THEN c.harvestResult ELSE c.result
           /\ IF c.state \in HomingStates \union {"HarvestReadyToLand"}
              THEN y.motor \notin Moving ELSE y.motor = c.motor /\ y.lastMotor = c.lastMotor
<1>0. /\ "MotorCoasting" \in MotorStates /\ "MotorCoasting" \notin Moving
      /\ "HarvestReadyToLand" \notin HomingStates
      /\ c.harvestResult \in Results /\ c.state \in ControllerStates
  BY ControllerFields DEF MotorStates, Moving, HomingStates
<1>1. CASE c.state \in HomingStates \union {"HarvestReadyToLand"}
  <2> DEFINE d == UpdateMotorState(c, "MotorCoasting", 0)
             e == Stop(d, "GeneralPurpose")
  <2>1. /\ d \in Controller /\ Timed(d) /\ d.motor = "MotorCoasting"
        /\ SamePlace(c, d)
    BY <1>0, MotorFacts
  <2> HIDE DEF d
  <2>2. /\ e \in Controller /\ Rests(e) /\ e.motor = "MotorCoasting"
        /\ e.timer["MotorError"] = d.timer["MotorError"] /\ e.lastMotor = d.lastMotor
        /\ SamePlace(d, e)
    BY <2>1, StopFacts, TwoTimers DEF Rests
  <2> HIDE DEF e
  <2>3. Timed(e) /\ SamePlace(c, e)
    BY <2>1, <2>2 DEF Timed, SamePlace
  <2>4. CASE c.state \in HomingStates
    <3>1. Exit(c) = e
      BY <2>4 DEF Exit, e, d, HomingStates
    <3> QED BY <1>0, <2>2, <2>3, <2>4, <3>1 DEF SamePlace
  <2>5. CASE c.state = "HarvestReadyToLand"
    <3> DEFINE f == [e EXCEPT !.result = c.harvestResult]
    <3>1. Exit(c) = f
      BY <2>5 DEF Exit, e, d, HomingStates
    <3>2. /\ f \in Controller /\ f.result = c.harvestResult
          /\ f.state = e.state /\ f.motor = e.motor /\ f.lastMotor = e.lastMotor /\ f.timer = e.timer
          /\ f.switch = e.switch /\ f.harvestResult = e.harvestResult
      BY <1>0, <2>2, ResultIsWritten
    <3> HIDE DEF f
    <3>3. Timed(f) /\ Rests(f)
      BY <2>2, <2>3, <3>2 DEF Timed, Rests
    <3> QED BY <1>0, <2>2, <2>3, <2>5, <3>1, <3>2, <3>3 DEF SamePlace
  <2> QED BY <1>1, <2>4, <2>5
<1>2. CASE c.state \in {"CheckingIfBucketIsFull", "BucketWasFoundToBeFull",
                        "StoppingAtFullTwist"}
  <2> DEFINE e == Stop(c, "GeneralPurpose")
  <2>1. Exit(c) = e
    BY <1>2 DEF Exit, HomingStates
  <2>2. /\ e \in Controller /\ Rests(e) /\ e.motor = c.motor /\ e.lastMotor = c.lastMotor
        /\ e.timer["MotorError"] = c.timer["MotorError"]
        /\ SamePlace(c, e)
    BY StopFacts, TwoTimers DEF Rests
  <2> HIDE DEF e
  <2>3. Timed(e)
    BY <2>2 DEF Timed
  <2> QED BY <1>2, <2>1, <2>2, <2>3 DEF SamePlace, HomingStates
<1>3. CASE c.state \in {"Untwisting", "Idle"}
  <2>1. Exit(c) = c
    BY <1>3 DEF Exit, HomingStates
  <2> QED BY <1>3, <2>1 DEF HomingStates
<1> QED BY <1>0, <1>1, <1>2, <1>3 DEF ControllerStates, HarvestStates

\* What must hold of a controller that is about to enter its state.
Enterable(c) ==
    /\ c \in Controller /\ Timed(c) /\ Rests(c)
    /\ c.state \in {"CheckingIfBucketIsFull", "Idle"} => c.motor \notin Moving
    /\ c.state = "StoppingAtFullTwist" => c.motor \in Moving

\* Each state is entered with its motor and its timer as they have to be.
LEMMA EntryFacts ==
    ASSUME NEW c, Enterable(c)
    PROVE  LET y == Entry(c) IN
           /\ Sound(y, 0)
           /\ y.state = c.state
           /\ y.result = c.result /\ y.harvestResult = c.harvestResult
<1> DEFINE y == Entry(c)
<1> USE DEF Enterable
<1>0. /\ {"MotorCoasting", "MotorTwisting", "MotorUntwisting"} \subseteq MotorStates
      /\ "MotorCoasting" \notin Moving
      /\ "MotorTwisting" \in Moving /\ "MotorUntwisting" \in Moving
      /\ c.state \in ControllerStates
  BY ControllerFields DEF MotorStates, Moving
<1>10. LongMotorErrorTimeout \in PeriodValues
  BY Periods
<1>9. Timed(c) /\ c \in Controller
  OBVIOUS
<1>1. CASE c.state = "MakingSureTheTrayIsHome"
  <2> DEFINE d == UpdateMotorState(c, "MotorUntwisting", LongMotorErrorTimeout)
             e == StartOneShot(d, "GeneralPurpose", InitialHomingTwistPeriod,
                               "InitialHomingTwistPeriodElapsed")
  <2>0. InitialHomingTwistPeriod \in PeriodValues /\ "InitialHomingTwistPeriodElapsed" \in TimerSignals
    BY Periods, TheSignals
  <2>1. /\ d \in Controller /\ Timed(d) /\ d.motor = "MotorUntwisting"
        /\ Rests(d) /\ SamePlace(c, d)
    BY <1>0, <1>9, <1>10, MotorFacts DEF Rests
  <2>2. y = IF c.switch THEN e ELSE d
    BY <1>1 DEF Entry
  <2> HIDE DEF d
  <2>3. /\ e \in Controller /\ e.motor = "MotorUntwisting"
        /\ Runs(e, {"InitialHomingTwistPeriodElapsed"})
        /\ e.timer["MotorError"] = d.timer["MotorError"] /\ e.lastMotor = d.lastMotor
        /\ SamePlace(d, e)
    BY <2>1, <2>0, GeneralFacts
  <2> HIDE DEF e
  <2>4. Timed(e) /\ SamePlace(c, e)
    BY <2>1, <2>3 DEF Timed, SamePlace
  <2>5. Sound(d, 0) /\ Sound(e, 0)
    BY <1>1, <2>1, <2>3, <2>4 DEF Sound, Shape, SamePlace
  <2> QED BY <1>1, <2>1, <2>2, <2>4, <2>5 DEF SamePlace
<1>2. CASE c.state \in {"JumpingOutOfHome", "HomingReadyToLand", "Untwisting",
                        "HarvestReadyToLand"}
  <2>1. PICK new \in {"MotorTwisting", "MotorUntwisting"}, timeout \in PeriodValues :
           /\ y = UpdateMotorState(c, new, timeout)
           /\ c.state = "JumpingOutOfHome" => new = "MotorTwisting"
           /\ c.state = "Untwisting" => new = "MotorUntwisting"
    BY <1>2, Periods DEF Entry
  <2> HIDE DEF y
  <2>2. /\ y \in Controller /\ Timed(y) /\ y.motor = new
        /\ Rests(y) /\ SamePlace(c, y)
    BY <1>0, <2>1, MotorFacts DEF Rests
  <2>3. Sound(y, 0)
    BY <1>0, <1>2, <2>1, <2>2 DEF Sound, Shape, SamePlace
  <2> QED BY <2>2, <2>3 DEF SamePlace, y
<1>3. CASE c.state = "CheckingIfBucketIsFull"
  <2> DEFINE d == UpdateMotorState(c, "MotorTwisting", LongMotorErrorTimeout)
             e == StartOneShot(d, "GeneralPurpose", FullBucketDetectionPeriod,
                               "FullBucketWaitElapsed")
  <2>0. FullBucketDetectionPeriod \in PeriodValues /\ "FullBucketWaitElapsed" \in TimerSignals
    BY Periods, TheSignals
  <2>1. /\ d \in Controller /\ Timed(d) /\ d.motor = "MotorTwisting"
        /\ d.timer["MotorError"].left = LongMotorErrorTimeout
        /\ SamePlace(c, d)
    BY <1>0, <1>3, <1>9, <1>10, MotorFacts
  <2>2. y = e
    BY <1>3 DEF Entry
  <2> HIDE DEF d
  <2>3. /\ e \in Controller /\ e.motor = "MotorTwisting"
        /\ Runs(e, {"FullBucketWaitElapsed"})
        /\ e.timer["GeneralPurpose"].left = FullBucketDetectionPeriod
        /\ e.timer["MotorError"] = d.timer["MotorError"] /\ e.lastMotor = d.lastMotor
        /\ SamePlace(d, e)
    BY <2>1, <2>0, GeneralFacts
  <2> HIDE DEF e
  <2>4. Timed(e) /\ SamePlace(c, e)
    BY <2>1, <2>3 DEF Timed, SamePlace
  <2>5. e.timer["GeneralPurpose"].left < e.timer["MotorError"].left + 0
    BY <2>1, <2>3, BucketCheckIsShort
  <2>6. Sound(e, 0)
    BY <1>3, <2>3, <2>4, <2>5 DEF Sound, Shape, SamePlace
  <2> QED BY <1>3, <2>2, <2>4, <2>6 DEF SamePlace
<1>4. CASE c.state = "BucketWasFoundToBeFull"
  <2> DEFINE d == UpdateMotorState(c, "MotorCoasting", 0)
             e == StartOneShot(d, "GeneralPurpose", StoppingPeriod,
                               "StoppingPeriodElapsed")
  <2>0. StoppingPeriod \in PeriodValues /\ "StoppingPeriodElapsed" \in TimerSignals
    BY Periods, TheSignals
  <2>1. /\ d \in Controller /\ Timed(d) /\ d.motor = "MotorCoasting"
        /\ SamePlace(c, d)
    BY <1>0, MotorFacts
  <2>2. y = e
    BY <1>4 DEF Entry
  <2> HIDE DEF d
  <2>3. /\ e \in Controller /\ e.motor = "MotorCoasting"
        /\ Runs(e, {"StoppingPeriodElapsed"})
        /\ e.timer["MotorError"] = d.timer["MotorError"] /\ e.lastMotor = d.lastMotor
        /\ SamePlace(d, e)
    BY <2>1, <2>0, GeneralFacts, ZenonT(120)
  <2> HIDE DEF e
  <2>4. Timed(e) /\ SamePlace(c, e)
    BY <2>1, <2>3 DEF Timed, SamePlace
  <2>6. Sound(e, 0)
    BY <1>0, <1>4, <2>3, <2>4 DEF Sound, Shape, SamePlace
  <2> QED BY <1>4, <2>2, <2>4, <2>6 DEF SamePlace
<1>5. CASE c.state = "StoppingAtFullTwist"
  <2>1. y = c
    BY <1>5 DEF Entry
  <2>2. Sound(c, 0)
    BY <1>5 DEF Sound, Shape
  <2> QED BY <2>1, <2>2
<1>6. CASE c.state = "Idle"
  <2> DEFINE d == Stop(c, "GeneralPurpose")
             e == Stop(d, "MotorError")
  <2>1. y = e
    BY <1>6 DEF Entry
  <2>2. /\ d \in Controller /\ Rests(d) /\ d.motor = c.motor /\ d.lastMotor = c.lastMotor /\ SamePlace(c, d)
    BY StopFacts, TwoTimers DEF Rests
  <2> HIDE DEF d
  <2>3. /\ e \in Controller /\ Rests(e) /\ e.motor = d.motor /\ e.lastMotor = d.lastMotor
        /\ e.timer["MotorError"] = Stopped /\ SamePlace(d, e)
    BY <2>2, StopFacts, TwoTimers DEF Rests
  <2> HIDE DEF e
  <2>4. Timed(e) /\ SamePlace(c, e)
    BY <1>6, <2>2, <2>3 DEF Timed, SamePlace
  <2>5. Sound(e, 0)
    BY <1>6, <2>2, <2>3, <2>4 DEF Sound, Shape, SamePlace
  <2> QED BY <1>6, <2>1, <2>4, <2>5 DEF SamePlace
<1> QED BY <1>0, <1>1, <1>2, <1>3, <1>4, <1>5, <1>6
        DEF ControllerStates, HomingStates, HarvestStates

\* A transition leads to a state that is entered as it has to be.
LEMMA TransitionFacts ==
    ASSUME NEW c \in Controller, NEW target \in ControllerStates, Timed(c),
           c.state \in {"Untwisting", "Idle"} => Rests(c),
           target \in {"CheckingIfBucketIsFull", "Idle"} =>
              \/ c.motor \notin Moving
              \/ c.state \in HomingStates \union {"HarvestReadyToLand"},
           target = "StoppingAtFullTwist" =>
              c.motor \in Moving /\ c.state = "CheckingIfBucketIsFull"
    PROVE  LET y == Transition(c, target) IN
           /\ Sound(y, 0)
           /\ y.state = target
           /\ y.harvestResult = c.harvestResult
           /\ y.result = IF c.state = "HarvestReadyToLand"
                         THEN c.harvestResult ELSE c.result
<1> DEFINE d == Exit(c)
           e == [d EXCEPT !.state = target]
           y == Entry(e)
<1>1. /\ d \in Controller /\ Timed(d) /\ Rests(d)
      /\ d.harvestResult = c.harvestResult
      /\ d.result = IF c.state = "HarvestReadyToLand"
                    THEN c.harvestResult ELSE c.result
      /\ IF c.state \in HomingStates \union {"HarvestReadyToLand"}
         THEN d.motor \notin Moving ELSE d.motor = c.motor /\ d.lastMotor = c.lastMotor
  BY ExitFacts
<1> HIDE DEF d
<1>2. /\ e \in Controller /\ e.state = target
      /\ e.motor = d.motor /\ e.lastMotor = d.lastMotor /\ e.timer = d.timer
      /\ e.result = d.result /\ e.harvestResult = d.harvestResult
  BY <1>1, StateIsWritten
<1>3. Transition(c, target) = y
  BY DEF Transition, d
<1> HIDE DEF e
<1>4. Enterable(e)
  <2>1. "CheckingIfBucketIsFull" \notin HomingStates \union {"HarvestReadyToLand"}
    BY DEF HomingStates
  <2> QED BY <1>1, <1>2, <2>1 DEF Enterable, Timed, Rests
<1>5. /\ Sound(y, 0)
      /\ y.state = e.state
      /\ y.result = e.result /\ y.harvestResult = e.harvestResult
  BY <1>4, EntryFacts
<1> QED BY <1>1, <1>2, <1>3, <1>5

-----------------------------------------------------------------------------
\* What running a timer may do to the results: nothing without a transition;
\* with one, only the end of a movement gives a final result.
Outcome(c, y) ==
    \/ /\ y.state = c.state
       /\ y.result = c.result /\ y.harvestResult = c.harvestResult
    \/ /\ c.state # "Idle" /\ y.state \notin {c.state, "CheckingIfBucketIsFull"}
       /\ \/ /\ c.motor \in Moving /\ y.state = "Idle"
             /\ y.result = "MotorError" /\ y.harvestResult = "MotorError"
          \/ /\ c.state = "HomingReadyToLand" /\ y.state = "Idle"
             /\ y.result = "Homed" /\ y.harvestResult = c.harvestResult
          \/ /\ c.state = "HarvestReadyToLand" /\ y.state = "Idle"
             /\ y.result = c.harvestResult /\ y.harvestResult = c.harvestResult
          \/ /\ c.state \in HomingStates /\ y.state \in HomingStates
             /\ y.result = c.result /\ y.harvestResult = c.harvestResult
          \/ /\ c.state \in HarvestStates \ {"HarvestReadyToLand"}
             /\ y.state \in HarvestStates
             /\ y.result = c.result
             /\ y.harvestResult = IF c.state = "CheckingIfBucketIsFull"
                                  THEN "Harvested" ELSE c.harvestResult

\* A timer that has more than one tick left has one less.
LEMMA CountDown ==
    ASSUME NEW c \in Controller, NEW t \in Timers, c.timer[t].left > 1
    PROVE  LET y == RunTimer(c, t) IN
           /\ y \in Controller
           /\ y.timer[t].left = c.timer[t].left - 1
           /\ y.timer[t].left > 0
           /\ y.timer[t].signal = c.timer[t].signal
           /\ \A u \in Timers : u # t => y.timer[u] = c.timer[u]
           /\ y.motor = c.motor /\ y.lastMotor = c.lastMotor
           /\ SamePlace(c, y)
<1> DEFINE v == [c.timer[t] EXCEPT !.left = c.timer[t].left - 1]
           y == [c EXCEPT !.timer[t] = v]
<1>1. c.timer[t] \in TimerValue /\ c.timer[t].left \in 0 .. MaxPeriod
  BY ControllerFields
<1>2. c.timer[t].left - 1 \in 0 .. MaxPeriod /\ c.timer[t].left - 1 > 0
  BY <1>1, Periods
<1>3. /\ v \in TimerValue /\ v.left = c.timer[t].left - 1
      /\ v.signal = c.timer[t].signal
  BY <1>1, <1>2 DEF TimerValue
<1>4. RunTimer(c, t) = y
  <2>1. RunTimer(c, t) = [c EXCEPT !.timer[t].left = c.timer[t].left - 1]
    BY DEF RunTimer
  <2> QED BY <2>1
<1> HIDE DEF v
<1>5. /\ y \in Controller /\ y.timer[t] = v
      /\ \A u \in Timers : u # t => y.timer[u] = c.timer[u]
      /\ y.motor = c.motor /\ y.lastMotor = c.lastMotor /\ SamePlace(c, y)
  BY <1>3, TimerIsWritten
<1> HIDE DEF y
<1> QED BY <1>2, <1>3, <1>4, <1>5

\* A timer that does not run does nothing; one with its last tick is stopped
\* and sends its signal.
LEMMA LastTick ==
    ASSUME NEW c \in Controller, NEW t \in Timers
    PROVE  /\ c.timer[t].left = 0 => RunTimer(c, t) = c
           /\ c.timer[t].left = 1 =>
                 RunTimer(c, t) = SendSignal(Stop(c, t), c.timer[t].signal)
           /\ c.timer[t].left \in {0, 1} \/ c.timer[t].left > 1
<1>1. c.timer[t].left \in Nat
  BY ControllerFields
<1> QED BY <1>1 DEF RunTimer

\* The motor's timer: a time-out ends the movement, in every state in which
\* the motor may turn but that of the check of the bucket, which ends first.
LEMMA MotorTimerRuns ==
    ASSUME NEW c, Sound(c, 0)
    PROVE  LET y == RunTimer(c, "MotorError") IN
           /\ Sound(y, 1)
           /\ Outcome(c, y)
           /\ y.state # c.state => y.state = "Idle"
<1> DEFINE y == RunTimer(c, "MotorError")
           m == c.timer["MotorError"]
           g == c.timer["GeneralPurpose"]
<1>0. /\ c \in Controller /\ "MotorError" \in Timers /\ "GeneralPurpose" \in Timers
      /\ Timed(c) /\ Shape(c, 0)
      /\ m.left \in Nat /\ g.left \in Nat
  BY ControllerFields, TwoTimers DEF Sound
<1>a. c.state \in ControllerStates
  BY <1>0, ControllerFields
<1>1. CASE m.left = 0
  <2>1. y = c
    BY <1>0, <1>1, LastTick
  <2>2. c.motor \notin Moving
    BY <1>0, <1>1 DEF Timed
  <2>3. Shape(c, 1)
    BY <1>0, <2>2 DEF Shape, Moving
  <2> QED BY <1>0, <2>1, <2>3 DEF Sound, Outcome
<1>2. CASE m.left > 1
  <2>1. /\ y \in Controller
        /\ y.timer["MotorError"].left = m.left - 1
        /\ y.timer["MotorError"].left > 0
        /\ y.timer["MotorError"].signal = m.signal
        /\ y.timer["GeneralPurpose"] = g
        /\ y.motor = c.motor /\ y.lastMotor = c.lastMotor
        /\ SamePlace(c, y)
    BY <1>0, <1>2, CountDown, TwoTimers
  <2> HIDE DEF y
  <2>2. c.motor \in Moving
    BY <1>0, <1>2, StoppedFacts DEF Timed
  <2>3. Timed(y)
    BY <1>0, <2>1, <2>2 DEF Timed
  <2>4. g.left < m.left + 0 => g.left < y.timer["MotorError"].left + 1
    BY <1>0, <2>1
  <2>5. Shape(y, 1)
    BY <1>0, <2>1, <2>4 DEF Shape, Rests, Runs, SamePlace
  <2> QED BY <2>1, <2>3, <2>5 DEF Sound, Outcome, SamePlace, y
<1>3. CASE m.left = 1
  <2> DEFINE d == Stop(c, "MotorError")
             e == ThrowMotorError(d)
             z == Transition(e, "Idle")
  <2>1. c.motor \in Moving /\ m.signal = "MotorTimeout"
    BY <1>0, <1>3, StoppedFacts DEF Timed
  <2>2. y = SendSignal(d, "MotorTimeout")
    BY <1>0, <1>3, <2>1, LastTick
  <2>3. /\ d \in Controller /\ d.timer["GeneralPurpose"] = g
        /\ d.state = c.state
    BY <1>0, StopFacts, TwoTimers DEF SamePlace
  <2> HIDE DEF d
  <2>4. /\ e \in Controller /\ Timed(e)
        /\ e.state = c.state /\ e.motor \notin Moving
        /\ e.timer["GeneralPurpose"] = g
        /\ e.result = "MotorError" /\ e.harvestResult = "MotorError"
    BY <2>3, ThrowFacts
  <2>5. /\ c.state \in {"MakingSureTheTrayIsHome", "JumpingOutOfHome",
                        "HomingReadyToLand", "HarvestReadyToLand",
                        "StoppingAtFullTwist", "Untwisting"}
        /\ c.state = "Untwisting" => g = Stopped
    <3>1. c.state # "CheckingIfBucketIsFull"
      BY <1>0, <1>3, <2>1 DEF Shape, Runs
    <3>2. c.state \notin {"BucketWasFoundToBeFull", "Idle"}
      BY <1>0, <2>1 DEF Shape
    <3> QED BY <1>0, <1>a, <2>1, <3>1, <3>2
            DEF ControllerStates, HomingStates, HarvestStates, Shape, Rests
  <2>6. Handle(d, "MotorTimeout") = MotorTimedOut(d)
    BY <2>3, <2>5 DEF Handle, MakingSureTheTrayIsHome, JumpingOutOfHome,
       HomingReadyToLand, HarvestReadyToLand, Landing, StoppingAtFullTwist, Untwisting
  <2>7. y = z
    BY <2>2, <2>6 DEF SendSignal, MotorTimedOut, Go, Finish
  <2> HIDE DEF e, y
  <2>8. "Idle" \in ControllerStates
    BY DEF ControllerStates
  <2>9. e.state \in {"Untwisting", "Idle"} => Rests(e)
    BY <2>4, <2>5 DEF Rests
  <2>10. /\ Sound(z, 0) /\ z.state = "Idle"
         /\ z.harvestResult = "MotorError" /\ z.result = "MotorError"
    BY <2>4, <2>8, <2>9, TransitionFacts
  <2> HIDE DEF z
  <2>11. Sound(z, 1)
    BY <2>5, <2>10 DEF Sound, Shape
  <2>12. Outcome(c, z)
    BY <2>1, <2>5, <2>10 DEF Outcome
  <2> QED BY <2>7, <2>10, <2>11, <2>12 DEF y
<1> QED BY <1>0, <1>1, <1>2, <1>3

\* The brake of a landing: the motor stops and is given time to.
LEMMA BrakeFacts ==
    ASSUME NEW c \in Controller, Timed(c), NEW new \in MotorStates \ Moving
    PROVE  LET y == StartOneShot(UpdateMotorState(c, new, 0), "GeneralPurpose",
                                 StoppingPeriod, "StoppingPeriodElapsed")
           IN /\ y \in Controller /\ Timed(y) /\ y.motor = new
              /\ Runs(y, {"StoppingPeriodElapsed"})
              /\ SamePlace(c, y)
<1> DEFINE d == UpdateMotorState(c, new, 0)
           y == StartOneShot(d, "GeneralPurpose", StoppingPeriod,
                             "StoppingPeriodElapsed")
<1>1. /\ d \in Controller /\ Timed(d) /\ d.motor = new /\ SamePlace(c, d)
  BY MotorFacts
<1>2. StoppingPeriod \in PeriodValues /\ "StoppingPeriodElapsed" \in TimerSignals
  BY Periods, TheSignals
<1> HIDE DEF d
<1>3. /\ y \in Controller /\ Runs(y, {"StoppingPeriodElapsed"})
      /\ y.timer["MotorError"] = d.timer["MotorError"]
      /\ y.motor = d.motor /\ y.lastMotor = d.lastMotor /\ SamePlace(d, y)
  BY <1>1, <1>2, GeneralFacts
<1> HIDE DEF y
<1>4. Timed(y) /\ SamePlace(c, y) /\ y.motor = new
  BY <1>1, <1>3 DEF Timed, SamePlace
<1> QED BY <1>3, <1>4 DEF y, d

\* The general purpose timer: each of its signals leads on from the state that
\* it was started in, a check that is interrupted by a full bucket included.
LEMMA GeneralTimerRuns ==
    ASSUME NEW c, Sound(c, 1)
    PROVE  LET y == RunTimer(c, "GeneralPurpose") IN
           Sound(y, 0) /\ Outcome(c, y)
<1> DEFINE y == RunTimer(c, "GeneralPurpose")
           m == c.timer["MotorError"]
           g == c.timer["GeneralPurpose"]
<1>0. /\ c \in Controller /\ "MotorError" \in Timers /\ "GeneralPurpose" \in Timers
      /\ Timed(c) /\ Shape(c, 1)
      /\ m.left \in Nat /\ g.left \in Nat
  BY ControllerFields, TwoTimers DEF Sound
<1>a. /\ c.state \in ControllerStates /\ c.harvestResult \in Results
      /\ "Homed" \in Results /\ "Harvested" \in Results
      /\ "MotorBraking" \in MotorStates \ Moving
  BY <1>0, ControllerFields DEF Results, FinalResults, MotorStates, Moving
<1>1. CASE g.left = 0
  <2>1. y = c
    BY <1>0, <1>1, LastTick
  <2>2. Shape(c, 0)
    BY <1>0, <1>1 DEF Shape, Runs
  <2> QED BY <1>0, <2>1, <2>2 DEF Sound, Outcome
<1>2. CASE g.left > 1
  <2>1. /\ y \in Controller
        /\ y.timer["GeneralPurpose"].left = g.left - 1
        /\ y.timer["GeneralPurpose"].left > 0
        /\ y.timer["GeneralPurpose"].signal = g.signal
        /\ y.timer["MotorError"] = m
        /\ y.motor = c.motor /\ y.lastMotor = c.lastMotor
        /\ SamePlace(c, y)
    BY <1>0, <1>2, CountDown, TwoTimers
  <2> HIDE DEF y
  <2>2. ~Rests(c)
    BY <1>2, StoppedFacts DEF Rests
  <2>3. Timed(y)
    BY <1>0, <2>1 DEF Timed
  <2>4. g.left < m.left + 1 =>
           y.timer["GeneralPurpose"].left < y.timer["MotorError"].left + 0
    BY <1>0, <2>1
  <2>5. Shape(y, 0)
    BY <1>0, <2>1, <2>2, <2>4 DEF Shape, Runs, SamePlace
  <2> QED BY <2>1, <2>3, <2>5 DEF Sound, Outcome, SamePlace, y
<1>3. CASE g.left = 1
  <2> DEFINE d == Stop(c, "GeneralPurpose")
             h == Handle(d, g.signal)
  <2>1. ~Rests(c)
    BY <1>3, StoppedFacts DEF Rests
  <2>2. y = Finish(h.ctl, h.target)
    BY <1>0, <1>3, LastTick DEF SendSignal
  <2>3. /\ d \in Controller /\ Rests(d)
        /\ d.timer["MotorError"] = m /\ d.motor = c.motor /\ d.lastMotor = c.lastMotor
        /\ SamePlace(c, d)
    BY <1>0, StopFacts, TwoTimers DEF Rests
  <2> HIDE DEF d
  <2>4. Timed(d)
    BY <1>0, <2>3 DEF Timed
  <2> HIDE DEF y
  <2>5. CASE c.state \in {"MakingSureTheTrayIsHome", "JumpingOutOfHome",
                          "BucketWasFoundToBeFull"}
           \/ c.state = "StoppingAtFullTwist"
    <3>1. \E target \in {"JumpingOutOfHome", "HomingReadyToLand",
                                       "HarvestReadyToLand", "Untwisting"} :
                           /\ h = Go(d, target) /\ target # c.state
                           /\ target \in {"JumpingOutOfHome", "HomingReadyToLand"} <=>
                              c.state \in {"MakingSureTheTrayIsHome", "JumpingOutOfHome"}
      BY <1>0, <2>1, <2>3, <2>5 DEF Shape, Runs, Handle, MakingSureTheTrayIsHome,
         JumpingOutOfHome, BucketWasFoundToBeFull, StoppingAtFullTwist, SamePlace
    <3>2. PICK target \in {"JumpingOutOfHome", "HomingReadyToLand",
                           "HarvestReadyToLand", "Untwisting"} :
             /\ h = Go(d, target) /\ target # c.state
             /\ target \in {"JumpingOutOfHome", "HomingReadyToLand"} <=>
                c.state \in {"MakingSureTheTrayIsHome", "JumpingOutOfHome"}
      BY <3>1
    <3>3. y = Transition(d, target)
      BY <2>2, <3>2 DEF Go, Finish
    <3>4. target \in ControllerStates
      BY DEF ControllerStates, HomingStates, HarvestStates
    <3>5. /\ Sound(y, 0) /\ y.state = target
          /\ y.harvestResult = d.harvestResult /\ y.result = d.result
      BY <2>3, <2>4, <2>5, <3>3, <3>4, TransitionFacts DEF SamePlace
    <3>6. \/ c.state \in HomingStates /\ target \in HomingStates
          \/ c.state \in HarvestStates \ {"CheckingIfBucketIsFull", "HarvestReadyToLand"}
             /\ target \in HarvestStates
      BY <2>5, <3>2 DEF HomingStates, HarvestStates
    <3>7. c.state # "Idle" /\ target \notin {c.state, "CheckingIfBucketIsFull"}
      BY <2>5, <3>2
    <3>8. Outcome(c, y)
      BY <2>3, <3>5, <3>6, <3>7 DEF Outcome, SamePlace
    <3> QED BY <3>1, <3>5, <3>8, SMTT(60) DEF y
  <2>6. CASE c.state \in {"HomingReadyToLand", "HarvestReadyToLand"}
    <3> DEFINE landed == IF c.state = "HomingReadyToLand"
                         THEN [d EXCEPT !.result = "Homed"] ELSE d
    <3>1. h = Landing(d, g.signal, landed)
      BY <1>0, <2>3, <2>6 DEF Shape, Handle, HomingReadyToLand, HarvestReadyToLand,
         SamePlace
    <3>2. CASE g.signal = "LandingDelayElapsed"
      <4> DEFINE z == StartOneShot(UpdateMotorState(d, "MotorBraking", 0),
                                   "GeneralPurpose", StoppingPeriod,
                                   "StoppingPeriodElapsed")
      <4>1. y = z
        BY <2>2, <3>1, <3>2 DEF Landing, Stay, Finish
      <4>2. /\ z \in Controller /\ Timed(z) /\ z.motor = "MotorBraking"
            /\ Runs(z, {"StoppingPeriodElapsed"}) /\ SamePlace(d, z)
        BY <1>a, <2>3, <2>4, BrakeFacts
      <4> HIDE DEF z
      <4>3. Sound(z, 0)
        BY <2>3, <2>6, <4>2 DEF Sound, Shape, Runs, SamePlace
      <4>4. Outcome(c, z)
        BY <2>3, <4>2 DEF Outcome, SamePlace
      <4> QED BY <3>1, <4>1, <4>3, <4>4 DEF y
    <3>3. CASE g.signal = "StoppingPeriodElapsed"
      <4>1. y = Transition(landed, "Idle")
        BY <2>2, <3>1, <3>3 DEF Landing, Go, Finish
      <4>2. /\ landed \in Controller /\ landed.state = d.state
            /\ landed.motor = d.motor /\ landed.lastMotor = d.lastMotor /\ landed.timer = d.timer
            /\ landed.result = IF c.state = "HomingReadyToLand"
                               THEN "Homed" ELSE d.result
            /\ landed.harvestResult = d.harvestResult
        BY <1>a, <2>3, ResultIsWritten
      <4> HIDE DEF landed
      <4>3. "Idle" \in ControllerStates /\ Timed(landed)
        BY <2>4, <4>2 DEF ControllerStates, Timed
      <4>4. landed.state = c.state
            /\ landed.state \in HomingStates \union {"HarvestReadyToLand"}
            /\ landed.state \notin {"Untwisting", "Idle"}
        BY <2>3, <2>6, <4>2 DEF HomingStates, SamePlace
      <4>5. /\ Sound(y, 0) /\ y.state = "Idle"
            /\ y.harvestResult = landed.harvestResult
            /\ y.result = IF landed.state = "HarvestReadyToLand"
                          THEN landed.harvestResult ELSE landed.result
        BY <4>1, <4>2, <4>3, <4>4, TransitionFacts
      <4>6. Outcome(c, y)
        BY <2>3, <2>6, <4>2, <4>4, <4>5 DEF Outcome, SamePlace
      <4> QED BY <3>1, <4>5, <4>6 DEF y
    <3>4. g.signal \in {"LandingDelayElapsed", "StoppingPeriodElapsed"}
      BY <1>0, <2>1, <2>6 DEF Shape, Runs
    <3> QED BY <3>2, <3>3, <3>4
  <2>7. CASE c.state = "CheckingIfBucketIsFull"
    <3> DEFINE e == [d EXCEPT !.harvestResult = "Harvested"]
    <3>1. g.signal = "FullBucketWaitElapsed"
      BY <1>0, <2>7 DEF Shape, Runs
    <3>2. h = Go(e, "StoppingAtFullTwist")
      BY <2>3, <2>7, <3>1 DEF Handle, CheckingIfBucketIsFull, SamePlace
    <3>3. y = Transition(e, "StoppingAtFullTwist")
      BY <2>2, <3>2 DEF Go, Finish
    <3>4. /\ e \in Controller /\ e.state = d.state
          /\ e.motor = d.motor /\ e.lastMotor = d.lastMotor /\ e.timer = d.timer
          /\ e.result = d.result /\ e.harvestResult = "Harvested"
      BY <1>a, <2>3, HarvestResultIsWritten
    <3> HIDE DEF e
    <3>5. /\ "StoppingAtFullTwist" \in ControllerStates /\ Timed(e)
          /\ e.state = "CheckingIfBucketIsFull"
          /\ "MotorTwisting" \in Moving
          /\ {"StoppingAtFullTwist", "CheckingIfBucketIsFull"} \subseteq HarvestStates
      BY <2>3, <2>4, <2>7, <3>4 DEF ControllerStates, HarvestStates, Timed, SamePlace,
         Moving
    <3>6. e.motor \in Moving
      BY <1>0, <2>3, <2>7, <3>4, <3>5 DEF Shape
    <3>7. /\ Sound(y, 0) /\ y.state = "StoppingAtFullTwist"
          /\ y.result = e.result /\ y.harvestResult = e.harvestResult
      BY <3>3, <3>4, <3>5, <3>6, TransitionFacts
    <3> QED BY <2>3, <2>7, <3>4, <3>5, <3>7 DEF Outcome, SamePlace, y
  <2>8. c.state \notin {"Untwisting", "Idle"}
    BY <1>0, <2>1 DEF Shape
  <2> QED BY <1>a, <2>5, <2>6, <2>7, <2>8
          DEF ControllerStates, HomingStates, HarvestStates
<1> QED BY <1>0, <1>1, <1>2, <1>3

-----------------------------------------------------------------------------
(***************************************************************************)
(* Types, wherever the interrupt came: nothing is asked of the controller  *)
(* but that it is one.                                                     *)
(***************************************************************************)
\* The motor's states and the timers' signals that the functions name.
LEMMA TheMotors ==
    /\ {"MotorCoasting", "MotorBraking", "MotorTwisting", "MotorUntwisting"} \subseteq MotorStates
    /\ {"MotorTwisting", "MotorUntwisting"} \subseteq Moving
    /\ "MotorCoasting" \notin Moving /\ "MotorBraking" \notin Moving
BY DEF MotorStates, Moving

\* Coasting.
LEMMA CoastType ==
    ASSUME NEW c \in Controller, NEW timeout
    PROVE  LET y == UpdateMotorState(c, "MotorCoasting", timeout) IN
           y \in Controller /\ SamePlace(c, y)
BY TheMotors, UpdateFacts

\* Turning.
LEMMA TurnType ==
    ASSUME NEW c \in Controller, NEW new \in Moving, NEW timeout \in PeriodValues
    PROVE  LET y == UpdateMotorState(c, new, timeout) IN
           y \in Controller /\ SamePlace(c, y)
BY TheMotors, UpdateFacts DEF MotorStates

\* A state that is left is still the state, until the next is written.
LEMMA ExitType ==
    ASSUME NEW c \in Controller
    PROVE  Exit(c) \in Controller
<1> DEFINE d == UpdateMotorState(c, "MotorCoasting", 0)
           e == Stop(d, "GeneralPurpose")
           f == [e EXCEPT !.result = c.harvestResult]
           g == Stop(c, "GeneralPurpose")
<1>1. d \in Controller
  BY CoastType
<1> HIDE DEF d
<1>2. e \in Controller
  BY <1>1, StopFacts, TwoTimers
<1> HIDE DEF e
<1>3. f \in Controller
  BY <1>2, ControllerFields, ResultIsWritten
<1> HIDE DEF f
<1>4. g \in Controller
  BY StopFacts, TwoTimers
<1> HIDE DEF g
<1>5. Exit(c) \in {e, f, g, c}
  BY DEF Exit, d, e, f, g
<1> QED BY <1>2, <1>3, <1>4, <1>5

\* A state that is entered is the state.
LEMMA EntryType ==
    ASSUME NEW c \in Controller
    PROVE  Entry(c) \in Controller /\ Entry(c).state = c.state
<1> DEFINE y == Entry(c)
<1>0. c.state \in ControllerStates
  BY ControllerFields
<1>1. CASE c.state \in {"MakingSureTheTrayIsHome", "CheckingIfBucketIsFull",
                        "BucketWasFoundToBeFull"}
  <2>1. PICK new \in {"MotorUntwisting", "MotorTwisting", "MotorCoasting"},
             timeout \in {LongMotorErrorTimeout, 0},
             period \in PeriodValues, signal \in TimerSignals :
           /\ new # "MotorCoasting" => timeout = LongMotorErrorTimeout
           /\ \/ y = UpdateMotorState(c, new, timeout)
              \/ y = StartOneShot(UpdateMotorState(c, new, timeout),
                                  "GeneralPurpose", period, signal)
    <3>1. CASE c.state = "MakingSureTheTrayIsHome"
      BY <3>1, Periods, TheSignals DEF Entry
    <3>2. CASE c.state = "CheckingIfBucketIsFull"
      BY <3>2, Periods, TheSignals DEF Entry
    <3>3. CASE c.state = "BucketWasFoundToBeFull"
      BY <3>3, Periods, TheSignals DEF Entry
    <3> QED BY <1>1, <3>1, <3>2, <3>3
  <2> DEFINE d == UpdateMotorState(c, new, timeout)
  <2>2. d \in Controller /\ SamePlace(c, d)
    <3>1. new \in MotorStates /\ (new \in Moving => timeout \in PeriodValues)
      BY <2>1, TheMotors, Periods
    <3> QED BY <3>1, UpdateFacts
  <2> HIDE DEF d, y
  <2> DEFINE e == StartOneShot(d, "GeneralPurpose", period, signal)
  <2>3. e \in Controller /\ SamePlace(d, e)
    BY <2>2, GeneralFacts
  <2>4. y = d \/ y = e
    BY <2>1 DEF d
  <2> HIDE DEF e
  <2> QED BY <2>2, <2>3, <2>4 DEF SamePlace, y
<1>2. CASE c.state \in {"JumpingOutOfHome", "HomingReadyToLand", "Untwisting",
                        "HarvestReadyToLand"}
  <2>1. PICK new \in Moving, timeout \in PeriodValues :
           y = UpdateMotorState(c, new, timeout)
    BY <1>2, Periods, TheMotors DEF Entry
  <2> HIDE DEF y
  <2> QED BY <2>1, TurnType DEF SamePlace, y
<1>3. CASE c.state = "StoppingAtFullTwist"
  BY <1>3 DEF Entry
<1>4. CASE c.state = "Idle"
  <2> DEFINE d == Stop(c, "GeneralPurpose")
             e == Stop(d, "MotorError")
  <2>1. y = e
    BY <1>4 DEF Entry
  <2>2. d \in Controller /\ SamePlace(c, d)
    BY StopFacts, TwoTimers
  <2> HIDE DEF d
  <2>3. e \in Controller /\ SamePlace(d, e)
    BY <2>2, StopFacts, TwoTimers
  <2> HIDE DEF e
  <2> QED BY <2>1, <2>2, <2>3 DEF SamePlace
<1> QED BY <1>0, <1>1, <1>2, <1>3, <1>4 DEF ControllerStates, HomingStates, HarvestStates

\* A transition leads to its target.
LEMMA TransitionType ==
    ASSUME NEW c \in Controller, NEW target \in ControllerStates
    PROVE  Transition(c, target) \in Controller /\ Transition(c, target).state = target
<1> DEFINE d == Exit(c)
           e == [d EXCEPT !.state = target]
<1>1. d \in Controller
  BY ExitType
<1> HIDE DEF d
<1>2. e \in Controller /\ e.state = target
  BY <1>1, StateIsWritten
<1> HIDE DEF e
<1> QED BY <1>2, EntryType DEF Transition, d, e

\* What the interrupt's functions leave behind: all that stay in their state
\* change nothing, but for the brake of a landing.
LEMMA HandleType ==
    ASSUME NEW c \in Controller, NEW signal \in TimerSignals \union {"none"}
    PROVE  LET h == Handle(c, signal) IN
           /\ h.ctl \in Controller
           /\ \/ h.target = "none" /\ h.ctl = c
              \/ /\ h.target = "none" /\ h.ctl.state = c.state
                 /\ c.state \in {"HomingReadyToLand", "HarvestReadyToLand"}
                 /\ signal = "LandingDelayElapsed"
              \/ /\ h.target \in ControllerStates /\ h.target # c.state
                 /\ c.state # "Idle"
                 /\ signal = "MotorTimeout" => h.target = "Idle"
           /\ h.target = "none" =>
                 /\ signal = "MotorTimeout" =>
                       c.state \in {"CheckingIfBucketIsFull", "BucketWasFoundToBeFull",
                                    "Idle"}
                 /\ ~ (c.state = "CheckingIfBucketIsFull" /\ signal = "FullBucketWaitElapsed")
                 /\ ~ (/\ c.state \in {"BucketWasFoundToBeFull", "StoppingAtFullTwist"}
                       /\ signal = "StoppingPeriodElapsed")
<1> DEFINE h == Handle(c, signal)
           thrown == ThrowMotorError(c)
           homed == [c EXCEPT !.result = "Homed"]
           harvested == [c EXCEPT !.harvestResult = "Harvested"]
           braking == StartOneShot(UpdateMotorState(c, "MotorBraking", 0),
                                   "GeneralPurpose", StoppingPeriod,
                                   "StoppingPeriodElapsed")
<1>0. c.state \in ControllerStates
  BY ControllerFields
<1>1. thrown \in Controller
  BY ThrowFacts
<1>2. homed \in Controller /\ harvested \in Controller
  <2>1. "Homed" \in Results /\ "Harvested" \in Results
    BY DEF Results, FinalResults
  <2> QED BY <2>1, ResultIsWritten, HarvestResultIsWritten
<1>3. braking \in Controller /\ braking.state = c.state
  <2> DEFINE d == UpdateMotorState(c, "MotorBraking", 0)
             e == StartOneShot(d, "GeneralPurpose", StoppingPeriod,
                               "StoppingPeriodElapsed")
  <2>1. d \in Controller /\ SamePlace(c, d)
    BY TheMotors, UpdateFacts
  <2> HIDE DEF d
  <2>2. e \in Controller /\ SamePlace(d, e)
    BY <2>1, Periods, TheSignals, GeneralFacts
  <2> HIDE DEF e
  <2>3. braking = e
    BY DEF d, e
  <2> HIDE DEF braking
  <2> QED BY <2>1, <2>2, <2>3 DEF SamePlace
<1> HIDE DEF thrown, homed, harvested, braking
<1>4. {"Idle", "JumpingOutOfHome", "HomingReadyToLand", "StoppingAtFullTwist",
       "HarvestReadyToLand", "Untwisting"} \subseteq ControllerStates
  BY DEF ControllerStates, HomingStates, HarvestStates
<1>5. CASE c.state \in {"MakingSureTheTrayIsHome", "JumpingOutOfHome",
                        "StoppingAtFullTwist", "Untwisting"}
  <2>1. \/ h = Stay(c) /\ signal # "MotorTimeout"
           /\ (c.state = "StoppingAtFullTwist" => signal # "StoppingPeriodElapsed")
        \/ h = Go(thrown, "Idle") /\ signal = "MotorTimeout"
        \/ \E t \in {"JumpingOutOfHome", "HomingReadyToLand", "Untwisting"} :
              h = Go(c, t) /\ t # c.state /\ signal # "MotorTimeout"
    BY <1>5 DEF Handle, MakingSureTheTrayIsHome, JumpingOutOfHome,
       StoppingAtFullTwist, Untwisting, MotorTimedOut, thrown
  <2> HIDE DEF h
  <2> QED BY <1>1, <1>4, <1>5, <2>1 DEF Stay, Go, h
<1>6. CASE c.state \in {"HomingReadyToLand", "HarvestReadyToLand"}
  <2>1. \/ h = Stay(c) /\ signal # "MotorTimeout"
        \/ h = Stay(braking) /\ signal = "LandingDelayElapsed"
        \/ h = Go(thrown, "Idle")
        \/ h = Go(homed, "Idle") \/ h = Go(c, "Idle")
    BY <1>6 DEF Handle, HomingReadyToLand, HarvestReadyToLand, Landing,
       MotorTimedOut, thrown, homed, braking
  <2> HIDE DEF h
  <2> QED BY <1>1, <1>2, <1>3, <1>4, <1>6, <2>1 DEF Stay, Go, h
<1>7. CASE c.state \in {"CheckingIfBucketIsFull", "BucketWasFoundToBeFull", "Idle"}
  <2>1. \/ /\ h = Stay(c)
           /\ ~ (c.state = "CheckingIfBucketIsFull" /\ signal = "FullBucketWaitElapsed")
           /\ ~ (c.state = "BucketWasFoundToBeFull" /\ signal = "StoppingPeriodElapsed")
        \/ h = Go(harvested, "StoppingAtFullTwist") /\ signal # "MotorTimeout"
           /\ c.state = "CheckingIfBucketIsFull"
        \/ h = Go(c, "HarvestReadyToLand") /\ signal # "MotorTimeout"
           /\ c.state = "BucketWasFoundToBeFull"
    BY <1>7 DEF Handle, CheckingIfBucketIsFull, BucketWasFoundToBeFull, harvested
  <2> HIDE DEF h
  <2> QED BY <1>2, <1>4, <1>7, <2>1 DEF Stay, Go, h
<1> QED BY <1>0, <1>5, <1>6, <1>7 DEF ControllerStates, HomingStates, HarvestStates

\* A timer that has run to its end, and one that goes on.
Counted(v, w) ==
    \/ v.left = 0 /\ w = v
    \/ v.left = 1 /\ w = Stopped
    \/ v.left > 1 /\ w.left = v.left - 1 /\ w.signal = v.signal

\* The state in which the end of a timer changes nothing.
Unheard(c, v) ==
    v.left = 1 =>
       /\ v.signal = "MotorTimeout" =>
             c.state \in {"CheckingIfBucketIsFull", "BucketWasFoundToBeFull", "Idle"}
       /\ ~ (c.state = "CheckingIfBucketIsFull" /\ v.signal = "FullBucketWaitElapsed")
       /\ ~ (/\ c.state \in {"BucketWasFoundToBeFull", "StoppingAtFullTwist"}
             /\ v.signal = "StoppingPeriodElapsed")

\* No landing is waiting for its brake.
NoBrake(c) ==
    c.state \in {"HomingReadyToLand", "HarvestReadyToLand"} =>
       \A t \in Timers : c.timer[t].left = 0 \/ c.timer[t].signal # "LandingDelayElapsed"

\* Running one timer changes the state, or nothing but the timer.
LEMMA TimerRuns ==
    ASSUME NEW c \in Controller, NEW t \in Timers
    PROVE  LET y == RunTimer(c, t) IN
           /\ y \in Controller
           /\ c.state = "Idle" => y.state = "Idle"
           /\ c.timer[t].signal = "MotorTimeout" => y.state \in {c.state, "Idle"}
           /\ NoBrake(c) =>
                 \/ y.state # c.state
                 \/ /\ SamePlace(c, y)
                    /\ y.motor = c.motor /\ y.lastMotor = c.lastMotor
                    /\ Counted(c.timer[t], y.timer[t])
                    /\ Unheard(c, c.timer[t])
                    /\ \A u \in Timers : u # t => y.timer[u] = c.timer[u]
<1> DEFINE y == RunTimer(c, t)
           v == c.timer[t]
<1>0. v \in TimerValue /\ v.left \in Nat /\ v.signal \in TimerSignals \union {"none"}
  BY ControllerFields
<1>1. CASE v.left = 0
  <2>1. y = c
    BY <1>1, LastTick
  <2> QED BY <1>1, <2>1 DEF SamePlace, Counted, Unheard
<1>2. CASE v.left > 1
  <2>1. /\ y \in Controller
        /\ y.timer[t].left = v.left - 1 /\ y.timer[t].signal = v.signal
        /\ \A u \in Timers : u # t => y.timer[u] = c.timer[u]
        /\ y.motor = c.motor /\ y.lastMotor = c.lastMotor
        /\ SamePlace(c, y)
    BY <1>2, CountDown
  <2>2. Counted(v, y.timer[t]) /\ Unheard(c, v)
    BY <1>0, <1>2, <2>1 DEF Counted, Unheard
  <2> HIDE DEF y, v
  <2> QED BY <2>1, <2>2 DEF SamePlace, y, v
<1>3. CASE v.left = 1
  <2> DEFINE d == Stop(c, t)
             h == Handle(d, v.signal)
  <2>1. y = Finish(h.ctl, h.target)
    BY <1>3, LastTick DEF SendSignal
  <2>2. /\ d \in Controller /\ d.timer[t] = Stopped
        /\ \A u \in Timers : u # t => d.timer[u] = c.timer[u]
        /\ d.motor = c.motor /\ d.lastMotor = c.lastMotor
        /\ SamePlace(c, d)
    BY StopFacts
  <2> HIDE DEF d
  <2>3. /\ h.ctl \in Controller
        /\ \/ h.target = "none" /\ h.ctl = d
           \/ /\ h.target = "none" /\ h.ctl.state = d.state
              /\ d.state \in {"HomingReadyToLand", "HarvestReadyToLand"}
              /\ v.signal = "LandingDelayElapsed"
           \/ /\ h.target \in ControllerStates /\ h.target # d.state
              /\ d.state # "Idle"
              /\ v.signal = "MotorTimeout" => h.target = "Idle"
        /\ h.target = "none" =>
              /\ v.signal = "MotorTimeout" =>
                    d.state \in {"CheckingIfBucketIsFull", "BucketWasFoundToBeFull",
                                 "Idle"}
              /\ ~ (d.state = "CheckingIfBucketIsFull" /\ v.signal = "FullBucketWaitElapsed")
              /\ ~ (/\ d.state \in {"BucketWasFoundToBeFull", "StoppingAtFullTwist"}
                    /\ v.signal = "StoppingPeriodElapsed")
    BY <1>0, <2>2, HandleType
  <2> HIDE DEF h
  <2>4. "none" \notin ControllerStates
    BY DEF ControllerStates, HomingStates, HarvestStates
  <2>5. CASE h.target # "none"
    <3>1. y = Transition(h.ctl, h.target)
      BY <2>1, <2>5 DEF Finish
    <3>2. y \in Controller /\ y.state = h.target
      BY <2>3, <2>5, <3>1, TransitionType
    <3> QED BY <2>2, <2>3, <2>5, <3>2 DEF SamePlace
  <2>6. CASE h.target = "none" /\ h.ctl = d
    <3>1. y = d
      BY <2>1, <2>6 DEF Finish
    <3>2. Unheard(c, v) /\ Counted(v, d.timer[t])
      BY <1>3, <2>2, <2>3, <2>6 DEF Unheard, Counted, SamePlace
    <3> HIDE DEF y, v
    <3> QED BY <2>2, <3>1, <3>2 DEF SamePlace, y, v
  <2>7. CASE h.target = "none" /\ h.ctl # d
    <3>1. y = h.ctl
      BY <2>1, <2>7 DEF Finish
    <3>2. /\ c.state \in {"HomingReadyToLand", "HarvestReadyToLand"}
          /\ v.signal = "LandingDelayElapsed" /\ y.state = c.state
      BY <2>2, <2>3, <2>4, <2>7, <3>1 DEF SamePlace
    <3>3. ~NoBrake(c)
      BY <1>3, <3>2 DEF NoBrake
    <3> QED BY <2>3, <3>1, <3>2, <3>3
  <2> QED BY <2>5, <2>6, <2>7
<1> QED BY <1>0, <1>1, <1>2, <1>3

\* The interrupt, wherever it comes: it changes the state, or it does no more
\* than count the timers down.
LEMMA RunIsQuiet ==
    ASSUME NEW c \in Controller
    PROVE  LET y == Run(c) IN
           /\ y \in Controller
           /\ /\ NoBrake(c)
              /\ c.timer["MotorError"].left > 0 =>
                    c.timer["MotorError"].signal = "MotorTimeout"
              => \/ y.state # c.state
                 \/ /\ SamePlace(c, y)
                    /\ y.motor = c.motor /\ y.lastMotor = c.lastMotor
                    /\ \A t \in Timers :
                          Counted(c.timer[t], y.timer[t]) /\ Unheard(c, c.timer[t])
<1> DEFINE x == RunTimer(c, "MotorError")
           y == RunTimer(x, "GeneralPurpose")
<1>1. Run(c) = y
  BY DEF Run
<1>2. /\ x \in Controller
      /\ c.state = "Idle" => x.state = "Idle"
      /\ c.timer["MotorError"].signal = "MotorTimeout" => x.state \in {c.state, "Idle"}
      /\ NoBrake(c) =>
            \/ x.state # c.state
            \/ /\ SamePlace(c, x)
               /\ x.motor = c.motor /\ x.lastMotor = c.lastMotor
               /\ Counted(c.timer["MotorError"], x.timer["MotorError"])
               /\ Unheard(c, c.timer["MotorError"])
               /\ \A u \in Timers : u # "MotorError" => x.timer[u] = c.timer[u]
  BY TimerRuns, TwoTimers
<1>3. c.timer["MotorError"].left = 0 => x = c
  BY LastTick, TwoTimers
<1> HIDE DEF x
<1>4. /\ y \in Controller
      /\ x.state = "Idle" => y.state = "Idle"
      /\ NoBrake(x) =>
            \/ y.state # x.state
            \/ /\ SamePlace(x, y)
               /\ y.motor = x.motor /\ y.lastMotor = x.lastMotor
               /\ Counted(x.timer["GeneralPurpose"], y.timer["GeneralPurpose"])
               /\ Unheard(x, x.timer["GeneralPurpose"])
               /\ \A u \in Timers : u # "GeneralPurpose" => y.timer[u] = x.timer[u]
  BY <1>2, TimerRuns, TwoTimers
<1> HIDE DEF y
<1>5. ASSUME NoBrake(c),
             c.timer["MotorError"].left > 0 =>
                c.timer["MotorError"].signal = "MotorTimeout",
             y.state = c.state
      PROVE  /\ SamePlace(c, y)
             /\ y.motor = c.motor /\ y.lastMotor = c.lastMotor
             /\ \A t \in Timers :
                   Counted(c.timer[t], y.timer[t]) /\ Unheard(c, c.timer[t])
  <2>0. c.timer["MotorError"].left \in Nat
    BY ControllerFields, TwoTimers
  <2>1. x.state = c.state
    <3>1. c.timer["MotorError"].left = 0 => x.state = c.state
      BY <1>3
    <3>2. c.timer["MotorError"].left > 0 => x.state \in {c.state, "Idle"}
      BY <1>2, <1>5
    <3> QED BY <1>2, <1>4, <1>5, <2>0, <3>1, <3>2
  <2>2. /\ SamePlace(c, x)
        /\ x.motor = c.motor /\ x.lastMotor = c.lastMotor
        /\ Counted(c.timer["MotorError"], x.timer["MotorError"])
        /\ Unheard(c, c.timer["MotorError"])
        /\ x.timer["GeneralPurpose"] = c.timer["GeneralPurpose"]
    BY <1>2, <1>5, <2>1, TwoTimers
  <2>3. NoBrake(x)
    <3>1. x.timer["MotorError"].left = 0 \/ x.timer["MotorError"].signal # "LandingDelayElapsed"
      BY <1>5, <2>0, <2>2, StoppedFacts DEF Counted
    <3> QED BY <1>5, <2>1, <2>2, <3>1, TwoTimers DEF NoBrake, Timers
  <2>4. /\ SamePlace(x, y)
        /\ y.motor = x.motor /\ y.lastMotor = x.lastMotor
        /\ Counted(x.timer["GeneralPurpose"], y.timer["GeneralPurpose"])
        /\ Unheard(x, x.timer["GeneralPurpose"])
        /\ y.timer["MotorError"] = x.timer["MotorError"]
    BY <1>4, <1>5, <2>1, <2>3, TwoTimers
  <2>5. Unheard(c, c.timer["GeneralPurpose"])
    BY <2>1, <2>2, <2>4 DEF Unheard
  <2>6. SamePlace(c, y) /\ y.motor = c.motor /\ y.lastMotor = c.lastMotor
    BY <2>2, <2>4 DEF SamePlace
  <2>7. /\ Counted(c.timer["MotorError"], y.timer["MotorError"])
        /\ Counted(c.timer["GeneralPurpose"], y.timer["GeneralPurpose"])
    BY <2>2, <2>4
  <2> QED BY <2>2, <2>5, <2>6, <2>7 DEF Timers
<1> QED BY <1>1, <1>4, <1>5 DEF y

-----------------------------------------------------------------------------
(***************************************************************************)
(* The calls of the main loop's handlers, written out.                     *)
(***************************************************************************)
\* One sequence after the other.
LEMMA Joined ==
    ASSUME NEW S, NEW s \in Seq(S), NEW t \in Seq(S), NEW w \in Seq(S),
           Len(w) = Len(s) + Len(t),
           \A i \in 1 .. Len(s) : w[i] = s[i],
           \A i \in 1 .. Len(t) : w[Len(s) + i] = t[i]
    PROVE  s \o t = w
<1> DEFINE u == s \o t
<1>1. u \in Seq(S) /\ Len(u) = Len(w)
  OBVIOUS
<1>2. \A i \in 1 .. Len(u) : u[i] = IF i <= Len(s) THEN s[i] ELSE t[i - Len(s)]
  OBVIOUS
<1>3. Len(s) \in Nat /\ Len(t) \in Nat
  OBVIOUS
<1> HIDE DEF u
<1>4. ASSUME NEW i \in 1 .. Len(u) PROVE u[i] = w[i]
  <2>1. CASE i <= Len(s)
    BY <1>2, <1>3, <2>1
  <2>2. CASE ~(i <= Len(s))
    <3>1. i - Len(s) \in 1 .. Len(t) /\ Len(s) + (i - Len(s)) = i
      BY <1>1, <1>3, <2>2
    <3> QED BY <1>2, <2>2, <3>1
  <2> QED BY <2>1, <2>2
<1>5. u = w
  BY <1>1, <1>4, SeqEqual
<1> QED BY <1>5 DEF u

\* The handlers' sequences are as long as their calls are many.
LEMMA Join11 ==
    ASSUME NEW a, NEW b
    PROVE  <<a>> \o <<b>> = <<a, b>>
<1> DEFINE S == {a, b}
           s == <<a>>
           t == <<b>>
           w == <<a, b>>
<1>1. s \in Seq(S) /\ t \in Seq(S) /\ w \in Seq(S)
  OBVIOUS
<1>2. Len(s) = 1 /\ Len(t) = 1 /\ Len(w) = 2
  OBVIOUS
<1>3. \A i \in 1 .. Len(s) : w[i] = s[i]
  <2>1. \A i \in 1 .. 1 : i = 1
    OBVIOUS
  <2> QED BY <1>2, <2>1
<1>4. \A i \in 1 .. Len(t) : w[Len(s) + i] = t[i]
  <2>1. \A i \in 1 .. 1 : i = 1
    OBVIOUS
  <2> QED BY <1>2, <2>1
<1>6. Len(w) = Len(s) + Len(t)
  BY <1>2
<1> HIDE DEF S, s, t, w
<1>5. s \o t = w
  BY <1>1, <1>3, <1>4, <1>6, Joined, Zenon
<1> QED BY <1>5 DEF s, t, w

\* Joining one and two.
LEMMA Join12 ==
    ASSUME NEW a, NEW b, NEW d
    PROVE  <<a>> \o <<b, d>> = <<a, b, d>>
<1> DEFINE S == {a, b, d}
           s == <<a>>
           t == <<b, d>>
           w == <<a, b, d>>
<1>1. s \in Seq(S) /\ t \in Seq(S) /\ w \in Seq(S)
  OBVIOUS
<1>2. Len(s) = 1 /\ Len(t) = 2 /\ Len(w) = 3
  OBVIOUS
<1>3. \A i \in 1 .. Len(s) : w[i] = s[i]
  <2>1. \A i \in 1 .. 1 : i = 1
    OBVIOUS
  <2> QED BY <1>2, <2>1
<1>4. \A i \in 1 .. Len(t) : w[Len(s) + i] = t[i]
  <2>1. \A i \in 1 .. 2 : i = 1 \/ i = 2
    OBVIOUS
  <2> QED BY <1>2, <2>1
<1>6. Len(w) = Len(s) + Len(t)
  BY <1>2
<1> HIDE DEF S, s, t, w
<1>5. s \o t = w
  BY <1>1, <1>3, <1>4, <1>6, Joined, Zenon
<1> QED BY <1>5 DEF s, t, w

\* Joining one and three.
LEMMA Join13 ==
    ASSUME NEW a, NEW b, NEW d, NEW e
    PROVE  <<a>> \o <<b, d, e>> = <<a, b, d, e>>
<1> DEFINE S == {a, b, d, e}
           s == <<a>>
           t == <<b, d, e>>
           w == <<a, b, d, e>>
<1>1. s \in Seq(S) /\ t \in Seq(S) /\ w \in Seq(S)
  OBVIOUS
<1>2. Len(s) = 1 /\ Len(t) = 3 /\ Len(w) = 4
  OBVIOUS
<1>3. \A i \in 1 .. Len(s) : w[i] = s[i]
  <2>1. \A i \in 1 .. 1 : i = 1
    OBVIOUS
  <2> QED BY <1>2, <2>1
<1>4. \A i \in 1 .. Len(t) : w[Len(s) + i] = t[i]
  <2>1. \A i \in 1 .. 3 : i = 1 \/ i = 2 \/ i = 3
    OBVIOUS
  <2> QED BY <1>2, <2>1
<1>6. Len(w) = Len(s) + Len(t)
  BY <1>2
<1> HIDE DEF S, s, t, w
<1>5. s \o t = w
  BY <1>1, <1>3, <1>4, <1>6, Joined, Zenon
<1> QED BY <1>5 DEF s, t, w

\* Joining three and one.
LEMMA Join31 ==
    ASSUME NEW a, NEW b, NEW d, NEW e
    PROVE  <<a, b, d>> \o <<e>> = <<a, b, d, e>>
<1> DEFINE S == {a, b, d, e}
           s == <<a, b, d>>
           t == <<e>>
           w == <<a, b, d, e>>
<1>1. s \in Seq(S) /\ t \in Seq(S) /\ w \in Seq(S)
  OBVIOUS
<1>2. Len(s) = 3 /\ Len(t) = 1 /\ Len(w) = 4
  OBVIOUS
<1>3. \A i \in 1 .. Len(s) : w[i] = s[i]
  <2>1. \A i \in 1 .. 3 : i = 1 \/ i = 2 \/ i = 3
    OBVIOUS
  <2> QED BY <1>2, <2>1
<1>4. \A i \in 1 .. Len(t) : w[Len(s) + i] = t[i]
  <2>1. \A i \in 1 .. 1 : i = 1
    OBVIOUS
  <2> QED BY <1>2, <2>1
<1>6. Len(w) = Len(s) + Len(t)
  BY <1>2
<1> HIDE DEF S, s, t, w
<1>5. s \o t = w
  BY <1>1, <1>3, <1>4, <1>6, Joined, Zenon
<1> QED BY <1>5 DEF s, t, w

\* Joining four and one.
LEMMA Join41 ==
    ASSUME NEW a, NEW b, NEW d, NEW e, NEW f
    PROVE  <<a, b, d, e>> \o <<f>> = <<a, b, d, e, f>>
<1> DEFINE S == {a, b, d, e, f}
           s == <<a, b, d, e>>
           t == <<f>>
           w == <<a, b, d, e, f>>
<1>1. s \in Seq(S) /\ t \in Seq(S) /\ w \in Seq(S)
  OBVIOUS
<1>2. Len(s) = 4 /\ Len(t) = 1 /\ Len(w) = 5
  OBVIOUS
<1>3. \A i \in 1 .. Len(s) : w[i] = s[i]
  <2>1. \A i \in 1 .. 4 : i = 1 \/ i = 2 \/ i = 3 \/ i = 4
    OBVIOUS
  <2> QED BY <1>2, <2>1
<1>4. \A i \in 1 .. Len(t) : w[Len(s) + i] = t[i]
  <2>1. \A i \in 1 .. 1 : i = 1
    OBVIOUS
  <2> QED BY <1>2, <2>1
<1>6. Len(w) = Len(s) + Len(t)
  BY <1>2
<1> HIDE DEF S, s, t, w
<1>5. s \o t = w
  BY <1>1, <1>3, <1>4, <1>6, Joined, Zenon
<1> QED BY <1>5 DEF s, t, w

\* Joining nothing.
LEMMA Empties ==
    /\ \A a : <<>> \o <<a>> = <<a>>
    /\ \A a, b, d : <<a, b, d>> \o <<>> = <<a, b, d>>
OBVIOUS

\* The first call, and those after it.
LEMMA First1 == ASSUME NEW a PROVE <<a>> # <<>> /\ Head(<<a>>) = a /\ Tail(<<a>>) = <<>>
OBVIOUS
\* ... of two,
LEMMA First2 == ASSUME NEW a, NEW b
                PROVE <<a, b>> # <<>> /\ Head(<<a, b>>) = a /\ Tail(<<a, b>>) = <<b>>
OBVIOUS
\* ... of three,
LEMMA First3 == ASSUME NEW a, NEW b, NEW d
                PROVE /\ <<a, b, d>> # <<>>
                      /\ Head(<<a, b, d>>) = a /\ Tail(<<a, b, d>>) = <<b, d>>
OBVIOUS
\* ... of four,
LEMMA First4 == ASSUME NEW a, NEW b, NEW d, NEW e
                PROVE /\ <<a, b, d, e>> # <<>>
                      /\ Head(<<a, b, d, e>>) = a /\ Tail(<<a, b, d, e>>) = <<b, d, e>>
OBVIOUS
\* ... and of five.
LEMMA First5 == ASSUME NEW a, NEW b, NEW d, NEW e, NEW f
                PROVE /\ <<a, b, d, e, f>> # <<>>
                      /\ Head(<<a, b, d, e, f>>) = a
                      /\ Tail(<<a, b, d, e, f>>) = <<b, d, e, f>>
OBVIOUS

\* What each call does, and what is called after it.
LEMMA OutputCall ==
    ASSUME NEW c, NEW rest, NEW m
    PROVE  /\ Do(c, Output(m)) = [c EXCEPT !.motor = m]
           /\ Rest(c, Output(m), rest) =
                 rest
BY DEF Do, Rest, Output

\* Remembering the motor state.
LEMMA RememberCall ==
    ASSUME NEW c, NEW rest, NEW m
    PROVE  /\ Do(c, Remember(m)) = [c EXCEPT !.lastMotor = m]
           /\ Rest(c, Remember(m), rest) =
                 rest
BY DEF Do, Rest, Remember

\* Starting a timer.
LEMMA StartCall ==
    ASSUME NEW c, NEW rest, NEW t, NEW p, NEW s
    PROVE  /\ Do(c, Start(t, p, s)) = StartOneShot(c, t, p, s)
           /\ Rest(c, Start(t, p, s), rest) =
                 rest
BY DEF Do, Rest, Start

\* Stopping a timer.
LEMMA StopCall ==
    ASSUME NEW c, NEW rest, NEW t
    PROVE  /\ Do(c, StopTimer(t)) = Stop(c, t)
           /\ Rest(c, StopTimer(t), rest) =
                 rest
BY DEF Do, Rest, StopTimer

\* Setting the result.
LEMMA SetResultCall ==
    ASSUME NEW c, NEW rest, NEW r
    PROVE  /\ Do(c, SetResult(r)) = [c EXCEPT !.result = r]
           /\ Rest(c, SetResult(r), rest) =
                 rest
BY DEF Do, Rest, SetResult

\* Setting the result of the harvest.
LEMMA SetHarvestResultCall ==
    ASSUME NEW c, NEW rest, NEW r
    PROVE  /\ Do(c, SetHarvestResult(r)) = [c EXCEPT !.harvestResult = r]
           /\ Rest(c, SetHarvestResult(r), rest) =
                 rest
BY DEF Do, Rest, SetHarvestResult

\* Reporting the harvest.
LEMMA ReportHarvestCall ==
    ASSUME NEW c, NEW rest
    PROVE  /\ Do(c, ReportHarvest) = [c EXCEPT !.result = c.harvestResult]
           /\ Rest(c, ReportHarvest, rest) =
                 rest
BY DEF Do, Rest, ReportHarvest

\* A transition begins with the exit of the state.
LEMMA TransitionCall ==
    ASSUME NEW c, NEW rest, NEW t
    PROVE  /\ Do(c, TransitionTo(t)) = c
           /\ Rest(c, TransitionTo(t), rest) =
                 ExitCalls(c.state) \o <<Become(t)>>
BY DEF Do, Rest, TransitionTo

\* The new state is entered.
LEMMA BecomeCall ==
    ASSUME NEW c, NEW rest, NEW t
    PROVE  /\ Do(c, Become(t)) = [c EXCEPT !.state = t]
           /\ Rest(c, Become(t), rest) =
                 EntryCalls(t, c.switch)
BY DEF Do, Rest, Become

\* The calls that the handlers are made of are calls of handlers.
LEMMA TheCalls ==
    /\ {Output("MotorCoasting"), Output("MotorTwisting"), Output("MotorUntwisting"),
        Remember("MotorCoasting"), Remember("MotorTwisting"),
        Remember("MotorUntwisting")} \subseteq CallsOfHandlers
    /\ {Compare("MotorTwisting", LongMotorErrorTimeout),
        Compare("MotorUntwisting", LongMotorErrorTimeout),
        Start("MotorError", LongMotorErrorTimeout, "MotorTimeout"),
        StartHomingTwist, StartJumpOut, StartLanding, StartFullBucketWait,
        StartStopping, StopTimer("MotorError"), StopTimer("GeneralPurpose"),
        ReportHarvest} \subseteq CallsOfHandlers
    /\ {SetResult("NoAction"), SetResult("Homing"), SetResult("Harvesting"),
        SetHarvestResult("BucketWasFull")} \subseteq CallsOfHandlers
    /\ \A s \in MainTargets : TransitionTo(s) \in CallsOfHandlers /\ Become(s) \in CallsOfHandlers
<1>1. /\ {Output("MotorCoasting"), Output("MotorTwisting"), Output("MotorUntwisting"),
          Remember("MotorCoasting"), Remember("MotorTwisting"),
          Remember("MotorUntwisting")} \subseteq CallsOfHandlers
  BY TheMotors DEF CallsOfHandlers
<1>2. /\ {Compare("MotorTwisting", LongMotorErrorTimeout),
          Compare("MotorUntwisting", LongMotorErrorTimeout)} \subseteq CallsOfHandlers
  BY TheMotors DEF CallsOfHandlers
<1>3. {Start("MotorError", LongMotorErrorTimeout, "MotorTimeout"),
        StartHomingTwist, StartJumpOut, StartLanding, StartFullBucketWait,
        StartStopping, StopTimer("MotorError"), StopTimer("GeneralPurpose"),
        ReportHarvest} \subseteq CallsOfHandlers
  BY TwoTimers DEF CallsOfHandlers
<1>4. {SetResult("NoAction"), SetResult("Homing"), SetResult("Harvesting"),
        SetHarvestResult("BucketWasFull")} \subseteq CallsOfHandlers
  <2>1. {"NoAction", "Homing", "Harvesting", "BucketWasFull"} \subseteq Results
    BY DEF Results, FinalResults
  <2> QED BY <2>1 DEF CallsOfHandlers
<1>5. \A s \in MainTargets : TransitionTo(s) \in CallsOfHandlers /\ Become(s) \in CallsOfHandlers
  BY DEF CallsOfHandlers
<1> QED BY <1>1, <1>2, <1>3, <1>4, <1>5

\* The handlers, the exits and the entries are sequences of calls.
LEMMA HandlersType ==
    /\ Coast \in Seq(CallsOfHandlers)
    /\ Turn("MotorUntwisting") \in Seq(CallsOfHandlers)
    /\ Turn("MotorTwisting") \in Seq(CallsOfHandlers)
    /\ FullBucketIsFound \in Seq(CallsOfHandlers)
    /\ FullTwistIsReached \in Seq(CallsOfHandlers)
    /\ \A k \in CallsOfHandlers : <<k>> \in Seq(CallsOfHandlers)
    /\ <<>> \in Seq(CallsOfHandlers)
<1>1. Coast \in Seq(CallsOfHandlers)
  BY TheCalls DEF Coast
<1>2. Turn("MotorUntwisting") \in Seq(CallsOfHandlers) /\ Turn("MotorTwisting") \in Seq(CallsOfHandlers)
  BY TheCalls DEF Turn
<1>3. \A k \in CallsOfHandlers : <<k>> \in Seq(CallsOfHandlers)
  OBVIOUS
<1>4. <<SetHarvestResult("BucketWasFull")>> \in Seq(CallsOfHandlers)
      /\ <<TransitionTo("BucketWasFoundToBeFull")>> \in Seq(CallsOfHandlers)
      /\ <<StartStopping>> \in Seq(CallsOfHandlers)
  <2>1. "BucketWasFoundToBeFull" \in MainTargets
    BY DEF MainTargets
  <2> QED BY <1>3, <2>1, TheCalls
<1>5. FullBucketIsFound \in Seq(CallsOfHandlers)
  BY <1>1, <1>4 DEF FullBucketIsFound
<1>6. FullTwistIsReached \in Seq(CallsOfHandlers)
  BY <1>1, <1>4 DEF FullTwistIsReached
<1> QED BY <1>1, <1>2, <1>3, <1>5, <1>6

\* A signal is handled by calls of handlers.
LEMMA CallsType ==
    ASSUME NEW state, NEW signal
    PROVE  Calls(state, signal) \in Seq(CallsOfHandlers)
<1>1. {"MakingSureTheTrayIsHome", "CheckingIfBucketIsFull", "HarvestReadyToLand"} \subseteq MainTargets
  BY DEF MainTargets
<1>2. /\ <<SetResult("Homing"), TransitionTo("MakingSureTheTrayIsHome")>> \in Seq(CallsOfHandlers)
      /\ <<SetResult("Harvesting"), TransitionTo("CheckingIfBucketIsFull")>> \in Seq(CallsOfHandlers)
  BY <1>1, TheCalls
<1>3. \E k \in CallsOfHandlers :
         Calls(state, signal) \in {<<k>>, <<>>, FullBucketIsFound, FullTwistIsReached,
            <<SetResult("Homing"), TransitionTo("MakingSureTheTrayIsHome")>>,
            <<SetResult("Harvesting"), TransitionTo("CheckingIfBucketIsFull")>>}
  <2>1. Calls(state, signal) \in
           {<<StopTimer("GeneralPurpose")>>, <<StartHomingTwist>>, <<StartJumpOut>>,
            <<StartLanding>>, <<TransitionTo("HarvestReadyToLand")>>,
            <<SetResult("NoAction")>>, <<>>, FullBucketIsFound, FullTwistIsReached,
            <<SetResult("Homing"), TransitionTo("MakingSureTheTrayIsHome")>>,
            <<SetResult("Harvesting"), TransitionTo("CheckingIfBucketIsFull")>>}
    BY ZenonT(120) DEF Calls
  <2>2. {StopTimer("GeneralPurpose"), StartHomingTwist, StartJumpOut, StartLanding,
         TransitionTo("HarvestReadyToLand"), SetResult("NoAction")} \subseteq CallsOfHandlers
    BY <1>1, TheCalls
  <2> QED BY <2>1, <2>2, ZenonT(120)
<1> QED BY <1>2, <1>3, HandlersType

\* The exits are calls of handlers.
LEMMA ExitCallsType ==
    ASSUME NEW state PROVE ExitCalls(state) \in Seq(CallsOfHandlers)
<1> DEFINE S == Seq(CallsOfHandlers)
           p == Coast \o <<StopTimer("GeneralPurpose")>>
           q == Coast \o <<ReportHarvest, StopTimer("GeneralPurpose")>>
           r == <<StopTimer("GeneralPurpose")>>
<1>1. r \in S /\ <<ReportHarvest, StopTimer("GeneralPurpose")>> \in S /\ <<>> \in S
  BY TheCalls
<1>2. p \in S /\ q \in S
  BY <1>1, HandlersType
<1>3. ExitCalls(state) \in {p, q, r, <<>>}
  BY DEF ExitCalls
<1> QED BY <1>1, <1>2, <1>3

\* The entries are calls of handlers.
LEMMA EntryCallsType ==
    ASSUME NEW state \in MainTargets, NEW switch
    PROVE  EntryCalls(state, switch) \in Seq(CallsOfHandlers)
<1>1. CASE state = "MakingSureTheTrayIsHome"
  <2>1. StartHomingTwist \in CallsOfHandlers
    BY TheCalls
  <2>2. /\ Turn("MotorUntwisting") \o <<StartHomingTwist>> \in Seq(CallsOfHandlers)
        /\ Turn("MotorUntwisting") \o <<>> \in Seq(CallsOfHandlers)
    BY <2>1, HandlersType
  <2> QED BY <1>1, <2>2 DEF EntryCalls
<1>2. CASE state = "CheckingIfBucketIsFull"
  <2>1. StartFullBucketWait \in CallsOfHandlers
    BY TheCalls
  <2>2. Turn("MotorTwisting") \o <<StartFullBucketWait>> \in Seq(CallsOfHandlers)
    BY <2>1, HandlersType
  <2> QED BY <1>2, <2>2 DEF EntryCalls
<1>3. CASE state = "BucketWasFoundToBeFull"
  <2>1. StartStopping \in CallsOfHandlers
    BY TheCalls
  <2>2. Coast \o <<StartStopping>> \in Seq(CallsOfHandlers)
    BY <2>1, HandlersType
  <2> QED BY <1>3, <2>2 DEF EntryCalls
<1>4. CASE state = "HarvestReadyToLand"
  BY <1>4, HandlersType DEF EntryCalls
<1> QED BY <1>1, <1>2, <1>3, <1>4 DEF MainTargets

\* A call leaves a controller, and calls.
LEMMA DoType ==
    ASSUME NEW c \in Controller, NEW k \in CallsOfHandlers,
           NEW rest \in Seq(CallsOfHandlers)
    PROVE  Do(c, k) \in Controller /\ Rest(c, k, rest) \in Seq(CallsOfHandlers)
<1>1. CASE \E m \in MotorStates : k = Output(m) \/ k = Remember(m)
  <2>1. PICK m \in MotorStates : k = Output(m) \/ k = Remember(m)
    BY <1>1
  <2>2. [c EXCEPT !.motor = m] \in Controller /\ [c EXCEPT !.lastMotor = m] \in Controller
    BY MotorIsWritten
  <2>3. /\ Do(c, Output(m)) = [c EXCEPT !.motor = m] /\ Rest(c, Output(m), rest) = rest
        /\ Do(c, Remember(m)) = [c EXCEPT !.lastMotor = m] /\ Rest(c, Remember(m), rest) = rest
    BY OutputCall, RememberCall, Zenon
  <2> QED BY <2>1, <2>2, <2>3
<1>2. CASE \E m \in Moving : k = Compare(m, LongMotorErrorTimeout)
  <2>1. PICK m \in Moving : k = Compare(m, LongMotorErrorTimeout)
    BY <1>2
  <2>2. <<Start("MotorError", LongMotorErrorTimeout, "MotorTimeout")>> \in Seq(CallsOfHandlers)
    BY TheCalls
  <2>3. <<Start("MotorError", LongMotorErrorTimeout, "MotorTimeout")>> \o rest \in Seq(CallsOfHandlers)
    BY <2>2
  <2> DEFINE l == Compare(m, LongMotorErrorTimeout)
  <2>5. /\ Do(c, l) = c
        /\ Rest(c, l, rest) =
              IF c.lastMotor = m THEN rest
              ELSE <<Start("MotorError", LongMotorErrorTimeout, "MotorTimeout")>> \o rest
    BY DEF Do, Rest, Compare
  <2> HIDE DEF l
  <2>4. /\ Do(c, k) = c
        /\ \/ Rest(c, k, rest) = rest
           \/ Rest(c, k, rest) =
                 <<Start("MotorError", LongMotorErrorTimeout, "MotorTimeout")>> \o rest
    BY <2>1, <2>5 DEF l
  <2> QED BY <2>3, <2>4
<1>3. CASE \E t \in Timers : k = StopTimer(t)
  BY <1>3, StopCall, StopFacts
<1>4. CASE k \in {Start("MotorError", LongMotorErrorTimeout, "MotorTimeout"),
                  StartHomingTwist, StartJumpOut, StartLanding, StartFullBucketWait,
                  StartStopping}
  <2>1. PICK t \in Timers, p \in PeriodValues, s \in TimerSignals : k = Start(t, p, s)
    <3>1. "MotorTimeout" \in TimerSignals
      BY DEF TimerSignals
    <3> QED BY <1>4, <3>1, TwoTimers, Periods, TheSignals
            DEF StartHomingTwist, StartJumpOut, StartLanding, StartFullBucketWait,
                StartStopping
  <2>2. StartOneShot(c, t, p, s) \in Controller
    BY StartFacts
  <2> QED BY <2>1, <2>2, StartCall
<1>5. CASE \E r \in Results : k = SetResult(r) \/ k = SetHarvestResult(r)
  BY <1>5, SetResultCall, SetHarvestResultCall, ResultIsWritten, HarvestResultIsWritten
<1>6. CASE k = ReportHarvest
  BY <1>6, ReportHarvestCall, ResultIsWritten, ControllerFields
<1>7. CASE \E s \in MainTargets : k = TransitionTo(s) \/ k = Become(s)
  <2>1. PICK s \in MainTargets : k = TransitionTo(s) \/ k = Become(s)
    BY <1>7
  <2>2. s \in ControllerStates
    BY DEF MainTargets, ControllerStates, HomingStates, HarvestStates
  <2>3. CASE k = TransitionTo(s)
    <3>1. <<Become(s)>> \in Seq(CallsOfHandlers) /\ ExitCalls(c.state) \in Seq(CallsOfHandlers)
      BY TheCalls, ExitCallsType
    <3>2. ExitCalls(c.state) \o <<Become(s)>> \in Seq(CallsOfHandlers)
      BY <3>1
    <3> QED BY <2>3, <3>2, TransitionCall
  <2>4. CASE k = Become(s)
    <3>1. EntryCalls(s, c.switch) \in Seq(CallsOfHandlers)
      BY EntryCallsType
    <3> QED BY <2>2, <2>4, <3>1, BecomeCall, StateIsWritten
  <2> QED BY <2>1, <2>3, <2>4
<1> QED BY <1>1, <1>2, <1>3, <1>4, <1>5, <1>6, <1>7 DEF CallsOfHandlers

-----------------------------------------------------------------------------
(***************************************************************************)
(* Where the main loop may be in a handler, and what then holds of the     *)
(* controller `c' with `k' still to be called: `full' the arm has met a    *)
(* full bucket, `v' is voted for, `on' the motor is enabled, `s' ticks     *)
(* have passed since the last poll.                                        *)
(***************************************************************************)
\* At rest, or with a movement ordered that has not begun.
AtRest(c, k, full, v, on) ==
    /\ c.state = "Idle" /\ Sound(c, 0)
    /\ \/ k = <<>>
       \/ k = <<SetResult("NoAction")>>
       \/ /\ on /\ v = "Home"
          /\ \/ k = <<SetResult("Homing"), TransitionTo("MakingSureTheTrayIsHome")>>
             \/ /\ c.result = "Homing"
                /\ k \in {<<TransitionTo("MakingSureTheTrayIsHome")>>,
                          <<Become("MakingSureTheTrayIsHome")>>}
       \/ /\ on /\ v = "Run" /\ ~full
          /\ \/ k = <<SetResult("Harvesting"), TransitionTo("CheckingIfBucketIsFull")>>
             \/ /\ c.result = "Harvesting"
                /\ k \in {<<TransitionTo("CheckingIfBucketIsFull")>>,
                          <<Become("CheckingIfBucketIsFull")>>}

\* The two movements begin: the motor is told, timed, remembered; the check of
\* the bucket, and a homing that begins with its switch high, then time
\* themselves.
NewMotor(c) ==
    IF c.state = "CheckingIfBucketIsFull" THEN "MotorTwisting" ELSE "MotorUntwisting"

FirstTimer(c) ==
    IF c.state = "CheckingIfBucketIsFull" THEN StartFullBucketWait ELSE StartHomingTwist

NoTimer(c) == c.state = "MakingSureTheTrayIsHome" /\ ~c.switch

\* The error timer was started after the last poll.
JustTimed(c, s) ==
    /\ c.timer["MotorError"].signal = "MotorTimeout"
    /\ c.timer["MotorError"].left + s >= LongMotorErrorTimeout

Begins(c, k, s, full) ==
    LET new == NewMotor(c)
        compare == Compare(new, LongMotorErrorTimeout)
        start == Start("MotorError", LongMotorErrorTimeout, "MotorTimeout")
    IN  /\ c \in Controller /\ Rests(c)
        /\ \/ c.state = "MakingSureTheTrayIsHome"
           \/ c.state = "CheckingIfBucketIsFull" /\ ~full
        /\ \/ /\ c.motor \notin Moving /\ c.lastMotor \notin Moving
              /\ c.timer["MotorError"] = Stopped
              /\ k = IF NoTimer(c) THEN <<Output(new), compare, Remember(new)>>
                     ELSE <<Output(new), compare, Remember(new), FirstTimer(c)>>
           \/ /\ c.motor = new /\ c.lastMotor \notin Moving
              /\ c.timer["MotorError"] = Stopped
              /\ \/ k = IF NoTimer(c) THEN <<compare, Remember(new)>>
                        ELSE <<compare, Remember(new), FirstTimer(c)>>
                 \/ k = IF NoTimer(c) THEN <<start, Remember(new)>>
                        ELSE <<start, Remember(new), FirstTimer(c)>>
           \/ /\ c.motor = new /\ JustTimed(c, s)
              /\ k = IF NoTimer(c) THEN <<Remember(new)>>
                     ELSE <<Remember(new), FirstTimer(c)>>
           \/ /\ c.motor = new /\ c.lastMotor = new /\ JustTimed(c, s)
              /\ c.state = "CheckingIfBucketIsFull" /\ k = <<StartFullBucketWait>>

\* A state has nothing to call, or starts or stops the timer it waits for, or
\* begins the handler of a switch that is reached.
AtWork(c, k, full) ==
    /\ c.state # "Idle" /\ Sound(c, 0)
    /\ \/ k = <<>> /\ (c.state = "CheckingIfBucketIsFull" => ~full)
       \/ /\ c.state = "MakingSureTheTrayIsHome"
          /\ k \in {<<StopTimer("GeneralPurpose")>>, <<StartHomingTwist>>}
       \/ c.state = "JumpingOutOfHome" /\ k = <<StartJumpOut>>
       \/ /\ c.state \in {"HomingReadyToLand", "HarvestReadyToLand"}
          /\ k = <<StartLanding>>
       \/ /\ c.state = "Untwisting"
          /\ k \in {<<TransitionTo("HarvestReadyToLand")>>, <<Become("HarvestReadyToLand")>>}
       \/ /\ c.state = "CheckingIfBucketIsFull"
          /\ k = <<SetHarvestResult("BucketWasFull"), Output("MotorCoasting"),
                   StopTimer("MotorError"), Remember("MotorCoasting"),
                   TransitionTo("BucketWasFoundToBeFull")>>
       \/ /\ c.state = "CheckingIfBucketIsFull" /\ c.harvestResult = "BucketWasFull"
          /\ k = <<Output("MotorCoasting"), StopTimer("MotorError"),
                   Remember("MotorCoasting"), TransitionTo("BucketWasFoundToBeFull")>>

\* The tray is almost home: the motor is told to go on as it does.
AtLanding(c, k) ==
    LET compare == Compare("MotorUntwisting", LongMotorErrorTimeout)
        remember == Remember("MotorUntwisting")
    IN  /\ c.state = "HarvestReadyToLand" /\ Sound(c, 0)
        /\ Rests(c) /\ c.motor = "MotorUntwisting"
        /\ k \in {<<Output("MotorUntwisting"), compare, remember>>,
                  <<compare, remember>>, <<remember>>}

\* The error timer of a motor that has been told to coast may still run.
MayBeTimed(c) ==
    \/ c.timer["MotorError"] = Stopped
    \/ /\ c.timer["MotorError"].left > 0
       /\ c.timer["MotorError"].signal = "MotorTimeout"

\* The bucket has been found to be full.
FindsFull(c, k) ==
    /\ c \in Controller /\ c.state = "CheckingIfBucketIsFull"
    /\ c.motor = "MotorCoasting" /\ c.harvestResult = "BucketWasFull"
    /\ \/ /\ Runs(c, {"FullBucketWaitElapsed"}) /\ MayBeTimed(c)
          /\ k = <<StopTimer("MotorError"), Remember("MotorCoasting"),
                   TransitionTo("BucketWasFoundToBeFull")>>
       \/ /\ Runs(c, {"FullBucketWaitElapsed"}) /\ c.timer["MotorError"] = Stopped
          /\ k = <<Remember("MotorCoasting"), TransitionTo("BucketWasFoundToBeFull")>>
       \/ /\ Runs(c, {"FullBucketWaitElapsed"}) /\ c.timer["MotorError"] = Stopped
          /\ c.lastMotor = "MotorCoasting"
          /\ k \in {<<TransitionTo("BucketWasFoundToBeFull")>>,
                    <<StopTimer("GeneralPurpose"), Become("BucketWasFoundToBeFull")>>}
       \/ /\ Rests(c) /\ c.timer["MotorError"] = Stopped
          /\ c.lastMotor = "MotorCoasting"
          /\ k = <<Become("BucketWasFoundToBeFull")>>

\* The motor is stopped for a pause, at the full twist or over a full bucket.
Pauses(c, k) ==
    /\ c \in Controller
    /\ c.state \in {"BucketWasFoundToBeFull", "StoppingAtFullTwist"}
    /\ Rests(c) \/ Runs(c, {"StoppingPeriodElapsed"})
    /\ MayBeTimed(c)
    /\ \/ /\ c.state = "BucketWasFoundToBeFull" => c.motor = "MotorCoasting"
          /\ c.motor \in Moving => c.timer["MotorError"] # Stopped
          /\ k = <<Output("MotorCoasting"), StopTimer("MotorError"),
                   Remember("MotorCoasting"), StartStopping>>
       \/ /\ c.motor = "MotorCoasting"
          /\ k = <<StopTimer("MotorError"), Remember("MotorCoasting"), StartStopping>>
       \/ /\ c.motor = "MotorCoasting" /\ c.timer["MotorError"] = Stopped
          /\ k = <<Remember("MotorCoasting"), StartStopping>>
       \/ /\ c.motor = "MotorCoasting" /\ c.timer["MotorError"] = Stopped
          /\ c.lastMotor = "MotorCoasting" /\ k = <<StartStopping>>

At(c, k, s, full, v, published, on) ==
    /\ c.state # "Idle" => on
    /\ Told(c, full, v, published)
    /\ \/ AtRest(c, k, full, v, on) \/ Begins(c, k, s, full)
       \/ AtWork(c, k, full) \/ AtLanding(c, k)
       \/ FindsFull(c, k) \/ Pauses(c, k)

MovementInv ==
    /\ TypeOK
    /\ overtaken \/ At(ctl, calls, sincePoll, felt, vote, resultErd, driveEnable[IceMaker])
-----------------------------------------------------------------------------
(***************************************************************************)
(* Each call of a handler leads to the point after it.                     *)
(***************************************************************************)
\* The results tell the same of a controller in the same place.
LEMMA ToldInPlace ==
    ASSUME NEW c, NEW y, SamePlace(c, y),
           NEW full, NEW v, NEW published, Told(c, full, v, published)
    PROVE  Told(y, full, v, published)
BY DEF Told, SamePlace

\* A controller that differs in its results alone is as sound.
LEMMA SoundButResults ==
    ASSUME NEW c, NEW y, NEW spare, Sound(c, spare), y \in Controller,
           y.state = c.state, y.motor = c.motor, y.lastMotor = c.lastMotor,
           y.timer = c.timer
    PROVE  Sound(y, spare)
BY DEF Sound, Shape, Timed, Rests, Runs

\* The order of a movement, and the entry of its first state.
LEMMA AtRestCalls ==
    ASSUME NEW c, NEW k, NEW s, NEW full \in BOOLEAN, NEW v, NEW published, NEW on,
           AtRest(c, k, full, v, on), Told(c, full, v, published), k # <<>>
    PROVE  LET y == Do(c, Head(k))
               r == Rest(c, Head(k), Tail(k))
           IN  /\ y.state # "Idle" => on
               /\ Told(y, full, v, published)
               /\ AtRest(y, r, full, v, on) \/ Begins(y, r, s, full)
<1> DEFINE y == Do(c, Head(k))
           r == Rest(c, Head(k), Tail(k))
<1>0. c \in Controller /\ c.state = "Idle" /\ Sound(c, 0)
  BY DEF AtRest, Sound
<1>1. ASSUME NEW res \in {"NoAction", "Homing", "Harvesting"}, NEW rest,
             Head(k) = SetResult(res), Tail(k) = rest
      PROVE  /\ Sound(y, 0) /\ y.state = "Idle" /\ y.result = res /\ r = rest
             /\ Told(y, full, v, published)
  <2> DEFINE z == [c EXCEPT !.result = res]
  <2>1. res \in Results /\ res \notin FinalResults
    BY DEF Results, FinalResults
  <2>6. Do(c, SetResult(res)) = z /\ Rest(c, SetResult(res), rest) = rest
    BY DEF Do, Rest, SetResult
  <2> HIDE DEF z
  <2>2. y = z /\ r = rest
    BY <1>1, <2>6
  <2>3. /\ z \in Controller /\ z.result = res
        /\ z.state = c.state /\ z.motor = c.motor /\ z.lastMotor = c.lastMotor
        /\ z.timer = c.timer /\ z.switch = c.switch
        /\ z.harvestResult = c.harvestResult
    BY <1>0, <2>1, ResultIsWritten DEF z
  <2> HIDE DEF y, r
  <2>4. Sound(z, 0)
    BY <1>0, <2>3, SoundButResults
  <2>5. Told(z, full, v, published)
    BY <1>0, <2>1, <2>3 DEF Told, HomingStates, HarvestStates, FinalResults
  <2> QED BY <1>0, <2>2, <2>3, <2>4, <2>5
<1>2. ASSUME NEW t, Head(k) = TransitionTo(t), Tail(k) = <<>>
      PROVE  y = c /\ r = <<Become(t)>>
  <2>1. ExitCalls(c.state) = <<>>
    BY <1>0 DEF ExitCalls, HomingStates
  <2>2. y = c /\ r = ExitCalls(c.state) \o <<Become(t)>>
    BY <1>2, TransitionCall
  <2> QED BY <2>1, <2>2, Empties
<1>3. ASSUME NEW t \in {"MakingSureTheTrayIsHome", "CheckingIfBucketIsFull"},
             k = <<Become(t)>>, on,
             t = "MakingSureTheTrayIsHome" => c.result = "Homing" /\ v = "Home",
             t = "CheckingIfBucketIsFull" => c.result = "Harvesting" /\ v = "Run" /\ ~full
      PROVE  Told(y, full, v, published) /\ Begins(y, r, s, full)
  <2> DEFINE z == [c EXCEPT !.state = t]
  <2>0. Do(c, Become(t)) = z /\ Rest(c, Become(t), <<>>) = EntryCalls(t, c.switch)
    BY DEF Do, Rest, Become
  <2> HIDE DEF z
  <2>1. y = z /\ r = EntryCalls(t, c.switch)
    BY <1>3, <2>0, First1
  <2>2. t \in ControllerStates
    BY DEF ControllerStates, HomingStates, HarvestStates
  <2>3. /\ z \in Controller /\ z.state = t
        /\ z.motor = c.motor /\ z.lastMotor = c.lastMotor
        /\ z.timer = c.timer /\ z.switch = c.switch
        /\ z.result = c.result /\ z.harvestResult = c.harvestResult
    BY <1>0, <2>2, StateIsWritten DEF z
  <2> HIDE DEF y, r
  <2>4. /\ c.motor \notin Moving /\ c.lastMotor \notin Moving /\ Rests(c)
        /\ c.timer["MotorError"] = Stopped
    BY <1>0 DEF Sound, Shape, Timed
  <2>5. Told(z, full, v, published)
    BY <1>3, <2>3 DEF Told, HomingStates, HarvestStates, FinalResults
  <2>6. r = IF NoTimer(z)
            THEN <<Output(NewMotor(z)), Compare(NewMotor(z), LongMotorErrorTimeout),
                   Remember(NewMotor(z))>>
            ELSE <<Output(NewMotor(z)), Compare(NewMotor(z), LongMotorErrorTimeout),
                   Remember(NewMotor(z)), FirstTimer(z)>>
    <3>1. CASE t = "MakingSureTheTrayIsHome" /\ ~c.switch
      <4>1. r = Turn("MotorUntwisting") \o <<>>
        BY <2>1, <3>1 DEF EntryCalls
      <4>2. NoTimer(z) /\ NewMotor(z) = "MotorUntwisting"
        BY <2>3, <3>1 DEF NoTimer, NewMotor
      <4> QED BY <4>1, <4>2, Empties DEF Turn
    <3>2. CASE t = "MakingSureTheTrayIsHome" /\ c.switch
      <4>1. r = Turn("MotorUntwisting") \o <<StartHomingTwist>>
        BY <2>1, <3>2 DEF EntryCalls
      <4>2. /\ ~NoTimer(z) /\ NewMotor(z) = "MotorUntwisting"
            /\ FirstTimer(z) = StartHomingTwist
        BY <2>3, <3>2 DEF NoTimer, NewMotor, FirstTimer
      <4> QED BY <4>1, <4>2, Join31 DEF Turn
    <3>3. CASE t = "CheckingIfBucketIsFull"
      <4>1. r = Turn("MotorTwisting") \o <<StartFullBucketWait>>
        BY <2>1, <3>3 DEF EntryCalls
      <4>2. /\ ~NoTimer(z) /\ NewMotor(z) = "MotorTwisting"
            /\ FirstTimer(z) = StartFullBucketWait
        BY <2>3, <3>3 DEF NoTimer, NewMotor, FirstTimer
      <4> QED BY <4>1, <4>2, Join31 DEF Turn
    <3> QED BY <1>3, <3>1, <3>2, <3>3
  <2>7. Begins(z, r, s, full)
    BY <1>3, <2>3, <2>4, <2>6 DEF Begins, Rests
  <2> QED BY <2>1, <2>5, <2>7
<1>4. CASE k = <<SetResult("NoAction")>>
  <2>1. Head(k) = SetResult("NoAction") /\ Tail(k) = <<>>
    BY <1>4, First1
  <2> HIDE DEF y, r
  <2>2. Sound(y, 0) /\ y.state = "Idle" /\ r = <<>> /\ Told(y, full, v, published)
    BY <1>1, <2>1
  <2> QED BY <2>2 DEF AtRest, y, r
<1>5. ASSUME NEW res \in {"Homing", "Harvesting"},
             NEW t \in {"MakingSureTheTrayIsHome", "CheckingIfBucketIsFull"},
             k = <<SetResult(res), TransitionTo(t)>>, on,
             res = "Homing" => t = "MakingSureTheTrayIsHome" /\ v = "Home",
             res = "Harvesting" => t = "CheckingIfBucketIsFull" /\ v = "Run" /\ ~full
      PROVE  /\ y.state # "Idle" => on
             /\ Told(y, full, v, published)
             /\ AtRest(y, r, full, v, on)
  <2>1. Head(k) = SetResult(res) /\ Tail(k) = <<TransitionTo(t)>>
    BY <1>5, First2
  <2> HIDE DEF y, r
  <2>2. /\ Sound(y, 0) /\ y.state = "Idle" /\ y.result = res
        /\ r = <<TransitionTo(t)>> /\ Told(y, full, v, published)
    BY <1>1, <1>5, <2>1
  <2>3. AtRest(y, r, full, v, on)
    BY <1>5, <2>2 DEF AtRest
  <2> QED BY <2>2, <2>3
<1>6. ASSUME NEW t \in {"MakingSureTheTrayIsHome", "CheckingIfBucketIsFull"},
             k = <<TransitionTo(t)>>, on,
             t = "MakingSureTheTrayIsHome" => c.result = "Homing" /\ v = "Home",
             t = "CheckingIfBucketIsFull" => c.result = "Harvesting" /\ v = "Run" /\ ~full
      PROVE  /\ y.state # "Idle" => on
             /\ Told(y, full, v, published)
             /\ AtRest(y, r, full, v, on)
  <2>1. Head(k) = TransitionTo(t) /\ Tail(k) = <<>>
    BY <1>6, First1
  <2>2. y = c /\ r = <<Become(t)>>
    BY <1>2, <2>1
  <2> HIDE DEF y, r
  <2>3. AtRest(c, r, full, v, on)
    BY <1>0, <1>6, <2>2 DEF AtRest
  <2> QED BY <1>0, <2>2, <2>3
<1> HIDE DEF y, r
<1>7. \/ k = <<SetResult("NoAction")>>
      \/ /\ on /\ v = "Home"
         /\ \/ k = <<SetResult("Homing"), TransitionTo("MakingSureTheTrayIsHome")>>
            \/ /\ c.result = "Homing"
               /\ k \in {<<TransitionTo("MakingSureTheTrayIsHome")>>,
                         <<Become("MakingSureTheTrayIsHome")>>}
      \/ /\ on /\ v = "Run" /\ ~full
         /\ \/ k = <<SetResult("Harvesting"), TransitionTo("CheckingIfBucketIsFull")>>
            \/ /\ c.result = "Harvesting"
               /\ k \in {<<TransitionTo("CheckingIfBucketIsFull")>>,
                         <<Become("CheckingIfBucketIsFull")>>}
  BY Zenon DEF AtRest
<1>8. CASE /\ on /\ v = "Home"
           /\ \/ k = <<SetResult("Homing"), TransitionTo("MakingSureTheTrayIsHome")>>
              \/ /\ c.result = "Homing"
                 /\ k \in {<<TransitionTo("MakingSureTheTrayIsHome")>>,
                           <<Become("MakingSureTheTrayIsHome")>>}
  <2>1. CASE k = <<SetResult("Homing"), TransitionTo("MakingSureTheTrayIsHome")>>
    BY <1>5, <1>8, <2>1 DEF y, r
  <2>2. CASE c.result = "Homing" /\ k = <<TransitionTo("MakingSureTheTrayIsHome")>>
    BY <1>6, <1>8, <2>2 DEF y, r
  <2>3. CASE c.result = "Homing" /\ k = <<Become("MakingSureTheTrayIsHome")>>
    BY <1>3, <1>8, <2>3 DEF y, r
  <2> QED BY <1>8, <2>1, <2>2, <2>3, Zenon
<1>9. CASE /\ on /\ v = "Run" /\ ~full
           /\ \/ k = <<SetResult("Harvesting"), TransitionTo("CheckingIfBucketIsFull")>>
              \/ /\ c.result = "Harvesting"
                 /\ k \in {<<TransitionTo("CheckingIfBucketIsFull")>>,
                           <<Become("CheckingIfBucketIsFull")>>}
  <2>1. CASE k = <<SetResult("Harvesting"), TransitionTo("CheckingIfBucketIsFull")>>
    BY <1>5, <1>9, <2>1 DEF y, r
  <2>2. CASE c.result = "Harvesting" /\ k = <<TransitionTo("CheckingIfBucketIsFull")>>
    BY <1>6, <1>9, <2>2 DEF y, r
  <2>3. CASE c.result = "Harvesting" /\ k = <<Become("CheckingIfBucketIsFull")>>
    BY <1>3, <1>9, <2>3 DEF y, r
  <2> QED BY <1>9, <2>1, <2>2, <2>3, Zenon
<1> QED BY <1>4, <1>7, <1>8, <1>9 DEF y, r

\* The calls, one by one, as far as the handlers under way make them.
LEMMA OutputStep ==
    ASSUME NEW c \in Controller, NEW m \in MotorStates, NEW rest
    PROVE  LET y == Do(c, Output(m)) IN
           /\ y \in Controller /\ SamePlace(c, y)
           /\ y.motor = m /\ y.lastMotor = c.lastMotor /\ y.timer = c.timer
           /\ Rest(c, Output(m), rest) = rest
<1> DEFINE z == [c EXCEPT !.motor = m]
<1>1. Do(c, Output(m)) = z /\ Rest(c, Output(m), rest) = rest
  BY DEF Do, Rest, Output
<1>2. /\ z \in Controller /\ SamePlace(c, z)
      /\ z.motor = m /\ z.lastMotor = c.lastMotor /\ z.timer = c.timer
  BY MotorIsWritten
<1> HIDE DEF z
<1> QED BY <1>1, <1>2

\* Remembering the motor state, in a controller.
LEMMA RememberStep ==
    ASSUME NEW c \in Controller, NEW m \in MotorStates, NEW rest
    PROVE  LET y == Do(c, Remember(m)) IN
           /\ y \in Controller /\ SamePlace(c, y)
           /\ y.motor = c.motor /\ y.lastMotor = m /\ y.timer = c.timer
           /\ Rest(c, Remember(m), rest) = rest
<1> DEFINE z == [c EXCEPT !.lastMotor = m]
<1>1. Do(c, Remember(m)) = z /\ Rest(c, Remember(m), rest) = rest
  BY DEF Do, Rest, Remember
<1>2. /\ z \in Controller /\ SamePlace(c, z)
      /\ z.motor = c.motor /\ z.lastMotor = m /\ z.timer = c.timer
  BY MotorIsWritten
<1> HIDE DEF z
<1> QED BY <1>1, <1>2

\* Stopping a timer, in a controller.
LEMMA StopStep ==
    ASSUME NEW c \in Controller, NEW t \in Timers, NEW rest
    PROVE  LET y == Do(c, StopTimer(t)) IN
           /\ y \in Controller /\ SamePlace(c, y)
           /\ y.motor = c.motor /\ y.lastMotor = c.lastMotor
           /\ y.timer[t] = Stopped
           /\ \A u \in Timers : u # t => y.timer[u] = c.timer[u]
           /\ Rest(c, StopTimer(t), rest) = rest
<1>1. Do(c, StopTimer(t)) = Stop(c, t) /\ Rest(c, StopTimer(t), rest) = rest
  BY DEF Do, Rest, StopTimer
<1> QED BY <1>1, StopFacts

\* Starting a timer, in a controller.
LEMMA StartStep ==
    ASSUME NEW c \in Controller, NEW t \in Timers, NEW rest,
           NEW period \in PeriodValues, NEW signal \in TimerSignals
    PROVE  LET y == Do(c, Start(t, period, signal)) IN
           /\ y \in Controller /\ SamePlace(c, y)
           /\ y.motor = c.motor /\ y.lastMotor = c.lastMotor
           /\ y.timer[t].left = period /\ y.timer[t].left > 0
           /\ y.timer[t].signal = signal
           /\ \A u \in Timers : u # t => y.timer[u] = c.timer[u]
           /\ Rest(c, Start(t, period, signal), rest) = rest
<1> DEFINE z == StartOneShot(c, t, period, signal)
<1>1. /\ Do(c, Start(t, period, signal)) = z
      /\ Rest(c, Start(t, period, signal), rest) = rest
  BY DEF Do, Rest, Start
<1>2. /\ z \in Controller /\ SamePlace(c, z)
      /\ z.motor = c.motor /\ z.lastMotor = c.lastMotor
      /\ z.timer[t].left = period /\ z.timer[t].left > 0
      /\ z.timer[t].signal = signal
      /\ \A u \in Timers : u # t => z.timer[u] = c.timer[u]
  BY StartFacts
<1> HIDE DEF z
<1> QED BY <1>1, <1>2

\* The general purpose timer is started for one of its signals.
LEMMA GeneralStep ==
    ASSUME NEW c \in Controller, NEW rest,
           NEW k \in {StartHomingTwist, StartJumpOut, StartLanding,
                      StartFullBucketWait, StartStopping}
    PROVE  LET y == Do(c, k) IN
           /\ y \in Controller /\ SamePlace(c, y)
           /\ y.motor = c.motor /\ y.lastMotor = c.lastMotor
           /\ y.timer["MotorError"] = c.timer["MotorError"]
           /\ k = StartHomingTwist => Runs(y, {"InitialHomingTwistPeriodElapsed"})
           /\ k = StartJumpOut => Runs(y, {"HomingJumpOutPeriodElapsed"})
           /\ k = StartLanding => Runs(y, {"LandingDelayElapsed"})
           /\ k = StartFullBucketWait =>
                 /\ Runs(y, {"FullBucketWaitElapsed"})
                 /\ y.timer["GeneralPurpose"].left = FullBucketDetectionPeriod
           /\ k = StartStopping => Runs(y, {"StoppingPeriodElapsed"})
           /\ Rest(c, k, rest) = rest
<1> DEFINE g == "GeneralPurpose"
<1>1. PICK period \in PeriodValues, signal \in TimerSignals :
         /\ k = Start(g, period, signal)
         /\ k = StartHomingTwist => signal = "InitialHomingTwistPeriodElapsed"
         /\ k = StartJumpOut => signal = "HomingJumpOutPeriodElapsed"
         /\ k = StartLanding => signal = "LandingDelayElapsed"
         /\ k = StartFullBucketWait =>
               signal = "FullBucketWaitElapsed" /\ period = FullBucketDetectionPeriod
         /\ k = StartStopping => signal = "StoppingPeriodElapsed"
  <2>1. \A p, q, a, b : Start(g, p, a) = Start(g, q, b) => p = q /\ a = b
    BY DEF Start
  <2>2. PICK period \in PeriodValues, signal \in TimerSignals : k = Start(g, period, signal)
    BY Periods, TheSignals
       DEF StartHomingTwist, StartJumpOut, StartLanding, StartFullBucketWait, StartStopping
  <2>3. /\ k = StartHomingTwist => signal = "InitialHomingTwistPeriodElapsed"
        /\ k = StartJumpOut => signal = "HomingJumpOutPeriodElapsed"
        /\ k = StartLanding => signal = "LandingDelayElapsed"
        /\ k = StartFullBucketWait =>
              signal = "FullBucketWaitElapsed" /\ period = FullBucketDetectionPeriod
        /\ k = StartStopping => signal = "StoppingPeriodElapsed"
    BY <2>1, <2>2
       DEF StartHomingTwist, StartJumpOut, StartLanding, StartFullBucketWait, StartStopping
  <2> QED BY <2>2, <2>3
<1> DEFINE y == Do(c, Start(g, period, signal))
<1>2. /\ y \in Controller /\ SamePlace(c, y)
      /\ y.motor = c.motor /\ y.lastMotor = c.lastMotor
      /\ y.timer[g].left = period /\ y.timer[g].left > 0
      /\ y.timer[g].signal = signal
      /\ \A u \in Timers : u # g => y.timer[u] = c.timer[u]
      /\ Rest(c, Start(g, period, signal), rest) = rest
  BY StartStep, TwoTimers
<1>3. Do(c, k) = y /\ Rest(c, k, rest) = rest
  BY <1>1, <1>2
<1> HIDE DEF y
<1>4. Runs(y, {signal})
  BY <1>2 DEF Runs
<1> QED BY <1>1, <1>2, <1>3, <1>4, TwoTimers

\* Setting the result of the harvest, in a controller.
LEMMA HarvestResultStep ==
    ASSUME NEW c \in Controller, NEW r \in Results, NEW rest
    PROVE  LET y == Do(c, SetHarvestResult(r)) IN
           /\ y \in Controller /\ y.harvestResult = r
           /\ y.state = c.state /\ y.motor = c.motor /\ y.lastMotor = c.lastMotor
           /\ y.timer = c.timer /\ y.switch = c.switch /\ y.result = c.result
           /\ Rest(c, SetHarvestResult(r), rest) = rest
<1> DEFINE z == [c EXCEPT !.harvestResult = r]
<1>1. Do(c, SetHarvestResult(r)) = z /\ Rest(c, SetHarvestResult(r), rest) = rest
  BY DEF Do, Rest, SetHarvestResult
<1>2. /\ z \in Controller /\ z.harvestResult = r
      /\ z.state = c.state /\ z.motor = c.motor /\ z.lastMotor = c.lastMotor
      /\ z.timer = c.timer /\ z.switch = c.switch /\ z.result = c.result
  BY HarvestResultIsWritten
<1> HIDE DEF z
<1> QED BY <1>1, <1>2

\* Entering the new state, in a controller.
LEMMA BecomeStep ==
    ASSUME NEW c \in Controller, NEW t \in ControllerStates, NEW rest
    PROVE  LET y == Do(c, Become(t)) IN
           /\ y \in Controller /\ y.state = t
           /\ y.motor = c.motor /\ y.lastMotor = c.lastMotor
           /\ y.timer = c.timer /\ y.switch = c.switch
           /\ y.result = c.result /\ y.harvestResult = c.harvestResult
           /\ Rest(c, Become(t), rest) = EntryCalls(t, c.switch)
<1> DEFINE z == [c EXCEPT !.state = t]
<1>1. Do(c, Become(t)) = z /\ Rest(c, Become(t), rest) = EntryCalls(t, c.switch)
  BY DEF Do, Rest, Become
<1>2. /\ z \in Controller /\ z.state = t
      /\ z.motor = c.motor /\ z.lastMotor = c.lastMotor
      /\ z.timer = c.timer /\ z.switch = c.switch
      /\ z.result = c.result /\ z.harvestResult = c.harvestResult
  BY StateIsWritten
<1> HIDE DEF z
<1> QED BY <1>1, <1>2

\* Beginning a transition.
LEMMA TransitionStep ==
    ASSUME NEW c, NEW t, NEW rest
    PROVE  /\ Do(c, TransitionTo(t)) = c
           /\ Rest(c, TransitionTo(t), rest) = ExitCalls(c.state) \o <<Become(t)>>
BY DEF Do, Rest, TransitionTo

\* Comparing with the motor state remembered.
LEMMA CompareStep ==
    ASSUME NEW c, NEW m, NEW timeout, NEW rest
    PROVE  /\ Do(c, Compare(m, timeout)) = c
           /\ Rest(c, Compare(m, timeout), rest) =
                 IF c.lastMotor = m THEN rest
                 ELSE <<Start("MotorError", timeout, "MotorTimeout")>> \o rest
BY DEF Do, Rest, Compare

\* The pause: from the output to the timer that ends it.
LEMMA PausesCalls ==
    ASSUME NEW c, NEW k, Pauses(c, k), NEW full
    PROVE  LET y == Do(c, Head(k))
               r == Rest(c, Head(k), Tail(k))
           IN SamePlace(c, y) /\ (Pauses(y, r) \/ AtWork(y, r, full))
<1> DEFINE y == Do(c, Head(k))
           r == Rest(c, Head(k), Tail(k))
           coast == Output("MotorCoasting")
           stop == StopTimer("MotorError")
           remember == Remember("MotorCoasting")
<1>0. /\ c \in Controller
      /\ c.state \in {"BucketWasFoundToBeFull", "StoppingAtFullTwist"}
      /\ Rests(c) \/ Runs(c, {"StoppingPeriodElapsed"})
      /\ MayBeTimed(c)
  BY DEF Pauses
<1>1. CASE k = <<coast, stop, remember, StartStopping>>
  <2>1. Head(k) = coast /\ Tail(k) = <<stop, remember, StartStopping>>
    BY <1>1, First4
  <2> HIDE DEF coast, stop, remember
  <2>2. /\ y \in Controller /\ SamePlace(c, y)
        /\ y.motor = "MotorCoasting" /\ y.timer = c.timer /\ r = Tail(k)
    <3>1. LET z == Do(c, Output("MotorCoasting")) IN
          /\ z \in Controller /\ SamePlace(c, z)
          /\ z.motor = "MotorCoasting" /\ z.timer = c.timer
          /\ Rest(c, Output("MotorCoasting"), Tail(k)) = Tail(k)
      <4> DEFINE rest == Tail(k)
      <4> HIDE DEF rest
      <4>1. "MotorCoasting" \in MotorStates
        BY DEF MotorStates
      <4>8. c \in Controller
        BY <1>0
      <4>9. LET z == Do(c, Output("MotorCoasting")) IN
            /\ z \in Controller /\ SamePlace(c, z)
            /\ z.motor = "MotorCoasting" /\ z.timer = c.timer
            /\ Rest(c, Output("MotorCoasting"), rest) = rest
        BY <4>8, <4>1, OutputStep
      <4> QED BY <4>9 DEF rest
    <3>2. Head(k) = Output("MotorCoasting")
      BY <2>1 DEF coast
    <3> QED BY <3>1, <3>2
  <2> HIDE DEF y, r
  <2>3. Pauses(y, r)
    BY <1>0, <2>1, <2>2 DEF Pauses, SamePlace, Rests, Runs, MayBeTimed, stop, remember
  <2> QED BY <2>2, <2>3 DEF y, r
<1>2. CASE c.motor = "MotorCoasting" /\ k = <<stop, remember, StartStopping>>
  <2>1. Head(k) = stop /\ Tail(k) = <<remember, StartStopping>>
    BY <1>2, First3
  <2> HIDE DEF coast, stop, remember
  <2>2. /\ y \in Controller /\ SamePlace(c, y) /\ y.motor = c.motor
        /\ y.timer["MotorError"] = Stopped
        /\ y.timer["GeneralPurpose"] = c.timer["GeneralPurpose"] /\ r = Tail(k)
    <3>1. LET z == Do(c, StopTimer("MotorError")) IN
          /\ z \in Controller /\ SamePlace(c, z) /\ z.motor = c.motor
          /\ z.timer["MotorError"] = Stopped
          /\ z.timer["GeneralPurpose"] = c.timer["GeneralPurpose"]
          /\ Rest(c, StopTimer("MotorError"), Tail(k)) = Tail(k)
      <4> DEFINE rest == Tail(k)
      <4> HIDE DEF rest
      <4>8. c \in Controller
        BY <1>0
      <4>9. LET z == Do(c, StopTimer("MotorError")) IN
            /\ z \in Controller /\ SamePlace(c, z) /\ z.motor = c.motor
            /\ z.timer["MotorError"] = Stopped
            /\ z.timer["GeneralPurpose"] = c.timer["GeneralPurpose"]
            /\ Rest(c, StopTimer("MotorError"), rest) = rest
        BY <4>8, StopStep, TwoTimers
      <4> QED BY <4>9 DEF rest
    <3>2. Head(k) = StopTimer("MotorError")
      BY <2>1 DEF stop
    <3> QED BY <3>1, <3>2
  <2> HIDE DEF y, r
  <2>3. Pauses(y, r)
    BY <1>0, <1>2, <2>1, <2>2 DEF Pauses, SamePlace, Rests, Runs, MayBeTimed, stop, remember
  <2> QED BY <2>2, <2>3 DEF y, r
<1>3. CASE /\ c.motor = "MotorCoasting" /\ c.timer["MotorError"] = Stopped
           /\ k = <<remember, StartStopping>>
  <2>1. Head(k) = remember /\ Tail(k) = <<StartStopping>>
    BY <1>3, First2
  <2> HIDE DEF coast, stop, remember
  <2>2. /\ y \in Controller /\ SamePlace(c, y) /\ y.motor = c.motor
        /\ y.lastMotor = "MotorCoasting" /\ y.timer = c.timer /\ r = Tail(k)
    <3>1. LET z == Do(c, Remember("MotorCoasting")) IN
          /\ z \in Controller /\ SamePlace(c, z) /\ z.motor = c.motor
          /\ z.lastMotor = "MotorCoasting" /\ z.timer = c.timer
          /\ Rest(c, Remember("MotorCoasting"), Tail(k)) = Tail(k)
      <4> DEFINE rest == Tail(k)
      <4> HIDE DEF rest
      <4>1. "MotorCoasting" \in MotorStates
        BY DEF MotorStates
      <4>8. c \in Controller
        BY <1>0
      <4>9. LET z == Do(c, Remember("MotorCoasting")) IN
            /\ z \in Controller /\ SamePlace(c, z) /\ z.motor = c.motor
            /\ z.lastMotor = "MotorCoasting" /\ z.timer = c.timer
            /\ Rest(c, Remember("MotorCoasting"), rest) = rest
        BY <4>8, <4>1, RememberStep
      <4> QED BY <4>9 DEF rest
    <3>2. Head(k) = Remember("MotorCoasting")
      BY <2>1 DEF remember
    <3> QED BY <3>1, <3>2
  <2> HIDE DEF y, r
  <2>3. Pauses(y, r)
    BY <1>0, <1>3, <2>1, <2>2 DEF Pauses, SamePlace, Rests, Runs, MayBeTimed
  <2> QED BY <2>2, <2>3 DEF y, r
<1>4. CASE /\ c.motor = "MotorCoasting" /\ c.timer["MotorError"] = Stopped
           /\ c.lastMotor = "MotorCoasting" /\ k = <<StartStopping>>
  <2>1. Head(k) = StartStopping /\ Tail(k) = <<>>
    BY <1>4, First1
  <2>2. /\ y \in Controller /\ SamePlace(c, y)
        /\ y.motor = c.motor /\ y.lastMotor = c.lastMotor
        /\ y.timer["MotorError"] = c.timer["MotorError"]
        /\ Runs(y, {"StoppingPeriodElapsed"}) /\ r = Tail(k)
    BY <1>0, <2>1, GeneralStep
  <2> HIDE DEF y, r
  <2>3. Timed(y)
    BY <1>4, <2>2, TheMotors DEF Timed
  <2>4. Sound(y, 0)
    BY <1>0, <1>4, <2>2, <2>3, TheMotors DEF Sound, Shape, SamePlace
  <2>5. AtWork(y, r, full)
    BY <1>0, <2>1, <2>2, <2>4 DEF AtWork, SamePlace
  <2> QED BY <2>2, <2>5 DEF y, r
<1> QED BY <1>1, <1>2, <1>3, <1>4, Zenon DEF Pauses

\* The full bucket: from the output to the state that waits over it.
LEMMA FindsFullCalls ==
    ASSUME NEW c, NEW k, FindsFull(c, k),
           NEW full, NEW v, NEW published, Told(c, full, v, published)
    PROVE  LET y == Do(c, Head(k))
               r == Rest(c, Head(k), Tail(k))
           IN  /\ y.state # "Idle"
               /\ Told(y, full, v, published)
               /\ FindsFull(y, r) \/ Pauses(y, r)
<1> DEFINE y == Do(c, Head(k))
           r == Rest(c, Head(k), Tail(k))
           stop == StopTimer("MotorError")
           remember == Remember("MotorCoasting")
           leave == TransitionTo("BucketWasFoundToBeFull")
           become == Become("BucketWasFoundToBeFull")
<1>0. /\ c \in Controller /\ c.state = "CheckingIfBucketIsFull"
      /\ c.motor = "MotorCoasting" /\ c.harvestResult = "BucketWasFull"
  BY DEF FindsFull
<1>1. CASE /\ Runs(c, {"FullBucketWaitElapsed"}) /\ MayBeTimed(c)
           /\ k = <<stop, remember, leave>>
  <2>1. Head(k) = stop /\ Tail(k) = <<remember, leave>>
    BY <1>1, First3
  <2> HIDE DEF stop, remember, leave
  <2>2. /\ y \in Controller /\ SamePlace(c, y) /\ y.motor = c.motor
        /\ y.timer["MotorError"] = Stopped
        /\ y.timer["GeneralPurpose"] = c.timer["GeneralPurpose"] /\ r = Tail(k)
    <3>1. LET z == Do(c, StopTimer("MotorError")) IN
          /\ z \in Controller /\ SamePlace(c, z) /\ z.motor = c.motor
          /\ z.timer["MotorError"] = Stopped
          /\ z.timer["GeneralPurpose"] = c.timer["GeneralPurpose"]
          /\ Rest(c, StopTimer("MotorError"), Tail(k)) = Tail(k)
      <4> DEFINE rest == Tail(k)
      <4> HIDE DEF rest
      <4>8. c \in Controller
        BY <1>0
      <4>9. LET z == Do(c, StopTimer("MotorError")) IN
            /\ z \in Controller /\ SamePlace(c, z) /\ z.motor = c.motor
            /\ z.timer["MotorError"] = Stopped
            /\ z.timer["GeneralPurpose"] = c.timer["GeneralPurpose"]
            /\ Rest(c, StopTimer("MotorError"), rest) = rest
        BY <4>8, StopStep, TwoTimers
      <4> QED BY <4>9 DEF rest
    <3>2. Head(k) = StopTimer("MotorError")
      BY <2>1 DEF stop
    <3> QED BY <3>1, <3>2
  <2> HIDE DEF y, r
  <2>3. FindsFull(y, r)
    BY <1>0, <1>1, <2>1, <2>2 DEF FindsFull, SamePlace, Runs, remember, leave
  <2>4. Told(y, full, v, published)
    BY <2>2, ToldInPlace
  <2> QED BY <1>0, <2>2, <2>3, <2>4 DEF y, r, SamePlace
<1>2. CASE /\ Runs(c, {"FullBucketWaitElapsed"}) /\ c.timer["MotorError"] = Stopped
           /\ k = <<remember, leave>>
  <2>1. Head(k) = remember /\ Tail(k) = <<leave>>
    BY <1>2, First2
  <2> HIDE DEF stop, remember, leave
  <2>2. /\ y \in Controller /\ SamePlace(c, y) /\ y.motor = c.motor
        /\ y.lastMotor = "MotorCoasting" /\ y.timer = c.timer /\ r = Tail(k)
    <3>1. LET z == Do(c, Remember("MotorCoasting")) IN
          /\ z \in Controller /\ SamePlace(c, z) /\ z.motor = c.motor
          /\ z.lastMotor = "MotorCoasting" /\ z.timer = c.timer
          /\ Rest(c, Remember("MotorCoasting"), Tail(k)) = Tail(k)
      <4> DEFINE rest == Tail(k)
      <4> HIDE DEF rest
      <4>1. "MotorCoasting" \in MotorStates
        BY DEF MotorStates
      <4>8. c \in Controller
        BY <1>0
      <4>9. LET z == Do(c, Remember("MotorCoasting")) IN
            /\ z \in Controller /\ SamePlace(c, z) /\ z.motor = c.motor
            /\ z.lastMotor = "MotorCoasting" /\ z.timer = c.timer
            /\ Rest(c, Remember("MotorCoasting"), rest) = rest
        BY <4>8, <4>1, RememberStep
      <4> QED BY <4>9 DEF rest
    <3>2. Head(k) = Remember("MotorCoasting")
      BY <2>1 DEF remember
    <3> QED BY <3>1, <3>2
  <2> HIDE DEF y, r
  <2>3. FindsFull(y, r)
    BY <1>0, <1>2, <2>1, <2>2 DEF FindsFull, SamePlace, Runs, leave
  <2>4. Told(y, full, v, published)
    BY <2>2, ToldInPlace
  <2> QED BY <1>0, <2>2, <2>3, <2>4 DEF y, r, SamePlace
<1>3. CASE /\ Runs(c, {"FullBucketWaitElapsed"}) /\ c.timer["MotorError"] = Stopped
           /\ c.lastMotor = "MotorCoasting" /\ k = <<leave>>
  <2>1. Head(k) = leave
    BY <1>3, First1
  <2>2. ExitCalls(c.state) = <<StopTimer("GeneralPurpose")>>
    BY <1>0 DEF ExitCalls, HomingStates
  <2>3. y = c /\ r = <<StopTimer("GeneralPurpose")>> \o <<become>>
    BY <2>1, <2>2, TransitionStep
  <2>4. r = <<StopTimer("GeneralPurpose"), become>>
    BY <2>3, Join11
  <2> HIDE DEF y, r
  <2>5. FindsFull(c, r)
    BY <1>0, <1>3, <2>4 DEF FindsFull
  <2> QED BY <1>0, <2>3, <2>5 DEF y, r
<1>4. CASE /\ Runs(c, {"FullBucketWaitElapsed"}) /\ c.timer["MotorError"] = Stopped
           /\ c.lastMotor = "MotorCoasting"
           /\ k = <<StopTimer("GeneralPurpose"), become>>
  <2>1. Head(k) = StopTimer("GeneralPurpose") /\ Tail(k) = <<become>>
    BY <1>4, First2
  <2> HIDE DEF become
  <2>2. /\ y \in Controller /\ SamePlace(c, y)
        /\ y.motor = c.motor /\ y.lastMotor = c.lastMotor
        /\ y.timer["GeneralPurpose"] = Stopped
        /\ y.timer["MotorError"] = c.timer["MotorError"] /\ r = Tail(k)
    <3>1. LET z == Do(c, StopTimer("GeneralPurpose")) IN
          /\ z \in Controller /\ SamePlace(c, z)
          /\ z.motor = c.motor /\ z.lastMotor = c.lastMotor
          /\ z.timer["GeneralPurpose"] = Stopped
          /\ z.timer["MotorError"] = c.timer["MotorError"]
          /\ Rest(c, StopTimer("GeneralPurpose"), Tail(k)) = Tail(k)
      <4> DEFINE rest == Tail(k)
      <4> HIDE DEF rest
      <4>8. c \in Controller
        BY <1>0
      <4>9. LET z == Do(c, StopTimer("GeneralPurpose")) IN
            /\ z \in Controller /\ SamePlace(c, z)
            /\ z.motor = c.motor /\ z.lastMotor = c.lastMotor
            /\ z.timer["GeneralPurpose"] = Stopped
            /\ z.timer["MotorError"] = c.timer["MotorError"]
            /\ Rest(c, StopTimer("GeneralPurpose"), rest) = rest
        BY <4>8, StopStep, TwoTimers
      <4> QED BY <4>9 DEF rest
    <3> QED BY <2>1, <3>1
  <2> HIDE DEF y, r
  <2>3. FindsFull(y, r)
    BY <1>0, <1>4, <2>1, <2>2 DEF FindsFull, SamePlace, Rests, become
  <2>4. Told(y, full, v, published)
    BY <2>2, ToldInPlace
  <2> QED BY <1>0, <2>2, <2>3, <2>4 DEF y, r, SamePlace
<1>5. CASE /\ Rests(c) /\ c.timer["MotorError"] = Stopped
           /\ c.lastMotor = "MotorCoasting" /\ k = <<become>>
  <2>1. Head(k) = become
    BY <1>5, First1
  <2>2. "BucketWasFoundToBeFull" \in ControllerStates
    BY DEF ControllerStates, HarvestStates
  <2>3. /\ y \in Controller /\ y.state = "BucketWasFoundToBeFull"
        /\ y.motor = c.motor /\ y.lastMotor = c.lastMotor
        /\ y.timer = c.timer
        /\ y.result = c.result /\ y.harvestResult = c.harvestResult
        /\ r = EntryCalls("BucketWasFoundToBeFull", c.switch)
    BY <1>0, <2>1, <2>2, BecomeStep
  <2> HIDE DEF y, r
  <2>4. r = Coast \o <<StartStopping>>
    BY <2>3 DEF EntryCalls
  <2>5. r = <<Output("MotorCoasting"), stop, remember, StartStopping>>
    BY <2>4, Join31 DEF Coast
  <2>6. Pauses(y, r)
    BY <1>0, <1>5, <2>3, <2>5, TheMotors DEF Pauses, Rests, MayBeTimed
  <2>7. Told(y, full, v, published)
    <3>1. /\ "CheckingIfBucketIsFull" \in HarvestStates
          /\ "BucketWasFoundToBeFull" \in HarvestStates \ {"CheckingIfBucketIsFull"}
          /\ "BucketWasFoundToBeFull" \notin HomingStates
          /\ "BucketWasFull" \in HarvestEnds /\ "BucketWasFull" # "Harvested"
      BY DEF HomingStates, HarvestStates, HarvestEnds
    <3> QED BY <1>0, <2>3, <3>1 DEF Told
  <2> QED BY <2>3, <2>6, <2>7 DEF y, r
<1> QED BY <1>1, <1>2, <1>3, <1>4, <1>5, Zenon DEF FindsFull

\* A controller whose motor is as it was is timed as it was.
LEMMA TimedAsBefore ==
    ASSUME NEW c, NEW y, Timed(c), y.motor = c.motor, y.lastMotor = c.lastMotor,
           y.timer["MotorError"] = c.timer["MotorError"]
    PROVE  Timed(y)
BY DEF Timed

\* A state at work: its timer is started or stopped, or its switch is reached.
LEMMA AtWorkCalls ==
    ASSUME NEW c, NEW k, NEW full, AtWork(c, k, full), k # <<>>,
           NEW v, NEW published, Told(c, full, v, published)
    PROVE  LET y == Do(c, Head(k))
               r == Rest(c, Head(k), Tail(k))
           IN  /\ Told(y, full, v, published)
               /\ AtWork(y, r, full) \/ AtLanding(y, r) \/ FindsFull(y, r)
<1> DEFINE y == Do(c, Head(k))
           r == Rest(c, Head(k), Tail(k))
           coast == Output("MotorCoasting")
           stop == StopTimer("MotorError")
           remember == Remember("MotorCoasting")
           leave == TransitionTo("BucketWasFoundToBeFull")
<1>0. /\ c \in Controller /\ c.state # "Idle" /\ Sound(c, 0)
      /\ Timed(c) /\ Shape(c, 0)
  BY DEF AtWork, Sound
<1>1. ASSUME c.state = "MakingSureTheTrayIsHome", k = <<StopTimer("GeneralPurpose")>>
      PROVE  Told(y, full, v, published) /\ AtWork(y, r, full)
  <2>1. Head(k) = StopTimer("GeneralPurpose") /\ Tail(k) = <<>>
    BY <1>1, First1
  <2>2. /\ y \in Controller /\ SamePlace(c, y)
        /\ y.motor = c.motor /\ y.lastMotor = c.lastMotor
        /\ y.timer["GeneralPurpose"] = Stopped
        /\ y.timer["MotorError"] = c.timer["MotorError"] /\ r = <<>>
    <3>1. LET z == Do(c, StopTimer("GeneralPurpose")) IN
          /\ z \in Controller /\ SamePlace(c, z)
          /\ z.motor = c.motor /\ z.lastMotor = c.lastMotor
          /\ z.timer["GeneralPurpose"] = Stopped
          /\ z.timer["MotorError"] = c.timer["MotorError"]
          /\ Rest(c, StopTimer("GeneralPurpose"), <<>>) = <<>>
      BY <1>0, StopStep, TwoTimers
    <3> QED BY <2>1, <3>1
  <2> HIDE DEF y, r
  <2>3. Timed(y)
    BY <1>0, <2>2, TimedAsBefore
  <2>4. Shape(y, 0)
    BY <1>0, <1>1, <2>2 DEF Shape, Rests, SamePlace
  <2>5. AtWork(y, r, full)
    BY <1>1, <2>2, <2>3, <2>4 DEF AtWork, Sound, SamePlace
  <2> QED BY <2>2, <2>5, ToldInPlace
<1>2. ASSUME \/ c.state = "MakingSureTheTrayIsHome" /\ k = <<StartHomingTwist>>
             \/ c.state = "JumpingOutOfHome" /\ k = <<StartJumpOut>>
             \/ /\ c.state \in {"HomingReadyToLand", "HarvestReadyToLand"}
                /\ k = <<StartLanding>>
      PROVE  Told(y, full, v, published) /\ AtWork(y, r, full)
  <2> DEFINE h == Head(k)
  <2>1. /\ h \in {StartHomingTwist, StartJumpOut, StartLanding} /\ Tail(k) = <<>>
        /\ c.state = "MakingSureTheTrayIsHome" => h = StartHomingTwist
        /\ c.state = "JumpingOutOfHome" => h = StartJumpOut
        /\ c.state \in {"HomingReadyToLand", "HarvestReadyToLand"} => h = StartLanding
    BY <1>2, First1
  <2>2. y = Do(c, h) /\ r = Rest(c, h, <<>>)
    BY <2>1
  <2> HIDE DEF y, r, h
  <2>3. /\ y \in Controller /\ SamePlace(c, y)
        /\ y.motor = c.motor /\ y.lastMotor = c.lastMotor
        /\ y.timer["MotorError"] = c.timer["MotorError"]
        /\ h = StartHomingTwist => Runs(y, {"InitialHomingTwistPeriodElapsed"})
        /\ h = StartJumpOut => Runs(y, {"HomingJumpOutPeriodElapsed"})
        /\ h = StartLanding => Runs(y, {"LandingDelayElapsed"})
        /\ r = <<>>
    BY <1>0, <2>1, <2>2, GeneralStep
  <2>4. Timed(y)
    BY <1>0, <2>3, TimedAsBefore
  <2>5. Shape(y, 0)
    BY <1>0, <1>2, <2>1, <2>3 DEF Shape, Runs, SamePlace
  <2>6. AtWork(y, r, full)
    BY <1>2, <2>3, <2>4, <2>5 DEF AtWork, Sound, SamePlace
  <2> QED BY <2>3, <2>6, ToldInPlace
<1>3. ASSUME c.state = "Untwisting", k = <<TransitionTo("HarvestReadyToLand")>>
      PROVE  Told(y, full, v, published) /\ AtWork(y, r, full)
  <2>1. Head(k) = TransitionTo("HarvestReadyToLand") /\ Tail(k) = <<>>
    BY <1>3, First1
  <2>2. ExitCalls(c.state) = <<>>
    BY <1>3 DEF ExitCalls, HomingStates
  <2>3. y = c /\ r = ExitCalls(c.state) \o <<Become("HarvestReadyToLand")>>
    BY <2>1, TransitionStep
  <2>4. r = <<Become("HarvestReadyToLand")>>
    BY <2>2, <2>3, Empties
  <2> HIDE DEF y, r
  <2> QED BY <1>0, <1>3, <2>3, <2>4 DEF AtWork
<1>4. ASSUME c.state = "Untwisting", k = <<Become("HarvestReadyToLand")>>
      PROVE  Told(y, full, v, published) /\ AtLanding(y, r)
  <2>1. Head(k) = Become("HarvestReadyToLand")
    BY <1>4, First1
  <2>2. "HarvestReadyToLand" \in ControllerStates
    BY DEF ControllerStates, HarvestStates
  <2>3. /\ y \in Controller /\ y.state = "HarvestReadyToLand"
        /\ y.motor = c.motor /\ y.lastMotor = c.lastMotor
        /\ y.timer = c.timer
        /\ y.result = c.result /\ y.harvestResult = c.harvestResult
        /\ r = EntryCalls("HarvestReadyToLand", c.switch)
    BY <1>0, <2>1, <2>2, BecomeStep
  <2> HIDE DEF y, r
  <2>4. r = <<Output("MotorUntwisting"),
              Compare("MotorUntwisting", LongMotorErrorTimeout),
              Remember("MotorUntwisting")>>
    BY <2>3 DEF EntryCalls, Turn
  <2>5. Rests(c) /\ c.motor = "MotorUntwisting"
    BY <1>0, <1>4 DEF Shape
  <2>6. Timed(y)
    BY <1>0, <2>3, TimedAsBefore
  <2>7. Shape(y, 0)
    BY <2>3, <2>5, TheMotors DEF Shape, Rests
  <2>8. AtLanding(y, r)
    BY <2>3, <2>4, <2>5, <2>6, <2>7 DEF AtLanding, Sound, Rests
  <2>9. Told(y, full, v, published)
    <3>1. /\ "Untwisting" \in HarvestStates \ {"CheckingIfBucketIsFull"}
          /\ "HarvestReadyToLand" \in HarvestStates \ {"CheckingIfBucketIsFull"}
          /\ "HarvestReadyToLand" \notin HomingStates
      BY DEF HomingStates, HarvestStates
    <3> QED BY <1>4, <2>3, <3>1 DEF Told
  <2> QED BY <2>8, <2>9
<1>5. ASSUME c.state = "CheckingIfBucketIsFull",
             k = <<SetHarvestResult("BucketWasFull"), coast, stop, remember, leave>>
      PROVE  Told(y, full, v, published) /\ AtWork(y, r, full)
  <2>1. Head(k) = SetHarvestResult("BucketWasFull") /\ Tail(k) = <<coast, stop, remember, leave>>
    BY <1>5, First5
  <2> HIDE DEF coast, stop, remember, leave
  <2>2. /\ y \in Controller /\ y.harvestResult = "BucketWasFull"
        /\ y.state = c.state /\ y.motor = c.motor /\ y.lastMotor = c.lastMotor
        /\ y.timer = c.timer /\ y.result = c.result /\ r = Tail(k)
    <3>1. "BucketWasFull" \in Results
      BY DEF Results, FinalResults
    <3>2. LET z == Do(c, SetHarvestResult("BucketWasFull")) IN
          /\ z \in Controller /\ z.harvestResult = "BucketWasFull"
          /\ z.state = c.state /\ z.motor = c.motor /\ z.lastMotor = c.lastMotor
          /\ z.timer = c.timer /\ z.result = c.result
          /\ Rest(c, SetHarvestResult("BucketWasFull"), Tail(k)) = Tail(k)
      <4> DEFINE z == Do(c, SetHarvestResult("BucketWasFull"))
                 rest == Tail(k)
      <4> HIDE DEF rest
      <4>1. /\ z \in Controller /\ z.harvestResult = "BucketWasFull"
            /\ z.state = c.state /\ z.motor = c.motor /\ z.lastMotor = c.lastMotor
            /\ z.timer = c.timer /\ z.result = c.result
            /\ Rest(c, SetHarvestResult("BucketWasFull"), rest) = rest
        BY <1>0, <3>1, HarvestResultStep
      <4> QED BY <4>1 DEF rest
    <3> QED BY <2>1, <3>2
  <2> HIDE DEF y, r
  <2>3. Sound(y, 0)
    BY <1>0, <2>2, SoundButResults
  <2>4. AtWork(y, r, full)
    BY <1>5, <2>1, <2>2, <2>3 DEF AtWork, coast, stop, remember, leave
  <2>5. Told(y, full, v, published)
    BY <1>5, <2>2 DEF Told
  <2> QED BY <2>4, <2>5
<1>6. ASSUME c.state = "CheckingIfBucketIsFull", c.harvestResult = "BucketWasFull",
             k = <<coast, stop, remember, leave>>
      PROVE  Told(y, full, v, published) /\ FindsFull(y, r)
  <2>1. Head(k) = coast /\ Tail(k) = <<stop, remember, leave>>
    BY <1>6, First4
  <2> HIDE DEF stop, remember, leave
  <2>2. /\ y \in Controller /\ SamePlace(c, y)
        /\ y.motor = "MotorCoasting" /\ y.timer = c.timer /\ r = Tail(k)
    <3>1. "MotorCoasting" \in MotorStates
      BY DEF MotorStates
    <3>2. LET z == Do(c, Output("MotorCoasting")) IN
          /\ z \in Controller /\ SamePlace(c, z)
          /\ z.motor = "MotorCoasting" /\ z.timer = c.timer
          /\ Rest(c, Output("MotorCoasting"), Tail(k)) = Tail(k)
      <4> DEFINE rest == Tail(k)
      <4> HIDE DEF rest
      <4>8. c \in Controller
        BY <1>0
      <4>9. LET z == Do(c, Output("MotorCoasting")) IN
            /\ z \in Controller /\ SamePlace(c, z)
            /\ z.motor = "MotorCoasting" /\ z.timer = c.timer
            /\ Rest(c, Output("MotorCoasting"), rest) = rest
        BY <4>8, <3>1, OutputStep
      <4> QED BY <4>9 DEF rest
    <3> QED BY <2>1, <3>2
  <2> HIDE DEF y, r
  <2>3. /\ c.motor \in Moving /\ Runs(c, {"FullBucketWaitElapsed"})
        /\ MayBeTimed(c)
    BY <1>0, <1>6, TheMotors DEF Shape, Timed, MayBeTimed
  <2>4. FindsFull(y, r)
    BY <1>6, <2>1, <2>2, <2>3 DEF FindsFull, SamePlace, Runs, MayBeTimed, stop, remember, leave
  <2> QED BY <2>2, <2>4, ToldInPlace
<1> QED BY <1>1, <1>2, <1>3, <1>4, <1>5, <1>6, Zenon DEF AtWork

\* The landing of a harvest: its motor goes on.
LEMMA AtLandingCalls ==
    ASSUME NEW c, NEW k, AtLanding(c, k), NEW full
    PROVE  LET y == Do(c, Head(k))
               r == Rest(c, Head(k), Tail(k))
           IN SamePlace(c, y) /\ (AtLanding(y, r) \/ AtWork(y, r, full))
<1> DEFINE y == Do(c, Head(k))
           r == Rest(c, Head(k), Tail(k))
           compare == Compare("MotorUntwisting", LongMotorErrorTimeout)
           remember == Remember("MotorUntwisting")
<1>0. /\ c \in Controller /\ c.state = "HarvestReadyToLand" /\ Sound(c, 0)
      /\ Rests(c) /\ c.motor = "MotorUntwisting" /\ c.lastMotor = "MotorUntwisting"
      /\ "MotorUntwisting" \in MotorStates
  BY TheMotors DEF AtLanding, Sound, Timed
<1>1. CASE k = <<Output("MotorUntwisting"), compare, remember>>
  <2>1. Head(k) = Output("MotorUntwisting") /\ Tail(k) = <<compare, remember>>
    BY <1>1, First3
  <2> HIDE DEF compare, remember
  <2>2. /\ y \in Controller /\ SamePlace(c, y) /\ y.motor = "MotorUntwisting"
        /\ y.lastMotor = c.lastMotor /\ y.timer = c.timer /\ r = Tail(k)
    <3>1. LET z == Do(c, Output("MotorUntwisting")) IN
          /\ z \in Controller /\ SamePlace(c, z) /\ z.motor = "MotorUntwisting"
          /\ z.lastMotor = c.lastMotor /\ z.timer = c.timer
          /\ Rest(c, Output("MotorUntwisting"), Tail(k)) = Tail(k)
      <4> DEFINE rest == Tail(k)
      <4> HIDE DEF rest
      <4>8. c \in Controller
        BY <1>0
      <4>9. LET z == Do(c, Output("MotorUntwisting")) IN
            /\ z \in Controller /\ SamePlace(c, z) /\ z.motor = "MotorUntwisting"
            /\ z.lastMotor = c.lastMotor /\ z.timer = c.timer
            /\ Rest(c, Output("MotorUntwisting"), rest) = rest
        BY <1>0, <4>8, OutputStep
      <4> QED BY <4>9 DEF rest
    <3> QED BY <2>1, <3>1
  <2> HIDE DEF y, r
  <2>3. Sound(y, 0) /\ Rests(y) /\ y.state = "HarvestReadyToLand"
    BY <1>0, <2>2, SoundButResults DEF SamePlace, Rests
  <2>4. AtLanding(y, r)
    BY <2>1, <2>2, <2>3 DEF AtLanding, compare, remember
  <2> QED BY <2>2, <2>4 DEF y, r
<1>2. CASE k = <<compare, remember>>
  <2>1. Head(k) = compare /\ Tail(k) = <<remember>>
    BY <1>2, First2
  <2>2. y = c /\ r = <<remember>>
    <3> DEFINE rest == Tail(k)
    <3> HIDE DEF rest
    <3>1. LET h == Compare("MotorUntwisting", LongMotorErrorTimeout) IN
          /\ Do(c, h) = c
          /\ Rest(c, h, rest) =
                IF c.lastMotor = "MotorUntwisting" THEN rest
                ELSE <<Start("MotorError", LongMotorErrorTimeout, "MotorTimeout")>> \o rest
      BY CompareStep
    <3>2. /\ Do(c, compare) = c /\ Rest(c, compare, rest) = rest
      BY <1>0, <3>1
    <3> HIDE DEF compare
    <3>3. /\ Do(c, Head(k)) = c /\ Rest(c, Head(k), Tail(k)) = rest
      BY <2>1, <3>2 DEF rest
    <3>4. rest = <<remember>>
      BY <2>1 DEF rest
    <3> QED BY <3>3, <3>4
  <2> HIDE DEF y, r
  <2>3. AtLanding(c, r)
    BY <1>0, <2>2 DEF AtLanding
  <2> QED BY <2>2, <2>3 DEF y, r, SamePlace
<1>3. CASE k = <<remember>>
  <2>1. Head(k) = remember /\ Tail(k) = <<>>
    BY <1>3, First1
  <2>2. /\ y \in Controller /\ SamePlace(c, y) /\ y.motor = c.motor
        /\ y.lastMotor = "MotorUntwisting" /\ y.timer = c.timer /\ r = <<>>
    <3>1. LET z == Do(c, Remember("MotorUntwisting")) IN
          /\ z \in Controller /\ SamePlace(c, z) /\ z.motor = c.motor
          /\ z.lastMotor = "MotorUntwisting" /\ z.timer = c.timer
          /\ Rest(c, Remember("MotorUntwisting"), <<>>) = <<>>
      BY <1>0, RememberStep
    <3> QED BY <2>1, <3>1
  <2> HIDE DEF y, r
  <2>3. Sound(y, 0)
    BY <1>0, <2>2, SoundButResults DEF SamePlace
  <2>4. AtWork(y, r, full)
    BY <1>0, <2>2, <2>3 DEF AtWork, SamePlace
  <2> QED BY <2>2, <2>4 DEF y, r
<1> QED BY <1>1, <1>2, <1>3, Zenon DEF AtLanding

\* The beginning of a movement: the motor is told, timed and remembered.
LEMMA BeginsCalls ==
    ASSUME NEW c, NEW k, NEW full \in BOOLEAN, NEW s \in 0 .. PollPeriod,
           Begins(c, k, s, full)
    PROVE  LET y == Do(c, Head(k))
               r == Rest(c, Head(k), Tail(k))
           IN SamePlace(c, y) /\ (Begins(y, r, s, full) \/ AtWork(y, r, full))
<1> DEFINE y == Do(c, Head(k))
           r == Rest(c, Head(k), Tail(k))
           new == NewMotor(c)
           first == FirstTimer(c)
           compare == Compare(new, LongMotorErrorTimeout)
           remember == Remember(new)
           start == Start("MotorError", LongMotorErrorTimeout, "MotorTimeout")
<1>0. /\ c \in Controller /\ Rests(c) /\ new \in Moving /\ new \in MotorStates
      /\ \/ c.state = "MakingSureTheTrayIsHome"
         \/ c.state = "CheckingIfBucketIsFull" /\ ~full
  BY TheMotors DEF Begins, NewMotor
<1>a. ASSUME SamePlace(c, y)
      PROVE  /\ NewMotor(y) = new /\ FirstTimer(y) = first /\ NoTimer(y) = NoTimer(c)
             /\ y.state = c.state
  BY <1>a DEF SamePlace, NewMotor, FirstTimer, NoTimer
<1>1. CASE /\ c.motor \notin Moving /\ c.lastMotor \notin Moving
           /\ c.timer["MotorError"] = Stopped
           /\ k = IF NoTimer(c) THEN <<Output(new), compare, remember>>
                  ELSE <<Output(new), compare, remember, first>>
  <2>1. /\ Head(k) = Output(new)
        /\ Tail(k) = IF NoTimer(c) THEN <<compare, remember>>
                     ELSE <<compare, remember, first>>
    BY <1>1, First3, First4
  <2>2. /\ y \in Controller /\ SamePlace(c, y) /\ y.motor = new
        /\ y.lastMotor = c.lastMotor /\ y.timer = c.timer /\ r = Tail(k)
    <3> HIDE DEF new
    <3> DEFINE rest == Tail(k)
    <3> HIDE DEF rest
    <3>1. LET z == Do(c, Output(new)) IN
          /\ z \in Controller /\ SamePlace(c, z) /\ z.motor = new
          /\ z.lastMotor = c.lastMotor /\ z.timer = c.timer
          /\ Rest(c, Output(new), rest) = rest
      BY <1>0, OutputStep
    <3> QED BY <2>1, <3>1 DEF rest
  <2>3. /\ NewMotor(y) = new /\ FirstTimer(y) = first /\ NoTimer(y) = NoTimer(c)
        /\ y.state = c.state
    BY <1>a, <2>2
  <2> HIDE DEF y, r, new, first
  <2>4. Begins(y, r, s, full)
    BY <1>0, <1>1, <2>1, <2>2, <2>3 DEF Begins, Rests
  <2> QED BY <2>2, <2>4 DEF y, r
<1>2. CASE /\ c.motor = new /\ c.lastMotor \notin Moving
           /\ c.timer["MotorError"] = Stopped
           /\ k = IF NoTimer(c) THEN <<compare, remember>>
                  ELSE <<compare, remember, first>>
  <2>1. /\ Head(k) = compare
        /\ Tail(k) = IF NoTimer(c) THEN <<remember>> ELSE <<remember, first>>
    BY <1>2, First2, First3
  <2> DEFINE rest == Tail(k)
  <2>2. y = c /\ r = <<start>> \o rest
    <3> HIDE DEF new, rest
    <3>1. /\ Do(c, Compare(new, LongMotorErrorTimeout)) = c
          /\ Rest(c, Compare(new, LongMotorErrorTimeout), rest) =
                IF c.lastMotor = new THEN rest ELSE <<start>> \o rest
      BY CompareStep
    <3>2. c.lastMotor # new
      BY <1>0, <1>2
    <3>3. Rest(c, Compare(new, LongMotorErrorTimeout), rest) = <<start>> \o rest
      BY <3>1, <3>2
    <3> HIDE DEF start
    <3>4. Head(k) = Compare(new, LongMotorErrorTimeout)
      BY <2>1
    <3> QED BY <3>1, <3>3, <3>4 DEF rest
  <2> HIDE DEF y, new, first
  <2>3. r = IF NoTimer(c) THEN <<start, remember>> ELSE <<start, remember, first>>
    <3> HIDE DEF r, start, remember
    <3> QED BY <2>1, <2>2, Join11, Join12
  <2> HIDE DEF r
  <2>4. Begins(c, r, s, full)
    BY <1>0, <1>2, <2>3 DEF Begins, new, first
  <2> QED BY <2>2, <2>4 DEF y, r, SamePlace
<1>3. CASE /\ c.motor = new /\ c.lastMotor \notin Moving
           /\ c.timer["MotorError"] = Stopped
           /\ k = IF NoTimer(c) THEN <<start, remember>>
                  ELSE <<start, remember, first>>
  <2>1. /\ Head(k) = start
        /\ Tail(k) = IF NoTimer(c) THEN <<remember>> ELSE <<remember, first>>
    BY <1>3, First2, First3
  <2>2. /\ y \in Controller /\ SamePlace(c, y) /\ y.motor = c.motor
        /\ y.timer["MotorError"].left = LongMotorErrorTimeout
        /\ y.timer["MotorError"].signal = "MotorTimeout"
        /\ y.timer["GeneralPurpose"] = c.timer["GeneralPurpose"] /\ r = Tail(k)
    <3> DEFINE rest == Tail(k)
    <3> HIDE DEF rest
    <3>1. LET z == Do(c, start) IN
          /\ z \in Controller /\ SamePlace(c, z) /\ z.motor = c.motor
          /\ z.timer["MotorError"].left = LongMotorErrorTimeout
          /\ z.timer["MotorError"].signal = "MotorTimeout"
          /\ z.timer["GeneralPurpose"] = c.timer["GeneralPurpose"]
          /\ Rest(c, start, rest) = rest
      <4>1. /\ LongMotorErrorTimeout \in PeriodValues /\ "MotorTimeout" \in TimerSignals
            /\ "MotorError" \in Timers /\ "GeneralPurpose" \in Timers
        BY Periods DEF Timers, TimerSignals
      <4> QED BY <1>0, <4>1, StartStep
    <3> HIDE DEF start
    <3> QED BY <2>1, <3>1 DEF rest
  <2>3. /\ NewMotor(y) = new /\ FirstTimer(y) = first /\ NoTimer(y) = NoTimer(c)
        /\ y.state = c.state
    BY <1>a, <2>2
  <2>4. JustTimed(y, s)
    BY <2>2, BucketCheckIsShort DEF JustTimed
  <2> HIDE DEF y, r, new, first
  <2>5. Begins(y, r, s, full)
    BY <1>0, <1>3, <2>1, <2>2, <2>3, <2>4 DEF Begins, Rests
  <2> QED BY <2>2, <2>5 DEF y, r
<1>4. CASE /\ c.motor = new /\ JustTimed(c, s)
           /\ k = IF NoTimer(c) THEN <<remember>> ELSE <<remember, first>>
  <2>1. /\ Head(k) = remember
        /\ Tail(k) = IF NoTimer(c) THEN <<>> ELSE <<first>>
    BY <1>4, First1, First2
  <2>2. /\ y \in Controller /\ SamePlace(c, y) /\ y.motor = c.motor
        /\ y.lastMotor = new /\ y.timer = c.timer /\ r = Tail(k)
    <3> HIDE DEF new
    <3> DEFINE rest == Tail(k)
    <3> HIDE DEF rest
    <3>1. LET z == Do(c, Remember(new)) IN
          /\ z \in Controller /\ SamePlace(c, z) /\ z.motor = c.motor
          /\ z.lastMotor = new /\ z.timer = c.timer
          /\ Rest(c, Remember(new), rest) = rest
      BY <1>0, RememberStep
    <3> QED BY <2>1, <3>1 DEF rest
  <2>3. /\ NewMotor(y) = new /\ FirstTimer(y) = first /\ NoTimer(y) = NoTimer(c)
        /\ y.state = c.state /\ y.switch = c.switch
    BY <1>a, <2>2 DEF SamePlace
  <2> HIDE DEF y, r
  <2>4. CASE c.state = "MakingSureTheTrayIsHome"
    <3>1. new = "MotorUntwisting" /\ (NoTimer(c) \/ first = StartHomingTwist)
      BY <2>4 DEF FirstTimer, NewMotor
    <3>2. y.timer["MotorError"].left > 0 /\ y.timer["MotorError"].signal = "MotorTimeout"
      <4>1. c.timer["MotorError"].left \in Nat
        BY <1>0, ControllerFields, TwoTimers
      <4>2. c.timer["MotorError"].left + s >= LongMotorErrorTimeout
        BY <1>4 DEF JustTimed
      <4>3. c.timer["MotorError"].left > 0
        BY <4>1, <4>2, BucketCheckIsShort, PollIsAPeriod
      <4> QED BY <1>4, <2>2, <4>3 DEF JustTimed
    <3>3. Timed(y)
      BY <1>0, <1>4, <2>2, <3>2 DEF Timed
    <3>4. Shape(y, 0)
      BY <1>0, <1>4, <2>2, <2>3, <2>4, <3>1 DEF Shape, Rests
    <3>5. r = <<>> \/ r = <<StartHomingTwist>>
      BY <2>1, <2>2, <3>1
    <3>6. AtWork(y, r, full)
      BY <2>2, <2>3, <2>4, <3>3, <3>4, <3>5 DEF AtWork, Sound
    <3> QED BY <2>2, <3>6 DEF y, r
  <2>5. CASE c.state = "CheckingIfBucketIsFull"
    <3>1. ~NoTimer(c) /\ first = StartFullBucketWait
      BY <2>5 DEF NoTimer, FirstTimer
    <3>2. r = <<StartFullBucketWait>>
      BY <2>1, <2>2, <3>1
    <3>3. JustTimed(y, s)
      BY <1>4, <2>2 DEF JustTimed
    <3> HIDE DEF new, first
    <3>4. Begins(y, r, s, full)
      BY <1>0, <1>4, <2>2, <2>3, <2>5, <3>2, <3>3 DEF Begins, Rests
    <3> QED BY <2>2, <3>4 DEF y, r
  <2> QED BY <1>0, <2>4, <2>5
<1>5. CASE /\ c.motor = new /\ c.lastMotor = new /\ JustTimed(c, s)
           /\ c.state = "CheckingIfBucketIsFull" /\ k = <<StartFullBucketWait>>
  <2>1. Head(k) = StartFullBucketWait /\ Tail(k) = <<>>
    BY <1>5, First1
  <2>2. /\ y \in Controller /\ SamePlace(c, y)
        /\ y.motor = c.motor /\ y.lastMotor = c.lastMotor
        /\ y.timer["MotorError"] = c.timer["MotorError"]
        /\ Runs(y, {"FullBucketWaitElapsed"})
        /\ y.timer["GeneralPurpose"].left = FullBucketDetectionPeriod
        /\ r = <<>>
    BY <1>0, <2>1, GeneralStep
  <2>3. new = "MotorTwisting"
    BY <1>5 DEF NewMotor
  <2> HIDE DEF y, r, new
  <2>4. /\ y.timer["MotorError"].left \in Nat
        /\ y.timer["MotorError"].left > FullBucketDetectionPeriod
        /\ y.timer["MotorError"].signal = "MotorTimeout"
    <3>1. c.timer["MotorError"].left \in Nat
      BY <1>0, ControllerFields, TwoTimers
    <3>2. c.timer["MotorError"].left + s >= LongMotorErrorTimeout
      BY <1>5 DEF JustTimed
    <3>3. c.timer["MotorError"].left > FullBucketDetectionPeriod
      BY <3>1, <3>2, BucketCheckIsShort, PollIsAPeriod
    <3> QED BY <1>5, <2>2, <3>1, <3>3 DEF JustTimed
  <2>5. Timed(y)
    BY <1>0, <1>5, <2>2, <2>4, BucketCheckIsShort DEF Timed
  <2>6. Shape(y, 0)
    <3>1. y.timer["GeneralPurpose"].left < y.timer["MotorError"].left + 0
      <4>1. y.timer["MotorError"].left \in Nat
        BY <2>2, ControllerFields, TwoTimers
      <4> QED BY <2>2, <2>4, <4>1, BucketCheckIsShort
    <3> QED BY <1>5, <2>2, <2>3, <3>1 DEF Shape, SamePlace
  <2>7. AtWork(y, r, full)
    BY <1>0, <1>5, <2>2, <2>5, <2>6 DEF AtWork, Sound, SamePlace
  <2> QED BY <2>2, <2>7 DEF y, r
<1> QED
  <2> HIDE DEF y, r
  <2> QED BY <1>1, <1>2, <1>3, <1>4, <1>5, Zenon DEF Begins

\* While no handler is under way: sound, enabled at work, and telling the truth.
Free(c, full, v, published, on) ==
    /\ Sound(c, 0)
    /\ c.state # "Idle" => on
    /\ Told(c, full, v, published)
    /\ c.state = "CheckingIfBucketIsFull" => ~full

\* To be free is to be at a point with nothing left to call.
LEMMA FreeIsAt ==
    ASSUME NEW c, NEW s, NEW full, NEW v, NEW published, NEW on
    PROVE  At(c, <<>>, s, full, v, published, on) <=> Free(c, full, v, published, on)
<1>1. ASSUME At(c, <<>>, s, full, v, published, on)
      PROVE  Free(c, full, v, published, on)
  <2>1. /\ \A a : <<>> # <<a>>
        /\ \A a, b : <<>> # <<a, b>>
        /\ \A a, b, d : <<>> # <<a, b, d>>
        /\ \A a, b, d, e : <<>> # <<a, b, d, e>>
    OBVIOUS
  <2>2. ~Begins(c, <<>>, s, full)
    BY <2>1 DEF Begins
  <2>3. ~AtLanding(c, <<>>) /\ ~FindsFull(c, <<>>) /\ ~Pauses(c, <<>>)
    BY <2>1 DEF AtLanding, FindsFull, Pauses
  <2>4. AtRest(c, <<>>, full, v, on) => c.state = "Idle" /\ Sound(c, 0)
    BY DEF AtRest
  <2>5. AtWork(c, <<>>, full) =>
           Sound(c, 0) /\ (c.state = "CheckingIfBucketIsFull" => ~full)
    BY <2>1 DEF AtWork
  <2> QED BY <1>1, <2>2, <2>3, <2>4, <2>5 DEF At, Free
<1>2. ASSUME Free(c, full, v, published, on)
      PROVE  At(c, <<>>, s, full, v, published, on)
  BY <1>2 DEF Free, At, AtRest, AtWork
<1> QED BY <1>1, <1>2

\* Each call of a handler leads from one of its points to another.
LEMMA CallSteps ==
    ASSUME NEW c, NEW k, NEW s \in 0 .. PollPeriod, NEW full \in BOOLEAN,
           NEW v, NEW published, NEW on,
           At(c, k, s, full, v, published, on), k # <<>>
    PROVE  At(Do(c, Head(k)), Rest(c, Head(k), Tail(k)), s, full, v, published, on)
<1> DEFINE y == Do(c, Head(k))
           r == Rest(c, Head(k), Tail(k))
<1>0. Told(c, full, v, published) /\ (c.state # "Idle" => on)
  BY DEF At
<1>1. CASE AtRest(c, k, full, v, on)
  <2>1. /\ y.state # "Idle" => on
        /\ Told(y, full, v, published)
        /\ AtRest(y, r, full, v, on) \/ Begins(y, r, s, full)
    BY <1>0, <1>1, AtRestCalls
  <2> HIDE DEF y, r
  <2> QED BY <2>1 DEF At, y, r
<1>2. CASE Begins(c, k, s, full)
  <2>1. /\ SamePlace(c, y) /\ c.state # "Idle"
        /\ Begins(y, r, s, full) \/ AtWork(y, r, full)
    BY <1>2, BeginsCalls DEF Begins
  <2> HIDE DEF y, r
  <2>2. Told(y, full, v, published)
    BY <1>0, <2>1, ToldInPlace
  <2> QED BY <1>0, <2>1, <2>2 DEF At, y, r
<1>3. CASE AtWork(c, k, full)
  <2>1. /\ on /\ Told(y, full, v, published)
        /\ AtWork(y, r, full) \/ AtLanding(y, r) \/ FindsFull(y, r)
    BY <1>0, <1>3, AtWorkCalls DEF AtWork
  <2> HIDE DEF y, r
  <2> QED BY <2>1 DEF At, y, r
<1>4. CASE AtLanding(c, k)
  <2>1. /\ SamePlace(c, y) /\ on
        /\ AtLanding(y, r) \/ AtWork(y, r, full)
    BY <1>0, <1>4, AtLandingCalls DEF AtLanding
  <2> HIDE DEF y, r
  <2>2. Told(y, full, v, published)
    BY <1>0, <2>1, ToldInPlace
  <2> QED BY <2>1, <2>2 DEF At, y, r
<1>5. CASE FindsFull(c, k)
  <2>1. /\ on /\ Told(y, full, v, published)
        /\ FindsFull(y, r) \/ Pauses(y, r)
    BY <1>0, <1>5, FindsFullCalls DEF FindsFull
  <2> HIDE DEF y, r
  <2> QED BY <2>1 DEF At, y, r
<1>6. CASE Pauses(c, k)
  <2>1. /\ SamePlace(c, y) /\ on
        /\ Pauses(y, r) \/ AtWork(y, r, full)
    BY <1>0, <1>6, PausesCalls DEF Pauses
  <2> HIDE DEF y, r
  <2>2. Told(y, full, v, published)
    BY <1>0, <2>1, ToldInPlace
  <2> QED BY <2>1, <2>2 DEF At, y, r
<1> QED BY <1>1, <1>2, <1>3, <1>4, <1>5, <1>6 DEF At

\* Both timers are run on a sound controller: through the one between.
LEMMA SoundRuns ==
    ASSUME NEW c, Sound(c, 0)
    PROVE  /\ Sound(Run(c), 0)
           /\ \E x : /\ Sound(x, 1) /\ Outcome(c, x)
                     /\ x.state # c.state => x.state = "Idle"
                     /\ Outcome(x, Run(c))
<1> DEFINE x == RunTimer(c, "MotorError")
           y == RunTimer(x, "GeneralPurpose")
<1>1. Run(c) = y
  BY DEF Run
<1>2. Sound(x, 1) /\ Outcome(c, x) /\ (x.state # c.state => x.state = "Idle")
  BY MotorTimerRuns
<1> HIDE DEF x
<1>3. Sound(y, 0) /\ Outcome(x, y)
  BY <1>2, GeneralTimerRuns
<1> HIDE DEF y
<1> QED BY <1>1, <1>2, <1>3

\* What a timer leads to is told as truly.
LEMMA ToldThroughOutcome ==
    ASSUME NEW c, NEW y, Outcome(c, y), c.state \in ControllerStates,
           NEW full, NEW v, NEW published, Told(c, full, v, published),
           c.state = "CheckingIfBucketIsFull" => ~full
    PROVE  /\ Told(y, full, v, published)
           /\ y.state = "CheckingIfBucketIsFull" => ~full
           /\ y.state # "Idle" => c.state # "Idle"
<1>0. /\ "Idle" \notin HomingStates \union HarvestStates
      /\ HomingStates \intersect HarvestStates = {}
      /\ c.state \in HomingStates \/ c.state \in HarvestStates \/ c.state = "Idle"
      /\ "HomingReadyToLand" \in HomingStates
      /\ "HarvestReadyToLand" \in HarvestStates \ {"CheckingIfBucketIsFull"}
  BY DEF HomingStates, HarvestStates, ControllerStates
<1>1. CASE /\ y.state = c.state
           /\ y.result = c.result /\ y.harvestResult = c.harvestResult
  BY <1>1 DEF Told
<1>2. CASE /\ c.state # "Idle" /\ c.motor \in Moving /\ y.state = "Idle"
           /\ y.result = "MotorError" /\ y.harvestResult = "MotorError"
  BY <1>0, <1>2 DEF Told, Answers
<1>3. CASE /\ c.state = "HomingReadyToLand" /\ y.state = "Idle"
           /\ y.result = "Homed" /\ y.harvestResult = c.harvestResult
  BY <1>0, <1>3 DEF Told, Answers
<1>4. CASE /\ c.state = "HarvestReadyToLand" /\ y.state = "Idle"
           /\ y.result = c.harvestResult /\ y.harvestResult = c.harvestResult
  BY <1>0, <1>4 DEF Told, Answers, HarvestEnds
<1>5. CASE /\ c.state \in HomingStates /\ y.state \in HomingStates
           /\ y.result = c.result /\ y.harvestResult = c.harvestResult
  <2>1. "CheckingIfBucketIsFull" \notin HomingStates
    BY DEF HomingStates
  <2> QED BY <1>0, <1>5, <2>1 DEF Told
<1>6. CASE /\ c.state \in HarvestStates \ {"HarvestReadyToLand"}
           /\ y.state \in HarvestStates /\ y.state # "CheckingIfBucketIsFull"
           /\ y.result = c.result
           /\ y.harvestResult = IF c.state = "CheckingIfBucketIsFull"
                                THEN "Harvested" ELSE c.harvestResult
  BY <1>0, <1>6 DEF Told, HarvestEnds
<1> QED BY <1>1, <1>2, <1>3, <1>4, <1>5, <1>6 DEF Outcome

\* A tick while no handler is under way.
LEMMA FreeTick ==
    ASSUME NEW c, NEW full, NEW v, NEW published, NEW on,
           Free(c, full, v, published, on)
    PROVE  Free(Run(c), full, v, published, on)
<1>1. PICK x : /\ Sound(x, 1) /\ Outcome(c, x)
               /\ x.state # c.state => x.state = "Idle"
               /\ Outcome(x, Run(c)) /\ Sound(Run(c), 0)
  BY SoundRuns DEF Free
<1>2. c.state \in ControllerStates /\ x.state \in ControllerStates
  BY <1>1, ControllerFields DEF Free, Sound
<1>3. /\ Told(x, full, v, published)
      /\ x.state = "CheckingIfBucketIsFull" => ~full
      /\ x.state # "Idle" => c.state # "Idle"
  BY <1>1, <1>2, ToldThroughOutcome DEF Free
<1> DEFINE y == Run(c)
<1>4. /\ Told(y, full, v, published)
      /\ y.state = "CheckingIfBucketIsFull" => ~full
      /\ y.state # "Idle" => x.state # "Idle"
  BY <1>1, <1>2, <1>3, ToldThroughOutcome
<1> HIDE DEF y
<1> QED BY <1>1, <1>3, <1>4 DEF Free, y

\* A timer that a state hears does not run out without a change of the state.
LEMMA HeardTimersRunOn ==
    ASSUME NEW c \in Controller, NEW y, NEW t \in Timers,
           Counted(c.timer[t], y.timer[t]), Unheard(c, c.timer[t])
    PROVE  /\ c.timer[t] = Stopped => y.timer[t] = Stopped
           /\ /\ c.timer[t].left > 0
              /\ \/ /\ c.timer[t].signal = "MotorTimeout"
                    /\ c.state \notin {"CheckingIfBucketIsFull",
                                       "BucketWasFoundToBeFull", "Idle"}
                 \/ /\ c.timer[t].signal = "FullBucketWaitElapsed"
                    /\ c.state = "CheckingIfBucketIsFull"
                 \/ /\ c.timer[t].signal = "StoppingPeriodElapsed"
                    /\ c.state \in {"BucketWasFoundToBeFull", "StoppingAtFullTwist"}
              => y.timer[t].left > 0 /\ y.timer[t].signal = c.timer[t].signal
           /\ c.timer[t].left > 1 =>
                 /\ y.timer[t].left = c.timer[t].left - 1
                 /\ y.timer[t].signal = c.timer[t].signal
           /\ c.timer[t].left > 0 =>
                 \/ y.timer[t] = Stopped
                 \/ y.timer[t].left > 0 /\ y.timer[t].signal = c.timer[t].signal
<1> DEFINE w == c.timer[t]
<1>1. w.left \in Nat
  BY ControllerFields
<1>2. CASE w.left = 0
  BY <1>2, StoppedFacts DEF Counted
<1>3. CASE w.left = 1
  <2>1. y.timer[t] = Stopped
    BY <1>3, StoppedFacts DEF Counted
  <2>2. ~ \/ /\ w.signal = "MotorTimeout"
             /\ c.state \notin {"CheckingIfBucketIsFull",
                                "BucketWasFoundToBeFull", "Idle"}
          \/ /\ w.signal = "FullBucketWaitElapsed"
             /\ c.state = "CheckingIfBucketIsFull"
          \/ /\ w.signal = "StoppingPeriodElapsed"
             /\ c.state \in {"BucketWasFoundToBeFull", "StoppingAtFullTwist"}
    BY <1>3 DEF Unheard
  <2> QED BY <1>3, <2>1, <2>2
<1>4. CASE w.left > 1
  BY <1>1, <1>4, StoppedFacts DEF Counted
<1> QED BY <1>1, <1>2, <1>3, <1>4

\* A tick inside a handler that does not change the state under it.
LEMMA BusyTick ==
    ASSUME NEW c, NEW k, NEW s \in 0 .. PollPeriod, s < PollPeriod,
           NEW full, NEW v, NEW published, NEW on,
           At(c, k, s, full, v, published, on), k # <<>>, Run(c).state = c.state
    PROVE  At(Run(c), k, s + 1, full, v, published, on)
<1> DEFINE y == Run(c)
<1>0. Told(c, full, v, published) /\ (c.state # "Idle" => on) /\ y.state = c.state
  BY DEF At
<1>1. ASSUME Sound(c, 0)
      PROVE  /\ Sound(y, 0) /\ Told(y, full, v, published)
             /\ y.result = c.result /\ y.harvestResult = c.harvestResult
  <2>1. PICK x : /\ Sound(x, 1) /\ Outcome(c, x)
                 /\ x.state # c.state => x.state = "Idle"
                 /\ Outcome(x, y) /\ Sound(y, 0)
    BY <1>1, SoundRuns
  <2> HIDE DEF y
  <2>2. x.state = c.state
    BY <1>0, <2>1 DEF Outcome
  <2>3. y.result = c.result /\ y.harvestResult = c.harvestResult
    BY <1>0, <2>1, <2>2 DEF Outcome
  <2> QED BY <1>0, <2>1, <2>3 DEF Told
<1>2. ASSUME c \in Controller, NoBrake(c),
             c.timer["MotorError"].left > 0 =>
                c.timer["MotorError"].signal = "MotorTimeout"
      PROVE  /\ y \in Controller /\ SamePlace(c, y)
             /\ y.motor = c.motor /\ y.lastMotor = c.lastMotor
             /\ \A t \in Timers :
                   Counted(c.timer[t], y.timer[t]) /\ Unheard(c, c.timer[t])
             /\ Told(y, full, v, published)
  <2>1. /\ y \in Controller /\ SamePlace(c, y)
        /\ y.motor = c.motor /\ y.lastMotor = c.lastMotor
        /\ \A t \in Timers :
              Counted(c.timer[t], y.timer[t]) /\ Unheard(c, c.timer[t])
    BY <1>0, <1>2, RunIsQuiet
  <2> HIDE DEF y
  <2> QED BY <1>0, <2>1, ToldInPlace
<1> HIDE DEF y
<1>3. CASE AtRest(c, k, full, v, on)
  <2>1. Sound(c, 0) /\ c.state = "Idle"
    BY <1>3 DEF AtRest
  <2>2. AtRest(y, k, full, v, on)
    BY <1>0, <1>1, <1>3, <2>1 DEF AtRest
  <2> QED BY <1>0, <1>1, <2>1, <2>2 DEF At, y
<1>4. CASE AtWork(c, k, full)
  <2>1. Sound(c, 0) /\ c.state # "Idle"
    BY <1>4 DEF AtWork
  <2>2. AtWork(y, k, full)
    BY <1>0, <1>1, <1>4, <2>1 DEF AtWork
  <2> QED BY <1>0, <1>1, <2>1, <2>2 DEF At, y
<1>5. CASE AtLanding(c, k)
  <2>1. /\ Sound(c, 0) /\ c.state = "HarvestReadyToLand" /\ c \in Controller
        /\ Rests(c) /\ c.motor = "MotorUntwisting"
        /\ c.timer["MotorError"].signal = "MotorTimeout"
    BY <1>5, TheMotors DEF AtLanding, Sound, Timed
  <2>2. NoBrake(c)
    BY <2>1, StoppedFacts DEF NoBrake, Rests, Timers
  <2>3. Rests(y) /\ y.motor = "MotorUntwisting"
    BY <1>2, <2>1, <2>2, HeardTimersRunOn, TwoTimers DEF Rests
  <2>4. AtLanding(y, k)
    BY <1>0, <1>1, <1>5, <2>1, <2>3 DEF AtLanding
  <2> QED BY <1>0, <1>1, <2>1, <2>4 DEF At, y
<1>6. CASE FindsFull(c, k)
  <2>1. /\ c \in Controller /\ c.state = "CheckingIfBucketIsFull"
        /\ MayBeTimed(c) /\ NoBrake(c)
        /\ c.timer["MotorError"].left > 0 =>
              c.timer["MotorError"].signal = "MotorTimeout"
    BY <1>6, StoppedFacts DEF FindsFull, MayBeTimed, NoBrake
  <2>2. /\ y \in Controller /\ SamePlace(c, y)
        /\ y.motor = c.motor /\ y.lastMotor = c.lastMotor
        /\ Told(y, full, v, published)
        /\ \A t \in Timers :
              Counted(c.timer[t], y.timer[t]) /\ Unheard(c, c.timer[t])
    BY <1>2, <2>1
  <2>3. /\ Runs(c, {"FullBucketWaitElapsed"}) => Runs(y, {"FullBucketWaitElapsed"})
        /\ Rests(c) => Rests(y)
        /\ c.timer["MotorError"] = Stopped => y.timer["MotorError"] = Stopped
        /\ MayBeTimed(y)
    BY <2>1, <2>2, HeardTimersRunOn, TwoTimers DEF Runs, Rests, MayBeTimed
  <2>4. FindsFull(y, k)
    BY <1>6, <2>2, <2>3 DEF FindsFull, SamePlace
  <2> QED BY <1>0, <2>2, <2>4 DEF At, y
<1>7. CASE Pauses(c, k)
  <2>1. /\ c \in Controller
        /\ c.state \in {"BucketWasFoundToBeFull", "StoppingAtFullTwist"}
        /\ MayBeTimed(c) /\ NoBrake(c)
        /\ Rests(c) \/ Runs(c, {"StoppingPeriodElapsed"})
        /\ c.timer["MotorError"].left > 0 =>
              c.timer["MotorError"].signal = "MotorTimeout"
    BY <1>7, StoppedFacts DEF Pauses, MayBeTimed, NoBrake
  <2>2. /\ y \in Controller /\ SamePlace(c, y)
        /\ y.motor = c.motor /\ y.lastMotor = c.lastMotor
        /\ Told(y, full, v, published)
        /\ \A t \in Timers :
              Counted(c.timer[t], y.timer[t]) /\ Unheard(c, c.timer[t])
    BY <1>2, <2>1
  <2>3. /\ Rests(y) \/ Runs(y, {"StoppingPeriodElapsed"})
        /\ c.timer["MotorError"] = Stopped => y.timer["MotorError"] = Stopped
        /\ MayBeTimed(y)
    BY <2>1, <2>2, HeardTimersRunOn, TwoTimers DEF Runs, Rests, MayBeTimed
  <2>4. c.state = "StoppingAtFullTwist" /\ c.timer["MotorError"] # Stopped =>
           y.timer["MotorError"] # Stopped
    BY <2>1, <2>2, HeardTimersRunOn, TwoTimers, StoppedFacts DEF MayBeTimed
  <2>5. c.state = "BucketWasFoundToBeFull" => c.motor = "MotorCoasting"
    BY <1>7 DEF Pauses
  <2>6. c.motor \in Moving => c.state = "StoppingAtFullTwist"
    BY <2>1, <2>5, TheMotors
  <2>7. Pauses(y, k)
    BY <1>7, <2>1, <2>2, <2>3, <2>4, <2>6 DEF Pauses, SamePlace
  <2> QED BY <1>0, <2>2, <2>7 DEF At, y
<1>8. CASE Begins(c, k, s, full)
  <2>1. /\ c \in Controller /\ Rests(c) /\ NoBrake(c)
        /\ c.state \in {"MakingSureTheTrayIsHome", "CheckingIfBucketIsFull"}
    BY <1>8 DEF Begins, NoBrake
  <2>2. c.timer["MotorError"].left > 0 =>
           c.timer["MotorError"].signal = "MotorTimeout"
    BY <1>8, StoppedFacts DEF Begins, JustTimed
  <2>3. /\ y \in Controller /\ SamePlace(c, y)
        /\ y.motor = c.motor /\ y.lastMotor = c.lastMotor
        /\ Told(y, full, v, published)
        /\ \A t \in Timers :
              Counted(c.timer[t], y.timer[t]) /\ Unheard(c, c.timer[t])
    BY <1>2, <2>1, <2>2
  <2>4. /\ Rests(y)
        /\ c.timer["MotorError"] = Stopped => y.timer["MotorError"] = Stopped
    BY <2>1, <2>3, HeardTimersRunOn, TwoTimers DEF Rests
  <2>5. JustTimed(c, s) => JustTimed(y, s + 1)
    <3> DEFINE left == c.timer["MotorError"].left
    <3>1. left \in Nat
      BY <2>1, ControllerFields, TwoTimers
    <3>2. SUFFICES ASSUME JustTimed(c, s) PROVE JustTimed(y, s + 1)
      OBVIOUS
    <3>3. left > 1 /\ left + s >= LongMotorErrorTimeout
      <4>1. left + s >= LongMotorErrorTimeout
        BY <3>2 DEF JustTimed
      <4>2. FullBucketDetectionPeriod > 1
        BY PeriodsAreTimes, APeriod
      <4> QED BY <3>1, <4>1, <4>2, BucketCheckIsShort, PollIsAPeriod
    <3>4. /\ y.timer["MotorError"].left = left - 1
          /\ y.timer["MotorError"].signal = c.timer["MotorError"].signal
      BY <2>1, <2>3, <3>3, HeardTimersRunOn, TwoTimers
    <3>5. (left - 1) + (s + 1) >= LongMotorErrorTimeout
      BY <3>1, <3>3, PollIsAPeriod
    <3> QED BY <3>2, <3>4, <3>5 DEF JustTimed
  <2>6. /\ NewMotor(y) = NewMotor(c) /\ FirstTimer(y) = FirstTimer(c)
        /\ NoTimer(y) = NoTimer(c) /\ y.state = c.state
    BY <2>3 DEF SamePlace, NewMotor, FirstTimer, NoTimer
  <2>7. Begins(y, k, s + 1, full)
    BY <1>8, <2>3, <2>4, <2>5, <2>6 DEF Begins
  <2> QED BY <1>0, <2>3, <2>7 DEF At, y
<1> QED BY <1>3, <1>4, <1>5, <1>6, <1>7, <1>8 DEF At

\* The switch is read by the handlers only.
LEMMA SwitchTurns ==
    ASSUME NEW c, NEW full, NEW v, NEW published, NEW on,
           Free(c, full, v, published, on)
    PROVE  LET y == [c EXCEPT !.switch = ~c.switch] IN
           Free(y, full, v, published, on) /\ y.state = c.state
<1> DEFINE b == ~c.switch
           y == [c EXCEPT !.switch = b]
<1>1. c \in Controller /\ b \in BOOLEAN
  BY DEF Free, Sound
<1> HIDE DEF b
<1>2. /\ y \in Controller
      /\ y.state = c.state /\ y.motor = c.motor /\ y.lastMotor = c.lastMotor
      /\ y.timer = c.timer
      /\ y.result = c.result /\ y.harvestResult = c.harvestResult
  BY <1>1 DEF Controller
<1> HIDE DEF y
<1>3. Sound(y, 0)
  BY <1>2, SoundButResults DEF Free
<1>4. Free(y, full, v, published, on)
  BY <1>2, <1>3 DEF Free, Told
<1> QED BY <1>2, <1>4 DEF y, b

\* The calls of the handler that finds the bucket full.
LEMMA FullBucketCalls ==
    FullBucketIsFound =
        <<SetHarvestResult("BucketWasFull"), Output("MotorCoasting"),
          StopTimer("MotorError"), Remember("MotorCoasting"),
          TransitionTo("BucketWasFoundToBeFull")>>
<1> DEFINE a == SetHarvestResult("BucketWasFull")
           b == Output("MotorCoasting")
           d == StopTimer("MotorError")
           e == Remember("MotorCoasting")
           f == TransitionTo("BucketWasFoundToBeFull")
<1>1. FullBucketIsFound = (<<a>> \o <<b, d, e>>) \o <<f>>
  BY DEF FullBucketIsFound, Coast
<1> HIDE DEF a, b, d, e, f
<1>2. <<a>> \o <<b, d, e>> = <<a, b, d, e>>
  BY Join13
<1>3. <<a, b, d, e>> \o <<f>> = <<a, b, d, e, f>>
  BY Join41
<1>4. FullBucketIsFound = <<a, b, d, e, f>>
  BY <1>1, <1>2, <1>3
<1> QED BY <1>4 DEF a, b, d, e, f

\* A signal from the main loop reaches a controller that is free.
LEMMA SignalIsHandled ==
    ASSUME NEW c, NEW s, NEW full, NEW v, NEW published, NEW on, NEW full2,
           Free(c, full, v, published, on), NEW signal \in MainSignals,
           signal \in {"Home", "Run"} => v = signal /\ on,
           full2 = CASE c.state = "CheckingIfBucketIsFull" /\ signal = "SwitchHigh" -> TRUE
                     [] c.state = "Idle" /\ signal = "Run" -> FALSE
                     [] OTHER -> full
    PROVE  At(c, Calls(c.state, signal), s, full2, v, published, on)
<1> DEFINE k == Calls(c.state, signal)
<1>0. /\ Sound(c, 0) /\ Timed(c) /\ Shape(c, 0) /\ c \in Controller
      /\ c.state # "Idle" => on
      /\ Told(c, full, v, published)
      /\ c.state = "CheckingIfBucketIsFull" => ~full
  BY DEF Free, Sound
<1>1. Told(c, full2, v, published)
  <2>1. "Idle" \notin HomingStates \union HarvestStates
        /\ "CheckingIfBucketIsFull" \in HarvestStates
    BY DEF HomingStates, HarvestStates
  <2>2. CASE c.state = "CheckingIfBucketIsFull" /\ signal = "SwitchHigh"
    BY <1>0, <2>1, <2>2 DEF Told
  <2>3. CASE c.state = "Idle" /\ signal = "Run"
    BY <1>0, <2>1, <2>3 DEF Told
  <2>4. CASE full2 = full
    BY <1>0, <2>4
  <2> QED BY <2>2, <2>3, <2>4
<1>2. CASE c.state = "CheckingIfBucketIsFull" /\ signal = "SwitchHigh"
  <2>1. k = FullBucketIsFound
    BY <1>2 DEF Calls
  <2>2. k = <<SetHarvestResult("BucketWasFull"), Output("MotorCoasting"),
              StopTimer("MotorError"), Remember("MotorCoasting"),
              TransitionTo("BucketWasFoundToBeFull")>>
    BY <2>1, FullBucketCalls
  <2> HIDE DEF k
  <2>3. AtWork(c, k, full2)
    BY <1>0, <1>2, <2>2 DEF AtWork
  <2> QED BY <1>0, <1>1, <2>3 DEF At, k
<1>3. CASE c.state = "StoppingAtFullTwist" /\ signal = "SwitchHigh"
  <2>1. k = Coast \o <<StartStopping>>
    BY <1>3 DEF Calls, FullTwistIsReached
  <2>2. k = <<Output("MotorCoasting"), StopTimer("MotorError"),
              Remember("MotorCoasting"), StartStopping>>
    BY <2>1, Join31 DEF Coast
  <2> HIDE DEF k
  <2>3. /\ Rests(c) \/ Runs(c, {"StoppingPeriodElapsed"})
        /\ MayBeTimed(c)
        /\ c.motor \in Moving => c.timer["MotorError"] # Stopped
    BY <1>0, <1>3, StoppedFacts DEF Shape, Timed, MayBeTimed
  <2>4. Pauses(c, k)
    BY <1>0, <1>3, <2>2, <2>3 DEF Pauses
  <2> QED BY <1>0, <1>1, <2>4 DEF At, k
<1>4. CASE c.state = "Idle" /\ signal \in RequestedStates
  <2>1. \/ signal = "Off" /\ k = <<SetResult("NoAction")>>
        \/ signal = "Home" /\
              k = <<SetResult("Homing"), TransitionTo("MakingSureTheTrayIsHome")>>
        \/ signal = "Run" /\ ~full2 /\
              k = <<SetResult("Harvesting"), TransitionTo("CheckingIfBucketIsFull")>>
    BY <1>4 DEF Calls, RequestedStates
  <2> HIDE DEF k
  <2>2. AtRest(c, k, full2, v, on)
    BY <1>0, <1>4, <2>1 DEF AtRest
  <2> QED BY <1>0, <1>1, <1>4, <2>2 DEF At, k
<1>5. CASE \/ /\ c.state = "MakingSureTheTrayIsHome"
              /\ signal \in {"SwitchLow", "SwitchHigh"}
           \/ c.state = "JumpingOutOfHome" /\ signal = "SwitchLow"
           \/ /\ c.state \in {"HomingReadyToLand", "HarvestReadyToLand", "Untwisting"}
              /\ signal = "SwitchHigh"
  <2>1. \/ /\ c.state = "MakingSureTheTrayIsHome"
           /\ k \in {<<StopTimer("GeneralPurpose")>>, <<StartHomingTwist>>}
        \/ c.state = "JumpingOutOfHome" /\ k = <<StartJumpOut>>
        \/ /\ c.state \in {"HomingReadyToLand", "HarvestReadyToLand"}
           /\ k = <<StartLanding>>
        \/ c.state = "Untwisting" /\ k = <<TransitionTo("HarvestReadyToLand")>>
    BY <1>5 DEF Calls
  <2> HIDE DEF k
  <2>2. AtWork(c, k, full2)
    BY <1>0, <1>5, <2>1 DEF AtWork
  <2> QED BY <1>0, <1>1, <2>2 DEF At, k
<1>6. CASE k = <<>>
  <2>1. c.state = "CheckingIfBucketIsFull" => ~full2
    <3>1. c.state = "CheckingIfBucketIsFull" /\ signal = "SwitchHigh" =>
             k = FullBucketIsFound
      BY DEF Calls
    <3>2. FullBucketIsFound # <<>>
      BY FullBucketCalls, First5
    <3>3. ~ (c.state = "CheckingIfBucketIsFull" /\ signal = "SwitchHigh")
      BY <1>6, <3>1, <3>2
    <3> QED BY <1>0, <3>3
  <2>2. Free(c, full2, v, published, on)
    BY <1>0, <1>1, <2>1 DEF Free
  <2>3. At(c, <<>>, s, full2, v, published, on)
    BY <2>2, FreeIsAt
  <2> QED BY <1>6, <2>3
<1> QED
  <2>1. \/ c.state = "CheckingIfBucketIsFull" /\ signal = "SwitchHigh"
        \/ c.state = "StoppingAtFullTwist" /\ signal = "SwitchHigh"
        \/ c.state = "Idle" /\ signal \in RequestedStates
        \/ /\ c.state = "MakingSureTheTrayIsHome"
           /\ signal \in {"SwitchLow", "SwitchHigh"}
        \/ c.state = "JumpingOutOfHome" /\ signal = "SwitchLow"
        \/ /\ c.state \in {"HomingReadyToLand", "HarvestReadyToLand", "Untwisting"}
           /\ signal = "SwitchHigh"
        \/ k = <<>>
    BY DEF Calls, RequestedStates, ControllerStates
  <2> QED BY <1>2, <1>3, <1>4, <1>5, <1>6, <2>1

\* There are two motors.
LEMMA OtherFacts ==
    ASSUME NEW m \in Motors
    PROVE  Other(m) \in Motors /\ Other(m) # m
BY DEF Motors, Other

\* The arbitrator's steps, motor by motor.
LEMMA RequestMotorFacts ==
    ASSUME ArbTypeOK, NEW m \in Motors, RequestMotor(m)
    PROVE  /\ ArbTypeOK'
           /\ ~controlRequest[m]
           /\ controlRequest'[m]
           /\ controlRequest'[Other(m)] = controlRequest[Other(m)]
           /\ driveEnable'[m] <=> driveEnable[m] \/ ~driveEnable[Other(m)]
           /\ driveEnable'[Other(m)] = driveEnable[Other(m)]
<1>1. CASE driveEnable[Other(m)]
  BY <1>1, OtherFacts DEF ArbTypeOK, RequestMotor, EnableAfterSet
<1>2. CASE ~driveEnable[Other(m)]
  BY <1>2, OtherFacts DEF ArbTypeOK, RequestMotor, EnableAfterSet
<1> QED BY <1>1, <1>2

\* A motor that is given back goes to the one that waits.
LEMMA ReleaseMotorFacts ==
    ASSUME ArbTypeOK, NEW m \in Motors, ReleaseMotor(m)
    PROVE  /\ ArbTypeOK'
           /\ controlRequest[m]
           /\ ~controlRequest'[m]
           /\ controlRequest'[Other(m)] = controlRequest[Other(m)]
           /\ ~driveEnable'[m]
           /\ driveEnable'[Other(m)] <=>
                 driveEnable[Other(m)] \/ controlRequest[Other(m)]
<1>1. CASE controlRequest[Other(m)]
  BY <1>1, OtherFacts DEF ArbTypeOK, ReleaseMotor, EnableAfterClear
<1>2. CASE ~controlRequest[Other(m)]
  BY <1>2, OtherFacts DEF ArbTypeOK, ReleaseMotor, EnableAfterClear
<1> QED BY <1>1, <1>2

\* The two loads are the arbitrator's two motors.
LEMMA TwoLoads == /\ Damper \in Motors /\ IceMaker \in Motors
                  /\ Other(Damper) = IceMaker /\ Other(IceMaker) = Damper
BY DEF Damper, IceMaker, Motors, Other

\* The controller starts at rest.
LEMMA InitImpliesMovementInv == Init => MovementInv
<1> SUFFICES ASSUME Init PROVE MovementInv
  OBVIOUS
<1>1. ctl \in Controller
  <2>1. [t \in Timers |-> Stopped] \in [Timers -> TimerValue]
    BY StoppedFacts
  <2> QED BY <2>1 DEF Init, InitialController, Controller, ControllerStates, MotorStates,
                      Results, TimerValue
<1>2. /\ ctl.state = "Idle" /\ ctl.motor = "MotorCoasting" /\ ctl.lastMotor = "MotorCoasting"
      /\ ctl.result = "NoAction" /\ calls = <<>> /\ ~felt
      /\ \A t \in Timers : ctl.timer[t] = Stopped
  BY DEF Init, InitialController
<1>3. Timed(ctl) /\ Rests(ctl)
  BY <1>2, TwoTimers DEF Timed, Rests, Moving
<1>4. Sound(ctl, 0)
  BY <1>1, <1>2, <1>3 DEF Sound, Shape, Moving
<1>5. Told(ctl, felt, vote, resultErd)
  BY <1>2 DEF Told, HomingStates, HarvestStates, FinalResults
<1>6. TypeOK
  <2>1. ArbTypeOK
    BY DEF Init, ArbInit, ArbTypeOK
  <2>2. /\ calls \in Seq(CallsOfHandlers) /\ felt \in BOOLEAN
        /\ overtaken \in BOOLEAN /\ vote \in RequestedStates /\ resultErd \in Results
    BY HandlersType DEF Init, RequestedStates, Results
  <2>3. sincePoll \in 0 .. PollPeriod
    BY PollIsAPeriod DEF Init
  <2> QED BY <1>1, <2>1, <2>2, <2>3 DEF TypeOK
<1>7. Free(ctl, felt, vote, resultErd, driveEnable[IceMaker])
  BY <1>2, <1>4, <1>5 DEF Free
<1> QED BY <1>2, <1>6, <1>7, FreeIsAt DEF MovementInv

\* A signal from the main loop leaves a controller, calls, and a history.
LEMMA DeliverType ==
    ASSUME NEW c \in Controller, NEW signal, Deliver(c, signal), felt \in BOOLEAN
    PROVE  /\ ctl' \in Controller /\ calls' \in Seq(CallsOfHandlers) /\ felt' \in BOOLEAN
BY CallsType DEF Deliver

\* A signal from the main loop begins its handler.
LEMMA DeliverBegins ==
    ASSUME NEW c, NEW s, NEW v, NEW published, NEW on,
           Free(c, felt, v, published, on), NEW signal \in MainSignals,
           signal \in {"Home", "Run"} => v = signal /\ on,
           Deliver(c, signal)
    PROVE  At(ctl', calls', s, felt', v, published, on)
<1>1. /\ ctl' = c /\ calls' = Calls(c.state, signal)
      /\ felt' = CASE c.state = "CheckingIfBucketIsFull" /\ signal = "SwitchHigh" -> TRUE
                   [] c.state = "Idle" /\ signal = "Run" -> FALSE
                   [] OTHER -> felt
  BY DEF Deliver
<1> QED BY <1>1, SignalIsHandled

\* Each step leads from one of the points to another, as long as the interrupt
\* does not change the state inside a handler.
LEMMA MovementInvIsInductive == MovementInv /\ [Next]_vars => MovementInv'
<1> SUFFICES ASSUME MovementInv, [Next]_vars PROVE MovementInv'
  OBVIOUS
<1> DEFINE here == At(ctl, calls, sincePoll, felt, vote, resultErd, driveEnable[IceMaker])
           on == driveEnable[IceMaker]
<1>0. /\ ctl \in Controller /\ calls \in Seq(CallsOfHandlers)
      /\ vote \in RequestedStates /\ resultErd \in Results
      /\ sincePoll \in 0 .. PollPeriod /\ felt \in BOOLEAN /\ overtaken \in BOOLEAN
      /\ ArbTypeOK
      /\ overtaken \/ here
  BY DEF MovementInv, TypeOK
<1>a. calls = <<>> /\ ~overtaken => Free(ctl, felt, vote, resultErd, on)
  BY <1>0, FreeIsAt
<1> HIDE DEF here
<1>1. CASE MakeCall
  <2>1. /\ calls # <<>> /\ ctl' = Do(ctl, Head(calls))
        /\ calls' = Rest(ctl, Head(calls), Tail(calls))
        /\ UNCHANGED <<vote, resultErd, sincePoll, felt, overtaken,
                       controlRequest, driveEnable>>
    BY <1>1 DEF MakeCall, arbVars
  <2>2. Head(calls) \in CallsOfHandlers /\ Tail(calls) \in Seq(CallsOfHandlers)
    BY <1>0, <2>1
  <2>3. ctl' \in Controller /\ calls' \in Seq(CallsOfHandlers)
    BY <1>0, <2>1, <2>2, DoType
  <2>4. TypeOK'
    BY <1>0, <2>1, <2>3 DEF TypeOK, ArbTypeOK
  <2>5. ASSUME ~overtaken PROVE here'
    BY <1>0, <2>1, <2>5, CallSteps DEF here
  <2> QED BY <2>1, <2>4, <2>5 DEF MovementInv, here
<1>2. CASE Tick
  <2>1. /\ ctl' = Run(ctl)
        /\ UNCHANGED <<calls, vote, resultErd, felt, controlRequest, driveEnable>>
        /\ overtaken' = (overtaken \/ (calls # <<>> /\ ctl'.state # ctl.state))
        /\ sincePoll' = sincePoll + 1 /\ sincePoll < PollPeriod
    BY <1>2 DEF Tick, arbVars
  <2>2. sincePoll' \in 0 .. PollPeriod
    BY <1>0, <2>1, PollIsAPeriod
  <2>3. ctl' \in Controller /\ overtaken' \in BOOLEAN
    BY <1>0, <2>1, RunIsQuiet
  <2>4. TypeOK'
    BY <1>0, <2>1, <2>2, <2>3 DEF TypeOK, ArbTypeOK
  <2>5. ASSUME ~overtaken' PROVE here'
    <3>1. ~overtaken /\ (calls # <<>> => Run(ctl).state = ctl.state)
      BY <2>1, <2>5
    <3>2. CASE calls = <<>>
      <4>1. Free(ctl', felt, vote, resultErd, on)
        BY <1>a, <2>1, <3>1, <3>2, FreeTick
      <4>2. At(ctl', <<>>, sincePoll', felt, vote, resultErd, on)
        BY <4>1, FreeIsAt
      <4> QED BY <2>1, <3>2, <4>2 DEF here
    <3>3. CASE calls # <<>>
      <4>1. At(Run(ctl), calls, sincePoll + 1, felt, vote, resultErd, on)
        BY <1>0, <2>1, <3>1, <3>3, BusyTick DEF here
      <4> QED BY <2>1, <4>1 DEF here
    <3> QED BY <3>2, <3>3
  <2> QED BY <2>4, <2>5 DEF MovementInv, here
<1>3. CASE SwitchChanges
  <2> DEFINE c == [ctl EXCEPT !.switch = ~ctl.switch]
  <2>1. calls = <<>>
        /\ UNCHANGED <<vote, resultErd, sincePoll, overtaken, controlRequest, driveEnable>>
    BY <1>3 DEF SwitchChanges, MainLoopIsFree, arbVars
  <2>2. c \in Controller
    BY <1>0 DEF Controller
  <2>3. ~overtaken => Free(c, felt, vote, resultErd, on)
    BY <1>a, <2>1, SwitchTurns
  <2>4. PICK signal \in {"SwitchHigh", "SwitchLow"} : Deliver(c, signal)
    BY <1>3 DEF SwitchChanges
  <2>5. signal \in MainSignals /\ signal \notin {"Home", "Run"}
    BY DEF MainSignals
  <2> HIDE DEF c
  <2>6. TypeOK'
    BY <1>0, <2>1, <2>2, <2>4, DeliverType DEF TypeOK, ArbTypeOK
  <2>7. ASSUME ~overtaken PROVE here'
    <3>1. At(ctl', calls', sincePoll, felt', vote, resultErd, on)
      BY <2>3, <2>4, <2>5, <2>7, DeliverBegins
    <3> QED BY <2>1, <3>1 DEF here
  <2> QED BY <2>1, <2>6, <2>7 DEF MovementInv, here
<1>4. ASSUME NEW v \in RequestedStates, VoteFor(v) PROVE MovementInv'
  <2>1. /\ calls = <<>> /\ vote = "Off" /\ vote' = v
        /\ UNCHANGED <<resultErd, sincePoll, overtaken>>
    BY <1>4 DEF VoteFor, MainLoopIsFree
  <2>2. v \in {"Home", "Run"} /\ v \in MainSignals
    BY <1>4 DEF VoteFor, MainSignals, RequestedStates
  <2>3. ArbTypeOK' /\ (on => on')
    <3>1. CASE controlRequest[IceMaker]
      BY <1>0, <1>4, <3>1 DEF VoteFor, arbVars, ArbTypeOK
    <3>2. CASE ~controlRequest[IceMaker]
      BY <1>0, <1>4, <3>2, TwoLoads, RequestMotorFacts DEF VoteFor
    <3> QED BY <3>1, <3>2
  <2>4. ~overtaken => Free(ctl, felt, v, resultErd, on')
    BY <1>a, <2>1, <2>3 DEF Free, Told, Answers, HarvestStates, HomingStates
  <2>5. CASE on'
    <3>1. Deliver(ctl, v)
      BY <1>4, <2>5 DEF VoteFor
    <3>2. TypeOK'
      BY <1>0, <2>1, <2>3, <3>1, DeliverType DEF TypeOK
    <3>3. ASSUME ~overtaken PROVE here'
      <4>1. At(ctl', calls', sincePoll, felt', v, resultErd, on')
        BY <2>2, <2>4, <2>5, <3>1, <3>3, DeliverBegins
      <4> QED BY <2>1, <4>1 DEF here
    <3> QED BY <2>1, <3>2, <3>3 DEF MovementInv, here
  <2>6. CASE ~on'
    <3>1. UNCHANGED <<ctl, calls, felt>>
      BY <1>4, <2>6 DEF VoteFor, Nothing
    <3>2. TypeOK'
      BY <1>0, <2>1, <2>3, <3>1 DEF TypeOK
    <3>3. ASSUME ~overtaken PROVE here'
      <4>1. At(ctl, <<>>, sincePoll, felt, v, resultErd, on')
        BY <2>4, <3>3, FreeIsAt
      <4> QED BY <2>1, <3>1, <4>1 DEF here
    <3> QED BY <2>1, <3>2, <3>3 DEF MovementInv, here
  <2> QED BY <2>5, <2>6
<1>5. CASE Poll
  <2>1. /\ calls = <<>> /\ resultErd' = ctl.result
        /\ sincePoll' = 0 /\ overtaken' = overtaken
    BY <1>5 DEF Poll, MainLoopIsFree
  <2>2. resultErd' \in Results /\ sincePoll' \in 0 .. PollPeriod
    BY <1>0, <2>1, ControllerFields, PollIsAPeriod
  <2>3. ~overtaken => Free(ctl, felt, vote, resultErd', on)
    BY <1>a, <2>1 DEF Free, Told
  <2>4. CASE resultErd' # resultErd /\ resultErd' \in FinalResults
    <3>1. /\ vote' = "Off" /\ "Off" \in RequestedStates
          /\ "Off" \in MainSignals /\ "Off" \notin {"Home", "Run"}
      BY <1>5, <2>4 DEF Poll, RequestedStates, MainSignals
    <3>2. ArbTypeOK'
      <4>1. CASE controlRequest[IceMaker]
        BY <1>0, <1>5, <2>4, <4>1, TwoLoads, ReleaseMotorFacts DEF Poll
      <4>2. CASE ~controlRequest[IceMaker]
        BY <1>0, <1>5, <2>4, <4>2 DEF Poll, arbVars, ArbTypeOK
      <4> QED BY <4>1, <4>2
    <3>3. Deliver(ctl, "Off")
      BY <1>5, <2>4 DEF Poll
    <3>4. TypeOK'
      BY <1>0, <2>1, <2>2, <3>1, <3>2, <3>3, DeliverType DEF TypeOK
    <3>5. ASSUME ~overtaken PROVE here'
      <4>1. ctl.state \notin HomingStates \union HarvestStates
        <5>1. "Homing" \notin FinalResults /\ "Harvesting" \notin FinalResults
          BY DEF FinalResults
        <5> QED BY <2>1, <2>3, <2>4, <3>5, <5>1 DEF Free, Told
      <4>2. ctl.state = "Idle"
        BY <1>0, <4>1, ControllerFields DEF ControllerStates
      <4>3. Free(ctl, felt, "Off", resultErd', on')
        BY <2>1, <2>3, <3>5, <4>1, <4>2 DEF Free, Told
      <4>4. At(ctl', calls', sincePoll', felt', "Off", resultErd', on')
        BY <3>1, <3>3, <4>3, DeliverBegins
      <4> QED BY <3>1, <4>4 DEF here
    <3> QED BY <2>1, <3>4, <3>5 DEF MovementInv, here
  <2>5. CASE ~(resultErd' # resultErd /\ resultErd' \in FinalResults)
    <3>1. UNCHANGED <<ctl, calls, felt, vote, controlRequest, driveEnable>>
      BY <1>5, <2>5 DEF Poll, Nothing, arbVars
    <3>2. TypeOK'
      BY <1>0, <2>1, <2>2, <3>1 DEF TypeOK, ArbTypeOK
    <3>3. ASSUME ~overtaken PROVE here'
      <4>1. At(ctl, <<>>, sincePoll', felt, vote, resultErd', on)
        BY <2>3, <3>3, FreeIsAt
      <4> QED BY <2>1, <3>1, <4>1 DEF here
    <3> QED BY <2>1, <3>2, <3>3 DEF MovementInv, here
  <2> QED BY <2>4, <2>5
<1>6. CASE DamperRequests
  <2>1. UNCHANGED <<ctl, calls, vote, resultErd, sincePoll, felt, overtaken>>
    BY <1>6 DEF DamperRequests, twistVars
  <2>2. ArbTypeOK' /\ on' = on
    BY <1>0, <1>6, TwoLoads, RequestMotorFacts DEF DamperRequests
  <2> QED BY <1>0, <2>1, <2>2 DEF MovementInv, TypeOK, here
<1>7. CASE DamperReleases
  <2>1. calls = <<>> /\ UNCHANGED <<vote, resultErd, sincePoll, overtaken>>
        /\ vote \in MainSignals
    BY <1>0, <1>7 DEF DamperReleases, MainLoopIsFree, MainSignals
  <2>2. ArbTypeOK' /\ (on => on')
    BY <1>0, <1>7, TwoLoads, ReleaseMotorFacts DEF DamperReleases
  <2>3. ~overtaken => Free(ctl, felt, vote, resultErd, on')
    BY <1>a, <2>1, <2>2 DEF Free
  <2>4. CASE on'
    <3>1. Deliver(ctl, vote)
      BY <1>7, <2>4 DEF DamperReleases
    <3>2. TypeOK'
      BY <1>0, <2>1, <2>2, <3>1, DeliverType DEF TypeOK
    <3>3. ASSUME ~overtaken PROVE here'
      <4>1. At(ctl', calls', sincePoll, felt', vote, resultErd, on')
        BY <2>1, <2>3, <2>4, <3>1, <3>3, DeliverBegins
      <4> QED BY <2>1, <4>1 DEF here
    <3> QED BY <2>1, <3>2, <3>3 DEF MovementInv, here
  <2>5. CASE ~on'
    <3>1. UNCHANGED <<ctl, calls, felt>>
      BY <1>7, <2>5 DEF DamperReleases, Nothing
    <3>2. TypeOK'
      BY <1>0, <2>1, <2>2, <3>1 DEF TypeOK
    <3>3. ASSUME ~overtaken PROVE here'
      <4>1. At(ctl, <<>>, sincePoll, felt, vote, resultErd, on')
        BY <2>3, <3>3, FreeIsAt
      <4> QED BY <2>1, <3>1, <4>1 DEF here
    <3> QED BY <2>1, <3>2, <3>3 DEF MovementInv, here
  <2> QED BY <2>4, <2>5
<1>8. CASE UNCHANGED vars
  BY <1>0, <1>8 DEF vars, twistVars, arbVars, MovementInv, TypeOK, ArbTypeOK, here
<1> QED BY <1>1, <1>2, <1>3, <1>4, <1>5, <1>6, <1>7, <1>8 DEF Next

\* What the points say of the motor, its timer, its enable and the bucket.
LEMMA MovementInvImpliesSafe == MovementInv => MovementsAreSafe
<1> SUFFICES ASSUME MovementInv, ~overtaken PROVE MovementsAreSafe
  BY DEF MovementInv, MovementsAreSafe
<1> DEFINE on == driveEnable[IceMaker]
<1>0. /\ TypeOK /\ ctl \in Controller /\ ctl.state \in ControllerStates
      /\ sincePoll \in 0 .. PollPeriod
      /\ At(ctl, calls, sincePoll, felt, vote, resultErd, on)
      /\ Told(ctl, felt, vote, resultErd) /\ (ctl.state # "Idle" => on)
  BY ControllerFields DEF MovementInv, TypeOK, At
<1>1. ASSUME Sound(ctl, 0)
      PROVE  /\ ctl.motor \in Moving =>
                   /\ ctl.state # "Idle"
                   /\ ctl.timer["MotorError"].left > 0
                   /\ ctl.timer["MotorError"].signal = "MotorTimeout"
             /\ ctl.lastMotor = ctl.motor
             /\ RestIsComplete
  <2>1. Timed(ctl) /\ Shape(ctl, 0)
    BY <1>1 DEF Sound
  <2>2. ctl.motor \in Moving => ctl.state # "Idle"
    BY <2>1 DEF Shape
  <2>3. CASE ctl.state = "Idle"
    BY <2>1, <2>3 DEF RestIsComplete, Shape, Timed, Rests, Timers
  <2>4. CASE ctl.state # "Idle"
    <3>1. ctl.timer["GeneralPurpose"].left > 0 \/ ctl.motor \in Moving
      BY <1>0, <2>1, <2>4 DEF Shape, Runs, Rests, Moving, ControllerStates,
         HomingStates, HarvestStates
    <3> QED BY <2>1, <2>4, <3>1, TwoTimers DEF RestIsComplete, Timed
  <2> QED BY <2>1, <2>2, <2>3, <2>4 DEF Timed
<1>2. CASE calls = <<>>
  <2>1. Free(ctl, felt, vote, resultErd, on)
    BY <1>0, <1>2, FreeIsAt
  <2> QED BY <1>0, <1>1, <2>1
          DEF Free, Told, MovementsAreSafe, MotorRunsOnlyWhenEnabled,
              MovingMotorIsTimed, LastMotorIsTrue, FullBucketIsReported
<1>3. CASE calls # <<>>
  <2>1. RestIsComplete /\ (ctl.motor \in Moving => ctl.state # "Idle")
    <3>1. CASE ctl.state = "Idle"
      <4>1. Sound(ctl, 0)
        BY <1>0, <3>1 DEF At, AtRest, Begins, AtWork, AtLanding, FindsFull, Pauses
      <4> QED BY <1>1, <4>1
    <3>2. CASE ctl.state # "Idle"
      BY <1>3, <3>2 DEF RestIsComplete
    <3> QED BY <3>1, <3>2
  <2>2. MovingMotorIsTimed
    <3>1. CASE Sound(ctl, 0)
      BY <1>1, <3>1 DEF MovingMotorIsTimed
    <3>2. CASE Begins(ctl, calls, sincePoll, felt)
      <4> DEFINE new == NewMotor(ctl)
                 compare == Compare(new, LongMotorErrorTimeout)
                 start == Start("MotorError", LongMotorErrorTimeout, "MotorTimeout")
      <4>0. new \in Moving
        BY TheMotors DEF NewMotor
      <4>1. JustTimed(ctl, sincePoll) =>
               /\ ctl.timer["MotorError"].left > 0
               /\ ctl.timer["MotorError"].signal = "MotorTimeout"
        <5>1. ctl.timer["MotorError"].left \in Nat
          BY <1>0, ControllerFields, TwoTimers
        <5>2. JustTimed(ctl, sincePoll) =>
                 ctl.timer["MotorError"].left + sincePoll >= LongMotorErrorTimeout
          BY DEF JustTimed
        <5>3. JustTimed(ctl, sincePoll) => ctl.timer["MotorError"].left > 0
          BY <1>0, <5>1, <5>2, BucketCheckIsShort, PollIsAPeriod
        <5> QED BY <5>3 DEF JustTimed
      <4>2. \/ ctl.motor \notin Moving
            \/ JustTimed(ctl, sincePoll)
            \/ ctl.lastMotor \notin Moving /\ Head(calls) = compare
            \/ Head(calls) = start
        <5> HIDE DEF new, compare, start
        <5>1. \/ ctl.motor \notin Moving
              \/ JustTimed(ctl, sincePoll)
              \/ /\ ctl.lastMotor \notin Moving
                 /\ \/ calls = <<compare, Remember(new)>>
                    \/ calls = <<compare, Remember(new), FirstTimer(ctl)>>
              \/ calls = <<start, Remember(new)>>
              \/ calls = <<start, Remember(new), FirstTimer(ctl)>>
          BY <3>2 DEF Begins, new, compare, start
        <5> QED BY <5>1, First2, First3
      <4>3. /\ compare.call = "Compare" /\ compare.motor = new
            /\ start.call = "Start" /\ start.timer = "MotorError"
        BY DEF Compare, Start
      <4> HIDE DEF new, compare, start
      <4>4. \/ ctl.motor \notin Moving
            \/ JustTimed(ctl, sincePoll)
            \/ TimerIsBeingStarted
        BY <1>3, <4>0, <4>2, <4>3 DEF TimerIsBeingStarted
      <4> QED BY <4>1, <4>4 DEF MovingMotorIsTimed
    <3>3. CASE FindsFull(ctl, calls)
      BY <3>3, TheMotors DEF FindsFull, MovingMotorIsTimed
    <3>4. CASE Pauses(ctl, calls)
      BY <3>4, TheMotors DEF Pauses, MayBeTimed, MovingMotorIsTimed
    <3> QED BY <1>0, <3>1, <3>2, <3>3, <3>4 DEF At, AtRest, AtWork, AtLanding
  <2> QED BY <1>0, <1>3, <2>1, <2>2
          DEF Told, MovementsAreSafe, MotorRunsOnlyWhenEnabled, LastMotorIsTrue,
              FullBucketIsReported
<1> QED BY <1>2, <1>3

\* For every period the parametric data may give, and wherever the interrupt
\* comes among the calls of a handler: as long as it has not changed the state
\* inside one, the tray's motor turns only while the arbitrator enables it and
\* only with its timeout running or being started, the state that the next
\* movement is compared with is the motor's, the controller rests completely,
\* and a full bucket is never reported as harvested.
THEOREM MovementsStaySafe == Spec => []MovementsAreSafe
<1>1. Init => MovementInv
  BY InitImpliesMovementInv
<1>2. MovementInv /\ [Next]_vars => MovementInv'
  BY MovementInvIsInductive
<1>3. MovementInv => MovementsAreSafe
  BY MovementInvImpliesSafe
<1> QED BY <1>1, <1>2, <1>3, PTL DEF Spec

\* As long as the interrupt has not changed the state inside a handler, a final
\* result that is published answers the vote that stands.
THEOREM EveryResultAnswersItsVote == Spec => [][overtaken \/ AnswersTheVote]_vars
<1>1. Init => MovementInv
  BY InitImpliesMovementInv
<1>2. MovementInv /\ [Next]_vars => MovementInv'
  BY MovementInvIsInductive
<1>3. MovementInv /\ [Next]_vars => [overtaken \/ AnswersTheVote]_vars
  <2> SUFFICES ASSUME MovementInv, Next, ~overtaken,
                      resultErd' # resultErd, resultErd' \in FinalResults
               PROVE  Answers(resultErd', vote)
    BY DEF vars, Answers, AnswersTheVote
  <2>1. resultErd' = ctl.result
    BY DEF Next, MakeCall, Tick, SwitchChanges, VoteFor, Poll, DamperRequests,
       DamperReleases, twistVars
  <2> QED BY <2>1 DEF MovementInv, At, Told
<1> QED BY <1>1, <1>2, <1>3, PTL DEF Spec
=============================================================================
