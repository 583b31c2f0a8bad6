----------------------- MODULE DamperMotorSystemProofs -----------------------
(***************************************************************************)
(* The safety of the damper's motor chain, for every step table, delay and *)
(* set of votes: SystemInv of DamperMotorSystem is inductive.  It begins   *)
(* with what the arbitrator's steps do, motor by motor, and that on its    *)
(* own the arbitrator never enables both motors.                           *)
(***************************************************************************)
EXTENDS DamperMotorSystem, TLAPS

(* The arbitrator by itself.                                               *)

\* There are two motors.
LEMMA OtherFacts ==
    ASSUME NEW m \in Motors
    PROVE  Other(m) \in Motors /\ Other(m) # m
BY DEF Motors, Other

\* The arbitrator's steps, motor by motor.
LEMMA RequestMotorFacts ==
    ASSUME ArbTypeOK, NEW m \in Motors, RequestMotor(m)
    PROVE  /\ ArbTypeOK'
           /\ ~controlRequest[m]
           /\ controlRequest'[m]
           /\ controlRequest'[Other(m)] = controlRequest[Other(m)]
           /\ driveEnable'[m] <=> driveEnable[m] \/ ~driveEnable[Other(m)]
           /\ driveEnable'[Other(m)] = driveEnable[Other(m)]
<1>1. CASE driveEnable[Other(m)]
  BY <1>1, OtherFacts DEF ArbTypeOK, RequestMotor, EnableAfterSet
<1>2. CASE ~driveEnable[Other(m)]
  BY <1>2, OtherFacts DEF ArbTypeOK, RequestMotor, EnableAfterSet
<1> QED BY <1>1, <1>2

\* A motor that is given back goes to the one that waits.
LEMMA ReleaseMotorFacts ==
    ASSUME ArbTypeOK, NEW m \in Motors, ReleaseMotor(m)
    PROVE  /\ ArbTypeOK'
           /\ controlRequest[m]
           /\ ~controlRequest'[m]
           /\ controlRequest'[Other(m)] = controlRequest[Other(m)]
           /\ ~driveEnable'[m]
           /\ driveEnable'[Other(m)] <=>
                 driveEnable[Other(m)] \/ controlRequest[Other(m)]
<1>1. CASE controlRequest[Other(m)]
  BY <1>1, OtherFacts DEF ArbTypeOK, ReleaseMotor, EnableAfterClear
<1>2. CASE ~controlRequest[Other(m)]
  BY <1>2, OtherFacts DEF ArbTypeOK, ReleaseMotor, EnableAfterClear
<1> QED BY <1>1, <1>2

\* Given back and asked for again, the motor goes to the other load if it waits.
LEMMA ReleaseAndRequestMotorFacts ==
    ASSUME ArbTypeOK, NEW m \in Motors, ReleaseAndRequestMotor(m),
           NeverBothEnabled, driveEnable[m]
    PROVE  /\ ArbTypeOK'
           /\ controlRequest' = controlRequest
           /\ controlRequest[m]
           /\ driveEnable'[m] <=> ~controlRequest[Other(m)]
           /\ driveEnable'[Other(m)] <=> controlRequest[Other(m)]
<1>1. ~driveEnable[Other(m)]
  BY DEF NeverBothEnabled, Motors, Other
<1>2. CASE controlRequest[Other(m)]
  BY <1>1, <1>2, OtherFacts DEF ArbTypeOK, ReleaseAndRequestMotor,
     EnableAfterSet, EnableAfterClear
<1>3. CASE ~controlRequest[Other(m)]
  BY <1>1, <1>3, OtherFacts DEF ArbTypeOK, ReleaseAndRequestMotor,
     EnableAfterSet, EnableAfterClear
<1> QED BY <1>2, <1>3

-----------------------------------------------------------------------------
\* The two motors, as the invariants name them.
LEMMA EachMotor ==
    /\ 0 \in Motors /\ 1 \in Motors /\ Other(0) = 1 /\ Other(1) = 0
    /\ \A m \in Motors : m = 0 \/ m = 1
BY DEF Motors, Other

\* The invariant of the arbitrator on its own.
ArbInv == ArbTypeOK /\ NeverBothEnabled /\ NoRequestIsForgotten

\* The same, told of one motor and the other.
LEMMA ArbInvOfOther ==
    ASSUME NEW m \in Motors
    PROVE  ArbInv <=>
              /\ ArbTypeOK
              /\ ~(driveEnable[m] /\ driveEnable[Other(m)])
              /\ \A n \in {m, Other(m)} :
                    /\ controlRequest[n] => driveEnable[m] \/ driveEnable[Other(m)]
                    /\ driveEnable[n] => controlRequest[n]
<1>1. CASE m = 0
  BY <1>1, EachMotor DEF ArbInv, NeverBothEnabled, NoRequestIsForgotten, Motors
<1>2. CASE m = 1
  BY <1>2, EachMotor DEF ArbInv, NeverBothEnabled, NoRequestIsForgotten, Motors
<1> QED BY <1>1, <1>2, EachMotor

\* "only allows either of the motors to be on at the same time", and nobody
\* who asks for the motor waits for an arbitrator that has forgotten it:
\* MotorDriverArbitrator.c, whatever the two loads ask for.
THEOREM ArbitratorIsExclusive ==
    ArbSpec => [](NeverBothEnabled /\ NoRequestIsForgotten)
<1>1. ArbInit => ArbInv
  BY DEF ArbInit, ArbInv, ArbTypeOK, NeverBothEnabled, NoRequestIsForgotten, Motors
<1>2. ArbInv /\ [ArbNext]_arbVars => ArbInv'
  <2> SUFFICES ASSUME ArbInv, [ArbNext]_arbVars PROVE ArbInv'
    OBVIOUS
  <2>1. CASE UNCHANGED arbVars
    BY <2>1 DEF arbVars, ArbInv, ArbTypeOK, NeverBothEnabled, NoRequestIsForgotten
  <2>2. ASSUME NEW m \in Motors,
               \/ RequestMotor(m)
               \/ driveEnable[m] /\ ReleaseMotor(m)
               \/ driveEnable[m] /\ ReleaseAndRequestMotor(m)
        PROVE  ArbInv'
    <3>1. /\ ArbTypeOK
          /\ ~(driveEnable[m] /\ driveEnable[Other(m)])
          /\ \A n \in {m, Other(m)} :
                /\ controlRequest[n] => driveEnable[m] \/ driveEnable[Other(m)]
                /\ driveEnable[n] => controlRequest[n]
      BY ArbInvOfOther
    <3> DEFINE Goal ==
          /\ ArbTypeOK'
          /\ ~(driveEnable'[m] /\ driveEnable'[Other(m)])
          /\ \A n \in {m, Other(m)} :
                /\ controlRequest'[n] => driveEnable'[m] \/ driveEnable'[Other(m)]
                /\ driveEnable'[n] => controlRequest'[n]
    <3>a. Goal => ArbInv'
      <4>1. CASE m = 0
        BY <4>1, EachMotor DEF ArbInv, NeverBothEnabled, NoRequestIsForgotten, Motors
      <4>2. CASE m = 1
        BY <4>2, EachMotor DEF ArbInv, NeverBothEnabled, NoRequestIsForgotten, Motors
      <4> QED BY <4>1, <4>2, EachMotor
    <3>2. CASE RequestMotor(m)
      <4>1. Goal
        BY <3>1, <3>2, RequestMotorFacts
      <4> QED BY <4>1, <3>a
    <3>3. CASE driveEnable[m] /\ ReleaseMotor(m)
      <4>1. Goal
        BY <3>1, <3>3, ReleaseMotorFacts
      <4> QED BY <4>1, <3>a
    <3>4. CASE driveEnable[m] /\ ReleaseAndRequestMotor(m)
      <4>1. NeverBothEnabled
        BY DEF ArbInv
      <4>2. Goal
        BY <3>1, <3>4, <4>1, ReleaseAndRequestMotorFacts
      <4> QED BY <4>2, <3>a
    <3> QED BY <2>2, <3>2, <3>3, <3>4
  <2> QED BY <2>1, <2>2 DEF ArbNext
<1>3. ArbInv => NeverBothEnabled /\ NoRequestIsForgotten
  BY DEF ArbInv
<1> QED BY <1>1, <1>2, <1>3, PTL DEF ArbSpec

-----------------------------------------------------------------------------
(* The manager's requests.                                                 *)

\* A well-formed request is one, and has the steps it was given.
LEMMA RequestFacts ==
    ASSUME NEW d \in Directions, NEW n \in Nat, NEW b \in BOOLEAN
    PROVE  /\ PositionRequest(d, n, b) \in PositionRequests
           /\ PositionRequest(d, n, b).stepsToMove = n
BY DEF PositionRequest, PositionRequests

\* Clearing a request leaves a request of no steps.
LEMMA ClearedFacts ==
    ASSUME NEW r \in PositionRequests
    PROVE  Cleared(r) \in PositionRequests /\ Cleared(r).stepsToMove = 0
BY DEF Cleared, PositionRequests

\* Each request the manager's states write asks for at least one step.
LEMMA ManagerRequests ==
    /\ \A d \in Directions, b \in BOOLEAN :
          /\ PositionRequest(d, StepsToHome, b) \in PositionRequests
          /\ PositionRequest(d, StepsToHome, b).stepsToMove > 0
    /\ \A d \in Directions, b \in BOOLEAN, c \in CompartmentStates :
          /\ PositionRequest(d, StepsToOpen[c], b) \in PositionRequests
          /\ PositionRequest(d, StepsToOpen[c], b).stepsToMove > 0
          /\ PositionRequest(d, StepsToClose[c], b) \in PositionRequests
          /\ PositionRequest(d, StepsToClose[c], b).stepsToMove > 0
<1>1. /\ StepsToHome \in Nat /\ StepsToHome > 0
      /\ \A c \in CompartmentStates :
            /\ StepsToOpen[c] \in Nat /\ StepsToOpen[c] > 0
            /\ StepsToClose[c] \in Nat /\ StepsToClose[c] > 0
  BY DamperConstants
<1> QED BY <1>1, RequestFacts

\* What the entries of the manager's states write.
LEMMA EntriesWrite ==
    ASSUME stepData' \in CompartmentStates, closeBeforeCycling \in BOOLEAN
    PROVE  /\ EnterHoming =>
                 /\ positionRequest' \in PositionRequests
                 /\ positionRequest'.stepsToMove > 0
                 /\ state' = "Homing"
           /\ EnterMoving =>
                 /\ positionRequest' \in PositionRequests
                 /\ positionRequest'.stepsToMove > 0
                 /\ state' = "Moving"
           /\ EnterFullCycle =>
                 /\ positionRequest' \in PositionRequests
                 /\ positionRequest'.stepsToMove > 0
                 /\ state' = "FullCycle"
                 /\ closeBeforeCycling' \in BOOLEAN
<1>1. "Clockwise" \in Directions /\ "CounterClockwise" \in Directions
  BY DEF Directions
<1> QED BY <1>1, ManagerRequests DEF EnterHoming, EnterMoving, EnterFullCycle,
           OpenDamper, CloseDamper

\* Only an initialisation or an event in Idle writes a request, and what it
\* writes asks for at least one step.
LEMMA EventWritesFromRest ==
    ASSUME ManagerTypeOK, BusyIffMoveOutstanding, ManagerEvent
    PROVE  /\ ManagerTypeOK'
           /\ BusyIffMoveOutstanding'
           /\ positionRequest' # positionRequest =>
                 positionRequest.stepsToMove = 0 /\ positionRequest'.stepsToMove > 0
<1> DEFINE Goal ==
        /\ ManagerTypeOK'
        /\ BusyIffMoveOutstanding'
        /\ positionRequest' # positionRequest =>
              positionRequest.stepsToMove = 0 /\ positionRequest'.stepsToMove > 0
<1>0. /\ positionRequest.stepsToMove \in Nat
      /\ stepData \in CompartmentStates
      /\ closeBeforeCycling \in BOOLEAN
  BY DEF ManagerTypeOK, PositionRequests
<1>1. CASE Initialize
  <2>1. stepData' \in CompartmentStates
    BY <1>0, <1>1 DEF Initialize, compartmentVars
  <2>2. vote.position \in Positions
    BY DamperConstants DEF ManagerTypeOK
  <2> QED BY <1>0, <1>1, <2>1, <2>2, EntriesWrite DEF Initialize, ManagerTypeOK,
             BusyIffMoveOutstanding, flagVars, erdVars, compartmentVars, States
<1>2. ASSUME NEW v \in Votes, PositionRequested(v)
      PROVE  Goal
  <2>1. stepData' \in CompartmentStates
    BY <1>0, <1>2 DEF PositionRequested, compartmentVars
  <2> QED BY <1>0, <1>2, <2>1, EntriesWrite DEF PositionRequested, ManagerTypeOK,
             BusyIffMoveOutstanding, fsmVars, flagVars, erdVars,
             compartmentVars, States
<1>3. CASE HomingRequestSet
  <2>1. stepData' \in CompartmentStates
    BY <1>0, <1>3 DEF HomingRequestSet, compartmentVars
  <2> QED BY <1>0, <1>3, <2>1, EntriesWrite DEF HomingRequestSet, HomeRequested,
             ManagerTypeOK, BusyIffMoveOutstanding, fsmVars, compartmentVars,
             States
<1>4. CASE FullCycleRequestSet
  <2>1. stepData' \in CompartmentStates
    BY <1>0, <1>4 DEF FullCycleRequestSet, compartmentVars
  <2> QED BY <1>0, <1>4, <2>1, EntriesWrite DEF FullCycleRequestSet,
             ManagerTypeOK, BusyIffMoveOutstanding, fsmVars, compartmentVars,
             States
<1>5. ASSUME NEW c \in CompartmentStates, ConvertibleCompartmentStateChanged(c)
      PROVE  Goal
  <2>1. stepData' \in CompartmentStates
    BY <1>0, <1>5 DEF ConvertibleCompartmentStateChanged
  <2>2. CASE HomeRequested
    BY <1>0, <1>5, <2>1, <2>2, EntriesWrite DEF
       ConvertibleCompartmentStateChanged, HomeRequested, ManagerTypeOK,
       BusyIffMoveOutstanding, fsmVars, erdVars, States
  <2>3. CASE UNCHANGED <<fsmVars, homingRequired>>
    BY <1>0, <1>5, <2>1, <2>3 DEF ConvertibleCompartmentStateChanged,
       ManagerTypeOK, BusyIffMoveOutstanding, fsmVars, erdVars
  <2> QED BY <1>5, <2>2, <2>3 DEF ConvertibleCompartmentStateChanged
<1> QED BY <1>1, <1>2, <1>3, <1>4, <1>5 DEF ManagerEvent

\* A completion leaves the manager at rest with a cleared request, or busy with
\* a new one.
LEMMA CompletionKeepsManager ==
    ASSUME ManagerTypeOK, BusyIffMoveOutstanding, StepRequestCompleted
    PROVE  ManagerTypeOK' /\ BusyIffMoveOutstanding'
<1>1. /\ vote' \in Votes
      /\ compartment' \in CompartmentStates
      /\ stepData' \in CompartmentStates
  BY DEF StepRequestCompleted, ManagerTypeOK, compartmentVars
<1>2. flap' \in 0 .. FlapTravel
  BY DamperConstants DEF StepRequestCompleted, FlapMoves, ManagerTypeOK,
     PositionRequests
<1>3. ASSUME EnterIdle
      PROVE  /\ state' \in States
             /\ closeBeforeCycling' \in BOOLEAN
             /\ positionRequest' \in PositionRequests
             /\ BusyIffMoveOutstanding'
  BY <1>1, <1>3, EntriesWrite, ClearedFacts DEF EnterIdle, ManagerTypeOK,
     BusyIffMoveOutstanding, States
<1>4. CASE HomingCompleted
  BY <1>1, <1>2, <1>3, <1>4 DEF HomingCompleted, ExitHoming, ManagerTypeOK,
     Positions
<1>5. CASE MovingCompleted
  BY <1>1, <1>2, <1>3, <1>5 DEF MovingCompleted, ManagerTypeOK, Positions,
     flagVars, erdVars
<1>6. CASE FullCycleCompleted
  <2>1. "CounterClockwise" \in Directions
    BY DEF Directions
  <2> QED BY <1>1, <1>2, <1>6, <2>1, EntriesWrite, ManagerRequests DEF
             FullCycleCompleted, OpenDamper, ManagerTypeOK,
             BusyIffMoveOutstanding, States, Positions, erdVars
<1> QED BY <1>4, <1>5, <1>6 DEF StepRequestCompleted

-----------------------------------------------------------------------------
\* What a started move leaves in the driver's fields.
LEMMA StartMoveFacts ==
    ASSUME DriverTypeOK, NEW r \in PositionRequests, r.stepsToMove > 0,
           StartMove(r)
    PROVE  /\ ticking' = TRUE
           /\ listening' = FALSE
           /\ stepsToRun' \in Nat
           /\ pulses' = 1
           /\ pulses' + stepsToRun' = r.stepsToMove
           /\ directionToTurn' \in Directions
           /\ currentSubStep' \in 0 .. SubSteps - 1
           /\ energised' = TRUE
           /\ subStepResetRequested' \in BOOLEAN
           /\ excitationDelayActive' = TRUE
           /\ countBetweenSteps' = countBetweenSteps
           /\ excitationDelayStepCount' = excitationDelayStepCount
<1>1. /\ r.stepsToMove \in Nat
      /\ r.direction \in Directions
      /\ r.resetSubstep \in BOOLEAN
  BY DEF PositionRequests
<1>2. NextSubStep(currentSubStep, r.direction) \in 0 .. SubSteps - 1
  BY DriverConstants DEF DriverTypeOK, NextSubStep
<1> QED BY <1>1, <1>2, DriverConstants DEF StartMove, DriverTypeOK

-----------------------------------------------------------------------------
\* The part of SystemInv that is about the driver and the arbitrator.
MotorInv ==
    /\ DriverTypeOK
    /\ ArbTypeOK
    /\ OneOwner
    /\ StepsAreExact
    /\ IdleDriverIsClean
    /\ NoRequestIsForgotten
    /\ LoadsNeverRunTogether
    /\ EnabledDamperIsMoving
    /\ Coupling

\* A resting driver that starts a move it was enabled for keeps MotorInv.
LEMMA MoveStarts ==
    ASSUME DriverTypeOK, ~ticking, IdleDriverIsClean,
           positionRequest' \in PositionRequests,
           positionRequest'.stepsToMove > 0,
           StartMove(positionRequest'),
           readyQueued' = 0,
           ArbTypeOK', controlRequest'[Damper],
           driveEnable'[Damper], ~driveEnable'[IceMaker]
    PROVE  MotorInv'
<1>1. /\ countBetweenSteps' = 0
      /\ excitationDelayStepCount' = 0
      /\ ticking' = TRUE
      /\ listening' = FALSE
      /\ energised' = TRUE
      /\ excitationDelayActive' = TRUE
      /\ pulses' = 1 /\ stepsToRun' \in Nat
      /\ pulses' + stepsToRun' = positionRequest'.stepsToMove
  BY StartMoveFacts DEF IdleDriverIsClean
<1>2. DriverTypeOK'
  BY <1>1, StartMoveFacts, DriverConstants DEF DriverTypeOK
<1>3. OneOwner' /\ StepsAreExact' /\ IdleDriverIsClean' /\ Coupling'
  BY <1>1 DEF OneOwner, StepsAreExact, IdleDriverIsClean, Coupling
<1>4. /\ NoRequestIsForgotten'
      /\ LoadsNeverRunTogether'
      /\ EnabledDamperIsMoving'
  BY <1>1 DEF NoRequestIsForgotten, LoadsNeverRunTogether, NeverBothEnabled,
     EnabledDamperIsMoving, Motors, Damper, IceMaker
<1> QED BY <1>2, <1>3, <1>4 DEF MotorInv

\* A driver that comes to rest, or that rests on while its motor is not
\* enabled, keeps MotorInv.
LEMMA DriverRests ==
    ASSUME DriverTypeOK, ~ticking, IdleDriverIsClean,
           positionRequest' \in PositionRequests,
           controlRequest'[Damper] <=> positionRequest'.stepsToMove > 0,
           listening' = TRUE,
           UNCHANGED <<ticking, directionToTurn, subStepResetRequested,
                       delayVars, coilVars>>,
           readyQueued' = 0,
           ArbTypeOK', ~driveEnable'[Damper],
           controlRequest'[Damper] => driveEnable'[IceMaker],
           driveEnable'[IceMaker] <=> controlRequest'[IceMaker]
    PROVE  MotorInv'
<1>1. DriverTypeOK'
  BY DEF DriverTypeOK, delayVars, coilVars
<1>2. OneOwner' /\ StepsAreExact' /\ IdleDriverIsClean' /\ Coupling'
  BY DEF OneOwner, StepsAreExact, IdleDriverIsClean, Coupling, delayVars,
     coilVars, DriverTypeOK
<1>3. /\ NoRequestIsForgotten'
      /\ LoadsNeverRunTogether'
      /\ EnabledDamperIsMoving'
  BY DEF NoRequestIsForgotten, LoadsNeverRunTogether, NeverBothEnabled,
     EnabledDamperIsMoving, IdleDriverIsClean, Motors, Damper, IceMaker, coilVars
<1> QED BY <1>1, <1>2, <1>3 DEF MotorInv

\* The interrupt keeps MotorInv: it takes steps until none is left, and then
\* lets go of the coils and queues the completion.
LEMMA TickKeepsMotorInv ==
    ASSUME MotorInv, StepTick
    PROVE  MotorInv'
<1> USE DEF MotorInv
<1>1. /\ positionRequest' = positionRequest
      /\ controlRequest' = controlRequest
      /\ driveEnable' = driveEnable
  BY DEF StepTick, managerVars, fsmVars, arbVars
<1>2. /\ readyQueued = 0 /\ ~listening /\ ticking
      /\ pulses + stepsToRun = positionRequest.stepsToMove
      /\ positionRequest.stepsToMove \in Nat
      /\ positionRequest.stepsToMove > 0
      /\ driveEnable[Damper] /\ energised
  BY DEF StepTick, StepTimeChange, ExcitationTick, SteppingTick, OneOwner,
     StepsAreExact, DriverTypeOK, PositionRequests, Coupling,
     EnabledDamperIsMoving, NoRequestIsForgotten, Damper, Motors
<1>3. NextSubStep(currentSubStep, directionToTurn) \in 0 .. SubSteps - 1
  BY DriverConstants DEF DriverTypeOK, NextSubStep
<1>4. DriverTypeOK /\ ArbTypeOK' /\ NoRequestIsForgotten'
  BY <1>1 DEF ArbTypeOK, NoRequestIsForgotten
<1>5. /\ listening' = listening
      /\ directionToTurn' = directionToTurn
      /\ subStepResetRequested' = subStepResetRequested
  BY DEF StepTick, StepTimeChange, ExcitationTick, SteppingTick
<1>6. ~driveEnable[IceMaker]
  BY <1>2 DEF LoadsNeverRunTogether, NeverBothEnabled, Damper, IceMaker
<1> DEFINE Holds ==
        /\ countBetweenSteps' \in 0 .. EventsBetweenSteps
        /\ excitationDelayStepCount' \in 0 .. ExcitationEvents
        /\ excitationDelayActive' \in BOOLEAN
        /\ excitationDelayActive' \/ stepsToRun' = 0 => countBetweenSteps' = 0
        /\ ~excitationDelayActive' => excitationDelayStepCount' = 0
        /\ currentSubStep' \in 0 .. SubSteps - 1
        /\ stepsToRun' \in Nat /\ pulses' \in Nat
        /\ pulses' + stepsToRun' = positionRequest.stepsToMove
        /\ \/ ticking' /\ energised' /\ readyQueued' = 0
           \/ /\ ~ticking' /\ ~energised' /\ readyQueued' = 1
              /\ stepsToRun' = 0 /\ ~excitationDelayActive'
        /\ ticking' \in BOOLEAN /\ energised' \in BOOLEAN
<1>7. ASSUME ExcitationTick PROVE Holds
  <2>1. CASE ~ExcitationDelayElapses
    BY <1>2, <1>4, <1>7, <2>1, DriverConstants DEF ExcitationTick,
       ExcitationDelayElapses, DriverTypeOK, Coupling, coilVars
  <2>2. CASE ExcitationDelayElapses /\ stepsToRun > 0
    <3>1. stepsToRun # 0
      BY <1>4, <2>2 DEF DriverTypeOK
    <3>2. /\ excitationDelayActive' = FALSE /\ excitationDelayStepCount' = 0
          /\ countBetweenSteps' = countBetweenSteps
          /\ currentSubStep' = NextSubStep(currentSubStep, directionToTurn)
          /\ stepsToRun' = stepsToRun - 1 /\ pulses' = pulses + 1
          /\ ticking' = ticking /\ energised' = TRUE /\ readyQueued' = readyQueued
      BY <1>7, <2>2, <3>1, Zenon DEF ExcitationTick, MoveToNextStep
    <3>3. ~excitationDelayActive' /\ excitationDelayActive' \in BOOLEAN
      BY <3>2
    <3>4. countBetweenSteps = 0
      BY <1>7 DEF ExcitationTick, Coupling
    <3> QED BY <1>2, <1>3, <1>4, <2>2, <3>2, <3>3, <3>4, DriverConstants
            DEF DriverTypeOK
  <2>3. CASE ExcitationDelayElapses /\ stepsToRun = 0
    <3>1. /\ excitationDelayActive' = FALSE /\ excitationDelayStepCount' = 0
          /\ countBetweenSteps' = countBetweenSteps
          /\ currentSubStep' = currentSubStep
          /\ stepsToRun' = stepsToRun /\ pulses' = pulses
          /\ ticking' = FALSE /\ energised' = FALSE
          /\ readyQueued' = readyQueued + 1
      BY <1>7, <2>3 DEF ExcitationTick, EndExcitationDelayExpired
    <3>2. /\ ~excitationDelayActive' /\ excitationDelayActive' \in BOOLEAN
          /\ ~ticking' /\ ticking' \in BOOLEAN
          /\ ~energised' /\ energised' \in BOOLEAN
      BY <3>1
    <3>3. countBetweenSteps = 0
      BY <1>7 DEF ExcitationTick, Coupling
    <3> QED BY <1>2, <1>4, <2>3, <3>1, <3>2, <3>3, DriverConstants
            DEF DriverTypeOK
  <2>4. stepsToRun > 0 \/ stepsToRun = 0
    BY <1>4 DEF DriverTypeOK
  <2> HIDE DEF Holds
  <2> QED BY <2>1, <2>2, <2>3, <2>4
<1>8. ASSUME SteppingTick PROVE Holds
  <2>1. /\ ~excitationDelayActive /\ ticking' = ticking
        /\ readyQueued' = readyQueued
        /\ excitationDelayStepCount' = excitationDelayStepCount
        /\ excitationDelayStepCount = 0
    BY <1>8 DEF SteppingTick, Coupling
  <2>2. CASE stepsToRun = 0
    <3>1. /\ excitationDelayActive' = TRUE
          /\ countBetweenSteps' = countBetweenSteps /\ countBetweenSteps = 0
          /\ currentSubStep' = currentSubStep /\ energised' = energised
          /\ stepsToRun' = stepsToRun /\ pulses' = pulses
      BY <1>8, <2>2 DEF SteppingTick, Coupling, coilVars
    <3> QED BY <1>2, <1>4, <2>1, <2>2, <3>1, DriverConstants DEF DriverTypeOK
  <2>3. CASE stepsToRun > 0 /\ countBetweenSteps < EventsBetweenSteps
    <3>1. /\ excitationDelayActive' = excitationDelayActive
          /\ countBetweenSteps' = countBetweenSteps + 1
          /\ currentSubStep' = currentSubStep /\ energised' = energised
          /\ stepsToRun' = stepsToRun /\ pulses' = pulses
      BY <1>4, <1>8, <2>3, DriverConstants DEF SteppingTick, coilVars,
         DriverTypeOK
    <3> QED BY <1>2, <1>4, <2>1, <2>3, <3>1, DriverConstants DEF DriverTypeOK
  <2>4. CASE stepsToRun > 0 /\ countBetweenSteps >= EventsBetweenSteps
    <3>1. /\ excitationDelayActive' = excitationDelayActive
          /\ countBetweenSteps' = 0
          /\ currentSubStep' = NextSubStep(currentSubStep, directionToTurn)
          /\ energised' = TRUE
          /\ stepsToRun' = stepsToRun - 1 /\ pulses' = pulses + 1
      BY <1>4, <1>8, <2>4, DriverConstants DEF SteppingTick, MoveToNextStep,
         DriverTypeOK
    <3> QED BY <1>2, <1>3, <1>4, <2>1, <2>4, <3>1, DriverConstants
            DEF DriverTypeOK
  <2> HIDE DEF Holds
  <2> QED BY <1>8, <2>2, <2>3, <2>4 DEF SteppingTick
<1>9. Holds
  BY <1>7, <1>8 DEF StepTick, StepTimeChange
<1>10. DriverTypeOK'
  BY <1>1, <1>4, <1>5, <1>9 DEF DriverTypeOK
<1>11. OneOwner' /\ StepsAreExact'
  BY <1>1, <1>2, <1>5, <1>9 DEF OneOwner, StepsAreExact
<1>12. IdleDriverIsClean' /\ Coupling'
  BY <1>1, <1>2, <1>9 DEF IdleDriverIsClean, Coupling
<1>13. LoadsNeverRunTogether' /\ EnabledDamperIsMoving'
  BY <1>1, <1>2, <1>6, <1>9 DEF LoadsNeverRunTogether, NeverBothEnabled,
     EnabledDamperIsMoving, Damper, IceMaker
<1> QED BY <1>4, <1>10, <1>11, <1>12, <1>13

\* What MotorInv says of a driver that is not moving.
LEMMA RestingFacts ==
    ASSUME MotorInv, ~driveEnable[Damper]
    PROVE  ~ticking /\ readyQueued = 0 /\ listening = TRUE
BY DEF MotorInv, Coupling, OneOwner, DriverTypeOK

\* Whoever asks for a motor, enabled or not, is one of the two.
LEMMA TwoMotors == /\ Damper \in Motors /\ IceMaker \in Motors
                   /\ Other(Damper) = IceMaker /\ Other(IceMaker) = Damper
BY DEF Damper, IceMaker, Motors, Other

\* What NoRequestIsForgotten and NeverBothEnabled say of the two motors.
LEMMA EnableFacts ==
    ASSUME MotorInv
    PROVE  /\ controlRequest[Damper] /\ ~driveEnable[Damper] => driveEnable[IceMaker]
           /\ controlRequest[IceMaker] /\ ~driveEnable[IceMaker] => driveEnable[Damper]
           /\ driveEnable[Damper] => controlRequest[Damper] /\ ~driveEnable[IceMaker]
           /\ driveEnable[IceMaker] => controlRequest[IceMaker]
BY DEF MotorInv, NoRequestIsForgotten, LoadsNeverRunTogether, NeverBothEnabled,
       Motors, Damper, IceMaker

\* A request of the ice maker does not touch the damper's motor.
LEMMA IceMakerRequestKeepsMotorInv ==
    ASSUME MotorInv, IceMakerRequests
    PROVE  MotorInv'
<1>1. /\ positionRequest' = positionRequest
      /\ UNCHANGED driverVars
      /\ RequestMotor(IceMaker)
  BY DEF IceMakerRequests, managerVars, fsmVars
<1>2. /\ ArbTypeOK' /\ controlRequest'[IceMaker]
      /\ controlRequest'[Damper] = controlRequest[Damper]
      /\ driveEnable'[IceMaker] <=> driveEnable[IceMaker] \/ ~driveEnable[Damper]
      /\ driveEnable'[Damper] = driveEnable[Damper]
  BY <1>1, RequestMotorFacts, TwoMotors DEF MotorInv
<1>3. DriverTypeOK' /\ OneOwner' /\ StepsAreExact' /\ IdleDriverIsClean'
  BY <1>1 DEF MotorInv, DriverTypeOK, OneOwner, StepsAreExact,
     IdleDriverIsClean, driverVars, delayVars, coilVars
<1>4. Coupling' /\ EnabledDamperIsMoving'
  BY <1>1, <1>2 DEF MotorInv, Coupling, EnabledDamperIsMoving, driverVars,
     delayVars, coilVars
<1>5. LoadsNeverRunTogether'
  BY <1>1, <1>2, EnableFacts DEF MotorInv, LoadsNeverRunTogether,
     NeverBothEnabled, Damper, IceMaker, driverVars, coilVars
<1>6. NoRequestIsForgotten'
  BY <1>2, EnableFacts DEF MotorInv, NoRequestIsForgotten, Motors, Damper,
     IceMaker
<1> QED BY <1>2, <1>3, <1>4, <1>5, <1>6 DEF MotorInv

\* The ice maker's release starts the damper if it waits.
LEMMA IceMakerReleaseKeepsMotorInv ==
    ASSUME MotorInv, IceMakerReleases
    PROVE  MotorInv'
<1>1. /\ positionRequest' = positionRequest
      /\ ReleaseMotor(IceMaker)
      /\ driveEnable[IceMaker]
  BY DEF IceMakerReleases, managerVars, fsmVars
<1>2. ~driveEnable[Damper] /\ (controlRequest[Damper] <=> positionRequest.stepsToMove > 0)
  BY <1>1, EnableFacts DEF MotorInv, EnabledDamperIsMoving
<1>3. ~ticking /\ readyQueued = 0 /\ listening = TRUE
  BY <1>2, RestingFacts
<1>4. /\ ArbTypeOK' /\ ~controlRequest'[IceMaker] /\ ~driveEnable'[IceMaker]
      /\ controlRequest'[Damper] = controlRequest[Damper]
      /\ driveEnable'[Damper] <=> controlRequest[Damper]
  BY <1>1, <1>2, ReleaseMotorFacts, TwoMotors DEF MotorInv
<1>5. CASE driveEnable'[Damper]
  <2>1. StartMove(positionRequest') /\ readyQueued' = 0
    BY <1>1, <1>3, <1>5 DEF IceMakerReleases, MotorControlEnableUpdated
  <2> QED BY <1>1, <1>2, <1>3, <1>4, <1>5, <2>1, MoveStarts DEF MotorInv, DriverTypeOK
<1>6. CASE ~driveEnable'[Damper]
  <2>1. UNCHANGED driverVars
    BY <1>6 DEF IceMakerReleases
  <2> QED BY <1>1, <1>2, <1>3, <1>4, <1>6, <2>1, DriverRests DEF MotorInv,
             DriverTypeOK, driverVars
<1> QED BY <1>5, <1>6

\* An event of the manager asks for the motor only when it rests.
LEMMA DamperEventKeepsMotorInv ==
    ASSUME ManagerTypeOK, BusyIffMoveOutstanding, MotorInv, DamperEvent
    PROVE  MotorInv'
<1>1. /\ positionRequest' \in PositionRequests
      /\ positionRequest' # positionRequest =>
            positionRequest.stepsToMove = 0 /\ positionRequest'.stepsToMove > 0
  BY EventWritesFromRest DEF DamperEvent, ManagerTypeOK
<1>2. CASE positionRequest' = positionRequest
  <2>1. UNCHANGED driverVars /\ UNCHANGED arbVars
    BY <1>2 DEF DamperEvent
  <2>2. DriverTypeOK' /\ OneOwner' /\ StepsAreExact' /\ IdleDriverIsClean'
    BY <1>2, <2>1 DEF MotorInv, DriverTypeOK, OneOwner, StepsAreExact,
       IdleDriverIsClean, driverVars, delayVars, coilVars
  <2>3. Coupling' /\ EnabledDamperIsMoving' /\ LoadsNeverRunTogether'
    BY <1>2, <2>1 DEF MotorInv, Coupling, EnabledDamperIsMoving,
       LoadsNeverRunTogether, NeverBothEnabled, driverVars, delayVars,
       coilVars, arbVars
  <2>4. ArbTypeOK' /\ NoRequestIsForgotten'
    BY <2>1 DEF MotorInv, ArbTypeOK, NoRequestIsForgotten, arbVars
  <2> QED BY <2>2, <2>3, <2>4 DEF MotorInv
<1>3. CASE positionRequest' # positionRequest
  <2>1. /\ positionRequest.stepsToMove = 0
        /\ positionRequest'.stepsToMove > 0
    BY <1>1, <1>3
  <2>2. ~controlRequest[Damper]
    BY <2>1 DEF MotorInv, EnabledDamperIsMoving
  <2>3. ~driveEnable[Damper]
    BY <2>2, EnableFacts
  <2>4. ~ticking /\ readyQueued = 0 /\ listening = TRUE
    BY <2>3, RestingFacts
  <2>5. /\ RequestMotor(Damper)
        /\ RequestWritten(positionRequest', driveEnable'[Damper])
    BY <1>3, <2>1, <2>2, <2>4 DEF DamperEvent, OnStepChangeRequest
  <2>6. /\ ArbTypeOK' /\ controlRequest'[Damper]
        /\ controlRequest'[IceMaker] = controlRequest[IceMaker]
        /\ driveEnable'[Damper] <=> ~driveEnable[IceMaker]
        /\ driveEnable'[IceMaker] = driveEnable[IceMaker]
    BY <2>3, <2>5, RequestMotorFacts, TwoMotors DEF MotorInv
  <2>7. CASE driveEnable'[Damper]
    <3>1. StartMove(positionRequest') /\ readyQueued' = 0
      BY <2>1, <2>4, <2>5, <2>7 DEF RequestWritten
    <3> QED BY <1>1, <2>1, <2>4, <2>6, <2>7, <3>1, MoveStarts DEF MotorInv
  <2>8. CASE ~driveEnable'[Damper]
    <3>1. UNCHANGED driverVars
      BY <2>5, <2>8 DEF RequestWritten
    <3>2. driveEnable'[IceMaker] <=> controlRequest'[IceMaker]
      BY <2>3, <2>6, EnableFacts
    <3>3. driveEnable'[IceMaker]
      BY <2>6, <2>8
    <3> QED BY <1>1, <2>1, <2>4, <2>6, <2>8, <3>1, <3>2, <3>3, DriverRests
            DEF MotorInv, driverVars
  <2> QED BY <2>7, <2>8
<1> QED BY <1>2, <1>3

\* The end of a move hands the motor over and takes it back if it can.
LEMMA DamperMoveEndsKeepsMotorInv ==
    ASSUME ManagerTypeOK, BusyIffMoveOutstanding, MotorInv, DamperMoveEnds
    PROVE  MotorInv'
<1>1. positionRequest' \in PositionRequests /\ positionRequest'.stepsToMove \in Nat
  BY CompletionKeepsManager DEF DamperMoveEnds, ManagerTypeOK, PositionRequests
<1>2. /\ readyQueued = 1 /\ readyQueued' = 0
      /\ ~ticking /\ driveEnable[Damper]
  BY DEF DamperMoveEnds, ReadyForNextRequest, MotorInv, DriverTypeOK, OneOwner,
     Coupling
<1>3. controlRequest[Damper] /\ ~driveEnable[IceMaker] /\ NeverBothEnabled
  BY <1>2, EnableFacts DEF MotorInv, LoadsNeverRunTogether
<1>4. CASE positionRequest'.stepsToMove > 0
  <2>1. /\ ArbTypeOK' /\ controlRequest' = controlRequest
        /\ driveEnable'[Damper] <=> ~controlRequest[IceMaker]
        /\ driveEnable'[IceMaker] <=> controlRequest[IceMaker]
    BY <1>2, <1>3, <1>4, ReleaseAndRequestMotorFacts, TwoMotors
       DEF DamperMoveEnds, MotorInv
  <2>2. CASE driveEnable'[Damper]
    <3>1. StartMove(positionRequest')
      BY <1>4, <2>2 DEF DamperMoveEnds, ReadyForNextRequest
    <3> QED BY <1>1, <1>2, <1>3, <1>4, <2>1, <2>2, <3>1, MoveStarts DEF MotorInv
  <2>3. CASE ~driveEnable'[Damper]
    <3>1. /\ listening' = TRUE
          /\ UNCHANGED <<ticking, directionToTurn, subStepResetRequested,
                         delayVars, coilVars>>
      BY <2>3 DEF DamperMoveEnds, ReadyForNextRequest
    <3> QED BY <1>1, <1>2, <1>3, <1>4, <2>1, <2>3, <3>1, DriverRests DEF MotorInv
  <2> QED BY <2>2, <2>3
<1>5. CASE ~(positionRequest'.stepsToMove > 0)
  <2>1. /\ ArbTypeOK' /\ ~controlRequest'[Damper] /\ ~driveEnable'[Damper]
        /\ controlRequest'[IceMaker] = controlRequest[IceMaker]
        /\ driveEnable'[IceMaker] <=> controlRequest[IceMaker]
    BY <1>3, <1>5, ReleaseMotorFacts, TwoMotors DEF DamperMoveEnds, MotorInv
  <2>2. /\ listening' = TRUE
        /\ UNCHANGED <<ticking, directionToTurn, subStepResetRequested,
                       delayVars, coilVars>>
    BY <1>5 DEF DamperMoveEnds, ReadyForNextRequest
  <2> QED BY <1>1, <1>2, <1>5, <2>1, <2>2, DriverRests DEF MotorInv
<1> QED BY <1>4, <1>5

-----------------------------------------------------------------------------
\* SystemInv is MotorInv and the manager's part.
LEMMA InvParts ==
    SystemInv <=> ManagerTypeOK /\ BusyIffMoveOutstanding /\ MotorInv
BY DEF SystemInv, SystemTypeOK, MotorInv

\* The same after a step.
LEMMA InvPartsPrime ==
    SystemInv' <=> ManagerTypeOK' /\ BusyIffMoveOutstanding' /\ MotorInv'
BY DEF SystemInv, SystemTypeOK, MotorInv

\* The power-up state of the motor chain satisfies SystemInv.
LEMMA InitImpliesInv ==
    ASSUME SystemInit
    PROVE  SystemInv
<1> USE DEF SystemInit
<1>1. positionRequest \in PositionRequests /\ positionRequest.stepsToMove = 0
  <2>1. "CounterClockwise" \in Directions /\ 0 \in Nat /\ FALSE \in BOOLEAN
    BY DEF Directions
  <2> QED BY <2>1, RequestFacts DEF ManagerInit, NoRequest
<1>2. ManagerTypeOK /\ BusyIffMoveOutstanding
  <2>1. ManagerTypeOK
    BY <1>1, Zenon DEF ManagerInit, ManagerTypeOK, States
  <2>2. BusyIffMoveOutstanding
    BY <1>1 DEF ManagerInit, BusyIffMoveOutstanding
  <2> QED BY <2>1, <2>2
<1>3. ArbTypeOK /\ ~controlRequest[0] /\ ~controlRequest[1]
                /\ ~driveEnable[0] /\ ~driveEnable[1]
  BY DEF ArbInit, ArbTypeOK, Motors
<1>4. DriverTypeOK
  <2>1. /\ 0 \in Nat
        /\ 0 \in 0 .. SubSteps - 1
        /\ 0 \in 0 .. EventsBetweenSteps
        /\ 0 \in 0 .. ExcitationEvents
    BY DriverConstants
  <2> QED BY <1>1, <2>1, Zenon DEF DriverInit, DriverTypeOK
<1>5. OneOwner /\ StepsAreExact /\ IdleDriverIsClean
  BY DEF DriverInit, OneOwner, StepsAreExact, IdleDriverIsClean
<1>6. NoRequestIsForgotten /\ LoadsNeverRunTogether
  BY <1>3 DEF DriverInit, NoRequestIsForgotten, LoadsNeverRunTogether,
     NeverBothEnabled, Motors
<1>7. EnabledDamperIsMoving /\ Coupling
  BY <1>1, <1>3 DEF DriverInit, EnabledDamperIsMoving, Coupling, Damper
<1> QED BY <1>2, <1>3, <1>4, <1>5, <1>6, <1>7 DEF SystemInv, SystemTypeOK

\* Each step of the motor chain keeps SystemInv.
LEMMA InvIsInductive ==
    ASSUME SystemInv, [SystemNext]_systemVars
    PROVE  SystemInv'
<1> USE InvParts, InvPartsPrime
<1>1. CASE DamperEvent
  BY <1>1, EventWritesFromRest, DamperEventKeepsMotorInv DEF DamperEvent
<1>2. CASE DamperMoveEnds
  BY <1>2, CompletionKeepsManager, DamperMoveEndsKeepsMotorInv
     DEF DamperMoveEnds
<1>3. ASSUME UNCHANGED managerVars
      PROVE  ManagerTypeOK' /\ BusyIffMoveOutstanding'
  BY <1>3 DEF ManagerTypeOK, BusyIffMoveOutstanding, managerVars, fsmVars,
     flagVars, erdVars, compartmentVars
<1>4. CASE StepTick
  BY <1>3, <1>4, TickKeepsMotorInv DEF StepTick
<1>5. CASE IceMakerRequests
  BY <1>3, <1>5, IceMakerRequestKeepsMotorInv DEF IceMakerRequests
<1>6. CASE IceMakerReleases
  BY <1>3, <1>6, IceMakerReleaseKeepsMotorInv DEF IceMakerReleases
<1>7. CASE UNCHANGED systemVars
  <2>1. UNCHANGED managerVars /\ UNCHANGED driverVars /\ UNCHANGED arbVars
        /\ positionRequest' = positionRequest
    BY <1>7 DEF systemVars, managerVars, fsmVars
  <2>2. DriverTypeOK' /\ OneOwner' /\ StepsAreExact' /\ IdleDriverIsClean'
    BY <2>1 DEF MotorInv, DriverTypeOK, OneOwner, StepsAreExact,
       IdleDriverIsClean, driverVars, delayVars, coilVars
  <2>3. Coupling' /\ EnabledDamperIsMoving' /\ LoadsNeverRunTogether'
    BY <2>1 DEF MotorInv, Coupling, EnabledDamperIsMoving,
       LoadsNeverRunTogether, NeverBothEnabled, driverVars, delayVars,
       coilVars, arbVars
  <2>4. ArbTypeOK' /\ NoRequestIsForgotten'
    BY <2>1 DEF MotorInv, ArbTypeOK, NoRequestIsForgotten, arbVars
  <2> QED BY <1>3, <2>1, <2>2, <2>3, <2>4 DEF MotorInv
<1> QED BY <1>1, <1>2, <1>4, <1>5, <1>6, <1>7 DEF SystemNext

\* SystemInv holds of the damper's motor chain for every step table, every
\* delay and every set of votes: the type of the state, the driver's single
\* owner, the exact step count, the clean coils and the arbitration.
THEOREM SystemInvariant == SystemSpec => []SystemInv
<1>1. SystemInit => SystemInv
  BY InitImpliesInv
<1>2. SystemInv /\ [SystemNext]_systemVars => SystemInv'
  BY InvIsInductive
<1> QED BY <1>1, <1>2, PTL DEF SystemSpec

\* The coils of the damper are never energised while the ice maker's motor is
\* enabled, nor both motors enabled at once (MotorDriverArbitrator.c).
THEOREM LoadsAreExclusive == SystemSpec => []LoadsNeverRunTogether
<1>1. SystemInv => LoadsNeverRunTogether
  BY DEF SystemInv
<1> QED BY <1>1, SystemInvariant, PTL

\* Each move of the damper makes exactly the steps that were asked for
\* (StepperMotorDriver.c), whatever its delays and its step counts.
THEOREM MovesAreExact == SystemSpec => []StepsAreExact
<1>1. SystemInv => StepsAreExact
  BY DEF SystemInv
<1> QED BY <1>1, SystemInvariant, PTL

-----------------------------------------------------------------------------
(* Where the damper rests.                                                 *)

(***************************************************************************)
(* What the parametric data and the grid give a damper with one step       *)
(* table: the steps to home reach the closed stop from anywhere, the open  *)
(* position is one the flap can reach, the steps to close lead back from   *)
(* it, and a vote that changes changes its position.                       *)
(***************************************************************************)
StepsSuitFlap ==
    /\ DamperId = "Normal"
    /\ StepsToHome >= FlapTravel
    /\ \A c \in CompartmentStates : /\ StepsToOpen[c] <= FlapTravel
                                    /\ StepsToOpen[c] <= StepsToClose[c]
    /\ \A v, w \in Votes : v.position = w.position => v = w

FlapIsAtPosition ==
    flap = IF currentPosition = "Open" THEN StepsToOpen[stepData] ELSE 0

\* The move that changes the current position.
MoveFromPosition ==
    IF currentPosition = "Open"
    THEN PositionRequest("Clockwise", StepsToClose[stepData], FALSE)
    ELSE PositionRequest("CounterClockwise", StepsToOpen[stepData], FALSE)

\* A move begins where the position says and is in the direction away from
\* it; what is asked for meanwhile is remembered.  A homing takes the flap to
\* its stop, and clears what it fulfils.
RestInv ==
    /\ ManagerTypeOK /\ BusyIffMoveOutstanding
    /\ state = "Uninitialized" =>
          /\ ~homingRequired /\ ~fullCycleRequired
          /\ ~homingRequest /\ ~fullCycleRequest
    /\ state = "Homing" => positionRequest = PositionRequest("Clockwise", StepsToHome, TRUE)
    /\ state = "Moving" =>
          /\ FlapIsAtPosition
          /\ positionRequest = MoveFromPosition
          /\ homingRequest => homingRequired
          /\ fullCycleRequest => fullCycleRequired
    /\ RestIsSettled

\* What RestInv says of the state that is entered.
Settles ==
    /\ state' = "Homing" =>
          positionRequest' = PositionRequest("Clockwise", StepsToHome, TRUE)
    /\ state' = "Moving" =>
          /\ FlapIsAtPosition'
          /\ positionRequest' = MoveFromPosition'
          /\ homingRequest' => homingRequired'
          /\ fullCycleRequest' => fullCycleRequired'
    /\ state' = "Idle" =>
          /\ FlapIsAtPosition'
          /\ currentPosition' = vote'.position
          /\ ~homingRequired' /\ ~fullCycleRequired'
          /\ ~homingRequest' /\ ~fullCycleRequest'

\* The entries of the states, where the flap is at its position and what is
\* asked for is remembered.
LEMMA EntriesSettle ==
    ASSUME FlapIsAtPosition', currentPosition' \in Positions, vote'.position \in Positions,
           homingRequest' => homingRequired', fullCycleRequest' => fullCycleRequired'
    PROVE  /\ EnterHoming => Settles
           /\ EnterFullCycle => Settles
           /\ EnterMoving /\ currentPosition' # vote'.position => Settles
           /\ EnterIdle => Settles
<1>1. EnterHoming => Settles
  BY DEF EnterHoming, CloseDamper, Settles
<1>2. EnterFullCycle => Settles
  BY DEF EnterFullCycle, Settles
<1>3. EnterMoving /\ currentPosition' # vote'.position => Settles
  BY DEF EnterMoving, CloseDamper, OpenDamper, Settles, MoveFromPosition, Positions
<1>4. EnterIdle => Settles
  <2>1. CASE fullCycleRequired'
    BY <1>2, <2>1 DEF EnterIdle
  <2>2. CASE ~fullCycleRequired' /\ homingRequired'
    BY <1>1, <2>2 DEF EnterIdle
  <2>3. CASE ~fullCycleRequired' /\ ~homingRequired' /\ currentPosition' # vote'.position
    BY <1>3, <2>3 DEF EnterIdle
  <2>4. CASE ~fullCycleRequired' /\ ~homingRequired' /\ currentPosition' = vote'.position
    BY <2>4 DEF EnterIdle, Settles
  <2> QED BY <2>1, <2>2, <2>3, <2>4
<1> QED BY <1>1, <1>2, <1>3, <1>4

\* A vote is a position.
LEMMA VotesArePositions == \A v \in Votes : v.position \in Positions
BY DamperConstants

\* A manager that has been initialised stays so, and Settles is what is left of
\* RestInv to prove.
LEMMA SettlingSuffices ==
    ASSUME ManagerTypeOK', BusyIffMoveOutstanding', state' # "Uninitialized", Settles
    PROVE  RestInv'
<1>1. state' = "Idle" => RestingFlapMatchesPosition'
  BY DEF Settles, RestingFlapMatchesPosition, FlapIsAtPosition
<1>2. RestIsSettled'
  BY <1>1 DEF Settles, RestIsSettled, RestingFlapMatchesPosition
<1> QED BY <1>2 DEF Settles, RestInv

\* An event of the manager keeps RestInv.
LEMMA EventKeepsRest ==
    ASSUME StepsSuitFlap, RestInv, ManagerEvent
    PROVE  RestInv'
<1>1. ManagerTypeOK' /\ BusyIffMoveOutstanding'
  BY EventWritesFromRest DEF RestInv
<1>2. state \in States /\ vote \in Votes /\ currentPosition \in Positions
  BY DEF RestInv, ManagerTypeOK
<1>3. CASE Initialize
  <2>1. state' = "Homing" /\ Settles
    BY <1>3 DEF Initialize, EnterHoming, CloseDamper, Settles
  <2> QED BY <1>1, <2>1, SettlingSuffices
<1>4. state = "Idle" =>
         /\ FlapIsAtPosition /\ currentPosition = vote.position
         /\ ~homingRequired /\ ~fullCycleRequired
         /\ ~homingRequest /\ ~fullCycleRequest
  BY DEF RestInv, RestIsSettled, RestingFlapMatchesPosition, FlapIsAtPosition
<1>5. /\ state = "Homing" => positionRequest = PositionRequest("Clockwise", StepsToHome, TRUE)
      /\ state = "Moving" =>
            /\ FlapIsAtPosition
            /\ positionRequest = MoveFromPosition
            /\ homingRequest => homingRequired
            /\ fullCycleRequest => fullCycleRequired
  BY DEF RestInv
<1>6. ASSUME NEW v \in Votes, PositionRequested(v)
      PROVE  state' # "Uninitialized" /\ Settles
  <2>1. /\ v # vote /\ vote' = v /\ UNCHANGED <<homingRequired, fullCycleRequired>>
        /\ UNCHANGED <<homingRequest, fullCycleRequest, stepData, currentPosition, flap>>
        /\ state # "Uninitialized"
    BY <1>6 DEF PositionRequested, flagVars, erdVars, compartmentVars
  <2>2. CASE state = "Idle"
    <3>1. EnterMoving
      BY <1>6, <2>2 DEF PositionRequested
    <3>2. currentPosition' # vote'.position
      BY <1>2, <1>4, <2>1, <2>2 DEF StepsSuitFlap
    <3>3. FlapIsAtPosition'
      BY <1>4, <2>1, <2>2 DEF FlapIsAtPosition
    <3>4. currentPosition' \in Positions /\ vote'.position \in Positions
      BY <1>2, <2>1, VotesArePositions
    <3>5. Settles
      BY <1>4, <2>1, <2>2, <3>1, <3>2, <3>3, <3>4, EntriesSettle
    <3> QED BY <3>1, <3>5 DEF EnterMoving
  <2>3. CASE state # "Idle"
    <3>1. state' = state /\ positionRequest' = positionRequest
      BY <1>6, <2>3 DEF PositionRequested, fsmVars
    <3> QED BY <1>5, <2>1, <2>3, <3>1 DEF Settles, FlapIsAtPosition, MoveFromPosition
  <2> QED BY <2>2, <2>3
<1>7. CASE HomingRequestSet
  <2>1. /\ UNCHANGED <<fullCycleRequired, fullCycleRequest, stepData, currentPosition, flap, vote>>
        /\ homingRequired' = (homingRequired \/ state = "Moving")
        /\ state # "Uninitialized"
    BY <1>7 DEF HomingRequestSet, HomeRequested, compartmentVars
  <2>2. CASE state = "Idle"
    <3>1. EnterHoming
      BY <1>7, <2>2 DEF HomingRequestSet, HomeRequested
    <3>2. state' = "Homing" /\ Settles
      BY <3>1 DEF EnterHoming, CloseDamper, Settles
    <3> QED BY <1>1, <3>2, SettlingSuffices
  <2>3. CASE state # "Idle"
    <3>1. state' = state /\ positionRequest' = positionRequest
      BY <1>7, <2>3 DEF HomingRequestSet, HomeRequested, fsmVars
    <3>2. Settles
      BY <1>5, <2>1, <2>3, <3>1 DEF Settles, FlapIsAtPosition, MoveFromPosition
    <3> QED BY <1>1, <2>1, <3>1, <3>2, SettlingSuffices
  <2> QED BY <2>2, <2>3
<1>8. CASE FullCycleRequestSet
  <2>1. /\ UNCHANGED <<homingRequired, homingRequest, stepData, currentPosition, flap, vote>>
        /\ fullCycleRequired' = (fullCycleRequired \/ state \in {"Homing", "Moving"})
        /\ state # "Uninitialized"
    BY <1>8 DEF FullCycleRequestSet, compartmentVars
  <2>2. CASE state = "Idle"
    <3>1. EnterFullCycle
      BY <1>8, <2>2 DEF FullCycleRequestSet
    <3>2. state' = "FullCycle" /\ Settles
      BY <3>1 DEF EnterFullCycle, Settles
    <3> QED BY <1>1, <3>2, SettlingSuffices
  <2>3. CASE state # "Idle"
    <3>1. state' = state /\ positionRequest' = positionRequest
      BY <1>8, <2>3 DEF FullCycleRequestSet, fsmVars
    <3>2. Settles
      BY <1>5, <2>1, <2>3, <3>1 DEF Settles, FlapIsAtPosition, MoveFromPosition
    <3> QED BY <1>1, <2>1, <3>1, <3>2, SettlingSuffices
  <2> QED BY <2>2, <2>3
<1>9. ASSUME NEW c \in CompartmentStates, ConvertibleCompartmentStateChanged(c)
      PROVE  state' # "Uninitialized" /\ Settles
  <2>1. /\ UNCHANGED <<fullCycleRequired, fullCycleRequest, homingRequest, homingRequired,
                       stepData, currentPosition, flap, vote, state, positionRequest>>
        /\ state # "Uninitialized"
    BY <1>9 DEF ConvertibleCompartmentStateChanged, erdVars, fsmVars, StepsSuitFlap
  <2> QED BY <1>4, <1>5, <2>1 DEF Settles, FlapIsAtPosition, MoveFromPosition
<1> QED BY <1>1, <1>3, <1>6, <1>7, <1>8, <1>9, SettlingSuffices DEF ManagerEvent

\* The end of a move keeps RestInv: the flap has come to the position that the
\* program then believes in.
LEMMA CompletionKeepsRest ==
    ASSUME StepsSuitFlap, RestInv, StepRequestCompleted
    PROVE  RestInv'
<1>1. ManagerTypeOK' /\ BusyIffMoveOutstanding'
  BY CompletionKeepsManager DEF RestInv
<1>2. /\ vote' = vote /\ stepData' = stepData
      /\ vote.position \in Positions /\ currentPosition \in Positions
      /\ stepData \in CompartmentStates /\ flap \in Nat /\ flap <= FlapTravel
      /\ homingRequired \in BOOLEAN /\ fullCycleRequired \in BOOLEAN
      /\ homingRequest \in BOOLEAN /\ fullCycleRequest \in BOOLEAN
  BY VotesArePositions, DamperConstants DEF RestInv, ManagerTypeOK, StepRequestCompleted, compartmentVars
<1>3. currentPosition' \in Positions
  BY <1>1 DEF ManagerTypeOK
<1> DEFINE opens == StepsToOpen[stepData]
           closes == StepsToClose[stepData]
<1>4. /\ opens \in Nat /\ closes \in Nat /\ opens <= FlapTravel /\ opens <= closes
      /\ StepsToHome \in Nat /\ FlapTravel \in Nat /\ StepsToHome >= FlapTravel
  BY <1>2, DamperConstants DEF StepsSuitFlap
<1>5. CASE HomingCompleted
  <2>1. positionRequest = PositionRequest("Clockwise", StepsToHome, TRUE)
    BY <1>5 DEF HomingCompleted, RestInv
  <2>2. flap' = 0
    BY <1>2, <1>4, <2>1 DEF StepRequestCompleted, FlapMoves, PositionRequest
  <2>3. /\ currentPosition' = "Closed" /\ EnterIdle
        /\ ~homingRequest' /\ ~fullCycleRequest'
    BY <1>5 DEF HomingCompleted, ExitHoming
  <2>4. FlapIsAtPosition'
    BY <2>2, <2>3 DEF FlapIsAtPosition
  <2>5. Settles
    BY <1>2, <1>3, <2>3, <2>4, EntriesSettle
  <2>6. state' # "Uninitialized"
    BY <2>3 DEF EnterIdle, EnterFullCycle, EnterHoming, EnterMoving
  <2> QED BY <1>1, <2>5, <2>6, SettlingSuffices
<1>6. CASE MovingCompleted
  <2>1. /\ FlapIsAtPosition /\ positionRequest = MoveFromPosition
        /\ homingRequest => homingRequired
        /\ fullCycleRequest => fullCycleRequired
    BY <1>6 DEF MovingCompleted, RestInv
  <2>2. /\ EnterIdle
        /\ currentPosition' = IF currentPosition = "Open" THEN "Closed" ELSE "Open"
        /\ UNCHANGED <<homingRequired, fullCycleRequired, homingRequest, fullCycleRequest>>
    BY <1>6 DEF MovingCompleted, flagVars, erdVars
  <2>3. FlapIsAtPosition'
    <3>1. CASE currentPosition = "Open"
      <4>1. flap = opens /\ positionRequest = PositionRequest("Clockwise", closes, FALSE)
        BY <2>1, <3>1 DEF FlapIsAtPosition, MoveFromPosition
      <4> HIDE DEF opens, closes
      <4>2. flap' = 0
        BY <1>4, <4>1 DEF StepRequestCompleted, FlapMoves, PositionRequest
      <4> QED BY <2>2, <3>1, <4>2 DEF FlapIsAtPosition
    <3>2. CASE currentPosition # "Open"
      <4>1. flap = 0 /\ positionRequest = PositionRequest("CounterClockwise", opens, FALSE)
        BY <2>1, <3>2 DEF FlapIsAtPosition, MoveFromPosition
      <4> HIDE DEF opens, closes
      <4>2. flap' = opens
        BY <1>4, <4>1 DEF StepRequestCompleted, FlapMoves, PositionRequest
      <4> QED BY <1>2, <2>2, <3>2, <4>2 DEF FlapIsAtPosition, opens
    <3> QED BY <3>1, <3>2
  <2>4. Settles
    BY <1>2, <1>3, <2>1, <2>2, <2>3, EntriesSettle
  <2>5. state' # "Uninitialized"
    BY <2>2 DEF EnterIdle, EnterFullCycle, EnterHoming, EnterMoving
  <2> QED BY <1>1, <2>4, <2>5, SettlingSuffices
<1>7. CASE FullCycleCompleted
  <2>1. state' \in {"FullCycle", "Homing"} /\ Settles
    BY <1>7 DEF FullCycleCompleted, EnterHoming, CloseDamper, Settles
  <2> QED BY <1>1, <2>1, SettlingSuffices
<1> QED BY <1>5, <1>6, <1>7 DEF StepRequestCompleted

\* Each step of the motor chain is one of the manager, or leaves it alone.
LEMMA SystemStepsAreManagerSteps ==
    [SystemNext]_systemVars => [ManagerNext]_managerVars
BY DEF SystemNext, systemVars, ManagerNext, DamperEvent, DamperMoveEnds, StepTick,
       IceMakerRequests, IceMakerReleases

\* DamperMotorSystem refines the manager over an abstract motor: the manager
\* hears of the end of a move only when it has asked for one, and nothing else
\* writes its state (the safety of ManagerSpec).
THEOREM ChainImplementsManager ==
    SystemSpec => ManagerInit /\ [][ManagerNext]_managerVars
<1>1. SystemInit => ManagerInit
  BY DEF SystemInit
<1> QED BY <1>1, SystemStepsAreManagerSteps, PTL DEF SystemSpec

\* DamperRequestManager.c: wherever the flap was when the power came, and
\* whatever votes, homings and full cycles overlap, a damper at rest is where
\* the current position says and the vote wants it, with nothing pending.
THEOREM RestingDamperIsSettled ==
    ASSUME StepsSuitFlap
    PROVE  SystemSpec => []RestIsSettled
<1>1. SystemInit => RestInv
  <2> SUFFICES ASSUME SystemInit PROVE RestInv
    OBVIOUS
  <2>1. ManagerTypeOK /\ BusyIffMoveOutstanding
    BY InitImpliesInv DEF SystemInv, SystemTypeOK
  <2> QED BY <2>1 DEF SystemInit, ManagerInit, RestInv, RestIsSettled, RestingFlapMatchesPosition
<1>2. RestInv /\ [ManagerNext]_managerVars => RestInv'
  <2> SUFFICES ASSUME RestInv, [ManagerNext]_managerVars PROVE RestInv'
    OBVIOUS
  <2>1. CASE UNCHANGED managerVars
    BY <2>1 DEF RestInv, ManagerTypeOK, BusyIffMoveOutstanding, RestIsSettled,
       RestingFlapMatchesPosition, FlapIsAtPosition, MoveFromPosition, managerVars,
       fsmVars, flagVars, erdVars, compartmentVars
  <2> QED BY <2>1, EventKeepsRest, CompletionKeepsRest DEF ManagerNext
<1>3. RestInv => RestIsSettled
  BY DEF RestInv
<1> QED BY <1>1, <1>2, <1>3, SystemStepsAreManagerSteps, PTL DEF SystemSpec
=============================================================================
