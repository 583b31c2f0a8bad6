------------------------- MODULE StepperMotorDriver -------------------------
(***************************************************************************)
(* The stepper motor driver                                                *)
(* (src/src/Application/StepperMotor/StepperMotorDriver.c).  A client      *)
(* writes the position request ERD; once the motor is enabled, the driver  *)
(* energises one sub step after the other from the time source interrupt   *)
(* and, when the last one has been held, hands the end of the move to the  *)
(* main loop through the interrupt-safe event queue.                       *)
(*                                                                         *)
(* Handlers of the main loop are atomic.  StepTimeChange interrupts them   *)
(* at any point, but is subscribed by the last statement of                *)
(* MotorControlEnableUpdated and unsubscribes itself before it enqueues    *)
(* ReadyForNextRequest, so no main-loop handler touches the driver's       *)
(* fields while the interrupt may.                                         *)
(***************************************************************************)
EXTENDS StepperPositionRequest

CONSTANTS
    SubSteps,             \* numberOfSubSteps
    EventsBetweenSteps,   \* *numberOfEventsBetweenSteps
    ExcitationEvents      \* *numberOfEventsForExcitationDelay

ASSUME DriverConstants ==
    /\ SubSteps \in Nat \ {0}
    /\ EventsBetweenSteps \in Nat
    /\ ExcitationEvents \in Nat

VARIABLES
    listening,                 \* erdChangeSubscription is subscribed
    ticking,                   \* timeSourceEventSubscription is subscribed
    readyQueued,               \* ReadyForNextRequest events in the event queue
    stepsToRun,
    directionToTurn,
    currentSubStep,
    energised,                 \* the pins show currentSubStep; FALSE: all off
    subStepResetRequested,
    countBetweenSteps,
    excitationDelayActive,
    excitationDelayStepCount,
    pulses                     \* history: steps energised in this move

delayVars == <<countBetweenSteps, excitationDelayActive, excitationDelayStepCount>>
coilVars == <<stepsToRun, currentSubStep, energised, pulses>>
driverVars == <<listening, ticking, readyQueued, directionToTurn,
                subStepResetRequested, delayVars, coilVars>>

\* StepperMotorDriver_Init leaves subStepResetRequested as it finds it.
DriverInit ==
    /\ listening = TRUE
    /\ ticking = FALSE
    /\ readyQueued = 0
    /\ stepsToRun = 0
    /\ directionToTurn \in Directions
    /\ currentSubStep = 0
    /\ energised = FALSE
    /\ subStepResetRequested \in BOOLEAN
    /\ countBetweenSteps = 0
    /\ excitationDelayActive = FALSE
    /\ excitationDelayStepCount = 0
    /\ pulses = 0

DriverTypeOK ==
    /\ positionRequest \in PositionRequests
    /\ listening \in BOOLEAN
    /\ ticking \in BOOLEAN
    /\ readyQueued \in Nat
    /\ stepsToRun \in Nat
    /\ directionToTurn \in Directions
    /\ currentSubStep \in 0 .. SubSteps - 1
    /\ energised \in BOOLEAN
    /\ subStepResetRequested \in BOOLEAN
    /\ countBetweenSteps \in 0 .. EventsBetweenSteps
    /\ excitationDelayActive \in BOOLEAN
    /\ excitationDelayStepCount \in 0 .. ExcitationEvents
    /\ pulses \in Nat

-----------------------------------------------------------------------------
NextSubStep(subStep, direction) ==
    IF direction = "Clockwise"
    THEN IF subStep < SubSteps - 1 THEN subStep + 1 ELSE 0
    ELSE IF subStep > 0 THEN subStep - 1 ELSE SubSteps - 1

MoveToNextStep ==
    /\ currentSubStep' = NextSubStep(currentSubStep, directionToTurn)
    /\ energised' = TRUE
    /\ stepsToRun' = stepsToRun - 1
    /\ pulses' = pulses + 1

\* Mutant: the first step is not counted.
StartMoveUncounted(r) ==
    /\ listening' = FALSE
    /\ ticking' = TRUE
    /\ directionToTurn' = r.direction
    /\ currentSubStep' = IF subStepResetRequested
                         THEN 0
                         ELSE NextSubStep(currentSubStep, r.direction)
    /\ energised' = TRUE
    /\ stepsToRun' = r.stepsToMove
    /\ pulses' = 1
    /\ subStepResetRequested' = r.resetSubstep
    /\ excitationDelayActive' = TRUE
    /\ UNCHANGED <<countBetweenSteps, excitationDelayStepCount>>

(***************************************************************************)
(* MotorControlEnableUpdated with the enable set, reading request r from   *)
(* the ERD.  The reset asked for by one request takes effect on the first  *)
(* step of the next one.                                                   *)
(***************************************************************************)
StartMove(r) ==
    /\ listening' = FALSE
    /\ ticking' = TRUE
    /\ directionToTurn' = r.direction
    /\ currentSubStep' = IF subStepResetRequested
                         THEN 0
                         ELSE NextSubStep(currentSubStep, r.direction)
    /\ energised' = TRUE
    /\ stepsToRun' = r.stepsToMove - 1
    /\ pulses' = 1
    /\ subStepResetRequested' = r.resetSubstep
    /\ excitationDelayActive' = TRUE
    /\ UNCHANGED <<countBetweenSteps, excitationDelayStepCount>>

(***************************************************************************)
(* The client's write of request r, when the driver listens: the motor     *)
(* control request is set and, if that enables the motor at once, the move *)
(* starts within the same write (OnStepChangeRequest).                     *)
(***************************************************************************)
RequestWritten(r, enabled) ==
    IF r.stepsToMove > 0 /\ enabled
    THEN StartMove(r) /\ UNCHANGED readyQueued
    ELSE UNCHANGED driverVars

\* A request that had to wait is enabled by the arbitrator later.
MotorControlEnableUpdated ==
    /\ listening
    /\ positionRequest.stepsToMove > 0
    /\ StartMove(positionRequest)
    /\ UNCHANGED readyQueued

(***************************************************************************)
(* ReadyForNextRequest, run by the main loop: subscribe to the request     *)
(* again, clear the motor control request, clear the steps of the request. *)
(* The client hears of the cleared steps within that write and may answer  *)
(* with its next request r, which may be enabled at once.                  *)
(***************************************************************************)
ReadyForNextRequest(r, enabled) ==
    /\ readyQueued > 0
    /\ readyQueued' = readyQueued - 1
    /\ IF r.stepsToMove > 0 /\ enabled
       THEN StartMove(r)
       ELSE /\ listening' = TRUE
            /\ UNCHANGED <<ticking, directionToTurn, subStepResetRequested,
                           delayVars, coilVars>>

-----------------------------------------------------------------------------
(***************************************************************************)
(* StepTimeChange, in the interrupt of the time source.                    *)
(***************************************************************************)
ExcitationDelayElapses == excitationDelayStepCount + 1 >= ExcitationEvents

\* Mutant: the end of the move is not reported.
EndExcitationDelayExpiredSilent ==
    /\ ticking' = FALSE
    /\ energised' = FALSE
    /\ UNCHANGED readyQueued

EndExcitationDelayExpired ==
    /\ ticking' = FALSE
    /\ energised' = FALSE
    /\ readyQueued' = readyQueued + 1

\* Mutant: the count of the delay is not started anew.
ExcitationTickKeepsCount ==
    /\ ticking
    /\ excitationDelayActive
    /\ IF ExcitationDelayElapses
       THEN /\ excitationDelayActive' = FALSE
            /\ \/ /\ stepsToRun > 0
                  /\ MoveToNextStep
                  /\ UNCHANGED <<ticking, readyQueued>>
               \/ /\ stepsToRun = 0
                  /\ EndExcitationDelayExpired
                  /\ UNCHANGED <<stepsToRun, currentSubStep, pulses>>
            /\ UNCHANGED excitationDelayStepCount
       ELSE /\ excitationDelayStepCount' = excitationDelayStepCount + 1
            /\ UNCHANGED <<excitationDelayActive, coilVars, ticking, readyQueued>>
    /\ UNCHANGED <<countBetweenSteps, listening, directionToTurn,
                   subStepResetRequested, positionRequest>>

ExcitationTick ==
    /\ ticking
    /\ excitationDelayActive
    /\ IF ExcitationDelayElapses
       THEN /\ excitationDelayActive' = FALSE
            /\ excitationDelayStepCount' = 0
            /\ \/ /\ stepsToRun > 0
                  /\ MoveToNextStep
                  /\ UNCHANGED <<ticking, readyQueued>>
               \/ /\ stepsToRun = 0
                  /\ EndExcitationDelayExpired
                  /\ UNCHANGED <<stepsToRun, currentSubStep, pulses>>
       ELSE /\ excitationDelayStepCount' = excitationDelayStepCount + 1
            /\ UNCHANGED <<excitationDelayActive, coilVars, ticking, readyQueued>>
    /\ UNCHANGED <<countBetweenSteps, listening, directionToTurn,
                   subStepResetRequested, positionRequest>>

SteppingTick ==
    /\ ticking
    /\ ~excitationDelayActive
    /\ \/ /\ stepsToRun = 0
          /\ excitationDelayActive' = TRUE
          /\ UNCHANGED <<countBetweenSteps, coilVars>>
       \/ /\ stepsToRun > 0
          /\ countBetweenSteps < EventsBetweenSteps
          /\ countBetweenSteps' = countBetweenSteps + 1
          /\ UNCHANGED <<excitationDelayActive, coilVars>>
       \/ /\ stepsToRun > 0
          /\ countBetweenSteps >= EventsBetweenSteps
          /\ MoveToNextStep
          /\ countBetweenSteps' = 0
          /\ UNCHANGED excitationDelayActive
    /\ UNCHANGED <<excitationDelayStepCount, ticking, readyQueued, listening,
                   directionToTurn, subStepResetRequested, positionRequest>>

StepTimeChange == ExcitationTick \/ SteppingTick

-----------------------------------------------------------------------------
\* The driver is moving or about to report: exactly one of the interrupt, the
\* queued event and the request subscription owns it, so that one completion is
\* reported for each move and none while the motor still turns.
OneOwner ==
    /\ readyQueued <= 1
    /\ ticking => ~listening /\ readyQueued = 0
    /\ readyQueued = 1 => ~listening
    /\ ~ticking /\ readyQueued = 0 => listening

\* A move makes exactly the steps that were asked for: none is lost at the
\* start and end delays, and the unsigned step counter never wraps.
StepsAreExact ==
    /\ ticking => pulses + stepsToRun = positionRequest.stepsToMove
    /\ readyQueued > 0 => pulses = positionRequest.stepsToMove

\* The coils are energised only while the interrupt runs, and a move leaves no
\* count behind that would shorten the delays of the next one.
IdleDriverIsClean ==
    ~ticking => /\ ~energised
                /\ stepsToRun = 0
                /\ countBetweenSteps = 0
                /\ excitationDelayStepCount = 0
                /\ ~excitationDelayActive
=============================================================================
