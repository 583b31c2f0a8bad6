-------------------------- MODULE DamperMotorSystem --------------------------
(***************************************************************************)
(* The damper from its votes to its coils: the request manager, its        *)
(* stepper motor driver and the arbitrator that shares the motor supply    *)
(* with the twist tray ice maker (the plugins DamperMotorPlugin.c and      *)
(* ParallelMotorControlPlugin.c wire the three together through ERDs).     *)
(*                                                                         *)
(* An ERD write runs its subscribers before it returns, so one main-loop   *)
(* event takes a step of all three components at once; only the time       *)
(* source interrupt and the event queue separate steps.                    *)
(***************************************************************************)
EXTENDS DamperRequestManager, StepperMotorDriver, MotorDriverArbitrator

Damper == 0
IceMaker == 1

systemVars == <<managerVars, driverVars, arbVars>>

(***************************************************************************)
(* The ERD write of the position request as the driver hears it: it sets   *)
(* its control request, the arbitrator answers, and a motor that is        *)
(* enabled by the answer starts.                                           *)
(***************************************************************************)
OnStepChangeRequest(r) ==
    IF listening /\ r.stepsToMove > 0 /\ ~controlRequest[Damper]
    THEN /\ RequestMotor(Damper)
         /\ RequestWritten(r, driveEnable'[Damper])
    ELSE UNCHANGED <<arbVars, driverVars>>

DamperEvent ==
    /\ ManagerEvent
    /\ IF positionRequest' = positionRequest
       THEN UNCHANGED <<arbVars, driverVars>>
       ELSE OnStepChangeRequest(positionRequest')

(***************************************************************************)
(* ReadyForNextRequest: the control request is cleared, the steps are      *)
(* cleared, the manager answers with its next move or comes to rest.       *)
(***************************************************************************)
DamperMoveEnds ==
    /\ StepRequestCompleted
    /\ IF positionRequest'.stepsToMove > 0
       THEN ReleaseAndRequestMotor(Damper)
       ELSE ReleaseMotor(Damper)
    /\ ReadyForNextRequest(positionRequest', driveEnable'[Damper])

StepTick == StepTimeChange /\ UNCHANGED <<managerVars, arbVars>>

\* The ice maker asks for its motor; it may get it at once.
IceMakerRequests ==
    /\ RequestMotor(IceMaker)
    /\ UNCHANGED <<managerVars, driverVars>>

\* The ice maker is done with its motor; a waiting damper starts at once.
IceMakerReleases ==
    /\ driveEnable[IceMaker]
    /\ ReleaseMotor(IceMaker)
    /\ IF driveEnable'[Damper]
       THEN MotorControlEnableUpdated
       ELSE UNCHANGED driverVars
    /\ UNCHANGED managerVars

SystemInit == ManagerInit /\ DriverInit /\ ArbInit

SystemNext ==
    \/ DamperEvent
    \/ DamperMoveEnds
    \/ StepTick
    \/ IceMakerRequests
    \/ IceMakerReleases

(***************************************************************************)
(* The interrupt keeps coming, the main loop keeps emptying its queue, and *)
(* an ice maker motor that is enabled finishes (its controller has an      *)
(* error timeout in every moving state).                                   *)
(***************************************************************************)
SystemSpec ==
    /\ SystemInit
    /\ [][SystemNext]_systemVars
    /\ WF_systemVars(StepTick)
    /\ WF_systemVars(DamperMoveEnds)
    /\ WF_systemVars(IceMakerReleases)

-----------------------------------------------------------------------------
SystemTypeOK == ManagerTypeOK /\ DriverTypeOK /\ ArbTypeOK

\* "block the concurrent run of two loads" (MotorDriverArbitrator.h): no coil of
\* the damper is energised while the ice maker's motor may run.
LoadsNeverRunTogether ==
    /\ NeverBothEnabled
    /\ energised => driveEnable[Damper] /\ ~driveEnable[IceMaker]

\* The damper holds the arbitrator only while it has a move in progress, so the
\* ice maker never waits for a damper that will not move.
EnabledDamperIsMoving ==
    /\ driveEnable[Damper] => ticking \/ readyQueued > 0
    /\ controlRequest[Damper] <=> positionRequest.stepsToMove > 0

(***************************************************************************)
(* What makes the properties above inductive: which component is busy      *)
(* follows from the position request alone, and the delay counters are at  *)
(* zero wherever a move can start or end.                                  *)
(***************************************************************************)
Coupling ==
    /\ driveEnable[Damper] <=> ticking \/ readyQueued > 0
    /\ energised <=> ticking
    /\ excitationDelayActive \/ stepsToRun = 0 => countBetweenSteps = 0
    /\ ~excitationDelayActive => excitationDelayStepCount = 0

SystemInv ==
    /\ SystemTypeOK
    /\ BusyIffMoveOutstanding
    /\ OneOwner
    /\ StepsAreExact
    /\ IdleDriverIsClean
    /\ NoRequestIsForgotten
    /\ LoadsNeverRunTogether
    /\ EnabledDamperIsMoving
    /\ Coupling

\* Both loads are served: whoever asks for the motor gets it.
EveryLoadIsServed ==
    \A m \in Motors : controlRequest[m] ~> driveEnable[m]

\* Whoever asks for the motor gets it, and a homing or a full cycle takes the
\* flap to its stop.
EveryRequestIsServed == RequestsReachTheirStops /\ EveryLoadIsServed
=============================================================================
