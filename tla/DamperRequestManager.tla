------------------------ MODULE DamperRequestManager ------------------------
(***************************************************************************)
(* The damper request manager                                              *)
(* (src/src/Application/Damper/DamperRequestManager.c) over an abstract    *)
(* motor: it turns position votes, homing requests, full cycle requests    *)
(* and changes of the convertible compartment into one stepper move after  *)
(* the other, and keeps Erd_DamperCurrentPosition, the position the rest   *)
(* of the program believes in.  "flap" is the damper itself: how far it is *)
(* from its closed stop.                                                   *)
(***************************************************************************)
EXTENDS StepperPositionRequest

CONSTANTS
    DamperId,        \* "Normal" or "ConvertibleCompartment"
    Votes,           \* the resolved votes the voting framework can publish
    StepsToHome,
    StepsToOpen,     \* [CompartmentStates -> Nat], currentDamperStepData
    StepsToClose,    \* [CompartmentStates -> Nat]
    FlapTravel       \* steps between the flap's two mechanical stops

CompartmentStates == {"FreshFood", "Freezer"}
Positions == {"Open", "Closed"}
States == {"Uninitialized", "Idle", "Homing", "FullCycle", "Moving"}

ASSUME DamperConstants ==
    /\ DamperId \in {"Normal", "ConvertibleCompartment"}
    /\ Votes \subseteq [position : Positions, care : BOOLEAN]
    /\ StepsToHome \in Nat \ {0}
    /\ StepsToOpen \in [CompartmentStates -> Nat \ {0}]
    /\ StepsToClose \in [CompartmentStates -> Nat \ {0}]
    /\ FlapTravel \in Nat

VARIABLES
    state,               \* the FSM
    currentPosition,     \* damperCurrentPositionErd
    vote,                \* damperPositionRequestResolvedVoteErd
    homingRequired,
    fullCycleRequired,
    closeBeforeCycling,
    homingRequest,       \* damperHomingRequestErd
    fullCycleRequest,    \* damperFullCycleRequestErd
    compartment,         \* convertibleCompartmentStateErd
    stepData,            \* the state whose steps currentDamperStepData points to
    flap                 \* the flap's distance from its closed stop, in steps

flagVars == <<homingRequired, fullCycleRequired>>
erdVars == <<homingRequest, fullCycleRequest>>
compartmentVars == <<compartment, stepData>>
fsmVars == <<state, closeBeforeCycling, positionRequest>>
managerVars == <<fsmVars, flagVars, erdVars, compartmentVars,
                 currentPosition, vote, flap>>

ManagerTypeOK ==
    /\ state \in States
    /\ currentPosition \in Positions
    /\ vote \in Votes
    /\ homingRequired \in BOOLEAN
    /\ fullCycleRequired \in BOOLEAN
    /\ closeBeforeCycling \in BOOLEAN
    /\ homingRequest \in BOOLEAN
    /\ fullCycleRequest \in BOOLEAN
    /\ compartment \in CompartmentStates
    /\ stepData \in CompartmentStates
    /\ positionRequest \in PositionRequests
    /\ flap \in 0 .. FlapTravel

-----------------------------------------------------------------------------
OpenDamper(steps, reset) ==
    positionRequest' = PositionRequest("CounterClockwise", steps, reset)

CloseDamper(steps, reset) ==
    positionRequest' = PositionRequest("Clockwise", steps, reset)

(***************************************************************************)
(* The entries of the states.  They read what the same event has already   *)
(* written, hence the primes.                                              *)
(***************************************************************************)
EnterHoming ==
    /\ state' = "Homing"
    /\ CloseDamper(StepsToHome, TRUE)

EnterFullCycle ==
    /\ state' = "FullCycle"
    /\ IF currentPosition' = "Open"
       THEN /\ CloseDamper(StepsToClose[stepData'], FALSE)
            /\ closeBeforeCycling' = TRUE
       ELSE /\ OpenDamper(StepsToHome, FALSE)
            /\ UNCHANGED closeBeforeCycling

EnterMoving ==
    /\ state' = "Moving"
    /\ IF vote'.position = "Open"
       THEN OpenDamper(StepsToOpen[stepData'], FALSE)
       ELSE CloseDamper(StepsToClose[stepData'], FALSE)

EnterIdle ==
    IF fullCycleRequired'
    THEN EnterFullCycle
    ELSE /\ UNCHANGED closeBeforeCycling
         /\ IF homingRequired'
            THEN EnterHoming
            ELSE IF currentPosition' # vote'.position
                 THEN EnterMoving
                 ELSE /\ state' = "Idle"
                      /\ positionRequest' = Cleared(positionRequest)

\* Mutant: the homing request is not acknowledged.
ExitHomingKeepsRequest ==
    /\ homingRequired' = FALSE
    /\ fullCycleRequest' = FALSE
    /\ UNCHANGED homingRequest

ExitHoming ==
    /\ homingRequired' = FALSE
    /\ homingRequest' = FALSE
    /\ fullCycleRequest' = FALSE

(***************************************************************************)
(* Before DamperRequestManager_Init; the flap is wherever it was when the  *)
(* power went.                                                             *)
(***************************************************************************)
ManagerInit ==
    /\ state = "Uninitialized"
    /\ positionRequest = NoRequest
    /\ vote \in Votes
    /\ currentPosition \in Positions
    /\ compartment \in CompartmentStates
    /\ stepData = compartment
    /\ homingRequired = FALSE
    /\ fullCycleRequired = FALSE
    /\ closeBeforeCycling = FALSE
    /\ homingRequest = FALSE
    /\ fullCycleRequest = FALSE
    /\ flap \in 0 .. FlapTravel

\* DamperRequestManager_Init: Fsm_Init enters Homing, and only then is the
\* current position taken from the vote.
Initialize ==
    /\ state = "Uninitialized"
    /\ EnterHoming
    /\ currentPosition' = vote.position
    /\ UNCHANGED <<closeBeforeCycling, flagVars, erdVars, compartmentVars,
                   vote, flap>>

-----------------------------------------------------------------------------
(***************************************************************************)
(* OnDataModelChange, one action for each ERD it watches.                  *)
(***************************************************************************)
PositionRequested(v) ==
    /\ state # "Uninitialized"
    /\ v # vote
    /\ vote' = v
    /\ UNCHANGED <<flagVars, erdVars, compartmentVars, currentPosition, flap>>
    /\ IF state = "Idle"
       THEN EnterMoving /\ UNCHANGED closeBeforeCycling
       ELSE UNCHANGED fsmVars

\* Signal_HomeRequested.
HomeRequested ==
    /\ IF state = "Idle"
       THEN EnterHoming /\ UNCHANGED closeBeforeCycling
       ELSE UNCHANGED fsmVars
    /\ homingRequired' = (homingRequired \/ state = "Moving")

HomingRequestSet ==
    /\ state # "Uninitialized"
    /\ ~homingRequest
    /\ homingRequest' = TRUE
    /\ HomeRequested
    /\ UNCHANGED <<fullCycleRequired, fullCycleRequest, compartmentVars,
                   currentPosition, vote, flap>>

\* Mutant: a full cycle request that arrives while homing is not remembered.
FullCycleRequestSetForgets ==
    /\ state # "Uninitialized"
    /\ ~fullCycleRequest
    /\ fullCycleRequest' = TRUE
    /\ UNCHANGED <<homingRequired, homingRequest, compartmentVars,
                   currentPosition, vote, flap>>
    /\ IF state = "Idle"
       THEN EnterFullCycle
       ELSE UNCHANGED fsmVars
    /\ fullCycleRequired' = (fullCycleRequired \/ state = "Moving")

FullCycleRequestSet ==
    /\ state # "Uninitialized"
    /\ ~fullCycleRequest
    /\ fullCycleRequest' = TRUE
    /\ UNCHANGED <<homingRequired, homingRequest, compartmentVars,
                   currentPosition, vote, flap>>
    /\ IF state = "Idle"
       THEN EnterFullCycle
       ELSE UNCHANGED fsmVars
    /\ fullCycleRequired' = (fullCycleRequired \/ state \in {"Homing", "Moving"})

ConvertibleCompartmentStateChanged(c) ==
    /\ state # "Uninitialized"
    /\ c # compartment
    /\ compartment' = c
    /\ IF DamperId = "ConvertibleCompartment"
       THEN /\ stepData' = c
            /\ IF currentPosition = "Open"
               THEN HomeRequested
               ELSE UNCHANGED <<fsmVars, homingRequired>>
       ELSE UNCHANGED <<stepData, fsmVars, homingRequired>>
    /\ UNCHANGED <<fullCycleRequired, erdVars, currentPosition, vote, flap>>

(***************************************************************************)
(* The motor has made the requested steps: the flap has moved, to the      *)
(* mechanical stop at most, and the driver clears the request, which is    *)
(* Signal_StepRequestCompleted.                                            *)
(***************************************************************************)
FlapMoves ==
    LET steps == positionRequest.stepsToMove
        target == IF positionRequest.direction = "CounterClockwise"
                  THEN flap + steps
                  ELSE flap - steps
    IN  flap' = IF target < 0
                THEN 0
                ELSE IF target > FlapTravel THEN FlapTravel ELSE target

\* Mutant: homing does not tell the program that the damper is closed.
HomingCompletedKeepsPosition ==
    /\ state = "Homing"
    /\ ExitHoming
    /\ UNCHANGED <<fullCycleRequired, currentPosition>>
    /\ EnterIdle

HomingCompleted ==
    /\ state = "Homing"
    /\ currentPosition' = "Closed"
    /\ ExitHoming
    /\ UNCHANGED fullCycleRequired
    /\ EnterIdle

MovingCompleted ==
    /\ state = "Moving"
    /\ currentPosition' = IF currentPosition = "Open" THEN "Closed" ELSE "Open"
    /\ UNCHANGED <<flagVars, erdVars>>
    /\ EnterIdle

FullCycleCompleted ==
    /\ state = "FullCycle"
    /\ IF closeBeforeCycling
       THEN /\ closeBeforeCycling' = FALSE
            /\ currentPosition' = "Closed"
            /\ OpenDamper(StepsToHome, FALSE)
            /\ UNCHANGED <<state, fullCycleRequired>>
       ELSE /\ currentPosition' = "Open"
            /\ fullCycleRequired' = FALSE
            /\ EnterHoming
            /\ UNCHANGED closeBeforeCycling
    /\ UNCHANGED <<homingRequired, erdVars>>

StepRequestCompleted ==
    /\ positionRequest.stepsToMove > 0
    /\ FlapMoves
    /\ UNCHANGED <<vote, compartmentVars>>
    /\ HomingCompleted \/ MovingCompleted \/ FullCycleCompleted

ManagerEvent ==
    \/ Initialize
    \/ \E v \in Votes : PositionRequested(v)
    \/ HomingRequestSet
    \/ FullCycleRequestSet
    \/ \E c \in CompartmentStates : ConvertibleCompartmentStateChanged(c)

ManagerNext == ManagerEvent \/ StepRequestCompleted

ManagerSpec ==
    /\ ManagerInit
    /\ [][ManagerNext]_managerVars
    /\ WF_managerVars(StepRequestCompleted)

-----------------------------------------------------------------------------
\* The manager waits for the motor exactly when it has asked for steps: no
\* state is entered without a move to leave it by, and Idle leaves none behind.
BusyIffMoveOutstanding ==
    (state \in {"Homing", "FullCycle", "Moving"})
        <=> (positionRequest.stepsToMove > 0)

\* At rest, the flap is where Erd_DamperCurrentPosition says it is.
RestingFlapMatchesPosition ==
    state = "Idle" =>
        flap = IF currentPosition = "Open" THEN StepsToOpen[stepData] ELSE 0

\* At rest, the flap is where the position says, the damper is where the vote
\* wants it and nothing is pending.
RestIsSettled ==
    RestingFlapMatchesPosition /\
    (state = "Idle" =>
        /\ currentPosition = vote.position
        /\ ~homingRequired /\ ~fullCycleRequired
        /\ ~homingRequest /\ ~fullCycleRequest)

\* Whatever else is asked for meanwhile, a full cycle request takes the flap to
\* its open stop and a homing request takes it to its closed stop.
RequestsReachTheirStops ==
    /\ fullCycleRequest ~> flap = FlapTravel
    /\ homingRequest ~> flap = 0
=============================================================================
