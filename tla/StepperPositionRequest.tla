----------------------- MODULE StepperPositionRequest -----------------------
(***************************************************************************)
(* The request a client writes to a stepper motor driver                   *)
(* (src/src/Application/StepperMotor/StepperPositionRequest.h).            *)
(***************************************************************************)
EXTENDS Integers

VARIABLE positionRequest    \* the ERD itself, written by client and driver

Directions == {"Clockwise", "CounterClockwise"}

PositionRequest(direction, steps, reset) ==
    [direction |-> direction, stepsToMove |-> steps, resetSubstep |-> reset]

PositionRequests ==
    [direction : Directions, stepsToMove : Nat, resetSubstep : BOOLEAN]

\* A request ERD nobody has written yet.
NoRequest == PositionRequest("CounterClockwise", 0, FALSE)

\* The driver's ClearStepCountRequest.
Cleared(request) == [request EXCEPT !.stepsToMove = 0]
=============================================================================
