------------------------ MODULE MotorDriverArbitrator ------------------------
(***************************************************************************)
(* The arbitrator of the two loads that share one motor supply             *)
(* (src/src/Application/Motor/MotorDriverArbitrator.c): motor 0 is the     *)
(* damper's stepper, motor 1 the twist tray ice maker's motor.  A load     *)
(* sets its control request ERD when it wants to move and clears it when   *)
(* it is done; the arbitrator answers with the drive enable ERDs.          *)
(*                                                                         *)
(* A write of an ERD that does not change it publishes nothing, so a       *)
(* handler runs only when its request really changes.                      *)
(***************************************************************************)
EXTENDS Integers

VARIABLES
    controlRequest,   \* [Motors -> BOOLEAN] motor*ControlRequestErd
    driveEnable       \* [Motors -> BOOLEAN] motor*DriveEnableErd

arbVars == <<controlRequest, driveEnable>>

Motors == {0, 1}

Other(m) == 1 - m

ArbTypeOK ==
    /\ controlRequest \in [Motors -> BOOLEAN]
    /\ driveEnable \in [Motors -> BOOLEAN]

ArbInit ==
    /\ controlRequest = [m \in Motors |-> FALSE]
    /\ driveEnable = [m \in Motors |-> FALSE]

(***************************************************************************)
(* What the two branches of OnMotor*ControlRequestChange write.            *)
(***************************************************************************)
\* Mutant: the other motor is not looked at.
EnableAfterSetUnchecked(enable, m) == [enable EXCEPT ![m] = TRUE]

EnableAfterSet(enable, m) ==
    IF enable[Other(m)] THEN enable ELSE [enable EXCEPT ![m] = TRUE]

\* Mutant: the motor is not handed over to the one that waits.
EnableAfterClearForgets(request, enable, m) == [enable EXCEPT ![m] = FALSE]

EnableAfterClear(request, enable, m) ==
    IF request[Other(m)]
    THEN [enable EXCEPT ![m] = FALSE, ![Other(m)] = TRUE]
    ELSE [enable EXCEPT ![m] = FALSE]

RequestMotor(m) ==
    /\ ~controlRequest[m]
    /\ controlRequest' = [controlRequest EXCEPT ![m] = TRUE]
    /\ driveEnable' = EnableAfterSet(driveEnable, m)

ReleaseMotor(m) ==
    /\ controlRequest[m]
    /\ controlRequest' = [controlRequest EXCEPT ![m] = FALSE]
    /\ driveEnable' = EnableAfterClear(controlRequest, driveEnable, m)

\* The request is cleared and set again within one main-loop event, which is
\* what a stepper driver does when its client asks for the next move from the
\* completion of the last one.
ReleaseAndRequestMotor(m) ==
    /\ controlRequest[m]
    /\ driveEnable' =
          EnableAfterSet(EnableAfterClear(controlRequest, driveEnable, m), m)
    /\ UNCHANGED controlRequest

\* A load gives its request back only once it has been allowed to move.
ArbNext ==
    \E m \in Motors :
        \/ RequestMotor(m)
        \/ driveEnable[m] /\ ReleaseMotor(m)
        \/ driveEnable[m] /\ ReleaseAndRequestMotor(m)

ArbSpec == ArbInit /\ [][ArbNext]_arbVars

\* "exists to block the concurrent run of two loads" (MotorDriverArbitrator.h).
NeverBothEnabled == ~(driveEnable[0] /\ driveEnable[1])

\* A pending request always has somebody it is waiting for: when a motor wants
\* to move, one of the two is enabled, and an enabled motor still wants to move.
NoRequestIsForgotten ==
    \A m \in Motors :
        /\ controlRequest[m] => \E n \in Motors : driveEnable[n]
        /\ driveEnable[m] => controlRequest[m]
=============================================================================
