--------------------------- MODULE RakeController ---------------------------
(***************************************************************************)
(* The rake of an aluminum mold ice maker and the feeler arm it lifts      *)
(* (src/src/Application/IceMaker/AluminumMoldIceMaker/RakeController.c and *)
(* FeelerArmMonitor.c): a revolution counts when the rake has been away    *)
(* from home, and the arm up, each for its test time, and the rake is home *)
(* again.                                                                  *)
(*                                                                         *)
(* Controller and monitor are records; home and full are the two position  *)
(* ERDs.  While request is set the controller listens to both positions    *)
(* until it has seen what it wants of them (hearsRake, hearsArm).          *)
(***************************************************************************)
EXTENDS Integers

Rake == [request : BOOLEAN, run : BOOLEAN, hearsRake : BOOLEAN,
         hearsArm : BOOLEAN, notHomeTimer : BOOLEAN, fullTimer : BOOLEAN,
         hasNotBeenHome : BOOLEAN, hasBeenFull : BOOLEAN,
         completedRevolution : BOOLEAN]

InitialRake ==
    [request |-> FALSE, run |-> FALSE, hearsRake |-> FALSE, hearsArm |-> FALSE,
     notHomeTimer |-> FALSE, fullTimer |-> FALSE, hasNotBeenHome |-> FALSE,
     hasBeenFull |-> FALSE, completedRevolution |-> FALSE]

RakeRevolutionHasCompleted(r, home) == r.hasNotBeenHome /\ r.hasBeenFull /\ home

StopRakeControlWhenRakeRevolutionHasCompleted(r, home) ==
    IF RakeRevolutionHasCompleted(r, home)
    THEN [r EXCEPT !.run = FALSE, !.hearsRake = FALSE, !.completedRevolution = TRUE]
    ELSE r

\* Mutant: a cleared request leaves the motor to the revolution it began.
ClearedRakeRunsOn(r) == [InitialRake EXCEPT !.run = r.run]

ClearedRake(r) == InitialRake

\* RakeControlRequestUpdated, published only when the request changes.
RequestRake(r, request, home, full) ==
    CASE request = r.request -> r
      [] request /\ ~r.request ->
            [r EXCEPT !.request = TRUE, !.run = TRUE,
                      !.hearsRake = TRUE, !.hearsArm = TRUE,
                      !.notHomeTimer = @ \/ ~home, !.fullTimer = @ \/ full]
      [] ~request /\ r.request -> ClearedRake(r)

RakeNotHomeTestTimerExpired(r) ==
    [r EXCEPT !.notHomeTimer = FALSE, !.hasNotBeenHome = TRUE]

FeelerArmBucketFullTestTimerExpired(r, home) ==
    StopRakeControlWhenRakeRevolutionHasCompleted(
        [r EXCEPT !.fullTimer = FALSE, !.hasBeenFull = TRUE, !.hearsArm = FALSE],
        home)

RakePositionUpdated(r, home) ==
    CASE ~r.hearsRake -> r
      [] r.hearsRake /\ ~home -> [r EXCEPT !.notHomeTimer = TRUE]
      [] r.hearsRake /\ home ->
            StopRakeControlWhenRakeRevolutionHasCompleted(
                [r EXCEPT !.notHomeTimer = FALSE], home)

FeelerArmPositionUpdated(r, full) ==
    IF r.hearsArm THEN [r EXCEPT !.fullTimer = full] ELSE r

-----------------------------------------------------------------------------
(***************************************************************************)
(* FeelerArmMonitor.c: the arm has been down long enough.                  *)
(***************************************************************************)
FeelerArm == [request : BOOLEAN, delayTimer : BOOLEAN, ready : BOOLEAN]

InitialFeelerArm == [request |-> FALSE, delayTimer |-> FALSE, ready |-> FALSE]

\* FeelerArmMonitoringRequestOrFeelerArmPositionUpdated.
UpdateFeelerArm(a, full) ==
    [a EXCEPT !.delayTimer = a.request /\ ~full,
              !.ready = @ /\ a.request /\ ~full]

RequestFeelerArmMonitoring(a, request, full) ==
    IF request = a.request THEN a
    ELSE UpdateFeelerArm([a EXCEPT !.request = request], full)

FeelerArmDelayTimerExpired(a) == [a EXCEPT !.delayTimer = FALSE, !.ready = TRUE]
=============================================================================
