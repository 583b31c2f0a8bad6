------------------------ MODULE MCDamperMotorSystem ------------------------
(***************************************************************************)
(* A small damper with its motor: the order of the real step counts is     *)
(* kept (home > close > open), four sub steps as in DamperMotorPlugin.c.   *)
(***************************************************************************)
EXTENDS DamperMotorSystem

CaringVotes == [position : Positions, care : {TRUE}]
ScaledStepsToOpen == [FreshFood |-> 1, Freezer |-> 1]
ScaledStepsToClose == [FreshFood |-> 2, Freezer |-> 2]
=============================================================================
