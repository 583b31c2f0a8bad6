---------------------------- MODULE ControlUnits ----------------------------
(***************************************************************************)
(* Many components of the application meet only in ERDs that any module    *)
(* may write.  Such a component, or a group of components that do call     *)
(* each other, is a unit: a state st, the ERDs it reads included, and the  *)
(* actions of its handlers and timers.  A behaviour picks one unit and     *)
(* runs it among all values its inputs can take, so that the units of one  *)
(* instance are checked side by side and their state spaces add up.        *)
(***************************************************************************)
VARIABLES
    unit,   \* the unit that this behaviour runs
    st      \* its state: a record whose fields the unit's module names

unitVars == <<unit, st>>

\* Actions of the unit u leave the choice of the unit alone.
Runs(u) == unit = u /\ unit' = u
=============================================================================
