-------------------------- MODULE MCDispenserSystem --------------------------
(***************************************************************************)
(* The two doors of a side-by-side: the fresh food door inhibits water     *)
(* only, the freezer door both.                                            *)
(***************************************************************************)
EXTENDS DispenserSystem

MCDoors == {"freshFood", "freezer"}
MCWaterDoors == {"freshFood", "freezer"}
MCIceDoors == {"freezer"}
=============================================================================
