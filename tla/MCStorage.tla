----------------------------- MODULE MCStorage -----------------------------
(***************************************************************************)
(* The EEPROM drivers for TLC: two pages of two cells.                     *)
(***************************************************************************)
EXTENDS Storage

Spec == StorageInit /\ [][StorageNext]_unitVars /\ StorageFairness
=============================================================================
