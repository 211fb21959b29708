-------------------------- MODULE MCCycleCount --------------------------
(***************************************************************************)
(* Instances of CycleCount for TLC.                                        *)
(***************************************************************************)
EXTENDS CycleCount, TLC

Symmetric ==
     Permutations(Parts) \cup Permutations(Clerks) \cup Permutations(MovementKeys)
============================================================================
