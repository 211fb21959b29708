---------------------- MODULE MCPreventiveMaintenance ----------------------
(***************************************************************************)
(* Instances of PreventiveMaintenance for TLC.                             *)
(***************************************************************************)
EXTENDS PreventiveMaintenance, TLC

CONSTANTS m1, m2

OneMessage == {m1}

ReadsTwo == [m \in {m1} |-> 2]
============================================================================
