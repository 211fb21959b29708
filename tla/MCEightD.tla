----------------------------- MODULE MCEightD -----------------------------
(***************************************************************************)
(* Instances of EightD for TLC.                                            *)
(***************************************************************************)
EXTENDS EightD, TLC

CONSTANTS c1, c2, p1

Action(type, text) == [type |-> type, text |-> text]

\* The first plan, one that words its corrective action anew, and one that
\* replaces it.
TwoPlans ==
    {(c1 :> Action("CORRECTIVE", 1)) @@ (p1 :> Action("PREVENTIVE", 1)),
     (c1 :> Action("CORRECTIVE", 2)) @@ (p1 :> Action("PREVENTIVE", 1))}

ThreePlans == TwoPlans \cup
    {(c2 :> Action("CORRECTIVE", 1)) @@ (p1 :> Action("PREVENTIVE", 1))}

AllAtOnce == {[fill |-> Texts, blank |-> {}]}

\* All texts at once, or the validation note taken out again.
FillOrBlank == AllAtOnce \cup {[fill |-> {}, blank |-> {"VALIDATION"}]}

Symmetric == Permutations(Users)
============================================================================
