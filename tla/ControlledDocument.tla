------------------------ MODULE ControlledDocument ------------------------
(***************************************************************************)
(* What document control promises about one document: a revision is sealed *)
(* with its file when it is approved, a sealed revision never changes, and *)
(* what is in force is none or one sealed revision at a time.  The    *)
(* module DocumentControl implements it when requests do not overlap.      *)
(***************************************************************************)
CONSTANTS Revisions, Files, None

VARIABLES sealed, current

document == <<sealed, current>>

Init ==
    /\ sealed = [r \in Revisions |-> None]
    /\ current = {}

Seal(r, f) ==
    /\ sealed[r] = None
    /\ sealed' = [sealed EXCEPT ![r] = f]
    /\ UNCHANGED current

\* Revision r comes into force, in place of the one that was.
Issue(r) ==
    /\ sealed[r] # None
    /\ current' = {r}
    /\ UNCHANGED sealed

Next == \E r \in Revisions : Issue(r) \/ \E f \in Files : Seal(r, f)

Spec == Init /\ [][Next]_document
============================================================================
