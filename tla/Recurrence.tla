---------------------------- MODULE Recurrence ----------------------------
(***************************************************************************)
(* What preventive maintenance promises about one plan: the plan moves on  *)
(* only past an occurrence that has its work order, and a work order is    *)
(* made only for the occurrence the plan has come to.  Whatever else       *)
(* happens to the plan is an edit of it, and makes no work order.  The     *)
(* module PlanGeneration implements it.                                    *)
(***************************************************************************)
EXTENDS Naturals

CONSTANT None

VARIABLES
    due,        \* the occurrence the plan has come to, or None
    orders,     \* the occurrences that have a work order
    edits       \* how often the plan was edited

recurrence == <<due, orders, edits>>

Init ==
    /\ due = None
    /\ orders = {}
    /\ edits = 0

Occur ==
    /\ due # None
    /\ orders' = orders \cup {due}
    /\ due' \in {n \in Nat : n > due}
    /\ UNCHANGED edits

Edit ==
    /\ edits' = edits + 1
    /\ due' \in Nat \cup {None}
    /\ UNCHANGED orders

Next == Occur \/ Edit

Spec == Init /\ [][Next]_recurrence
============================================================================
