--------------------------- MODULE MCInventory ---------------------------
(***************************************************************************)
(* Instances of Inventory for TLC.                                         *)
(***************************************************************************)
EXTENDS Reorder, TLC

\* Work orders, bins and handlers are interchangeable.
Symmetric ==
    Permutations(WorkOrders) \cup Permutations(Bins) \cup Permutations(Handlers) \cup
    Permutations(MovementKeys) \cup Permutations(UseKeys)
============================================================================
