----------------------------- MODULE Reorder -----------------------------
(***************************************************************************)
(* Reorder alerts (lib/inventory/reorder.ts): what the site is told to     *)
(* order, read off the balances and the reservations of Inventory.         *)
(*                                                                         *)
(* Alerts change nothing, and nothing looks at a policy but them.  A slot  *)
(* therefore has no policy of its own here: what is said of an alert is    *)
(* said for each policy the site might have set.                           *)
(***************************************************************************)
EXTENDS Inventory

\* What setReorderPolicy accepts and listPolicies returns.
ReorderPolicies ==
    {policy \in [minQuantity: Amounts, maxQuantity: Amounts,
                 reorderQuantity: (Amounts \ {0}) \cup {None}] :
        policy.maxQuantity >= policy.minQuantity}

\* The slots that may get a policy, and whose policy may alert.
InScope == {s \in Slots : {s[1], s[2]} \cap retired = {}}

\* Fault: what work orders hold counts as available.
OnHand(s) == balance[s]

\* What nobody has reserved.
Available(s) ==
    LET reserved == ReservedForOthers(None, s)
    IN  IF balance[s] > reserved THEN balance[s] - reserved ELSE 0

ReorderAlertStatus(available, policy) ==
    IF available = 0 THEN "OUT_OF_STOCK"
    ELSE IF available <= policy.minQuantity THEN "REORDER" ELSE "OK"

SuggestedOrderQuantity(available, policy) ==
    IF ReorderAlertStatus(available, policy) = "OK" THEN 0
    ELSE IF policy.reorderQuantity # None THEN policy.reorderQuantity
    ELSE IF policy.maxQuantity > available THEN policy.maxQuantity - available ELSE 0

---------------------------------------------------------------------------

NewRequest(s, type, amount) ==
    MovementRequest(s[1], s[2], type, amount, <<"new">>, None)

\* An alert says what the stock transactions would do, though these have
\* formulas of their own (stock.ts:163, reservations.ts:205): a slot is out of
\* stock exactly if it refuses an issue and no work order could hold more than
\* it does; and an order of the suggested size, once it is received, settles
\* the alert exactly if the policy leaves room between its two levels.
AlertsMatchTheStock ==
    \A s \in InScope :
        LET available == Available(s)
            refused == ~Accepts(NewRequest(s, "ISSUE", 1))
            full == {w \in WorkOrders : balance[s] - ReservedForOthers(w, s) <= Remaining(w, s)}
        IN  \A policy \in ReorderPolicies :
            LET suggested == SuggestedOrderQuantity(available, policy)
                out == ReorderAlertStatus(available, policy) = "OUT_OF_STOCK"
            IN  /\ out <=> refused
                /\ full = IF out THEN WorkOrders ELSE {}
                /\ policy.reorderQuantity = None /\ suggested > 0 =>
                     (ReorderAlertStatus(available + suggested, policy) = "OK"
                        <=> policy.minQuantity < policy.maxQuantity)
============================================================================
