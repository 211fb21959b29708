---------------------------- MODULE StockPool ----------------------------
(***************************************************************************)
(* What the inventory promises about one part in one bin: the stock there  *)
(* is split into units held for a work order and free units.  A generic    *)
(* movement takes free units only; a work order draws the units held for   *)
(* it first and free units after that; nobody ever touches the units held  *)
(* for another work order.  The module Inventory implements it.            *)
(***************************************************************************)
EXTENDS Integers

CONSTANTS WorkOrders, Amounts

VARIABLES free, held

pool == <<free, held>>

Less(a, b) == IF a > b THEN a - b ELSE 0

Init ==
    /\ free = 0
    /\ held = [w \in WorkOrders |-> 0]

\* Stock arrives, or a count finds more of it.
Put(n) ==
    /\ free' = free + n
    /\ UNCHANGED held

\* A generic issue, or a count that finds less stock.
Take(n) ==
    /\ n <= free
    /\ free' = free - n
    /\ UNCHANGED held

\* Work order w now holds n units: reserving, resizing and releasing (n = 0).
Hold(w, n) ==
    /\ n <= free + held[w]
    /\ free' = free + held[w] - n
    /\ held' = [held EXCEPT ![w] = n]

\* Work order w consumes n units, its own first.
Draw(w, n) ==
    /\ n <= free + held[w]
    /\ held' = [held EXCEPT ![w] = Less(held[w], n)]
    /\ free' = free - Less(n, held[w])

Next ==
    \/ \E n \in Amounts : Put(n) \/ Take(n)
    \/ \E w \in WorkOrders, n \in Amounts : Hold(w, n) \/ Draw(w, n)

Spec == Init /\ [][Next]_pool
============================================================================
