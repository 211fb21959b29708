--------------------------- MODULE GovernedPlan ---------------------------
(***************************************************************************)
(* What CAPA governance promises about one plan: a plan is written while   *)
(* it is a draft, approved by someone who did not write that draft, stays  *)
(* as it was approved while it is in force, and is proven or withdrawn     *)
(* only when all of it has been carried out.  The module Capa implements   *)
(* it.                                                                     *)
(***************************************************************************)
CONSTANTS Users, Plans, None

VARIABLES
    phase,      \* DRAFT, IN_FORCE or PROVEN
    plan,       \* the actions: their ids and what they mean
    writers,    \* who has written the present draft
    approver,
    carriedOut  \* the actions of the plan that are completed

governed == <<phase, plan, writers, approver, carriedOut>>

Init ==
    /\ phase = "DRAFT"
    /\ plan = << >>
    /\ writers = {}
    /\ approver = None
    /\ carriedOut = {}

\* An action stays carried out only while it means the same.
Unrevised(p) == {i \in carriedOut : i \in DOMAIN p /\ p[i] = plan[i]}

Write(u, p) ==
    /\ phase = "DRAFT"
    /\ plan' = p
    /\ writers' = writers \cup {u}
    /\ carriedOut' = Unrevised(p)
    /\ UNCHANGED <<phase, approver>>

Approve(u) ==
    /\ phase = "DRAFT"
    /\ DOMAIN plan # {}
    /\ u \notin writers
    /\ phase' = "IN_FORCE"
    /\ approver' = u
    /\ UNCHANGED <<plan, writers, carriedOut>>

CarryOut(i) ==
    /\ phase = "IN_FORCE"
    /\ carriedOut' = carriedOut \cup {i}
    /\ UNCHANGED <<phase, plan, writers, approver>>

Prove ==
    /\ phase = "IN_FORCE"
    /\ carriedOut = DOMAIN plan
    /\ phase' = "PROVEN"
    /\ UNCHANGED <<plan, writers, approver, carriedOut>>

\* A plan that did not work, or is taken up again, is a new draft: nobody
\* has written it yet.
Withdraw ==
    /\ \/ phase = "IN_FORCE" /\ carriedOut = DOMAIN plan
       \/ phase = "PROVEN"
    /\ phase' = "DRAFT"
    /\ writers' = {}
    /\ approver' = None
    /\ UNCHANGED <<plan, carriedOut>>

Next ==
    \/ \E u \in Users : Approve(u) \/ \E p \in Plans : Write(u, p)
    \/ \E i \in DOMAIN plan : CarryOut(i)
    \/ Prove
    \/ Withdraw

Spec == Init /\ [][Next]_governed
============================================================================
