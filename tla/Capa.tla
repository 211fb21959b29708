------------------------------- MODULE Capa -------------------------------
(***************************************************************************)
(* The root-cause analysis of a quality event and its corrective and       *)
(* preventive action plan: drafting, independent approval, completion of   *)
(* the actions, verification of their effect, and reopening                *)
(* (lib/quality/root-cause.ts, capa.ts, capa-approval.ts).                 *)
(*                                                                         *)
(* Each function is one Serializable transaction and one action here.      *)
(* Whether a user may act, and whether the owner of an action is still a   *)
(* member, is decided elsewhere at any time: a refusal changes nothing.    *)
(* approveCapa of capa.ts, which only its tests call, is left out.         *)
(***************************************************************************)
EXTENDS QualityEvent, Sequences

CONSTANTS
    Users,
    Findings,   \* root-cause summaries
    Plans,      \* the plans requests save: action ids to their meaning
    MaxRows,    \* bound: rows of the draft history
    None

ASSUME RowsAssumption == MaxRows \in Nat
ASSUME CapaNoneAssumption == None \notin Users \cup Findings

ActionIds == UNION {DOMAIN p : p \in Plans}

\* Meaning is what actionMeaningChanged compares, beyond the type.
ActionType == {"CORRECTIVE", "PREVENTIVE"}

ASSUME PlansAssumption ==
    \A p \in Plans : \A i \in DOMAIN p : p[i].type \in ActionType

VARIABLES
    cause,      \* the newest RootCauseSnapshot
    capa,       \* the newest CapaSnapshot
    history,    \* the rows of the CAPA that say whose draft it is, oldest first
    doneAs      \* history: what a completed action meant when it was completed

capaVars == <<cause, capa, history, doneAs>>

RootCauseSnapshot ==
    [status: {"NONE", "DRAFT", "CONFIRMED"}, summary: Findings \cup {None}]

CapaSnapshot ==
    [status: {"NONE", "DRAFT", "ACTIVE", "CLOSED"},
     actions: Plans \cup {<< >>},
     done: SUBSET ActionIds,
     approvedBy: Users \cup {None},
     lastCheck: {"NONE", "EFFECTIVE", "INEFFECTIVE"}]

DraftAudit ==
    [action: {"CREATED", "PLAN_UPDATED", "EFFECTIVENESS_FAILED", "REOPENED"}, actor: Users]

CapaTypeOK ==
    /\ cause \in RootCauseSnapshot
    /\ capa \in CapaSnapshot
    /\ capa.done \subseteq DOMAIN capa.actions
    /\ history \in Seq(DraftAudit)

CapaInit ==
    /\ cause = [status |-> "NONE", summary |-> None]
    /\ capa = [status |-> "NONE", actions |-> << >>, done |-> {},
               approvedBy |-> None, lastCheck |-> "NONE"]
    /\ history = << >>
    /\ doneAs = << >>

---------------------------------------------------------------------------
(* The root cause.  The data a method asks for is taken to be there.       *)

requireInvestigatingEvent == event.status = "INVESTIGATING"

saveRootCauseWorkspace(summary) ==
    /\ requireInvestigatingEvent
    /\ cause.status # "CONFIRMED"
    /\ cause' = [status |-> "DRAFT", summary |-> summary]
    /\ UNCHANGED <<event, closing, capa, history, doneAs>>

confirmRootCauseWorkspace ==
    /\ requireInvestigatingEvent
    /\ cause.status = "DRAFT"
    /\ cause.summary # None
    /\ cause' = [cause EXCEPT !.status = "CONFIRMED"]
    /\ UNCHANGED <<event, closing, capa, history, doneAs>>

reopenRootCauseWorkspace ==
    /\ requireInvestigatingEvent
    /\ cause.status = "CONFIRMED"
    /\ cause' = [cause EXCEPT !.status = "DRAFT"]
    /\ UNCHANGED <<event, closing, capa, history, doneAs>>

---------------------------------------------------------------------------
(* The plan.                                                               *)

\* Mutant: the CAPA is worked on whatever has become of the event.
AnyEventContext == cause.status = "CONFIRMED"

requireCapaContext ==
    /\ event.status = "INVESTIGATING"
    /\ cause.status = "CONFIRMED"

Row(action, u) ==
    /\ Len(history) < MaxRows
    /\ history' = Append(history, [action |-> action, actor |-> u])

\* Mutant: only the first author counts, not those who revised the draft.
FirstAuthors(logs) ==
    {logs[i].actor : i \in {j \in DOMAIN logs : logs[j].action = "CREATED"}}

\* Whoever wrote a row that no failure and no reopening has come after.
currentDraftAuthors(logs) ==
    {logs[i].actor : i \in {j \in DOMAIN logs :
        /\ logs[j].action \in {"CREATED", "PLAN_UPDATED"}
        /\ \A k \in DOMAIN logs :
             k > j => logs[k].action \notin {"EFFECTIVENESS_FAILED", "REOPENED"}}}

\* Mutant: a completion is kept although its action now means another thing.
KeepCompletionById(p) == capa.done \cap DOMAIN p

\* The completed actions of the previous plan that mean the same in p.
preserveCompletion(p) ==
    {i \in capa.done : i \in DOMAIN p /\ capa.actions[i] = p[i]}

saveCapaDraft(u, p) ==
    /\ requireCapaContext
    /\ capa.status \in {"NONE", "DRAFT"}
    /\ capa' = [capa EXCEPT !.status = "DRAFT", !.actions = p,
                            !.done = preserveCompletion(p), !.approvedBy = None]
    /\ Row(IF capa.status = "NONE" THEN "CREATED" ELSE "PLAN_UPDATED", u)
    /\ Overtake("CAPA")
    /\ UNCHANGED <<event, cause, doneAs>>

approveCapaWithGovernance(u) ==
    /\ requireCapaContext
    /\ capa.status = "DRAFT"
    /\ DOMAIN capa.actions # {}
    /\ u \notin currentDraftAuthors(history)
    /\ capa' = [capa EXCEPT !.status = "ACTIVE", !.approvedBy = u]
    /\ Overtake("CAPA")
    /\ UNCHANGED <<event, cause, history, doneAs>>

completeCapaAction(i) ==
    /\ requireCapaContext
    /\ capa.status = "ACTIVE"
    /\ i \in DOMAIN capa.actions \ capa.done
    /\ capa' = [capa EXCEPT !.done = @ \cup {i}]
    /\ doneAs' = [j \in DOMAIN doneAs \cup {i} |->
                    IF j = i THEN capa.actions[i] ELSE doneAs[j]]
    /\ Overtake("CAPA")
    /\ UNCHANGED <<event, cause, history>>

verifyCapaEffectiveness(u, result) ==
    /\ requireCapaContext
    /\ capa.status = "ACTIVE"
    /\ capa.done = DOMAIN capa.actions
    /\ IF result = "EFFECTIVE"
       THEN /\ capa' = [capa EXCEPT !.status = "CLOSED", !.lastCheck = result]
            /\ UNCHANGED history
       ELSE /\ capa' = [capa EXCEPT !.status = "DRAFT", !.lastCheck = result,
                                    !.approvedBy = None]
            /\ Row("EFFECTIVENESS_FAILED", u)
    /\ Overtake("CAPA")
    /\ UNCHANGED <<event, cause, doneAs>>

reopenCapa(u) ==
    /\ requireCapaContext
    /\ capa.status = "CLOSED"
    /\ capa' = [capa EXCEPT !.status = "DRAFT", !.approvedBy = None]
    /\ Row("REOPENED", u)
    /\ Overtake("CAPA")
    /\ UNCHANGED <<event, cause, doneAs>>

\* The CAPA half of the gate of a closing request.
ReadCapaGate(r) ==
    /\ capa.status \in {"NONE", "CLOSED"}
    /\ PassGate(r, "CAPA")
    /\ UNCHANGED capaVars

RootCauseStep ==
    \/ \E s \in Findings \cup {None} : saveRootCauseWorkspace(s)
    \/ confirmRootCauseWorkspace
    \/ reopenRootCauseWorkspace

CapaStep ==
    \/ RootCauseStep
    \/ \E u \in Users :
         \/ \E p \in Plans : saveCapaDraft(u, p)
         \/ approveCapaWithGovernance(u)
         \/ \E result \in {"EFFECTIVE", "INEFFECTIVE"} : verifyCapaEffectiveness(u, result)
         \/ reopenCapa(u)
    \/ \E i \in ActionIds : completeCapaAction(i)
    \/ \E r \in Closers : ReadCapaGate(r)

---------------------------------------------------------------------------

\* A closed CAPA was approved, every one of its actions was carried out,
\* and the last verification found it effective: completions survive the
\* revisions of a plan only where the action did not change
\* (preserveCompletion in saveCapaDraft).
ClosedCapaIsProven ==
    /\ capa.status = "CLOSED" =>
         /\ capa.done = DOMAIN capa.actions
         /\ capa.lastCheck = "EFFECTIVE"
         /\ capa.approvedBy # None
    /\ \A i \in capa.done : i \in DOMAIN doneAs /\ doneAs[i] = capa.actions[i]

phaseOf(status) ==
    IF status = "ACTIVE" THEN "IN_FORCE" ELSE IF status = "CLOSED" THEN "PROVEN" ELSE "DRAFT"

Governed == INSTANCE GovernedPlan WITH
    phase <- phaseOf(capa.status),
    plan <- capa.actions,
    writers <- currentDraftAuthors(history),
    approver <- capa.approvedBy,
    carriedOut <- capa.done

\* The plan is governed: nobody approves a draft they wrote, and an approved
\* plan stays as it was approved until it is proven or withdrawn
\* (approveCapaWithGovernance, saveCapaDraft).
PlanIsGoverned == Governed!Spec
============================================================================
