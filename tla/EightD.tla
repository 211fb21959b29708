------------------------------ MODULE EightD ------------------------------
(***************************************************************************)
(* The 8D report of a quality event (lib/quality/eight-d.ts), on top of    *)
(* the event, its root cause and its CAPA: each discipline is passed when  *)
(* the records it refers to are in order, and copies what it found.        *)
(*                                                                         *)
(* Each function is one Serializable transaction and one action.  A text   *)
(* is filled in or blank.                                                  *)
(***************************************************************************)
EXTENDS Capa

CONSTANT Edits      \* what requests save: the texts they fill and the ones they blank

VARIABLE report     \* the newest EightDSnapshot

vars == <<event, closing, cause, capa, history, doneAs, report>>

Texts == {"TEAM", "PROBLEM", "ESCAPE_POINT", "VALIDATION", "PREVENTION", "RECOGNITION"}

ASSUME EditsAssumption == Edits \subseteq [fill: SUBSET Texts, blank: SUBSET Texts]

\* actions: the actions of the CAPA selected at D5; implemented: those D6
\* found completed.
EightDSnapshot ==
    [status: {"NONE", "DRAFT", "IN_PROGRESS", "COMPLETED"},
     discipline: 1..8,
     texts: SUBSET Texts,
     containment: BOOLEAN,
     rootCause: Findings \cup {None},
     actions: Plans \cup {<< >>},
     implemented: SUBSET ActionIds]

QualityTypeOK ==
    /\ EventTypeOK
    /\ CapaTypeOK
    /\ report \in EightDSnapshot

Init ==
    /\ EventInit
    /\ CapaInit
    /\ report = [status |-> "NONE", discipline |-> 1, texts |-> {}, containment |-> FALSE,
                 rootCause |-> None, actions |-> << >>, implemented |-> {}]

---------------------------------------------------------------------------

saveEightDWorkspace(edit) ==
    /\ requireInvestigatingEvent
    /\ report.status # "COMPLETED"
    /\ report' = [report EXCEPT !.status = IF @ = "NONE" THEN "DRAFT" ELSE @,
                                !.texts = (@ \cup edit.fill) \ edit.blank]
    /\ Overtake("EIGHT_D")
    /\ UNCHANGED <<event, capaVars>>

OfType(p, type) == {i \in DOMAIN p : p[i].type = type}

\* What the discipline the report has come to asks for.
DisciplineMet ==
    \/ report.discipline = 1 /\ "TEAM" \in report.texts
    \/ report.discipline = 2 /\ "PROBLEM" \in report.texts
    \/ report.discipline = 3 /\ event.containment = "COMPLETED"
    \/ /\ report.discipline = 4
       /\ cause.status = "CONFIRMED" /\ cause.summary # None
       /\ "ESCAPE_POINT" \in report.texts
    \/ /\ report.discipline = 5
       /\ capa.status \in {"ACTIVE", "CLOSED"}
       /\ OfType(capa.actions, "CORRECTIVE") # {}
    \/ /\ report.discipline = 6
       /\ OfType(report.actions, "CORRECTIVE") # {}
       /\ OfType(report.actions, "CORRECTIVE") \subseteq capa.done
       /\ "VALIDATION" \in report.texts
    \/ /\ report.discipline = 7
       /\ OfType(capa.actions, "PREVENTIVE") # {}
       /\ OfType(capa.actions, "PREVENTIVE") \subseteq capa.done
       /\ "PREVENTION" \in report.texts
    \/ /\ report.discipline = 8
       /\ "RECOGNITION" \in report.texts
       /\ capa.status = "CLOSED"

\* What passing it leaves in the report.
Advanced ==
    LET d == report.discipline IN
    [report EXCEPT
        !.status = IF d = 1 THEN "IN_PROGRESS" ELSE IF d = 8 THEN "COMPLETED" ELSE @,
        !.discipline = IF d = 8 THEN 8 ELSE d + 1,
        !.containment = @ \/ d = 3,
        !.rootCause = IF d = 4 THEN cause.summary ELSE @,
        !.actions = IF d = 5 THEN capa.actions ELSE @,
        !.implemented = IF d = 6 THEN OfType(report.actions, "CORRECTIVE") ELSE @]

advanceEightD ==
    /\ requireInvestigatingEvent
    /\ report.status \in {"DRAFT", "IN_PROGRESS"}
    /\ DisciplineMet
    /\ report' = Advanced
    /\ Overtake("EIGHT_D")
    /\ UNCHANGED <<event, capaVars>>

\* Mutant: the selected actions are dropped, but the report stays where it is.
ResetInPlace ==
    /\ requireInvestigatingEvent
    /\ report.status \in {"DRAFT", "IN_PROGRESS"}
    /\ capa.status = "DRAFT" /\ capa.lastCheck = "INEFFECTIVE"
    /\ report' = [report EXCEPT !.actions = << >>, !.implemented = {}]
    /\ Overtake("EIGHT_D")
    /\ UNCHANGED <<event, capaVars>>

resetEightDAfterIneffectiveCapa ==
    /\ requireInvestigatingEvent
    /\ report.status \in {"DRAFT", "IN_PROGRESS"}
    /\ capa.status = "DRAFT" /\ capa.lastCheck = "INEFFECTIVE"
    /\ report' = [report EXCEPT !.status = "IN_PROGRESS", !.discipline = 5,
                    !.texts = @ \ {"VALIDATION", "PREVENTION", "RECOGNITION"},
                    !.actions = << >>, !.implemented = {}]
    /\ Overtake("EIGHT_D")
    /\ UNCHANGED <<event, capaVars>>

\* The 8D half of the gate of a closing request.
ReadEightDGate(r) ==
    /\ report.status \in {"NONE", "COMPLETED"}
    /\ PassGate(r, "EIGHT_D")
    /\ UNCHANGED <<capaVars, report>>

EightDStep ==
    \/ \E edit \in Edits : saveEightDWorkspace(edit)
    \/ advanceEightD
    \/ resetEightDAfterIneffectiveCapa
    \/ \E r \in Closers : ReadEightDGate(r)

Next ==
    \/ EventStep /\ UNCHANGED <<capaVars, report>>
    \/ CapaStep /\ UNCHANGED report
    \/ EightDStep

Spec == Init /\ [][Next]_vars

---------------------------------------------------------------------------

\* Nothing is left unfinished behind a closed event: its CAPA is closed and
\* its 8D completed, where there are any, and a completed 8D has an
\* effective CAPA behind it.  Only a write that overtakes the closing request
\* between its checks and its transaction can leave it otherwise
\* (the CLOSE gate of the route, requireCapaContext, requireInvestigatingEvent).
ClosedMeansFinished ==
    event.status = "CLOSED" /\ ~event.raced =>
        /\ capa.status \in {"NONE", "CLOSED"}
        /\ report.status \in {"NONE", "COMPLETED"}
        /\ report.status = "COMPLETED" => capa.status = "CLOSED"

\* From D7 on the report names corrective actions and says of every one of
\* them that it was implemented, also after a reset to D5 and a revision of
\* the CAPA (advanceEightD, resetEightDAfterIneffectiveCapa).
ReportedActionsWereImplemented ==
    report.discipline > 6 =>
        /\ report.implemented = OfType(report.actions, "CORRECTIVE")
        /\ report.implemented # {}

\* A completed report has been through every discipline: it has a
\* containment and a root cause (the errors of D3 and D4 in advanceEightD).
CompletedReportsAreWhole ==
    report.status = "COMPLETED" => report.containment /\ report.rootCause # None
============================================================================
