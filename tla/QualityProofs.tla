--------------------------- MODULE QualityProofs ---------------------------
(***************************************************************************)
(* Proofs about EightD and the modules under it, for any users, findings,  *)
(* plans, edits and requests that close the event.                         *)
(***************************************************************************)
EXTENDS EightD, SequenceTheorems, TLAPS

\* What the status of a CAPA says of it, and what its completions are worth.
CapaGood(c, meant) ==
    /\ c.status \in {"NONE", "DRAFT"} => c.approvedBy = None
    /\ c.status \in {"ACTIVE", "CLOSED"} => c.approvedBy \in Users
    /\ c.status = "CLOSED" => c.done = DOMAIN c.actions /\ c.lastCheck = "EFFECTIVE"
    /\ \A i \in c.done : i \in DOMAIN c.actions /\ i \in DOMAIN meant /\ meant[i] = c.actions[i]

ReportGood(r) ==
    r.discipline > 6 => r.implemented = OfType(r.actions, "CORRECTIVE") /\ r.implemented # {}

\* A completed report has seen a CAPA.
ReportHasCapa == report.status = "COMPLETED" => capa.status # "NONE"

\* What a closing request found is still so, unless it was overtaken.
GatesTrue ==
    \A r \in Closers : ~closing[r].overtaken =>
        /\ "CAPA" \in closing[r].passed => capa.status \in {"NONE", "CLOSED"}
        /\ "EIGHT_D" \in closing[r].passed => report.status \in {"NONE", "COMPLETED"}

IInv ==
    /\ QualityTypeOK
    /\ CapaGood(capa, doneAs)
    /\ ReportGood(report)
    /\ ReportHasCapa
    /\ GatesTrue
    /\ ClosedMeansFinished

---------------------------------------------------------------------------
(* The event and the requests that close it.                               *)

\* An event that is not closed, and whose records stay.
LEMMA EventKeeps ==
  ASSUME IInv, event' \in QualityEventSnapshot, event'.status # "CLOSED",
         UNCHANGED <<closing, cause, capa, history, doneAs, report>>
  PROVE  IInv'
BY DEF IInv, QualityTypeOK, EventTypeOK, CapaTypeOK, CapaGood, ReportGood, ReportHasCapa, GatesTrue,
       ClosedMeansFinished, OfType

\* One closing request moves, and the event stays as it is.
LEMMA ClosingKeeps ==
  ASSUME IInv, NEW r \in Closers, NEW c \in Closing, closing' = [closing EXCEPT ![r] = c],
         ~c.overtaken =>
            /\ "CAPA" \in c.passed => capa.status \in {"NONE", "CLOSED"}
            /\ "EIGHT_D" \in c.passed => report.status \in {"NONE", "COMPLETED"},
         UNCHANGED <<event, cause, capa, history, doneAs, report>>
  PROVE  IInv'
<1>1. closing \in [Closers -> Closing]
  BY DEF IInv, QualityTypeOK, EventTypeOK
<1>2. QualityTypeOK'
  BY <1>1 DEF IInv, QualityTypeOK, EventTypeOK, CapaTypeOK
<1>3. GatesTrue'
  BY <1>1 DEF IInv, GatesTrue
<1>4. CapaGood(capa, doneAs)' /\ ReportGood(report)' /\ ReportHasCapa' /\ ClosedMeansFinished'
  BY DEF IInv, CapaGood, ReportGood, ReportHasCapa, ClosedMeansFinished, OfType
<1> QED BY <1>2, <1>3, <1>4 DEF IInv

LEMMA PassGateKeeps ==
  ASSUME IInv, NEW r \in Closers, NEW gate \in Gates, PassGate(r, gate),
         gate = "CAPA" => capa.status \in {"NONE", "CLOSED"},
         gate = "EIGHT_D" => report.status \in {"NONE", "COMPLETED"},
         UNCHANGED <<cause, capa, history, doneAs, report>>
  PROVE  IInv'
<1>1. PICK c : c = [closing[r] EXCEPT !.passed = closing[r].passed \cup {gate}]
  OBVIOUS
<1>2. closing[r] \in Closing /\ closing \in [Closers -> Closing]
  BY DEF IInv, QualityTypeOK, EventTypeOK
<1>3. /\ c \in Closing /\ c.overtaken = closing[r].overtaken
      /\ c.passed = closing[r].passed \cup {gate}
  BY <1>1, <1>2 DEF Closing
<1>4. closing' = [closing EXCEPT ![r] = c] /\ UNCHANGED event
  BY <1>1, <1>2 DEF PassGate
<1>5. ~c.overtaken =>
        /\ "CAPA" \in c.passed => capa.status \in {"NONE", "CLOSED"}
        /\ "EIGHT_D" \in c.passed => report.status \in {"NONE", "COMPLETED"}
  BY <1>3 DEF IInv, GatesTrue
<1> QED BY <1>3, <1>4, <1>5, ClosingKeeps

LEMMA GiveUpClosingKeeps ==
  ASSUME IInv, NEW r \in Closers, GiveUpClosing(r), UNCHANGED <<capaVars, report>>
  PROVE  IInv'
<1>1. NotClosing \in Closing /\ NotClosing.passed = {}
  BY DEF NotClosing, Closing
<1> QED BY <1>1, ClosingKeeps DEF GiveUpClosing, capaVars

\* The gates were open when the request passed them, and are unless it was
\* overtaken.
LEMMA CloseEventKeeps ==
  ASSUME IInv, NEW r \in Closers, CloseEvent(r), UNCHANGED <<capaVars, report>>
  PROVE  IInv'
<1>1. /\ closing \in [Closers -> Closing] /\ closing[r] \in Closing
      /\ event \in QualityEventSnapshot
  BY DEF IInv, QualityTypeOK, EventTypeOK
<1>2. NotClosing \in Closing /\ NotClosing.passed = {}
  BY DEF NotClosing, Closing
<1>3. /\ closing[r].passed = {"CAPA", "EIGHT_D"}
      /\ event' = [event EXCEPT !.status = "CLOSED", !.raced = closing[r].overtaken]
      /\ closing' = [closing EXCEPT ![r] = NotClosing]
      /\ UNCHANGED <<cause, capa, history, doneAs, report>>
  BY DEF CloseEvent, Gates, capaVars
<1>4. /\ event' \in QualityEventSnapshot /\ event'.status = "CLOSED"
      /\ event'.raced = closing[r].overtaken
  BY <1>1, <1>3 DEF QualityEventSnapshot, Closing
<1>5. QualityTypeOK'
  BY <1>1, <1>2, <1>3, <1>4 DEF IInv, QualityTypeOK, EventTypeOK, CapaTypeOK
<1>6. GatesTrue'
  BY <1>1, <1>2, <1>3 DEF IInv, GatesTrue
<1>7. ClosedMeansFinished'
  BY <1>3, <1>4 DEF IInv, ClosedMeansFinished, GatesTrue, ReportHasCapa
<1>8. CapaGood(capa, doneAs)' /\ ReportGood(report)' /\ ReportHasCapa'
  BY <1>3 DEF IInv, CapaGood, ReportGood, ReportHasCapa, OfType
<1> QED BY <1>5, <1>6, <1>7, <1>8 DEF IInv

LEMMA EventStepKeeps ==
  ASSUME IInv, EventStep, UNCHANGED <<capaVars, report>>
  PROVE  IInv'
<1>1. event \in QualityEventSnapshot /\ UNCHANGED <<cause, capa, history, doneAs, report>>
  BY DEF IInv, QualityTypeOK, EventTypeOK, capaVars
<1>2. ASSUME \/ createQualityEvent \/ startInvestigation \/ reopenEvent
             \/ \E completed \in BOOLEAN : setImmediateContainment(completed)
      PROVE  IInv'
  <2>1. UNCHANGED closing
    BY <1>2 DEF createQualityEvent, startInvestigation, reopenEvent, setImmediateContainment
  <2>2. CASE createQualityEvent
    <3>1. event' \in QualityEventSnapshot /\ event'.status # "CLOSED"
      BY <1>1, <2>2 DEF createQualityEvent, QualityEventSnapshot
    <3> QED BY <1>1, <2>1, <3>1, EventKeeps
  <2>3. CASE startInvestigation
    <3>1. event' \in QualityEventSnapshot /\ event'.status # "CLOSED"
      BY <1>1, <2>3 DEF startInvestigation, QualityEventSnapshot
    <3> QED BY <1>1, <2>1, <3>1, EventKeeps
  <2>4. CASE reopenEvent
    <3>1. event' \in QualityEventSnapshot /\ event'.status # "CLOSED"
      BY <1>1, <2>4 DEF reopenEvent, QualityEventSnapshot
    <3> QED BY <1>1, <2>1, <3>1, EventKeeps
  <2>5. ASSUME NEW completed \in BOOLEAN, setImmediateContainment(completed)
        PROVE  IInv'
    <3>1. event' \in QualityEventSnapshot /\ event'.status # "CLOSED"
      BY <1>1, <2>5 DEF setImmediateContainment, QualityEventSnapshot
    <3> QED BY <1>1, <2>1, <3>1, EventKeeps
  <2> QED BY <1>2, <2>2, <2>3, <2>4, <2>5
<1> QED BY <1>2, CloseEventKeeps, GiveUpClosingKeeps DEF EventStep

---------------------------------------------------------------------------
(* Writes of the CAPA and of the report.                                   *)

\* A write overtakes the requests that have passed its gate.
LEMMA OvertakeTells ==
  ASSUME IInv, NEW gate, Overtake(gate)
  PROVE  /\ closing' \in [Closers -> Closing]
         /\ \A r \in Closers :
              /\ closing'[r].passed = closing[r].passed
              /\ closing[r].overtaken => closing'[r].overtaken
              /\ gate \in closing[r].passed => closing'[r].overtaken
<1>1. closing \in [Closers -> Closing]
  BY DEF IInv, QualityTypeOK, EventTypeOK
<1>2. ASSUME NEW r \in Closers
      PROVE  /\ closing'[r] \in Closing
             /\ closing'[r].passed = closing[r].passed
             /\ closing[r].overtaken => closing'[r].overtaken
             /\ gate \in closing[r].passed => closing'[r].overtaken
  <2>1. closing'[r] = IF gate \in closing[r].passed
                      THEN [closing[r] EXCEPT !.overtaken = TRUE] ELSE closing[r]
    BY DEF Overtake
  <2> QED BY <1>1, <2>1 DEF Closing
<1>3. closing' \in [Closers -> Closing]
  BY <1>2 DEF Overtake
<1> QED BY <1>2, <1>3

LEMMA CapaKeeps ==
  ASSUME IInv, requireInvestigatingEvent, capa' \in CapaSnapshot, capa'.status # "NONE",
         capa'.done \subseteq DOMAIN capa'.actions, CapaGood(capa, doneAs)',
         history' \in Seq(DraftAudit), Overtake("CAPA"), UNCHANGED <<event, cause, report>>
  PROVE  IInv'
<1>1. QualityTypeOK'
  BY OvertakeTells DEF IInv, QualityTypeOK, EventTypeOK, CapaTypeOK
<1>2. GatesTrue'
  BY OvertakeTells DEF IInv, GatesTrue
<1>3. ClosedMeansFinished' /\ ReportHasCapa'
  BY DEF ClosedMeansFinished, ReportHasCapa, requireInvestigatingEvent
<1>4. ReportGood(report)'
  BY DEF IInv, ReportGood, OfType
<1> QED BY <1>1, <1>2, <1>3, <1>4 DEF IInv

LEMMA ReportKeeps ==
  ASSUME IInv, requireInvestigatingEvent, report' \in EightDSnapshot, ReportGood(report)',
         report'.status = "COMPLETED" => capa.status # "NONE",
         Overtake("EIGHT_D"), UNCHANGED <<event, capaVars>>
  PROVE  IInv'
<1>1. QualityTypeOK'
  BY OvertakeTells DEF IInv, QualityTypeOK, EventTypeOK, CapaTypeOK, capaVars
<1>2. GatesTrue'
  BY OvertakeTells DEF IInv, GatesTrue, capaVars
<1>3. ClosedMeansFinished' /\ ReportHasCapa'
  BY DEF ClosedMeansFinished, ReportHasCapa, requireInvestigatingEvent, capaVars
<1>4. CapaGood(capa, doneAs)'
  BY DEF IInv, CapaGood, capaVars
<1> QED BY <1>1, <1>2, <1>3, <1>4 DEF IInv

LEMMA CauseKeeps ==
  ASSUME IInv, cause' \in RootCauseSnapshot,
         UNCHANGED <<event, closing, capa, history, doneAs, report>>
  PROVE  IInv'
BY DEF IInv, QualityTypeOK, EventTypeOK, CapaTypeOK, CapaGood, ReportGood, ReportHasCapa, GatesTrue,
       ClosedMeansFinished, OfType

---------------------------------------------------------------------------
(* The root cause and the CAPA, function by function.                      *)

LEMMA RootCauseKeeps ==
  ASSUME IInv, UNCHANGED report,
         \/ \E s \in Findings \cup {None} : saveRootCauseWorkspace(s)
         \/ confirmRootCauseWorkspace
         \/ reopenRootCauseWorkspace
  PROVE  IInv'
<1>1. cause \in RootCauseSnapshot
  BY DEF IInv, QualityTypeOK, CapaTypeOK
<1>2. ASSUME NEW s \in Findings \cup {None}, saveRootCauseWorkspace(s) PROVE IInv'
  <2>1. [status |-> "DRAFT", summary |-> s] \in RootCauseSnapshot
    BY DEF RootCauseSnapshot
  <2> QED BY <1>2, <2>1, CauseKeeps DEF saveRootCauseWorkspace
<1>3. CASE confirmRootCauseWorkspace
  <2>1. [cause EXCEPT !.status = "CONFIRMED"] \in RootCauseSnapshot
    BY <1>1 DEF RootCauseSnapshot
  <2> QED BY <1>3, <2>1, CauseKeeps DEF confirmRootCauseWorkspace
<1>4. CASE reopenRootCauseWorkspace
  <2>1. [cause EXCEPT !.status = "DRAFT"] \in RootCauseSnapshot
    BY <1>1 DEF RootCauseSnapshot
  <2> QED BY <1>4, <2>1, CauseKeeps DEF reopenRootCauseWorkspace
<1> QED BY <1>2, <1>3, <1>4

LEMMA CapaTyped ==
  ASSUME IInv
  PROVE  /\ capa \in CapaSnapshot /\ history \in Seq(DraftAudit)
         /\ capa.done \subseteq DOMAIN capa.actions /\ CapaGood(capa, doneAs)
BY DEF IInv, QualityTypeOK, CapaTypeOK

LEMMA RowTyped ==
  ASSUME IInv, NEW action \in {"CREATED", "PLAN_UPDATED", "EFFECTIVENESS_FAILED", "REOPENED"},
         NEW u \in Users, Row(action, u)
  PROVE  history' \in Seq(DraftAudit)
<1>1. [action |-> action, actor |-> u] \in DraftAudit
  BY DEF DraftAudit
<1> QED BY <1>1, CapaTyped DEF Row

LEMMA ContextInvestigates == requireCapaContext => requireInvestigatingEvent
BY DEF requireCapaContext, requireInvestigatingEvent

LEMMA saveCapaDraftKeeps ==
  ASSUME IInv, NEW u \in Users, NEW p \in Plans, saveCapaDraft(u, p), UNCHANGED report
  PROVE  IInv'
<1>1. PICK done : done = preserveCompletion(p)
  OBVIOUS
<1>2. capa' = [capa EXCEPT !.status = "DRAFT", !.actions = p, !.done = done, !.approvedBy = None]
  BY <1>1 DEF saveCapaDraft
<1>3. done \subseteq DOMAIN p /\ done \subseteq capa.done /\ done \in SUBSET ActionIds
  BY <1>1, CapaTyped DEF preserveCompletion, CapaSnapshot
<1>4. /\ capa' \in CapaSnapshot /\ capa'.status = "DRAFT" /\ capa'.actions = p
      /\ capa'.done = done /\ capa'.approvedBy = None
  BY <1>2, <1>3, CapaTyped DEF CapaSnapshot
<1>5. CapaGood(capa, doneAs)'
  <2>1. \A i \in done : i \in DOMAIN p /\ i \in DOMAIN doneAs /\ doneAs[i] = p[i]
    BY <1>1, <1>3, CapaTyped DEF CapaGood, preserveCompletion
  <2>2. doneAs' = doneAs
    BY DEF saveCapaDraft
  <2> QED BY <1>4, <2>1, <2>2 DEF CapaGood
<1>6. history' \in Seq(DraftAudit)
  BY RowTyped DEF saveCapaDraft
<1> QED BY <1>3, <1>4, <1>5, <1>6, ContextInvestigates, CapaKeeps DEF saveCapaDraft

LEMMA approveCapaKeeps ==
  ASSUME IInv, NEW u \in Users, approveCapaWithGovernance(u), UNCHANGED report
  PROVE  IInv'
<1>1. capa' = [capa EXCEPT !.status = "ACTIVE", !.approvedBy = u] /\ doneAs' = doneAs
  BY DEF approveCapaWithGovernance
<1>2. /\ capa' \in CapaSnapshot /\ capa'.status = "ACTIVE" /\ capa'.actions = capa.actions
      /\ capa'.done = capa.done /\ capa'.approvedBy = u
  BY <1>1, CapaTyped DEF CapaSnapshot
<1>3. CapaGood(capa, doneAs)'
  BY <1>1, <1>2, CapaTyped DEF CapaGood
<1> QED BY <1>2, <1>3, ContextInvestigates, CapaTyped, CapaKeeps DEF approveCapaWithGovernance

LEMMA completeCapaActionKeeps ==
  ASSUME IInv, NEW i \in ActionIds, completeCapaAction(i), UNCHANGED report
  PROVE  IInv'
<1>1. PICK done : done = capa.done \cup {i}
  OBVIOUS
<1>2. capa' = [capa EXCEPT !.done = done] /\ i \in DOMAIN capa.actions /\ capa.status = "ACTIVE"
  BY <1>1 DEF completeCapaAction
<1>3. done \in SUBSET ActionIds /\ done \subseteq DOMAIN capa.actions
  BY <1>1, <1>2, CapaTyped DEF CapaSnapshot
<1>4. /\ capa' \in CapaSnapshot /\ capa'.status = capa.status /\ capa'.actions = capa.actions
      /\ capa'.done = done /\ capa'.approvedBy = capa.approvedBy
  BY <1>2, <1>3, CapaTyped DEF CapaSnapshot
<1>5. CapaGood(capa, doneAs)'
  <2>1. doneAs' = [j \in DOMAIN doneAs \cup {i} |-> IF j = i THEN capa.actions[i] ELSE doneAs[j]]
    BY DEF completeCapaAction
  <2>2. \A j \in done : /\ j \in DOMAIN capa.actions /\ j \in DOMAIN doneAs'
                        /\ doneAs'[j] = capa.actions[j]
    BY <1>1, <1>2, <2>1, CapaTyped DEF CapaGood
  <2> QED BY <1>2, <1>4, <2>2, CapaTyped DEF CapaGood
<1> QED BY <1>2, <1>3, <1>4, <1>5, ContextInvestigates, CapaTyped, CapaKeeps
        DEF completeCapaAction

LEMMA verifyCapaKeeps ==
  ASSUME IInv, NEW u \in Users, NEW result \in {"EFFECTIVE", "INEFFECTIVE"},
         verifyCapaEffectiveness(u, result), UNCHANGED report
  PROVE  IInv'
<1>1. /\ capa.done = DOMAIN capa.actions /\ capa.status = "ACTIVE" /\ doneAs' = doneAs
      /\ requireInvestigatingEvent /\ Overtake("CAPA") /\ UNCHANGED <<event, cause, report>>
  BY ContextInvestigates DEF verifyCapaEffectiveness
<1>2. CASE result = "EFFECTIVE"
  <2>1. capa' = [capa EXCEPT !.status = "CLOSED", !.lastCheck = result] /\ history' = history
    BY <1>2 DEF verifyCapaEffectiveness
  <2>2. /\ capa' \in CapaSnapshot /\ capa'.status = "CLOSED" /\ capa'.actions = capa.actions
        /\ capa'.done = capa.done /\ capa'.approvedBy = capa.approvedBy
        /\ capa'.lastCheck = "EFFECTIVE"
    BY <1>2, <2>1, CapaTyped DEF CapaSnapshot
  <2>3. CapaGood(capa, doneAs)'
    BY <1>1, <2>2, CapaTyped DEF CapaGood
  <2> QED BY <1>1, <2>1, <2>2, <2>3, CapaTyped, CapaKeeps
<1>3. CASE result # "EFFECTIVE"
  <2>1. /\ capa' = [capa EXCEPT !.status = "DRAFT", !.lastCheck = result, !.approvedBy = None]
        /\ Row("EFFECTIVENESS_FAILED", u)
    BY <1>3 DEF verifyCapaEffectiveness
  <2>2. /\ capa' \in CapaSnapshot /\ capa'.status = "DRAFT" /\ capa'.actions = capa.actions
        /\ capa'.done = capa.done /\ capa'.approvedBy = None
    BY <2>1, CapaTyped DEF CapaSnapshot
  <2>3. CapaGood(capa, doneAs)'
    BY <1>1, <2>2, CapaTyped DEF CapaGood
  <2>4. history' \in Seq(DraftAudit)
    BY <2>1, RowTyped
  <2> QED BY <1>1, <2>2, <2>3, <2>4, CapaTyped, CapaKeeps
<1> QED BY <1>2, <1>3

LEMMA reopenCapaKeeps ==
  ASSUME IInv, NEW u \in Users, reopenCapa(u), UNCHANGED report
  PROVE  IInv'
<1>1. capa' = [capa EXCEPT !.status = "DRAFT", !.approvedBy = None] /\ doneAs' = doneAs
  BY DEF reopenCapa
<1>2. /\ capa' \in CapaSnapshot /\ capa'.status = "DRAFT" /\ capa'.actions = capa.actions
      /\ capa'.done = capa.done /\ capa'.approvedBy = None
  BY <1>1, CapaTyped DEF CapaSnapshot
<1>3. CapaGood(capa, doneAs)'
  BY <1>1, <1>2, CapaTyped DEF CapaGood
<1>4. history' \in Seq(DraftAudit)
  BY RowTyped DEF reopenCapa
<1> QED BY <1>2, <1>3, <1>4, ContextInvestigates, CapaTyped, CapaKeeps DEF reopenCapa

LEMMA CapaStepKeeps ==
  ASSUME IInv, CapaStep, UNCHANGED report
  PROVE  IInv'
<1>1. ASSUME NEW r \in Closers, ReadCapaGate(r) PROVE IInv'
  <2>1. /\ capa.status \in {"NONE", "CLOSED"} /\ PassGate(r, "CAPA")
        /\ UNCHANGED <<cause, capa, history, doneAs, report>>
    BY <1>1 DEF ReadCapaGate, capaVars
  <2> QED BY <2>1, PassGateKeeps DEF Gates
<1> QED BY <1>1, RootCauseKeeps, saveCapaDraftKeeps, approveCapaKeeps, completeCapaActionKeeps,
           verifyCapaKeeps, reopenCapaKeeps DEF CapaStep, RootCauseStep

---------------------------------------------------------------------------
(* The 8D report.                                                          *)

LEMMA ReportTyped ==
  ASSUME IInv
  PROVE  report \in EightDSnapshot /\ ReportGood(report) /\ (report.status = "COMPLETED" => capa.status # "NONE")
BY DEF IInv, QualityTypeOK, ReportHasCapa

LEMMA saveEightDKeeps ==
  ASSUME IInv, NEW edit \in Edits, saveEightDWorkspace(edit)
  PROVE  IInv'
<1>1. PICK texts, status :
        /\ texts = (report.texts \cup edit.fill) \ edit.blank
        /\ status = IF report.status = "NONE" THEN "DRAFT" ELSE report.status
  OBVIOUS
<1>2. report' = [report EXCEPT !.status = status, !.texts = texts]
  BY <1>1 DEF saveEightDWorkspace
<1>3. texts \in SUBSET Texts
  BY <1>1, EditsAssumption, ReportTyped DEF EightDSnapshot
<1>4. /\ report' \in EightDSnapshot /\ report'.status = status
      /\ report'.discipline = report.discipline /\ report'.actions = report.actions
      /\ report'.implemented = report.implemented
  BY <1>1, <1>2, <1>3, ReportTyped DEF EightDSnapshot
<1>5. ReportGood(report)'
  BY <1>4, ReportTyped DEF ReportGood, OfType
<1> QED BY <1>1, <1>4, <1>5, ReportTyped, ReportKeeps DEF saveEightDWorkspace

LEMMA advanceEightDKeeps ==
  ASSUME IInv, advanceEightD
  PROVE  IInv'
<1> DEFINE d == report.discipline
<1>1. /\ report' = Advanced /\ DisciplineMet /\ requireInvestigatingEvent
      /\ Overtake("EIGHT_D") /\ UNCHANGED <<event, capaVars>>
      /\ report.status \in {"DRAFT", "IN_PROGRESS"}
  BY DEF advanceEightD
<1>2. d \in 1..8 /\ report \in EightDSnapshot /\ capa \in CapaSnapshot
  BY ReportTyped, CapaTyped DEF EightDSnapshot
<1>3. PICK status, discipline, containment, rootCause, actions, implemented :
        /\ status = IF d = 1 THEN "IN_PROGRESS" ELSE IF d = 8 THEN "COMPLETED" ELSE report.status
        /\ discipline = IF d = 8 THEN 8 ELSE d + 1
        /\ containment = (report.containment \/ d = 3)
        /\ rootCause = IF d = 4 THEN cause.summary ELSE report.rootCause
        /\ actions = IF d = 5 THEN capa.actions ELSE report.actions
        /\ implemented = IF d = 6 THEN OfType(report.actions, "CORRECTIVE") ELSE report.implemented
  OBVIOUS
<1>4. report' = [report EXCEPT !.status = status, !.discipline = discipline,
                   !.containment = containment, !.rootCause = rootCause,
                   !.actions = actions, !.implemented = implemented]
  BY <1>1, <1>3 DEF Advanced
<1>5. status \in {"NONE", "DRAFT", "IN_PROGRESS", "COMPLETED"} /\ discipline \in 1..8
  BY <1>2, <1>3 DEF EightDSnapshot
<1>6. containment \in BOOLEAN
  BY <1>3
<1>7. rootCause \in Findings \cup {None} /\ actions \in Plans \cup {<< >>}
  BY <1>2, <1>3 DEF IInv, QualityTypeOK, CapaTypeOK, RootCauseSnapshot, EightDSnapshot, CapaSnapshot
<1>8. implemented \in SUBSET ActionIds
  <2>1. CASE d = 6
    <3>1. OfType(report.actions, "CORRECTIVE") \subseteq capa.done
      BY <1>1, <2>1 DEF DisciplineMet
    <3> QED BY <1>2, <1>3, <2>1, <3>1 DEF CapaSnapshot
  <2>2. CASE d # 6
    BY <1>2, <1>3, <2>2 DEF EightDSnapshot
  <2> QED BY <2>1, <2>2
<1>9. /\ report' \in EightDSnapshot /\ report'.status = status /\ report'.discipline = discipline
      /\ report'.actions = actions /\ report'.implemented = implemented
  BY <1>2, <1>4, <1>5, <1>6, <1>7, <1>8 DEF EightDSnapshot
<1>10. ReportGood(report)'
  <2>1. CASE d < 6
    <3>1. discipline <= 6
      BY <1>2, <1>3, <2>1
    <3> QED BY <1>2, <1>3, <1>9, <3>1 DEF ReportGood
  <2>2. CASE d = 6
    <3>1. implemented = OfType(actions, "CORRECTIVE") /\ implemented # {}
      BY <1>1, <1>3, <2>2 DEF DisciplineMet
    <3> QED BY <1>9, <3>1 DEF ReportGood, OfType
  <2>3. CASE d > 6
    <3>1. implemented = OfType(actions, "CORRECTIVE") /\ implemented # {}
      BY <1>2, <1>3, <2>3, ReportTyped DEF ReportGood
    <3> QED BY <1>9, <3>1 DEF ReportGood, OfType
  <2> QED BY <1>2, <2>1, <2>2, <2>3
<1>11. report'.status = "COMPLETED" => capa.status # "NONE"
  <2>1. d = 8 => capa.status = "CLOSED"
    BY <1>1 DEF DisciplineMet
  <2> QED BY <1>1, <1>3, <1>9, <2>1
<1> QED BY <1>1, <1>9, <1>10, <1>11, ReportKeeps

LEMMA resetEightDKeeps ==
  ASSUME IInv, resetEightDAfterIneffectiveCapa
  PROVE  IInv'
<1>1. PICK texts : texts = report.texts \ {"VALIDATION", "PREVENTION", "RECOGNITION"}
  OBVIOUS
<1>2. report' = [report EXCEPT !.status = "IN_PROGRESS", !.discipline = 5, !.texts = texts,
                   !.actions = << >>, !.implemented = {}]
  BY <1>1 DEF resetEightDAfterIneffectiveCapa
<1>3. PICK status, discipline, actions, implemented :
        /\ status = "IN_PROGRESS" /\ discipline = 5 /\ actions = << >> /\ implemented = {}
  OBVIOUS
<1>4. /\ status \in {"NONE", "DRAFT", "IN_PROGRESS", "COMPLETED"} /\ discipline \in 1..8
      /\ actions \in Plans \cup {<< >>} /\ implemented \in SUBSET ActionIds
  BY <1>3
<1>5. texts \in SUBSET Texts
  BY <1>1, ReportTyped DEF EightDSnapshot
<1>6. report' = [report EXCEPT !.status = status, !.discipline = discipline, !.texts = texts,
                   !.actions = actions, !.implemented = implemented]
  BY <1>2, <1>3
<1>7. report' \in EightDSnapshot /\ report'.status = status /\ report'.discipline = discipline
  BY <1>4, <1>5, <1>6, ReportTyped DEF EightDSnapshot
<1>8. ReportGood(report)'
  BY <1>3, <1>7 DEF ReportGood
<1> QED BY <1>3, <1>7, <1>8, ReportKeeps DEF resetEightDAfterIneffectiveCapa

LEMMA EightDStepKeeps ==
  ASSUME IInv, EightDStep
  PROVE  IInv'
<1>1. ASSUME NEW r \in Closers, ReadEightDGate(r) PROVE IInv'
  <2>1. /\ report.status \in {"NONE", "COMPLETED"} /\ PassGate(r, "EIGHT_D")
        /\ UNCHANGED <<cause, capa, history, doneAs, report>>
    BY <1>1 DEF ReadEightDGate, capaVars
  <2> QED BY <2>1, PassGateKeeps DEF Gates
<1> QED BY <1>1, saveEightDKeeps, advanceEightDKeeps, resetEightDKeeps DEF EightDStep

---------------------------------------------------------------------------
(* All together.                                                           *)

LEMMA StepKeeps == IInv /\ [Next]_vars => IInv'
<1> SUFFICES ASSUME IInv, [Next]_vars PROVE IInv'
  OBVIOUS
<1>1. CASE UNCHANGED vars
  BY <1>1, CauseKeeps DEF vars, IInv, QualityTypeOK, CapaTypeOK
<1> QED BY <1>1, EventStepKeeps, CapaStepKeeps, EightDStepKeeps DEF Next

THEOREM IInvInductive == Spec => []IInv
<1>1. Init => IInv
  <2> SUFFICES ASSUME Init PROVE IInv
    OBVIOUS
  <2>1. EventTypeOK
    BY DEF Init, EventInit, EventTypeOK, QualityEventSnapshot, Closing, NotClosing
  <2>2. CapaTypeOK
    BY DEF Init, CapaInit, CapaTypeOK, RootCauseSnapshot, CapaSnapshot
  <2>3. report \in EightDSnapshot
    BY DEF Init, EightDSnapshot, Texts
  <2>4. CapaGood(capa, doneAs) /\ ReportGood(report) /\ ReportHasCapa
    BY DEF Init, CapaInit, CapaGood, ReportGood, ReportHasCapa
  <2>5. GatesTrue /\ ClosedMeansFinished
    BY DEF Init, EventInit, NotClosing, GatesTrue, ClosedMeansFinished
  <2> QED BY <2>1, <2>2, <2>3, <2>4, <2>5 DEF IInv, QualityTypeOK
<1> QED BY <1>1, StepKeeps, PTL DEF Spec

---------------------------------------------------------------------------

\* Event, root cause, CAPA and report are well typed in every reachable state.
THEOREM QualityTypeCorrect == Spec => []QualityTypeOK
<1>1. IInv => QualityTypeOK
  BY DEF IInv
<1> QED BY <1>1, IInvInductive, PTL

\* A closed CAPA was approved, carried out and found effective, and no action
\* counts as carried out that has changed since.
THEOREM ClosedCapasAreProven == Spec => []ClosedCapaIsProven
<1>1. IInv => ClosedCapaIsProven
  BY CapaNoneAssumption DEF IInv, CapaGood, ClosedCapaIsProven
<1> QED BY <1>1, IInvInductive, PTL

\* Behind a closed event nothing is unfinished, unless a write overtook the
\* request that closed it.
THEOREM ClosedEventsAreFinished == Spec => []ClosedMeansFinished
<1>1. IInv => ClosedMeansFinished
  BY DEF IInv
<1> QED BY <1>1, IInvInductive, PTL

\* From D7 on a report names the corrective actions that were implemented.
THEOREM ReportsNameImplementedActions == Spec => []ReportedActionsWereImplemented
<1>1. IInv => ReportedActionsWereImplemented
  BY DEF IInv, ReportGood, ReportedActionsWereImplemented
<1> QED BY <1>1, IInvInductive, PTL

---------------------------------------------------------------------------
(* Capa implements GovernedPlan.                                           *)

Writes == {"CREATED", "PLAN_UPDATED"}

\* A row of a writer adds the writer to the authors of the draft; a failure and
\* a reopening leave the draft without an author.
LEMMA AuthorsOfMore ==
  ASSUME NEW logs \in Seq(DraftAudit), NEW row \in DraftAudit
  PROVE  currentDraftAuthors(Append(logs, row)) =
           IF row.action \in Writes THEN currentDraftAuthors(logs) \cup {row.actor} ELSE {}
<1> DEFINE more == Append(logs, row)
           n == Len(logs) + 1
<1>1. /\ Len(logs) \in Nat /\ DOMAIN logs = 1..Len(logs) /\ DOMAIN more = 1..n
      /\ more[n] = row /\ \A i \in 1..Len(logs) : more[i] = logs[i]
  OBVIOUS
<1>2. \A i \in DOMAIN more : i \in DOMAIN logs \/ i = n
  BY <1>1
<1>3. row.action \in Writes <=> row.action \notin {"EFFECTIVENESS_FAILED", "REOPENED"}
  BY DEF DraftAudit, Writes
<1> DEFINE Current(l, j) ==
             /\ l[j].action \in Writes
             /\ \A k \in DOMAIN l : k > j => l[k].action \notin {"EFFECTIVENESS_FAILED", "REOPENED"}
<1>4. ASSUME NEW l
      PROVE  currentDraftAuthors(l) = {l[i].actor : i \in {j \in DOMAIN l : Current(l, j)}}
  BY DEF currentDraftAuthors, Writes
<1>5. CASE row.action \in Writes
  <2>1. \A j \in DOMAIN logs : Current(more, j) <=> Current(logs, j)
    BY <1>1, <1>2, <1>3, <1>5
  <2>2. Current(more, n)
    BY <1>1, <1>3, <1>5
  <2>3. {j \in DOMAIN more : Current(more, j)} = {j \in DOMAIN logs : Current(logs, j)} \cup {n}
    BY <1>1, <1>2, <2>1, <2>2
  <2> HIDE DEF Current
  <2>4. ASSUME NEW a
        PROVE  a \in currentDraftAuthors(more) <=> a \in currentDraftAuthors(logs) \cup {row.actor}
    BY <1>1, <1>4, <2>3
  <2> QED BY <1>5, <2>4
<1>6. CASE row.action \notin Writes
  <2>1. \A j \in DOMAIN more : ~Current(more, j)
    BY <1>1, <1>2, <1>3, <1>6
  <2> HIDE DEF Current
  <2>2. \A a : a \notin currentDraftAuthors(more)
    BY <1>4, <2>1
  <2> QED BY <1>6, <2>2
<1> QED BY <1>5, <1>6

LEMMA AuthorsOfRow ==
  ASSUME IInv, NEW action \in {"CREATED", "PLAN_UPDATED", "EFFECTIVENESS_FAILED", "REOPENED"},
         NEW u \in Users, Row(action, u)
  PROVE  currentDraftAuthors(history') =
           IF action \in Writes THEN currentDraftAuthors(history) \cup {u} ELSE {}
<1>1. [action |-> action, actor |-> u] \in DraftAudit
  BY DEF DraftAudit
<1> QED BY <1>1, CapaTyped, AuthorsOfMore DEF Row

\* The steps of the CAPA and what each is to the plan.
LEMMA SavingIsWriting ==
  ASSUME IInv, NEW u \in Users, NEW p \in Plans, saveCapaDraft(u, p)
  PROVE  Governed!Next
<1>1. /\ capa.status \in {"NONE", "DRAFT"}
      /\ capa' = [capa EXCEPT !.status = "DRAFT", !.actions = p,
                              !.done = preserveCompletion(p), !.approvedBy = None]
      /\ Row(IF capa.status = "NONE" THEN "CREATED" ELSE "PLAN_UPDATED", u)
  BY DEF saveCapaDraft
<1>2. capa.approvedBy = None
  BY <1>1, CapaTyped DEF CapaGood
<1>3. PICK done : done = preserveCompletion(p)
  OBVIOUS
<1>4. capa' = [capa EXCEPT !.status = "DRAFT", !.actions = p, !.done = done, !.approvedBy = None]
  BY <1>1, <1>3
<1>5. /\ capa'.status = "DRAFT" /\ capa'.actions = p /\ capa'.done = done
      /\ capa'.approvedBy = None
  BY <1>4, CapaTyped DEF CapaSnapshot
<1>6. currentDraftAuthors(history') = currentDraftAuthors(history) \cup {u}
  <2>1. PICK action \in {"CREATED", "PLAN_UPDATED"} : Row(action, u)
    BY <1>1
  <2> QED BY <2>1, AuthorsOfRow DEF Writes
<1>7. done = Governed!Unrevised(p)
  BY <1>3 DEF preserveCompletion, Governed!Unrevised
<1>8. Governed!Write(u, p)
  BY <1>1, <1>2, <1>5, <1>6, <1>7 DEF Governed!Write, phaseOf
<1> QED BY <1>8 DEF Governed!Next

LEMMA ApprovingIsApproving ==
  ASSUME IInv, NEW u \in Users, approveCapaWithGovernance(u)
  PROVE  Governed!Next
<1>1. /\ capa.status = "DRAFT" /\ DOMAIN capa.actions # {}
      /\ u \notin currentDraftAuthors(history) /\ history' = history
      /\ capa' = [capa EXCEPT !.status = "ACTIVE", !.approvedBy = u]
  BY DEF approveCapaWithGovernance
<1>2. /\ capa'.status = "ACTIVE" /\ capa'.actions = capa.actions /\ capa'.done = capa.done
      /\ capa'.approvedBy = u
  BY <1>1, CapaTyped DEF CapaSnapshot
<1>3. Governed!Approve(u)
  BY <1>1, <1>2 DEF Governed!Approve, phaseOf
<1> QED BY <1>3 DEF Governed!Next

LEMMA CompletingIsCarryingOut ==
  ASSUME IInv, NEW i \in ActionIds, completeCapaAction(i)
  PROVE  Governed!Next
<1>1. PICK done : done = capa.done \cup {i}
  OBVIOUS
<1>2. /\ capa.status = "ACTIVE" /\ i \in DOMAIN capa.actions /\ history' = history
      /\ capa' = [capa EXCEPT !.done = done]
  BY <1>1 DEF completeCapaAction
<1>3. /\ capa'.status = capa.status /\ capa'.actions = capa.actions /\ capa'.done = done
      /\ capa'.approvedBy = capa.approvedBy
  BY <1>2, CapaTyped DEF CapaSnapshot
<1>4. Governed!CarryOut(i)
  BY <1>1, <1>2, <1>3 DEF Governed!CarryOut, phaseOf
<1> QED BY <1>2, <1>4 DEF Governed!Next

LEMMA VerifyingProvesOrWithdraws ==
  ASSUME IInv, NEW u \in Users, NEW result \in {"EFFECTIVE", "INEFFECTIVE"},
         verifyCapaEffectiveness(u, result)
  PROVE  Governed!Next
<1>1. capa.status = "ACTIVE" /\ capa.done = DOMAIN capa.actions
  BY DEF verifyCapaEffectiveness
<1>2. CASE result = "EFFECTIVE"
  <2>1. capa' = [capa EXCEPT !.status = "CLOSED", !.lastCheck = result] /\ history' = history
    BY <1>2 DEF verifyCapaEffectiveness
  <2>2. /\ capa'.status = "CLOSED" /\ capa'.actions = capa.actions /\ capa'.done = capa.done
        /\ capa'.approvedBy = capa.approvedBy
    BY <2>1, CapaTyped DEF CapaSnapshot
  <2>3. Governed!Prove
    BY <1>1, <2>1, <2>2 DEF Governed!Prove, phaseOf
  <2> QED BY <2>3 DEF Governed!Next
<1>3. CASE result # "EFFECTIVE"
  <2>1. /\ capa' = [capa EXCEPT !.status = "DRAFT", !.lastCheck = result, !.approvedBy = None]
        /\ Row("EFFECTIVENESS_FAILED", u)
    BY <1>3 DEF verifyCapaEffectiveness
  <2>2. /\ capa'.status = "DRAFT" /\ capa'.actions = capa.actions /\ capa'.done = capa.done
        /\ capa'.approvedBy = None
    BY <2>1, CapaTyped DEF CapaSnapshot
  <2>3. currentDraftAuthors(history') = {}
    BY <2>1, AuthorsOfRow DEF Writes
  <2>4. Governed!Withdraw
    BY <1>1, <2>2, <2>3 DEF Governed!Withdraw, phaseOf
  <2> QED BY <2>4 DEF Governed!Next
<1> QED BY <1>2, <1>3

LEMMA ReopeningWithdraws ==
  ASSUME IInv, NEW u \in Users, reopenCapa(u)
  PROVE  Governed!Next
<1>1. /\ capa.status = "CLOSED" /\ Row("REOPENED", u)
      /\ capa' = [capa EXCEPT !.status = "DRAFT", !.approvedBy = None]
  BY DEF reopenCapa
<1>2. /\ capa'.status = "DRAFT" /\ capa'.actions = capa.actions /\ capa'.done = capa.done
      /\ capa'.approvedBy = None
  BY <1>1, CapaTyped DEF CapaSnapshot
<1>3. currentDraftAuthors(history') = {}
  BY <1>1, AuthorsOfRow DEF Writes
<1>4. Governed!Withdraw
  BY <1>1, <1>2, <1>3 DEF Governed!Withdraw, phaseOf
<1> QED BY <1>4 DEF Governed!Next

\* Whatever leaves the CAPA and its rows alone leaves the plan alone.
LEMMA OthersStutter ==
  ASSUME UNCHANGED <<capa, history>>
  PROVE  UNCHANGED Governed!governed
BY DEF Governed!governed, phaseOf

LEMMA StepIsGoverned == IInv /\ [Next]_vars => [Governed!Next]_(Governed!governed)
<1> SUFFICES ASSUME IInv, [Next]_vars PROVE [Governed!Next]_(Governed!governed)
  OBVIOUS
<1>1. CASE UNCHANGED vars
  BY <1>1, OthersStutter DEF vars
<1>2. CASE EventStep /\ UNCHANGED <<capaVars, report>>
  BY <1>2, OthersStutter DEF capaVars
<1>3. CASE EightDStep
  <2>1. UNCHANGED capaVars
    BY <1>3 DEF EightDStep, saveEightDWorkspace, advanceEightD, resetEightDAfterIneffectiveCapa,
                ReadEightDGate
  <2> QED BY <2>1, OthersStutter DEF capaVars
<1>4. CASE CapaStep
  <2>1. ASSUME \/ \E s \in Findings \cup {None} : saveRootCauseWorkspace(s)
               \/ confirmRootCauseWorkspace
               \/ reopenRootCauseWorkspace
               \/ \E r \in Closers : ReadCapaGate(r)
        PROVE  UNCHANGED <<capa, history>>
    BY <2>1 DEF saveRootCauseWorkspace, confirmRootCauseWorkspace, reopenRootCauseWorkspace,
                ReadCapaGate, capaVars
  <2> QED BY <1>4, <2>1, OthersStutter, SavingIsWriting, ApprovingIsApproving,
             CompletingIsCarryingOut, VerifyingProvesOrWithdraws, ReopeningWithdraws DEF CapaStep, RootCauseStep
<1> QED BY <1>1, <1>2, <1>3, <1>4 DEF Next

\* The CAPA implements GovernedPlan: nobody approves a draft they wrote, and an
\* approved plan stays until all of it is carried out and verified.
THEOREM PlansAreGoverned == Spec => PlanIsGoverned
<1>1. Init => Governed!Init
  <2> SUFFICES ASSUME Init PROVE Governed!Init
    OBVIOUS
  <2>1. currentDraftAuthors(history) = {}
    BY DEF Init, CapaInit, currentDraftAuthors
  <2> QED BY <2>1 DEF Init, CapaInit, Governed!Init, phaseOf
<1> QED BY <1>1, StepIsGoverned, IInvInductive, PTL DEF Spec, PlanIsGoverned, Governed!Spec
============================================================================
