-------------------------- MODULE DocumentProofs --------------------------
(***************************************************************************)
(* Proofs about DocumentControl, for any revisions, approvers and requests *)
(* at work at one time, about StoredFiles, for any records, contents and   *)
(* uploads at one time, and about DocumentSearch, for any revisions,       *)
(* rankings, limits, indexing requests and searches at one time.           *)
(***************************************************************************)
EXTENDS DocumentControl, StoredFiles, DocumentSearch, FiniteSetTheorems, TLAPS

\* Approval of the revision has been requested; it has rows from then on.
Routed(r) == \E u \in Approvers : approval[r][u] # "NONE"

\* A round that all its approvers approved is on record.
RoundsRecorded == \A r \in Revisions : Routed(r) /\ Remaining(r) = {} => r \in unanimous

\* What a handler has found out stays true until it writes.
Justified(j) ==
    /\ j.op = "REQUEST" => j.approvers # {}
    /\ j.op = "DECIDE" => Routed(j.rev)
    /\ j.op = "DECIDE" /\ j.stage = "COUNTED" => j.rev \in unanimous
    /\ j.op = "ACTIVATE" => j.prior \subseteq unanimous
    /\ j.op = "ACTIVATE" /\ j.stage # "CHOSEN" => j.rev \in unanimous

JobsJustified == \A h \in Handlers : job[h] # None => Justified(job[h])

IInv ==
    /\ DocumentTypeOK
    /\ ReleasedWasApproved
    /\ RoundsRecorded
    /\ JobsJustified

---------------------------------------------------------------------------
(* What a step may do to the work at hand and to the rows.                 *)

\* What is justified stays so as long as rows are not all taken away.
LEMMA StaysJustified ==
  ASSUME unanimous \subseteq unanimous',
         NEW j \in Job, Justified(j),
         \A r \in Revisions : Routed(r) => Routed(r)'
  PROVE  Justified(j)'
<1>1. j.rev \in Revisions
  BY DEF Job
<1>. QED
  BY <1>1 DEF Justified

\* A step of one handler keeps the invariant if what it goes on with is
\* justified and the rows it writes are.
LEMMA HandlerStep ==
  ASSUME IInv,
         NEW h \in Handlers, NEW j \in Job \cup {None},
         job' = [job EXCEPT ![h] = j],
         overlaps' \in 0..MaxOverlaps,
         j # None => Justified(j)',
         revision' \in [Revisions -> Revision],
         approval' \in [Revisions -> [Approvers -> Decision]],
         read' \in [Readers -> [Revisions -> Seq(Files)]],
         unanimous' \subseteq Revisions,
         unanimous \subseteq unanimous',
         \A r \in Revisions : Routed(r) => Routed(r)',
         ReleasedWasApproved', RoundsRecorded'
  PROVE  IInv'
<1>1. job \in [Handlers -> Job \cup {None}] /\ JobsJustified
  BY DEF IInv, DocumentTypeOK
<1>2. job' \in [Handlers -> Job \cup {None}]
  BY <1>1
<1>3. ASSUME NEW g \in Handlers, NEW k \in Job, job'[g] = k, k # None PROVE Justified(k)'
  <2>1. CASE g = h
    BY <1>1, <1>3, <2>1
  <2>2. CASE g # h
    <3>1. k = job[g]
      BY <1>1, <1>3, <2>2
    <3>2. Justified(k)
      BY <1>1, <1>3, <3>1 DEF JobsJustified
    <3>. QED
      BY <3>2, StaysJustified
  <2>. QED
    BY <2>1, <2>2
<1>4. JobsJustified'
  <2>1. SUFFICES ASSUME NEW g \in Handlers, job'[g] # None PROVE Justified(job[g])'
    BY DEF JobsJustified
  <2>2. PICK k \in Job : k = job'[g]
    BY <1>2, <2>1
  <2>3. Justified(k)'
    BY <1>3, <2>1, <2>2
  <2>. QED
    BY <2>2, <2>3 DEF Justified
<1>5. DocumentTypeOK'
  BY <1>2 DEF DocumentTypeOK
<1>. QED
  BY <1>4, <1>5 DEF IInv

\* A step that reads writes nothing but the note of what it read.
LEMMA ReadStep ==
  ASSUME IInv,
         NEW h \in Handlers, NEW j \in Job \cup {None},
         job' = [job EXCEPT ![h] = j],
         overlaps' \in 0..MaxOverlaps,
         j # None => Justified(j),
         Reads
  PROVE  IInv'
<1>1. /\ revision' = revision /\ approval' = approval /\ read' = read
      /\ unanimous' = unanimous
  BY DEF Reads, rows
<1>2. \A r \in Revisions : Routed(r) => Routed(r)'
  BY <1>1 DEF Routed
<1>3. ReleasedWasApproved' /\ RoundsRecorded'
  BY <1>1 DEF IInv, ReleasedWasApproved, RoundsRecorded, Routed, Remaining
<1>4. j # None => Justified(j)'
  BY <1>1 DEF Justified, Routed
<1>5. DocumentTypeOK
  BY DEF IInv
<1>. QED
  BY <1>1, <1>2, <1>3, <1>4, <1>5, HandlerStep DEF DocumentTypeOK

LEMMA BeginStep ==
  ASSUME IInv, NEW h \in Handlers, NEW j \in Job, Justified(j), Begins(h, j), Reads
  PROVE  IInv'
<1>1. overlaps \in 0..MaxOverlaps
  BY DEF IInv, DocumentTypeOK
<1>2. overlaps' \in 0..MaxOverlaps
  BY <1>1, OverlapAssumption DEF Begins
<1>. QED
  BY <1>2, ReadStep DEF Begins

LEMMA GoStep ==
  ASSUME IInv, NEW h \in Handlers, NEW j \in Job \cup {None},
         j # None => Justified(j), Goes(h, j), Reads
  PROVE  IInv'
<1>1. overlaps' \in 0..MaxOverlaps
  BY DEF IInv, DocumentTypeOK, Goes
<1>. QED
  BY <1>1, ReadStep DEF Goes

\* A step that writes a revision leaves the approvals.
LEMMA RevisionStep ==
  ASSUME IInv, NEW h \in Handlers, NEW j \in Job \cup {None},
         j # None => Justified(j), Goes(h, j),
         revision' \in [Revisions -> Revision],
         ReleasedWasApproved',
         UNCHANGED <<approval, read, unanimous>>
  PROVE  IInv'
<1>1. overlaps' \in 0..MaxOverlaps /\ DocumentTypeOK
  BY DEF IInv, DocumentTypeOK, Goes
<1>2. \A r \in Revisions : Routed(r) => Routed(r)'
  BY DEF Routed
<1>3. RoundsRecorded'
  BY DEF IInv, RoundsRecorded, Routed, Remaining
<1>4. j # None => Justified(j)'
  BY DEF Justified, Routed
<1>. QED
  BY <1>1, <1>2, <1>3, <1>4, HandlerStep DEF Goes, DocumentTypeOK

---------------------------------------------------------------------------
(* The actions.                                                            *)

LEMMA KindOfJob ==
  ASSUME NEW j \in Job
  PROVE  /\ j.rev \in Revisions
         /\ j.op = "REQUEST" => j \in [op: {"REQUEST"}, rev: Revisions,
                                       approvers: SUBSET Approvers, late: BOOLEAN]
         /\ j.op = "DECIDE" => j \in [op: {"DECIDE"}, rev: Revisions, approver: Approvers,
                                      decision: {"APPROVED", "REJECTED"},
                                      stage: {"READ", "DECIDED", "COUNTED"}]
         /\ j.op = "ATTACH" => j.file \in Files
         /\ j.op = "SCHEDULE" => j.date \in Dates
         /\ j.op = "ACTIVATE" => j \in [op: {"ACTIVATE"}, rev: Revisions, asOf: Dates,
                                        prior: SUBSET Revisions,
                                        stage: {"CHOSEN", "READ", "LISTED"},
                                        reconciling: BOOLEAN]
         /\ j.op = "ACKNOWLEDGE" => j.reader \in Readers /\ j.file \in Files
BY DEF Job

\* The work of a handler that acts.
LEMMA JobAtHand ==
  ASSUME IInv, NEW h \in Handlers, NEW op, At(h, op)
  PROVE  \E j \in Job : j = job[h] /\ Justified(j) /\ j.op = op
BY DEF IInv, DocumentTypeOK, JobsJustified, At

\* A revision gets a status that is not released, or that it has earned.
LEMMA StatusStep ==
  ASSUME IInv, NEW h \in Handlers, NEW r \in Revisions, NEW status \in Status,
         status \in Released => r \in unanimous,
         Becomes(r, status),
         UNCHANGED <<approval, read, unanimous>>, Ends(h)
  PROVE  IInv'
<1>1. revision \in [Revisions -> Revision] /\ ReleasedWasApproved
  BY DEF IInv, DocumentTypeOK
<1>2. revision' \in [Revisions -> Revision]
  BY <1>1 DEF Becomes, Revision
<1>3. ASSUME NEW s \in Revisions, s # r PROVE revision'[s] = revision[s]
  BY <1>1, <1>3 DEF Becomes
<1>4. revision'[r].status = status
  BY <1>1 DEF Becomes, Revision
<1>5. ReleasedWasApproved'
  BY <1>1, <1>3, <1>4 DEF ReleasedWasApproved
<1>. QED
  BY <1>2, <1>5, RevisionStep DEF Ends

\* Drafting touches neither approvals nor a released revision's status.
LEMMA DraftSteps == IInv /\ DraftStep => IInv'
<1>. SUFFICES ASSUME IInv, DraftStep PROVE IInv'
  OBVIOUS
<1>1. DocumentTypeOK /\ ReleasedWasApproved
  BY DEF IInv
<1>2. ASSUME NEW r \in Revisions, CreateRevision(r) PROVE IInv'
  <2>1. revision' \in [Revisions -> Revision]
    BY <1>1, <1>2 DEF CreateRevision, Becomes, DocumentTypeOK, Revision, Status
  <2>2. ASSUME NEW s \in Revisions, s # r PROVE revision'[s] = revision[s]
    BY <1>1, <1>2, <2>2 DEF CreateRevision, Becomes, DocumentTypeOK
  <2>3. revision'[r].status = "DRAFT"
    BY <1>1, <1>2 DEF CreateRevision, Becomes, DocumentTypeOK, Revision
  <2>4. ReleasedWasApproved'
    BY <1>1, <1>2, <2>2, <2>3 DEF ReleasedWasApproved, Released, CreateRevision
  <2>5. RoundsRecorded'
    BY <1>2 DEF IInv, RoundsRecorded, Routed, Remaining, CreateRevision
  <2>6. JobsJustified'
    BY <1>2 DEF IInv, JobsJustified, Justified, Routed, CreateRevision
  <2>7. DocumentTypeOK'
    BY <1>1, <1>2, <2>1 DEF DocumentTypeOK, CreateRevision
  <2>. QED
    BY <2>4, <2>5, <2>6, <2>7 DEF IInv
<1>3. ASSUME NEW h \in Handlers, NEW r \in Revisions, NEW f \in Files, ReadForAttach(h, r, f)
      PROVE  IInv'
  <2>. DEFINE j == [op |-> "ATTACH", rev |-> r, file |-> f]
  <2>1. j \in Job /\ Justified(j)
    BY DEF Job, Justified
  <2>. QED
    BY <1>3, <2>1, BeginStep DEF ReadForAttach
<1>4. ASSUME NEW h \in Handlers, Attach(h) PROVE IInv'
  <2>1. PICK j \in Job : j = job[h] /\ j.op = "ATTACH"
    BY <1>4, JobAtHand DEF Attach
  <2>2. j.rev \in Revisions /\ j.file \in Files
    BY <2>1, KindOfJob
  <2>3. revision' = [revision EXCEPT ![j.rev].file = j.file]
    BY <1>4, <2>1 DEF Attach
  <2>4. revision' \in [Revisions -> Revision]
    BY <1>1, <2>2, <2>3 DEF DocumentTypeOK, Revision
  <2>5. \A s \in Revisions : revision'[s].status = revision[s].status
    BY <1>1, <2>2, <2>3 DEF DocumentTypeOK, Revision
  <2>6. ReleasedWasApproved'
    BY <1>1, <1>4, <2>5 DEF ReleasedWasApproved, Attach
  <2>. QED
    BY <1>4, <2>4, <2>6, RevisionStep DEF Attach, Ends
<1>5. ASSUME NEW h \in Handlers, NEW r \in Revisions, ReadForSubmit(h, r) PROVE IInv'
  <2>. DEFINE j == [op |-> "SUBMIT", rev |-> r]
  <2>1. j \in Job /\ Justified(j)
    BY DEF Job, Justified
  <2>. QED
    BY <1>5, <2>1, BeginStep DEF ReadForSubmit
<1>6. ASSUME NEW h \in Handlers, Submit(h) PROVE IInv'
  <2>1. job[h].rev \in Revisions
    BY <1>6, JobAtHand, KindOfJob DEF Submit
  <2>. QED
    BY <1>6, <2>1, StatusStep DEF Submit, Status, Released
<1>. QED
  BY <1>2, <1>3, <1>4, <1>5, <1>6 DEF DraftStep

\* A new round, in place of the last one: nobody in it has decided.
LEMMA RequestStep == ASSUME IInv, NEW h \in Handlers, Request(h) PROVE IInv'
<1>1. PICK j \in Job : j = job[h] /\ j.op = "REQUEST" /\ Justified(j)
  BY JobAtHand DEF Request
<1>2. j.rev \in Revisions /\ j.approvers \subseteq Approvers /\ j.approvers # {}
  BY <1>1, KindOfJob DEF Justified
<1>3. DocumentTypeOK /\ ReleasedWasApproved /\ RoundsRecorded /\ JobsJustified
  BY DEF IInv
<1>4. approval' = [approval EXCEPT ![j.rev] = NewRound(j.rev, j.approvers)]
  BY <1>1 DEF Request
<1>5. approval' \in [Revisions -> [Approvers -> Decision]]
  <2>1. NewRound(j.rev, j.approvers) \in [Approvers -> Decision]
    BY DEF NewRound, Decision
  <2>. QED
    BY <1>3, <1>4, <2>1 DEF DocumentTypeOK
<1>6. /\ \A s \in Revisions \ {j.rev} : approval'[s] = approval[s]
      /\ \A u \in Approvers :
            approval'[j.rev][u] = IF u \in j.approvers THEN "PENDING" ELSE "NONE"
  BY <1>2, <1>3, <1>4 DEF DocumentTypeOK, NewRound
<1>7. PICK v \in Approvers : v \in j.approvers
  BY <1>2
<1>8. \A r \in Revisions : Routed(r) => Routed(r)'
  <2>1. Routed(j.rev)'
    BY <1>2, <1>6, <1>7 DEF Routed
  <2>. QED
    BY <1>6, <2>1 DEF Routed
<1>9. RoundsRecorded'
  <2>1. ASSUME NEW s \in Revisions \ {j.rev}, Routed(s)', Remaining(s)' = {} PROVE s \in unanimous'
    <3>1. Routed(s) /\ Remaining(s) = {}
      BY <1>6, <2>1 DEF Routed, Remaining
    <3>. QED
      BY <1>3, <3>1 DEF RoundsRecorded, Request
  <2>2. v \in Remaining(j.rev)'
    BY <1>2, <1>6, <1>7 DEF Remaining
  <2>. QED
    BY <2>1, <2>2 DEF RoundsRecorded
<1>10. ASSUME NEW g \in Handlers
       PROVE  \/ job'[g] = None
              \/ job'[g] = job[g]
              \/ At(g, "REQUEST") /\ job'[g] = [job[g] EXCEPT !.late = TRUE]
  BY <1>3 DEF Request, DocumentTypeOK
<1>11. ASSUME NEW g \in Handlers, job'[g] # None
       PROVE  \E k \in Job : k = job'[g] /\ Justified(k)
  <2>1. CASE job'[g] = job[g]
    BY <1>3, <1>11, <2>1 DEF DocumentTypeOK, JobsJustified
  <2>2. CASE At(g, "REQUEST") /\ job'[g] = [job[g] EXCEPT !.late = TRUE]
    <3>1. PICK k \in Job : k = job[g] /\ k.op = "REQUEST" /\ Justified(k)
      BY <2>2, JobAtHand
    <3>2. k \in [op: {"REQUEST"}, rev: Revisions, approvers: SUBSET Approvers, late: BOOLEAN]
      BY <3>1, KindOfJob
    <3>3. PICK l : l = [k EXCEPT !.late = TRUE]
      OBVIOUS
    <3>4. l \in [op: {"REQUEST"}, rev: Revisions, approvers: SUBSET Approvers, late: BOOLEAN]
      BY <3>2, <3>3
    <3>5. l.op = "REQUEST" /\ l.approvers = k.approvers
      BY <3>2, <3>3
    <3>6. l \in Job /\ Justified(l)
      BY <3>1, <3>4, <3>5 DEF Job, Justified
    <3>. QED
      BY <2>2, <3>1, <3>3, <3>6
  <2>. QED
    BY <1>10, <1>11, <2>1, <2>2
<1>12. DOMAIN job' = Handlers /\ job' = [g \in Handlers |-> job'[g]]
  BY DEF Request
<1>13. job' \in [Handlers -> Job \cup {None}]
  BY <1>11, <1>12
<1>14. JobsJustified'
  <2>1. SUFFICES ASSUME NEW g \in Handlers, job'[g] # None PROVE Justified(job[g])'
    BY DEF JobsJustified
  <2>2. PICK k \in Job : k = job'[g] /\ Justified(k)
    BY <1>11, <2>1
  <2>3. unanimous \subseteq unanimous'
    BY DEF Request
  <2>4. Justified(k)'
    BY <1>8, <2>2, <2>3, StaysJustified
  <2>. QED
    BY <2>2, <2>4 DEF Justified
<1>15. ReleasedWasApproved'
  BY <1>3 DEF ReleasedWasApproved, Request
<1>16. DocumentTypeOK'
  BY <1>3, <1>5, <1>13 DEF DocumentTypeOK, Request
<1>. QED
  BY <1>9, <1>14, <1>15, <1>16 DEF IInv

\* A round is added to one.
LEMMA AddToRoundStep == ASSUME IInv, NEW h \in Handlers, AddToRound(h) PROVE IInv'
<1>1. PICK j \in Job : j = job[h] /\ j.op = "REQUEST" /\ Justified(j)
  BY JobAtHand DEF AddToRound
<1>2. j.rev \in Revisions /\ j.approvers \subseteq Approvers /\ j.approvers # {}
  BY <1>1, KindOfJob DEF Justified
<1>3. DocumentTypeOK /\ ReleasedWasApproved /\ RoundsRecorded
  BY DEF IInv
<1>4. approval' = [approval EXCEPT ![j.rev] = [u \in Approvers |->
                     IF u \in j.approvers THEN "PENDING" ELSE approval[j.rev][u]]]
  BY <1>1 DEF AddToRound
<1>5. approval' \in [Revisions -> [Approvers -> Decision]]
  <2>1. [u \in Approvers |-> IF u \in j.approvers THEN "PENDING" ELSE approval[j.rev][u]]
          \in [Approvers -> Decision]
    BY <1>2, <1>3 DEF DocumentTypeOK, Decision
  <2>. QED
    BY <1>3, <1>4, <2>1 DEF DocumentTypeOK
<1>6. /\ \A s \in Revisions \ {j.rev} : approval'[s] = approval[s]
      /\ \A u \in Approvers :
            approval'[j.rev][u] = IF u \in j.approvers THEN "PENDING" ELSE approval[j.rev][u]
  BY <1>2, <1>3, <1>4 DEF DocumentTypeOK
<1>7. PICK v \in Approvers : v \in j.approvers
  BY <1>2
<1>8. \A r \in Revisions : Routed(r) => Routed(r)'
  <2>1. Routed(j.rev)'
    BY <1>2, <1>6, <1>7 DEF Routed
  <2>. QED
    BY <1>6, <2>1 DEF Routed
<1>9. RoundsRecorded'
  <2>1. ASSUME NEW s \in Revisions \ {j.rev}, Routed(s)', Remaining(s)' = {} PROVE s \in unanimous'
    <3>1. Routed(s) /\ Remaining(s) = {}
      BY <1>6, <2>1 DEF Routed, Remaining
    <3>. QED
      BY <1>3, <3>1 DEF RoundsRecorded, AddToRound
  <2>2. v \in Remaining(j.rev)'
    BY <1>2, <1>6, <1>7 DEF Remaining
  <2>. QED
    BY <2>1, <2>2 DEF RoundsRecorded
<1>10. ReleasedWasApproved'
  BY <1>3 DEF ReleasedWasApproved, AddToRound
<1>. QED
  BY <1>3, <1>5, <1>8, <1>9, <1>10, HandlerStep
     DEF AddToRound, Ends, Goes, DocumentTypeOK

\* A decision; the last one puts the round on record.
LEMMA DecideStep == ASSUME IInv, NEW h \in Handlers, Decide(h) PROVE IInv'
<1>1. PICK j \in Job : j = job[h] /\ j.op = "DECIDE" /\ Justified(j) /\ j.stage = "READ"
  BY JobAtHand DEF Decide, AtStage
<1>2. j \in [op: {"DECIDE"}, rev: Revisions, approver: Approvers,
             decision: {"APPROVED", "REJECTED"}, stage: {"READ", "DECIDED", "COUNTED"}]
  BY <1>1, KindOfJob
<1>3. DocumentTypeOK /\ ReleasedWasApproved /\ RoundsRecorded
  BY DEF IInv
<1>4. PICK k : k = [j EXCEPT !.stage = "DECIDED"]
  OBVIOUS
<1>5. /\ k \in [op: {"DECIDE"}, rev: Revisions, approver: Approvers,
                decision: {"APPROVED", "REJECTED"}, stage: {"READ", "DECIDED", "COUNTED"}]
      /\ k.op = "DECIDE" /\ k.rev = j.rev /\ k.stage = "DECIDED"
  BY <1>2, <1>4
<1>6. k \in Job /\ Justified(k)
  BY <1>1, <1>5 DEF Job, Justified
<1>7. /\ approval' = [approval EXCEPT ![j.rev][j.approver] = j.decision]
      /\ unanimous' = IF \A u \in Approvers : approval'[j.rev][u] \in {"NONE", "APPROVED"}
                      THEN unanimous \cup {j.rev} ELSE unanimous
      /\ job' = [job EXCEPT ![h] = k]
  BY <1>1, <1>4 DEF Decide, Goes
<1>8. approval' \in [Revisions -> [Approvers -> Decision]]
  BY <1>2, <1>3, <1>7 DEF DocumentTypeOK, Decision
<1>9. /\ \A s \in Revisions \ {j.rev} : approval'[s] = approval[s]
      /\ \A u \in Approvers \ {j.approver} : approval'[j.rev][u] = approval[j.rev][u]
      /\ approval'[j.rev][j.approver] = j.decision
  BY <1>2, <1>3, <1>7 DEF DocumentTypeOK
<1>10. \A r \in Revisions : Routed(r) => Routed(r)'
  <2>1. Routed(j.rev)'
    BY <1>2, <1>9 DEF Routed
  <2>. QED
    BY <1>9, <2>1 DEF Routed
<1>11. unanimous \subseteq unanimous' /\ unanimous' \subseteq Revisions
  BY <1>2, <1>3, <1>7 DEF DocumentTypeOK
<1>12. RoundsRecorded'
  <2>1. ASSUME NEW s \in Revisions \ {j.rev}, Routed(s)', Remaining(s)' = {} PROVE s \in unanimous'
    <3>1. Routed(s) /\ Remaining(s) = {}
      BY <1>9, <2>1 DEF Routed, Remaining
    <3>. QED
      BY <1>3, <1>11, <3>1 DEF RoundsRecorded
  <2>2. ASSUME Remaining(j.rev)' = {} PROVE j.rev \in unanimous'
    BY <1>7, <2>2 DEF Remaining
  <2>. QED
    BY <2>1, <2>2 DEF RoundsRecorded
<1>13. ReleasedWasApproved'
  BY <1>3, <1>11 DEF ReleasedWasApproved, Decide
<1>14. Justified(k)'
  BY <1>6, <1>10, <1>11, StaysJustified
<1>. QED
  BY <1>3, <1>6, <1>7, <1>8, <1>10, <1>11, <1>12, <1>13, <1>14, HandlerStep
     DEF Decide, Goes, DocumentTypeOK

\* Approval rounds keep the invariant.
LEMMA ApprovalSteps == IInv /\ ApprovalStep => IInv'
<1>. SUFFICES ASSUME IInv, NEW h \in Handlers,
        \/ \E r \in Revisions, A \in SUBSET Approvers : ReadForRequest(h, r, A)
        \/ Request(h)
        \/ AddToRound(h)
        \/ \E r \in Revisions, u \in Approvers, decision \in {"APPROVED", "REJECTED"} :
                ReadForDecision(h, r, u, decision)
        \/ Decide(h)
        \/ ReturnToDraft(h)
        \/ CountRemaining(h)
        \/ Approve(h)
     PROVE IInv'
  BY DEF ApprovalStep
<1>1. DocumentTypeOK /\ ReleasedWasApproved /\ RoundsRecorded
  BY DEF IInv
<1>2. ASSUME NEW r \in Revisions, NEW A \in SUBSET Approvers, ReadForRequest(h, r, A)
      PROVE  IInv'
  <2>. DEFINE j == [op |-> "REQUEST", rev |-> r, approvers |-> A, late |-> FALSE]
  <2>1. j \in Job /\ Justified(j)
    BY <1>2 DEF Job, Justified, ReadForRequest
  <2>. QED
    BY <1>2, <2>1, BeginStep DEF ReadForRequest
<1>3. ASSUME NEW r \in Revisions, NEW u \in Approvers, NEW decision \in {"APPROVED", "REJECTED"},
             ReadForDecision(h, r, u, decision)
      PROVE  IInv'
  <2>. DEFINE j == [op |-> "DECIDE", rev |-> r, approver |-> u, decision |-> decision,
                    stage |-> "READ"]
  <2>1. j \in Job /\ Justified(j)
    BY <1>3 DEF Job, Justified, ReadForDecision, Routed
  <2>. QED
    BY <1>3, <2>1, BeginStep DEF ReadForDecision
<1>4. ASSUME ReturnToDraft(h) PROVE IInv'
  <2>1. PICK j \in Job : j = job[h] /\ j.op = "DECIDE"
    BY <1>4, JobAtHand DEF ReturnToDraft, AtStage
  <2>2. j.rev \in Revisions
    BY KindOfJob
  <2>3. revision' = [revision EXCEPT ![j.rev].status = "DRAFT", ![j.rev].effectiveAt = None]
    BY <1>4, <2>1 DEF ReturnToDraft
  <2>4. revision' \in [Revisions -> Revision]
    BY <1>1, <2>2, <2>3 DEF DocumentTypeOK, Revision, Status
  <2>5. \A s \in Revisions : revision'[s].status = IF s = j.rev THEN "DRAFT" ELSE revision[s].status
    BY <1>1, <2>2, <2>3 DEF DocumentTypeOK, Revision
  <2>6. ReleasedWasApproved'
    BY <1>1, <1>4, <2>5 DEF ReleasedWasApproved, Released, ReturnToDraft
  <2>. QED
    BY <1>4, <2>4, <2>6, RevisionStep DEF ReturnToDraft, Ends
<1>5. ASSUME CountRemaining(h) PROVE IInv'
  <2>1. PICK j \in Job : j = job[h] /\ j.op = "DECIDE" /\ Justified(j) /\ j.stage = "DECIDED"
    BY <1>5, JobAtHand DEF CountRemaining, AtStage
  <2>2. CASE Remaining(j.rev) = {}
    <3>1. j \in [op: {"DECIDE"}, rev: Revisions, approver: Approvers,
                 decision: {"APPROVED", "REJECTED"}, stage: {"READ", "DECIDED", "COUNTED"}]
      BY <2>1, KindOfJob
    <3>2. j.rev \in unanimous
      BY <1>1, <2>1, <2>2, <3>1 DEF Justified, RoundsRecorded
    <3>3. PICK k : k = [j EXCEPT !.stage = "COUNTED"]
      OBVIOUS
    <3>4. /\ k \in [op: {"DECIDE"}, rev: Revisions, approver: Approvers,
                    decision: {"APPROVED", "REJECTED"}, stage: {"READ", "DECIDED", "COUNTED"}]
          /\ k.op = "DECIDE" /\ k.rev = j.rev
      BY <3>1, <3>3
    <3>5. k \in Job /\ Justified(k)
      BY <2>1, <3>2, <3>4 DEF Job, Justified
    <3>6. Goes(h, k) /\ Reads
      BY <1>5, <2>1, <2>2, <3>3 DEF CountRemaining
    <3>. QED
      BY <3>5, <3>6, GoStep
  <2>3. CASE Remaining(j.rev) # {}
    BY <1>5, <2>1, <2>3, GoStep DEF CountRemaining, Ends
  <2>. QED
    BY <2>2, <2>3
<1>6. ASSUME Approve(h) PROVE IInv'
  <2>1. PICK j \in Job : j = job[h] /\ j.op = "DECIDE" /\ Justified(j) /\ j.stage = "COUNTED"
    BY <1>6, JobAtHand DEF Approve, AtStage
  <2>2. j.rev \in Revisions /\ j.rev \in unanimous
    BY <2>1, KindOfJob DEF Justified
  <2>3. Becomes(j.rev, "APPROVED") /\ Ends(h) /\ UNCHANGED <<approval, read, unanimous>>
    BY <1>6, <2>1 DEF Approve
  <2>. QED
    BY <2>2, <2>3, StatusStep DEF Status
<1>. QED
  BY <1>2, <1>3, <1>4, <1>5, <1>6, RequestStep, AddToRoundStep, DecideStep

\* What comes into force, and what it replaces, had been approved.
LEMMA ReleaseSteps == IInv /\ ReleaseStep => IInv'
<1>. SUFFICES ASSUME IInv, NEW h \in Handlers,
        \/ \E r \in Revisions, date \in Dates : ReadForSchedule(h, r, date)
        \/ \E now \in Dates : Schedule(h, now)
        \/ \E r \in Revisions, asOf \in Dates : Reconcile(h, r, asOf)
        \/ ReadForActivation(h)
        \/ ListPrior(h)
        \/ Activate(h)
     PROVE IInv'
  BY DEF ReleaseStep
<1>. DEFINE ActivateJob == [op: {"ACTIVATE"}, rev: Revisions, asOf: Dates,
                            prior: SUBSET Revisions, stage: {"CHOSEN", "READ", "LISTED"},
                            reconciling: BOOLEAN]
<1>1. DocumentTypeOK /\ ReleasedWasApproved
  BY DEF IInv
<1>2. ASSUME NEW r \in Revisions, NEW asOf \in Dates, NEW b \in BOOLEAN
      PROVE  Activation(r, asOf, b) \in Job /\ Justified(Activation(r, asOf, b))
  BY DEF Activation, Job, Justified
<1>3. ASSUME NEW r \in Revisions, NEW date \in Dates, ReadForSchedule(h, r, date) PROVE IInv'
  <2>. DEFINE j == [op |-> "SCHEDULE", rev |-> r, date |-> date]
  <2>1. j \in Job /\ Justified(j)
    BY DEF Job, Justified
  <2>. QED
    BY <1>3, <2>1, BeginStep DEF ReadForSchedule
<1>4. ASSUME NEW now \in Dates, Schedule(h, now) PROVE IInv'
  <2>1. PICK j \in Job : j = job[h] /\ j.op = "SCHEDULE"
    BY <1>4, JobAtHand DEF Schedule
  <2>2. j.rev \in Revisions /\ j.date \in Dates
    BY <2>1, KindOfJob
  <2>3. revision' = [revision EXCEPT ![j.rev].effectiveAt = j.date]
    BY <1>4, <2>1 DEF Schedule
  <2>4. revision' \in [Revisions -> Revision]
    BY <1>1, <2>2, <2>3 DEF DocumentTypeOK, Revision
  <2>5. \A s \in Revisions : revision'[s].status = revision[s].status
    BY <1>1, <2>2, <2>3 DEF DocumentTypeOK, Revision
  <2>6. ReleasedWasApproved' /\ UNCHANGED <<approval, read, unanimous>>
    BY <1>1, <1>4, <2>5 DEF ReleasedWasApproved, Schedule
  <2>7. Goes(h, Activation(j.rev, now, FALSE)) \/ Goes(h, None)
    BY <1>4, <2>1 DEF Schedule, Ends
  <2>8. CASE Goes(h, Activation(j.rev, now, FALSE))
    <3>1. PICK k \in Job : k = Activation(j.rev, now, FALSE) /\ Justified(k)
      BY <1>2, <2>2
    <3>. QED
      BY <2>4, <2>6, <2>8, <3>1, RevisionStep
  <2>9. CASE Goes(h, None)
    BY <2>4, <2>6, <2>9, RevisionStep
  <2>. QED
    BY <2>7, <2>8, <2>9
<1>5. ASSUME NEW r \in Revisions, NEW asOf \in Dates, Reconcile(h, r, asOf) PROVE IInv'
  <2>1. PICK k \in Job : k = Activation(r, asOf, TRUE) /\ Justified(k)
    BY <1>2
  <2>. QED
    BY <1>5, <2>1, BeginStep DEF Reconcile
<1>6. ASSUME ReadForActivation(h) PROVE IInv'
  <2>1. PICK j \in Job : j = job[h] /\ j.op = "ACTIVATE" /\ Justified(j)
    BY <1>6, JobAtHand DEF ReadForActivation, AtStage
  <2>2. j \in ActivateJob
    BY <2>1, KindOfJob
  <2>3. PICK k : k = [j EXCEPT !.stage = "READ"]
    OBVIOUS
  <2>4. k \in ActivateJob /\ k.rev = j.rev /\ k.prior = j.prior /\ k.op = "ACTIVATE"
    BY <2>2, <2>3
  <2>5. Goes(h, None) \/ (Goes(h, k) /\ revision[j.rev].status \in {"APPROVED", "EFFECTIVE"})
    BY <1>6, <2>1, <2>3 DEF ReadForActivation, Ends
  <2>6. CASE Goes(h, k) /\ revision[j.rev].status \in {"APPROVED", "EFFECTIVE"}
    <3>1. j.rev \in unanimous
      BY <1>1, <2>2, <2>6 DEF ReleasedWasApproved, Released
    <3>2. k \in Job /\ Justified(k)
      BY <2>1, <2>4, <3>1 DEF Job, Justified
    <3>. QED
      BY <1>6, <2>6, <3>2, GoStep DEF ReadForActivation
  <2>7. CASE Goes(h, None)
    BY <1>6, <2>7, GoStep DEF ReadForActivation
  <2>. QED
    BY <2>5, <2>6, <2>7
<1>7. ASSUME ListPrior(h) PROVE IInv'
  <2>1. PICK j \in Job : j = job[h] /\ j.op = "ACTIVATE" /\ Justified(j) /\ j.stage = "READ"
    BY <1>7, JobAtHand DEF ListPrior, AtStage
  <2>2. j \in ActivateJob
    BY <2>1, KindOfJob
  <2>3. PICK k : k = [j EXCEPT !.stage = "LISTED", !.prior = Prior(j.rev)]
    OBVIOUS
  <2>4. Prior(j.rev) \subseteq unanimous /\ Prior(j.rev) \subseteq Revisions
    BY <1>1 DEF Prior, ReleasedWasApproved, Released
  <2>5. k \in ActivateJob /\ k.rev = j.rev /\ k.prior = Prior(j.rev) /\ k.op = "ACTIVATE"
    BY <2>2, <2>3, <2>4
  <2>6. k \in Job /\ Justified(k)
    BY <2>1, <2>4, <2>5 DEF Job, Justified
  <2>7. Goes(h, k) /\ Reads
    BY <1>7, <2>1, <2>3 DEF ListPrior
  <2>. QED
    BY <2>6, <2>7, GoStep
<1>8. ASSUME Activate(h) PROVE IInv'
  <2>1. PICK j \in Job : j = job[h] /\ j.op = "ACTIVATE" /\ Justified(j) /\ j.stage = "LISTED"
    BY <1>8, JobAtHand DEF Activate, AtStage
  <2>2. j.rev \in unanimous /\ j.prior \subseteq unanimous
    BY <2>1 DEF Justified
  <2>3. revision' = [r \in Revisions |->
                IF r = j.rev THEN [revision[r] EXCEPT !.status = "EFFECTIVE"]
                ELSE IF r \in j.prior THEN [revision[r] EXCEPT !.status = "OBSOLETE"]
                ELSE revision[r]]
    BY <1>8, <2>1 DEF Activate
  <2>4. revision' \in [Revisions -> Revision]
    BY <1>1, <2>3 DEF DocumentTypeOK, Revision, Status
  <2>5. \A r \in Revisions : revision'[r].status = revision[r].status \/ r \in unanimous
    BY <2>2, <2>3
  <2>6. ReleasedWasApproved'
    BY <1>1, <1>8, <2>5 DEF ReleasedWasApproved, Activate
  <2>. QED
    BY <1>8, <2>4, <2>6, RevisionStep DEF Activate, Ends
<1>. QED
  BY <1>3, <1>4, <1>5, <1>6, <1>7, <1>8

\* Acknowledgements are rows of their own.
LEMMA ReaderSteps == IInv /\ ReaderStep => IInv'
<1>. SUFFICES ASSUME IInv, NEW h \in Handlers,
        \/ \E u \in Readers, r \in Revisions, asOf \in Dates : ReadForAcknowledgement(h, u, r, asOf)
        \/ Acknowledge(h)
     PROVE IInv'
  BY DEF ReaderStep
<1>1. DocumentTypeOK /\ ReleasedWasApproved /\ RoundsRecorded
  BY DEF IInv
<1>2. ASSUME NEW u \in Readers, NEW r \in Revisions, NEW asOf \in Dates,
             ReadForAcknowledgement(h, u, r, asOf)
      PROVE  IInv'
  <2>. DEFINE j == [op |-> "ACKNOWLEDGE", rev |-> r, reader |-> u, file |-> revision[r].file]
  <2>1. revision[r].file \in Files
    BY <1>1, <1>2 DEF DocumentTypeOK, Revision, ReadForAcknowledgement
  <2>2. PICK k : k = j
    OBVIOUS
  <2>3. k \in Job /\ Justified(k)
    BY <2>1, <2>2 DEF Job, Justified
  <2>4. Begins(h, k) /\ Reads
    BY <1>2, <2>2 DEF ReadForAcknowledgement
  <2>. QED
    BY <2>3, <2>4, BeginStep
<1>3. ASSUME Acknowledge(h) PROVE IInv'
  <2>1. PICK j \in Job : j = job[h] /\ j.op = "ACKNOWLEDGE"
    BY <1>3, JobAtHand DEF Acknowledge
  <2>2. j.rev \in Revisions /\ j.reader \in Readers /\ j.file \in Files
    BY <2>1, KindOfJob
  <2>3. \/ read' = read
        \/ read' = [read EXCEPT ![j.reader][j.rev] = Append(@, j.file)]
    BY <1>3, <2>1 DEF Acknowledge
  <2>4. Append(read[j.reader][j.rev], j.file) \in Seq(Files)
    BY <1>1, <2>2 DEF DocumentTypeOK
  <2>5. read' \in [Readers -> [Revisions -> Seq(Files)]]
    <3>1. PICK x \in Seq(Files) : x = Append(read[j.reader][j.rev], j.file)
      BY <2>4
    <3>2. PICK row : row = [read[j.reader] EXCEPT ![j.rev] = x]
      OBVIOUS
    <3>3. row \in [Revisions -> Seq(Files)]
      BY <1>1, <2>2, <3>2 DEF DocumentTypeOK
    <3>4. \/ read' = read
          \/ read' = [read EXCEPT ![j.reader] = row]
      BY <2>3, <3>1, <3>2
    <3>. QED
      BY <1>1, <2>2, <3>3, <3>4 DEF DocumentTypeOK
  <2>6. ReleasedWasApproved' /\ RoundsRecorded'
    BY <1>1, <1>3
       DEF Acknowledge, ReleasedWasApproved, RoundsRecorded, Routed, Remaining
  <2>7. \A r \in Revisions : Routed(r) => Routed(r)'
    BY <1>3 DEF Acknowledge, Routed
  <2>. QED
    BY <1>1, <1>3, <2>5, <2>6, <2>7, HandlerStep
       DEF Acknowledge, Ends, Goes, DocumentTypeOK
<1>. QED
  BY <1>2, <1>3

---------------------------------------------------------------------------
(* Theorems.                                                               *)

LEMMA InitHolds == Init => IInv
<1>. SUFFICES ASSUME Init PROVE IInv
  OBVIOUS
<1>1. DocumentTypeOK
  <2>1. <<>> \in Seq(Files)
    OBVIOUS
  <2>2. read \in [Readers -> [Revisions -> Seq(Files)]]
    BY <2>1 DEF Init
  <2>. QED
    BY <2>2, OverlapAssumption DEF Init, DocumentTypeOK, Revision, Status, Decision
<1>2. ReleasedWasApproved
  BY DEF Init, ReleasedWasApproved, Released
<1>3. RoundsRecorded
  BY DEF Init, RoundsRecorded, Routed
<1>4. JobsJustified
  BY DEF Init, JobsJustified
<1>. QED
  BY <1>1, <1>2, <1>3, <1>4 DEF IInv

LEMMA NextKeeps == IInv /\ [Next]_vars => IInv'
<1>1. ASSUME IInv, NEW h \in Handlers, Stop(h) PROVE IInv'
  BY <1>1, GoStep DEF Stop, Ends
<1>2. ASSUME IInv, UNCHANGED vars PROVE IInv'
  BY <1>2 DEF IInv, DocumentTypeOK, ReleasedWasApproved, RoundsRecorded, JobsJustified,
              Justified, Routed, Remaining, vars
<1>. QED
  BY <1>1, <1>2, DraftSteps, ApprovalSteps, ReleaseSteps, ReaderSteps DEF Next

LEMMA InvariantHolds == Spec => []IInv
BY InitHolds, NextKeeps, PTL DEF Spec

\* Every reachable state of a document is well typed, whatever is at work.
THEOREM DocumentTypeCorrect == Spec => []DocumentTypeOK
<1>1. IInv => DocumentTypeOK
  BY DEF IInv
<1>. QED
  BY <1>1, InvariantHolds, PTL

\* A revision that was ever released had been approved by every approver of one of
\* its rounds, for any number of revisions, approvers and requests at work.
THEOREM ReleasedRevisionsWereApproved == Spec => []ReleasedWasApproved
<1>1. IInv => ReleasedWasApproved
  BY DEF IInv
<1>. QED
  BY <1>1, InvariantHolds, PTL

---------------------------------------------------------------------------
(* One request at a time controls the document.                            *)

\* What a request has read is still so when nobody else is at work.
Current(j) ==
    /\ j.op = "ATTACH" => revision[j.rev].status = "DRAFT"
    /\ j.op = "SUBMIT" => revision[j.rev].status = "DRAFT" /\ revision[j.rev].file # None
    /\ j.op = "DECIDE" => revision[j.rev].status = "IN_REVIEW"
    /\ j.op = "ACTIVATE" /\ j.stage # "CHOSEN" =>
         revision[j.rev].status \in {"APPROVED", "EFFECTIVE"}
    /\ j.op = "ACTIVATE" /\ j.stage = "LISTED" => j.prior = Prior(j.rev)

ReviewedHaveFiles ==
    \A r \in Revisions : revision[r].status \notin {"NONE", "DRAFT"} => revision[r].file # None

AloneInv ==
    overlaps = 0 =>
        /\ \A g, h \in Handlers : job[g] # None /\ job[h] # None => g = h
        /\ \A h \in Handlers : job[h] # None => Current(job[h])
        /\ ReviewedHaveFiles

LEMMA BeginsAlone ==
  ASSUME DocumentTypeOK, NEW h \in Handlers, NEW j, Begins(h, j), overlaps' = 0
  PROVE  overlaps = 0 /\ \A g \in Handlers : job[g] = None
BY OverlapAssumption DEF Begins, DocumentTypeOK

\* A step of h, which goes on with j, when nobody else is at work.
LEMMA AloneGoesOn ==
  ASSUME DocumentTypeOK, AloneInv, overlaps = 0, NEW h \in Handlers, NEW j,
         \A g \in Handlers \ {h} : job[g] = None, job' = [job EXCEPT ![h] = j],
         j # None => Current(j)', ReviewedHaveFiles'
  PROVE  AloneInv'
<1>1. job'[h] = j /\ \A g \in Handlers \ {h} : job'[g] = None
  BY DEF DocumentTypeOK
<1>2. ASSUME NEW g \in Handlers, job'[g] # None PROVE Current(job[g])'
  <2>1. job'[g] = j
    BY <1>1, <1>2
  <2>. QED
    BY <1>2, <2>1 DEF Current, Prior
<1>. QED
  BY <1>1, <1>2 DEF AloneInv

\* A step that reads goes on with what it has read.
LEMMA ReadingGoesOn ==
  ASSUME DocumentTypeOK, AloneInv, overlaps = 0, NEW h \in Handlers, NEW j,
         \A g \in Handlers \ {h} : job[g] = None, job' = [job EXCEPT ![h] = j],
         j # None => Current(j), UNCHANGED revision
  PROVE  AloneInv'
<1>1. ReviewedHaveFiles' /\ (j # None => Current(j)')
  BY DEF AloneInv, ReviewedHaveFiles, Current, Prior
<1>. QED
  BY <1>1, AloneGoesOn

\* Nothing is seen of a step that leaves alone what was released.
LEMMA ReleasedStay ==
  ASSUME \A r \in Revisions :
            /\ revision'[r].status \in Released <=> revision[r].status \in Released
            /\ revision'[r].status = "EFFECTIVE" <=> revision[r].status = "EFFECTIVE"
            /\ revision[r].status \in Released => revision'[r].file = revision[r].file
  PROVE  UNCHANGED Document!document
<1>1. Sealed' = Sealed
  BY DEF Sealed
<1>2. InForce' = InForce
  BY DEF InForce
<1>. QED
  BY <1>1, <1>2 DEF Document!document

LEMMA SameRevisions ==
  ASSUME UNCHANGED revision
  PROVE  UNCHANGED Document!document
BY ReleasedStay

\* A request that begins reads what is so.
LEMMA BeginningIsControlled ==
  ASSUME DocumentTypeOK, AloneInv, overlaps' = 0, NEW h \in Handlers, NEW j,
         Begins(h, j), Reads, Current(j)
  PROVE  AloneInv' /\ UNCHANGED Document!document
<1>1. overlaps = 0 /\ \A g \in Handlers : job[g] = None
  BY BeginsAlone
<1>2. UNCHANGED revision
  BY DEF Reads, rows
<1>. QED
  BY <1>1, <1>2, ReadingGoesOn, SameRevisions DEF Begins

\* A revision that is not released, and stays so, gets another status.
LEMMA StatusIsControlled ==
  ASSUME DocumentTypeOK, AloneInv, overlaps = 0, NEW h \in Handlers,
         \A g \in Handlers \ {h} : job[g] = None, job' = [job EXCEPT ![h] = None],
         NEW r \in Revisions, NEW status \in Status, revision[r].status \notin Released,
         status \notin Released, status = "DRAFT" \/ revision[r].file # None,
         \A s \in Revisions \ {r} : revision'[s] = revision[s],
         revision'[r].status = status, revision'[r].file = revision[r].file
  PROVE  AloneInv' /\ UNCHANGED Document!document
<1>1. ReviewedHaveFiles'
  BY DEF AloneInv, ReviewedHaveFiles
<1>2. UNCHANGED Document!document
  BY ReleasedStay DEF Released
<1>. QED
  BY <1>1, <1>2, AloneGoesOn

LEMMA ControlledStep ==
  ASSUME DocumentTypeOK, AloneInv, [Next]_vars, overlaps' = 0
  PROVE  AloneInv' /\ [Document!Next]_(Document!document)
<1>0. overlaps = 0 => ReviewedHaveFiles
  BY DEF AloneInv
<1>1. ASSUME NEW h \in Handlers, NEW op, At(h, op)
      PROVE  /\ \E j \in Job : j = job[h] /\ j.op = op /\ j.rev \in Revisions
                               /\ (overlaps = 0 => Current(j))
             /\ overlaps = 0 => \A g \in Handlers \ {h} : job[g] = None
  <2>1. job[h] \in Job /\ job[h].op = op /\ job[h] # None
    BY <1>1 DEF At, DocumentTypeOK
  <2>2. job[h].rev \in Revisions
    BY <2>1, KindOfJob
  <2>. QED
    BY <2>1, <2>2 DEF AloneInv
<1>2. ASSUME NEW h \in Handlers, NEW j, overlaps = 0, \A g \in Handlers \ {h} : job[g] = None,
             job' = [job EXCEPT ![h] = j], j # None => Current(j), UNCHANGED revision
      PROVE  AloneInv' /\ UNCHANGED Document!document
  BY <1>2, ReadingGoesOn, SameRevisions
<1>3. CASE UNCHANGED vars
  <2>1. UNCHANGED <<revision, job, overlaps>>
    BY <1>3 DEF vars
  <2>. QED
    BY <2>1, SameRevisions DEF AloneInv, Current, Prior, ReviewedHaveFiles
<1>4. ASSUME NEW r \in Revisions, CreateRevision(r)
      PROVE  AloneInv' /\ UNCHANGED Document!document
  <2>1. /\ UNCHANGED <<job, overlaps>> /\ revision[r].status = "NONE"
        /\ \A s \in Revisions \ {r} : revision'[s] = revision[s]
        /\ revision'[r].status = "DRAFT" /\ revision'[r].file = revision[r].file
    BY <1>4 DEF CreateRevision, Becomes, DocumentTypeOK, Revision
  <2>2. UNCHANGED Document!document
    BY <2>1, ReleasedStay DEF Released
  <2>3. ReviewedHaveFiles'
    BY <1>0, <2>1 DEF ReviewedHaveFiles
  <2>4. ASSUME NEW s \in Revisions PROVE Prior(s)' = Prior(s)
    BY <2>1 DEF Prior
  <2>5. ASSUME NEW g \in Handlers, job'[g] # None PROVE Current(job[g])'
    <3>1. job[g] \in Job /\ job[g].rev \in Revisions
      BY <2>1, <2>5, KindOfJob DEF DocumentTypeOK
    <3>2. Current(job[g])
      BY <2>1, <2>5 DEF AloneInv
    <3>3. Prior(job[g].rev)' = Prior(job[g].rev)
      BY <2>1, <2>4, <3>1 DEF Prior
    <3>. QED
      BY <2>1, <3>1, <3>2, <3>3 DEF Current
  <2>. QED
    BY <2>1, <2>2, <2>3, <2>5 DEF AloneInv
<1>5. ASSUME NEW h \in Handlers, NEW r \in Revisions,
             \/ \E f \in Files : ReadForAttach(h, r, f)
             \/ ReadForSubmit(h, r)
             \/ \E A \in SUBSET Approvers : ReadForRequest(h, r, A)
             \/ \E u \in Approvers, decision \in {"APPROVED", "REJECTED"} :
                  ReadForDecision(h, r, u, decision)
             \/ \E date \in Dates : ReadForSchedule(h, r, date)
             \/ \E asOf \in Dates : Reconcile(h, r, asOf)
             \/ \E u \in Readers, asOf \in Dates : ReadForAcknowledgement(h, u, r, asOf)
      PROVE  AloneInv' /\ UNCHANGED Document!document
  <2>1. ASSUME NEW f \in Files, ReadForAttach(h, r, f)
        PROVE  AloneInv' /\ UNCHANGED Document!document
    <3>1. PICK j : j = [op |-> "ATTACH", rev |-> r, file |-> f]
      OBVIOUS
    <3>. QED
      BY <2>1, <3>1, BeginningIsControlled DEF ReadForAttach, Current
  <2>2. CASE ReadForSubmit(h, r)
    <3>1. PICK j : j = [op |-> "SUBMIT", rev |-> r]
      OBVIOUS
    <3>. QED
      BY <2>2, <3>1, BeginningIsControlled DEF ReadForSubmit, Current
  <2>3. ASSUME NEW A \in SUBSET Approvers, ReadForRequest(h, r, A)
        PROVE  AloneInv' /\ UNCHANGED Document!document
    <3>1. PICK j : j = [op |-> "REQUEST", rev |-> r, approvers |-> A, late |-> FALSE]
      OBVIOUS
    <3>. QED
      BY <2>3, <3>1, BeginningIsControlled DEF ReadForRequest, Current
  <2>4. ASSUME NEW u \in Approvers, NEW decision \in {"APPROVED", "REJECTED"},
               ReadForDecision(h, r, u, decision)
        PROVE  AloneInv' /\ UNCHANGED Document!document
    <3>1. PICK j : j = [op |-> "DECIDE", rev |-> r, approver |-> u, decision |-> decision,
                        stage |-> "READ"]
      OBVIOUS
    <3>. QED
      BY <2>4, <3>1, BeginningIsControlled DEF ReadForDecision, Current
  <2>5. ASSUME NEW date \in Dates, ReadForSchedule(h, r, date)
        PROVE  AloneInv' /\ UNCHANGED Document!document
    <3>1. PICK j : j = [op |-> "SCHEDULE", rev |-> r, date |-> date]
      OBVIOUS
    <3>. QED
      BY <2>5, <3>1, BeginningIsControlled DEF ReadForSchedule, Current
  <2>6. ASSUME NEW asOf \in Dates, Reconcile(h, r, asOf)
        PROVE  AloneInv' /\ UNCHANGED Document!document
    <3>1. PICK j : j = Activation(r, asOf, TRUE)
      OBVIOUS
    <3>. QED
      BY <2>6, <3>1, BeginningIsControlled DEF Reconcile, Current, Activation
  <2>7. ASSUME NEW u \in Readers, NEW asOf \in Dates, ReadForAcknowledgement(h, u, r, asOf)
        PROVE  AloneInv' /\ UNCHANGED Document!document
    <3>1. PICK j : j = [op |-> "ACKNOWLEDGE", rev |-> r, reader |-> u, file |-> revision[r].file]
      OBVIOUS
    <3>. QED
      BY <2>7, <3>1, BeginningIsControlled DEF ReadForAcknowledgement, Current
  <2>. QED
    BY <1>5, <2>1, <2>2, <2>3, <2>4, <2>5, <2>6, <2>7
<1>6. ASSUME NEW h \in Handlers, Attach(h)
      PROVE  AloneInv' /\ UNCHANGED Document!document
  <2>1. PICK j \in Job : j = job[h] /\ j.op = "ATTACH" /\ j.rev \in Revisions /\ Current(j)
    BY <1>1, <1>6 DEF Attach, Ends, Goes
  <2>2. /\ j.file \in Files /\ revision[j.rev].status = "DRAFT"
        /\ revision' = [revision EXCEPT ![j.rev].file = j.file]
    BY <1>6, <2>1, KindOfJob DEF Attach, Current
  <2>3. /\ \A s \in Revisions : revision'[s].status = revision[s].status
        /\ \A s \in Revisions \ {j.rev} : revision'[s] = revision[s]
        /\ revision'[j.rev].file # None
    BY <2>1, <2>2, NoneAssumption DEF DocumentTypeOK, Revision
  <2>4. overlaps = 0 /\ (\A g \in Handlers \ {h} : job[g] = None) /\ job' = [job EXCEPT ![h] = None]
    BY <1>1, <1>6 DEF Attach, Ends, Goes
  <2>5. ReviewedHaveFiles'
    BY <1>0, <2>3, <2>4 DEF ReviewedHaveFiles
  <2>6. UNCHANGED Document!document
    BY <2>2, <2>3, ReleasedStay DEF Released
  <2>. QED
    BY <2>4, <2>5, <2>6, AloneGoesOn
<1>7. ASSUME NEW h \in Handlers, Submit(h) \/ ReturnToDraft(h)
      PROVE  AloneInv' /\ UNCHANGED Document!document
  <2>1. PICK j \in Job : /\ j = job[h] /\ j.rev \in Revisions /\ Current(j)
                         /\ j.op = IF Submit(h) THEN "SUBMIT" ELSE "DECIDE"
    BY <1>1, <1>7 DEF Submit, ReturnToDraft, AtStage, Ends, Goes
  <2>2. overlaps = 0 /\ (\A g \in Handlers \ {h} : job[g] = None) /\ job' = [job EXCEPT ![h] = None]
    BY <1>1, <1>7 DEF Submit, ReturnToDraft, AtStage, Ends, Goes
  <2>3. CASE Submit(h)
    <3>1. /\ revision' = [revision EXCEPT ![j.rev].status = "IN_REVIEW"]
          /\ revision[j.rev].status = "DRAFT" /\ revision[j.rev].file # None
      BY <2>1, <2>3 DEF Submit, Becomes, Current
    <3>2. /\ \A s \in Revisions \ {j.rev} : revision'[s] = revision[s]
          /\ revision'[j.rev].status = "IN_REVIEW"
          /\ revision'[j.rev].file = revision[j.rev].file
      BY <2>1, <3>1 DEF DocumentTypeOK, Revision
    <3>. QED
      BY <2>1, <2>2, <3>1, <3>2, StatusIsControlled DEF Released, Status
  <2>4. CASE ReturnToDraft(h) /\ ~Submit(h)
    <3>1. /\ revision' = [revision EXCEPT ![j.rev].status = "DRAFT", ![j.rev].effectiveAt = None]
          /\ revision[j.rev].status = "IN_REVIEW"
      BY <2>1, <2>4 DEF ReturnToDraft, Current
    <3>2. /\ \A s \in Revisions \ {j.rev} : revision'[s] = revision[s]
          /\ revision'[j.rev].status = "DRAFT"
          /\ revision'[j.rev].file = revision[j.rev].file
      BY <2>1, <3>1 DEF DocumentTypeOK, Revision
    <3>. QED
      BY <2>1, <2>2, <3>1, <3>2, StatusIsControlled DEF Released, Status
  <2>. QED
    BY <1>7, <2>3, <2>4
<1>8. ASSUME NEW h \in Handlers, Approve(h)
      PROVE  AloneInv' /\ Document!Next
  <2>1. PICK j \in Job : j = job[h] /\ j.op = "DECIDE" /\ j.rev \in Revisions /\ Current(j)
    BY <1>1, <1>8 DEF Approve, AtStage, Ends, Goes
  <2>2. overlaps = 0 /\ (\A g \in Handlers \ {h} : job[g] = None) /\ job' = [job EXCEPT ![h] = None]
    BY <1>1, <1>8 DEF Approve, AtStage, Ends, Goes
  <2>3. /\ revision[j.rev].status = "IN_REVIEW"
        /\ revision' = [revision EXCEPT ![j.rev].status = "APPROVED"]
    BY <1>8, <2>1 DEF Approve, Becomes, Current
  <2>4. revision[j.rev].file \in Files
    BY <1>0, <2>1, <2>2, <2>3 DEF ReviewedHaveFiles, DocumentTypeOK, Revision
  <2>5. /\ \A s \in Revisions \ {j.rev} : revision'[s] = revision[s]
        /\ revision'[j.rev].status = "APPROVED"
        /\ revision'[j.rev].file = revision[j.rev].file
    BY <2>1, <2>3 DEF DocumentTypeOK, Revision
  <2>6. ReviewedHaveFiles'
    BY <1>0, <2>2, <2>4, <2>5, NoneAssumption DEF ReviewedHaveFiles
  <2>7. Sealed[j.rev] = None
    BY <2>1, <2>3 DEF Sealed, Released
  <2>8. Sealed' = [Sealed EXCEPT ![j.rev] = revision[j.rev].file]
    BY <2>1, <2>5 DEF Sealed, Released
  <2>9. InForce' = InForce
    BY <2>1, <2>3, <2>5 DEF InForce
  <2>10. Document!Seal(j.rev, revision[j.rev].file)
    BY <2>7, <2>8, <2>9 DEF Document!Seal
  <2>. QED
    BY <2>1, <2>2, <2>4, <2>6, <2>10, AloneGoesOn DEF Document!Next
<1>9. ASSUME NEW h \in Handlers, Activate(h)
      PROVE  AloneInv' /\ Document!Next
  <2>1. PICK j \in Job : /\ j = job[h] /\ j.op = "ACTIVATE" /\ j.rev \in Revisions /\ Current(j)
                         /\ j.stage = "LISTED"
    BY <1>1, <1>9 DEF Activate, AtStage, Ends, Goes
  <2>2. overlaps = 0 /\ (\A g \in Handlers \ {h} : job[g] = None) /\ job' = [job EXCEPT ![h] = None]
    BY <1>1, <1>9 DEF Activate, AtStage, Ends, Goes
  <2>3. revision[j.rev].status \in {"APPROVED", "EFFECTIVE"} /\ j.prior = Prior(j.rev)
    BY <2>1 DEF Current
  <2>4. revision' = [r \in Revisions |->
                IF r = j.rev THEN [revision[r] EXCEPT !.status = "EFFECTIVE"]
                ELSE IF r \in j.prior THEN [revision[r] EXCEPT !.status = "OBSOLETE"]
                ELSE revision[r]]
    BY <1>9, <2>1 DEF Activate
  <2>5. ASSUME NEW r \in Revisions
        PROVE  /\ revision'[r].file = revision[r].file
               /\ revision'[r].status = IF r = j.rev THEN "EFFECTIVE"
                                        ELSE IF revision[r].status = "EFFECTIVE" THEN "OBSOLETE"
                                        ELSE revision[r].status
    <3>1. revision[r] \in Revision
      BY DEF DocumentTypeOK
    <3>2. r \in j.prior <=> r # j.rev /\ revision[r].status = "EFFECTIVE"
      BY <2>3 DEF Prior
    <3>. QED
      BY <2>4, <3>1, <3>2 DEF Revision
  <2>6. ReviewedHaveFiles'
    BY <1>0, <2>2, <2>3, <2>5 DEF ReviewedHaveFiles
  <2>7. Sealed' = Sealed
    BY <2>3, <2>5 DEF Sealed, Released
  <2>8. InForce' = {j.rev}
    BY <2>1, <2>5 DEF InForce
  <2>9. Sealed[j.rev] # None
    BY <1>0, <2>1, <2>2, <2>3 DEF Sealed, Released, ReviewedHaveFiles
  <2>10. Document!Issue(j.rev)
    BY <2>7, <2>8, <2>9 DEF Document!Issue
  <2>. QED
    BY <2>1, <2>2, <2>6, <2>10, AloneGoesOn DEF Document!Next
<1>10. ASSUME NEW h \in Handlers, NEW now \in Dates, Schedule(h, now)
       PROVE  AloneInv' /\ UNCHANGED Document!document
  <2>1. PICK j \in Job : j = job[h] /\ j.op = "SCHEDULE" /\ j.rev \in Revisions
    BY <1>1, <1>10 DEF Schedule
  <2>2. overlaps = 0 /\ \A g \in Handlers \ {h} : job[g] = None
    BY <1>1, <1>10 DEF Schedule, Ends, Goes
  <2>3. revision' = [revision EXCEPT ![j.rev].effectiveAt = j.date]
    BY <1>10, <2>1 DEF Schedule
  <2>4. \A s \in Revisions : revision'[s].status = revision[s].status
                             /\ revision'[s].file = revision[s].file
    BY <2>1, <2>3 DEF DocumentTypeOK, Revision
  <2>5. ReviewedHaveFiles'
    BY <1>0, <2>2, <2>4 DEF ReviewedHaveFiles
  <2>6. UNCHANGED Document!document
    BY <2>4, ReleasedStay
  <2>7. PICK k : /\ job' = [job EXCEPT ![h] = k]
                 /\ k = None \/ k = Activation(j.rev, now, FALSE)
    BY <1>10, <2>1 DEF Schedule, Ends, Goes
  <2>8. k # None => Current(k)'
    BY <2>7 DEF Current, Activation
  <2>. QED
    BY <2>2, <2>5, <2>6, <2>7, <2>8, AloneGoesOn
<1>11. ASSUME NEW h \in Handlers, ReadForActivation(h) \/ ListPrior(h)
       PROVE  AloneInv' /\ UNCHANGED Document!document
  <2>1. PICK j \in Job : j = job[h] /\ j.op = "ACTIVATE" /\ j.rev \in Revisions
                         /\ (overlaps = 0 => Current(j))
    BY <1>1, <1>11 DEF ReadForActivation, ListPrior, AtStage
  <2>2. overlaps = 0 /\ (\A g \in Handlers \ {h} : job[g] = None) /\ UNCHANGED revision
    BY <1>1, <1>11 DEF ReadForActivation, ListPrior, AtStage, Ends, Goes, Reads, rows
  <2>3. j \in [op: {"ACTIVATE"}, rev: Revisions, asOf: Dates, prior: SUBSET Revisions,
               stage: {"CHOSEN", "READ", "LISTED"}, reconciling: BOOLEAN]
    BY <2>1, KindOfJob
  <2>4. CASE ReadForActivation(h)
    <3>1. PICK k : /\ job' = [job EXCEPT ![h] = k]
                   /\ \/ k = None
                      \/ /\ k = [j EXCEPT !.stage = "READ"]
                         /\ revision[j.rev].status \in {"APPROVED", "EFFECTIVE"}
      BY <2>1, <2>4 DEF ReadForActivation, Ends, Goes
    <3>2. k # None => Current(k)
      BY <2>3, <3>1 DEF Current
    <3>. QED
      BY <1>2, <2>2, <3>1, <3>2
  <2>5. CASE ListPrior(h)
    <3>1. PICK k : job' = [job EXCEPT ![h] = k] /\ k = [j EXCEPT !.stage = "LISTED", !.prior = Prior(j.rev)]
      BY <2>1, <2>5 DEF ListPrior, Goes
    <3>2. revision[j.rev].status \in {"APPROVED", "EFFECTIVE"}
      BY <2>1, <2>2, <2>5 DEF ListPrior, AtStage, Current
    <3>3. Current(k)
      BY <2>3, <3>1, <3>2 DEF Current
    <3>. QED
      BY <1>2, <2>2, <3>1, <3>3
  <2>. QED
    BY <1>11, <2>4, <2>5
<1>12. ASSUME NEW h \in Handlers, Decide(h) \/ CountRemaining(h)
       PROVE  AloneInv' /\ UNCHANGED Document!document
  <2>1. PICK j \in Job : j = job[h] /\ j.op = "DECIDE" /\ j.rev \in Revisions
                         /\ (overlaps = 0 => Current(j))
    BY <1>1, <1>12 DEF Decide, CountRemaining, AtStage
  <2>2. overlaps = 0 /\ (\A g \in Handlers \ {h} : job[g] = None) /\ UNCHANGED revision
    BY <1>1, <1>12 DEF Decide, CountRemaining, AtStage, Ends, Goes, Reads, rows
  <2>3. j \in [op: {"DECIDE"}, rev: Revisions, approver: Approvers,
               decision: {"APPROVED", "REJECTED"}, stage: {"READ", "DECIDED", "COUNTED"}]
    BY <2>1, KindOfJob
  <2>4. PICK k : /\ job' = [job EXCEPT ![h] = k]
                 /\ k = None \/ \E stage : k = [j EXCEPT !.stage = stage]
    BY <1>12, <2>1 DEF Decide, CountRemaining, Ends, Goes
  <2>5. k # None => k.op = "DECIDE" /\ k.rev = j.rev
    BY <2>3, <2>4
  <2>6. k # None => Current(k)
    BY <2>1, <2>2, <2>5 DEF Current
  <2>. QED
    BY <1>2, <2>2, <2>4, <2>6
<1>13. ASSUME NEW h \in Handlers,
              AddToRound(h) \/ Acknowledge(h) \/ Stop(h)
       PROVE  AloneInv' /\ UNCHANGED Document!document
  <2>1. job[h] # None /\ overlaps = 0 /\ job' = [job EXCEPT ![h] = None] /\ UNCHANGED revision
    BY <1>13 DEF AddToRound, Acknowledge, Stop, At, Ends, Goes, Reads, rows
  <2>2. \A g \in Handlers \ {h} : job[g] = None
    BY <2>1 DEF AloneInv
  <2>. QED
    BY <1>2, <2>1, <2>2
<1>14. ASSUME NEW h \in Handlers, Request(h)
       PROVE  AloneInv' /\ UNCHANGED Document!document
  <2>1. job[h] # None /\ overlaps = 0 /\ UNCHANGED revision
    BY <1>14 DEF Request, At
  <2>2. \A g \in Handlers \ {h} : job[g] = None
    BY <2>1 DEF AloneInv
  <2>3. \A g \in Handlers : job'[g] = None
    BY <1>14, <2>2 DEF Request, At, AtStage
  <2>4. job' = [job EXCEPT ![h] = None]
    BY <1>14, <2>2, <2>3 DEF Request, DocumentTypeOK
  <2>. QED
    BY <1>2, <2>1, <2>2, <2>4
<1>. QED
  BY <1>3, <1>4, <1>5, <1>6, <1>7, <1>8, <1>9, <1>10, <1>11, <1>12, <1>13, <1>14
     DEF Next, DraftStep, ApprovalStep, ReleaseStep, ReaderStep

\* As long as requests do not overlap, the rows of a document are a controlled
\* document: a step seals a revision, brings one into force or shows nothing.
THEOREM DocumentsAreControlled == Spec => DocumentIsControlled
<1>1. Init => AloneInv
  BY DEF Init, AloneInv, ReviewedHaveFiles
<1>2. Init => Document!Init
  BY DEF Init, Document!Init, Sealed, InForce, Released
<1>3. DocumentTypeOK /\ AloneInv /\ [Next]_vars => AloneInv'
  BY ControlledStep DEF AloneInv
<1>4. DocumentTypeOK /\ AloneInv /\ [Next]_vars
        => [overlaps' = 0 => [Document!Next]_(Document!document)]_vars
  BY ControlledStep
<1>. QED
  BY <1>1, <1>2, <1>3, <1>4, DocumentTypeCorrect, PTL DEF Spec, DocumentIsControlled

-----------------------------------------------------------------------------
(* The files behind the records.                                          *)
\* Rows and processes speak of keys that were begun for their holder; evidence
\* and photos replace nothing.
FilesHeld ==
    /\ \A x \in Holders :
           names[x] # NoFile => names[x] \in begun /\ Holder(names[x]) = x
    /\ \A h \in Uploaders :
           upload[h] # NoUpload =>
               /\ upload[h].key \in begun
               /\ upload[h].old # NoFile =>
                      /\ upload[h].old \in begun
                      /\ Holder(upload[h].old) = Holder(upload[h].key)
                      /\ Holder(upload[h].key) \in Drafts

\* A process that has not written its row yet.
Unwritten(h) == upload[h].at \in {"put", "row"}

\* Nothing names the key, is about to read it or holds it for replaced.
Unpublished(k) ==
    /\ \A x \in Holders : names[x] # k
    /\ \A h \in Uploaders :
           /\ upload[h].old # k
           /\ upload[h].at \in {"get", "missing"} => upload[h].key # k

\* A key that was attached once, and nothing of it reported as failed: its
\* process is the only one, nobody knows the key before the row is written, the
\* object is whole by then, and who deletes it as replaced has replaced it.
KeyTrue(k) ==
    /\ \A g, h \in Uploaders :
           Unwritten(g) /\ Unwritten(h) /\ upload[g].key = k /\ upload[h].key = k => g = h
    /\ \A h \in Uploaders :
           /\ Unwritten(h) /\ upload[h].key = k => Unpublished(k)
           /\ UploadAt(h, "row") /\ upload[h].key = k => object[k] = "whole"
           /\ UploadAt(h, "compensate") => upload[h].key # k
           /\ upload[h].at \in {"audit", "delete"} /\ k \in Replaced(h) =>
                  names[Holder(k)] # k

KeysTrue == \A k \in ObjectKeys \ doubtful : KeyTrue(k)

FilesInv ==
    /\ FilesTypeOK /\ FilesHeld /\ KeysTrue
    /\ FilesAreThere /\ ReadersAreServed /\ NothingIsLeftOver

-----------------------------------------------------------------------------
LEMMA KeyHolder ==
  ASSUME NEW k \in ObjectKeys
  PROVE  Holder(k) \in Holders
BY DEF ObjectKeys, Holder

LEMMA UploadFields ==
  ASSUME FilesTypeOK, NEW h \in Uploaders, upload[h] # NoUpload
  PROVE  /\ upload[h].key \in ObjectKeys
         /\ upload[h].old \in ObjectKeys \cup {NoFile}
         /\ upload[h].at \in {"put", "row", "audit", "compensate", "delete", "get", "missing"}
         /\ upload[h] = [at |-> upload[h].at, key |-> upload[h].key, old |-> upload[h].old]
         /\ upload[h].at \in {"get", "missing"} => upload[h].old = NoFile
         /\ upload[h].at \notin {"get", "missing"} => upload[h] \in Uploads
BY DEF FilesTypeOK, Uploads, Readings

LEMMA IdleFields == NoUpload.at = "idle" /\ NoUpload.key = NoFile /\ NoUpload.old = NoFile
BY DEF NoUpload

\* Going on changes where the process is.
LEMMA GoesOn ==
  ASSUME FilesTypeOK, NEW h \in Uploaders, upload[h] # NoUpload, NEW p, Go(h, p)
  PROVE  upload' = [upload EXCEPT ![h] =
                        [at |-> p, key |-> upload[h].key, old |-> upload[h].old]]
<1>1. [upload[h] EXCEPT !.at = p] = [at |-> p, key |-> upload[h].key, old |-> upload[h].old]
  <2>1. PICK a \in {"put", "row", "audit", "compensate", "delete", "get", "missing"}, k \in ObjectKeys, o \in ObjectKeys \cup {NoFile} :
          upload[h] = [at |-> a, key |-> k, old |-> o]
    BY DEF FilesTypeOK, Uploads, Readings
  <2>. QED
    BY <2>1
<1>2. upload' = [upload EXCEPT ![h] = [upload[h] EXCEPT !.at = p]]
  BY DEF Go
<1>. QED
  BY <1>1, <1>2

LEMMA FilesInitially == FilesInit => FilesInv
<1> SUFFICES ASSUME FilesInit PROVE FilesInv
  OBVIOUS
<1>1. FilesTypeOK
  BY DEF FilesInit, FilesTypeOK
<1>2. FilesHeld
  BY DEF FilesInit, FilesHeld
<1>3. KeysTrue
  BY FilesAssumption, IdleFields
  DEF FilesInit, KeysTrue, KeyTrue, Unwritten, UploadAt, Holders
<1>4. FilesAreThere /\ ReadersAreServed /\ NothingIsLeftOver
  BY IdleFields DEF FilesInit, FilesAreThere, ReadersAreServed, NothingIsLeftOver, UploadAt
<1>. QED
  BY <1>1, <1>2, <1>3, <1>4 DEF FilesInv

LEMMA BeginKeepsFiles ==
  ASSUME FilesInv, NEW h \in Uploaders, NEW x \in Holders, NEW c \in Contents,
         BeginUpload(h, x, c)
  PROVE  FilesInv'
<1> DEFINE j == [at |-> "put", key |-> <<x, c>>, old |-> names[x]]
           n == <<x, c>>
<1>1. n \in ObjectKeys /\ Holder(n) = x
  BY DEF ObjectKeys, Holder
<1>2. /\ upload' = [upload EXCEPT ![h] = j] /\ upload[h] = NoUpload
      /\ UNCHANGED <<object, names, left>>
      /\ begun' = begun \cup {n} /\ doubtful \subseteq doubtful'
      /\ doubtful' \subseteq doubtful \cup {n}
      /\ n \in begun => n \in doubtful'
  BY DEF BeginUpload
<1>3. upload'[h] = j /\ \A g \in Uploaders \ {h} : upload'[g] = upload[g]
  BY <1>2 DEF FilesInv, FilesTypeOK
<1>4. names[x] \in ObjectKeys \cup {NoFile}
  BY DEF FilesInv, FilesTypeOK
<1>5. FilesTypeOK'
  BY <1>1, <1>2, <1>4 DEF FilesInv, FilesTypeOK, Uploads
<1>6. FilesHeld'
  <2>1. names[x] # NoFile => x \in Drafts
    BY <1>2 DEF FilesInv, FilesHeld, BeginUpload, Holders
  <2>2. names[x] # NoFile => names[x] \in begun /\ Holder(names[x]) = x
    BY DEF FilesInv, FilesHeld
  <2>. QED
    BY <1>1, <1>2, <1>3, <2>1, <2>2 DEF FilesInv, FilesHeld
<1>7. KeysTrue'
  <2> SUFFICES ASSUME NEW k \in ObjectKeys \ doubtful'
               PROVE  KeyTrue(k)'
    BY DEF KeysTrue
  <2>1. KeyTrue(k) /\ (k = n => k \notin begun)
    BY <1>2 DEF FilesInv, KeysTrue
  <2>2. ASSUME k # n PROVE \A g \in Uploaders : Unwritten(g)' /\ upload'[g].key = k => g # h
    BY <1>3, <2>2
  <2>3. CASE k = n
    <3>1. \A g \in Uploaders : upload[g] # NoUpload => upload[g].key # k /\ upload[g].old # k
      BY <2>1, <2>3, FilesAssumption DEF FilesInv, FilesHeld
    <3>2. \A y \in Holders : names[y] # k
      BY <2>1, <2>3, <1>1, FilesAssumption DEF FilesInv, FilesHeld
    <3>3. k # NoFile
      BY FilesAssumption
    <3>. QED
      BY <1>2, <1>3, <3>1, <3>2, <3>3, IdleFields
      DEF KeyTrue, Unwritten, Unpublished, UploadAt, Replaced
  <2>4. CASE k # n
    <3>1. ASSUME NEW g \in Uploaders, Unwritten(g), upload[g].key = k
          PROVE  names[x] # k
      BY <3>1, <2>1 DEF KeyTrue, Unpublished
    <3>. QED
      BY <1>2, <1>3, <2>1, <2>4, <3>1, IdleFields
      DEF KeyTrue, Unwritten, Unpublished, UploadAt, Replaced
  <2>. QED
    BY <2>3, <2>4
<1>8. FilesAreThere'
  BY <1>2 DEF FilesInv, FilesAreThere
<1>9. ReadersAreServed'
  BY <1>2, <1>3 DEF FilesInv, ReadersAreServed, UploadAt
<1>10. NothingIsLeftOver'
  <2>1. \A g \in Uploaders : Owed(g) \subseteq Owed(g)'
    BY <1>2, <1>3, IdleFields DEF Owed, Replaced
  <2>. QED
    BY <1>2, <2>1 DEF FilesInv, NothingIsLeftOver
<1>. QED
  BY <1>5, <1>6, <1>7, <1>8, <1>9, <1>10 DEF FilesInv

\* A step that leaves the store, the rows and the history alone, of a process
\* that goes on with the same keys or ends.
LEMMA MovesKeepFiles ==
  ASSUME FilesInv, NEW h \in Uploaders, NEW j,
         upload' = [upload EXCEPT ![h] = j],
         UNCHANGED <<object, names, begun, doubtful>>,
         left \subseteq left', left' \subseteq ObjectKeys,
         FilesTypeOK',
         Owed(h) \subseteq left' \cup Owed(h)',
         \/ j = NoUpload
         \/ /\ upload[h] # NoUpload /\ j.key = upload[h].key /\ j.old = upload[h].old
            /\ \/ UploadAt(h, "audit") /\ j.at = "delete"
               \/ /\ UploadAt(h, "get") /\ j.at = "missing"
                  /\ object[upload[h].key] # "whole"
  PROVE  FilesInv'
<1>3. upload'[h] = j /\ \A g \in Uploaders \ {h} : upload'[g] = upload[g]
  BY DEF FilesInv, FilesTypeOK
<1>6. FilesHeld'
  BY <1>3 DEF FilesInv, FilesHeld
<1>7. KeysTrue'
  <2> SUFFICES ASSUME NEW k \in ObjectKeys \ doubtful
               PROVE  KeyTrue(k)'
    BY DEF KeysTrue
  <2>1. KeyTrue(k) /\ k # NoFile
    BY FilesAssumption DEF FilesInv, KeysTrue
  <2>2. CASE j = NoUpload
    BY <1>3, <2>1, <2>2, IdleFields DEF KeyTrue, Unwritten, Unpublished, UploadAt, Replaced
  <2>3. CASE j # NoUpload
    BY <1>3, <2>1, <2>3 DEF KeyTrue, Unwritten, Unpublished, UploadAt, Replaced
  <2>. QED
    BY <2>2, <2>3
<1>8. FilesAreThere'
  BY DEF FilesInv, FilesAreThere
<1>9. ReadersAreServed'
  <2> SUFFICES ASSUME NEW g \in Uploaders, UploadAt(g, "missing")'
               PROVE  \/ names[Holder(upload'[g].key)] # upload'[g].key
                      \/ upload'[g].key \in doubtful
    BY DEF ReadersAreServed
  <2>1. CASE g # h
    BY <1>3, <2>1 DEF FilesInv, ReadersAreServed, UploadAt
  <2>2. CASE g = h
    <3>1. object[upload[h].key] # "whole" /\ upload'[g].key = upload[h].key /\ upload[h] # NoUpload
      BY <1>3, <2>2, IdleFields DEF UploadAt
    <3>2. upload[h].key \in ObjectKeys /\ upload[h].key # NoFile
      BY <3>1, UploadFields, FilesAssumption DEF FilesInv
    <3>3. Holder(upload[h].key) \in Holders
      BY <3>2, KeyHolder
    <3>. QED
      BY <3>1, <3>2, <3>3 DEF FilesInv, FilesAreThere
  <2>. QED
    BY <2>1, <2>2
<1>10. NothingIsLeftOver'
  <2>1. \A g \in Uploaders \ {h} : Owed(g)' = Owed(g)
    BY <1>3 DEF Owed, Replaced
  <2>. QED
    BY <2>1 DEF FilesInv, NothingIsLeftOver
<1>. QED
  BY <1>6, <1>7, <1>8, <1>9, <1>10 DEF FilesInv

LEMMA QuietStepsKeepFiles ==
  ASSUME FilesInv, NEW h \in Uploaders,
         WriteFileAudit(h) \/ GetObject(h) \/ ReportMissing(h) \/ Die(h)
  PROVE  FilesInv'
<1>1. FilesTypeOK
  BY DEF FilesInv
<1>2. upload[h] # NoUpload
  BY IdleFields DEF WriteFileAudit, GetObject, ReportMissing, Die, UploadAt
<1> DEFINE u == upload[h]
<1>3. /\ u.key \in ObjectKeys /\ u.old \in ObjectKeys \cup {NoFile}
      /\ u = [at |-> u.at, key |-> u.key, old |-> u.old]
      /\ u.at \in {"get", "missing"} => u.old = NoFile
  BY <1>1, <1>2, UploadFields
<1>4. CASE Leave(h) /\ left' = left \cup Owed(h) /\ UNCHANGED <<object, names, begun, doubtful>>
  <2>1. Owed(h) \subseteq ObjectKeys
    BY <1>3 DEF Owed, Replaced
  <2>2. FilesTypeOK'
    BY <1>1, <1>4, <2>1 DEF FilesTypeOK, Leave
  <2>. QED
    BY <1>1, <1>4, <2>1, <2>2, MovesKeepFiles DEF Leave, FilesTypeOK
<1>5. CASE /\ UNCHANGED <<object, names, begun, doubtful, left>>
           /\ \/ Leave(h) /\ Owed(h) = {}
              \/ Go(h, "delete") /\ UploadAt(h, "audit")
              \/ Go(h, "missing") /\ UploadAt(h, "get") /\ object[u.key] # "whole"
  <2>1. CASE Leave(h) /\ Owed(h) = {}
    <3>1. FilesTypeOK'
      BY <1>1, <1>5, <2>1 DEF FilesTypeOK, Leave
    <3>. QED
      BY <1>1, <1>5, <2>1, <3>1, MovesKeepFiles DEF Leave, FilesTypeOK
  <2>2. CASE Go(h, "delete") /\ UploadAt(h, "audit")
    <3> DEFINE j == [at |-> "delete", key |-> u.key, old |-> u.old]
    <3>1. upload' = [upload EXCEPT ![h] = j]
      BY <1>1, <1>2, <2>2, GoesOn
    <3>2. FilesTypeOK'
      BY <1>1, <1>3, <1>5, <3>1 DEF FilesTypeOK, Uploads
    <3>3. Owed(h)' = Owed(h)
      BY <1>1, <2>2, <3>1 DEF Owed, Replaced, UploadAt, FilesTypeOK
    <3>. QED
      BY <1>1, <1>2, <1>5, <2>2, <3>1, <3>2, <3>3, MovesKeepFiles DEF FilesTypeOK
  <2>3. CASE Go(h, "missing") /\ UploadAt(h, "get") /\ object[u.key] # "whole"
    <3> DEFINE j == [at |-> "missing", key |-> u.key, old |-> u.old]
    <3>1. upload' = [upload EXCEPT ![h] = j]
      BY <1>1, <1>2, <2>3, GoesOn
    <3>2. FilesTypeOK'
      BY <1>1, <1>3, <1>5, <2>3, <3>1 DEF FilesTypeOK, Readings, UploadAt
    <3>3. Owed(h) = {}
      BY <2>3 DEF Owed, UploadAt
    <3>. QED
      BY <1>1, <1>2, <1>5, <2>3, <3>1, <3>2, <3>3, MovesKeepFiles DEF FilesTypeOK
  <2>. QED
    BY <1>5, <2>1, <2>2, <2>3
<1>6. WriteFileAudit(h) /\ Replaced(h) = {} => Owed(h) = {}
  BY DEF WriteFileAudit, Owed, UploadAt
<1>7. GetObject(h) \/ ReportMissing(h) => Owed(h) = {}
  BY DEF GetObject, ReportMissing, Owed, UploadAt
<1>. QED
  BY <1>4, <1>5, <1>6, <1>7 DEF WriteFileAudit, GetObject, ReportMissing, Die

LEMMA ReadKeepsFiles ==
  ASSUME FilesInv, NEW h \in Uploaders, NEW x \in Holders, ReadFileName(h, x)
  PROVE  FilesInv'
<1> DEFINE j == [at |-> "get", key |-> names[x], old |-> NoFile]
<1>1. names[x] \in ObjectKeys /\ names[x] \in begun
  BY DEF FilesInv, FilesTypeOK, FilesHeld, ReadFileName
<1>2. /\ upload' = [upload EXCEPT ![h] = j] /\ upload[h] = NoUpload
      /\ UNCHANGED <<object, names, left, begun, doubtful>>
  BY DEF ReadFileName
<1>3. upload'[h] = j /\ \A g \in Uploaders \ {h} : upload'[g] = upload[g]
  BY <1>2 DEF FilesInv, FilesTypeOK
<1>5. FilesTypeOK'
  BY <1>1, <1>2 DEF FilesInv, FilesTypeOK, Readings
<1>6. FilesHeld'
  BY <1>1, <1>2, <1>3 DEF FilesInv, FilesHeld
<1>7. KeysTrue'
  <2> SUFFICES ASSUME NEW k \in ObjectKeys \ doubtful
               PROVE  KeyTrue(k)'
    BY <1>2 DEF KeysTrue
  <2>1. KeyTrue(k) /\ k # NoFile
    BY <1>2, FilesAssumption DEF FilesInv, KeysTrue
  <2>2. \A g \in Uploaders : Unwritten(g) /\ upload[g].key = k => names[x] # k
    BY <2>1 DEF KeyTrue, Unpublished
  <2>. QED
    BY <1>2, <1>3, <2>1, <2>2, IdleFields DEF KeyTrue, Unwritten, Unpublished, UploadAt, Replaced
<1>8. FilesAreThere'
  BY <1>2 DEF FilesInv, FilesAreThere
<1>9. ReadersAreServed'
  BY <1>2, <1>3 DEF FilesInv, ReadersAreServed, UploadAt
<1>10. NothingIsLeftOver'
  <2>1. \A g \in Uploaders : Owed(g) \subseteq Owed(g)'
    BY <1>2, <1>3, IdleFields DEF Owed, Replaced
  <2>. QED
    BY <1>2, <2>1 DEF FilesInv, NothingIsLeftOver
<1>. QED
  BY <1>5, <1>6, <1>7, <1>8, <1>9, <1>10 DEF FilesInv

LEMMA PutKeepsFiles ==
  ASSUME FilesInv, NEW h \in Uploaders, PutObject(h) \/ PutFails(h)
  PROVE  FilesInv'
<1> DEFINE n == upload[h].key
<1>1. /\ FilesTypeOK /\ UploadAt(h, "put") /\ upload[h] # NoUpload
      /\ UNCHANGED <<names, begun, doubtful>>
  BY IdleFields DEF FilesInv, PutObject, PutFails, UploadAt
<1>2. /\ n \in ObjectKeys /\ upload[h].old \in ObjectKeys \cup {NoFile}
      /\ n # NoFile
  BY <1>1, UploadFields, FilesAssumption
<1>3. PICK o \in {"absent", "whole", "broken"}, j \in Uploads \cup {NoUpload} :
        /\ object' = [object EXCEPT ![n] = o]
        /\ upload' = [upload EXCEPT ![h] = j]
        /\ \/ /\ j.at = "row" /\ j.key = n /\ j.old = upload[h].old
              /\ o = "whole" /\ left' = left
           \/ j = NoUpload /\ left' = left \cup {n}
  <2>1. CASE PutObject(h)
    <3> DEFINE j == [at |-> "row", key |-> n, old |-> upload[h].old]
    <3>1. upload' = [upload EXCEPT ![h] = j] /\ j \in Uploads
      BY <1>1, <1>2, <2>1, GoesOn DEF PutObject, Uploads
    <3>2. object' = [object EXCEPT ![n] = "whole"] /\ left' = left
      BY <2>1 DEF PutObject
    <3>3. j.at = "row" /\ j.key = n /\ j.old = upload[h].old
      OBVIOUS
    <3> HIDE DEF j
    <3>. QED
      BY <3>1, <3>2, <3>3
  <2>2. CASE PutFails(h)
    BY <1>1, <1>2, <2>2 DEF PutFails, Leave, FilesTypeOK
  <2>. QED
    BY <2>1, <2>2
<1>4. upload'[h] = j /\ \A g \in Uploaders \ {h} : upload'[g] = upload[g]
  BY <1>1, <1>3 DEF FilesTypeOK
<1>5. object'[n] = o /\ \A k \in ObjectKeys \ {n} : object'[k] = object[k]
  BY <1>1, <1>2, <1>3 DEF FilesTypeOK
<1>6. FilesTypeOK'
  BY <1>1, <1>2, <1>3 DEF FilesTypeOK
<1>7. n \in doubtful \/ Unpublished(n)
  BY <1>1, <1>2 DEF FilesInv, KeysTrue, KeyTrue, Unwritten, UploadAt
<1>8. FilesHeld'
  BY <1>1, <1>3, <1>4, IdleFields DEF FilesInv, FilesHeld
<1>9. KeysTrue'
  <2> SUFFICES ASSUME NEW k \in ObjectKeys \ doubtful
               PROVE  KeyTrue(k)'
    BY <1>1 DEF KeysTrue
  <2>1. KeyTrue(k) /\ k # NoFile
    BY FilesAssumption DEF FilesInv, KeysTrue
  <2>2. CASE j = NoUpload
    <3>1. \A g \in Uploaders : UploadAt(g, "row") /\ upload[g].key = k => n # k \/ g = h
      BY <1>1, <2>1 DEF KeyTrue, Unwritten, UploadAt
    <3>. QED
      BY <1>1, <1>2, <1>4, <1>5, <2>1, <2>2, <3>1, IdleFields
      DEF KeyTrue, Unwritten, Unpublished, UploadAt, Replaced
  <2>3. CASE j # NoUpload
    <3>1. j.at = "row" /\ j.key = n /\ j.old = upload[h].old /\ o = "whole"
      BY <1>3, <2>3
    <3>2. \A g \in Uploaders : UploadAt(g, "row") /\ upload[g].key = k => n # k \/ g = h
      BY <1>1, <2>1 DEF KeyTrue, Unwritten, UploadAt
    <3>3. \A g \in Uploaders : /\ Unwritten(g)' = Unwritten(g)
                               /\ upload'[g].key = upload[g].key
                               /\ upload'[g].old = upload[g].old
                               /\ Replaced(g)' = Replaced(g)
      BY <1>1, <1>4, <3>1 DEF Unwritten, UploadAt, Replaced
    <3>4. /\ Unpublished(k) => Unpublished(k)'
          /\ \A g \in Uploaders : upload'[g].at \in {"audit", "delete", "compensate"} => upload'[g].at = upload[g].at
      BY <1>1, <1>4, <3>1, <3>3 DEF Unpublished
    <3>. QED
      BY <1>1, <1>2, <1>4, <1>5, <2>1, <3>1, <3>2, <3>3, <3>4 DEF KeyTrue, UploadAt
  <2>. QED
    BY <2>2, <2>3
<1>10. FilesAreThere'
  <2>1. \A x \in Holders : names[x] = n => n \in doubtful
    BY <1>7 DEF Unpublished
  <2>2. \A x \in Holders : names[x] \in ObjectKeys \cup {NoFile}
    BY <1>1 DEF FilesTypeOK
  <2>. QED
    BY <1>1, <1>5, <2>1, <2>2 DEF FilesInv, FilesAreThere
<1>11. ReadersAreServed'
  BY <1>1, <1>3, <1>4, IdleFields DEF FilesInv, ReadersAreServed, UploadAt
<1>12. NothingIsLeftOver'
  <2>1. \A g \in Uploaders \ {h} : Owed(g)' = Owed(g)
    BY <1>4 DEF Owed, Replaced
  <2>2. Owed(h) = {}
    BY <1>1 DEF Owed, UploadAt
  <2>3. n \in left' \cup Owed(h)'
    BY <1>3, <1>4 DEF Owed
  <2>4. left \subseteq left'
    BY <1>3
  <2>. QED
    BY <1>1, <1>5, <2>1, <2>2, <2>3, <2>4 DEF FilesInv, NothingIsLeftOver
<1>. QED
  BY <1>6, <1>8, <1>9, <1>10, <1>11, <1>12 DEF FilesInv

LEMMA DeleteKeepsFiles ==
  ASSUME FilesInv, NEW h \in Uploaders, DeleteObject(h)
  PROVE  FilesInv'
<1>1. /\ FilesTypeOK /\ upload[h].at \in {"compensate", "delete"} /\ upload[h] # NoUpload
      /\ UNCHANGED <<names, begun, doubtful>>
      /\ upload' = [upload EXCEPT ![h] = NoUpload]
  BY IdleFields DEF FilesInv, DeleteObject, Leave
<1>2. /\ upload[h].key \in ObjectKeys /\ upload[h].old \in ObjectKeys \cup {NoFile}
      /\ Victim(h) = Owed(h)
  BY <1>1, UploadFields DEF Victim, Owed, UploadAt
<1>3. Victim(h) \subseteq ObjectKeys
  BY <1>2 DEF Victim, Replaced
<1>4. upload'[h] = NoUpload /\ \A g \in Uploaders \ {h} : upload'[g] = upload[g]
  BY <1>1 DEF FilesTypeOK
<1>5. /\ left \subseteq left' /\ left' \subseteq left \cup Victim(h)
      /\ object' \in [ObjectKeys -> {"absent", "whole", "broken"}]
      /\ \A k \in ObjectKeys \ Victim(h) : object'[k] = object[k]
      /\ \A k \in Victim(h) : k \in left' \/ object'[k] = "absent"
  BY <1>1, <1>3 DEF DeleteObject, FilesTypeOK
<1>6. FilesTypeOK'
  BY <1>1, <1>3, <1>5 DEF FilesTypeOK
<1>7. \A k \in Victim(h) \ doubtful : /\ names[Holder(k)] # k
                                      /\ \A g \in Uploaders : ~(UploadAt(g, "row") /\ upload[g].key = k)
  <2> SUFFICES ASSUME NEW k \in Victim(h) \ doubtful
               PROVE  /\ names[Holder(k)] # k
                      /\ \A g \in Uploaders : ~(UploadAt(g, "row") /\ upload[g].key = k)
    OBVIOUS
  <2>1. KeyTrue(k) /\ k \in ObjectKeys
    BY <1>3 DEF FilesInv, KeysTrue
  <2>2. UploadAt(h, "delete") /\ k \in Replaced(h)
    BY <1>1, <2>1 DEF Victim, KeyTrue, UploadAt
  <2>3. upload[h].old = k
    BY <2>2 DEF Replaced
  <2>. QED
    BY <2>1, <2>2, <2>3 DEF KeyTrue, Unwritten, Unpublished, UploadAt
<1>8. FilesHeld'
  BY <1>1, <1>4, IdleFields DEF FilesInv, FilesHeld
<1>9. KeysTrue'
  <2> SUFFICES ASSUME NEW k \in ObjectKeys \ doubtful
               PROVE  KeyTrue(k)'
    BY <1>1 DEF KeysTrue
  <2>1. KeyTrue(k) /\ k # NoFile
    BY FilesAssumption DEF FilesInv, KeysTrue
  <2>. QED
    BY <1>1, <1>4, <1>5, <1>7, <2>1, IdleFields
    DEF KeyTrue, Unwritten, Unpublished, UploadAt, Replaced
<1>10. FilesAreThere'
  <2> SUFFICES ASSUME NEW x \in Holders, names[x] \notin {NoFile} \cup doubtful
               PROVE  object'[names[x]] = "whole"
    BY <1>1 DEF FilesAreThere
  <2>1. names[x] \in ObjectKeys /\ Holder(names[x]) = x /\ object[names[x]] = "whole"
    BY DEF FilesInv, FilesTypeOK, FilesHeld, FilesAreThere
  <2>. QED
    BY <1>5, <1>7, <2>1
<1>11. ReadersAreServed'
  BY <1>1, <1>4, IdleFields DEF FilesInv, ReadersAreServed, UploadAt
<1>12. NothingIsLeftOver'
  <2>1. \A g \in Uploaders \ {h} : Owed(g)' = Owed(g)
    BY <1>4 DEF Owed, Replaced
  <2>. QED
    BY <1>1, <1>2, <1>5, <2>1 DEF FilesInv, NothingIsLeftOver
<1>. QED
  BY <1>6, <1>8, <1>9, <1>10, <1>11, <1>12 DEF FilesInv

\* A row that is made to name a key: of the names only that of its holder
\* changes, and a name that is lost is noted or will be deleted.
LEMMA NamingKeepsFiles ==
  ASSUME FilesInv, NEW h \in Uploaders, NEW j \in Uploads \cup {NoUpload}, NEW known,
         UploadAt(h, "row"), NameObject(h, known),
         upload' = [upload EXCEPT ![h] = j],
         UNCHANGED <<object, begun>>,
         doubtful \subseteq doubtful', doubtful' \subseteq begun,
         \/ j = NoUpload /\ Holder(upload[h].key) \in Records /\ known = {upload[h].old}
         \/ /\ j.key = upload[h].key /\ j.old = upload[h].old
            /\ \/ j.at = "audit" /\ known = {upload[h].old}
               \/ j.at = "compensate" /\ known = {} /\ upload[h].key \in doubtful'
  PROVE  FilesInv'
<1> DEFINE n == upload[h].key
           x == Holder(n)
<1>1. FilesTypeOK /\ upload[h] # NoUpload
  BY IdleFields DEF FilesInv, UploadAt
<1>2. /\ n \in ObjectKeys /\ n # NoFile /\ x \in Holders /\ n \in begun
      /\ upload[h].old \in ObjectKeys \cup {NoFile}
  BY <1>1, UploadFields, FilesAssumption, KeyHolder DEF FilesInv, FilesHeld
<1>3. /\ names'[x] = n
      /\ \A y \in Holders \ {x} : names'[y] = names[y]
      /\ left' = left \cup ({names[x]} \ (known \cup {n, NoFile}))
      /\ names[x] \in ObjectKeys \cup {NoFile}
  BY <1>1, <1>2 DEF NameObject, FilesTypeOK
<1>4. upload'[h] = j /\ \A g \in Uploaders \ {h} : upload'[g] = upload[g]
  BY <1>1 DEF FilesTypeOK
<1>5. names' \in [Holders -> ObjectKeys \cup {NoFile}]
  BY <1>1, <1>2 DEF NameObject, FilesTypeOK
<1>6. FilesTypeOK'
  BY <1>1, <1>3, <1>5 DEF FilesTypeOK
<1>7. FilesHeld'
  BY <1>1, <1>2, <1>3, <1>4, IdleFields DEF FilesInv, FilesHeld
<1>8. n \in doubtful \/ (Unpublished(n) /\ object[n] = "whole")
  BY <1>2 DEF FilesInv, KeysTrue, KeyTrue, Unwritten, UploadAt
<1>9. KeysTrue'
  <2> SUFFICES ASSUME NEW k \in ObjectKeys \ doubtful'
               PROVE  KeyTrue(k)'
    BY DEF KeysTrue
  <2>1. KeyTrue(k) /\ k # NoFile /\ k \notin doubtful
    BY FilesAssumption DEF FilesInv, KeysTrue
  <2>2. /\ \A g \in Uploaders : Unwritten(g)' => g # h /\ Unwritten(g)
        /\ \A g \in Uploaders : UploadAt(g, "row")' => g # h /\ UploadAt(g, "row")
        /\ \A g \in Uploaders : upload'[g].old = k => upload[g].old = k
        /\ \A g \in Uploaders : upload'[g].at \in {"get", "missing"} => g # h
    BY <1>4, <2>1, IdleFields DEF Unwritten, UploadAt
  <2>3. \A g \in Uploaders : Unwritten(g)' /\ upload'[g].key = k => n # k /\ Unpublished(k)
    BY <1>4, <2>1, <2>2 DEF KeyTrue, Unwritten, UploadAt
  <2>4. n # k /\ Unpublished(k) => Unpublished(k)'
    BY <1>3, <1>4, <2>2 DEF Unpublished
  <2>5. ASSUME NEW g \in Uploaders, upload'[g].at \in {"audit", "delete"}, k \in Replaced(g)'
        PROVE  names'[Holder(k)] # k
    <3>1. CASE g = h
      <4>1. k # n
        BY <1>4, <2>5, <3>1, IdleFields DEF Replaced
      <4>2. k = upload[h].old /\ Holder(k) = x
        BY <1>1, <1>4, <2>1, <2>5, <3>1, IdleFields DEF Replaced, FilesInv, FilesHeld
      <4>. QED
        BY <1>3, <4>1, <4>2
    <3>2. CASE g # h
      <4>1. upload[g].at \in {"audit", "delete"} /\ k \in Replaced(g)
        BY <1>4, <2>5, <3>2 DEF Replaced
      <4>2. names[Holder(k)] # k /\ upload[g].old = k
        BY <2>1, <4>1 DEF KeyTrue, Replaced
      <4>3. n # k
        BY <1>8, <2>1, <4>2 DEF Unpublished
      <4>. QED
        BY <1>3, <4>2, <4>3, KeyHolder
    <3>. QED
      BY <3>1, <3>2
  <2>6. \A g \in Uploaders : UploadAt(g, "compensate")' => upload'[g].key # k
    BY <1>4, <2>1, IdleFields DEF KeyTrue, UploadAt
  <2>7. \A g \in Uploaders : UploadAt(g, "row")' /\ upload'[g].key = k => object[k] = "whole"
    BY <1>4, <2>1, <2>2 DEF KeyTrue, UploadAt
  <2>8. \A f, g \in Uploaders :
           Unwritten(f)' /\ Unwritten(g)' /\ upload'[f].key = k /\ upload'[g].key = k => f = g
    BY <1>4, <2>1, <2>2 DEF KeyTrue
  <2>9. \A g \in Uploaders : Unwritten(g)' /\ upload'[g].key = k => Unpublished(k)'
    BY <2>3, <2>4
  <2>. QED
    BY <2>5, <2>6, <2>7, <2>8, <2>9 DEF KeyTrue
<1>10. FilesAreThere'
  BY <1>3, <1>8 DEF FilesInv, FilesAreThere
<1>11. ReadersAreServed'
  <2> SUFFICES ASSUME NEW g \in Uploaders, UploadAt(g, "missing")', upload'[g].key \notin doubtful'
               PROVE  names'[Holder(upload'[g].key)] # upload'[g].key
    BY DEF ReadersAreServed
  <2>1. g # h /\ upload'[g] = upload[g]
    BY <1>4, IdleFields DEF UploadAt
  <2>2. upload[g] # NoUpload /\ upload[g].at = "missing"
    BY <2>1, IdleFields DEF UploadAt
  <2>3. names[Holder(upload[g].key)] # upload[g].key /\ Holder(upload[g].key) \in Holders
    BY <1>1, <2>1, <2>2, UploadFields, KeyHolder DEF FilesInv, ReadersAreServed, UploadAt
  <2>4. upload[g].key # n
    BY <1>8, <2>1, <2>2 DEF Unpublished
  <2>. QED
    BY <1>3, <2>1, <2>3, <2>4
<1>12. NothingIsLeftOver'
  <2>1. \A g \in Uploaders \ {h} : Owed(g)' = Owed(g)
    BY <1>4 DEF Owed, Replaced
  <2>2. Owed(h) = {n}
    BY DEF Owed, UploadAt
  <2>3. names[x] \in {n, NoFile} \cup left' \cup Owed(h)'
    <3>1. CASE j = NoUpload
      <4>1. upload[h].old = NoFile
        BY <1>1, <3>1, IdleFields, FilesAssumption DEF FilesInv, FilesHeld
      <4>. QED
        BY <1>3, <3>1, <4>1, IdleFields
    <3>2. CASE j # NoUpload /\ j.at = "audit"
      <4>1. Owed(h)' = {upload[h].old} \ {n, NoFile}
        BY <1>4, <3>2, IdleFields DEF Owed, Replaced
      <4>. QED
        BY <1>3, <3>2, <4>1, IdleFields
    <3>3. CASE j # NoUpload /\ j.at = "compensate"
      BY <1>3, <3>3, IdleFields
    <3>. QED
      BY <3>1, <3>2, <3>3
  <2> SUFFICES ASSUME NEW k \in ObjectKeys, object[k] # "absent", k \notin left'
               PROVE  (\E y \in Holders : names'[y] = k) \/ (\E g \in Uploaders : k \in Owed(g)')
    BY DEF NothingIsLeftOver
  <2>4. CASE k = n
    BY <1>2, <1>3, <2>4
  <2>5. CASE k # n /\ \E y \in Holders : names[y] = k
    BY <1>2, <1>3, <2>3, <2>5, FilesAssumption
  <2>6. CASE k # n /\ \E g \in Uploaders : k \in Owed(g)
    BY <2>1, <2>2, <2>6
  <2>. QED
    BY <1>3, <2>4, <2>5, <2>6 DEF FilesInv, NothingIsLeftOver
<1>. QED
  BY <1>6, <1>7, <1>9, <1>10, <1>11, <1>12 DEF FilesInv

\* A row or an audit row that is reported as failed without a name changing.
LEMMA FailingKeepsFiles ==
  ASSUME FilesInv, NEW h \in Uploaders,
         upload[h].at \in {"row", "audit"}, Go(h, "compensate"),
         UNCHANGED <<object, names, begun>>,
         doubtful' = doubtful \cup {upload[h].key},
         \/ UploadAt(h, "row") /\ left' = left
         \/ UploadAt(h, "audit") /\ left' = left \cup Replaced(h)
  PROVE  FilesInv'
<1> DEFINE n == upload[h].key
           j == [at |-> "compensate", key |-> n, old |-> upload[h].old]
<1>1. FilesTypeOK /\ upload[h] # NoUpload
  BY IdleFields DEF FilesInv, UploadAt
<1>2. /\ n \in ObjectKeys /\ n \in begun
      /\ upload[h].old \in ObjectKeys \cup {NoFile}
      /\ upload' = [upload EXCEPT ![h] = j] /\ j \in Uploads
  BY <1>1, UploadFields, GoesOn DEF FilesInv, FilesHeld, Uploads
<1>3. /\ upload'[h].at = "compensate" /\ upload'[h].key = n /\ upload'[h].old = upload[h].old
      /\ \A g \in Uploaders \ {h} : upload'[g] = upload[g]
  BY <1>1, <1>2 DEF FilesTypeOK
<1>4. FilesTypeOK'
  BY <1>1, <1>2 DEF FilesTypeOK, Replaced
<1>5. FilesHeld'
  BY <1>1, <1>3 DEF FilesInv, FilesHeld
<1>6. KeysTrue'
  <2> SUFFICES ASSUME NEW k \in ObjectKeys \ doubtful'
               PROVE  KeyTrue(k)'
    BY DEF KeysTrue
  <2>1. KeyTrue(k) /\ k # n
    BY DEF FilesInv, KeysTrue
  <2>. QED
    BY <1>3, <2>1 DEF KeyTrue, Unwritten, Unpublished, UploadAt, Replaced
<1>7. FilesAreThere'
  BY DEF FilesInv, FilesAreThere
<1>8. ReadersAreServed'
  BY <1>3 DEF FilesInv, ReadersAreServed, UploadAt
<1>9. NothingIsLeftOver'
  <2>1. \A g \in Uploaders \ {h} : Owed(g)' = Owed(g)
    BY <1>3 DEF Owed, Replaced
  <2>2. Owed(h) \subseteq left' \cup Owed(h)'
    BY <1>3 DEF Owed, UploadAt
  <2>. QED
    BY <2>1, <2>2 DEF FilesInv, NothingIsLeftOver
<1>. QED
  BY <1>4, <1>5, <1>6, <1>7, <1>8, <1>9 DEF FilesInv

LEMMA RowKeepsFiles ==
  ASSUME FilesInv, NEW h \in Uploaders, WriteFileRow(h) \/ FileRowFails(h)
  PROVE  FilesInv'
<1> DEFINE u == upload[h]
<1>1. FilesTypeOK /\ u # NoUpload
  BY IdleFields DEF FilesInv, WriteFileRow, FileRowFails, UploadAt
<1>2. /\ u.key \in ObjectKeys /\ u.old \in ObjectKeys \cup {NoFile} /\ u.key \in begun
      /\ Holder(u.key) \in Drafts \cup Records /\ doubtful \subseteq begun
  BY <1>1, UploadFields, KeyHolder DEF FilesInv, FilesHeld, FilesTypeOK, Holders
<1>3. CASE WriteFileRow(h)
  <2>1. CASE Holder(u.key) \in Drafts
    <3> DEFINE j == [at |-> "audit", key |-> u.key, old |-> u.old]
    <3>1. upload' = [upload EXCEPT ![h] = j] /\ j \in Uploads
      BY <1>1, <1>2, <1>3, <2>1, GoesOn DEF WriteFileRow, Uploads
    <3>2. j.at = "audit" /\ j.key = u.key /\ j.old = u.old
      OBVIOUS
    <3> HIDE DEF j
    <3>. QED
      BY <1>2, <1>3, <3>1, <3>2, NamingKeepsFiles DEF WriteFileRow
  <2>2. CASE Holder(u.key) \notin Drafts
    BY <1>2, <1>3, <2>2, NamingKeepsFiles DEF WriteFileRow, Leave
  <2>. QED
    BY <2>1, <2>2
<1>4. CASE FileRowFails(h)
  <2>1. CASE UploadAt(h, "row") /\ NameObject(h, {})
    <3> DEFINE j == [at |-> "compensate", key |-> u.key, old |-> u.old]
    <3>1. upload' = [upload EXCEPT ![h] = j] /\ j \in Uploads
      BY <1>1, <1>2, <1>4, <2>1, GoesOn DEF FileRowFails, Uploads
    <3>2. j.at = "compensate" /\ j.key = u.key /\ j.old = u.old
      OBVIOUS
    <3> HIDE DEF j
    <3>. QED
      BY <1>2, <1>4, <2>1, <3>1, <3>2, NamingKeepsFiles DEF FileRowFails
  <2>2. CASE UploadAt(h, "row") /\ UNCHANGED <<names, left>>
    BY <1>4, <2>2, FailingKeepsFiles DEF FileRowFails, UploadAt
  <2>3. CASE UploadAt(h, "audit") /\ left' = left \cup Replaced(h) /\ UNCHANGED names
    BY <1>4, <2>3, FailingKeepsFiles DEF FileRowFails, UploadAt
  <2>. QED
    BY <1>4, <2>1, <2>2, <2>3 DEF FileRowFails
<1>. QED
  BY <1>3, <1>4

LEMMA StepsKeepFiles == FilesInv /\ [FilesNext]_fileVars => FilesInv'
<1> SUFFICES ASSUME FilesInv, [FilesNext]_fileVars
             PROVE  FilesInv'
  OBVIOUS
<1>1. ASSUME NEW h \in Uploaders, NEW x \in Holders, NEW c \in Contents, BeginUpload(h, x, c)
      PROVE  FilesInv'
  BY <1>1, BeginKeepsFiles
<1>2. ASSUME NEW h \in Uploaders,
             \/ PutObject(h) \/ PutFails(h) \/ WriteFileRow(h) \/ WriteFileAudit(h)
             \/ FileRowFails(h) \/ DeleteObject(h) \/ GetObject(h) \/ ReportMissing(h) \/ Die(h)
      PROVE  FilesInv'
  BY <1>2, PutKeepsFiles, RowKeepsFiles, DeleteKeepsFiles, QuietStepsKeepFiles
<1>3. ASSUME NEW h \in Uploaders, NEW x \in Holders, ReadFileName(h, x)
      PROVE  FilesInv'
  BY <1>3, ReadKeepsFiles
<1>4. CASE UNCHANGED fileVars
  BY <1>4 DEF fileVars, FilesInv, FilesTypeOK, FilesHeld, KeysTrue, KeyTrue, Unwritten, Unpublished,
     FilesAreThere, ReadersAreServed, NothingIsLeftOver, UploadAt, Owed, Replaced
<1>. QED
  BY <1>1, <1>2, <1>3, <1>4 DEF FilesNext, UploadStep, ReadFileStep

\* Stores and rows of files are well typed (storage.ts, files.ts, evidence.ts).
THEOREM FilesTypeCorrect == FilesSpec => []FilesTypeOK
<1>1. FilesInit => FilesInv
  BY FilesInitially
<1>2. FilesInv /\ [FilesNext]_fileVars => FilesInv'
  BY StepsKeepFiles
<1>3. FilesInv => FilesTypeOK
  BY DEF FilesInv
<1>. QED
  BY <1>1, <1>2, <1>3, PTL DEF FilesSpec

\* A named file is in the store, a reader misses only what was replaced, and
\* nothing is left over in the store but by deaths, failures and names that
\* were overwritten unseen (attachDocumentRevisionFile, attachQualityEvidence).
THEOREM StoredFilesAreKept == FilesSpec => []StoreMatchesRows
<1>1. FilesInit => FilesInv
  BY FilesInitially
<1>2. FilesInv /\ [FilesNext]_fileVars => FilesInv'
  BY StepsKeepFiles
<1>3. FilesInv => StoreMatchesRows
  BY DEF FilesInv, StoreMatchesRows
<1>. QED
  BY <1>1, <1>2, <1>3, PTL DEF FilesSpec

-----------------------------------------------------------------------------
(* Searching in what is released.                                          *)

\* A vector was made of the content its checksum tells.
TrueTo(v) == v.text = v.checksum \/ v.issue \in muddled

VectorsTrue ==
    /\ \A i \in Issues : vectors[i] # NoVector => vectors[i].issue = i /\ TrueTo(vectors[i])
    /\ \A x \in Indexers :
           indexing[x] # NoVector /\ indexing[x].text # NoVector => TrueTo(indexing[x])

\* What a search has read, and what it has found by the rows.
ReadTrue(s) ==
    /\ IsFiniteSet(search[s].read) /\ IsFiniteSet(search[s].found)
    /\ search[s].at \in {"query", "lookup"} => search[s].found = {}
    /\ \A v \in search[s].read : TrueTo(v)
    /\ \A v \in search[s].found : TrueTo(v) /\ v.issue \notin gone[s]

\* What was out of force when a search began, and was not brought back since, is
\* not in force as of then.
GoneStays(s) == \A i \in gone[s] : ~IsEffective(i, search[s].asOf)

\* What stays in force and indexed is among the vectors that are read, and is
\* found unless others come first.
SteadyStays(s) ==
    \A i \in steady[s] :
        /\ IsEffective(i, search[s].asOf)
        /\ vectors[i] = TrueVector(i)
        /\ search[s].at # "query" => TrueVector(i) \in search[s].read
        /\ search[s].at = "answered" =>
               \/ TrueVector(i) \in search[s].found
               \/ Cardinality(Ahead(search[s].score, TrueVector(i), search[s].read)) >= Oversampled

SearchInv ==
    /\ SearchTypeOK
    /\ VectorsTrue
    /\ \A s \in Searchers : search[s] # NoVector => ReadTrue(s) /\ GoneStays(s) /\ SteadyStays(s)

-----------------------------------------------------------------------------
LEMMA SearchFields ==
  ASSUME SearchTypeOK, NEW s \in Searchers, search[s] # NoVector
  PROVE  /\ search[s].at \in {"query", "lookup", "answered"}
         /\ search[s].score \in Rankings
         /\ search[s].asOf \in Days
         /\ search[s].read \in SUBSET Vector
         /\ search[s].found \in SUBSET Vector
         /\ search[s] = [at |-> search[s].at, score |-> search[s].score, asOf |-> search[s].asOf,
                         read |-> search[s].read, found |-> search[s].found]
BY DEF SearchTypeOK, Search

LEMMA IssueFields ==
  ASSUME SearchTypeOK, NEW i \in Issues
  PROVE  /\ issue[i] # Draft <=> issue[i].status # "DRAFT"
         /\ issue[i] # Draft => issue[i] \in Issue
         /\ issue[i] = Draft => issue[i].status = "DRAFT"
BY DEF SearchTypeOK, Issue, Draft

\* An answer leaves out what is steady only for others that come first.
LEMMA SoundSearches == SearchInv => SearchIsSound
<1> SUFFICES ASSUME SearchInv, NEW s \in Searchers, search[s] # NoVector
             PROVE  /\ \A v \in search[s].found : v.issue \notin gone[s]
                    /\ \A v \in search[s].found : v.text = v.checksum \/ v.issue \in muddled
                    /\ search[s].at = "answered" => \A i \in steady[s] :
                         \/ TrueVector(i) \in Results(s)
                         \/ Cardinality(Ahead(search[s].score, TrueVector(i), search[s].read))
                              >= Oversampled
                         \/ Cardinality(Ahead(search[s].score, TrueVector(i), search[s].found))
                              >= resultLimit
  BY DEF SearchIsSound, NothingGoneIsFound, FoundAsCited, NothingSteadyIsMissed
<1>1. ReadTrue(s) /\ SteadyStays(s)
  BY DEF SearchInv
<1>2. ASSUME NEW i \in steady[s], TrueVector(i) \in search[s].found, TrueVector(i) \notin Results(s)
      PROVE  Cardinality(Ahead(search[s].score, TrueVector(i), search[s].found)) >= resultLimit
  <2> DEFINE A == Ahead(search[s].score, TrueVector(i), search[s].found)
  <2>1. IsFiniteSet(A)
    BY <1>1, FS_Subset DEF ReadTrue, Ahead
  <2>2. Cardinality(A) \in Nat
    BY <2>1, FS_CardinalityType
  <2>3. ~(Cardinality(A) < resultLimit)
    BY <1>2 DEF Results, Best
  <2>. QED
    BY <2>2, <2>3, SearchAssumption
<1>. QED
  BY <1>1, <1>2 DEF ReadTrue, TrueTo, SteadyStays

LEMMA SearchInitially == SearchInit => SearchInv
<1> SUFFICES ASSUME SearchInit PROVE SearchInv
  OBVIOUS
<1>1. SearchTypeOK
  <2>1. 0 \in Days /\ 0 \in 0..MaxChanges
    BY SearchAssumption DEF Days
  <2>. QED
    BY <2>1 DEF SearchInit, SearchTypeOK
<1>. QED
  BY <1>1 DEF SearchInit, SearchInv, VectorsTrue

\* Steps of the issues: what is steady for a search is not touched, and what comes
\* into force is no longer gone.
LEMMA IssuesKeepSearches ==
  ASSUME SearchInv, SearchTypeOK',
         NEW k \in Issues, NEW r, issue' = [issue EXCEPT ![k] = r],
         UNCHANGED <<vectors, indexing, search, muddled>>,
         \/ UNCHANGED steady /\ issue[k].status # "EFFECTIVE"
         \/ Touched(k),
         \/ UNCHANGED gone /\ r.status # "EFFECTIVE"
         \/ /\ UNCHANGED gone
            /\ r.status = issue[k].status
            /\ r.effectiveAt = issue[k].effectiveAt /\ r.expiresAt = issue[k].expiresAt
         \/ Returned(k)
  PROVE  SearchInv'
<1>1. VectorsTrue'
  BY DEF SearchInv, VectorsTrue, TrueTo
<1>2. ASSUME NEW s \in Searchers, search'[s] # NoVector
      PROVE  ReadTrue(s)' /\ GoneStays(s)' /\ SteadyStays(s)'
  <2>1. search'[s] = search[s] /\ gone'[s] \subseteq gone[s] /\ search[s] # NoVector
    BY <1>2 DEF Returned, SearchInv, SearchTypeOK
  <2>2. ReadTrue(s) /\ GoneStays(s) /\ SteadyStays(s)
    BY <2>1 DEF SearchInv
  <2>3. ReadTrue(s)'
    BY <2>1, <2>2 DEF ReadTrue, TrueTo
  <2>4. GoneStays(s)'
    <3> SUFFICES ASSUME NEW i \in gone'[s]
                 PROVE  ~IsEffective(i, search[s].asOf)'
      BY <2>1 DEF GoneStays, IsEffective
    <3>1. i \in Issues /\ ~IsEffective(i, search[s].asOf)
      BY <2>1, <2>2 DEF GoneStays, SearchInv, SearchTypeOK
    <3>2. issue'[i] = IF i = k THEN r ELSE issue[i]
      BY <3>1 DEF SearchInv, SearchTypeOK
    <3>3. ~(i = k /\ Returned(k))
      BY DEF Returned, SearchInv, SearchTypeOK
    <3>. QED
      BY <2>1, <3>1, <3>2, <3>3 DEF IsEffective
  <2>5. SteadyStays(s)'
    <3> SUFFICES ASSUME NEW i \in steady'[s]
                 PROVE  /\ IsEffective(i, search[s].asOf)'
                        /\ vectors'[i] = TrueVector(i)'
                        /\ search'[s].at # "query" => TrueVector(i)' \in search'[s].read
                        /\ search'[s].at = "answered" =>
                             \/ TrueVector(i)' \in search'[s].found
                             \/ Cardinality(Ahead(search'[s].score, TrueVector(i)', search'[s].read))
                                  >= Oversampled
      BY DEF SteadyStays, Ahead, Before, IsEffective
    <3>1. i \in steady[s] /\ i \in Issues
      BY DEF SearchInv, SearchTypeOK, Touched
    <3>2. IsEffective(i, search[s].asOf)
      BY <2>2, <3>1 DEF SteadyStays
    <3>3. i # k
      <4>1. ~(i = k /\ Touched(k))
        BY DEF Touched, SearchInv, SearchTypeOK
      <4>. QED
        BY <3>2, <4>1 DEF IsEffective
    <3>4. issue'[i] = issue[i]
      BY <3>1, <3>3 DEF SearchInv, SearchTypeOK
    <3>5. TrueVector(i)' = TrueVector(i) /\ IsEffective(i, search[s].asOf)'
      BY <2>1, <3>2, <3>4 DEF TrueVector, IsEffective
    <3>. QED
      BY <2>1, <2>2, <3>1, <3>5 DEF SteadyStays
  <2>. QED
    BY <2>3, <2>4, <2>5
<1>. QED
  BY <1>1, <1>2 DEF SearchInv

\* Steps that read for the index leave the searches alone.
LEMMA IndexingKeepsSearches ==
  ASSUME SearchInv, SearchTypeOK', VectorsTrue',
         UNCHANGED <<issue, vectors, search, gone, steady>>,
         muddled \subseteq muddled'
  PROVE  SearchInv'
<1>1. ASSUME NEW s \in Searchers, search'[s] # NoVector
      PROVE  ReadTrue(s)' /\ GoneStays(s)' /\ SteadyStays(s)'
  <2>1. ReadTrue(s) /\ GoneStays(s) /\ SteadyStays(s)
    BY <1>1 DEF SearchInv
  <2>2. ReadTrue(s)'
    BY <2>1 DEF ReadTrue, TrueTo
  <2>3. GoneStays(s)'
    BY <2>1 DEF GoneStays, IsEffective
  <2>4. ASSUME NEW i
        PROVE  /\ TrueVector(i)' = TrueVector(i)
               /\ IsEffective(i, search[s].asOf)' <=> IsEffective(i, search[s].asOf)
    BY DEF TrueVector, IsEffective
  <2>5. SteadyStays(s)'
    BY <2>1, <2>4 DEF SteadyStays, Ahead, Before
  <2>. QED
    BY <2>2, <2>3, <2>5
<1>. QED
  BY <1>1 DEF SearchInv

LEMMA IndexStepsKeepSearches ==
  ASSUME SearchInv, NEW x \in Indexers,
         (\E i \in Issues : FindRevision(x, i)) \/ ReadFile(x) \/ Upsert(x) \/ IndexFails(x)
  PROVE  SearchInv'
<1>1. SearchTypeOK /\ VectorsTrue
  BY DEF SearchInv
<1>2. ASSUME NEW i \in Issues, FindRevision(x, i)
      PROVE  SearchInv'
  <2>1. issue[i].file \in Texts
    BY <1>1, <1>2 DEF FindRevision, IsEffective, SearchTypeOK, Issue, Draft
  <2>2. SearchTypeOK'
    BY <1>1, <1>2, <2>1 DEF FindRevision, SearchTypeOK, Indexing
  <2>3. VectorsTrue'
    BY <1>1, <1>2 DEF FindRevision, VectorsTrue, TrueTo, SearchTypeOK
  <2>. QED
    BY <1>2, <2>2, <2>3, IndexingKeepsSearches DEF FindRevision
<1>3. ASSUME ReadFile(x)
      PROVE  SearchInv'
  <2>0. PICK j, t : j = indexing[x] /\ t = issue[j.issue].file
    OBVIOUS
  <2>1. /\ j \in Indexing /\ j.issue \in Issues /\ j.checksum \in Texts
        /\ j = [issue |-> j.issue, checksum |-> j.checksum, text |-> j.text]
    BY <1>1, <1>3, <2>0 DEF ReadFile, SearchTypeOK, Indexing
  <2>2. t \in Texts \cup {NoVector}
    BY <1>1, <2>0, <2>1 DEF SearchTypeOK, Issue, Draft
  <2>3. PICK k : k = [issue |-> j.issue, checksum |-> j.checksum, text |-> t]
    OBVIOUS
  <2>31. k \in Indexing /\ k.issue = j.issue /\ k.checksum = j.checksum /\ k.text = t
    BY <2>1, <2>2, <2>3 DEF Indexing
  <2>32. indexing' = [indexing EXCEPT ![x] = k]
    <3>1. [j EXCEPT !.text = t] = k
      BY <2>1, <2>3
    <3>2. indexing' = [indexing EXCEPT ![x] = [j EXCEPT !.text = t]]
      BY <1>3, <2>0 DEF ReadFile
    <3>. QED
      BY <3>1, <3>2
  <2>4. muddled' = IF t = j.checksum THEN muddled ELSE muddled \cup {j.issue}
    BY <1>3, <2>0 DEF ReadFile
  <2>5. SearchTypeOK'
    BY <1>1, <1>3, <2>1, <2>31, <2>32, <2>4 DEF ReadFile, SearchTypeOK
  <2>6. VectorsTrue'
    <3>1. ASSUME NEW v, TrueTo(v)
          PROVE  TrueTo(v)'
      BY <2>4, <3>1 DEF TrueTo
    <3>2. \A i \in Issues :
            vectors'[i] # NoVector => vectors'[i].issue = i /\ TrueTo(vectors[i])'
      BY <1>1, <1>3, <2>4 DEF ReadFile, VectorsTrue, TrueTo
    <3>3. TrueTo(k)'
      BY <2>31, <2>4 DEF TrueTo
    <3>4. ASSUME NEW y \in Indexers, indexing'[y] # NoVector, indexing'[y].text # NoVector
          PROVE  TrueTo(indexing[y])'
      <4>1. CASE y = x
        <5>1. indexing'[y] = k
          BY <1>1, <2>32, <4>1 DEF SearchTypeOK
        <5>. QED
          BY <3>3, <5>1 DEF TrueTo
      <4>2. CASE y # x
        <5>1. indexing'[y] = indexing[y]
          BY <1>1, <2>32, <4>2 DEF SearchTypeOK
        <5>2. TrueTo(indexing[y])
          BY <1>1, <3>4, <5>1 DEF VectorsTrue
        <5>. QED
          BY <2>4, <5>1, <5>2 DEF TrueTo
      <4>. QED
        BY <4>1, <4>2
    <3>. QED
      BY <3>2, <3>4 DEF VectorsTrue
  <2>. QED
    BY <1>3, <2>4, <2>5, <2>6, IndexingKeepsSearches DEF ReadFile
<1>4. ASSUME IndexFails(x)
      PROVE  SearchInv'
  <2>1. SearchTypeOK'
    BY <1>1, <1>4 DEF IndexFails, SearchTypeOK
  <2>2. VectorsTrue'
    BY <1>1, <1>4 DEF IndexFails, VectorsTrue, TrueTo, SearchTypeOK
  <2>. QED
    BY <1>4, <2>1, <2>2, IndexingKeepsSearches DEF IndexFails
<1>5. ASSUME Upsert(x)
      PROVE  SearchInv'
  <2>1. PICK j : j = indexing[x]
    OBVIOUS
  <2>2. /\ j \in Vector /\ j.issue \in Issues /\ TrueTo(j)
        /\ vectors' = [vectors EXCEPT ![j.issue] = j]
        /\ indexing' = [indexing EXCEPT ![x] = NoVector]
        /\ Touched(j.issue)
        /\ UNCHANGED <<issue, search, today, gone, muddled, changes>>
    BY <1>1, <1>5, <2>1 DEF Upsert, SearchTypeOK, Indexing, Vector, VectorsTrue
  <2>3. SearchTypeOK'
    BY <1>1, <2>2 DEF Touched, SearchTypeOK
  <2>4. VectorsTrue'
    BY <1>1, <2>2 DEF VectorsTrue, TrueTo, SearchTypeOK
  <2>5. ASSUME NEW s \in Searchers, search'[s] # NoVector
        PROVE  ReadTrue(s)' /\ GoneStays(s)' /\ SteadyStays(s)'
    <3>1. ReadTrue(s) /\ GoneStays(s) /\ SteadyStays(s)
      BY <2>2, <2>5 DEF SearchInv
    <3>2. ReadTrue(s)' /\ GoneStays(s)'
      BY <2>2, <3>1 DEF ReadTrue, GoneStays, TrueTo, IsEffective
    <3>3. ASSUME NEW i \in steady'[s]
          PROVE  i \in steady[s] /\ vectors'[i] = vectors[i]
      BY <1>1, <2>2, <3>3 DEF Touched, SearchTypeOK
    <3>4. SteadyStays(s)'
      BY <2>2, <3>1, <3>3 DEF SteadyStays, TrueVector, Ahead, Before, IsEffective
    <3>. QED
      BY <3>2, <3>4
  <2>. QED
    BY <2>3, <2>4, <2>5 DEF SearchInv
<1>. QED
  BY <1>2, <1>3, <1>4, <1>5

-----------------------------------------------------------------------------
\* A step of one search, which leaves what it is about alone.
LEMMA OneSearchKeepsAll ==
  ASSUME SearchInv, SearchTypeOK', NEW s \in Searchers, NEW j, NEW G, NEW S,
         search' = [search EXCEPT ![s] = j],
         gone' = [gone EXCEPT ![s] = G],
         steady' = [steady EXCEPT ![s] = S],
         UNCHANGED <<issue, vectors, indexing, muddled>>,
         j # NoVector => ReadTrue(s)' /\ GoneStays(s)' /\ SteadyStays(s)'
  PROVE  SearchInv'
<1>1. VectorsTrue'
  BY DEF SearchInv, VectorsTrue, TrueTo
<1>2. ASSUME NEW u \in Searchers, search'[u] # NoVector
      PROVE  ReadTrue(u)' /\ GoneStays(u)' /\ SteadyStays(u)'
  <2>1. CASE u = s
    BY <1>2, <2>1 DEF SearchInv, SearchTypeOK
  <2>2. CASE u # s
    <3>1. search'[u] = search[u] /\ gone'[u] = gone[u] /\ steady'[u] = steady[u]
      BY <2>2 DEF SearchInv, SearchTypeOK
    <3>2. ReadTrue(u) /\ GoneStays(u) /\ SteadyStays(u)
      BY <1>2, <3>1 DEF SearchInv
    <3>. QED
      BY <3>1, <3>2 DEF ReadTrue, GoneStays, SteadyStays, TrueTo, TrueVector, Ahead, Before, IsEffective
  <2>. QED
    BY <2>1, <2>2
<1>. QED
  BY <1>1, <1>2 DEF SearchInv

LEMMA StartKeepsSearches ==
  ASSUME SearchInv, NEW s \in Searchers, NEW score \in Rankings, StartSearch(s, score)
  PROVE  SearchInv'
<1>1. SearchTypeOK
  BY DEF SearchInv
<1>2. search' = [search EXCEPT ![s] =
        [at |-> "query", score |-> score, asOf |-> today, read |-> {}, found |-> {}]]
  BY DEF StartSearch
<1>3. PICK j : j = [at |-> "query", score |-> score, asOf |-> today, read |-> {}, found |-> {}]
  OBVIOUS
<1>4. j \in Search /\ search' = [search EXCEPT ![s] = j]
  BY <1>1, <1>2, <1>3 DEF Search, SearchTypeOK
<1>5. /\ gone' = [gone EXCEPT ![s] =
           {i \in Issues : ~IsEffective(i, today)}]
      /\ steady' = [steady EXCEPT ![s] =
           {i \in Issues : IsEffective(i, today) /\ vectors[i] = TrueVector(i)}]
      /\ UNCHANGED <<issue, vectors, indexing, today, muddled, changes>>
  BY DEF StartSearch
<1>6. SearchTypeOK'
  BY <1>1, <1>4, <1>5 DEF SearchTypeOK
<1>7. search'[s] = j
  BY <1>1, <1>4 DEF SearchTypeOK
<1>8. ReadTrue(s)'
  BY <1>3, <1>7, FS_EmptySet DEF ReadTrue
<1>9. GoneStays(s)'
  BY <1>1, <1>3, <1>5, <1>7 DEF GoneStays, SearchTypeOK, IsEffective
<1>10. SteadyStays(s)'
  <2>1. ASSUME NEW i \in steady'[s]
        PROVE  i \in Issues /\ IsEffective(i, today) /\ vectors[i] = TrueVector(i)
    BY <1>1, <1>5, <2>1 DEF SearchTypeOK
  <2>. QED
    BY <1>3, <1>5, <1>7, <2>1 DEF SteadyStays, IsEffective, TrueVector
<1>. QED
  BY <1>4, <1>5, <1>6, <1>8, <1>9, <1>10, OneSearchKeepsAll

LEMMA QueryKeepsSearches ==
  ASSUME SearchInv, NEW s \in Searchers, Query(s)
  PROVE  SearchInv'
<1>1. SearchTypeOK /\ VectorsTrue /\ search[s] # NoVector /\ search[s].at = "query"
  BY DEF SearchInv, Query
<1>2. ReadTrue(s) /\ GoneStays(s) /\ SteadyStays(s)
  BY <1>1 DEF SearchInv
<1>3. PICK R : R = {vectors[i] : i \in Indexed}
  OBVIOUS
<1>4. R \subseteq Vector /\ \A v \in R : TrueTo(v)
  BY <1>1, <1>3 DEF Indexed, SearchTypeOK, VectorsTrue
<1>5. IsFiniteSet(R)
  <2>1. IsFiniteSet(Indexed)
    BY FS_Subset, SearchAssumption DEF Indexed
  <2> DEFINE f == [i \in Indexed |-> vectors[i]]
  <2>2. f \in Surjection(Indexed, R)
    BY <1>3 DEF Surjection
  <2> HIDE DEF f
  <2>. QED
    BY <2>1, <2>2, FS_Surjection
<1>6. PICK j : j = [search[s] EXCEPT !.at = "lookup", !.read = R]
  OBVIOUS
<1>7. /\ j \in Search /\ j.at = "lookup" /\ j.read = R
      /\ j.score = search[s].score /\ j.asOf = search[s].asOf /\ j.found = search[s].found
  BY <1>1, <1>4, <1>6 DEF SearchTypeOK, Search
<1>8. search' = [search EXCEPT ![s] = j]
  BY <1>1, <1>3, <1>6 DEF Query, SearchTypeOK
<1>9. UNCHANGED <<issue, vectors, indexing, today, gone, steady, muddled, changes>>
  BY DEF Query
<1>10. SearchTypeOK'
  BY <1>1, <1>7, <1>8, <1>9 DEF SearchTypeOK
<1>11. search'[s] = j
  BY <1>1, <1>8 DEF SearchTypeOK
<1>12. ReadTrue(s)'
  BY <1>1, <1>2, <1>4, <1>5, <1>7, <1>9, <1>11 DEF ReadTrue, TrueTo
<1>13. GoneStays(s)'
  BY <1>2, <1>7, <1>9, <1>11 DEF GoneStays, IsEffective
<1>14. ASSUME NEW i \in steady[s]
       PROVE  TrueVector(i) \in R
  <2>1. i \in Issues /\ vectors[i] = TrueVector(i)
    BY <1>1, <1>2 DEF SteadyStays, SearchTypeOK
  <2>2. TrueVector(i) # NoVector
    BY <1>1, <1>2, <2>1, SearchAssumption DEF TrueVector, SteadyStays, IsEffective, SearchTypeOK, Issue, Draft
  <2>. QED
    BY <1>3, <2>1, <2>2 DEF Indexed
<1>15. SteadyStays(s)'
  BY <1>2, <1>7, <1>9, <1>11, <1>14 DEF SteadyStays, TrueVector, IsEffective
<1>16. gone' = [gone EXCEPT ![s] = gone[s]] /\ steady' = [steady EXCEPT ![s] = steady[s]]
  BY <1>1, <1>9 DEF SearchTypeOK
<1>17. UNCHANGED <<issue, vectors, indexing, muddled>>
  BY <1>9
<1>18. j # NoVector => ReadTrue(s)' /\ GoneStays(s)' /\ SteadyStays(s)'
  BY <1>12, <1>13, <1>15
<1>. QED
  BY <1>8, <1>10, <1>16, <1>17, <1>18, OneSearchKeepsAll

LEMMA LookupKeepsSearches ==
  ASSUME SearchInv, NEW s \in Searchers, findEffectiveRevisionsByIds(s)
  PROVE  SearchInv'
<1>1. SearchTypeOK /\ search[s] # NoVector /\ search[s].at = "lookup"
  BY DEF SearchInv, findEffectiveRevisionsByIds
<1>2. ReadTrue(s) /\ GoneStays(s) /\ SteadyStays(s)
  BY <1>1 DEF SearchInv
<1> DEFINE B == Best(search[s].score, Oversampled, search[s].read)
<1>3. PICK V : V = {v \in B : StillValid(s, v)}
  OBVIOUS
<1>4. V \subseteq search[s].read /\ V \subseteq Vector
  BY <1>1, <1>3, SearchFields DEF Best
<1>5. ASSUME NEW v \in V
      PROVE  Cited(v) = v
  BY <1>3, <1>4 DEF StillValid, Cited, Vector
<1>6. PICK F : F = {Cited(v) : v \in V}
  OBVIOUS
<1>7. F = V
  BY <1>5, <1>6
<1>8. IsFiniteSet(F)
  BY <1>2, <1>4, <1>7, FS_Subset DEF ReadTrue
<1>9. PICK j : j = [search[s] EXCEPT !.at = "answered", !.found = F]
  OBVIOUS
<1>10. /\ j \in Search /\ j.at = "answered" /\ j.found = F
       /\ j.score = search[s].score /\ j.asOf = search[s].asOf /\ j.read = search[s].read
  BY <1>1, <1>4, <1>7, <1>9 DEF SearchTypeOK, Search
<1>11. search' = [search EXCEPT ![s] = j]
  BY <1>1, <1>3, <1>6, <1>9 DEF findEffectiveRevisionsByIds, SearchTypeOK
<1>12. UNCHANGED <<issue, vectors, indexing, today, gone, steady, muddled, changes>>
  BY DEF findEffectiveRevisionsByIds
<1>13. SearchTypeOK'
  BY <1>1, <1>10, <1>11, <1>12 DEF SearchTypeOK
<1>14. search'[s] = j
  BY <1>1, <1>11 DEF SearchTypeOK
<1>15. ReadTrue(s)'
  <2>1. ASSUME NEW v \in F
        PROVE  TrueTo(v) /\ v.issue \notin gone[s]
    BY <1>2, <1>3, <1>4, <1>7 DEF ReadTrue, StillValid, GoneStays
  <2>. QED
    BY <1>2, <1>8, <1>10, <1>12, <1>14, <2>1 DEF ReadTrue, TrueTo
<1>16. GoneStays(s)'
  BY <1>2, <1>10, <1>12, <1>14 DEF GoneStays, IsEffective
<1>17. ASSUME NEW i \in steady[s]
       PROVE  \/ TrueVector(i) \in F
              \/ Cardinality(Ahead(search[s].score, TrueVector(i), search[s].read)) >= Oversampled
  <2> DEFINE A == Ahead(search[s].score, TrueVector(i), search[s].read)
  <2>1. TrueVector(i) \in search[s].read
    BY <1>1, <1>2 DEF SteadyStays
  <2>2. StillValid(s, TrueVector(i))
    BY <1>2 DEF SteadyStays, StillValid, TrueVector
  <2>3. Cardinality(A) \in Nat
    BY <1>2, FS_Subset, FS_CardinalityType DEF ReadTrue, Ahead
  <2>4. Oversampled \in Nat
    BY SearchAssumption DEF Oversampled
  <2>5. CASE Cardinality(A) < Oversampled
    BY <1>3, <1>7, <2>1, <2>2, <2>5 DEF Best
  <2>. QED
    BY <2>3, <2>4, <2>5
<1>18. SteadyStays(s)'
  <2>1. ASSUME NEW i \in steady[s]
        PROVE  TrueVector(i)' = TrueVector(i)
    BY <1>12 DEF TrueVector
  <2>2. steady'[s] = steady[s]
    BY <1>12
  <2>. QED
    BY <1>1, <1>2, <1>10, <1>12, <1>14, <1>17, <2>1, <2>2 DEF SteadyStays, Ahead, Before, IsEffective
<1>19. gone' = [gone EXCEPT ![s] = gone[s]] /\ steady' = [steady EXCEPT ![s] = steady[s]]
  BY <1>1, <1>12 DEF SearchTypeOK
<1>20. UNCHANGED <<issue, vectors, indexing, muddled>>
  BY <1>12
<1>21. j # NoVector => ReadTrue(s)' /\ GoneStays(s)' /\ SteadyStays(s)'
  BY <1>15, <1>16, <1>18
<1>. QED
  BY <1>11, <1>13, <1>19, <1>20, <1>21, OneSearchKeepsAll

LEMMA EndKeepsSearches ==
  ASSUME SearchInv, NEW s \in Searchers, EndSearch(s)
  PROVE  SearchInv'
<1>1. SearchTypeOK'
  BY DEF SearchInv, SearchTypeOK, EndSearch
<1>. QED
  BY <1>1, OneSearchKeepsAll DEF EndSearch

-----------------------------------------------------------------------------
LEMMA StepsKeepSearches == SearchInv /\ [SearchNext]_searchVars => SearchInv'
<1> SUFFICES ASSUME SearchInv, [SearchNext]_searchVars
             PROVE  SearchInv'
  OBVIOUS
<1>1. SearchTypeOK
  BY DEF SearchInv
<1>2. ASSUME NEW i \in Issues, NEW t \in Texts, NEW date \in Days, NEW end \in 1..Never,
             Release(i, t, date, end)
      PROVE  SearchInv'
  <2> DEFINE r == [status |-> "EFFECTIVE", effectiveAt |-> date, expiresAt |-> end, file |-> t]
  <2>1. r \in Issue
    BY SearchAssumption DEF Issue, Days, Never
  <2>2. issue' = [issue EXCEPT ![i] = r] /\ issue[i].status # "EFFECTIVE"
    BY <1>2 DEF Release, Draft
  <2> HIDE DEF r
  <2>3. SearchTypeOK'
    BY <1>1, <1>2, <2>1, <2>2 DEF Release, Returned, SearchTypeOK
  <2>. QED
    BY <1>2, <2>2, <2>3, IssuesKeepSearches DEF Release
<1>3. ASSUME NEW i \in Issues, Reactivate(i)
      PROVE  SearchInv'
  <2> DEFINE r == [issue[i] EXCEPT !.status = "EFFECTIVE"]
  <2>1. issue[i] \in Issue
    BY <1>1, <1>3 DEF Reactivate, SearchTypeOK, Draft
  <2>2. r \in Issue /\ issue[i].status # "EFFECTIVE"
    BY <1>3, <2>1 DEF Reactivate, Issue
  <2>3. issue' = [issue EXCEPT ![i] = r]
    BY <1>1, <1>3 DEF Reactivate, SearchTypeOK
  <2> HIDE DEF r
  <2>4. SearchTypeOK'
    BY <1>1, <1>3, <2>2, <2>3, SearchAssumption DEF Reactivate, Changed, Touched, Returned, SearchTypeOK
  <2>. QED
    BY <1>3, <2>2, <2>3, <2>4, IssuesKeepSearches DEF Reactivate
<1>4. ASSUME NEW i \in Issues, Obsolete(i)
      PROVE  SearchInv'
  <2> DEFINE r == [issue[i] EXCEPT !.status = "OBSOLETE"]
  <2>1. issue[i] \in Issue
    BY <1>1, <1>4 DEF Obsolete, SearchTypeOK, Draft
  <2>2. r \in Issue /\ r.status = "OBSOLETE"
    BY <2>1 DEF Issue
  <2>3. issue' = [issue EXCEPT ![i] = r]
    BY <1>1, <1>4 DEF Obsolete, SearchTypeOK
  <2> HIDE DEF r
  <2>4. SearchTypeOK'
    BY <1>1, <1>4, <2>2, <2>3, SearchAssumption DEF Obsolete, Changed, Touched, SearchTypeOK
  <2>. QED
    BY <1>4, <2>2, <2>3, <2>4, IssuesKeepSearches DEF Obsolete
<1>5. ASSUME NEW i \in Issues, NEW t \in Texts, ReplaceFile(i, t)
      PROVE  SearchInv'
  <2> DEFINE r == [issue[i] EXCEPT !.file = t]
  <2>1. issue[i] \in Issue
    BY <1>1, <1>5 DEF ReplaceFile, SearchTypeOK, Draft
  <2>2. r \in Issue /\ r.status = issue[i].status
       /\ r.effectiveAt = issue[i].effectiveAt /\ r.expiresAt = issue[i].expiresAt
    BY <2>1 DEF Issue
  <2>3. issue' = [issue EXCEPT ![i] = r]
    BY <1>1, <1>5 DEF ReplaceFile, SearchTypeOK
  <2> HIDE DEF r
  <2>4. SearchTypeOK'
    BY <1>1, <1>5, <2>2, <2>3, SearchAssumption DEF ReplaceFile, Changed, Touched, Returned, SearchTypeOK
  <2>. QED
    BY <1>5, <2>2, <2>3, <2>4, IssuesKeepSearches DEF ReplaceFile
<1>8. ASSUME NEW i \in Issues, NEW date \in 0..Never, Redate(i, date)
      PROVE  SearchInv'
  <2> DEFINE r == [issue[i] EXCEPT !.effectiveAt = date]
  <2>1. issue[i] \in Issue
    BY <1>1, <1>8 DEF Redate, SearchTypeOK, Draft
  <2>2. r \in Issue
    BY <2>1 DEF Issue
  <2>3. issue' = [issue EXCEPT ![i] = r]
    BY <1>1, <1>8 DEF Redate, SearchTypeOK
  <2> HIDE DEF r
  <2>4. SearchTypeOK'
    BY <1>1, <1>8, <2>2, <2>3, SearchAssumption DEF Redate, Changed, Touched, Returned, SearchTypeOK
  <2>. QED
    BY <1>8, <2>2, <2>3, <2>4, IssuesKeepSearches DEF Redate
<1>9. ASSUME Tick
      PROVE  SearchInv'
  <2>1. SearchTypeOK'
    BY <1>1, <1>9, SearchAssumption DEF Tick, Changed, Days, SearchTypeOK
  <2>2. VectorsTrue'
    BY <1>9 DEF Tick, SearchInv, VectorsTrue, TrueTo
  <2>. QED
    BY <1>9, <2>1, <2>2, IndexingKeepsSearches DEF Tick
<1>6. ASSUME NEW s \in Searchers,
             (\E score \in Rankings : StartSearch(s, score)) \/ Query(s)
               \/ findEffectiveRevisionsByIds(s) \/ EndSearch(s)
      PROVE  SearchInv'
  BY <1>6, StartKeepsSearches, QueryKeepsSearches, LookupKeepsSearches, EndKeepsSearches
<1>7. CASE UNCHANGED searchVars
  <2>1. UNCHANGED <<issue, vectors, indexing, search, gone, steady, muddled>>
    BY <1>7 DEF searchVars
  <2>2. SearchTypeOK'
    BY <1>1, <1>7 DEF searchVars, SearchTypeOK
  <2>3. VectorsTrue'
    BY <2>1 DEF SearchInv, VectorsTrue, TrueTo
  <2>. QED
    BY <2>1, <2>2, <2>3, IndexingKeepsSearches
<1>. QED
  BY <1>2, <1>3, <1>4, <1>5, <1>6, <1>7, <1>8, <1>9, IndexStepsKeepSearches DEF SearchNext

\* Issues, vectors and searches are well typed (controlled-document-search.ts,
\* vector-store.ts).
THEOREM SearchTypeCorrect == SearchSpec => []SearchTypeOK
<1>1. SearchInit => SearchInv
  BY SearchInitially
<1>2. SearchInv /\ [SearchNext]_searchVars => SearchInv'
  BY StepsKeepSearches
<1>3. SearchInv => SearchTypeOK
  BY DEF SearchInv
<1>. QED
  BY <1>1, <1>2, <1>3, PTL DEF SearchSpec

\* A search finds nothing that was out of force when it began and that nobody has
\* released, activated or dated since, cites the content it ranked, and misses what is in force and truly indexed only for what is
\* nearer (search, findEffectiveRevisionsByIds).
THEOREM SearchesAreSound == SearchSpec => []SearchIsSound
<1>1. SearchInit => SearchInv
  BY SearchInitially
<1>2. SearchInv /\ [SearchNext]_searchVars => SearchInv'
  BY StepsKeepSearches
<1>3. SearchInv => SearchIsSound
  BY SoundSearches
<1>. QED
  BY <1>1, <1>2, <1>3, PTL DEF SearchSpec
============================================================================
