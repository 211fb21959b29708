------------------------- MODULE DocumentControl -------------------------
(***************************************************************************)
(* The revisions of one document: drafting, review, approval rounds,       *)
(* scheduling, activation, reconciliation and read acknowledgements        *)
(* (lib/documents/workflow.ts, control.ts, files.ts, acknowledgements.ts). *)
(*                                                                         *)
(* Nothing here locks or compares: every handler reads a revision, checks  *)
(* its status and later writes by id, in statements of their own.  Each    *)
(* such statement is an action; between two of them others may act, or the *)
(* process may die.  Only an acknowledgement is Serializable.              *)
(*                                                                         *)
(* Dates are numbers.  The clock and the caller's asOf are not modelled:   *)
(* each comparison is made with any date.  A file is its checksum: the     *)
(* object behind it is that of StoredFiles.                                *)
(***************************************************************************)
EXTENDS Integers, Sequences

CONSTANTS
    Revisions,      \* numbers, in the order the revisions are created
    Approvers,      \* members who may approve
    Readers,        \* members who acknowledge
    Files,          \* contents (their checksums) of controlled files
    Dates,
    Handlers,       \* requests the server works on at one time
    MaxOverlaps,    \* bound: how many requests begin while another is at work
    None

ASSUME OverlapAssumption == MaxOverlaps \in Nat
ASSUME OrderAssumption == Revisions \subseteq Nat /\ Dates \subseteq Nat
ASSUME NoneAssumption == None \notin Files /\ None \notin Dates /\ None \notin Revisions

VARIABLES
    revision,   \* the DocumentRevision rows
    approval,   \* per revision, the decision of each approver of its newest round
    read,       \* per reader and revision, the acknowledgement rows: the checksums
    job,        \* what each handler is doing
    unanimous,  \* history: revisions all of whose approvers have once approved
    overlaps    \* history: how many requests began while another was at work

rows == <<revision, approval, read>>
vars == <<revision, approval, read, job, unanimous, overlaps>>

Status == {"NONE", "DRAFT", "IN_REVIEW", "APPROVED", "EFFECTIVE", "OBSOLETE"}
Decision == {"NONE", "PENDING", "APPROVED", "REJECTED"}

Revision == [status: Status, effectiveAt: Dates \cup {None}, file: Files \cup {None}]

Job ==
    [op: {"SUBMIT"}, rev: Revisions]
    \cup [op: {"REQUEST"}, rev: Revisions, approvers: SUBSET Approvers, late: BOOLEAN]
    \cup [op: {"DECIDE"}, rev: Revisions, approver: Approvers,
          decision: {"APPROVED", "REJECTED"}, stage: {"READ", "DECIDED", "COUNTED"}]
    \cup [op: {"ATTACH"}, rev: Revisions, file: Files]
    \cup [op: {"SCHEDULE"}, rev: Revisions, date: Dates]
    \cup [op: {"ACTIVATE"}, rev: Revisions, asOf: Dates, prior: SUBSET Revisions,
          stage: {"CHOSEN", "READ", "LISTED"}, reconciling: BOOLEAN]
    \cup [op: {"ACKNOWLEDGE"}, rev: Revisions, reader: Readers, file: Files]

DocumentTypeOK ==
    /\ revision \in [Revisions -> Revision]
    /\ approval \in [Revisions -> [Approvers -> Decision]]
    /\ read \in [Readers -> [Revisions -> Seq(Files)]]
    /\ job \in [Handlers -> Job \cup {None}]
    /\ unanimous \subseteq Revisions
    /\ overlaps \in 0..MaxOverlaps

---------------------------------------------------------------------------

Begins(h, j) ==
    /\ job[h] = None
    /\ job' = [job EXCEPT ![h] = j]
    /\ IF \A g \in Handlers : job[g] = None THEN UNCHANGED overlaps
       ELSE overlaps < MaxOverlaps /\ overlaps' = overlaps + 1

Goes(h, j) == job' = [job EXCEPT ![h] = j] /\ UNCHANGED overlaps

Ends(h) == Goes(h, None)

At(h, op) == job[h] # None /\ job[h].op = op

AtStage(h, op, stage) == At(h, op) /\ job[h].stage = stage

Becomes(r, status) == revision' = [revision EXCEPT ![r].status = status]

Reads == UNCHANGED <<rows, unanimous>>

---------------------------------------------------------------------------
(* Drafting and review.                                                    *)

\* createDocumentRevision.
CreateRevision(r) ==
    /\ revision[r].status = "NONE"
    /\ \A s \in Revisions : s < r => revision[s].status # "NONE"
    /\ Becomes(r, "DRAFT")
    /\ UNCHANGED <<approval, read, job, unanimous, overlaps>>

\* attachDocumentRevisionFile: the revision is a draft when it is read.
ReadForAttach(h, r, f) ==
    /\ revision[r].status = "DRAFT"
    /\ Begins(h, [op |-> "ATTACH", rev |-> r, file |-> f])
    /\ Reads

Attach(h) ==
    /\ At(h, "ATTACH")
    /\ revision' = [revision EXCEPT ![job[h].rev].file = job[h].file]
    /\ Ends(h)
    /\ UNCHANGED <<approval, read, unanimous>>

\* submitRevisionForReview.
ReadForSubmit(h, r) ==
    /\ revision[r].status = "DRAFT"
    /\ revision[r].file # None
    /\ Begins(h, [op |-> "SUBMIT", rev |-> r])
    /\ Reads

Submit(h) ==
    /\ At(h, "SUBMIT")
    /\ Becomes(job[h].rev, "IN_REVIEW")
    /\ Ends(h)
    /\ UNCHANGED <<approval, read, unanimous>>

---------------------------------------------------------------------------
(* Approval rounds.                                                        *)

\* requestRevisionApproval.
ReadForRequest(h, r, A) ==
    /\ revision[r].status = "IN_REVIEW"
    /\ A # {}
    /\ Begins(h, [op |-> "REQUEST", rev |-> r, approvers |-> A, late |-> FALSE])
    /\ Reads

NewRound(r, A) == [u \in Approvers |-> IF u \in A THEN "PENDING" ELSE "NONE"]

\* The rows of the last round are deleted: a decision on one of them fails.  A
\* request that has deleted the old rows already does not see the new ones.
Request(h) ==
    LET r == job[h].rev
        orphan(g) == AtStage(g, "DECIDE", "READ") /\ job[g].rev = r
    IN  /\ At(h, "REQUEST") /\ ~job[h].late
        /\ approval' = [approval EXCEPT ![r] = NewRound(r, job[h].approvers)]
        /\ \E late \in SUBSET {g \in Handlers \ {h} : At(g, "REQUEST") /\ job[g].rev = r} :
            job' = [g \in Handlers |->
                IF g = h \/ orphan(g) THEN None
                ELSE IF g \in late THEN [job[g] EXCEPT !.late = TRUE] ELSE job[g]]
        /\ UNCHANGED <<revision, read, unanimous, overlaps>>

\* It adds its rows to them, or fails where an approver has one.
AddToRound(h) ==
    LET r == job[h].rev
    IN  /\ At(h, "REQUEST") /\ job[h].late
        /\ \A u \in job[h].approvers : approval[r][u] = "NONE"
        /\ approval' = [approval EXCEPT ![r] = [u \in Approvers |->
                IF u \in job[h].approvers THEN "PENDING" ELSE approval[r][u]]]
        /\ Ends(h)
        /\ UNCHANGED <<revision, read, unanimous>>

\* decideRevisionApproval: the approver is assigned and has not decided.
ReadForDecision(h, r, u, decision) ==
    /\ revision[r].status = "IN_REVIEW"
    /\ approval[r][u] = "PENDING"
    /\ Begins(h, [op |-> "DECIDE", rev |-> r, approver |-> u, decision |-> decision,
                  stage |-> "READ"])
    /\ Reads

Decide(h) ==
    LET j == job[h]
    IN  /\ AtStage(h, "DECIDE", "READ")
        /\ approval' = [approval EXCEPT ![j.rev][j.approver] = j.decision]
        /\ unanimous' = IF \A u \in Approvers : approval'[j.rev][u] \in {"NONE", "APPROVED"}
                        THEN unanimous \cup {j.rev} ELSE unanimous
        /\ Goes(h, [j EXCEPT !.stage = "DECIDED"])
        /\ UNCHANGED <<revision, read>>

ReturnToDraft(h) ==
    LET j == job[h]
    IN  /\ AtStage(h, "DECIDE", "DECIDED") /\ j.decision = "REJECTED"
        /\ revision' = [revision EXCEPT ![j.rev].status = "DRAFT", ![j.rev].effectiveAt = None]
        /\ Ends(h)
        /\ UNCHANGED <<approval, read, unanimous>>

\* Fault: an approver who rejected is not waited for.
RemainingPending(r) == {u \in Approvers : approval[r][u] = "PENDING"}

Remaining(r) == {u \in Approvers : approval[r][u] \notin {"NONE", "APPROVED"}}

CountRemaining(h) ==
    LET j == job[h]
    IN  /\ AtStage(h, "DECIDE", "DECIDED") /\ j.decision = "APPROVED"
        /\ IF Remaining(j.rev) = {} THEN Goes(h, [j EXCEPT !.stage = "COUNTED"]) ELSE Ends(h)
        /\ Reads

Approve(h) ==
    /\ AtStage(h, "DECIDE", "COUNTED")
    /\ Becomes(job[h].rev, "APPROVED")
    /\ Ends(h)
    /\ UNCHANGED <<approval, read, unanimous>>

---------------------------------------------------------------------------
(* Coming into force.                                                      *)

Activation(r, asOf, reconciling) ==
    [op |-> "ACTIVATE", rev |-> r, asOf |-> asOf, prior |-> {},
     stage |-> "CHOSEN", reconciling |-> reconciling]

\* scheduleRevisionEffective; a date that has come activates the revision.
ReadForSchedule(h, r, date) ==
    /\ revision[r].status \in {"APPROVED", "EFFECTIVE"}
    /\ Begins(h, [op |-> "SCHEDULE", rev |-> r, date |-> date])
    /\ Reads

Schedule(h, now) ==
    LET j == job[h]
    IN  /\ At(h, "SCHEDULE")
        /\ revision' = [revision EXCEPT ![j.rev].effectiveAt = j.date]
        /\ IF j.date <= now THEN Goes(h, Activation(j.rev, now, FALSE)) ELSE Ends(h)
        /\ UNCHANGED <<approval, read, unanimous>>

Reached(r, asOf) == revision[r].effectiveAt # None /\ revision[r].effectiveAt <= asOf

\* The revision of S that took effect last; the newer one of two on one date.
Latest(r, S) ==
    /\ r \in S
    /\ \A s \in S :
        \/ revision[s].effectiveAt < revision[r].effectiveAt
        \/ revision[s].effectiveAt = revision[r].effectiveAt /\ s <= r

\* reconcileEffectiveRevisions, for this document.
Reconcile(h, r, asOf) ==
    /\ Latest(r, {s \in Revisions : revision[s].status = "APPROVED" /\ Reached(s, asOf)})
    /\ Begins(h, Activation(r, asOf, TRUE))
    /\ Reads

\* activateRevision: reads the revision,
ReadForActivation(h) ==
    LET j == job[h]
    IN  /\ AtStage(h, "ACTIVATE", "CHOSEN")
        /\ IF Reached(j.rev, j.asOf) /\ revision[j.rev].status \in {"APPROVED", "EFFECTIVE"}
           THEN Goes(h, [j EXCEPT !.stage = "READ"]) ELSE Ends(h)
        /\ Reads

\* Fault: revisions that are in force stay so.
NoPrior(r) == {}

\* the others in force,
Prior(r) == {s \in Revisions \ {r} : revision[s].status = "EFFECTIVE"}

ListPrior(h) ==
    LET j == job[h]
    IN  /\ AtStage(h, "ACTIVATE", "READ")
        /\ Goes(h, [j EXCEPT !.stage = "LISTED", !.prior = Prior(j.rev)])
        /\ Reads

\* and then writes both in a transaction that looks at neither.
Activate(h) ==
    LET j == job[h]
    IN  /\ AtStage(h, "ACTIVATE", "LISTED")
        /\ revision' = [r \in Revisions |->
                IF r = j.rev THEN [revision[r] EXCEPT !.status = "EFFECTIVE"]
                ELSE IF r \in j.prior THEN [revision[r] EXCEPT !.status = "OBSOLETE"]
                ELSE revision[r]]
        /\ Ends(h)
        /\ UNCHANGED <<approval, read, unanimous>>

---------------------------------------------------------------------------
(* Read acknowledgements.                                                  *)

\* resolveEffectiveRevision finds the revision in force on a date, and the
\* reader names its checksum.
ReadForAcknowledgement(h, u, r, asOf) ==
    /\ Latest(r, {s \in Revisions :
            revision[s].status \in {"APPROVED", "EFFECTIVE"} /\ Reached(s, asOf)})
    /\ revision[r].file # None
    /\ Begins(h, [op |-> "ACKNOWLEDGE", rev |-> r, reader |-> u, file |-> revision[r].file])
    /\ Reads

\* Fault: the transaction does not look for an earlier acknowledgement.
NeverAcknowledged(u, r) == FALSE

Acknowledged(u, r) == read[u][r] # <<>>

Acknowledge(h) ==
    LET j == job[h]
    IN  /\ At(h, "ACKNOWLEDGE")
        /\ read' = IF Acknowledged(j.reader, j.rev) THEN read
                   ELSE [read EXCEPT ![j.reader][j.rev] = Append(@, j.file)]
        /\ Ends(h)
        /\ UNCHANGED <<revision, approval, unanimous>>

---------------------------------------------------------------------------

\* The process dies, or a statement fails: what was written stays.
Stop(h) ==
    /\ job[h] # None
    /\ Ends(h)
    /\ Reads

Init ==
    /\ revision = [r \in Revisions |-> [status |-> "NONE", effectiveAt |-> None, file |-> None]]
    /\ approval = [r \in Revisions |-> [u \in Approvers |-> "NONE"]]
    /\ read = [u \in Readers |-> [r \in Revisions |-> <<>>]]
    /\ job = [h \in Handlers |-> None]
    /\ unanimous = {}
    /\ overlaps = 0

DraftStep ==
    \/ \E r \in Revisions : CreateRevision(r)
    \/ \E h \in Handlers :
        \/ \E r \in Revisions, f \in Files : ReadForAttach(h, r, f)
        \/ Attach(h)
        \/ \E r \in Revisions : ReadForSubmit(h, r)
        \/ Submit(h)

ApprovalStep ==
    \E h \in Handlers :
        \/ \E r \in Revisions, A \in SUBSET Approvers : ReadForRequest(h, r, A)
        \/ Request(h)
        \/ AddToRound(h)
        \/ \E r \in Revisions, u \in Approvers, decision \in {"APPROVED", "REJECTED"} :
                ReadForDecision(h, r, u, decision)
        \/ Decide(h)
        \/ ReturnToDraft(h)
        \/ CountRemaining(h)
        \/ Approve(h)

ReleaseStep ==
    \E h \in Handlers :
        \/ \E r \in Revisions, date \in Dates : ReadForSchedule(h, r, date)
        \/ \E now \in Dates : Schedule(h, now)
        \/ \E r \in Revisions, asOf \in Dates : Reconcile(h, r, asOf)
        \/ ReadForActivation(h)
        \/ ListPrior(h)
        \/ Activate(h)

ReaderStep ==
    \E h \in Handlers :
        \/ \E u \in Readers, r \in Revisions, asOf \in Dates : ReadForAcknowledgement(h, u, r, asOf)
        \/ Acknowledge(h)

Next == DraftStep \/ ApprovalStep \/ ReleaseStep \/ ReaderStep \/ \E h \in Handlers : Stop(h)

Spec == Init /\ [][Next]_vars

---------------------------------------------------------------------------
(* Properties.                                                             *)

Released == {"APPROVED", "EFFECTIVE", "OBSOLETE"}

\* However requests overlap, a revision is released only after all approvers of
\* one of its rounds had approved it: neither a late writer nor a new round nor
\* a rejection that was not finished lets one through.
ReleasedWasApproved ==
    \A r \in Revisions : revision[r].status \in Released => r \in unanimous

Sealed == [r \in Revisions |->
    IF revision[r].status \in Released THEN revision[r].file ELSE None]

InForce == {r \in Revisions : revision[r].status = "EFFECTIVE"}

Document == INSTANCE ControlledDocument WITH
    sealed <- Sealed,
    current <- InForce

\* Unless requests overlap, the rows are a ControlledDocument: what was approved
\* never changes, only approved revisions come into force, and one at most is in
\* force, wherever processes died.
DocumentIsControlled ==
    /\ Document!Init
    /\ [][overlaps' = 0 => [Document!Next]_(Document!document)]_vars
============================================================================
