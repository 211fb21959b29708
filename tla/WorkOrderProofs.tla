------------------------- MODULE WorkOrderProofs -------------------------
(***************************************************************************)
(* Proofs about WorkOrder, for any handlers, keys, items and requests, and *)
(* about PlanningCalendar, for any time zones and dates, and about         *)
(* OfflineQueue, for any tabs and any queue.                               *)
(***************************************************************************)
EXTENDS PlanningCalendar, OfflineQueue, WellFoundedInduction, TLAPS

\* The dates that belong to a status.
DatesFit(status, started, completed) ==
    /\ status \in {"IN_PROGRESS", "BLOCKED", "COMPLETED"} => started
    /\ status \in {"REQUESTED", "APPROVED", "PLANNED"} => ~started
    /\ completed <=> status = "COMPLETED"

\* What a handler is about to write fits together, whatever the row has become
\* since the handler read it.
PendingDatesFit ==
    \A h \in Handlers :
        job[h] # None /\ job[h].stage = "VALIDATED" /\ job[h].request.op = "PATCH"
            => LET data == job[h].data
               IN  data.status # None => DatesFit(data.status, data.started, data.completed)

---------------------------------------------------------------------------
(* Types.                                                                  *)

\* A request of the one kind is not of the other.
LEMMA RequestKinds ==
  ASSUME NEW r \in Requests
  PROVE  /\ r.op = "PATCH" => r \in Patch
         /\ r.op # "PATCH" => r \in Execution
  BY RequestAssumption DEF Request, Patch, Execution

\* What a PATCH is about to write is data of the row.
LEMMA DataOfType ==
  ASSUME wo \in WorkOrderRow, NEW r \in Patch
  PROVE  DataOf(r) \in PatchData
<1>1. r.status \in Status \cup {None} /\ r.planned \in Edit
  BY DEF Patch
<1>2. CASE ~Transition(r)
  BY <1>1, <1>2 DEF DataOf, PatchData
<1>3. CASE Transition(r)
  <2>1. wo.started \in BOOLEAN /\ wo.completed \in BOOLEAN
    BY DEF WorkOrderRow
  <2>2. /\ deriveTransitionDates(r.status).started \in BOOLEAN
        /\ deriveTransitionDates(r.status).completed \in BOOLEAN
    BY <2>1 DEF deriveTransitionDates
  <2>. QED
    BY <1>1, <1>3, <2>2 DEF DataOf, PatchData
<1>. QED
  BY <1>2, <1>3

\* Whatever a handler writes is a work-order row.
LEMMA WrittenType ==
  ASSUME wo \in WorkOrderRow, NEW j \in Job, j.stage = "VALIDATED", NEW new \in Written(j)
  PROVE  new \in WorkOrderRow
<1>1. CASE j.request.op = "PATCH"
  <2>1. j.request \in Requests
    BY DEF Job
  <2>2. j.data \in PatchData
    BY <1>1 DEF Job, Execution
  <2>3. new = PatchWritten(j.data)
    BY <1>1 DEF Written
  <2>. DEFINE d == j.data
  <2>4. /\ d.status \in Status \cup {None}
        /\ d.started \in BOOLEAN /\ d.completed \in BOOLEAN
    BY <2>2 DEF PatchData
  <2>5. /\ wo.status \in Status /\ wo.started \in BOOLEAN /\ wo.completed \in BOOLEAN
        /\ wo.items \in [Items -> ItemState]
        /\ wo = [status |-> wo.status, planned |-> wo.planned, started |-> wo.started,
                 completed |-> wo.completed, note |-> wo.note, items |-> wo.items]
    BY DEF WorkOrderRow
  <2>6. new = [status |-> IF d.status = None THEN wo.status ELSE d.status,
               planned |-> Edited(d.planned, wo.planned),
               started |-> IF d.status = None THEN wo.started ELSE d.started,
               completed |-> IF d.status = None THEN wo.completed ELSE d.completed,
               note |-> wo.note /\ ~d.clearNote, items |-> wo.items]
    BY <2>3, <2>5 DEF PatchWritten
  <2>7. Edited(d.planned, wo.planned) \in BOOLEAN /\ (wo.note /\ ~d.clearNote) \in BOOLEAN
    BY DEF Edited
  <2>. QED
    BY <2>4, <2>5, <2>6, <2>7 DEF WorkOrderRow
<1>2. CASE j.request.op # "PATCH"
  <2>1. PICK add \in SUBSET Items : new = ExecutionWritten(j.request, add)
    BY <1>2 DEF Written
  <2>2. [i \in Items |-> CASE i \in j.request.tick -> "done"
                           [] i \in j.request.untick \cup add -> "open"
                           [] OTHER -> wo.items[i]] \in [Items -> ItemState]
    BY DEF WorkOrderRow, ItemState
  <2>. QED
    BY <2>1, <2>2 DEF ExecutionWritten, WorkOrderRow, Edited
<1>. QED
  BY <1>1, <1>2

\* An answer is well typed.
LEMMA AnsweredType ==
  ASSUME NEW r \in Requests, NEW answer \in Answers
  PROVE  Answered(r, answer) \in Job
  BY DEF Answered, Job

\* A step of the work order and its requests keeps their types.
LEMMA StepKeepsTypes ==
  ASSUME WorkOrderTypeOK, [Next]_vars
  PROVE  WorkOrderTypeOK'
<1>1. ASSUME NEW h \in Handlers, NEW r \in Requests, Handle(h, r)
      PROVE  WorkOrderTypeOK'
  <2>1. r.op = "PATCH" => [request |-> r, stage |-> "VALIDATED", data |-> DataOf(r)] \in Job
    BY RequestKinds, DataOfType DEF Job, WorkOrderTypeOK
  <2>2. r.op # "PATCH" => [request |-> r, stage |-> "VALIDATED", data |-> None] \in Job
    BY RequestKinds DEF Job
  <2>3. \A answer \in Answers : Answered(r, answer) \in Job
    BY AnsweredType
  <2>4. job' \in [Handlers -> Job \cup {None}]
    BY <1>1, <2>1, <2>2, <2>3 DEF Handle, WorkOrderTypeOK, Answers
  <2>. QED
    BY <1>1, <2>4 DEF Handle, WorkOrderTypeOK
<1>2. ASSUME NEW h \in Handlers, Commit(h)
      PROVE  WorkOrderTypeOK'
  <2>1. PICK j \in Job : job[h] = j /\ j.stage = "VALIDATED"
    BY <1>2 DEF Commit, WorkOrderTypeOK
  <2>2. j.request \in Requests
    BY DEF Job
  <2>3. WithReceipt(j.request) \in [Keys -> Seq(Requests)]
    <3>1. j.request.key \in Keys \cup {None}
      BY <2>2, RequestKinds DEF Patch, Execution
    <3>2. ASSUME NEW k \in Keys PROVE Append(receipts[k], j.request) \in Seq(Requests)
      BY <2>2 DEF WorkOrderTypeOK
    <3>. QED
      BY <3>1, <3>2 DEF WithReceipt, WorkOrderTypeOK
  <2>4. \A answer \in Answers : Answered(j.request, answer) \in Job
    BY <2>2, AnsweredType
  <2>5. /\ job' \in [Handlers -> Job \cup {None}]
        /\ wo' \in Written(j) \/ wo' = wo
        /\ receipts' = WithReceipt(j.request) \/ receipts' = receipts
    BY <1>2, <2>1, <2>4 DEF Commit, Write, WorkOrderTypeOK, Answers
  <2>. QED
    BY <2>1, <2>3, <2>5, WrittenType DEF WorkOrderTypeOK
<1>3. ASSUME NEW h \in Handlers, End(h)
      PROVE  WorkOrderTypeOK'
  BY <1>3 DEF End, WorkOrderTypeOK
<1>4. CASE Reschedule
  BY <1>4 DEF Reschedule, WorkOrderTypeOK, WorkOrderRow
<1>5. CASE UNCHANGED vars
  BY <1>5 DEF vars, WorkOrderTypeOK
<1>. QED
  BY <1>1, <1>2, <1>3, <1>4, <1>5 DEF Next, HandlerStep

\* Every state of a work order and its requests is well typed.
THEOREM WorkOrderTypeCorrect == Spec => []WorkOrderTypeOK
<1>1. Init => WorkOrderTypeOK
  BY DEF Init, WorkOrderTypeOK, WorkOrderRow, Status, ItemState
<1>2. WorkOrderTypeOK /\ [Next]_vars => WorkOrderTypeOK'
  BY StepKeepsTypes
<1>. QED
  BY <1>1, <1>2, PTL DEF Spec

---------------------------------------------------------------------------
(* Dates.                                                                  *)

DatesInv == DatesMatchStatus /\ PendingDatesFit

\* Dates derived from a row whose dates fit its status fit the new status.
LEMMA DerivedDatesFit ==
  ASSUME wo \in WorkOrderRow, DatesMatchStatus, NEW to \in transitions[wo.status]
  PROVE  DatesFit(to, deriveTransitionDates(to).started, deriveTransitionDates(to).completed)
<1>1. wo.status \in Status /\ wo.started \in BOOLEAN /\ wo.completed \in BOOLEAN
  BY DEF WorkOrderRow
<1>2. \/ wo.status = "REQUESTED" /\ to \in {"APPROVED", "CANCELLED"}
      \/ wo.status = "APPROVED" /\ to \in {"PLANNED", "IN_PROGRESS", "CANCELLED"}
      \/ wo.status = "PLANNED" /\ to \in {"IN_PROGRESS", "CANCELLED"}
      \/ wo.status = "IN_PROGRESS" /\ to \in {"BLOCKED", "COMPLETED", "CANCELLED"}
      \/ wo.status = "BLOCKED" /\ to \in {"IN_PROGRESS", "CANCELLED"}
      \/ wo.status = "COMPLETED" /\ to = "IN_PROGRESS"
      \/ wo.status = "CANCELLED" /\ to = "REQUESTED"
  BY <1>1 DEF transitions, Status
<1>. QED
  BY <1>1, <1>2 DEF DatesFit, DatesMatchStatus, deriveTransitionDates

\* Writing what fits leaves dates that fit.
LEMMA WrittenDatesFit ==
  ASSUME WorkOrderTypeOK, DatesInv, NEW h \in Handlers, job[h] # None,
         job[h].stage = "VALIDATED", NEW new \in Written(job[h])
  PROVE  DatesFit(new.status, new.started, new.completed)
<1>. DEFINE j == job[h]
<1>1. DatesFit(wo.status, wo.started, wo.completed) /\ wo \in WorkOrderRow
  BY DEF DatesInv, DatesMatchStatus, DatesFit, WorkOrderTypeOK
<1>2. CASE j.request.op = "PATCH"
  <2>1. new = PatchWritten(j.data)
    BY <1>2 DEF Written
  <2>2. /\ new.status = IF j.data.status = None THEN wo.status ELSE j.data.status
        /\ new.started = IF j.data.status = None THEN wo.started ELSE j.data.started
        /\ new.completed = IF j.data.status = None THEN wo.completed ELSE j.data.completed
    BY <1>1, <2>1 DEF PatchWritten, WorkOrderRow
  <2>3. j.data.status # None => DatesFit(j.data.status, j.data.started, j.data.completed)
    BY <1>2 DEF DatesInv, PendingDatesFit
  <2>. QED
    BY <1>1, <2>2, <2>3
<1>3. CASE j.request.op # "PATCH"
  <2>1. PICK add \in SUBSET Items : new = ExecutionWritten(j.request, add)
    BY <1>3 DEF Written
  <2>2. new.status = wo.status /\ new.started = wo.started /\ new.completed = wo.completed
    BY <1>1, <2>1 DEF ExecutionWritten, WorkOrderRow
  <2>. QED
    BY <1>1, <2>2
<1>. QED
  BY <1>2, <1>3

\* However requests race, the dates of a work order belong to its status.
THEOREM DatesAlwaysMatchStatus == Spec => []DatesMatchStatus
<1>1. Init => DatesInv
  BY DEF Init, DatesInv, DatesMatchStatus, PendingDatesFit
<1>2. WorkOrderTypeOK /\ WorkOrderTypeOK' /\ DatesInv /\ [Next]_vars => DatesInv'
  <2>. SUFFICES ASSUME WorkOrderTypeOK, WorkOrderTypeOK', DatesInv, [Next]_vars
                PROVE  DatesInv'
    OBVIOUS
  <2>1. ASSUME NEW h \in Handlers, NEW r \in Requests, Handle(h, r)
        PROVE  DatesInv'
    <3>1. DatesMatchStatus'
      BY <2>1 DEF Handle, DatesInv, DatesMatchStatus
    <3>2. ASSUME NEW g \in Handlers, job'[g] # None, job'[g].stage = "VALIDATED",
                 job'[g].request.op = "PATCH", job'[g].data.status # None
          PROVE  DatesFit(job'[g].data.status, job'[g].data.started, job'[g].data.completed)
      <4>1. CASE g # h
        BY <2>1, <3>2, <4>1 DEF Handle, DatesInv, PendingDatesFit, WorkOrderTypeOK
      <4>2. CASE g = h
        <5>1. job'[h] = [request |-> r, stage |-> "VALIDATED",
                         data |-> IF r.op = "PATCH" THEN DataOf(r) ELSE None] /\ Allowed(r)
          BY <2>1, <3>2, <4>2 DEF Handle, WorkOrderTypeOK, Answered
        <5>2. r.op = "PATCH" /\ job'[h].data = DataOf(r) /\ PatchAllowed(r)
          BY <3>2, <4>2, <5>1 DEF Allowed
        <5>3. CASE Transition(r)
          <6>1. r.status \in transitions[wo.status]
            BY <5>2, <5>3 DEF PatchAllowed, TransitionAllowed
          <6>2. DatesFit(r.status, deriveTransitionDates(r.status).started,
                         deriveTransitionDates(r.status).completed)
            BY <6>1, DerivedDatesFit DEF DatesInv, WorkOrderTypeOK
          <6>. QED
            BY <4>2, <5>2, <5>3, <6>2 DEF DataOf
        <5>4. CASE ~Transition(r)
          BY <3>2, <4>2, <5>2, <5>4 DEF DataOf
        <5>. QED
          BY <5>3, <5>4
      <4>. QED
        BY <4>1, <4>2
    <3>. QED
      BY <3>1, <3>2 DEF DatesInv, PendingDatesFit
  <2>2. ASSUME NEW h \in Handlers, Commit(h)
        PROVE  DatesInv'
    <3>1. job[h] # None /\ job[h].stage = "VALIDATED"
      BY <2>2 DEF Commit
    <3>2. /\ wo' \in Written(job[h]) \/ wo' = wo
          /\ \E answer \in Answers : job' = [job EXCEPT ![h] = Answered(job[h].request, answer)]
      BY <2>2 DEF Commit, Write, Answers
    <3>3. DatesFit(wo'.status, wo'.started, wo'.completed)
      BY <3>1, <3>2, WrittenDatesFit DEF DatesInv, DatesMatchStatus, DatesFit
    <3>4. PendingDatesFit'
      BY <3>2 DEF DatesInv, PendingDatesFit, WorkOrderTypeOK, Answered
    <3>. QED
      BY <3>3, <3>4 DEF DatesInv, DatesMatchStatus, DatesFit
  <2>3. ASSUME NEW h \in Handlers, End(h)
        PROVE  DatesInv'
    BY <2>3 DEF End, DatesInv, DatesMatchStatus, PendingDatesFit, WorkOrderTypeOK
  <2>4. CASE Reschedule
    BY <2>4 DEF Reschedule, DatesInv, DatesMatchStatus, PendingDatesFit, WorkOrderTypeOK,
                WorkOrderRow
  <2>5. CASE UNCHANGED vars
    BY <2>5 DEF vars, DatesInv, DatesMatchStatus, PendingDatesFit
  <2>. QED
    BY <2>1, <2>2, <2>3, <2>4, <2>5 DEF Next, HandlerStep
<1>3. DatesInv => DatesMatchStatus
  BY DEF DatesInv
<1>. QED
  BY <1>1, <1>2, <1>3, WorkOrderTypeCorrect, PTL DEF Spec

---------------------------------------------------------------------------
(* Receipts.                                                               *)

\* A write adds a receipt only to a key that has none.
LEMMA OneReceipt ==
  ASSUME WorkOrderTypeOK, KeyAppliedOnce, NEW h \in Handlers, Commit(h)
  PROVE  /\ KeyAppliedOnce'
         /\ \A k \in Keys : receipts[k] # <<>> => receipts'[k] = receipts[k]
         /\ job'[h].answer = "OK" /\ job[h].request.key # None
              => receipts'[job[h].request.key] = <<job[h].request>>
         /\ \E answer \in Answers : job' = [job EXCEPT ![h] = Answered(job[h].request, answer)]
<1>1. PICK j \in Job : job[h] = j /\ j.stage = "VALIDATED"
  BY DEF Commit, WorkOrderTypeOK
<1>. DEFINE r == j.request
<1>2. r \in Requests /\ r.key \in Keys \cup {None}
  BY RequestKinds DEF Job, Patch, Execution
<1>3. \A k \in Keys : receipts[k] \in Seq(Requests) /\ Len(receipts[k]) <= 1
  BY DEF WorkOrderTypeOK, KeyAppliedOnce
<1>4. CASE Replayed(r)
  <2>1. receipts' = receipts /\ job' = [job EXCEPT ![h] = Answered(r, "OK")]
    BY <1>1, <1>4 DEF Commit, Write, Replayed, Reused
  <2>2. r.key \in Keys => receipts[r.key] = <<r>>
    BY <1>3, <1>4 DEF Replayed
  <2>. QED
    BY <1>1, <1>2, <2>1, <2>2 DEF KeyAppliedOnce, Answers
<1>5. CASE Reused(r)
  <2>1. receipts' = receipts /\ job' = [job EXCEPT ![h] = Answered(r, "CONFLICT")]
    BY <1>1, <1>5 DEF Commit, Write, Replayed, Reused
  <2>2. job'[h].answer = "CONFLICT"
    BY <2>1 DEF WorkOrderTypeOK, Answered
  <2>. QED
    BY <1>1, <2>1, <2>2 DEF KeyAppliedOnce, Answers
<1>6. CASE ~Replayed(r) /\ ~Reused(r)
  <2>1. receipts' = WithReceipt(r) /\ job' = [job EXCEPT ![h] = Answered(r, "OK")]
    BY <1>1, <1>6 DEF Commit, Write
  <2>2. r.key # None => receipts[r.key] = <<>>
    BY <1>6 DEF Replayed, Reused
  <2>3. Append(<<>>, r) = <<r>> /\ Len(<<r>>) = 1
    OBVIOUS
  <2>4. r.key # None => receipts' = [receipts EXCEPT ![r.key] = <<r>>]
    <3>1. r.key # None => receipts' = [receipts EXCEPT ![r.key] = Append(receipts[r.key], r)]
      BY <2>1 DEF WithReceipt
    <3>. QED
      BY <2>2, <2>3, <3>1
  <2>5. r.key = None => receipts' = receipts
    BY <2>1 DEF WithReceipt
  <2>6. \A k \in Keys : receipts'[k] = IF k = r.key THEN <<r>> ELSE receipts[k]
    BY <2>4, <2>5, NoneAssumption DEF WorkOrderTypeOK
  <2>7. KeyAppliedOnce'
    <3>. SUFFICES ASSUME NEW k \in Keys PROVE Len(receipts'[k]) <= 1
      BY DEF KeyAppliedOnce
    <3>1. CASE k = r.key
      <4>1. receipts'[k] = <<r>>
        BY <2>6, <3>1
      <4>. QED
        BY <2>3, <4>1
    <3>2. CASE k # r.key
      <4>1. receipts'[k] = receipts[k]
        BY <2>6, <3>2
      <4>. QED
        BY <1>3, <4>1
    <3>. QED
      BY <3>1, <3>2
  <2>8. \A k \in Keys : receipts[k] # <<>> => receipts'[k] = receipts[k]
    BY <2>2, <2>6, NoneAssumption
  <2>9. r.key # None => receipts'[r.key] = <<r>>
    BY <1>2, <2>6
  <2>. QED
    BY <1>1, <2>1, <2>7, <2>8, <2>9 DEF Answers
<1>. QED
  BY <1>4, <1>5, <1>6

ReceiptsInv == KeyAppliedOnce /\ DoneMeansWritten

\* A step keeps every receipt and every answer true.
LEMMA StepKeepsReceipts ==
  ASSUME WorkOrderTypeOK, ReceiptsInv, [Next]_vars
  PROVE  ReceiptsInv'
<1>1. ASSUME NEW h \in Handlers, NEW r \in Requests, Handle(h, r)
      PROVE  ReceiptsInv'
  <2>1. r.key \in Keys \cup {None}
    BY RequestKinds DEF Patch, Execution
  <2>2. Replayed(r) => receipts[r.key] = <<r>>
    BY <2>1 DEF Replayed, ReceiptsInv, KeyAppliedOnce, WorkOrderTypeOK
  <2>3. ASSUME NEW g \in Handlers, job'[g] # None, job'[g].stage = "ANSWERED",
               job'[g].request.key # None, job'[g].answer = "OK"
        PROVE  receipts'[job'[g].request.key] = <<job'[g].request>>
    <3>1. CASE g # h
      BY <1>1, <2>3, <3>1 DEF Handle, ReceiptsInv, DoneMeansWritten, WorkOrderTypeOK
    <3>2. CASE g = h
      BY <1>1, <2>2, <2>3, <3>2 DEF Handle, WorkOrderTypeOK, Answered
    <3>. QED
      BY <3>1, <3>2
  <2>. QED
    BY <1>1, <2>3 DEF ReceiptsInv, KeyAppliedOnce, DoneMeansWritten, Handle
<1>2. ASSUME NEW h \in Handlers, Commit(h)
      PROVE  ReceiptsInv'
  <2>1. /\ KeyAppliedOnce'
        /\ \A k \in Keys : receipts[k] # <<>> => receipts'[k] = receipts[k]
        /\ job'[h].answer = "OK" /\ job[h].request.key # None
             => receipts'[job[h].request.key] = <<job[h].request>>
        /\ \E answer \in Answers : job' = [job EXCEPT ![h] = Answered(job[h].request, answer)]
    BY <1>2, OneReceipt DEF ReceiptsInv
  <2>2. ASSUME NEW g \in Handlers, job'[g] # None, job'[g].stage = "ANSWERED",
               job'[g].request.key # None, job'[g].answer = "OK"
        PROVE  receipts'[job'[g].request.key] = <<job'[g].request>>
    <3>1. CASE g = h
      <4>1. job'[h].request = job[h].request
        BY <2>1 DEF Answered, WorkOrderTypeOK
      <4>. QED
        BY <2>1, <2>2, <3>1, <4>1
    <3>2. CASE g # h
      <4>1. job'[g] = job[g] /\ job[g] \in Job
        BY <2>1, <2>2, <3>2 DEF WorkOrderTypeOK
      <4>2. receipts[job[g].request.key] = <<job[g].request>>
        BY <2>2, <4>1 DEF ReceiptsInv, DoneMeansWritten
      <4>3. job[g].request.key \in Keys
        <5>1. job[g].request \in Requests
          BY <4>1 DEF Job
        <5>. QED
          BY <2>2, <4>1, <5>1, RequestKinds DEF Patch, Execution
      <4>. QED
        BY <2>1, <4>1, <4>2, <4>3
    <3>. QED
      BY <3>1, <3>2
  <2>. QED
    BY <2>1, <2>2 DEF ReceiptsInv, DoneMeansWritten
<1>3. ASSUME NEW h \in Handlers, End(h)
      PROVE  ReceiptsInv'
  BY <1>3 DEF End, ReceiptsInv, KeyAppliedOnce, DoneMeansWritten, WorkOrderTypeOK
<1>4. CASE Reschedule \/ UNCHANGED vars
  BY <1>4 DEF Reschedule, vars, ReceiptsInv, KeyAppliedOnce, DoneMeansWritten
<1>. QED
  BY <1>1, <1>2, <1>3, <1>4 DEF Next, HandlerStep

\* Under one key at most one request is ever written, and only that request is
\* ever answered as done.
THEOREM ReceiptsAreExact == Spec => [](KeyAppliedOnce /\ DoneMeansWritten)
<1>1. Init => ReceiptsInv
  BY DEF Init, ReceiptsInv, KeyAppliedOnce, DoneMeansWritten
<1>2. WorkOrderTypeOK /\ ReceiptsInv /\ [Next]_vars => ReceiptsInv'
  BY StepKeepsReceipts
<1>3. ReceiptsInv => KeyAppliedOnce /\ DoneMeansWritten
  BY DEF ReceiptsInv
<1>. QED
  BY <1>1, <1>2, <1>3, WorkOrderTypeCorrect, PTL DEF Spec

\* A client that is told its request is done can rely on it: that request, and
\* none other with its key, was written.
THEOREM AnswersAreTrue == Spec => []DoneMeansWritten
  BY ReceiptsAreExact, PTL

---------------------------------------------------------------------------
(* The planning calendar.                                                  *)

\* A day and the time of day make up a local time.
LEMMA DaysAndTimes ==
  ASSUME NEW t \in Int
  PROVE  /\ t \div DayLength \in Int
         /\ t % DayLength \in 0..DayLength - 1
         /\ t = (t \div DayLength) * DayLength + (t % DayLength)
<1>1. DayLength \in Int /\ DayLength > 0
  BY DayLengthAssumption
<1>2. t \div DayLength \in Int
  BY <1>1
<1>3. t % DayLength \in 0..DayLength - 1
  BY <1>1
<1>4. t = (t \div DayLength) * DayLength + (t % DayLength)
  BY <1>1, <1>2, <1>3
<1>. QED
  BY <1>2, <1>3, <1>4

\* The guesses come to the instant at which the clock shows t, wherever the
\* clocks stand and whenever they are changed; where there is none they end up
\* within the gap (zonedDateTimeToUtc).
LEMMA ClockIsMet ==
  ASSUME NEW z \in Zone, NEW t \in Int
  PROVE  /\ zonedDateTimeToUtc(z, t) \in Int
         /\ Kept(z, zonedDateTimeToUtc(z, t), t)
<1>1. z.change \in Int /\ z.before \in Int /\ z.after \in Int
  BY DEF Zone
<1>2. \A g \in Int : Corrected(z, t, g) = IF g < z.change THEN t - z.before ELSE t - z.after
  BY <1>1 DEF Corrected, localTime, offset
<1>. DEFINE a == t - z.before
            b == t - z.after
            last == zonedDateTimeToUtc(z, t)
<1>3. /\ last \in {a, b}
      /\ a < z.change \/ b >= z.change =>
             (last = a /\ a < z.change) \/ (last = b /\ b >= z.change)
  BY <1>1, <1>2 DEF zonedDateTimeToUtc
<1>4. Shown(z, t) <=> a < z.change \/ b >= z.change
  BY <1>1 DEF Shown, localTime, offset
<1>5. CASE Shown(z, t)
  BY <1>1, <1>3, <1>4, <1>5 DEF Kept, localTime, offset
<1>6. CASE ~Shown(z, t)
  BY <1>1, <1>3, <1>4, <1>6 DEF Kept, Gap, localTime, offset
<1>. QED
  BY <1>1, <1>3, <1>5, <1>6

\* A request with dates does to the work order what one without does.
LEMMA PlanningIsRequests ==
  /\ PlanningInit => Init
  /\ [PlanningNext]_planVars => [Next]_vars
<1>1. PlanningInit => Init
  BY DEF PlanningInit
<1>2. ASSUME PlanningNext PROVE Next
  BY <1>2 DEF PlanningNext, HandleDates, CommitDates, EndDates, RescheduleTo, Next, HandlerStep
<1>3. UNCHANGED planVars => UNCHANGED vars
  BY DEF planVars, vars
<1>. QED
  BY <1>1, <1>2, <1>3

\* Whatever is proved of the requests holds when they come with dates.
THEOREM PlanningKeepsTheRequests == PlanningSpec => Spec
  BY PlanningIsRequests, PTL DEF PlanningSpec, Spec

\* What a PATCH is about to write to the start.
AskedTrue ==
    \A h \in Handlers :
        job[h] # None /\ job[h].stage = "VALIDATED" /\ job[h].request.op = "PATCH"
            => CASE job[h].request.planned = "set"   -> asked[h] \in Int
                 [] job[h].request.planned = "clear" -> asked[h] = None
                 [] OTHER -> TRUE

\* The data of a pending PATCH sets the planned start as its request asks.
DataTrue ==
    \A h \in Handlers :
        job[h] # None /\ job[h].stage = "VALIDATED" /\ job[h].request.op = "PATCH"
            => job[h].data.planned = job[h].request.planned

Dated ==
    /\ zone \in Zones
    /\ {start, due} \subseteq Int \cup {None}
    /\ asked \in [Handlers -> Int \cup {None}]
    /\ wo.planned <=> start # None

PInv == Dated /\ AskedTrue /\ DataTrue

\* The dates a move computes.
LEMMA RescheduledDates ==
  ASSUME Dated, NEW target \in Days
  PROVE  LET dates == rescheduleWorkOrderDates(target)
             days == target - localDateKey(zone, start)
             time == IF start = None THEN defaultHour ELSE timeOfDay(zone, start)
         IN  /\ dates.start \in Int
             /\ dates.due \in Int \cup {None}
             /\ Kept(zone, dates.start, target * DayLength + time)
             /\ due # None /\ start # None =>
                   Kept(zone, dates.due, localTime(zone, due) + days * DayLength)
<1>. DEFINE dates == rescheduleWorkOrderDates(target)
            days == target - localDateKey(zone, start)
<1>1. /\ zone \in Zone /\ target \in Int /\ defaultHour \in Int /\ DayLength \in Int
      /\ None \notin Int
      /\ zone.change \in Int /\ zone.before \in Int /\ zone.after \in Int
  BY CalendarAssumption, CalendarNoneAssumption, DayLengthAssumption DEF Dated, Zone
<1>2. \A u \in Int : localTime(zone, u) \in Int
  BY <1>1 DEF localTime, offset
<1>3. CASE start = None
  <2>1. target * DayLength + defaultHour \in Int
    BY <1>1
  <2>2. /\ dates.start = zonedDateTimeToUtc(zone, target * DayLength + defaultHour)
        /\ dates.due = due
    BY <1>3 DEF rescheduleWorkOrderDates
  <2>. QED
    BY <1>1, <1>3, <2>1, <2>2, ClockIsMet DEF Dated
<1>4. CASE start # None
  <2>1. start \in Int /\ localTime(zone, start) \in Int
    BY <1>2, <1>4 DEF Dated
  <2>2. days \in Int /\ days * DayLength \in Int
    BY <1>1, <2>1, DaysAndTimes DEF localDateKey
  <2>3. dates.start = zonedDateTimeToUtc(zone, localTime(zone, start) + days * DayLength)
    BY <1>4 DEF rescheduleWorkOrderDates, shiftInstantByLocalDays
  <2>4. localTime(zone, start) + days * DayLength = target * DayLength + timeOfDay(zone, start)
    <3>. DEFINE t == localTime(zone, start)
                d == t \div DayLength
                r == t % DayLength
    <3>1. d \in Int /\ r \in Int /\ t = d * DayLength + r
      BY <2>1, DaysAndTimes
    <3>2. days = target - d /\ timeOfDay(zone, start) = r
      BY DEF localDateKey, timeOfDay
    <3>. HIDE DEF d, r, t
    <3>3. (target - d) * DayLength = target * DayLength - d * DayLength
      BY <1>1, <3>1
    <3>. QED
      BY <1>1, <3>1, <3>2, <3>3 DEF t
  <2>5. localTime(zone, start) + days * DayLength \in Int
    BY <2>1, <2>2
  <2>6. Kept(zone, dates.start, target * DayLength + timeOfDay(zone, start))
    BY <1>1, <2>3, <2>4, <2>5, ClockIsMet
  <2>7. CASE due = None
    BY <1>1, <1>4, <2>3, <2>5, <2>6, <2>7, ClockIsMet DEF rescheduleWorkOrderDates
  <2>8. CASE due # None
    <3>1. due \in Int /\ localTime(zone, due) \in Int
      BY <1>2, <2>8 DEF Dated
    <3>2. dates.due = zonedDateTimeToUtc(zone, localTime(zone, due) + days * DayLength)
      BY <1>4, <2>8 DEF rescheduleWorkOrderDates, shiftInstantByLocalDays
    <3>3. localTime(zone, due) + days * DayLength \in Int
      BY <2>2, <3>1
    <3>. QED
      BY <1>1, <1>4, <2>3, <2>5, <2>6, <3>2, <3>3, ClockIsMet
  <2>. QED
    BY <2>7, <2>8
<1>. QED
  BY <1>3, <1>4

\* A request is validated together with the dates it writes.
LEMMA HandlingKeepsDates ==
  ASSUME WorkOrderTypeOK, PInv, NEW h \in Handlers, NEW r \in Requests, HandleDates(h, r)
  PROVE  PInv'
<1>. DEFINE valid == r.op = "PATCH" /\ job'[h].stage = "VALIDATED"
<1>1. /\ \A g \in Handlers \ {h} : job'[g] = job[g] /\ asked'[g] = asked[g]
      /\ UNCHANGED <<wo, zone, start, due>>
      /\ asked' \in [Handlers -> Int \cup {None}]
  <2>1. \A s \in StartsOf(r) : s \in Int \cup {None}
    BY CalendarAssumption DEF StartsOf, PInv, Dated
  <2>. QED
    BY <2>1 DEF HandleDates, Handle, WorkOrderTypeOK, PInv, Dated
<1>2. job'[h].stage = "VALIDATED" =>
        job'[h] = [request |-> r, stage |-> "VALIDATED",
                   data |-> IF r.op = "PATCH" THEN DataOf(r) ELSE None]
  BY DEF HandleDates, Handle, WorkOrderTypeOK, Answered
<1>3. ASSUME valid
      PROVE  /\ r.planned = "set" => asked'[h] \in Int
             /\ r.planned = "clear" => asked'[h] = None
             /\ job'[h].data.planned = r.planned
  <2>1. PICK s \in StartsOf(r) :
          asked' = [asked EXCEPT ![h] = IF r.planned = "keep" THEN None ELSE s]
    BY <1>3 DEF HandleDates
  <2>2. r.planned = "set" => s \in Int
    BY CalendarAssumption DEF StartsOf
  <2>3. r.planned = "clear" => s = None
    BY DEF StartsOf
  <2>4. DataOf(r).planned = r.planned
    BY DEF DataOf
  <2>. QED
    BY <1>2, <1>3, <2>1, <2>2, <2>3, <2>4 DEF PInv, Dated
<1>4. AskedTrue'
  BY <1>1, <1>2, <1>3 DEF PInv, AskedTrue
<1>5. DataTrue'
  BY <1>1, <1>2, <1>3 DEF PInv, DataTrue
<1>. QED
  BY <1>1, <1>4, <1>5 DEF PInv, Dated

\* The planned start is written with the mark that it is set.
LEMMA CommittingKeepsDates ==
  ASSUME WorkOrderTypeOK, PInv, NEW h \in Handlers, CommitDates(h)
  PROVE  PInv'
<1>. DEFINE r == job[h].request
            written == r.op = "PATCH" /\ r.planned # "keep" /\ ~Replayed(r) /\ ~Reused(r)
<1>1. PICK j \in Job : job[h] = j /\ j.stage = "VALIDATED"
  BY DEF CommitDates, Commit, WorkOrderTypeOK
<1>2. r \in Requests
  BY <1>1 DEF Job
<1>3. /\ \A g \in Handlers \ {h} : job'[g] = job[g] /\ asked'[g] = asked[g]
      /\ job'[h].stage = "ANSWERED"
      /\ UNCHANGED <<zone, due>>
      /\ asked' \in [Handlers -> Int \cup {None}]
  BY <1>1, NoneAssumption DEF CommitDates, Commit, Write, Done, Answered, WorkOrderTypeOK, PInv, Dated
<1>4. start' = (IF written THEN asked[h] ELSE start)
  BY DEF CommitDates
<1>5. wo'.planned <=> start' # None
  <2>1. CASE Replayed(r) \/ Reused(r)
    BY <1>1, <1>4, <2>1 DEF CommitDates, Commit, Write, PInv, Dated
  <2>2. CASE ~Replayed(r) /\ ~Reused(r)
    <3>1. wo' \in Written(job[h])
      BY <1>1, <2>2 DEF CommitDates, Commit, Write
    <3>2. CASE r.op # "PATCH"
      <4>1. PICK new \in SUBSET Items : wo' = ExecutionWritten(r, new)
        BY <3>1, <3>2 DEF Written
      <4>2. wo'.planned = wo.planned
        BY <4>1 DEF ExecutionWritten, WorkOrderTypeOK, WorkOrderRow
      <4>. QED
        BY <1>4, <3>2, <4>2 DEF PInv, Dated
    <3>3. CASE r.op = "PATCH"
      <4>1. wo' = PatchWritten(job[h].data)
        BY <3>1, <3>3 DEF Written
      <4>2. wo'.planned = Edited(job[h].data.planned, wo.planned)
        BY <4>1 DEF PatchWritten, WorkOrderTypeOK, WorkOrderRow
      <4>3. job[h].data.planned = r.planned /\ job[h] # None
        BY <1>1, <3>3 DEF PInv, DataTrue, CommitDates, Commit
      <4>4. r.planned \in Edit
        BY <1>2, <3>3, RequestKinds DEF Patch
      <4>5. /\ r.planned = "set" => asked[h] \in Int
            /\ r.planned = "clear" => asked[h] = None
        BY <1>1, <3>3, <4>3 DEF PInv, AskedTrue
      <4>. QED
        BY <1>4, <2>2, <3>3, <4>2, <4>3, <4>4, <4>5, CalendarNoneAssumption
           DEF Edited, Edit, PInv, Dated
    <3>. QED
      BY <3>2, <3>3
  <2>. QED
    BY <2>1, <2>2
<1>6. start' \in Int \cup {None}
  BY <1>4 DEF PInv, Dated
<1>7. Dated'
  BY <1>3, <1>5, <1>6 DEF PInv, Dated
<1>8. AskedTrue' /\ DataTrue'
  BY <1>3 DEF PInv, AskedTrue, DataTrue
<1>. QED
  BY <1>7, <1>8 DEF PInv

\* The dates of a work order, of the requests on it and of the moves on the
\* calendar are well typed, and its row says that a start is set exactly when
\* one is.
THEOREM PlanningTypeCorrect == PlanningSpec => []PlanningTypeOK
<1>1. PlanningInit => PInv
  BY CalendarAssumption
     DEF PlanningInit, Init, PInv, Dated, AskedTrue, DataTrue
<1>2. WorkOrderTypeOK /\ PInv /\ [PlanningNext]_planVars => PInv'
  <2>. SUFFICES ASSUME WorkOrderTypeOK, PInv, [PlanningNext]_planVars
                PROVE  PInv'
    OBVIOUS
  <2>1. ASSUME NEW h \in Handlers, NEW r \in Requests, HandleDates(h, r) PROVE PInv'
    BY <2>1, HandlingKeepsDates
  <2>2. ASSUME NEW h \in Handlers, CommitDates(h) PROVE PInv'
    BY <2>2, CommittingKeepsDates
  <2>3. ASSUME NEW h \in Handlers, EndDates(h) PROVE PInv'
    <3>1. /\ \A g \in Handlers \ {h} : job'[g] = job[g] /\ asked'[g] = asked[g]
          /\ job'[h] = None
          /\ UNCHANGED <<wo, zone, start, due>>
          /\ asked' \in [Handlers -> Int \cup {None}]
      BY <2>3 DEF EndDates, End, Done, WorkOrderTypeOK, PInv, Dated
    <3>. QED
      BY <3>1 DEF PInv, Dated, AskedTrue, DataTrue
  <2>4. ASSUME NEW target \in Days, RescheduleTo(target) PROVE PInv'
    <3>1. start' \in Int /\ due' \in Int \cup {None}
      BY <2>4, RescheduledDates DEF RescheduleTo, PInv
    <3>2. wo'.planned /\ UNCHANGED <<job, zone, asked>>
      BY <2>4 DEF RescheduleTo, Reschedule, WorkOrderTypeOK, WorkOrderRow
    <3>3. start' # None
      BY <3>1, CalendarNoneAssumption
    <3>4. Dated'
      BY <3>1, <3>2, <3>3 DEF PInv, Dated
    <3>. QED
      BY <3>2, <3>4 DEF PInv, AskedTrue, DataTrue
  <2>5. CASE UNCHANGED planVars
    BY <2>5 DEF planVars, PInv, Dated, AskedTrue, DataTrue
  <2>. QED
    BY <2>1, <2>2, <2>3, <2>4, <2>5 DEF PlanningNext
<1>3. WorkOrderTypeOK /\ PInv => PlanningTypeOK
  BY DEF PInv, Dated, PlanningTypeOK
<1>. QED
  BY <1>1, <1>2, <1>3, PlanningKeepsTheRequests, WorkOrderTypeCorrect, PTL DEF PlanningSpec

\* Whatever the time zone and whenever its clocks are changed, work moved on the
\* calendar keeps its time of day, and its due date its distance in days.
THEOREM ReschedulingKeepsTheTime == PlanningSpec => ReschedulingKeepsTheClock
<1>. DEFINE Kind(target) ==
              LET days == target - localDateKey(zone, start)
                  time == IF start = None THEN defaultHour ELSE timeOfDay(zone, start)
              IN  /\ Kept(zone, start', target * DayLength + time)
                  /\ due # None /\ start # None =>
                       Kept(zone, due', localTime(zone, due) + days * DayLength)
<1>1. PlanningTypeOK => \A target \in Days : RescheduleTo(target) => Kind(target)
  <2>. SUFFICES ASSUME PlanningTypeOK, NEW target \in Days, RescheduleTo(target)
                PROVE  Kind(target)
    OBVIOUS
  <2>1. Dated
    BY DEF PlanningTypeOK, Dated
  <2>2. /\ start' = rescheduleWorkOrderDates(target).start
        /\ due' = rescheduleWorkOrderDates(target).due
    BY DEF RescheduleTo
  <2>. QED
    BY <2>1, <2>2, RescheduledDates
<1>. QED
  BY <1>1, PlanningTypeCorrect, PTL DEF ReschedulingKeepsTheClock
---------------------------------------------------------------------------
(* The offline queue.                                                      *)

\* Synced or discarded.
Left(k) == fate[k] \in {"SYNCED", "DISCARDED"}

Foremost(k) == fate[k] # "NEW" /\ \A j \in Keys : j < k => Left(j)

QueueIsFilledInOrder ==
    \A k \in Keys : fate[k] # "NEW" =>
        /\ write[k] \in Requests /\ write[k].key = k
        /\ \A j \in Keys : j < k => fate[j] # "NEW"

\* What is left of a list misses no earlier write that is still queued.
ListsAreWhole ==
    \A t \in Tabs : \A k \in flush[t].todo :
        /\ fate[k] # "NEW"
        /\ \A j \in Keys : j < k => j \in flush[t].todo \/ Left(j)

OnlyTheForemostIsUnderWay ==
    /\ \A m \in wire : Foremost(m.key)
    /\ \A h \in Handlers :
        job[h] # None /\ job[h].request.key # None =>
            /\ Foremost(job[h].request.key)
            /\ job[h].request = write[job[h].request.key]

CallersAreServed ==
    \A h \in Handlers :
        /\ caller[h] # None => job[h] # None /\ job[h].request.key # None
        /\ job[h] # None /\ job[h].stage = "ANSWERED" /\ job[h].answer = "NO_CHANGES"
             => job[h].request.op = "PATCH"

QInv == /\ QueueTypeOK /\ ReceiptsInv
        /\ QueueIsFilledInOrder /\ ListsAreWhole
        /\ OnlyTheForemostIsUnderWay /\ CallersAreServed
        /\ NoWriteLost

\* A flush sends the earliest write of its list.
LEMMA FirstIsLeast ==
  ASSUME NEW S \in SUBSET Keys, S # {}
  PROVE  First(S) \in S /\ \A j \in S : First(S) <= j
<1>. DEFINE R == {p \in Nat \X Nat : p[1] < p[2]}
<1>1. S \subseteq Nat
  BY KeyAssumption
<1>2. IsWellFoundedOn(R, Nat)
  BY NatLessThanWellFounded, Zenon DEF OpToRel
<1>3. \E x \in S : \A y \in S : ~ (<<y, x>> \in R)
  <2>. HIDE DEF R
  <2>. QED
    BY <1>1, <1>2, WFMin, Zenon
<1>4. \A x, y \in S : <<y, x>> \notin R => x <= y
  BY <1>1
<1>. QED
  BY <1>3, <1>4 DEF First

\* What the queue and the network do is a step of the work order or none.
LEMMA QueueStepIsRequestStep ==
  ASSUME QInv, [QueueNext]_queueVars
  PROVE  [Next]_vars
<1>1. ASSUME NEW m \in wire, NEW h \in Handlers, Arrive(h, m)
      PROVE  Next
  <2>1. write[m.key] \in Requests
    BY DEF QInv, OnlyTheForemostIsUnderWay, Foremost, QueueIsFilledInOrder, QueueTypeOK
  <2>. QED
    BY <1>1, <2>1 DEF Arrive, Next, HandlerStep
<1>2. ASSUME NEW h \in Handlers,
             ServerCommit(h) \/ Answer(h) \/ EndUnheard(h) \/ (\E r \in Requests : OtherRequest(h, r))
      PROVE  Next
  BY <1>2 DEF ServerCommit, Answer, EndUnheard, OtherRequest, Next, HandlerStep
<1>3. CASE ClientStep
  BY <1>3 DEF ClientStep, Enqueue, Discard, StartFlush, Send, StopFlush, GiveUp, serverVars, vars
<1>4. CASE UNCHANGED queueVars
  BY <1>4 DEF queueVars, serverVars, vars
<1>5. ASSUME NEW m \in wire, Lose(m)
      PROVE  UNCHANGED vars
  BY <1>5 DEF Lose, serverVars, vars
<1>. QED
  BY <1>1, <1>2, <1>3, <1>4, <1>5 DEF QueueNext, ServerStep

\* A receipt stays.
LEMMA ReceiptsStay ==
  ASSUME WorkOrderTypeOK, ReceiptsInv, [Next]_vars, NEW k \in Keys, receipts[k] # <<>>
  PROVE  receipts'[k] = receipts[k]
<1>1. ASSUME NEW h \in Handlers, Commit(h)
      PROVE  receipts'[k] = receipts[k]
  BY <1>1, OneReceipt DEF ReceiptsInv
<1>. QED
  BY <1>1 DEF Next, HandlerStep, Handle, End, Reschedule, vars

LEMMA JobRequest ==
  ASSUME WorkOrderTypeOK, NEW h \in Handlers, job[h] # None
  PROVE  job[h] \in Job /\ job[h].request \in Requests /\ job[h].request.key \in Keys \cup {None}
<1>1. job[h] \in Job
  BY DEF WorkOrderTypeOK
<1>2. job[h].request \in Requests
  BY <1>1 DEF Job
<1>. QED
  BY <1>1, <1>2, RequestKinds DEF Patch, Execution

\* A write once queued stays what it is, and one that left the queue stays out.
LEMMA FatesAdvance ==
  ASSUME QInv, [QueueNext]_queueVars, NEW k \in Keys, fate[k] # "NEW"
  PROVE  /\ fate'[k] # "NEW" /\ write'[k] = write[k]
         /\ Left(k) => Left(k)'
<1>. USE DEF QInv, QueueTypeOK, Left
<1>1. ASSUME NEW r \in Requests, Enqueue(r)
      PROVE  /\ fate'[k] # "NEW" /\ write'[k] = write[k]
             /\ Left(k) => Left(k)'
  BY <1>1 DEF Enqueue
<1>2. ASSUME NEW j \in Keys, Discard(j)
      PROVE  /\ fate'[k] # "NEW" /\ write'[k] = write[k]
             /\ Left(k) => Left(k)'
  BY <1>2 DEF Discard, Queued
<1>3. ASSUME NEW t \in Tabs, StartFlush(t) \/ Send(t) \/ StopFlush(t) \/ GiveUp(t)
      PROVE  fate' = fate /\ write' = write
  BY <1>3 DEF StartFlush, Send, StopFlush, GiveUp, AfterFailure
<1>4. ASSUME NEW m \in wire, Lose(m) \/ \E h \in Handlers : Arrive(h, m)
      PROVE  fate' = fate /\ write' = write
  BY <1>4 DEF Lose, Arrive, clientVars
<1>5. ASSUME NEW h \in Handlers, ServerCommit(h) \/ EndUnheard(h) \/ \E r \in Requests : OtherRequest(h, r)
      PROVE  fate' = fate /\ write' = write
  BY <1>5 DEF ServerCommit, EndUnheard, OtherRequest, clientVars
<1>6. ASSUME NEW h \in Handlers, Answer(h)
      PROVE  /\ fate'[k] # "NEW" /\ write'[k] = write[k]
             /\ Left(k) => Left(k)'
  BY <1>6 DEF Answer, Receive
<1>7. CASE UNCHANGED queueVars
  BY <1>7 DEF queueVars, clientVars
<1>. QED
  BY <1>1, <1>2, <1>3, <1>4, <1>5, <1>6, <1>7 DEF QueueNext, ClientStep, ServerStep

\* What was foremost stays so.
LEMMA ForemostStays ==
  ASSUME QInv, [QueueNext]_queueVars, NEW k \in Keys, Foremost(k)
  PROVE  Foremost(k)'
<1>1. fate'[k] # "NEW"
  BY FatesAdvance DEF Foremost
<1>2. ASSUME NEW j \in Keys, j < k PROVE Left(j)'
  <2>1. Left(j)
    BY <1>2 DEF Foremost
  <2>. QED
    BY <2>1, FatesAdvance DEF Left
<1>. QED
  BY <1>1, <1>2 DEF Foremost

\* The queue stays filled in order.
LEMMA FillingInOrder ==
  ASSUME QInv, [QueueNext]_queueVars
  PROVE  QueueIsFilledInOrder'
<1>. SUFFICES ASSUME NEW k \in Keys, fate'[k] # "NEW"
              PROVE  /\ write'[k] \in Requests /\ write'[k].key = k
                     /\ \A j \in Keys : j < k => fate'[j] # "NEW"
  BY DEF QueueIsFilledInOrder
<1>1. CASE fate[k] # "NEW"
  BY <1>1, FatesAdvance DEF QInv, QueueIsFilledInOrder
<1>2. CASE fate[k] = "NEW"
  <2>1. PICK r \in Requests : Enqueue(r)
    <3>. SUFFICES ASSUME ~ \E r \in Requests : Enqueue(r) PROVE fate'[k] = "NEW"
      OBVIOUS
    <3>1. ASSUME NEW j \in Keys, Discard(j)
          PROVE  FALSE
      BY <1>2, <3>1 DEF Discard, Queued, QInv, QueueTypeOK
    <3>2. ASSUME NEW t \in Tabs, StartFlush(t) \/ Send(t) \/ StopFlush(t) \/ GiveUp(t)
          PROVE  fate' = fate
      BY <3>2 DEF StartFlush, Send, StopFlush, GiveUp, AfterFailure
    <3>3. ASSUME NEW m \in wire, Lose(m) \/ \E h \in Handlers : Arrive(h, m)
          PROVE  fate' = fate
      BY <3>3 DEF Lose, Arrive, clientVars
    <3>4. ASSUME NEW h \in Handlers,
                 ServerCommit(h) \/ EndUnheard(h) \/ \E r \in Requests : OtherRequest(h, r)
          PROVE  fate' = fate
      BY <3>4 DEF ServerCommit, EndUnheard, OtherRequest, clientVars
    <3>5. ASSUME NEW h \in Handlers, Answer(h)
          PROVE  fate'[k] = "NEW"
      BY <1>2, <3>5 DEF Answer, Receive, QInv, QueueTypeOK
    <3>6. CASE UNCHANGED queueVars
      BY <1>2, <3>6 DEF queueVars, clientVars
    <3>. QED
      BY <1>2, <3>1, <3>2, <3>3, <3>4, <3>5, <3>6 DEF QueueNext, ClientStep, ServerStep
  <2>2. r.key = k /\ write'[k] = r
    BY <1>2, <2>1 DEF Enqueue, QInv, QueueTypeOK
  <2>3. ASSUME NEW j \in Keys, j < k PROVE fate'[j] # "NEW"
    BY <2>1, <2>2, <2>3 DEF Enqueue, QInv, QueueTypeOK
  <2>. QED
    BY <2>2, <2>3
<1>. QED
  BY <1>1, <1>2

\* The types of the queue.
LEMMA QueueStepKeepsTypes ==
  ASSUME QInv, [QueueNext]_queueVars
  PROVE  QueueTypeOK'
<1>. USE DEF QInv
<1>1. WorkOrderTypeOK'
  BY QueueStepIsRequestStep, StepKeepsTypes DEF QueueTypeOK
<1>2. ASSUME NEW r \in Requests, Enqueue(r)
      PROVE  QueueTypeOK'
  <2>1. r.key \in Keys
    BY <1>2, RequestKinds DEF Enqueue, Patch, Execution
  <2>. QED
    BY <1>1, <1>2, <2>1 DEF Enqueue, QueueTypeOK, Queued, netVars
<1>3. ASSUME NEW k \in Keys, Discard(k)
      PROVE  QueueTypeOK'
  BY <1>1, <1>3 DEF Discard, QueueTypeOK, Queued, netVars
<1>4. ASSUME NEW t \in Tabs, StartFlush(t)
      PROVE  QueueTypeOK'
  BY <1>1, <1>4 DEF StartFlush, QueueTypeOK, Queued, netVars
<1>5. ASSUME NEW t \in Tabs, Send(t)
      PROVE  QueueTypeOK'
  <2>1. First(flush[t].todo) \in Keys
    BY <1>5, FirstIsLeast DEF Send, QueueTypeOK
  <2>2. wire' \subseteq [key: Keys, tab: Tabs \cup {None}]
    BY <1>5, <2>1 DEF Send, QueueTypeOK
  <2>3. flush' \in [Tabs -> [todo: SUBSET Keys, sent: BOOLEAN]]
    BY <1>5 DEF Send, QueueTypeOK
  <2>. QED
    BY <1>1, <1>5, <2>2, <2>3 DEF Send, QueueTypeOK, Queued
<1>6. ASSUME NEW t \in Tabs, StopFlush(t)
      PROVE  QueueTypeOK'
  BY <1>1, <1>6 DEF StopFlush, QueueTypeOK, Queued, netVars, Idle
<1>7. ASSUME NEW t \in Tabs, GiveUp(t)
      PROVE  QueueTypeOK'
  <2>1. wire' \subseteq [key: Keys, tab: Tabs \cup {None}]
    BY <1>7 DEF GiveUp, QueueTypeOK
  <2>2. conflict' \subseteq Queued'
    BY <1>7 DEF GiveUp, QueueTypeOK, Queued, AfterFailure
  <2>3. flush' \in [Tabs -> [todo: SUBSET Keys, sent: BOOLEAN]]
    BY <1>7 DEF GiveUp, QueueTypeOK, StoppedByFailure, Idle
  <2>4. caller' \in [Handlers -> Tabs \cup {None}]
    BY <1>7 DEF GiveUp, QueueTypeOK
  <2>. QED
    BY <1>1, <1>7, <2>1, <2>2, <2>3, <2>4 DEF GiveUp, QueueTypeOK, AfterFailure
<1>8. ASSUME NEW m \in wire, Lose(m) \/ \E h \in Handlers : Arrive(h, m)
      PROVE  QueueTypeOK'
  BY <1>1, <1>8 DEF Lose, Arrive, QueueTypeOK, Queued, clientVars
<1>9. ASSUME NEW h \in Handlers, ServerCommit(h) \/ EndUnheard(h) \/ \E r \in Requests : OtherRequest(h, r)
      PROVE  QueueTypeOK'
  BY <1>1, <1>9 DEF ServerCommit, EndUnheard, OtherRequest, QueueTypeOK, Queued, clientVars, netVars
<1>10. ASSUME NEW h \in Handlers, Answer(h)
       PROVE  QueueTypeOK'
  <2>. DEFINE t == caller[h]  k == job[h].request.key  answer == job[h].answer
  <2>1. t \in Tabs /\ k \in Keys
    BY <1>10, JobRequest DEF Answer, QueueTypeOK, CallersAreServed
  <2>2. Receive(t, k, answer)
    BY <1>10 DEF Answer
  <2>3. /\ flush' \in [Tabs -> [todo: SUBSET Keys, sent: BOOLEAN]]
        /\ fate' \in [Keys -> {"NEW", "QUEUED", "SYNCED", "DISCARDED"}]
        /\ conflict' \subseteq Queued'
    <3>. HIDE DEF t, k, answer
    <3>1. CASE answer \in {"OK", "NO_CHANGES"}
      <4>1. /\ fate' = [fate EXCEPT ![k] = IF fate[k] = "QUEUED" THEN "SYNCED" ELSE fate[k]]
            /\ conflict' = conflict \ {k}
            /\ flush' = [flush EXCEPT ![t] = [todo |-> flush[t].todo \ {k}, sent |-> FALSE]]
        BY <2>2, <3>1 DEF Receive
      <4>. QED
        BY <2>1, <4>1 DEF QueueTypeOK, Queued
    <3>2. CASE answer \notin {"OK", "NO_CHANGES"}
      <4>1. /\ fate' = fate
            /\ conflict' = conflict \cup ({k} \cap Queued)
            /\ flush' = [flush EXCEPT ![t] = [todo |-> {}, sent |-> FALSE]]
        BY <2>2, <3>2 DEF Receive, Idle
      <4>. QED
        BY <2>1, <4>1 DEF QueueTypeOK, Queued
    <3>. QED
      BY <3>1, <3>2
  <2>. QED
    BY <1>1, <1>10, <2>3 DEF Answer, QueueTypeOK
<1>11. CASE UNCHANGED queueVars
  BY <1>1, <1>11 DEF queueVars, clientVars, netVars, QueueTypeOK, Queued
<1>. QED
  BY <1>2, <1>3, <1>4, <1>5, <1>6, <1>7, <1>8, <1>9, <1>10, <1>11
     DEF QueueNext, ClientStep, ServerStep

\* A list is whole when it is made, and loses a write only as it leaves the queue.
LEMMA ListsStayWhole ==
  ASSUME QInv, [QueueNext]_queueVars
  PROVE  ListsAreWhole'
<1>1. QueueTypeOK
  BY DEF QInv
<1>2. ASSUME NEW t \in Tabs, flush'[t].todo = flush[t].todo, NEW k \in flush'[t].todo
      PROVE  /\ fate'[k] # "NEW"
             /\ \A j \in Keys : j < k => j \in flush'[t].todo \/ Left(j)'
  <2>1. k \in Keys /\ fate[k] # "NEW" /\ \A j \in Keys : j < k => j \in flush[t].todo \/ Left(j)
    BY <1>1, <1>2 DEF QInv, ListsAreWhole, QueueTypeOK
  <2>2. \A j \in Keys : Left(j) => Left(j)'
    BY FatesAdvance DEF Left
  <2>. QED
    BY <1>2, <2>1, <2>2, FatesAdvance
<1>3. CASE flush' = flush
  BY <1>2, <1>3 DEF ListsAreWhole
<1>4. ASSUME NEW t \in Tabs, StartFlush(t)
      PROVE  ListsAreWhole'
  <2>1. ASSUME NEW k \in Queued, NEW j \in Keys, j < k
        PROVE  j \in Queued \/ Left(j)
    BY <1>1, <2>1 DEF QInv, QueueIsFilledInOrder, Queued, Left, QueueTypeOK
  <2>2. flush'[t].todo = Queued /\ \A u \in Tabs \ {t} : flush'[u] = flush[u]
    BY <1>1, <1>4 DEF StartFlush, QueueTypeOK
  <2>3. fate' = fate
    BY <1>4 DEF StartFlush
  <2>4. ASSUME NEW k \in flush'[t].todo
        PROVE  /\ fate'[k] # "NEW"
               /\ \A j \in Keys : j < k => j \in flush'[t].todo \/ Left(j)'
    BY <2>1, <2>2, <2>3 DEF Queued, Left
  <2>. QED
    BY <1>2, <2>2, <2>4 DEF ListsAreWhole
<1>5. ASSUME NEW t \in Tabs, Send(t)
      PROVE  ListsAreWhole'
  <2>1. \A u \in Tabs : flush'[u].todo = flush[u].todo
    BY <1>1, <1>5 DEF Send, QueueTypeOK
  <2>. QED
    BY <1>2, <2>1 DEF ListsAreWhole
<1>6. ASSUME NEW t \in Tabs, StopFlush(t) \/ GiveUp(t)
      PROVE  ListsAreWhole'
  <2>1. flush'[t].todo = {} /\ \A u \in Tabs \ {t} : flush'[u] = flush[u]
    BY <1>1, <1>6 DEF StopFlush, GiveUp, QueueTypeOK, StoppedByFailure, Idle
  <2>. QED
    BY <1>2, <2>1 DEF ListsAreWhole
<1>7. ASSUME NEW h \in Handlers, Answer(h)
      PROVE  ListsAreWhole'
  <2>. DEFINE t == caller[h]  k == job[h].request.key  answer == job[h].answer
  <2>1. t \in Tabs /\ k \in Keys /\ Receive(t, k, answer)
    BY <1>1, <1>7, JobRequest DEF Answer, QueueTypeOK, QInv, CallersAreServed
  <2>2. \A u \in Tabs \ {t} : flush'[u] = flush[u]
    BY <1>1, <2>1 DEF Receive, QueueTypeOK
  <2>3. CASE answer \in {"OK", "NO_CHANGES"}
    <3>1. flush'[t].todo = flush[t].todo \ {k}
      BY <1>1, <2>1, <2>3 DEF Receive, QueueTypeOK
    <3>2. fate[k] # "NEW"
      <4>1. Foremost(k)
        BY <1>1, <1>7 DEF Answer, QInv, OnlyTheForemostIsUnderWay, CallersAreServed
      <4>. QED
        BY <4>1 DEF Foremost
    <3>3. fate'[k] \in {"SYNCED", "DISCARDED"}
      <4>1. fate' = [fate EXCEPT ![k] = IF fate[k] = "QUEUED" THEN "SYNCED" ELSE fate[k]]
        BY <2>1, <2>3 DEF Receive
      <4>2. fate[k] \in {"QUEUED", "SYNCED", "DISCARDED"}
        BY <1>1, <2>1, <3>2 DEF QueueTypeOK
      <4>. QED
        BY <1>1, <2>1, <4>1, <4>2 DEF QueueTypeOK
    <3>4. ASSUME NEW i \in flush'[t].todo
          PROVE  /\ fate'[i] # "NEW"
                 /\ \A j \in Keys : j < i => j \in flush'[t].todo \/ Left(j)'
      <4>1. i \in Keys /\ fate[i] # "NEW" /\ \A j \in Keys : j < i => j \in flush[t].todo \/ Left(j)
        BY <1>1, <2>1, <3>1 DEF QInv, ListsAreWhole, QueueTypeOK
      <4>2. \A j \in Keys : Left(j) => Left(j)'
        BY FatesAdvance DEF Left
      <4>3. fate'[i] # "NEW"
        BY <4>1, FatesAdvance
      <4>. QED
        BY <3>1, <3>3, <4>1, <4>2, <4>3 DEF Left
    <3>. QED
      BY <1>2, <2>2, <3>4 DEF ListsAreWhole
  <2>4. CASE answer \notin {"OK", "NO_CHANGES"}
    <3>1. flush'[t].todo = {}
      BY <1>1, <2>1, <2>4 DEF Receive, QueueTypeOK, Idle
    <3>. QED
      BY <1>2, <2>2, <3>1 DEF ListsAreWhole
  <2>. QED
    BY <2>3, <2>4
<1>8. ASSUME NEW r \in Requests, Enqueue(r)
      PROVE  flush' = flush
  BY <1>8 DEF Enqueue
<1>9. ASSUME NEW k \in Keys, Discard(k)
      PROVE  flush' = flush
  BY <1>9 DEF Discard
<1>10. ASSUME NEW m \in wire, Lose(m) \/ \E h \in Handlers : Arrive(h, m)
       PROVE  flush' = flush
  BY <1>10 DEF Lose, Arrive, clientVars
<1>11. ASSUME NEW h \in Handlers, ServerCommit(h) \/ EndUnheard(h) \/ \E r \in Requests : OtherRequest(h, r)
       PROVE  flush' = flush
  BY <1>11 DEF ServerCommit, EndUnheard, OtherRequest, clientVars
<1>12. CASE UNCHANGED queueVars
  BY <1>3, <1>12 DEF queueVars, clientVars
<1>. QED
  BY <1>3, <1>4, <1>5, <1>6, <1>7, <1>8, <1>9, <1>10, <1>11, <1>12
     DEF QueueNext, ClientStep, ServerStep

\* Where the request a handler works on comes from.
LEMMA RequestsAtWork ==
  ASSUME QInv, [QueueNext]_queueVars, NEW g \in Handlers, job'[g] # None
  PROVE  \/ job[g] # None /\ job'[g].request = job[g].request
         \/ \E m \in wire : Arrive(g, m) /\ job'[g].request = write[m.key]
         \/ job'[g].request.key = None
<1>. DEFINE Old == job[g] # None /\ job'[g].request = job[g].request
<1>1. WorkOrderTypeOK
  BY DEF QInv, QueueTypeOK
<1>2. ASSUME NEW h \in Handlers, NEW r, Handle(h, r)
      PROVE  IF g = h THEN job'[g].request = r ELSE job'[g] = job[g]
  BY <1>1, <1>2 DEF Handle, Answered, WorkOrderTypeOK
<1>3. ASSUME NEW h \in Handlers, Commit(h)
      PROVE  Old
  <2>1. \E answer \in Answers : job' = [job EXCEPT ![h] = Answered(job[h].request, answer)]
    BY <1>1, <1>3, OneReceipt DEF QInv, ReceiptsInv
  <2>. QED
    BY <1>1, <1>3, <2>1 DEF Commit, Answered, WorkOrderTypeOK
<1>4. ASSUME NEW h \in Handlers, End(h)
      PROVE  Old
  BY <1>1, <1>4 DEF End, WorkOrderTypeOK
<1>5. ASSUME NEW m \in wire, NEW h \in Handlers, Arrive(h, m)
      PROVE  Old \/ (Arrive(g, m) /\ job'[g].request = write[m.key])
  BY <1>2, <1>5 DEF Arrive
<1>6. ASSUME NEW h \in Handlers, ServerCommit(h) \/ Answer(h) \/ EndUnheard(h)
      PROVE  Old
  BY <1>3, <1>4, <1>6 DEF ServerCommit, Answer, EndUnheard
<1>7. ASSUME NEW h \in Handlers, NEW r \in Requests, OtherRequest(h, r)
      PROVE  Old \/ job'[g].request.key = None
  BY <1>2, <1>7 DEF OtherRequest
<1>8. ClientStep => job' = job
  BY DEF ClientStep, Enqueue, Discard, StartFlush, Send, StopFlush, GiveUp, serverVars
<1>9. ASSUME NEW m \in wire, Lose(m)
      PROVE  job' = job
  BY <1>9 DEF Lose, serverVars
<1>10. UNCHANGED queueVars => job' = job
  BY DEF queueVars, serverVars
<1>. QED
  BY <1>5, <1>6, <1>7, <1>8, <1>9, <1>10 DEF QueueNext, ServerStep

\* What is sent, and what a handler starts to work on, is foremost.
LEMMA UnderWayStaysForemost ==
  ASSUME QInv, [QueueNext]_queueVars
  PROVE  OnlyTheForemostIsUnderWay'
<1>1. QueueTypeOK /\ WorkOrderTypeOK
  BY DEF QInv, QueueTypeOK
<1>2. \A m \in wire : m.key \in Keys /\ Foremost(m.key)
  BY <1>1 DEF QInv, OnlyTheForemostIsUnderWay, QueueTypeOK
<1>3. ASSUME NEW t \in Tabs, flush[t].todo # {}
      PROVE  First(flush[t].todo) \in Keys /\ Foremost(First(flush[t].todo))
  <2>. DEFINE todo == flush[t].todo  k == First(todo)
  <2>1. todo \subseteq Keys
    BY <1>1 DEF QueueTypeOK
  <2>2. k \in todo /\ \A j \in todo : k <= j
    BY <1>3, <2>1, FirstIsLeast
  <2>3. fate[k] # "NEW" /\ \A j \in Keys : j < k => j \in todo \/ Left(j)
    BY <2>2 DEF QInv, ListsAreWhole
  <2>4. \A j \in todo : ~ (j < k)
    <3>1. todo \subseteq Nat /\ k \in Nat
      BY <2>1, <2>2, KeyAssumption
    <3>. HIDE DEF todo, k
    <3>. QED
      BY <2>2, <3>1
  <2>. QED
    BY <2>1, <2>2, <2>3, <2>4 DEF Foremost
<1>4. ASSUME NEW m \in wire' PROVE m.key \in Keys /\ Foremost(m.key)
  <2>1. ASSUME NEW t \in Tabs, Send(t)
        PROVE  m.key \in Keys /\ Foremost(m.key)
    BY <1>2, <1>3, <1>4, <2>1 DEF Send
  <2>2. ASSUME NEW t \in Tabs, GiveUp(t)
        PROVE  \E n \in wire : m.key = n.key
    BY <1>1, <1>4, <2>2 DEF GiveUp, QueueTypeOK
  <2>3. ASSUME NEW t \in Tabs, StartFlush(t) \/ StopFlush(t)
        PROVE  wire' = wire
    BY <2>3 DEF StartFlush, StopFlush, netVars
  <2>4. ASSUME NEW r \in Requests, Enqueue(r)
        PROVE  wire' = wire
    BY <2>4 DEF Enqueue, netVars
  <2>5. ASSUME NEW k \in Keys, Discard(k)
        PROVE  wire' = wire
    BY <2>5 DEF Discard, netVars
  <2>6. ASSUME NEW n \in wire, Lose(n) \/ \E h \in Handlers : Arrive(h, n)
        PROVE  wire' \subseteq wire
    BY <2>6 DEF Lose, Arrive
  <2>7. ASSUME NEW h \in Handlers, ServerCommit(h) \/ Answer(h) \/ EndUnheard(h)
                                     \/ \E r \in Requests : OtherRequest(h, r)
        PROVE  wire' = wire
    BY <2>7 DEF ServerCommit, Answer, EndUnheard, OtherRequest, netVars
  <2>8. UNCHANGED queueVars => wire' = wire
    BY DEF queueVars, netVars
  <2>. QED
    BY <1>2, <1>4, <2>1, <2>2, <2>3, <2>4, <2>5, <2>6, <2>7, <2>8
       DEF QueueNext, ClientStep, ServerStep
<1>5. \A m \in wire' : Foremost(m.key)'
  BY <1>4, ForemostStays
<1>6. ASSUME NEW g \in Handlers, job'[g] # None, job'[g].request.key # None
      PROVE  \E k \in Keys : /\ job'[g].request.key = k /\ Foremost(k)'
                             /\ job'[g].request = write'[k]
  <2>1. CASE job[g] # None /\ job'[g].request = job[g].request
    <3>1. PICK k \in Keys : k = job[g].request.key
      BY <1>1, <1>6, <2>1, JobRequest
    <3>2. Foremost(k) /\ job[g].request = write[k]
      BY <1>6, <2>1, <3>1 DEF QInv, OnlyTheForemostIsUnderWay
    <3>3. Foremost(k)' /\ write'[k] = write[k]
      BY <3>2, ForemostStays, FatesAdvance DEF Foremost
    <3>. QED
      BY <2>1, <3>1, <3>2, <3>3
  <2>2. ASSUME NEW m \in wire, job'[g].request = write[m.key]
        PROVE  \E k \in Keys : /\ job'[g].request.key = k /\ Foremost(k)'
                               /\ job'[g].request = write'[k]
    <3>1. m.key \in Keys /\ Foremost(m.key)
      BY <1>2
    <3>2. write[m.key].key = m.key
      BY <3>1 DEF QInv, QueueIsFilledInOrder, Foremost
    <3>3. Foremost(m.key)' /\ write'[m.key] = write[m.key]
      BY <3>1, ForemostStays, FatesAdvance DEF Foremost
    <3>. QED
      BY <2>2, <3>1, <3>2, <3>3
  <2>. QED
    BY <1>6, <2>1, <2>2, RequestsAtWork
<1>. QED
  BY <1>5, <1>6 DEF OnlyTheForemostIsUnderWay

\* A handler at work has something to work on.
LEMMA HandledJob ==
  ASSUME WorkOrderTypeOK, NEW h \in Handlers, NEW r \in Requests, Handle(h, r)
  PROVE  /\ job[h] = None /\ job'[h] # None /\ job'[h].request = r
         /\ \A g \in Handlers \ {h} : job'[g] = job[g]
         /\ job'[h].stage = "ANSWERED" /\ job'[h].answer = "NO_CHANGES" => r.op = "PATCH"
<1>1. r.op = "PATCH" => [request |-> r, stage |-> "VALIDATED", data |-> DataOf(r)] \in Job
  BY RequestKinds, DataOfType DEF Job, WorkOrderTypeOK
<1>2. r.op # "PATCH" => [request |-> r, stage |-> "VALIDATED", data |-> None] \in Job
  BY RequestKinds DEF Job
<1>3. \A answer \in Answers : Answered(r, answer) \in Job
  BY AnsweredType
<1>4. job'[h] \in Job
  BY <1>1, <1>2, <1>3 DEF Handle, WorkOrderTypeOK, Answers
<1>. QED
  BY <1>4, IdleAssumption DEF Handle, WorkOrderTypeOK, Answered, NothingToDo

LEMMA CommittedJob ==
  ASSUME WorkOrderTypeOK, KeyAppliedOnce, NEW h \in Handlers, Commit(h)
  PROVE  /\ job[h] # None /\ job'[h] # None /\ job'[h].request = job[h].request
         /\ \A g \in Handlers \ {h} : job'[g] = job[g]
         /\ job'[h].answer # "NO_CHANGES"
<1>1. job[h] # None
  BY DEF Commit
<1>2. job[h].request \in Requests
  BY <1>1, JobRequest
<1>3. PICK answer \in {"OK", "CONFLICT"} : job' = [job EXCEPT ![h] = Answered(job[h].request, answer)]
  BY DEF Commit, Write
<1>4. Answered(job[h].request, answer) \in Job
  BY <1>2, AnsweredType DEF Answers
<1>. QED
  BY <1>1, <1>3, <1>4, IdleAssumption DEF WorkOrderTypeOK, Answered

\* A tab waits for the handler that works on its write, and for no other.
LEMMA CallersStayServed ==
  ASSUME QInv, [QueueNext]_queueVars
  PROVE  CallersAreServed'
<1>1. QueueTypeOK /\ WorkOrderTypeOK /\ CallersAreServed /\ KeyAppliedOnce
  BY DEF QInv, QueueTypeOK, ReceiptsInv
<1>. SUFFICES ASSUME NEW g \in Handlers
              PROVE  /\ caller'[g] # None => job'[g] # None /\ job'[g].request.key # None
                     /\ job'[g] # None /\ job'[g].stage = "ANSWERED" /\ job'[g].answer = "NO_CHANGES"
                          => job'[g].request.op = "PATCH"
  BY DEF CallersAreServed
<1>. DEFINE Served == caller'[g] # None => job'[g] # None /\ job'[g].request.key # None
            ToldSo == job'[g] # None /\ job'[g].stage = "ANSWERED" /\ job'[g].answer = "NO_CHANGES"
                        => job'[g].request.op = "PATCH"
<1>2. /\ caller[g] # None => job[g] # None /\ job[g].request.key # None
      /\ job[g] # None /\ job[g].stage = "ANSWERED" /\ job[g].answer = "NO_CHANGES"
           => job[g].request.op = "PATCH"
  BY <1>1 DEF CallersAreServed
<1>3. ASSUME NEW m \in wire, NEW h \in Handlers, Arrive(h, m)
      PROVE  Served /\ ToldSo
  <2>. DEFINE r == write[m.key]
  <2>1. r \in Requests /\ r.key = m.key /\ m.key \in Keys
    BY <1>1 DEF QInv, OnlyTheForemostIsUnderWay, Foremost, QueueIsFilledInOrder, QueueTypeOK
  <2>2. r.key # None
    BY <2>1, NoneAssumption
  <2>3. Handle(h, r) /\ caller' = [caller EXCEPT ![h] = m.tab]
    BY <1>3 DEF Arrive
  <2>. HIDE DEF r
  <2>4. /\ job[h] = None /\ job'[h] # None /\ job'[h].request = r
        /\ \A f \in Handlers \ {h} : job'[f] = job[f]
        /\ job'[h].stage = "ANSWERED" /\ job'[h].answer = "NO_CHANGES" => r.op = "PATCH"
    BY <1>1, <2>1, <2>3, HandledJob
  <2>5. CASE g = h
    BY <2>2, <2>4, <2>5
  <2>6. CASE g # h
    BY <1>1, <1>2, <2>3, <2>4, <2>6 DEF QueueTypeOK
  <2>. QED
    BY <2>5, <2>6
<1>4. ASSUME NEW h \in Handlers, NEW r \in Requests, OtherRequest(h, r)
      PROVE  Served /\ ToldSo
  <2>1. Handle(h, r) /\ caller' = caller
    BY <1>4 DEF OtherRequest, netVars
  <2>2. /\ job[h] = None /\ job'[h] # None /\ job'[h].request = r
        /\ \A f \in Handlers \ {h} : job'[f] = job[f]
        /\ job'[h].stage = "ANSWERED" /\ job'[h].answer = "NO_CHANGES" => r.op = "PATCH"
    BY <1>1, <2>1, HandledJob
  <2>. QED
    BY <1>2, <2>1, <2>2
<1>5. ASSUME NEW h \in Handlers, ServerCommit(h)
      PROVE  Served /\ ToldSo
  <2>1. Commit(h) /\ caller' = caller
    BY <1>5 DEF ServerCommit, netVars
  <2>2. /\ job[h] # None /\ job'[h] # None /\ job'[h].request = job[h].request
        /\ \A f \in Handlers \ {h} : job'[f] = job[f]
        /\ job'[h].answer # "NO_CHANGES"
    BY <1>1, <2>1, CommittedJob
  <2>. QED
    BY <1>2, <2>1, <2>2
<1>6. ASSUME NEW h \in Handlers, Answer(h) \/ EndUnheard(h)
      PROVE  Served /\ ToldSo
  <2>1. job' = [job EXCEPT ![h] = None] /\ caller' = [caller EXCEPT ![h] = None]
    BY <1>6 DEF Answer, EndUnheard, End
  <2>. QED
    BY <1>1, <1>2, <2>1 DEF QueueTypeOK, WorkOrderTypeOK
<1>7. ASSUME job' = job, caller' = caller \/ \E t \in Tabs : GiveUp(t)
      PROVE  Served /\ ToldSo
  BY <1>2, <1>7 DEF GiveUp
<1>8. ClientStep => job' = job /\ (caller' = caller \/ \E t \in Tabs : GiveUp(t))
  BY DEF ClientStep, Enqueue, Discard, StartFlush, Send, StopFlush, GiveUp, serverVars, netVars
<1>9. ASSUME NEW m \in wire, Lose(m)
      PROVE  job' = job /\ caller' = caller
  BY <1>9 DEF Lose, serverVars
<1>10. UNCHANGED queueVars => job' = job /\ caller' = caller
  BY DEF queueVars, serverVars, netVars
<1>. QED
  BY <1>3, <1>4, <1>5, <1>6, <1>7, <1>8, <1>9, <1>10 DEF QueueNext, ServerStep

\* What is synced is written: it was answered as done.
LEMMA StaysWritten ==
  ASSUME QInv, [QueueNext]_queueVars
  PROVE  NoWriteLost'
<1>1. QueueTypeOK /\ WorkOrderTypeOK /\ ReceiptsInv /\ [Next]_vars
  BY QueueStepIsRequestStep DEF QInv, QueueTypeOK
<1>. SUFFICES ASSUME NEW k \in Keys, fate'[k] = "SYNCED", write'[k].op = "EXECUTION"
              PROVE  receipts'[k] = <<write'[k]>>
  BY DEF NoWriteLost
<1>2. CASE fate[k] = "SYNCED"
  <2>1. write'[k] = write[k]
    BY <1>2, FatesAdvance
  <2>2. receipts[k] = <<write[k]>> /\ receipts[k] # <<>>
    BY <1>2, <2>1 DEF QInv, NoWriteLost
  <2>. QED
    BY <1>1, <2>1, <2>2, ReceiptsStay
<1>3. CASE fate[k] # "SYNCED"
  <2>1. PICK h \in Handlers : Answer(h)
    <3>. SUFFICES ASSUME ~ \E h \in Handlers : Answer(h) PROVE fate'[k] # "SYNCED"
      OBVIOUS
    <3>1. ASSUME NEW r \in Requests, Enqueue(r)
          PROVE  fate'[k] # "SYNCED"
      BY <1>1, <1>3, <3>1 DEF Enqueue, QueueTypeOK
    <3>2. ASSUME NEW j \in Keys, Discard(j)
          PROVE  fate'[k] # "SYNCED"
      BY <1>1, <1>3, <3>2 DEF Discard, QueueTypeOK
    <3>3. ASSUME NEW t \in Tabs, StartFlush(t) \/ Send(t) \/ StopFlush(t) \/ GiveUp(t)
          PROVE  fate' = fate
      BY <3>3 DEF StartFlush, Send, StopFlush, GiveUp, AfterFailure
    <3>4. ASSUME NEW m \in wire, Lose(m) \/ \E h \in Handlers : Arrive(h, m)
          PROVE  fate' = fate
      BY <3>4 DEF Lose, Arrive, clientVars
    <3>5. ASSUME NEW h \in Handlers,
                 ServerCommit(h) \/ EndUnheard(h) \/ \E r \in Requests : OtherRequest(h, r)
          PROVE  fate' = fate
      BY <3>5 DEF ServerCommit, EndUnheard, OtherRequest, clientVars
    <3>6. UNCHANGED queueVars => fate' = fate
      BY DEF queueVars, clientVars
    <3>. QED
      BY <1>3, <3>1, <3>2, <3>3, <3>4, <3>5, <3>6 DEF QueueNext, ClientStep, ServerStep
  <2>. DEFINE key == job[h].request.key  answer == job[h].answer
  <2>2. /\ job[h] # None /\ job[h].stage = "ANSWERED" /\ caller[h] # None
        /\ Receive(caller[h], key, answer) /\ receipts' = receipts /\ write' = write
    BY <2>1 DEF Answer, End
  <2>3. key \in Keys
    BY <1>1, <2>2, JobRequest DEF QInv, CallersAreServed
  <2>4. answer \in {"OK", "NO_CHANGES"} /\ k = key
    <3>. HIDE DEF key, answer
    <3>. QED
      BY <1>1, <1>3, <2>2, <2>3 DEF Receive, QueueTypeOK
  <2>5. job[h].request = write[k]
    BY <2>2, <2>3, <2>4, NoneAssumption DEF QInv, OnlyTheForemostIsUnderWay
  <2>6. answer = "OK"
    <3>1. job[h].request.op # "PATCH"
      BY <2>2, <2>5
    <3>. QED
      BY <2>2, <2>4, <3>1 DEF QInv, CallersAreServed
  <2>7. receipts[k] = <<write[k]>>
    BY <2>2, <2>3, <2>4, <2>5, <2>6, NoneAssumption DEF QInv, ReceiptsInv, DoneMeansWritten
  <2>. QED
    BY <2>2, <2>7
<1>. QED
  BY <1>2, <1>3

LEMMA QInvInductive == QueueSpec => []QInv
<1>1. QueueInit => QInv
  <2>. SUFFICES ASSUME QueueInit PROVE QInv
    OBVIOUS
  <2>1. WorkOrderTypeOK
    BY DEF QueueInit, WorkOrderTypeOK, WorkOrderRow, Status, ItemState
  <2>2. QueueTypeOK
    BY <2>1 DEF QueueInit, QueueTypeOK, Queued, Idle
  <2>3. ReceiptsInv
    BY DEF QueueInit, ReceiptsInv, KeyAppliedOnce, DoneMeansWritten
  <2>. QED
    BY <2>2, <2>3 DEF QueueInit, QInv, QueueIsFilledInOrder, ListsAreWhole, Idle,
                      OnlyTheForemostIsUnderWay, CallersAreServed, NoWriteLost
<1>2. QInv /\ [QueueNext]_queueVars => QInv'
  <2>. SUFFICES ASSUME QInv, [QueueNext]_queueVars PROVE QInv'
    OBVIOUS
  <2>1. ReceiptsInv'
    BY QueueStepIsRequestStep, StepKeepsReceipts DEF QInv, QueueTypeOK
  <2>. QED
    BY <2>1, QueueStepKeepsTypes, FillingInOrder, ListsStayWhole, UnderWayStaysForemost,
       CallersStayServed, StaysWritten DEF QInv
<1>. QED
  BY <1>1, <1>2, PTL DEF QueueSpec

\* The types of the queue, of the tabs' flushes and of the network.
THEOREM QueueTypeCorrect == QueueSpec => []QueueTypeOK
<1>1. QInv => QueueTypeOK
  BY DEF QInv
<1>. QED
  BY <1>1, QInvInductive, PTL

\* However often the tabs send a write, and however late its copies arrive, it
\* is written once; and a write the queue lets go as synced was written.
THEOREM QueuedWritesApplyOnce == QueueSpec => []WrittenExactlyOnce
<1>1. QInv => WrittenExactlyOnce
  BY DEF QInv, ReceiptsInv, WrittenExactlyOnce
<1>. QED
  BY <1>1, QInvInductive, PTL

\* The technician's writes are applied in the order they were made, for any
\* number of tabs, retries and late requests.
THEOREM QueueKeepsTheOrder == QueueSpec => WritesInOrder
<1>1. QInv /\ [QueueNext]_queueVars =>
        [\A k \in Keys : receipts'[k] # receipts[k] =>
            \A j \in Keys : j < k => fate[j] # "QUEUED"]_queueVars
  <2>. SUFFICES ASSUME QInv, [QueueNext]_queueVars, NEW k \in Keys, receipts'[k] # receipts[k]
                PROVE  \A j \in Keys : j < k => fate[j] # "QUEUED"
    OBVIOUS
  <2>1. WorkOrderTypeOK /\ [Next]_vars
    BY QueueStepIsRequestStep DEF QInv, QueueTypeOK
  <2>2. PICK h \in Handlers : Commit(h)
    BY <2>1 DEF Next, HandlerStep, Handle, End, Reschedule, vars
  <2>3. job[h] # None /\ receipts' \in {receipts, WithReceipt(job[h].request)}
    BY <2>2 DEF Commit, Write
  <2>4. job[h].request.key = k
    BY <2>1, <2>3, JobRequest DEF WithReceipt, WorkOrderTypeOK
  <2>5. Foremost(k)
    BY <2>3, <2>4, NoneAssumption DEF QInv, OnlyTheForemostIsUnderWay
  <2>. QED
    BY <2>5 DEF Foremost, Left
<1>. QED
  BY <1>1, QInvInductive, PTL DEF QueueSpec, WritesInOrder
==========================================================================
