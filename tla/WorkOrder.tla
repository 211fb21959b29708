---------------------------- MODULE WorkOrder ----------------------------
(***************************************************************************)
(* One work order and the requests that change it: PATCH of the work order *)
(* (triage and status transitions), PATCH of its execution record, its     *)
(* rescheduling, and the receipts that make a PATCH with an                *)
(* Idempotency-Key replayable (lib/work-orders/idempotency.ts).            *)
(*                                                                         *)
(* Both PATCH handlers read the work order, validate the request against   *)
(* what they read and compute what to write; the write comes later, in a   *)
(* transaction of its own that does not look at the work order again.      *)
(* With a key that transaction is Serializable and also looks for, then    *)
(* writes, the receipt; a conflict repeats it with the same data.          *)
(*                                                                         *)
(* Dates and texts are modelled by whether they are set.  Requests carry   *)
(* the note and signature they need, and come from users who may make them.*)
(***************************************************************************)
EXTENDS Naturals, Sequences

CONSTANTS
    Handlers,       \* requests the server works on at one time
    Keys,           \* values of the Idempotency-Key header
    Items,          \* checklist items
    Requests,       \* the requests an instance makes, a subset of Request
    None

Status == {"REQUESTED", "APPROVED", "PLANNED", "IN_PROGRESS",
           "BLOCKED", "COMPLETED", "CANCELLED"}

transitions ==
    [REQUESTED   |-> {"APPROVED", "CANCELLED"},
     APPROVED    |-> {"PLANNED", "IN_PROGRESS", "CANCELLED"},
     PLANNED     |-> {"IN_PROGRESS", "CANCELLED"},
     IN_PROGRESS |-> {"BLOCKED", "COMPLETED", "CANCELLED"},
     BLOCKED     |-> {"IN_PROGRESS", "CANCELLED"},
     COMPLETED   |-> {"IN_PROGRESS"},
     CANCELLED   |-> {"REQUESTED"}]

\* What a request does to an optional field.
Edit == {"keep", "set", "clear"}
Edited(edit, value) == (edit = "set") \/ (edit = "keep" /\ value)

\* A PATCH of the work order: the status asked for, if any, and its planned start.
Patch == [op: {"PATCH"}, status: Status \cup {None}, planned: Edit, key: Keys \cup {None}]

\* A PATCH of the execution record: the completion note, whether an item is added
\* to the checklist, and the items ticked or unticked (an item's last update).
Execution == [op: {"EXECUTION"}, note: Edit, add: BOOLEAN,
              tick: SUBSET Items, untick: SUBSET Items, key: Keys \cup {None}]

Captures(r) == r.note # "keep" \/ r.tick # {} \/ r.untick # {}

\* An execution record that changes nothing is refused unread.
Request == Patch \cup {r \in Execution : (Captures(r) \/ r.add) /\ r.tick \cap r.untick = {}}

ASSUME RequestAssumption == Requests \subseteq Request
ASSUME NoneAssumption == None \notin Status /\ None \notin Keys

VARIABLES
    wo,         \* the WorkOrder row and its check items
    receipts,   \* per key, the requests whose audit rows carry it
    job         \* what each handler is doing

vars == <<wo, receipts, job>>

ItemState == {"absent", "open", "done"}

WorkOrderRow == [status: Status, planned: BOOLEAN, started: BOOLEAN, completed: BOOLEAN,
                 note: BOOLEAN, items: [Items -> ItemState]]

\* The data of the update: the part of the row a PATCH overwrites, as computed
\* from the row it read.
PatchData == [status: Status \cup {None}, planned: Edit, started: BOOLEAN,
              completed: BOOLEAN, clearNote: BOOLEAN]

Answers == {"OK", "CONFLICT", "NO_CHANGES"}

Job == [request: Requests \cap Patch, stage: {"VALIDATED"}, data: PatchData]
         \cup [request: Requests \cap Execution, stage: {"VALIDATED"}, data: {None}]
         \cup [request: Requests, stage: {"ANSWERED"}, answer: Answers]

ASSUME IdleAssumption == None \notin Job

WorkOrderTypeOK ==
    /\ wo \in WorkOrderRow
    /\ receipts \in [Keys -> Seq(Requests)]
    /\ job \in [Handlers -> Job \cup {None}]

---------------------------------------------------------------------------
(* Idempotency receipts.                                                   *)

\* Fault: a key answers whatever request comes with it.
AnyReceipt(r) == r.key # None /\ receipts[r.key] # <<>>

\* findReplay: an audit row carries the key, for this very request.
Replayed(r) == r.key # None /\ receipts[r.key] # <<>> /\ Head(receipts[r.key]) = r

\* IDEMPOTENCY_KEY_REUSED.
Reused(r) == r.key # None /\ receipts[r.key] # <<>> /\ Head(receipts[r.key]) # r

WithReceipt(r) ==
    IF r.key = None THEN receipts ELSE [receipts EXCEPT ![r.key] = Append(@, r)]

---------------------------------------------------------------------------
(* Validating and computing what to write.                                 *)

Transition(r) == r.status # None /\ r.status # wo.status

\* Fault: reopening keeps the completion date.
KeepCompletedAt(to) ==
    [started |-> wo.started \/ to = "IN_PROGRESS",
     completed |-> wo.completed \/ to = "COMPLETED"]

deriveTransitionDates(to) ==
    CASE wo.status = "CANCELLED" /\ to = "REQUESTED"   -> [started |-> FALSE, completed |-> FALSE]
      [] wo.status = "COMPLETED" /\ to = "IN_PROGRESS" -> [started |-> TRUE, completed |-> FALSE]
      [] OTHER -> [started |-> wo.started \/ to = "IN_PROGRESS",
                   completed |-> wo.completed \/ to = "COMPLETED"]

\* The checks a status transition must pass: the workflow, a planned start for
\* PLANNED, the completion note and the whole checklist for COMPLETED.
TransitionAllowed(r) ==
    /\ r.status \in transitions[wo.status]
    /\ r.status = "PLANNED" => Edited(r.planned, wo.planned)
    /\ r.status = "COMPLETED" => wo.note /\ \A i \in Items : wo.items[i] # "open"

PatchAllowed(r) == Transition(r) => TransitionAllowed(r)

DataOf(r) ==
    IF Transition(r)
    THEN LET dates == deriveTransitionDates(r.status)
         IN  [status |-> r.status, planned |-> r.planned,
              started |-> dates.started, completed |-> dates.completed,
              clearNote |-> wo.status = "COMPLETED" /\ r.status = "IN_PROGRESS"]
    ELSE [status |-> None, planned |-> r.planned,
          started |-> FALSE, completed |-> FALSE, clearNote |-> FALSE]

ExecutionAllowed(r) ==
    /\ r.add => wo.status \in {"APPROVED", "PLANNED", "IN_PROGRESS", "BLOCKED"}
    /\ Captures(r) => wo.status \in {"IN_PROGRESS", "BLOCKED"}
    /\ \A i \in r.tick \cup r.untick : wo.items[i] # "absent"

NothingToDo(r) == r.op = "PATCH" /\ r.planned = "keep" /\ ~Transition(r)

Allowed(r) == IF r.op = "PATCH" THEN PatchAllowed(r) ELSE ExecutionAllowed(r)

Answered(r, answer) == [request |-> r, stage |-> "ANSWERED", answer |-> answer]

\* A handler reads the work order and the receipts, and refuses, replays or
\* goes on to write.
Handle(h, r) ==
    /\ job[h] = None
    /\ job' = [job EXCEPT ![h] =
            IF Replayed(r) THEN Answered(r, "OK")
            ELSE IF Reused(r) THEN Answered(r, "CONFLICT")
            ELSE IF NothingToDo(r) THEN Answered(r, "NO_CHANGES")
            ELSE IF ~Allowed(r) THEN Answered(r, "CONFLICT")
            ELSE [request |-> r, stage |-> "VALIDATED",
                  data |-> IF r.op = "PATCH" THEN DataOf(r) ELSE None]]
    /\ UNCHANGED <<wo, receipts>>

---------------------------------------------------------------------------
(* Writing.                                                                *)

PatchWritten(data) ==
    [wo EXCEPT !.planned = Edited(data.planned, @),
               !.status = IF data.status = None THEN @ ELSE data.status,
               !.started = IF data.status = None THEN @ ELSE data.started,
               !.completed = IF data.status = None THEN @ ELSE data.completed,
               !.note = @ /\ ~data.clearNote]

\* The new check item's row is one that did not exist (Items is a bound).
ExecutionWritten(r, new) ==
    [wo EXCEPT !.note = Edited(r.note, @),
               !.items = [i \in Items |-> CASE i \in r.tick -> "done"
                                            [] i \in r.untick \cup new -> "open"
                                            [] OTHER -> wo.items[i]]]

\* The rows a request may leave.
Written(j) ==
    IF j.request.op = "PATCH" THEN {PatchWritten(j.data)}
    ELSE IF j.request.add
    THEN {ExecutionWritten(j.request, {i}) : i \in {x \in Items : wo.items[x] = "absent"}}
    ELSE {ExecutionWritten(j.request, {})}

\* Fault: the transaction does not look for a receipt again.
WriteUnseen(h) ==
    /\ wo' \in Written(job[h])
    /\ receipts' = WithReceipt(job[h].request)
    /\ job' = [job EXCEPT ![h] = Answered(job[h].request, "OK")]

\* commitIdempotentWorkOrderMutation, or the plain update of a request without
\* a key.
Write(h) ==
    LET r == job[h].request
    IN  CASE Replayed(r) -> /\ job' = [job EXCEPT ![h] = Answered(r, "OK")]
                            /\ UNCHANGED <<wo, receipts>>
          [] Reused(r)   -> /\ job' = [job EXCEPT ![h] = Answered(r, "CONFLICT")]
                            /\ UNCHANGED <<wo, receipts>>
          [] OTHER       -> /\ wo' \in Written(job[h])
                            /\ receipts' = WithReceipt(r)
                            /\ job' = [job EXCEPT ![h] = Answered(r, "OK")]

Commit(h) ==
    /\ job[h] # None /\ job[h].stage = "VALIDATED"
    /\ Write(h)

\* The answer goes out, or the process dies before it wrote or answered.
End(h) ==
    /\ job[h] # None
    /\ job' = [job EXCEPT ![h] = None]
    /\ UNCHANGED <<wo, receipts>>

\* POST .../reschedule: one Serializable transaction reads, checks and writes.
Reschedule ==
    /\ wo.status \notin {"COMPLETED", "CANCELLED"}
    /\ wo' = [wo EXCEPT !.planned = TRUE]
    /\ UNCHANGED <<receipts, job>>

---------------------------------------------------------------------------

Init ==
    /\ wo = [status |-> "REQUESTED", planned |-> FALSE, started |-> FALSE,
             completed |-> FALSE, note |-> FALSE, items |-> [i \in Items |-> "absent"]]
    /\ receipts = [k \in Keys |-> <<>>]
    /\ job = [h \in Handlers |-> None]

HandlerStep ==
    \E h \in Handlers :
        \/ \E r \in Requests : Handle(h, r)
        \/ Commit(h)
        \/ End(h)

Next == HandlerStep \/ Reschedule

Spec == Init /\ [][Next]_vars

---------------------------------------------------------------------------
(* Properties.                                                             *)

\* The dates always belong to the status, although the last of two racing
\* writers wins: work that has begun has a start, work not begun has none, and
\* exactly completed work has a completion date.
DatesMatchStatus ==
    /\ wo.status \in {"IN_PROGRESS", "BLOCKED", "COMPLETED"} => wo.started
    /\ wo.status \in {"REQUESTED", "APPROVED", "PLANNED"} => ~wo.started
    /\ wo.completed <=> wo.status = "COMPLETED"

\* A request repeated under its key, at once or later, writes once.
KeyAppliedOnce == \A k \in Keys : Len(receipts[k]) <= 1

\* A request with a key is answered as done only if it, and not another request
\* that came with the same key, was written.
DoneMeansWritten ==
    \A h \in Handlers :
        LET j == job[h]
        IN  j # None /\ j.stage = "ANSWERED" /\ j.request.key # None =>
                (j.answer = "OK" => receipts[j.request.key] = <<j.request>>)
============================================================================
