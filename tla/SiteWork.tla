----------------------------- MODULE SiteWork -----------------------------
(***************************************************************************)
(* The work orders of one site as its reports see them: several at once,   *)
(* each with all its dates, its owner and what was recorded on it.         *)
(*                                                                         *)
(* How requests on one work order race is the business of WorkOrder; here  *)
(* a request is one step, except a run of the reminders, which is a step   *)
(* for each of its statements.  Instants are numbers.  The clock of the    *)
(* model stops only at the instants at which something may happen.         *)
(***************************************************************************)
EXTENDS LocalTime, FiniteSets, Sequences

CONSTANTS
    WorkOrders,
    Assets,
    Users,
    Kinds,      \* what is reported: type, priority and asset
    Edits,      \* what a PATCH may change beside the status
    Efforts,    \* the labor and the downtime that may be recorded
    Costs,      \* what a consumed part may cost
    Weekly,     \* weekly capacities that may be set
    Leads,      \* how many days ahead reminders are asked for
    Runs,       \* runs of the reminders at work at a time
    Instants,
    MaxLines,   \* bound: parts consumed
    None

\* What only the handlers of a work order write.
Stamped == {"status", "generated", "requestedAt", "startedAt", "completedAt", "assetId"}

\* Dates are instants, people are users, what is reported is of an asset, and an
\* edit says nothing of what is stamped.
ASSUME SiteAssumption ==
    /\ Instants \subseteq Int
    /\ None \notin Int /\ None \notin Users
    /\ \A kind \in Kinds : kind.assetId \in Assets
    /\ \A e \in Edits \cup Efforts :
        /\ DOMAIN e \cap Stamped = {}
        /\ \A f \in {"dueAt", "plannedStart"} \cap DOMAIN e : e[f] \in Int \cup {None}
        /\ "assigneeId" \in DOMAIN e => e["assigneeId"] \in Users \cup {None}

VARIABLES
    now,
    work,       \* the rows
    archived,   \* the assets that are archived
    consumed,   \* the parts consumed: a sequence of lines
    capacity,   \* the weekly capacity of a user, None without an active profile
    reminders,  \* by work order, due date and lead, the reminder: its status, and
                \* as a history which run made it
    reminding   \* how far each run is

reminderVars == <<reminders, reminding>>
siteVars == <<now, work, archived, consumed, capacity, reminderVars>>

Reported == {w \in WorkOrders : work[w] # None}

NotClosed == {w \in Reported : work[w].status \notin {"COMPLETED", "CANCELLED"}}

\* What is not asked for when a row is created.
Blank == [generated |-> FALSE, status |-> "REQUESTED", assigneeId |-> None, teamId |-> None,
          dueAt |-> None, plannedStart |-> None, startedAt |-> None, completedAt |-> None,
          laborMinutes |-> None, downtimeMinutes |-> None]

\* r with the fields of e in place of its own.
Edited(e, r) == [f \in DOMAIN r |-> IF f \in DOMAIN e THEN e[f] ELSE r[f]]

Idle == [stage |-> "IDLE"]

SiteInit ==
    /\ now \in {t \in Instants : \A u \in Instants : t <= u}
    /\ work = [w \in WorkOrders |-> None]
    /\ archived = {}
    /\ consumed = << >>
    /\ capacity = [u \in Users |-> None]
    /\ reminders = << >>
    /\ reminding = [r \in Runs |-> Idle]

---------------------------------------------------------------------------

New(w, fields) ==
    /\ work[w] = None
    /\ fields.assetId \notin archived
    /\ work' = [work EXCEPT ![w] =
         [f \in DOMAIN Blank \cup DOMAIN fields |->
            IF f \in DOMAIN fields THEN fields[f] ELSE Blank[f]]]
    /\ UNCHANGED <<now, archived, consumed, capacity, reminderVars>>

createWorkOrder(w, kind) ==
    New(w, [requestedAt |-> now, type |-> kind.type, priority |-> kind.priority,
            assetId |-> kind.assetId])

generateOccurrence(w, asset, dueAt) ==
    New(w, [requestedAt |-> now, type |-> "PREVENTIVE", priority |-> "NORMAL",
            assetId |-> asset, generated |-> TRUE, status |-> "APPROVED", dueAt |-> dueAt])

transitions ==
    [REQUESTED |-> {"APPROVED", "CANCELLED"},
     APPROVED |-> {"PLANNED", "IN_PROGRESS", "CANCELLED"},
     PLANNED |-> {"IN_PROGRESS", "CANCELLED"},
     IN_PROGRESS |-> {"BLOCKED", "COMPLETED", "CANCELLED"},
     BLOCKED |-> {"IN_PROGRESS", "CANCELLED"},
     COMPLETED |-> {"IN_PROGRESS"},
     CANCELLED |-> {"REQUESTED"}]

\* The row after a transition at this instant.
deriveTransitionDates(r, to) ==
    IF r.status = to THEN r ELSE
    CASE r.status = "CANCELLED" ->
            [r EXCEPT !.status = to, !.startedAt = None, !.completedAt = None]
      [] r.status = "COMPLETED" ->
            [r EXCEPT !.status = to, !.startedAt = now, !.completedAt = None]
      [] OTHER ->
            [r EXCEPT !.status = to,
                      !.startedAt = IF to = "IN_PROGRESS" /\ @ = None THEN now ELSE @,
                      !.completedAt = IF to = "COMPLETED" THEN now ELSE @]

InOrder(r) ==
    r.plannedStart # None /\ r.dueAt # None => r.plannedStart <= r.dueAt

\* A PATCH edits fields, takes the work order to another status, or both.
patchWorkOrder(w, e, to) ==
    LET edited == Edited(e, work[w]) IN
    /\ w \in Reported
    /\ to \in {work[w].status} \cup transitions[work[w].status]
    /\ InOrder(edited)
    /\ to = "PLANNED" /\ work[w].status # to => edited.plannedStart # None
    /\ work' = [work EXCEPT ![w] = deriveTransitionDates(edited, to)]
    /\ UNCHANGED <<now, archived, consumed, capacity, reminderVars>>

AtWork(w) == w \in Reported /\ work[w].status \in {"IN_PROGRESS", "BLOCKED"}

recordExecution(w, effort) ==
    /\ AtWork(w)
    /\ work' = [work EXCEPT ![w] = Edited(effort, @)]
    /\ UNCHANGED <<now, archived, consumed, capacity, reminderVars>>

consumePart(w, cost) ==
    /\ AtWork(w)
    /\ Len(consumed) < MaxLines
    /\ consumed' = Append(consumed, [workOrder |-> w, createdAt |-> now, unitCost |-> cost])
    /\ UNCHANGED <<now, work, archived, capacity, reminderVars>>

\* One edit of the priority or the owner for all the selected work orders, or
\* for none of them.
bulkTriageWorkOrders(selected, operation) ==
    /\ selected # {} /\ selected \subseteq NotClosed
    /\ work' = [w \in WorkOrders |-> IF w \in selected THEN Edited(operation, work[w]) ELSE work[w]]
    /\ UNCHANGED <<now, archived, consumed, capacity, reminderVars>>

archiveAsset(a) ==
    /\ a \notin archived
    /\ archived' = archived \cup {a}
    /\ UNCHANGED <<now, work, consumed, capacity, reminderVars>>

setLaborCapacityProfile(u, weekly) ==
    /\ capacity' = [capacity EXCEPT ![u] = weekly]
    /\ UNCHANGED <<now, work, archived, consumed, reminderVars>>

disableLaborCapacityProfile(u) ==
    /\ capacity[u] # None
    /\ capacity' = [capacity EXCEPT ![u] = None]
    /\ UNCHANGED <<now, work, archived, consumed, reminderVars>>

---------------------------------------------------------------------------
(* Reminders of preventive work.                                           *)

Reminded(status) == {k \in DOMAIN reminders : reminders[k].status = status}

DueWithin(w, at, lead) ==
    /\ work[w].type = "PREVENTIVE"
    /\ work[w].dueAt # None
    /\ at <= work[w].dueAt /\ work[w].dueAt <= at + lead * DayLength

occurrenceKey(w, lead) == [workOrder |-> w, dueAt |-> work[w].dueAt, leadDays |-> lead]

With(status, keys) ==
    [k \in DOMAIN reminders |-> IF k \in keys THEN [reminders[k] EXCEPT !.status = status] ELSE reminders[k]]

Goes(r, run) ==
    /\ reminding' = [reminding EXCEPT ![r] = run]
    /\ UNCHANGED <<now, work, archived, consumed, capacity>>

\* generatePreventiveMaintenanceReminders, which began at an instant that is past
\* by now: it expires what is past or closed,
ExpirePast(r, lead, at) ==
    /\ reminding[r] = Idle
    /\ at <= now
    /\ reminders' = With("EXPIRED",
         {k \in Reminded("ACTIVE") : k.dueAt < at \/ k.workOrder \notin NotClosed})
    /\ Goes(r, [stage |-> "EXPIRED", at |-> at, leadDays |-> lead])

\* lists the work that is due,
ListDue(r) ==
    LET run == reminding[r] IN
    /\ run.stage = "EXPIRED"
    /\ Goes(r, [stage |-> "LISTED",
                due |-> {occurrenceKey(w, run.leadDays) :
                            w \in {v \in NotClosed : DueWithin(v, run.at, run.leadDays)}}])
    /\ UNCHANGED reminders

\* and of each of it, in the order of the due dates, looks for its reminder, in
\* whatever status.
LookUp(r) ==
    LET run == reminding[r] IN
    /\ run.stage = "LISTED"
    /\ \E key \in run.due :
        /\ \A k \in run.due : key.dueAt <= k.dueAt
        /\ IF key \in DOMAIN reminders
           THEN Goes(r, [stage |-> "LISTED", due |-> run.due \ {key}])
           ELSE Goes(r, [stage |-> "MISSING", due |-> run.due \ {key}, key |-> key])
    /\ UNCHANGED reminders

\* Mutant: those of another lead stay.
OthersOfLead(key) ==
    {k \in Reminded("ACTIVE") :
        k.workOrder = key.workOrder /\ k.leadDays = key.leadDays /\ k # key}

Others(key) == {k \in Reminded("ACTIVE") : k.workOrder = key.workOrder /\ k # key}

\* Where there is none, it expires the other ones of the work order,
ExpireOthers(r) ==
    LET run == reminding[r] IN
    /\ run.stage = "MISSING"
    /\ reminders' = With("EXPIRED", Others(run.key))
    /\ Goes(r, [run EXCEPT !.stage = "CLEARED"])

\* and makes it, unless another run just has.
CreateReminder(r) ==
    LET run == reminding[r] IN
    /\ run.stage = "CLEARED"
    /\ reminders' = [k \in DOMAIN reminders \cup {run.key} |->
         IF k \in DOMAIN reminders THEN reminders[k] ELSE [status |-> "ACTIVE", by |-> r]]
    /\ Goes(r, [stage |-> "LISTED", due |-> run.due])

\* It has come to the end of its list, or died.
LeaveRun(r) ==
    /\ reminding[r] # Idle
    /\ Goes(r, Idle)
    /\ UNCHANGED reminders

\* It was found ACTIVE, and is expired by now or not.
dismissMaintenanceReminder(k) ==
    /\ k \in DOMAIN reminders
    /\ reminders' = With("DISMISSED", {k})
    /\ UNCHANGED <<now, work, archived, consumed, capacity, reminding>>

---------------------------------------------------------------------------

\* Time passes.
Wait ==
    /\ now' \in {t \in Instants : t > now}
    /\ UNCHANGED <<work, archived, consumed, capacity, reminderVars>>

BulkOperation(e) ==
    \E f \in {"priority", "assigneeId", "teamId"} : DOMAIN e = {f}

WorkStep ==
    \E w \in WorkOrders :
        \/ \E kind \in Kinds : createWorkOrder(w, kind)
        \/ \E a \in Assets, dueAt \in Instants : generateOccurrence(w, a, dueAt)
        \/ \E e \in Edits \cup {<< >>}, to \in DOMAIN transitions : patchWorkOrder(w, e, to)
        \/ \E effort \in Efforts : recordExecution(w, effort)
        \/ \E cost \in Costs \cup {None} : consumePart(w, cost)

\* The work the page of bulk actions offers.
listBulkActionOptions == NotClosed

BulkStep ==
    \E selected \in SUBSET listBulkActionOptions, e \in Edits :
        BulkOperation(e) /\ bulkTriageWorkOrders(selected, e)

ArchiveStep == \E a \in Assets : archiveAsset(a)

CapacityStep ==
    \E u \in Users :
        \/ \E weekly \in Weekly : setLaborCapacityProfile(u, weekly)
        \/ disableLaborCapacityProfile(u)

ReminderStep ==
    \E r \in Runs :
        \/ \E lead \in Leads, at \in Instants : ExpirePast(r, lead, at)
        \/ ListDue(r)
        \/ LookUp(r)
        \/ ExpireOthers(r)
        \/ CreateReminder(r)
        \/ LeaveRun(r)

DismissStep == \E k \in DOMAIN reminders : dismissMaintenanceReminder(k)

SiteNext ==
    \/ WorkStep \/ BulkStep \/ ArchiveStep \/ CapacityStep
    \/ ReminderStep \/ DismissStep
    \/ Wait

SiteSpec == SiteInit /\ [][SiteNext]_siteVars
============================================================================
