# GMAO Maintenance & Quality: formal models

TLA+ models of the server and browser code under `src/`, the TLC runs that
check them, and TLAPS proofs about them. The system is a Next.js application
over PostgreSQL (Prisma): every request is a handler of its own, so handlers
interleave at every `await`, and the only mutual exclusion is what the database
gives to the transaction a handler opens. That is what the models are about.

## How requests interleave

* **Serializable transactions** (stock, reservations, consumption, recording and
  completing a count, keyed work-order mutations, rescheduling, quality records,
  acknowledgements). PostgreSQL lets one take effect only if all committed ones
  have a serial order; a conflict aborts it (P2034, P2002), and the code runs it
  again or reports it. In the models such a transaction is one action, and an
  aborted attempt is no step.
* **Transactions at the default level, READ COMMITTED** (cancelling a count,
  activating a document revision, generating an occurrence, public requests).
  They neither notice nor stop a writer between their read and their write. In
  the models the read and the write are two actions, unless the write compares
  again (`updateMany` with a condition, a unique index) or locks.
* **Reads before the transaction** (the PATCH handlers of a work order, the
  status check of a consumption, the list a scheduler run goes through, the gate
  of a closing request). The handler decides on what it read; the transaction
  does not read it again. Again two actions.
* **Crashes.** A handler may stop between any two actions; nothing but the
  database survives.

## Inventory of the system

| Component | State | Operations | What is hard | What makes it correct |
|---|---|---|---|---|
| Stock ledger (`lib/inventory/stock.ts`) | bin balances, part aggregates, movements | record a movement | retries, movements against reservations | balance = sum of the ledger; aggregate = sum of the bins; nothing held is taken |
| Reservations (`reservations.ts`) | newest snapshot per work order and slot, in the audit log | reserve, resize, release, draw down | racing reservations; draw-down at the edge | reserved stock exists; consumption is counted once |
| Consumption (`work-orders/parts.ts`) | consumption rows, totals per part | consume | retry; status read earlier | each consumption has its ledger row |
| Cycle counts (`cycle-counts.ts`) | snapshots in the audit log | open, record, complete, cancel | stock moving meanwhile; two clerks; cancel against complete | what was counted is what is there afterwards |
| Work orders (`work-orders/*`, PATCH routes) | status, dates, note, checklist | transition, triage, execution | stale validation; same key twice | dates and receipts |
| Planning calendar (`maintenance/calendar-reschedule.ts`, reschedule route) | planned start, due date, time zone | move to another day | changes of the clocks; dates set meanwhile | the time of day and the distance in days are kept |
| Offline queue (`pwa/technician-write-queue-client.ts`) | browser database of writes | enqueue, flush, discard | tabs, lost and late requests | at most once, in order, none lost |
| Documents (`lib/documents/*`) | revisions, approvals, files | draft, attach, review, approve, schedule, activate, reconcile, acknowledge | approvals racing activation; two activations | one effective revision, as approved |
| Webhooks and event log (`lib/webhooks`, `lib/integrations`) | events, delivery states, dead letters | subscribe, record, deliver, retry, dead-letter, replay | two workers; crash around the POST; rows dated by the start of a run; a scan that reads part of the log | not resent after success; never forgotten |
| Schedulers and meters (`lib/maintenance`, `lib/assets/meters.ts`, the IoT ingestion) | plans, occurrences, readings, messages | run, record or ingest a reading, edit a plan | racing runs; plan edited during a run; message repeated after a crash | one work order per occurrence, none skipped; a message is applied once and in the end |
| Quality (`lib/quality`) | event, root cause, CAPA, 8D, each the newest row of a log | gates from report to closure, failure and reopening | long histories of legal steps; closing against a CAPA that is taken up again | nothing is closed unproven; the approver is no author |
| Assets and CSV (`lib/assets`, `app/api/assets`, CSV import and export) | the tree of assets of a site | create, move, recode, archive, import, export | files in any order, checked against what changes meanwhile | rows find their parents; cycles are found; an export comes back |
| Public access (`lib/public-requests`, cards, embedding, API keys) | credentials, submissions, recorded lookups | issue, revoke, submit, look up | copies of a request at once; limits counted apart from the write | one work order per key; repeats are answered; limits |
| Rate limit (`lib/rate-limit.ts`, `middleware.ts`) | a bounded map of windows | check | the map at its limit | bounded; who is not crowded out keeps the quota |
| Purchase requests, suppliers (`lib/inventory/purchase-requests.ts`, `suppliers.ts`) | snapshots in the audit log; a row for each supplier of a part | create, edit, submit, approve, reject, cancel; prefer, archive | decisions on a stale status; two preferred at once | what is decided is what was submitted; one preferred supplier |
| Reorder alerts (`lib/inventory/reorder.ts`) | none: read off stock and policies | list | formulas of their own for what the stock transactions compute | an alert says what the stock would do |
| Pages and reports (`lib/analytics`, board, workload, dashboards, notifications, forecast, calendar pages) | none but reminders and capacities: read off the work orders | list, report, remind, dismiss, edit many at once | days of a time zone; a query for each page; two runs of reminders at once | pages agree; one reminder; what happened on a day is in its report and in no other |
| Stored files (`documents/files.ts`, `quality/evidence.ts`, attachments, `storage.ts`) | objects in a store; the rows that name them | attach, replace, read | the store and the database fail apart | what is named is there; nothing is left over |
| Saved views (`saved-views.ts`) | rows of the audit log | create, change, delete | the list reads the oldest rows only | deleted stays deleted; names; limit |
| Document search (`controlled-document-search.ts`, vector stores) | a vector of each revision indexed | index, search | vectors outlive what they were made of | nothing out of force when the search began is cited unless it was put in force since |
| Authentication, AI texts, credential vault, connectors, caches, operations, interface | little or none | | | not modelled; see below |

Components interact through shared rows: consumption and counting go through
`applyStockMovement`; a consumption reads the work order's status; the offline
queue speaks to the work-order PATCH handlers, and the planning calendar moves
the dates those write; a meter reading makes work orders through the scheduler;
the close gate of an event reads the CAPA and the 8D, and the 8D reads the event,
the root cause and the CAPA; webhooks read the event log the other components
append to in their transactions; archiving an asset stops its plans and its
public requests. Reorder alerts read balances and reservations; the pages and
reports read the work orders with queries of their own; the search reads the
revisions in force and the files behind them.

## Modules

`StockPool`, `ControlledDocument`, `GovernedPlan` and `Recurrence` are abstract
specifications, of one part in one bin, of a document's revisions, of a CAPA
plan, and of one maintenance plan. The detailed modules implement them, by
refinement mappings stated as properties of the runs:

| Detailed | Abstract | Stated by |
|---|---|---|
| `Inventory` | `StockPool` | `SlotsArePools` (proved) |
| `DocumentControl` | `ControlledDocument` | `DocumentIsControlled` (proved) |
| `Capa` (and `EightD`, which extends it) | `GovernedPlan` | `PlanIsGoverned` (proved) |
| `PlanGeneration` (and `PreventiveMaintenance`, which extends it) | `Recurrence` | `PlansRecur` (proved) |

Compositions: `CycleCount` and `Reorder` extend `Inventory`; `OfflineQueue` and
`PlanningCalendar` extend `WorkOrder`, the second with the clocks of `LocalTime`;
`EightD` extends `Capa`, which extends `QualityEvent`; `PreventiveMaintenance`
extends `PlanGeneration`; `SiteAnalytics` extends `SiteReports`, which extends
`SiteWork`, which extends `LocalTime`. `MC*` modules give TLC its symmetry sets
and request sets; `*Proofs` modules hold the theorems.

Components that share no state are put into one run where each is small: `limits`
(`PublicAccess`, `RateLimiter`, `SavedViews`), `masters` (`AssetHierarchy`,
`Purchasing`), `offline_queue` (`OfflineQueue`, `StoredFiles`), `documents`
(`DocumentControl`, `DocumentSearch`). There one component moves while the others
are where they began: every behaviour of each is there, and their interleavings,
which no property could tell apart, are not.

### Inventory

| TLA+ | Code |
|---|---|
| `balance`, `onHand`, `movements` | `StockBalance.quantity`, `Part.quantityOnHand`, `StockMovement` rows |
| `reservation[w][s]` | newest `StockReservation` audit row of a work order and slot |
| `consumptions`, `used` | `WorkOrderPartConsumption`, `WorkOrderPart.quantity` |
| `pending[h]` | a consumption a handler let through after reading the status |
| `RecordStockMovement` | `recordStockMovement`, with every check of `applyStockMovement` in `Accepts` and every write in `Post` |
| `Reserve`, `Release` | `reserveWorkOrderStock`, `releaseWorkOrderStock` |
| `CheckConsumption`, `CommitConsumption` | the parts route, then `consumeWorkOrderPart` |
| `SetStatus`, `SetActive` | what the transactions read and others change |

Left out: transfers do not exist in the code; unit costs and references are
data nothing decides on; quantities are naturals where the columns are floats,
so rounding is not covered. A ledger key is a pair of where it comes from and
its value: the code puts a prefix (`wo:`, `cycle:`) before the keys it makes
itself, and clients send unique ids without one.

### CycleCount

`count[c]` is the newest snapshot of a count; `readable[c]` says whether the
newest audit row is a snapshot at all. `job[k]` is a transaction that has read
the count. Recording and completing are Serializable, so committing one aborts
the others on the same count (`CommitSerializable`); a cancellation is not.

### WorkOrder

`wo` is the row with its check items, `receipts[k]` the requests whose audit
rows carry key `k`, and `job[h]` a handler between its reads and its write, or
between its write and its answer. `Handle` is everything before the write,
`Commit` the write with its second look at the receipts, `End` the answer or
the death of the process. Triage fields other than the dates are left out:
nothing in the workflow reads them. Requests carry the note and signature they
need, from users with the permission: both are checks of one request.

### PlanningCalendar and LocalTime

| TLA+ | Code |
|---|---|
| `start`, `due`, `zone` | `WorkOrder.plannedStart`, `WorkOrder.dueAt`, `Organization.timezone` |
| `asked[h]` | the `plannedStart` in the data a PATCH has computed |
| `HandleDates`, `CommitDates` | PATCH, with its INVALID_PLANNING check on what it read |
| `RescheduleTo` | `POST .../reschedule`: one Serializable transaction |
| `rescheduleWorkOrderDates`, `shiftInstantByLocalDays`, `zonedDateTimeToUtc` | the functions of these names |
| `Corrected` | one pass of the loop that brings the guess of an instant nearer to the local time asked for |

Instants and local times are integers, and a zone is two offsets and the instant
of the change between them: what `Intl.DateTimeFormat` shows is a sum. The loop
runs four times and stops when the guess is right; as a right guess is corrected
by nothing, four corrections say the same. One change of the clocks is in sight
at a time, as in all zones the code can meet within the days a correction spans.
PATCH requests that edit the due date are left out; a work order is made with or
without one.

### OfflineQueue

`write`, `fate` and `conflict` are the browser database, `flush[t]` a tab's
`flushTechnicianWrites` with the list it read once, `wire` the requests under
way and `caller[h]` the tab that waits for a handler. A tab that gives up
leaves its request on the wire or at the server. Back-off times are left out:
a flush may stop before any write, which is what a retry window does.

### DocumentControl

| TLA+ | Code |
|---|---|
| `revision[r]` | `DocumentRevision`: status, effective date, checksum of its file |
| `approval[r]` | the `DocumentApproval` rows of the revision, by approver |
| `read[u][r]` | the `READ_ACKNOWLEDGED` audit rows of a reader |
| `job[h]` | what a handler has read and has still to write |
| `ReadForSubmit`/`Submit`, `ReadForAttach`/`Attach` | `submitRevisionForReview`, `attachDocumentRevisionFile` |
| `ReadForRequest`, `Request`, `AddToRound` | `requestRevisionApproval`; two rounds asked for at once may end up as one, because the second deletion does not see the rows of the first |
| `ReadForDecision`, `Decide`, `ReturnToDraft`, `CountRemaining`, `Approve` | the statements of `decideRevisionApproval` |
| `ReadForSchedule`, `Schedule`, `Reconcile` | `scheduleRevisionEffective`, `reconcileEffectiveRevisions` |
| `ReadForActivation`, `ListPrior`, `Activate` | the statements of `activateRevision` |
| `ReadForAcknowledgement`, `Acknowledge` | `acknowledgeEffectiveRevision`, whose transaction is Serializable |
| `Stop` | a process that dies or a statement that fails, between any two of these |

Nothing in this component but the acknowledgement locks or compares, so what it
promises differs with what overlaps. `ReleasedWasApproved` holds however requests
overlap. One revision in force, and a sealed revision that never changes, hold
only while requests on the document do not overlap (crashes included).
`overlaps` is a history variable that counts the requests that began while
another was at work, and `DocumentIsControlled` is stated for `overlaps = 0`. It
maps the revision in force of `ControlledDocument` to the set of those that are
EFFECTIVE, so that two of them are no state of the abstract module at all. Left
out: change summaries, the document master, what a document applies to, and the
clock (every comparison with a date is made with any date). The file behind a
checksum is a matter of `StoredFiles`.

### StoredFiles

| TLA+ | Code |
|---|---|
| `object[k]` | what the store has under a key: nothing, the file, or part of it |
| `names[x]` | the key in the row of a revision, of a piece of evidence, of a photo |
| `upload[h]` | where a request is between the store and the database, with the key the row named when it was read |
| `BeginUpload`, `PutObject`, `WriteFileRow`, `WriteFileAudit`, `DeleteObject` | `attachDocumentRevisionFile`, `attachQualityEvidence` and the attachment upload, statement by statement |
| `PutFails`, `FileRowFails` | a failure that is reported, whether the statement was carried out or not, and the deletion that makes it good |
| `ReadFileName`, `GetObject`, `ReportMissing` | serving a file |

A key is the id of its holder with the checksum of the content. The history
variables name the exceptions of the property: `doubtful` are keys attached more
than once or reported as failed, `left` those whose put or deletion failed, whose
process died, or whose name was overwritten by an upload that had not read it.

### DocumentSearch

| TLA+ | Code |
|---|---|
| `issue[i]` | the revision: its status, the dates between which it is in force, the file it names |
| `today` | the clock; a search keeps the day it began on as `asOf` |
| `Release`, `Obsolete`, `Reactivate` | `activateRevision`: the revision it makes EFFECTIVE; those it had listed as in force and makes OBSOLETE; one that became so after it was read and is written EFFECTIVE by id all the same |
| `Redate` | `scheduleRevisionEffective`, which takes a revision in force too, and writes its date by id |
| `vectors[i]` | `AiVectorRecord` of the revision, with the checksum it was stored under |
| `FindRevision`, `ReadFile`, `Upsert` | `indexEffectiveRevision`: the query, the read of the file by the row as it is then, the write |
| `StartSearch`, `Query`, `findEffectiveRevisionsByIds` | a search: the moment it compares dates with, the read of the vectors, the read of the rows |
| `Best`, `Before` | ranking by score, then by id |

The requests that change a revision are those of `DocumentControl`; here they are
the writes they end in, at any time and of any revision in the status the write can
meet, which is more than the requests allow. Embedding keeps no state; how near a
text is to a query is any score. `gone` and `steady` (history) are what was out of
force when a search began and has been neither activated nor dated since, and what
was in force and indexed then and has not been touched since; `muddled` are revisions
whose file was replaced between the two reads of an indexing request.

### WebhookDelivery

| TLA+ | Code |
|---|---|
| `subscription[s]` | the `WebhookSubscription` audit rows: DATED while `createWebhookSubscription` has its date and not yet its row, ACTIVE from the row on, REVOKED |
| `event[e]` | newest `IntegrationEvent` row; OCCURRED while the transaction of its work order is open |
| `addressees[e]` | the subscriptions whose `createdAt` is not after the event's `occurredAt` |
| `made[e]` (history) | those of them whose row was there when the event occurred |
| `row[d]`, `letter[d]` | newest `WebhookDelivery` row of a subscription and an event, and its `IntegrationDeadLetter`; `behind` is a failed row the scan of the retries does not get to |
| `FallDue`, `FallBehind`, `ComeForward` | time and the rows of other deliveries: the back-off ends; newer rows fill the window of the scan (`take`), or other failed ones the 50 it looks at (`slice`); those are retried |
| `run[h]`, `sending[h]` | where a request is in the loops of `processWebhookQueue` (or in `replayWebhookDeadLetter`), and in `deliverWebhook` |
| `StartRun`, `Retry`, `ListSubscriptions`, `ListEvents`, `Deliver`, `MarkProcessed` | the statements of the worker that read or write the database |
| `Post`, `RecordDelivered`, `Resolve`, `RecordFailed`, `RecordLetter`, `RecordDeadLettered` | the statements of `deliverWebhook`; `Decide` is the retry policy |
| `ReadForReplay`, `Replay` | the two reads of a dead letter around the check of its subscription |

The state of an event and of a delivery is its newest row, and a run dates all
its rows by the moment it began. A row may therefore be written last and be
older than another; the model keeps that order without numbers (`newer`,
`outdated`, `younger`). It matters: a run lists the subscriptions before the
events, so it may take an event it has not got all the subscriptions for. Such
an event occurred after the run began, the mark the run puts on it is older than
the event, and the next run finds the event unprocessed. `NothingForgotten`
rests on this; with the mark dated when it is made it fails (the mutant of that
property). It does not hold of every addressee: a subscription has its date before
its row (`subscriptions.ts:121`), and a run that lists the subscriptions in between
may mark an event of later than that date. The property is about the subscriptions
in `made`.

The scan of the retries reads the newest 500 rows of all sites and takes the first
50 failed ones before it asks which are due, have attempts left and belong to a
subscription that is not revoked (`delivery.ts:253-288`). So a failed delivery may
stay where it is as long as other rows are in its way; nothing brings it forward but
those rows, and no fairness is assumed of them. `FailuresSettle` says that this is
the only way not to come to an end.

`SuccessIsFinal` is `docs/WEBHOOKS.md:123`, "Successful deliveries are never
resent by the normal worker scan", as far as it holds: for requests that do not
overlap (two runs at once may both find no row and both send), and but for a
delivery whose dead letter is still open. A replay that delivers and dies before
it resolves the letter leaves it open; people may replay it again, the second
replay may fail and write a FAILED row, and the scan then sends what was
delivered. Left out: signatures, targets and payloads; the lengths of the
delays; the limits of 200 events a run and of 20 subscriptions a site; sites that are deactivated (marking
an event of one fails, and with it every run, until the site is active again);
and two rows of one millisecond.

### QualityEvent, Capa, EightD

| TLA+ | Code |
|---|---|
| `event`, `cause`, `capa`, `report` | the newest snapshot rows of the event, its root cause, its CAPA and its 8D |
| `history` | the CAPA rows `currentDraftAuthors` looks at, oldest first |
| `closing[r]` | what a closing request has read in order: the CAPA, the 8D |
| `createQualityEvent` ... `reopenEvent` | the functions of `events.ts` |
| `PassGate`, `CloseEvent`, `GiveUpClosing` | the CLOSE branch of the event route: two queries, then the transaction |
| `saveRootCauseWorkspace` ... | `root-cause.ts` |
| `saveCapaDraft`, `approveCapaWithGovernance`, `completeCapaAction`, `verifyCapaEffectiveness`, `reopenCapa` | `capa.ts`, `capa-approval.ts` |
| `saveEightDWorkspace`, `advanceEightD`, `resetEightDAfterIneffectiveCapa` | `eight-d.ts`; `DisciplineMet` is what each discipline asks for, `Advanced` what passing it copies |

Each function is one Serializable transaction and one action. The hazards are
long histories: plans revised after some of their actions were completed, found
ineffective and revised again. `doneAs` (history) keeps what an action meant when
it was completed, which is what `ClosedCapaIsProven` compares. `raced` and
`overtaken` (history) say that the CAPA or the 8D was written between the look of a
closing request and its transaction, which the code allows; the property
`ClosedMeansFinished` is about all other closures. A text is filled in or blank;
`approveCapa` of `capa.ts`, which only its tests call, is left out.

### PlanGeneration and PreventiveMaintenance

| TLA+ | Code |
|---|---|
| `plan[p]`, `orders[p]` | the `MaintenancePlan` row; the occurrences that have a work order (their numbers are unique) |
| `run[r]` | a request: the locals of `generateCalendarMaintenanceWorkOrders` or `generateMeterMaintenanceWorkOrders` |
| `ListPlans`, `LookForOrder`, `AdvanceExisting`, `generateOccurrence` | the query for due plans, the query for the number, the update of an existing occurrence, the transaction that makes one |
| `StillDue` | the condition of `updateMany`: active, and still where the run believes it to be |
| `Fail` | SCHEDULER_LIMIT, PLAN_MOVED, and a date that does not exist: the whole run ends |
| `addMeterReading`, `SaveReading` | `meters.ts`: the comparison with the last reading and the insert are apart |
| `ingestMessage`, `Finish` | `ingestVerifiedExampleIotMeterReading`: advisory lock, receipt, reading, run, PROCESSED row |
| `createPlan`, `updatePlan`, `archiveAsset` | the plan routes and the archive of the asset |

The occurrences of a plan are points of an axis, due dates or thresholds; the two
schedulers are the same algorithm and one set of actions. `Skipped` are dates the
clock of the organization, put forward, does not come to: `advanceCalendarDue`
throws there and ends the run. `touched` (history) are the plans edited since a run
listed them, the ones `NothingLeftDue` cannot speak of. Months of different
lengths are left out.

### PublicAccess and RateLimiter

Public pages, embedded widgets and API keys authenticate in their own ways and
then run the same functions; one set of actions stands for all. `request[h]` goes
through the queries and transactions of `createPublicMaintenanceRequest` (`Look`,
`Count`, `FindAsset`, `Check`, `Write`, `Reread`) or of a counted lookup (`Count`,
`Seek`, `RecordView`). `tracked` are the submissions with their work orders; the
unique index on token and key is the test in `Write`. `retry` (history) says that
the submission existed when the request came.

`RateLimiter` is one action per check, because a check does not pause. Its
`history` is an observer that does not forget a client when the map does;
`QuotaHolds` compares the two.

### AssetHierarchy

`asset[c]` is the row with a code, its state and the code of its parent. An edit
may change the parent, the code, or both; whatever refers to the asset, in a row or
in what a request has read, holds its id in the code and so follows to the new code
(`Recoded`, `Following`), while the text of a file does not. Requests read and write
in two steps; the transaction of an import is one, since rows are locked as they are
written and assets are never deleted, so that what comes between two of its writes
might as well come before or after it. One case is left out by this: a row whose
code changes between its look-up and its write to the code of a row still to come. `importReferenceErrors`,
`sortRowsParentFirst` and `Imported` are the validation, the order and the writes
of an import; `Closes` is when the depth-first visit of the validation reports a
cycle. The order is told by which rows come before which: by the visit that comes
to a row first, and within a visit, which sorts as it returns, by what it came to
later. The initial states are all forests. What a file says of an asset that is no
row of it is meant of the one that had the code when the file was checked (`Meant`).
Left out: other columns, the parsing of the text, and status history.

### Purchasing

| TLA+ | Code |
|---|---|
| `requestLog` | the snapshots of one purchase request, each beside the one it was made from |
| `reference[s]`, `supplierActive[s]` | `PartSupplier`, `Supplier.active` |
| `buying[h]` | what a request has read and is about to write |
| `createPurchaseRequest`, `updatePurchaseRequestDraft`, `Resolve`, `appendSnapshot` | the read of the newest snapshot, the look-up of the line, the insert |
| `transitionPurchaseRequest` | submit, approve, reject, cancel: the read and the decision; `appendSnapshot` is their write |
| `setPartSupplierReference`, `ClearPreferred`, `UpsertReference`, `Disable` | the statements that change the references of a part, with the locks they hold to their commit |
| `updateSupplier`, `WriteSupplier` | the read of the supplier outside the transaction, and the transaction |

All of it runs at READ COMMITTED. A line has one part, a quantity and a supplier;
`overlapped` (history) says that two handlers were at work together. What is
decided on is as it was submitted however they overlap; one preferred supplier,
no reference to an archived one, and no row on a decided request hold while they
do not.

### Reorder

Alerts change nothing and nothing reads a policy but they. The module adds to
`Inventory` the formulas of `reorder.ts`, and says for every policy a site may
set that they agree with what the stock transactions, which have formulas of
their own, would accept.

### SiteWork, SiteReports, SiteAnalytics

`SiteWork` has several work orders at once, with all their dates, and the
reminders and capacity profiles. A request on work orders is one step in it: how those race is the business of `WorkOrder`, and the times which the reports
compare are written together with the status by every transition, so that a race
leaves no row with times no single request would have written. A run of reminders is
a step for every statement (`reminding[r]` is how far it is), because nothing keeps
two of them apart; each reminder keeps the slot it was made by, and the runs of one
slot come one after another.
`SiteReports` and `SiteAnalytics` have no variables: each page and report is an
operator over the rows, named for its function, with the query and the dates it
has in the code.

| TLA+ | Code |
|---|---|
| `createWorkOrder`, `generateOccurrence`, `patchWorkOrder`, `recordExecution`, `consumePart` | the routes of a work order |
| `bulkTriageWorkOrders`, `archiveAsset`, `setLaborCapacityProfile` | the functions of these names |
| `ExpirePast`, `ListDue`, `LookUp`, `ExpireOthers`, `CreateReminder`, `LeaveRun` | the statements of `generatePreventiveMaintenanceReminders`, and its end or death |
| `dismissMaintenanceReminder` | its write, of a reminder that was ACTIVE when it was read |
| `buildBacklogDashboard`, `buildWorkloadLanes`, `buildWorkOrderBoard`, `buildPersonalDashboard`, `buildNotificationCenter`, `forecastState`, `buildPlanningCalendar` | the pages of open work |
| `buildDowntimeDashboard`, `buildFailurePareto`, `buildPartsCostDashboard`, `buildLaborUtilization`, `buildPmCompliance`, `buildReliabilityDashboard` | the reports for a range of days |
| `localDateStartUtc`, `Resolved` | the instant a day begins at, and the check that refuses a day whose midnight the clock skips |
| `Get...`, `...Answered` | the answer of a route, or none when the request is refused |

A count is the set of what is counted, and a sum that of what it is the sum of,
which says more than a number and needs no folds; lists are not cut at their
limits. Left out: averages and shares, the meter readings in the forecast and its
score, pending approvals, and the alerts of quality and stock among the
notifications.

What the properties have to allow is in the code too:

* Runs of reminders that overlap may each expire what they find before the other
  creates its own, and leave one each. `RemindedOnce` says that those of one slot
  leave one: no run leaves two, and neither do runs that do not overlap.
* "Due soon" on the backlog ends at a local midnight, elsewhere at now + 7 × 24
  hours; they may differ by the work due in between (`SoonAgrees`).
* A range of days whose first midnight, or whose end, the clock skips is refused
  (`RefusedForSkipped`); so is the backlog on the days 6, 29 and 89 after such a
  day and the 7 before it, and a bounded report whose 731st day is one.
* Days that a zone skips altogether have nothing in their reports (`Passes`);
  in zones east of Greenwich an hour shown twice may count for the day before
  (`BeginsOnce` are the days without).
* Times between failures count a failure while an earlier one is still open.
* An asset that is archived leaves the rankings but not the trends.
* Due date and type of completed work may be edited, so a compliance that was
  reported may change.

### SavedViews

`viewLog` is the audit log of one user and board, `viewJob[h]` what a request has
read and is about to append. `latestView` looks at one view in the whole log,
newest row first; the list (`RowsRead`), which the limit and the names are checked
against, is made of the OLDEST rows up to `SAVED_VIEW_HISTORY_LIMIT`. The property
says what holds until the log is longer than that, and what holds beyond.

## Runs

| Run | Shows | Bounds and why they are enough |
|---|---|---|
| `inventory` | stock, ledger, reservations, consumptions and reorder alerts agree; slots implement pools | two work orders compete for one slot of at most two units: one unit each, or one beyond its reservation; two client keys and two consumption keys allow a retry and a second request. More bins and parts are covered by the proofs |
| `cycle_count` | counts respect concurrent stock movements, reservations and clerks | two parts (an item of each clerk), two clerks, one work order holding stock, quantities 0 and 1 |
| `work_order` | dates match the status; a keyed request is done only if written; moved work keeps its time | two handlers, one key, one check item, every transition; days of four hours, three of them; a zone that skips midnight and one that repeats an hour, west and east of Greenwich; work moved before, over and after the change |
| `offline_queue` | at most once, in order, none lost; rows and stored files match | two writes, two tabs, two handlers: a late copy of the first write meets the second; one draft and one record, two contents, two processes: one replaces what the other attaches |
| `documents` | approval, one revision in force, sealed revisions; what a search cites | two revisions (one replaces the other), two approvers (one approves, one rejects), two files (one replaced by the other), dates before and after; two handlers, one overlap; a search that wants one result of two revisions indexed, two days, and two changes of the revisions or the day (made obsolete and brought back, or another date and the day it comes on) while one request indexes and one searches; one of the two has any dates (`Lasting`), the other stands for those in force throughout |
| `webhooks` | nothing is forgotten by who was there; what was delivered is not sent again; what the scans get to settles | one subscription, made or revoked at any time, and one event; two attempts (one to retry, one to give up); two handlers that overlap once, one death at any step, two replays (the second of the one that died) |
| `quality` | nothing is closed unproven; the CAPA implements `GovernedPlan` | two users (author and approver), three plans: one rewords the action of another, one replaces it; three rows that change whose draft it is (a plan, a failure, a revision); one closing request |
| `skipped_disciplines` | the disagreement below | the smallest plans that show it |
| `maintenance` | one work order per occurrence, none skipped; readings and messages | one plan, two runs, two edits at any moment (one may be the archive), two frequencies, one occurrence per run before the limit, a date the clock skips, one message, one death |
| `limits` | one order per key, repeats answered, limits; the map stays fair to who is not crowded out; saved views | one credential, two requests at a time, three keys (the limit can be exceeded), limits of one per hour, three hours; three clients on two entries, a limit of two in a window of two, five instants; three views with two names, a limit of two, a list that reads two of four rows (the log outgrows it) |
| `masters` | rows find their parents, cycles are found, an export comes back; decisions are of submissions, suppliers consistent | four assets (a cycle of two rows and two others), files of two rows in any order; one import against one other request, which creates, archives, or moves and recodes an asset at once; two suppliers, two quantities, two buyers that overlap, four requests |
| `reports` | pages agree, days are covered, times to and between repairs are sound | two failures of one asset, the first worked on in every way with two facts noted beside its status, the second repaired plainly; three instants, days of four hours; three zones: west with an hour skipped just before midnight, east with midnight skipped, and one with an hour shown twice; ranges of up to two days in place of 731, three filters; two runs of reminders that may overlap, two reminders of one work order. While reminders are about, nothing but a due date is noted of the work (`Small`), and while two runs overlap no reminder is dismissed, no work cancelled and no time passes (`FewReminders`). The proofs cover the rest |

Every run is finished by two workers in two to three minutes at most, and has
between 213,000 and 1,800,000 distinct states; `reports` has 22,731, in each of
which every report is computed for every filter and zone, and `skipped_disciplines`
stops at its counterexample after 165,000. Symmetry is used over sets whose
members the modules never tell apart (no set is given an order; the keys of the
offline queue, the revisions, the ids of indexed revisions and the dates are
numbers and are not permuted), and in no run with a liveness property.

The deadlock check is on where some request can always arrive or end. It is off
(`CHECK_DEADLOCK FALSE`) where a model comes to its end by its bounds or by its
own nature: rows of a history (`quality`, `skipped_disciplines`), edits and the
archive (`maintenance`), time (`limits`, `reports`), requests (`masters`).

Larger instances checked by hand: `quality` with four rows (4,287,426 states), and
the safety properties of `maintenance` with two plans and one edit of each
(1,782,353); the validation and the order of `AssetHierarchy` against folds over the
rows, on all files of up to four. The type invariants are theorems and in no run; so are `MapIsBounded`
and `CountsAreLedgered`.

### Fairness

Assumed of the webhook worker and of device messages only.

* `WebhookDelivery!FairSpec`: the worker is started again and again while a
  handler is free (`docs/WEBHOOKS.md` asks for a schedule of one minute); a request
  that was begun goes on, since the endpoint answers or the call times out after
  five seconds (`DELIVERY_TIMEOUT_MS`), and what else it waits for is the
  database; a back-off ends, since every delay is finite (`maxDelayMs`).
* `PreventiveMaintenance!FairSpec`: a request goes on (weak fairness), and the
  provider repeats a message that was accepted until it is processed. The last is
  strong fairness, because deliveries of a message exclude one another and the
  requests are few; it is what `docs/CONNECTOR_EXAMPLES.md` builds on ("heals").

Nothing is assumed of people, of the endpoint's answers or of deaths, which are
bounded in number: a worker that always dies makes no progress. Everywhere else
requests are made by people, whether they are made again is up to them, and no
liveness is claimed.

## Disagreements found

`skipped_disciplines`, a run that ends in a violation: the reset of an 8D after an
ineffective CAPA (`eight-d.ts:640`) sets the report to D5 wherever it is. A report
that is still at D1 to D4 is taken forward, past containment and root cause, and
can be completed without either; the errors of D3 and D4 and the message of the
reset ("can return to D5") say otherwise.

The import of assets lets a cycle through that is closed around two assets one
below the other which are both no rows of the file: with c2 below c3 and c3
below c4, the rows "c1 below c3" and "c4 below c2" are accepted.
The visit reports a cycle at the row it has come to or at the last of its trail,
and neither is one. `docs/INTEGRATIONS.md:97` promises "hierarchy-cycle
detection"; `CyclesAreFound`, a part of `ImportsKeepTheirTrees`, states that this
is the only exception.

### Known races

The models have these states; no property can exclude them, and none pretends
to. Each is a request the code lets through, found by stating the property
without its exception.

Work orders and stock:

* A consumption can commit after its work order was completed or cancelled: the
  transaction of `parts.ts` never reads the status which the route
  (`parts/route.ts:122`) read before; the route says "Parts can only be consumed
  while the work order is in progress or blocked".
* A completed count is no longer found: the row with its movements
  (`cycle-counts.ts:358`) is newer than its snapshot and parses as none, and
  `latestCount` looks at one row. The line for a count that is completed already
  (`:279`) is not reached.
* A count can end cancelled with its adjustments posted (`cycle-counts.ts:385`),
  though "Only an open cycle count can be cancelled": the cancellation runs at
  READ COMMITTED.
* A work order can take a step the workflow does not have
  (`[workOrderId]/route.ts:361`): both PATCH handlers write by id what they computed
  from an earlier read. In the same way it can be completed with open check items
  or no note, and recorded on after it was completed
  (`docs/DEFINITION_OF_DONE.md:23` asks for "valid work-order state transitions").
* A PATCH compares the dates it read: with a move on the calendar in between the
  due date can end up before the start. From then on even a transition that
  leaves the dates alone is refused as INVALID_PLANNING.
* Work moved to a time the clock skips starts up to an hour off; at midnight west
  of Greenwich that is the day before the target.
* Nothing releases the reservations of a work order that is completed or
  cancelled. Work orders are numbered by counting rows outside the transaction
  (`api/work-orders/route.ts:18`). Bulk triage validates one read and writes many
  work orders at READ COMMITTED; it does not write the status.

Documents, quality, webhooks:

* Reconciling puts an older revision back in force (`workflow.ts:396`): of several
  due revisions only those still APPROVED are listed, so once the latest is
  EFFECTIVE the next run takes the one before it.
* Two activations at once leave two revisions EFFECTIVE, and one that comes late
  makes a revision EFFECTIVE again that another has made OBSOLETE
  (`workflow.ts:337`): it writes by id. A search that began while the revision was
  out of force may then cite it. A file may be attached
  after the review has begun. A file that is attached again under its own name
  and whose update fails is deleted from the store although the revision still
  names it (`files.ts:110`).
* An event can be closed while its CAPA is being taken up again: the gate is read
  before the transaction (`quality/events/[eventId]/route.ts:153`).
* A subscription that is dated before an event and inserted after a run has listed
  the subscriptions never hears of it: the run marks the event, and nobody asks for
  its addressees again (`subscriptions.ts:121`).
* A failed delivery is not retried, and no dead letter, while 500 newer rows or 50
  failed ones of other deliveries keep it out of the scan (`delivery.ts:260`, `:270`).
  Failed rows of revoked subscriptions (`:289`) are passed over and stay among
  those 50 until as many newer rows have pushed them out.
* Two runs of the worker at once may both send; a delivered event is sent again
  after the crash and the second replay described above.

Maintenance:

* A calendar plan whose next local time falls into the hour the clock skips
  throws (`calendar.ts:112`). The run ends, and so does every later one when it
  comes to this plan: the plan and those due after it wait until somebody edits
  it. `Skipped` has this case; it is why `NothingLeftDue` speaks of runs that came
  to their end.
* A monthly plan that begins on the 31st is on the 28th from the first February
  on (`calendar.ts`, `Math.min` with the days of the month).
* Two readings can be compared with the same last one, so that a meter runs
  backwards; a reading by hand whose process dies before the plans are looked at
  (`meters.ts:85`) makes no work order until the next reading, while a device
  message is repeated.
* A message may be dated up to five minutes ahead (`iot-meter-readings.ts:60`).
  Its RECORDED row is then newer than the PROCESSED row of the run that handled
  it, and the event is listed as unprocessed until somebody asks again.
* A forecast reads plans and work orders in two queries: an occurrence generated
  between them is missed or counted twice. Its score may get better when plans
  get worse.
* A reminder that has EXPIRED is never brought back (`reminders.ts`); one that
  was left ACTIVE when the due date moved away and back is still there. Two runs
  at once may leave two ACTIVE reminders of one work order, when they were asked for
  other leads or the due date moved in between: both expire before either creates
  (`reminders.ts:83`, `:94`). A reminder found ACTIVE is dismissed by id although it
  has expired since. The list of reminders
  shows all that are ACTIVE, the notification center only those of open work.
* The technician's queue shows work of the team that is assigned to somebody
  else, which the personal dashboard does not. The labor report takes the first
  25 people before it joins their capacities.

Assets, purchasing, public access:

* An edit of an asset compares only the asset and its new parent, so that two
  edits make a cycle; edits, creations and imports may put an active asset below
  an archived one. An import puts a row below the asset that had the code it names
  when the file was checked; when that asset has got another code meanwhile, it ends
  below it all the same, and below itself if it has got the code of the row. A preview calls an archived code "create", and the import
  updates the archived row and leaves it archived.
* An edit of a purchase request that was read as a draft may be written over its
  submission and returns it to draft. Two creations under one key may both be
  written. Approval and rejection may both be written, and the last one counts.
* Two requests that each prefer another supplier leave two preferred; a supplier
  that is archived by a request that read it as archived keeps its references.
* Overlapping public requests exceed the hourly limit, by one for each request at
  work besides (`BudgetsHold`). A lookup that fails to be recorded is not counted.

Files, saved views, search:

* A put that fails is never cleaned up (`storage.ts`). A name overwritten by an
  upload that had not read it leaves its object behind. Where the audit row of an
  attachment fails, the new object is deleted although the row names it already.
* Once a user's log is longer than `SAVED_VIEW_HISTORY_LIMIT`, the list is that of
  its oldest rows: views deleted later stay listed, new ones are not, and neither
  limit nor name is checked against them. Overlapping requests may give two views
  one name, and two rows of one millisecond have no order.
* A search over-samples so that stale vectors do not crowd out valid ones, up to
  four times the limit; beyond that, a document in force is missed. Nothing ever
  deletes a vector, and a namespace with more than 5000 fails every search. A
  file replaced between the two reads of an indexing request leaves a vector of
  the new text under the checksum of the old.

## Proofs

`InventoryProofs` proves, for any finite sets of bins, parts and work orders, any
sets of keys, handlers and statuses and any `MaxQuantity > 0`:

* `TypeCorrect`: `Spec => []TypeOK`.
* `ReservedIsWithinStock`: `Spec => []ReservedWithinStock`. The invariant is
  inductive together with `TypeOK`: what a slot has reserved is a sum over the
  work orders, so the argument is about how the sum changes when one term does.
  Sums are cardinalities of sets of units (`Total`), which lets the library's
  theorems on cardinality do the work of an induction.
* `SlotsImplementPools`: `Spec => SlotsArePools`. Every action is mapped to the
  pool step it implements: a receipt or positive adjustment to `Put`, an issue
  to `Take`, reserving and releasing to `Hold`, a consumption to `Draw`.
* `AggregateIsSumOfBins`: `Spec => []AggregateMatchesBins`, hence no movement
  that a bin could serve is refused as a diverged balance.
* `LedgerIsComplete`: `Spec => []LedgerTellsAll`. The sum over the rows of a slot is
  again a cardinality, so that one row more is one lemma (`OneRowMore`). The
  balances need that rows are finitely many and of bounded quantities
  (`RowsFit`); the consumptions need that every row made by one has its key
  (`KeysTell`), so that a new key means a new row.
* `ReservationsAreHonest`: `Spec => []ReservationsCountRealUse`. A consumption adds
  to the lines of one slot what its reservation counts at most (`DrawDownCounts`),
  and the other reservations are as they were.
* `AlertsAgreeWithTheStock`: `Spec => []AlertsMatchTheStock`, from the first two and
  `BooksInv`: an issue asks for a key nobody has used, and the sum of what the
  others hold is split at one work order.

about cycle counts, for any counts, clerks and items:

* `CountTypeCorrect`; `CompletionIsExact` and `CountingIsKept`. A Serializable
  transaction writes over exactly what it has read, unless the count was closed
  by a cancellation meanwhile (`ReadsAreCurrent`); what a completion posts sets
  each slot to what was counted, by a lemma that takes the adjustments of all
  items in one step (`AdjustedStock`).
* `CountsKeepTheAggregate`, `CountsRespectReservations`, `CountsAreLedgered`: what
  is proved of the inventory alone holds of the inventory with counts.

and about purchasing, for any suppliers, quantities and buyers:

* `PurchasingTypeCorrect`; `DecisionsAreOfSubmissions`: whoever is about to write a
  decision has the snapshot it decides on in the log (`DecidersHaveRead`), and a
  log only grows.
* `SuppliersStayConsistent`, by the argument for requests that do not overlap,
  below.

`WorkOrderProofs` proves, for any handlers, keys, check items and requests:

* `WorkOrderTypeCorrect`, and `DatesAlwaysMatchStatus`. The dates are not
  inductive alone: a handler carries data computed from a row that is gone. The
  strengthening says that the data itself has dates that match its status, which
  holds whatever row it was computed from; the last writer then leaves a
  consistent row although the step it takes may not exist in the workflow.
* `ReceiptsAreExact`: `Spec => [](KeyAppliedOnce /\ DoneMeansWritten)`; and
  `AnswersAreTrue`, the second half of it by itself.
* `PlanningKeepsTheRequests`: the requests with dates implement those without, so
  that all of this holds on the planning calendar. `PlanningTypeCorrect` ties the
  mark of `WorkOrder` that a start is set to the start; it needs to know what each
  pending PATCH will write (`AskedTrue`, `DataTrue`).
* `ReschedulingKeepsTheTime`: `PlanningSpec => ReschedulingKeepsTheClock`, for any
  offsets, any moment of the change and any length of the day. Its lemma
  `ClockIsMet` says that the loop of `zonedDateTimeToUtc` comes to the local time
  wherever there is one (there are only two instants it can be at, and from the
  wrong one the next correction leads to the right one), and ends within the gap
  where there is none.
* `QueueTypeCorrect`, `QueuedWritesApplyOnce` (`WrittenExactlyOnce`) and
  `QueueKeepsTheOrder` (`[][...]`, `WritesInOrder`), for any number of writes, tabs
  and handlers. Every step of the queue is a step of the work order or none, so
  that its receipts are exact here too. The order is that of the invariant
  `OnlyTheForemostIsUnderWay`: whatever is on the wire or at a handler, copies left
  behind by dead tabs included, is the first write that has not left the queue,
  because a tab sends the earliest of its list and a list misses no earlier write
  that is still queued (`ListsAreWhole`).

`DocumentProofs` proves, for any revisions, approvers, readers and dates and any
number of requests at work at one time:

* `DocumentTypeCorrect`, and `ReleasedRevisionsWereApproved`: `Spec =>
  []ReleasedWasApproved`. A handler approves from a count it made before, so the
  strengthening says what each pending write rests on (`JobsJustified`): a handler
  past its count has a revision on record as approved by all, whatever has
  become of the rows since, and likewise one that is about to activate a
  revision or to make others obsolete. `RoundsRecorded` ties the record to the
  rows: whenever a round has no decision left open it is on record.
* `DocumentsAreControlled`: `Spec => DocumentIsControlled`, step by step, by the
  argument for requests that do not overlap.

about stored files, for any drafts, records, contents and processes:

* `FilesTypeCorrect`, `StoredFilesAreKept`. For a key that is not doubtful, at most
  one process is before the statement that writes it into a row; until then no
  row names it, and whoever is about to delete it as replaced has replaced it
  (`KeysTrue`).

and about the search, for any revisions, scores, limits, indexers and searchers:

* `SearchTypeCorrect`, `SearchesAreSound`. Every vector was made of the content its
  checksum tells, but for the muddled ones (`VectorsTrue`); what was out of force
  when a search began is not in force as of then, unless it was activated or dated
  since (`GoneStays`: nothing else brings a revision back, and no day that passes
  does); what is steady is among the vectors read (`SteadyStays`). That the best of a set are found unless enough others are ahead
  is a fact about cardinalities of finite sets.

`WebhookProofs` proves, for any subscriptions, events and number of attempts, and
any number of requests at work at one time:

* `WebhookTypeCorrect`, and `NothingIsForgotten`: `Spec => []NothingForgotten`. The
  strengthening follows a run through its loops: a run that has listed the
  subscriptions has all whose row was there when an event not younger than it
  occurred (`RunFair`, first half; it holds because such an event occurred before
  the run began), and
  of the event it is at it has tended all subscriptions it is through with, or is
  still sending to one (second half). `RowsTrue` and `SendingTrue` say that a row
  or a letter is never ahead of what happened.
* `SuccessesAreFinal`: `Spec => SuccessIsFinal`, by the argument for requests that
  do not overlap: a call takes up nothing that was delivered unless its dead
  letter is open (`TakenUp`).

The argument for requests that do not overlap (`AloneInv` of `InventoryProofs`,
`DocumentProofs` and `WebhookProofs`, `ViewsInv` of `LimitsProofs`) is the same
everywhere. While the history says that nobody has overlapped, at most one handler
is at work, and what it has read is still so (`Current`, `KnowsViews`); so its
write is as good as one made at the moment of its read. Nothing keeps a handler
from dying half-way, so the invariant is one of every state and not only of those
with nobody at work.

`QualityProofs` proves, for any users, findings, plans, edits, length of the
history and number of closing requests:

* `QualityTypeCorrect`, `ClosedCapasAreProven`, `ClosedEventsAreFinished`,
  `ReportsNameImplementedActions`. The invariant says what each status of a CAPA
  implies, also while it is a draft (`CapaGood`: completions mean what their
  actions mean now); what a report has copied (`ReportGood`); that a completed
  report has a CAPA (`ReportHasCapa`), which the closed event needs because a CAPA
  that is missing passes the gate; and that what a closing request found is still
  so unless it was overtaken (`GatesTrue`).
* `PlansAreGoverned`: `Spec => PlanIsGoverned`. The authors of the present draft
  are read from the history, so its lemmas are about what appending each kind of
  row does to `currentDraftAuthors`.

`MaintenanceProofs` proves, for any plans, frequencies, skipped dates, messages,
runs and bounds:

* `MaintenanceTypeCorrect`, `MessagesApplyOnce`: a message has at most one reading
  and one delivery that makes it, which has not made it yet (`OneDelivery`).
* `RunsLeaveNothingDue`. Whatever is due within the reach of a run and untouched
  is one the run has still to come to, at a point it will reach: the plan has
  moved by whole multiples of the frequency the run knows (`RunCovers`). At the
  end nothing is left to come to.
* `PlansAreRecurrences`: `Spec => PlansRecur`.

and about the asset tree, for any finite set of codes, files of any length, and any
number of imports and edits at work:

* `AssetTypeCorrect`.
* `ExportsComeBack`: `AssetSpec => []ExportComesBack`.
* `TreesSurviveImports`: `AssetSpec => ImportsKeepTheirTrees`. An import at work
  still has what the check of its file found (`ImportsAreChecked`): whatever was
  written since, no rows are in a circle and every parent is a row or was read,
  and what was read follows a change of a code (`FollowingJob`), so that the parent it
  writes is the asset that was meant; and if nothing was, the file still passes.

Both rest on walks up the tree of any length. `Above` is a recursive function; that
it has its equation (`AboveIs`) and what a walk stays within (`StaysIn`) are
inductions, told of sets of numbers (`AllNumbers`, from the fact that a set of
numbers has a least one). From there on the argument is about closed sets, which no
step to a parent leaves: by the pigeonhole principle a visit of as many steps as
there are codes has come to all it ever will (`VisitedIsClosed`), and
`CycleIsReported` takes the first row whose visit comes to a closed set of codes:
that visit closes a cycle and no earlier one has been on it, so the cycle is
reported, but where the two codes at which it closes are no rows. Its instances are
the circle of rows that a checked file cannot have, the cycle of an export, and the
cycle an import would close.

`LimitsProofs` proves, for any credentials, keys, limits and number of requests:

* `AccessTypeCorrect`, and `OneOrderForEachKey`: `Spec => []CreationIsIdempotent`.
  The strengthening says what each stage knows: an answer names the work order of
  its key (`Told`), and a request whose submission existed when it came never gets
  past `Look` (`RetryTrue`). Work orders are numbered by counting, so `NumbersUsed`
  is needed for two submissions not to share one.
* `BudgetsAreHeld`: `Spec => []BudgetsHold`. Once an hour is at its limit, what is
  recorded in it and the requests still under way to it are together fewer than
  the limit and the handlers (`WindowsAreBounded`): none enters any more, and the
  one that reached the limit is no longer under way. Hours are windows that end
  at any instant, so time may pass between the count and the record.

for any finite set of clients, limit, window and capacity: `LimiterTypeCorrect`,
`MapStaysBounded` and `QuotasHold`. In a small crowd the map has forgotten nothing
the observer still counts (`WindowsTrue`): what is dropped was over, or was seen
before the client's window began, since the entries dropped are the ones seen
least recently.

and for any views, names, limits and length of the log: `SavedViewsAreConsistent`
(with the type invariant), by the argument for requests that do not overlap and
lemmas on what an appended row does to the views that are shown.

`ReportProofs` proves, for any work orders, assets, users, edits, instants, zones,
classes of age, filters and limits:

* `RepairTimes`: `SiteSpec => []RepairTimesAreSound`. The times of a row are in the
  order of what they are the times of (`RowTimed`), whatever was reopened or
  cancelled in between, and an interval begins at the last completion before it.
* `PagesOfOpenWorkAgree`: `SiteSpec => []ReportsAgree`. That the pages count the
  same is set algebra over rows of the type. `RemindedOnce` needs that a run which
  is about to make a reminder has left none of its own in force (`ClearedOfOwn`):
  it has expired what it found, other runs make only theirs, and nothing brings an
  expired one back (`Quiet`).
* `ReportsCoverDays`: `SiteSpec => []ReportsCoverTheirDays`, for any zone, any change
  of its clock by no more than a day and any length of the day: the three
  corrections of `localDateStartUtc` come to the midnight wherever there is one,
  so that an instant is between two midnights exactly if its day is.

The assumptions are those the modules state of their constants: naturals and
integers, `None` not among the values, finite sets of clients, handlers, bins,
parts, work orders, revisions and codes, no offset beyond the margin, and no clock
changed by more than a day. TLC evaluates them in the runs.

Only model-checked: `EventsAreProcessed`, `FailuresSettle` and
`MessagesAreProcessed`, which are liveness under fairness. Every other property of a
passing run is a theorem. `CompletedReportsAreWhole`, which
`skipped_disciplines` refutes, has a counterexample.

## Not modelled

* **Authentication, tenants and permissions.** Checks of one request without state
  of their own; in the models a request comes from a user who may make it.
  Invitations and roles are rows.
* **Part, warehouse and supplier masters.** Names, codes, units, prices and terms;
  only what the ledger and the purchase requests depend on is modelled. Purchase
  requests of more than one line.
* **Months of different lengths, several meters, meters with rollover.** Data of the
  scheduler; the axis of occurrences is the same.
* **AI texts.** Troubleshooting and summaries of external providers; they change
  no maintenance record.
* **Credential vault, REST connector, signatures, CSV text.** Cryptography,
  parsing and input/output with little state.
* **Read cache, service worker, pages and components.** What is shown of the
  writes is decided by the offline queue.
* **Free-text search, choice of cards, alerts of quality and stock among the
  notifications.** Read-only, and no other page says the same thing.
* **Operations.** Scripts, metrics, logging, generated API documentation.

Within modelled components, what is left out is said in their sections.

## Plan

1. Due dates edited by PATCH on the planning calendar, composed with `WorkOrder`.
2. Webhooks: sites that are deactivated, the limit of 200 events a run, the limit of a
   site.
3. Documents: what a document applies to; edits of the document master.
4. Invitations and membership: an invitation accepted twice, or after it was
   revoked.
5. The writes of an import one by one, beside changes of the codes of its rows.
