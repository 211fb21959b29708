---------------------------- MODULE ReportProofs ----------------------------
(***************************************************************************)
(* What is proved of the reports of a site: for any work orders, users,    *)
(* teams, instants and time zones, not only those of the configuration.    *)
(***************************************************************************)
EXTENDS SiteAnalytics, FiniteSetTheorems, WellFoundedInduction, TLAPS

---------------------------------------------------------------------------
(* The rows.                                                               *)

Dates == Int \cup {None}

RowFields ==
    {"generated", "status", "assigneeId", "teamId", "dueAt", "plannedStart", "startedAt",
     "completedAt", "laborMinutes", "downtimeMinutes", "requestedAt", "type", "priority", "assetId"}

\* What the rows hold.
RowTyped(r) ==
    /\ r = [f \in RowFields |-> r[f]]
    /\ r.status \in DOMAIN transitions
    /\ r.requestedAt \in Int /\ r.assetId \in Assets
    /\ r.startedAt \in Dates /\ r.completedAt \in Dates
    /\ r.dueAt \in Dates /\ r.plannedStart \in Dates
    /\ r.assigneeId \in Users \cup {None}
    /\ r.teamId \in DOMAIN Members \cup {None}

\* The times of a row are in the order of what they are the times of; work that
\* was begun has the time it began, and work that is done when it was done.
RowTimed(r) ==
    /\ r.requestedAt <= now
    /\ r.startedAt # None => r.requestedAt <= r.startedAt /\ r.startedAt <= now
    /\ r.status \in {"IN_PROGRESS", "BLOCKED", "COMPLETED"} => r.startedAt # None
    /\ r.status = "COMPLETED" =>
        r.completedAt # None /\ r.startedAt <= r.completedAt /\ r.completedAt <= now

\* The inductive invariant of the rows.
RowsInv ==
    /\ now \in Int
    /\ work = [w \in WorkOrders |-> work[w]]
    /\ \A w \in WorkOrders : work[w] # None => RowTyped(work[w]) /\ RowTimed(work[w])

LEMMA Statuses ==
    DOMAIN transitions =
        {"REQUESTED", "APPROVED", "PLANNED", "IN_PROGRESS", "BLOCKED", "COMPLETED", "CANCELLED"}
BY DEF transitions

\* A row is made with all its fields and nothing begun.
LEMMA NewRow ==
    ASSUME RowsInv, NEW w \in WorkOrders, NEW fields, New(w, fields),
           DOMAIN fields \subseteq {"requestedAt", "type", "priority", "assetId", "generated",
                                    "status", "dueAt"},
           {"requestedAt", "type", "priority", "assetId"} \subseteq DOMAIN fields,
           fields["requestedAt"] = now, fields["assetId"] \in Assets,
           "status" \in DOMAIN fields => fields["status"] = "APPROVED",
           "dueAt" \in DOMAIN fields => fields["dueAt"] \in Int
    PROVE  RowsInv'
<1>. DEFINE row == [f \in DOMAIN Blank \cup DOMAIN fields |->
                     IF f \in DOMAIN fields THEN fields[f] ELSE Blank[f]]
<1>1. work' = [work EXCEPT ![w] = row] /\ now' = now
  BY DEF New
<1>2. DOMAIN Blank \cup DOMAIN fields = RowFields
  BY DEF Blank, RowFields
<1>3. /\ row.requestedAt = now /\ row.assetId \in Assets /\ row.status \in {"REQUESTED", "APPROVED"}
      /\ row.startedAt = None /\ row.completedAt = None /\ row.plannedStart = None
      /\ row.dueAt \in Dates /\ row.assigneeId = None /\ row.teamId = None
  BY DEF Blank, Dates
<1>4. row = [f \in RowFields |-> row[f]]
  BY <1>2
<1>. HIDE DEF row
<1>5. RowTyped(row) /\ RowTimed(row)
  BY <1>3, <1>4, Statuses, SiteAssumption DEF RowTyped, RowTimed, Dates, RowsInv
<1>. QED
  BY <1>1, <1>5 DEF RowsInv, RowTyped, RowTimed

\* An edit leaves what is stamped.
LEMMA EditedRow ==
    ASSUME NEW e \in Edits \cup Efforts \cup {<< >>}, NEW r, RowTyped(r), RowTimed(r)
    PROVE  /\ RowTyped(Edited(e, r)) /\ RowTimed(Edited(e, r))
           /\ Edited(e, r).status = r.status
<1>. DEFINE edited == [f \in DOMAIN r |-> IF f \in DOMAIN e THEN e[f] ELSE r[f]]
<1>1. DOMAIN r = RowFields /\ edited = [f \in RowFields |-> edited[f]]
  BY DEF RowTyped
<1>2. /\ DOMAIN e \cap Stamped = {}
      /\ \A f \in {"dueAt", "plannedStart"} \cap DOMAIN e : e[f] \in Dates
      /\ "assigneeId" \in DOMAIN e => e["assigneeId"] \in Users \cup {None}
      /\ "teamId" \in DOMAIN e => e["teamId"] \in DOMAIN Members \cup {None}
  <2>1. CASE e = << >>
    BY <2>1
  <2>2. CASE e \in Edits \cup Efforts
    BY <2>2, SiteAssumption, TeamAssumption DEF Dates
  <2>. QED
    BY <2>1, <2>2
<1>3. \A f \in Stamped : edited[f] = r[f]
  BY <1>1, <1>2 DEF Stamped, RowFields
<1>4. /\ edited.status = r.status /\ edited.requestedAt = r.requestedAt
      /\ edited.startedAt = r.startedAt /\ edited.completedAt = r.completedAt
      /\ edited.assetId = r.assetId
  BY <1>3 DEF Stamped
<1>5. /\ edited.dueAt \in Dates /\ edited.plannedStart \in Dates
      /\ edited.assigneeId \in Users \cup {None} /\ edited.teamId \in DOMAIN Members \cup {None}
  BY <1>1, <1>2 DEF RowTyped, RowFields
<1>6. Edited(e, r) = edited
  BY DEF Edited
<1>. HIDE DEF edited
<1>. QED
  BY <1>1, <1>4, <1>5, <1>6 DEF RowTyped, RowTimed

\* A row after its status and its times are written.
Written(r, to, started, completed) ==
    [r EXCEPT !.status = to, !.startedAt = started, !.completedAt = completed]

LEMMA WrittenRow ==
    ASSUME NEW r, RowTyped(r), NEW to, NEW started, NEW completed,
           NEW d, d = Written(r, to, started, completed)
    PROVE  /\ d = [f \in RowFields |-> d[f]]
           /\ d.status = to /\ d.startedAt = started /\ d.completedAt = completed
           /\ d.requestedAt = r.requestedAt /\ d.dueAt = r.dueAt /\ d.plannedStart = r.plannedStart
           /\ d.assetId = r.assetId /\ d.assigneeId = r.assigneeId /\ d.teamId = r.teamId
<1>1. DOMAIN r = RowFields /\ r = [f \in DOMAIN r |-> r[f]]
  BY DEF RowTyped
<1>2. d = [f \in DOMAIN r |-> IF f = "completedAt" THEN completed
                             ELSE IF f = "startedAt" THEN started
                             ELSE IF f = "status" THEN to ELSE r[f]]
  BY <1>1 DEF Written
<1>3. DOMAIN d = RowFields /\ d = [f \in RowFields |-> d[f]]
  BY <1>1, <1>2
<1>4. \A f \in RowFields : d[f] = IF f = "completedAt" THEN completed
                                  ELSE IF f = "startedAt" THEN started
                                  ELSE IF f = "status" THEN to ELSE r[f]
  BY <1>1, <1>2
<1>5. /\ d.status = to /\ d.startedAt = started /\ d.completedAt = completed
      /\ d.requestedAt = r.requestedAt /\ d.dueAt = r.dueAt /\ d.plannedStart = r.plannedStart
      /\ d.assetId = r.assetId /\ d.assigneeId = r.assigneeId /\ d.teamId = r.teamId
  BY <1>4 DEF RowFields
<1>. QED
  BY <1>3, <1>5

LEMMA TransitionsStay == \A s \in DOMAIN transitions : transitions[s] \subseteq DOMAIN transitions
BY DEF transitions

\* Every transition writes the times that go with the status it leads to.
LEMMA TransitionOfRow ==
    ASSUME now \in Int, NEW r, RowTyped(r), RowTimed(r), NEW to \in {r.status} \cup transitions[r.status]
    PROVE  RowTyped(deriveTransitionDates(r, to)) /\ RowTimed(deriveTransitionDates(r, to))
<1>. DEFINE d == deriveTransitionDates(r, to)
<1>1. r.status \in DOMAIN transitions
  BY DEF RowTyped
<1>2. to \in DOMAIN transitions
  BY <1>1, TransitionsStay
<1>3. CASE r.status = to
  BY <1>3 DEF deriveTransitionDates
<1>4. CASE r.status # to /\ r.status = "CANCELLED"
  <2>1. d = Written(r, to, None, None)
    BY <1>4 DEF deriveTransitionDates, Written
  <2>2. to = "REQUESTED"
    BY <1>4 DEF transitions
  <2>3. /\ d = [f \in RowFields |-> d[f]] /\ d.status = to /\ d.startedAt = None
        /\ d.completedAt = None /\ d.requestedAt = r.requestedAt /\ d.dueAt = r.dueAt
        /\ d.plannedStart = r.plannedStart /\ d.assetId = r.assetId /\ d.assigneeId = r.assigneeId /\ d.teamId = r.teamId
    BY <2>1, WrittenRow
  <2>. HIDE DEF d
  <2>4. RowTyped(d) /\ RowTimed(d)
    BY <1>2, <2>2, <2>3 DEF RowTyped, RowTimed, Dates
  <2>. QED
    BY <2>4 DEF d
<1>5. CASE r.status # to /\ r.status = "COMPLETED"
  <2>1. d = Written(r, to, now, None)
    BY <1>5 DEF deriveTransitionDates, Written
  <2>2. to = "IN_PROGRESS"
    BY <1>5 DEF transitions
  <2>3. /\ d = [f \in RowFields |-> d[f]] /\ d.status = to /\ d.startedAt = now
        /\ d.completedAt = None /\ d.requestedAt = r.requestedAt /\ d.dueAt = r.dueAt
        /\ d.plannedStart = r.plannedStart /\ d.assetId = r.assetId /\ d.assigneeId = r.assigneeId /\ d.teamId = r.teamId
    BY <2>1, WrittenRow
  <2>. HIDE DEF d
  <2>4. RowTyped(d) /\ RowTimed(d)
    BY <1>2, <2>2, <2>3, SiteAssumption DEF RowTyped, RowTimed, Dates
  <2>. QED
    BY <2>4 DEF d
<1>6. CASE r.status # to /\ r.status \notin {"CANCELLED", "COMPLETED"}
  <2>. DEFINE started == IF to = "IN_PROGRESS" /\ r.startedAt = None THEN now ELSE r.startedAt
              completed == IF to = "COMPLETED" THEN now ELSE r.completedAt
  <2>1. d = Written(r, to, started, completed)
    BY <1>6 DEF deriveTransitionDates, Written
  <2>2. to \in {"BLOCKED", "COMPLETED"} => r.status \in {"IN_PROGRESS", "BLOCKED"}
    BY <1>6, Statuses DEF transitions, RowTyped
  <2>3. /\ started \in Dates /\ completed \in Dates
        /\ started # None => r.requestedAt <= started /\ started <= now
        /\ to \in {"IN_PROGRESS", "BLOCKED", "COMPLETED"} => started # None
        /\ to = "COMPLETED" => completed = now
    BY <2>2, SiteAssumption DEF RowTyped, RowTimed, Dates
  <2>. HIDE DEF started, completed
  <2>4. /\ d = [f \in RowFields |-> d[f]] /\ d.status = to /\ d.startedAt = started
        /\ d.completedAt = completed /\ d.requestedAt = r.requestedAt /\ d.dueAt = r.dueAt
        /\ d.plannedStart = r.plannedStart /\ d.assetId = r.assetId /\ d.assigneeId = r.assigneeId /\ d.teamId = r.teamId
    BY <2>1, WrittenRow
  <2>. HIDE DEF d
  <2>5. RowTyped(d) /\ RowTimed(d)
    BY <1>2, <2>3, <2>4, SiteAssumption DEF RowTyped, RowTimed, Dates
  <2>. QED
    BY <2>5 DEF d
<1>. QED
  BY <1>3, <1>4, <1>5, <1>6

\* What changes rows one by one, each to one that is as it should be, and what
\* changes no row.
LEMMA RowsChange ==
    ASSUME RowsInv, now' = now, work' = [w \in WorkOrders |-> work'[w]],
           \A w \in WorkOrders : work'[w] = work[w]
                \/ (RowTyped(work'[w]) /\ RowTimed(work'[w]))
    PROVE  RowsInv'
BY DEF RowsInv, RowTyped, RowTimed

\* Every step keeps the rows as they should be.
LEMMA RowsKept ==
    ASSUME RowsInv, [SiteNext]_siteVars
    PROVE  RowsInv'
<1>1. ASSUME NEW w \in WorkOrders, NEW kind \in Kinds, createWorkOrder(w, kind)
      PROVE  RowsInv'
  <2>. DEFINE fields == [requestedAt |-> now, type |-> kind.type, priority |-> kind.priority,
                         assetId |-> kind.assetId]
  <2>1. New(w, fields)
    BY <1>1 DEF createWorkOrder
  <2>2. /\ DOMAIN fields = {"requestedAt", "type", "priority", "assetId"}
        /\ fields["requestedAt"] = now /\ fields["assetId"] = kind.assetId
    OBVIOUS
  <2>3. fields["assetId"] \in Assets
    BY <2>2, SiteAssumption
  <2>. HIDE DEF fields
  <2>. QED
    BY <2>1, <2>2, <2>3, NewRow
<1>2. ASSUME NEW w \in WorkOrders, NEW a \in Assets, NEW dueAt \in Instants, generateOccurrence(w, a, dueAt)
      PROVE  RowsInv'
  <2>. DEFINE fields == [requestedAt |-> now, type |-> "PREVENTIVE", priority |-> "NORMAL",
                         assetId |-> a, generated |-> TRUE, status |-> "APPROVED", dueAt |-> dueAt]
  <2>1. New(w, fields)
    BY <1>2 DEF generateOccurrence
  <2>2. /\ DOMAIN fields = {"requestedAt", "type", "priority", "assetId", "generated", "status", "dueAt"}
        /\ fields["requestedAt"] = now /\ fields["assetId"] = a /\ fields["status"] = "APPROVED" /\ fields["dueAt"] = dueAt
    OBVIOUS
  <2>3. dueAt \in Int
    BY SiteAssumption
  <2>. HIDE DEF fields
  <2>. QED
    BY <2>1, <2>2, <2>3, NewRow
<1>3. ASSUME NEW w \in WorkOrders, NEW e \in Edits \cup {<< >>}, NEW to \in DOMAIN transitions,
             patchWorkOrder(w, e, to)
      PROVE  RowsInv'
  <2>1. work[w] # None /\ to \in {work[w].status} \cup transitions[work[w].status]
    BY <1>3 DEF patchWorkOrder, Reported
  <2>2. work' = [work EXCEPT ![w] = deriveTransitionDates(Edited(e, work[w]), to)] /\ now' = now
    BY <1>3 DEF patchWorkOrder
  <2>3. /\ RowTyped(Edited(e, work[w])) /\ RowTimed(Edited(e, work[w]))
        /\ Edited(e, work[w]).status = work[w].status
    BY <2>1, EditedRow DEF RowsInv
  <2>4. /\ RowTyped(deriveTransitionDates(Edited(e, work[w]), to))
        /\ RowTimed(deriveTransitionDates(Edited(e, work[w]), to))
    BY <2>1, <2>3, TransitionOfRow DEF RowsInv
  <2>. QED
    BY <2>2, <2>4, RowsChange DEF RowsInv
<1>4. ASSUME NEW w \in WorkOrders, NEW effort \in Efforts, recordExecution(w, effort)
      PROVE  RowsInv'
  <2>1. work[w] # None /\ work' = [work EXCEPT ![w] = Edited(effort, work[w])] /\ now' = now
    BY <1>4 DEF recordExecution, AtWork, Reported
  <2>2. RowTyped(Edited(effort, work[w])) /\ RowTimed(Edited(effort, work[w]))
    BY <2>1, EditedRow DEF RowsInv
  <2>. QED
    BY <2>1, <2>2, RowsChange DEF RowsInv
<1>5. ASSUME NEW selected \in SUBSET listBulkActionOptions, NEW e \in Edits,
             bulkTriageWorkOrders(selected, e)
      PROVE  RowsInv'
  <2>1. /\ work' = [w \in WorkOrders |-> IF w \in selected THEN Edited(e, work[w]) ELSE work[w]]
        /\ now' = now
    BY <1>5 DEF bulkTriageWorkOrders
  <2>2. \A w \in selected : w \in WorkOrders /\ work[w] # None
    BY DEF listBulkActionOptions, NotClosed, Reported
  <2>3. \A w \in selected : RowTyped(Edited(e, work[w])) /\ RowTimed(Edited(e, work[w]))
    BY <2>2, EditedRow DEF RowsInv
  <2>4. \A w \in WorkOrders : work'[w] = work[w] \/ (RowTyped(work'[w]) /\ RowTimed(work'[w]))
    BY <2>1, <2>3
  <2>5. work' = [w \in WorkOrders |-> work'[w]]
    BY <2>1
  <2>. QED
    BY <2>1, <2>4, <2>5, RowsChange
<1>6. CASE Wait
  <2>1. now' \in Int /\ now < now' /\ work' = work
    BY <1>6, SiteAssumption DEF Wait
  <2>. QED
    BY <2>1, SiteAssumption DEF RowsInv, RowTyped, RowTimed, Dates
<1>7. CASE UNCHANGED <<now, work>>
  BY <1>7, RowsChange DEF RowsInv
<1>8. CASE WorkStep
  <2>1. ASSUME NEW w \in WorkOrders, NEW cost \in Costs \cup {None}, consumePart(w, cost)
        PROVE  UNCHANGED <<now, work>>
    BY <2>1 DEF consumePart
  <2>. QED
    BY <1>1, <1>2, <1>3, <1>4, <1>7, <1>8, <2>1 DEF WorkStep
<1>9. CASE BulkStep
  BY <1>5, <1>9 DEF BulkStep
<1>10. CASE ArchiveStep \/ CapacityStep \/ ReminderStep \/ DismissStep \/ UNCHANGED siteVars
  BY <1>7, <1>10 DEF ArchiveStep, archiveAsset, CapacityStep, setLaborCapacityProfile,
       disableLaborCapacityProfile, ReminderStep, ExpirePast, ListDue, LookUp, ExpireOthers,
       CreateReminder, LeaveRun, Goes, DismissStep, dismissMaintenanceReminder, siteVars
<1>. QED
  BY <1>6, <1>8, <1>9, <1>10 DEF SiteNext

\* The rows of a site are as they should be.
LEMMA RowsInvariant == SiteSpec => []RowsInv
<1>1. SiteInit => RowsInv
  BY SiteAssumption DEF SiteInit, RowsInv
<1>2. RowsInv /\ [SiteNext]_siteVars => RowsInv'
  BY RowsKept
<1>. QED
  BY <1>1, <1>2, PTL DEF SiteSpec

---------------------------------------------------------------------------
(* Days and instants.                                                      *)

\* A set of naturals that is not empty has a least element.
LEMMA LeastOfNats ==
    ASSUME NEW S \in SUBSET Nat, S # {}
    PROVE  \E x \in S : \A y \in S : x <= y
<1>. DEFINE R == {p \in Nat \X Nat : p[1] < p[2]}
<1>1. IsWellFoundedOn(R, Nat)
  BY NatLessThanWellFounded, Zenon DEF OpToRel
<1>2. \A y, z \in Nat : <<y, z>> \notin R => z <= y
  OBVIOUS
<1>. HIDE DEF R
<1>3. PICK x \in S : \A y \in S : ~ (<<y, x>> \in R)
  BY <1>1, WFMin, Zenon
<1>. QED
  BY <1>2, <1>3

\* A set of integers that is not empty and has a bound has a greatest element.
LEMMA MaxOfBounded ==
    ASSUME NEW S \in SUBSET Int, S # {}, NEW b \in Int, \A x \in S : x <= b
    PROVE  Max(S) \in S /\ \A x \in S : x <= Max(S)
<1>. DEFINE T == {b - x : x \in S}
<1>1. T \subseteq Nat /\ T # {}
  <2>1. \A x \in S : b - x \in Nat
    OBVIOUS
  <2>. QED
    BY <2>1
<1>2. PICK x \in T : \A y \in T : x <= y
  <2>. HIDE DEF T
  <2>. QED
    BY <1>1, LeastOfNats
<1>3. PICK m \in S : x = b - m
  OBVIOUS
<1>4. \A y \in S : m >= y
  <2>1. \A y \in S : x <= b - y
    BY <1>2
  <2>. QED
    BY <1>3, <2>1
<1>. QED
  BY <1>4 DEF Max

LEMMA ZoneTyped ==
    ASSUME NEW zone \in Zones
    PROVE  /\ zone.change \in Int /\ zone.before \in Int /\ zone.after \in Int
           /\ zone.after - zone.before \in -DayLength..DayLength
           /\ {zone.before, zone.after} \subseteq -Margin..Margin
BY ReportAssumption DEF Zone

\* A day begins at an instant, which is what the clock of the day is ahead by
\* before its midnight.
LEMMA StartOfDay ==
    ASSUME NEW zone \in Zones, NEW day \in Int
    PROVE  /\ midnight(day) \in Int
           /\ localDateStartUtc(zone, day) \in Int
           /\ localDateStartUtc(zone, day) \in {midnight(day) - zone.before, midnight(day) - zone.after}
<1>1. midnight(day) \in Int
  BY DayLengthAssumption DEF midnight
<1>2. \A g \in Int : /\ Corrected(zone, midnight(day), g) \in {midnight(day) - zone.before, midnight(day) - zone.after}
                     /\ Corrected(zone, midnight(day), g) \in Int
  BY <1>1, ZoneTyped DEF Corrected, localTime, offset
<1>. QED
  BY <1>1, <1>2 DEF localDateStartUtc

\* The filters of a report: those of the configuration, and none.
LEMMA FilterTyped ==
    ASSUME NEW f \in Filters \cup {NoFilter}
    PROVE  f.from \in Int \cup {None} /\ f.to \in Int \cup {None}
BY AnalyticsAssumption DEF NoFilter

LEMMA WindowTyped ==
    ASSUME now \in Int, NEW zone \in Zones, NEW f \in Filters \cup {NoFilter}
    PROVE  /\ window(zone, f).from \in Dates
           /\ window(zone, f).toExclusive \in Int
           /\ window(zone, f).toExclusive # None
<1>1. f.from # None => localDateStartUtc(zone, f.from) \in Int
  BY FilterTyped, StartOfDay
<1>2. f.to # None => localDateStartUtc(zone, f.to + 1) \in Int
  BY FilterTyped, StartOfDay
<1>3. None \notin Int
  BY SiteAssumption
<1>. QED
  BY <1>1, <1>2, <1>3 DEF window, resolveAnalyticsDateRange, Earlier, Dates

---------------------------------------------------------------------------
(* The times to repair and between failures.                               *)

\* Each repair of a report counts, with its time.
LEMMA RepairsCount ==
    ASSUME RowsInv, NEW zone \in Zones, NEW f
    PROVE  mttr(zone, f).excludedIncomplete = {}
<1>1. \A w \in RepairedIn(zone, f) : w \in WorkOrders /\ work[w] # None /\ work[w].status = "COMPLETED"
  BY DEF RepairedIn, OfType, CompletedIn, WithStatus, Reported
<1>2. \A w \in RepairedIn(zone, f) : ValidTimes(work[w])
  BY <1>1 DEF RowsInv, RowTimed, ValidTimes
<1>. QED
  BY <1>2 DEF mttr

\* What is on the timeline of an asset is at instants before it ends.
LEMMA LineTyped ==
    ASSUME RowsInv, NEW asset, NEW end \in Int, NEW x \in timeline(asset, end)
    PROVE  x.at \in Int /\ x.at < end /\ x.kind \in {0, 1}
<1>. DEFINE mine == {w \in OfType(Reported, "CORRECTIVE") : work[w].assetId = asset}
<1>1. \A w \in mine : w \in WorkOrders /\ work[w] # None
  BY DEF OfType, Reported
<1>. HIDE DEF mine
<1>2. CASE \E w \in WithStatus(mine, "COMPLETED") :
              work[w].completedAt < end /\ x = [at |-> work[w].completedAt, kind |-> 1, of |-> w]
  <2>1. PICK w \in WithStatus(mine, "COMPLETED") :
          work[w].completedAt < end /\ x = [at |-> work[w].completedAt, kind |-> 1, of |-> w]
    BY <1>2
  <2>2. w \in WorkOrders /\ work[w] # None /\ work[w].status = "COMPLETED"
    BY <1>1, <2>1 DEF WithStatus
  <2>3. work[w].completedAt \in Int
    BY <2>2 DEF RowsInv, RowTyped, RowTimed, Dates
  <2>. QED
    BY <2>1, <2>3
<1>3. CASE \E w \in mine :
              work[w].requestedAt < end /\ x = [at |-> work[w].requestedAt, kind |-> 0, of |-> w]
  BY <1>1, <1>3 DEF RowsInv, RowTyped
<1>. QED
  BY <1>2, <1>3 DEF timeline, mine

\* The last repair before a failure.
LEMMA LastRepair ==
    ASSUME RowsInv, NEW asset, NEW end \in Int, NEW e \in timeline(asset, end), e.kind = 0,
           Before(e, timeline(asset, end)) # {}
    PROVE  LET last == Max({d.at : d \in Before(e, timeline(asset, end))}) IN
           /\ last \in Int /\ last < e.at
           /\ \A d \in Before(e, timeline(asset, end)) : d.at <= last
<1>. DEFINE S == {d.at : d \in Before(e, timeline(asset, end))}
<1>1. \A d \in Before(e, timeline(asset, end)) : d.at \in Int /\ d.at < e.at
  BY LineTyped DEF Before, Precedes
<1>2. e.at \in Int
  BY LineTyped
<1>3. S \in SUBSET Int /\ S # {} /\ \A x \in S : x < e.at /\ x <= e.at
  BY <1>1, <1>2
<1>. HIDE DEF S
<1>4. Max(S) \in S /\ \A x \in S : x <= Max(S)
  BY <1>2, <1>3, MaxOfBounded
<1>. QED
  BY <1>3, <1>4 DEF S

\* Each interval is from the last repair to a failure.
LEMMA IntervalsAreSound ==
    ASSUME RowsInv, NEW zone \in Zones, NEW f \in Filters \cup {NoFilter}, NEW i \in intervals(zone, f)
    PROVE  /\ i.previousCompletedAt < i.at
           /\ \A w \in OfType(WithStatus(Reported, "COMPLETED"), "CORRECTIVE") :
               work[w].assetId = i.assetId =>
                   work[w].completedAt \notin i.previousCompletedAt + 1..i.at - 1
           /\ work[i.failure].status = "COMPLETED" => i.at <= work[i.failure].completedAt
<1>. DEFINE end == window(zone, f).toExclusive
<1>1. end \in Int /\ end # None
  BY WindowTyped DEF RowsInv
<1>2. PICK a, e :
        /\ e \in timeline(a, end)
        /\ e.kind = 0 /\ Before(e, timeline(a, end)) # {} /\ Within(window(zone, f), e.at)
        /\ i = [assetId |-> a, failure |-> e.of, at |-> e.at,
                previousCompletedAt |-> Max({d.at : d \in Before(e, timeline(a, end))})]
  <2>. DEFINE Pair(a, e) == [assetId |-> a, failure |-> e.of, at |-> e.at,
                previousCompletedAt |-> Max({d.at : d \in Before(e, timeline(a, end))})]
              Failures(a) == {x \in timeline(a, end) :
                x.kind = 0 /\ Before(x, timeline(a, end)) # {} /\ Within(window(zone, f), x.at)}
              Of(a) == {Pair(a, e) : e \in Failures(a)}
  <2>1. intervals(zone, f) = UNION {Of(a) : a \in IF f.assetId = None THEN Assets ELSE {f.assetId}}
    BY DEF intervals
  <2>2. PICK a : i \in Of(a)
    <3>. HIDE DEF Of
    <3>. QED
      BY <2>1
  <2>3. PICK e \in Failures(a) : i = Pair(a, e)
    BY <2>2
  <2>. QED
    BY <2>3
<1>. DEFINE line == timeline(a, end)
            last == Max({d.at : d \in Before(e, line)})
<1>3. /\ last \in Int /\ last < e.at
      /\ \A d \in Before(e, line) : d.at <= last
  BY <1>1, <1>2, LastRepair
<1>4. e.at \in Int /\ e.at < end
  BY <1>1, <1>2, LineTyped
<1>5. ASSUME NEW w \in OfType(WithStatus(Reported, "COMPLETED"), "CORRECTIVE"), work[w].assetId = a
      PROVE  work[w].completedAt \notin last + 1..e.at - 1
  <2>1. /\ w \in WorkOrders /\ work[w] # None /\ work[w].status = "COMPLETED"
        /\ work[w].type = "CORRECTIVE"
    BY DEF OfType, WithStatus, Reported
  <2>2. work[w].completedAt \in Int
    BY <2>1 DEF RowsInv, RowTyped, RowTimed, Dates
  <2>3. SUFFICES ASSUME work[w].completedAt < e.at
                 PROVE  work[w].completedAt <= last
    BY <1>3, <1>4, <2>2
  <2>. DEFINE d == [at |-> work[w].completedAt, kind |-> 1, of |-> w]
  <2>4. d \in line
    BY <1>1, <1>4, <1>5, <2>1, <2>2, <2>3 DEF timeline, OfType, WithStatus
  <2>5. d \in Before(e, line)
    BY <2>3, <2>4 DEF Before, Precedes
  <2>. QED
    BY <1>3, <2>5
<1>6. work[e.of].status = "COMPLETED" => e.at <= work[e.of].completedAt
  <2>1. \E w \in OfType(Reported, "CORRECTIVE") : e = [at |-> work[w].requestedAt, kind |-> 0, of |-> w]
    <3>1. \A w : [at |-> work[w].completedAt, kind |-> 1, of |-> w].kind # 0
      OBVIOUS
    <3>. QED
      BY <1>2, <3>1 DEF timeline
  <2>2. e.of \in WorkOrders /\ work[e.of] # None /\ e.at = work[e.of].requestedAt
    BY <2>1 DEF OfType, Reported
  <2>. QED
    BY <2>2 DEF RowsInv, RowTyped, RowTimed, Dates
<1>. HIDE DEF end
<1>. QED
  BY <1>2, <1>3, <1>5, <1>6

\* Every repair has a time to repair, and every time between failures is that
\* from the last repair of the asset to a failure after it
\* (lib/analytics/reliability.ts).
THEOREM RepairTimes == SiteSpec => []RepairTimesAreSound
<1>1. ASSUME RowsInv PROVE RepairTimesAreSound
  <2>. SUFFICES ASSUME NEW zone \in Zones, NEW f \in Filters \cup {NoFilter},
                       NEW reply \in GetReliability(zone, f)
                PROVE  /\ reply.mttr.excludedIncomplete = {}
                       /\ \A i \in reply.mtbf :
                           /\ i.previousCompletedAt < i.at
                           /\ \A w \in OfType(WithStatus(Reported, "COMPLETED"), "CORRECTIVE") :
                               work[w].assetId = i.assetId =>
                                   work[w].completedAt \notin i.previousCompletedAt + 1..i.at - 1
                           /\ work[i.failure].status = "COMPLETED" => i.at <= work[i.failure].completedAt
    BY DEF RepairTimesAreSound
  <2>1. reply.mttr = mttr(zone, f) /\ reply.mtbf = intervals(zone, f)
    BY DEF GetReliability, Reply, buildReliabilityDashboard
  <2>. QED
    BY <1>1, <2>1, RepairsCount, IntervalsAreSound
<1>. QED
  BY <1>1, RowsInvariant, PTL

---------------------------------------------------------------------------
(* The open work.                                                          *)

LEMMA OpenIsNotClosed ==
    ASSUME RowsInv
    PROVE  ActiveWork = NotClosed
<1>1. \A w \in Reported : work[w].status \in DOMAIN transitions
  BY DEF RowsInv, RowTyped, Reported
<1>. QED
  BY <1>1, Statuses DEF ActiveWork, NotClosed, OPEN_STATUSES

\* Without a filter the backlog is all that is open.
LEMMA WholeBacklog ==
    ASSUME RowsInv, NEW zone \in Zones
    PROVE  /\ openBacklogScope(zone, NoFilter) = NotClosed
           /\ exportBacklogCsv(zone, NoFilter) = {NotClosed}
<1>1. /\ NoFilter.from = None /\ NoFilter.to = None /\ NoFilter.assetId = None
      /\ resolveAnalyticsDateRange(zone, NoFilter).from = None
      /\ resolveAnalyticsDateRange(zone, NoFilter).toExclusive = None
  BY DEF NoFilter, resolveAnalyticsDateRange
<1>2. openBacklogScope(zone, NoFilter) = ActiveWork
  BY <1>1 DEF openBacklogScope, ActiveWork, OfAsset, Within
<1>3. RangeResolves(zone, NoFilter)
  BY <1>1 DEF RangeResolves
<1>. QED
  BY <1>2, <1>3, OpenIsNotClosed DEF exportBacklogCsv, Reply

\* The lanes divide the open work: under each heading they have the whole of it.
LEMMA LanesTogether ==
    /\ Lanes("total") = ActiveWork
    /\ Lanes("overdue") = OverdueIn(ActiveWork)
    /\ Lanes("dueSoon") = {w \in ActiveWork : Until(w, SoonDays)}
    /\ Lanes("unplanned") = UnplannedIn(ActiveWork)
    /\ Lanes("urgent") = UrgentIn(ActiveWork)
<1>. DEFINE Keys == {laneIdentity(w) : w \in ActiveWork}
            Lane(key) == {w \in ActiveWork : laneIdentity(w) = key}
            lanes == buildWorkloadLanes
<1>1. /\ DOMAIN lanes = Keys
      /\ \A key \in Keys :
           /\ lanes[key]["total"] = Lane(key)
           /\ lanes[key]["overdue"] = OverdueIn(Lane(key))
           /\ lanes[key]["dueSoon"] = {w \in Lane(key) : Until(w, SoonDays)}
           /\ lanes[key]["unplanned"] = UnplannedIn(Lane(key))
           /\ lanes[key]["urgent"] = UrgentIn(Lane(key))
  BY DEF buildWorkloadLanes
<1>2. \A heading : Lanes(heading) = UNION {lanes[key][heading] : key \in DOMAIN lanes}
  BY DEF Lanes
<1>3. \A w \in ActiveWork : laneIdentity(w) \in Keys /\ w \in Lane(laneIdentity(w))
  OBVIOUS
<1>4. \A key : Lane(key) \subseteq ActiveWork
  OBVIOUS
<1>. HIDE DEF lanes, Keys, Lane
<1>5. Lanes("total") = ActiveWork
  <2>1. Lanes("total") = UNION {Lane(key) : key \in Keys}
    BY <1>1, <1>2
  <2>. QED
    BY <1>3, <1>4, <2>1
<1>6. Lanes("overdue") = OverdueIn(ActiveWork)
  BY <1>1, <1>2, <1>3, <1>4 DEF OverdueIn
<1>7. Lanes("dueSoon") = {w \in ActiveWork : Until(w, SoonDays)}
  BY <1>1, <1>2, <1>3, <1>4
<1>8. Lanes("unplanned") = UnplannedIn(ActiveWork)
  BY <1>1, <1>2, <1>3, <1>4 DEF UnplannedIn
<1>9. Lanes("urgent") = UrgentIn(ActiveWork)
  BY <1>1, <1>2, <1>3, <1>4 DEF UrgentIn
<1>. QED
  BY <1>5, <1>6, <1>7, <1>8, <1>9

\* The board has every work order its query finds once more under its filter.
LEMMA BoardTogether ==
    ASSUME NEW filter
    PROVE  Board(filter) = {w \in buildWorkOrderBoardWhere(filter) :
                              work[w].status \in BoardStatuses /\ matchesDueFilter(w, filter)}
BY DEF Board, buildWorkOrderBoard

\* The pages count the same work.
LEMMA PagesAgree ==
    ASSUME RowsInv, NEW zone \in Zones, NEW backlog \in GetBacklog(zone, NoFilter)
    PROVE  OpenWorkAgrees(zone, backlog)
<1>1. /\ backlog.totalOpen = NotClosed /\ backlog.overdue = OverdueIn(NotClosed)
      /\ backlog.unplanned = UnplannedIn(NotClosed) /\ backlog.urgent = UrgentIn(NotClosed)
  BY WholeBacklog DEF GetBacklog, Reply, buildBacklogDashboard
<1>2. ActiveWork = NotClosed
  BY OpenIsNotClosed
<1>3. Board("ALL") = NotClosed \cup {w \in Reported : work[w].status = "COMPLETED"}
  <2>1. buildWorkOrderBoardWhere("ALL") = {w \in Reported : work[w].status \in BoardStatuses}
    BY DEF buildWorkOrderBoardWhere
  <2>2. \A w : matchesDueFilter(w, "ALL")
    BY DEF matchesDueFilter
  <2>3. Board("ALL") = {w \in Reported : work[w].status \in BoardStatuses}
    BY <2>1, <2>2, BoardTogether
  <2>. QED
    BY <1>2, <2>3 DEF ActiveWork, BoardStatuses
<1>4. Board("OVERDUE") = OverdueIn(NotClosed)
  <2>1. buildWorkOrderBoardWhere("OVERDUE") = OverdueIn(NotClosed)
    BY <1>2 DEF buildWorkOrderBoardWhere
  <2>2. \A w \in OverdueIn(NotClosed) : matchesDueFilter(w, "OVERDUE") /\ work[w].status \in BoardStatuses
    <3>1. \A w \in OverdueIn(NotClosed) : w \in ActiveWork /\ isWorkOrderOverdue(w)
      BY <1>2 DEF OverdueIn, isWorkOrderOverdue, NotClosed
    <3>. QED
      BY <3>1 DEF matchesDueFilter, ActiveWork, BoardStatuses
  <2>. QED
    BY <2>1, <2>2, BoardTogether
<1>5. Board("DUE_7_DAYS") = Lanes("dueSoon")
  <2>1. buildWorkOrderBoardWhere("DUE_7_DAYS") = {w \in ActiveWork : Until(w, SoonDays)}
    BY DEF buildWorkOrderBoardWhere
  <2>2. \A w \in ActiveWork : Until(w, SoonDays) =>
          matchesDueFilter(w, "DUE_7_DAYS") /\ work[w].status \in BoardStatuses
    <3>1. \A w \in ActiveWork : work[w].status \in OPEN_STATUSES
      BY DEF ActiveWork
    <3>. QED
      BY <3>1 DEF matchesDueFilter, OPEN_STATUSES, BoardStatuses
  <2>. QED
    BY <2>1, <2>2, BoardTogether, LanesTogether
<1>6. Forecast("OVERDUE") = Preventive(OverdueIn(NotClosed))
  <2>1. \A w \in NotClosed : work[w].dueAt \in Dates
    BY DEF NotClosed, Reported, RowsInv, RowTyped
  <2>2. \A w \in NotClosed : work[w].dueAt # None => (forecastState(w) = "OVERDUE" <=> work[w].dueAt < now)
    <3>. SUFFICES ASSUME NEW w \in NotClosed, work[w].dueAt # None
                  PROVE  forecastState(w) = "OVERDUE" <=> work[w].dueAt < now
      OBVIOUS
    <3>1. work[w].dueAt \in Int /\ now \in Int
      BY <2>1 DEF Dates, RowsInv
    <3>2. CASE work[w].dueAt < now
      BY <3>1, <3>2 DEF forecastState
    <3>3. CASE ~(work[w].dueAt < now)
      BY <3>1, <3>3 DEF forecastState
    <3>. QED
      BY <3>2, <3>3
  <2>. QED
    BY <2>2 DEF Forecast, Preventive, OverdueIn
<1>7. getPublicKpiCard.inProgress \subseteq ActiveWork
  BY DEF getPublicKpiCard, ActiveWork, OPEN_STATUSES
<1>. QED
  BY <1>1, <1>2, <1>3, <1>4, <1>5, <1>6, <1>7, WholeBacklog, LanesTogether
  DEF OpenWorkAgrees, buildNotificationCenter, getPublicKpiCard, Unscheduled

---------------------------------------------------------------------------
(* The open work and its owners.                                           *)

\* The owner of a work order decides whose lane it is in.
LEMMA LaneOfOwner ==
    ASSUME RowsInv, NEW w \in ActiveWork
    PROVE  /\ work[w].assigneeId # None => laneIdentity(w) = <<"PERSON", work[w].assigneeId>>
           /\ work[w].assigneeId = None /\ work[w].teamId # None =>
                laneIdentity(w) = <<"TEAM", work[w].teamId>>
           /\ work[w].assigneeId = None /\ work[w].teamId = None =>
                laneIdentity(w) = <<"UNASSIGNED", None>>
BY DEF laneIdentity

\* Work that is somebody's, or that of a team with members.
Owned(w) ==
    \/ work[w].assigneeId # None
    \/ work[w].assigneeId = None /\ work[w].teamId # None /\ Members[work[w].teamId] # {}

\* The owned work is what is on some personal dashboard.
LEMMA OwnedIsAssigned ==
    ASSUME RowsInv
    PROVE  \A w \in NotClosed : Owned(w) <=> \E u \in Users : w \in assignedWorkWhere(u)
<1>. SUFFICES ASSUME NEW w \in NotClosed
              PROVE  Owned(w) <=> \E u \in Users : w \in assignedWorkWhere(u)
  OBVIOUS
<1>1. work[w].assigneeId \in Users \cup {None} /\ work[w].teamId \in DOMAIN Members \cup {None}
  BY DEF NotClosed, Reported, RowsInv, RowTyped
<1>2. work[w].teamId # None => Members[work[w].teamId] \subseteq Users
  BY <1>1, TeamAssumption
<1>. QED
  BY <1>1, <1>2, SiteAssumption DEF Owned, assignedWorkWhere

\* Nobody's work is forgotten.
LEMMA OwnersSee ==
    ASSUME RowsInv
    PROVE  NobodyForgets
<1>. DEFINE lanes == buildWorkloadLanes
            Keys == {laneIdentity(w) : w \in ActiveWork}
            Lane(key) == {w \in ActiveWork : laneIdentity(w) = key}
            owned == {k \in DOMAIN lanes : k[1] = "PERSON" \/ (k[1] = "TEAM" /\ Members[k[2]] # {})}
            Ours == {w \in NotClosed : Owned(w)}
<1>1. ActiveWork = NotClosed
  BY OpenIsNotClosed
<1>2. /\ DOMAIN lanes = Keys
      /\ \A key \in Keys :
           /\ lanes[key]["total"] = Lane(key)
           /\ lanes[key]["overdue"] = OverdueIn(Lane(key))
           /\ lanes[key]["dueSoon"] = {w \in Lane(key) : Until(w, SoonDays)}
           /\ lanes[key]["urgent"] = UrgentIn(Lane(key))
  BY DEF buildWorkloadLanes
<1>3. \A w \in ActiveWork : laneIdentity(w) \in owned <=> Owned(w)
  <2>. SUFFICES ASSUME NEW w \in ActiveWork PROVE laneIdentity(w) \in owned <=> Owned(w)
    OBVIOUS
  <2>1. laneIdentity(w) \in DOMAIN lanes
    BY <1>2
  <2>2. laneIdentity(w) \in owned <=>
          \/ laneIdentity(w)[1] = "PERSON"
          \/ laneIdentity(w)[1] = "TEAM" /\ Members[laneIdentity(w)[2]] # {}
    BY <2>1
  <2>. HIDE DEF owned
  <2>. QED
    BY <2>2, LaneOfOwner DEF Owned
<1>4. /\ \A w \in Ours : laneIdentity(w) \in owned /\ w \in Lane(laneIdentity(w))
      /\ \A key \in owned : key \in Keys /\ Lane(key) \subseteq Ours
  BY <1>1, <1>2, <1>3
<1>5. \A w \in NotClosed : w \in Ours <=> \E u \in Users : w \in assignedWorkWhere(u)
  BY OwnedIsAssigned
<1>6. \A u \in Users : assignedWorkWhere(u) \subseteq NotClosed
  BY DEF assignedWorkWhere
<1>7. \A u \in Users : assignedWorkWhere(u) \subseteq TechnicianQueue(u)
  BY DEF assignedWorkWhere, TechnicianQueue
<1>8. \A u \in Users :
        /\ buildPersonalDashboard(u)["total"] = assignedWorkWhere(u)
        /\ buildPersonalDashboard(u)["overdue"] = OverdueIn(assignedWorkWhere(u))
        /\ buildPersonalDashboard(u)["dueSoon"] = {w \in assignedWorkWhere(u) : Until(w, SoonDays)}
        /\ buildPersonalDashboard(u)["urgent"] = UrgentIn(assignedWorkWhere(u))
  BY DEF buildPersonalDashboard
<1>9. \A heading : Personal(heading) = UNION {buildPersonalDashboard(u)[heading] : u \in Users}
  BY DEF Personal
<1>. HIDE DEF lanes, Keys, Lane, owned, Ours
<1>10. Personal("total") = Ours /\ UNION {lanes[key]["total"] : key \in owned} = Ours
  <2>1. Personal("total") = Ours
    BY <1>5, <1>6, <1>8, <1>9 DEF Ours
  <2>2. UNION {lanes[key]["total"] : key \in owned} = Ours
    BY <1>2, <1>4
  <2>. QED
    BY <2>1, <2>2
<1>11. Personal("overdue") = OverdueIn(Ours) /\ UNION {lanes[key]["overdue"] : key \in owned} = OverdueIn(Ours)
  <2>1. Personal("overdue") = OverdueIn(Ours)
    BY <1>5, <1>6, <1>8, <1>9 DEF Ours, OverdueIn
  <2>2. UNION {lanes[key]["overdue"] : key \in owned} = OverdueIn(Ours)
    BY <1>2, <1>4 DEF OverdueIn
  <2>. QED
    BY <2>1, <2>2
<1>12. /\ Personal("dueSoon") = {w \in Ours : Until(w, SoonDays)}
       /\ UNION {lanes[key]["dueSoon"] : key \in owned} = {w \in Ours : Until(w, SoonDays)}
  <2>1. Personal("dueSoon") = {w \in Ours : Until(w, SoonDays)}
    BY <1>5, <1>6, <1>8, <1>9 DEF Ours
  <2>2. UNION {lanes[key]["dueSoon"] : key \in owned} = {w \in Ours : Until(w, SoonDays)}
    BY <1>2, <1>4
  <2>. QED
    BY <2>1, <2>2
<1>13. Personal("urgent") = UrgentIn(Ours) /\ UNION {lanes[key]["urgent"] : key \in owned} = UrgentIn(Ours)
  <2>1. Personal("urgent") = UrgentIn(Ours)
    BY <1>5, <1>6, <1>8, <1>9 DEF Ours, UrgentIn
  <2>2. UNION {lanes[key]["urgent"] : key \in owned} = UrgentIn(Ours)
    BY <1>2, <1>4 DEF UrgentIn
  <2>. QED
    BY <2>1, <2>2
<1>. QED
  <2>1. \A heading \in {"total", "overdue", "dueSoon", "urgent"} :
          Personal(heading) = UNION {lanes[key][heading] : key \in owned}
    <3>1. SUFFICES ASSUME NEW heading \in {"total", "overdue", "dueSoon", "urgent"}
                   PROVE  Personal(heading) = UNION {lanes[key][heading] : key \in owned}
      OBVIOUS
    <3>2. CASE heading = "total"
      BY <1>10, <3>2
    <3>3. CASE heading = "overdue"
      BY <1>11, <3>3
    <3>4. CASE heading = "dueSoon"
      BY <1>12, <3>4
    <3>5. CASE heading = "urgent"
      BY <1>13, <3>5
    <3>. QED
      BY <3>2, <3>3, <3>4, <3>5
  <2>. QED
    BY <1>7, <2>1 DEF NobodyForgets, lanes, owned

---------------------------------------------------------------------------
(* Days on the clock.                                                      *)

\* Midnights are a day apart.
LEMMA Midnights ==
    /\ \A d \in Int : midnight(d) \in Int /\ midnight(d + 1) = midnight(d) + DayLength
    /\ \A d, e \in Int : d < e => midnight(d) + DayLength <= midnight(e)
<1>1. DayLength \in Nat /\ DayLength > 0
  BY DayLengthAssumption
<1>2. \A d \in Int : midnight(d) \in Int /\ midnight(d + 1) = midnight(d) + DayLength
  BY <1>1 DEF midnight
<1>3. ASSUME NEW d \in Int, NEW e \in Int, d < e
      PROVE  midnight(d) + DayLength <= midnight(e)
  <2>1. PICK n \in Nat : n = e - (d + 1)
    BY <1>3
  <2>2. n * DayLength \in Nat
    BY <1>1
  <2>3. (d + 1 + n) * DayLength = d * DayLength + DayLength + n * DayLength
    BY <1>1
  <2>4. e = d + 1 + n /\ d * DayLength \in Int
    BY <1>1, <2>1
  <2>. QED
    BY <1>1, <2>2, <2>3, <2>4 DEF midnight
<1>. QED
  BY <1>2, <1>3

\* A day is where its midnight and the next put it.
LEMMA DayOf ==
    ASSUME NEW t \in Int
    PROVE  /\ t \div DayLength \in Int
           /\ \A day \in Int : t \div DayLength = day <=> midnight(day) <= t /\ t < midnight(day + 1)
<1>1. DayLength \in Nat /\ DayLength > 0
  BY DayLengthAssumption
<1>2. /\ t % DayLength \in 0..DayLength - 1 /\ t \div DayLength \in Int
      /\ t = DayLength * (t \div DayLength) + (t % DayLength)
  BY <1>1
<1>. DEFINE q == t \div DayLength
<1>3. q \in Int /\ midnight(q) <= t /\ t < midnight(q) + DayLength
  BY <1>1, <1>2 DEF midnight
<1>. HIDE DEF q
<1>4. ASSUME NEW day \in Int, midnight(day) <= t, t < midnight(day + 1)
      PROVE  q = day
  <2>1. /\ midnight(day) \in Int /\ midnight(q) \in Int
        /\ midnight(day + 1) = midnight(day) + DayLength
        /\ q < day => midnight(q) + DayLength <= midnight(day)
        /\ day < q => midnight(day) + DayLength <= midnight(q)
    BY <1>3, Midnights
  <2>2. ~(q < day) /\ ~(day < q)
    BY <1>1, <1>3, <1>4, <2>1
  <2>. QED
    BY <1>3, <2>2
<1>5. midnight(q) <= t /\ t < midnight(q + 1)
  BY <1>3, Midnights
<1>. QED
  BY <1>2, <1>4, <1>5 DEF q

\* What the clock shows at two instants, and how far the instants are apart.
LEMMA ClockDrift ==
    ASSUME NEW zone \in Zones, NEW u \in Int, NEW v \in Int
    PROVE  /\ localTime(zone, u) \in Int
           /\ localTime(zone, v) - localTime(zone, u) \in v - u - DayLength..v - u + DayLength
BY ZoneTyped, DayLengthAssumption DEF localTime, offset

LEMMA KeyOf ==
    ASSUME NEW zone \in Zones, NEW u \in Int
    PROVE  /\ localDateKey(zone, u) \in Int
           /\ midnight(localDateKey(zone, u)) <= localTime(zone, u)
           /\ localTime(zone, u) < midnight(localDateKey(zone, u) + 1)
           /\ \A day \in Int : localDateKey(zone, u) = day <=>
                midnight(day) <= localTime(zone, u) /\ localTime(zone, u) < midnight(day + 1)
<1>1. localTime(zone, u) \in Int
  BY ClockDrift
<1>. QED
  BY <1>1, DayOf DEF localDateKey

\* Days that begin do so one after the other.
LEMMA DaysBeginInOrder ==
    ASSUME NEW zone \in Zones, NEW d \in Int, NEW e \in Int, d < e,
           Resolved(zone, d), Resolved(zone, e)
    PROVE  localDateStartUtc(zone, d) <= localDateStartUtc(zone, e)
<1>. DEFINE u == localDateStartUtc(zone, d)
            v == localDateStartUtc(zone, e)
<1>1. u \in Int /\ v \in Int
  BY StartOfDay
<1>2. /\ midnight(d) \in Int /\ midnight(e) \in Int
      /\ midnight(d) + DayLength <= midnight(e)
  BY Midnights
<1>3. localTime(zone, u) = midnight(d) /\ localTime(zone, v) = midnight(e)
  BY DEF Resolved
<1>. HIDE DEF u, v
<1>4. localTime(zone, v) - localTime(zone, u) <= v - u + DayLength
  BY <1>1, ClockDrift, DayLengthAssumption
<1>5. u <= v
  BY <1>1, <1>2, <1>3, <1>4, DayLengthAssumption
<1>. QED
  BY <1>5 DEF u, v

---------------------------------------------------------------------------
(* The backlog by age and by when it is due.                               *)

\* A dashboard is answered when the days it speaks of begin.
LEMMA BoundariesTyped ==
    ASSUME RowsInv, NEW zone \in Zones
    PROVE  /\ \A n \in Int : BoundaryDay(zone, n) \in Int /\ boundary(zone, n) \in Int
           /\ \A k \in 1..Len(Ages) : 1 - Ages[k] \in Int
<1>1. localDateKey(zone, now) \in Int
  BY KeyOf DEF RowsInv
<1>2. \A k \in 1..Len(Ages) : Ages[k] \in Nat
  BY ReportAssumption
<1>3. \A n \in Int : BoundaryDay(zone, n) \in Int
  BY <1>1 DEF BoundaryDay
<1>4. \A n \in Int : boundary(zone, n) \in Int
  BY <1>3, StartOfDay DEF boundary
<1>5. \A k \in 1..Len(Ages) : 1 - Ages[k] \in Int
  BY <1>2
<1>. QED
  BY <1>3, <1>4, <1>5

\* Every open work order is of one age.
LEMMA OneAge ==
    ASSUME RowsInv, NEW zone \in Zones, NEW backlog \in GetBacklog(zone, NoFilter)
    PROVE  AgesPartition(backlog)
<1>. DEFINE n == Len(Ages)
            b(k) == boundary(zone, 1 - Ages[k])
            class == aging(zone, NotClosed)
<1>1. backlog.totalOpen = NotClosed /\ backlog.aging = class /\ BacklogAnswered(zone, NoFilter)
  BY WholeBacklog DEF GetBacklog, Reply, buildBacklogDashboard
<1>2. n \in Nat /\ DOMAIN class = 1..n + 1
  BY ReportAssumption DEF aging
<1>3. \A k \in 1..n : b(k) \in Int
  BY BoundariesTyped
<1>4. \A j, k \in 1..n : j < k => b(k) <= b(j)
  <2>. SUFFICES ASSUME NEW j \in 1..n, NEW k \in 1..n, j < k
                PROVE  b(k) <= b(j)
    OBVIOUS
  <2>1. Resolved(zone, BoundaryDay(zone, 1 - Ages[j])) /\ Resolved(zone, BoundaryDay(zone, 1 - Ages[k]))
    BY <1>1 DEF BacklogAnswered
  <2>2. BoundaryDay(zone, 1 - Ages[k]) < BoundaryDay(zone, 1 - Ages[j])
    <3>1. Ages[j] \in Nat /\ Ages[k] \in Nat /\ Ages[j] < Ages[k] /\ localDateKey(zone, now) \in Int
      <4>1. Ages[j] \in Nat /\ Ages[k] \in Nat /\ Ages[j] < Ages[k]
        BY ReportAssumption
      <4>2. localDateKey(zone, now) \in Int
        BY KeyOf DEF RowsInv
      <4>. QED
        BY <4>1, <4>2
    <3>. QED
      BY <3>1 DEF BoundaryDay
  <2>3. BoundaryDay(zone, 1 - Ages[j]) \in Int /\ BoundaryDay(zone, 1 - Ages[k]) \in Int
    BY BoundariesTyped
  <2>. QED
    BY <2>1, <2>2, <2>3, DaysBeginInOrder DEF boundary
<1>5. \A w \in NotClosed : work[w].requestedAt \in Int /\ work[w].requestedAt <= now
  BY DEF NotClosed, Reported, RowsInv, RowTyped, RowTimed
<1>6. \A k \in 1..n + 1 : \A w : w \in class[k] <=>
        /\ w \in NotClosed
        /\ k <= n => b(k) <= work[w].requestedAt
        /\ IF k = 1 THEN work[w].requestedAt <= now ELSE work[w].requestedAt < b(k - 1)
  BY DEF aging
<1>. HIDE DEF class, b, n
<1>7. ASSUME NEW w \in NotClosed
      PROVE  \E k \in 1..n + 1 : w \in class[k]
  <2>. DEFINE S == {k \in 1..n : b(k) <= work[w].requestedAt}
  <2>1. CASE S = {}
    <3>1. n # 0 => ~(b(n) <= work[w].requestedAt) /\ b(n) \in Int
      BY <1>2, <1>3, <2>1
    <3>. QED
      BY <1>2, <1>5, <1>6, <3>1
  <2>2. CASE S # {}
    <3>1. S \in SUBSET Nat
      BY <1>2
    <3>2. PICK k \in S : \A j \in S : k <= j
      <4>. HIDE DEF S
      <4>. QED
        BY <2>2, <3>1, LeastOfNats
    <3>3. k # 1 => k - 1 \in 1..n /\ ~(b(k - 1) <= work[w].requestedAt)
      BY <1>2, <3>2
    <3>4. k # 1 => work[w].requestedAt < b(k - 1)
      BY <1>3, <1>5, <3>3
    <3>. QED
      BY <1>2, <1>5, <1>6, <3>2, <3>4
  <2>. QED
    BY <2>1, <2>2
<1>8. ASSUME NEW j \in 1..n + 1, NEW k \in 1..n + 1, j < k, NEW w \in class[j], w \in class[k]
      PROVE  FALSE
  <2>1. j \in 1..n /\ k - 1 \in 1..n /\ k # 1 /\ w \in NotClosed
    BY <1>2, <1>6, <1>8
  <2>2. b(j) <= work[w].requestedAt /\ work[w].requestedAt < b(k - 1)
    BY <1>6, <1>8, <2>1
  <2>3. b(k - 1) <= b(j)
    BY <1>2, <1>3, <1>4, <1>8, <2>1
  <2>. QED
    BY <1>3, <1>5, <2>1, <2>2, <2>3
<1>9. UNION {class[k] : k \in 1..n + 1} = NotClosed
  BY <1>6, <1>7
<1>10. \A j, k \in 1..n + 1 : j # k => class[j] \cap class[k] = {}
  <2>1. \A j, k \in 1..n + 1 : j # k => j < k \/ k < j
    BY <1>2
  <2>. QED
    BY <1>8, <2>1
<1>. QED
  BY <1>1, <1>2, <1>9, <1>10 DEF AgesPartition, Divides

\* The pages disagree on what is due soon only around one day.
LEMMA SoonOnThatDay ==
    ASSUME RowsInv, NEW zone \in Zones, NEW backlog \in GetBacklog(zone, NoFilter)
    PROVE  SoonAgrees(zone, backlog)
<1>. DEFINE day == BoundaryDay(zone, SoonDays)
            begins == localDateStartUtc(zone, day)
            later == now + SoonDays * DayLength
<1>1. /\ backlog.dueSoon = {w \in NotClosed : /\ work[w].dueAt # None /\ now <= work[w].dueAt
                                              /\ work[w].dueAt < begins}
      /\ Resolved(zone, day)
  BY WholeBacklog DEF GetBacklog, Reply, buildBacklogDashboard, BacklogAnswered, boundary
<1>2. Lanes("dueSoon") = {w \in NotClosed : /\ work[w].dueAt # None
                                            /\ now <= work[w].dueAt /\ work[w].dueAt <= later}
  BY LanesTogether, OpenIsNotClosed DEF Until
<1>3. now \in Int /\ SoonDays \in Nat /\ SoonDays * DayLength \in Int /\ later \in Int
  BY ReportAssumption, DayLengthAssumption DEF RowsInv
<1>4. day \in Int /\ begins \in Int /\ localTime(zone, begins) = midnight(day)
  BY <1>1, <1>3, BoundariesTyped DEF boundary, Resolved
<1>5. midnight(day) <= localTime(zone, now) + SoonDays * DayLength
      /\ localTime(zone, now) + SoonDays * DayLength < midnight(day) + DayLength
  <2>1. localDateKey(zone, now) \in Int /\ localTime(zone, now) \in Int
    BY <1>3, KeyOf, ClockDrift
  <2>2. midnight(day) = midnight(localDateKey(zone, now)) + SoonDays * DayLength
    BY <1>3, <2>1, DayLengthAssumption DEF midnight, BoundaryDay
  <2>3. /\ midnight(localDateKey(zone, now)) <= localTime(zone, now)
        /\ localTime(zone, now) < midnight(localDateKey(zone, now)) + DayLength
    BY <1>3, <2>1, KeyOf, Midnights
  <2>4. midnight(localDateKey(zone, now)) \in Int
    BY <2>1, Midnights
  <2>. HIDE DEF day
  <2>. QED
    BY <1>3, <2>1, <2>2, <2>3, <2>4, DayLengthAssumption
<1>. HIDE DEF day, begins, later
<1>6. ASSUME NEW w \in (backlog.dueSoon \ Lanes("dueSoon")) \cup (Lanes("dueSoon") \ backlog.dueSoon)
      PROVE  localDateKey(zone, work[w].dueAt) \in {day - 1, day, day + 1}
  <2>. DEFINE due == work[w].dueAt
  <2>1. w \in NotClosed /\ work[w].dueAt # None
    BY <1>1, <1>2
  <2>2. due \in Int
    BY <2>1 DEF NotClosed, Reported, RowsInv, RowTyped, Dates
  <2>3. (due < begins /\ later < due) \/ (begins <= due /\ due <= later)
    BY <1>1, <1>2, <1>3, <1>4, <2>1, <2>2
  <2>. HIDE DEF due
  <2>4. /\ localTime(zone, due) \in Int /\ localTime(zone, now) \in Int /\ localTime(zone, begins) \in Int
        /\ localTime(zone, due) - localTime(zone, begins) \in due - begins - DayLength..due - begins + DayLength
        /\ localTime(zone, due) - localTime(zone, now) \in due - now - DayLength..due - now + DayLength
    BY <1>3, <1>4, <2>2, ClockDrift
  <2>5. midnight(day) \in Int /\ DayLength \in Nat
    BY <1>4, Midnights, DayLengthAssumption
  <2>6. midnight(day) - DayLength <= localTime(zone, due) /\ localTime(zone, due) < midnight(day) + 2 * DayLength
    BY <1>3, <1>4, <1>5, <2>2, <2>3, <2>4, <2>5, DayLengthAssumption DEF later
  <2>7. /\ midnight(day - 1) = midnight(day) - DayLength /\ midnight(day + 1) = midnight(day) + DayLength
        /\ midnight(day + 1 + 1) = midnight(day) + 2 * DayLength
    BY <1>4, <2>5 DEF midnight
  <2>8. \/ localDateKey(zone, due) = day - 1 \/ localDateKey(zone, due) = day
        \/ localDateKey(zone, due) = day + 1
    <3>1. \A d \in Int : localDateKey(zone, due) = d <=>
            midnight(d) <= localTime(zone, due) /\ localTime(zone, due) < midnight(d + 1)
      BY <2>2, KeyOf
    <3>2. day - 1 + 1 = day
      BY <1>4
    <3>3. day - 1 \in Int /\ day \in Int /\ day + 1 \in Int
      BY <1>4
    <3>4. \/ midnight(day - 1) <= localTime(zone, due) /\ localTime(zone, due) < midnight(day - 1 + 1)
          \/ midnight(day) <= localTime(zone, due) /\ localTime(zone, due) < midnight(day + 1)
          \/ midnight(day + 1) <= localTime(zone, due) /\ localTime(zone, due) < midnight(day + 1 + 1)
      BY <2>4, <2>5, <2>6, <2>7, <3>2
    <3>. QED
      BY <3>1, <3>3, <3>4
  <2>. QED
    BY <2>8 DEF due
<1>. QED
  <2>1. \A x \in {day - 1, day, day + 1} : x \in {day + d : d \in {-1, 0, 1}}
    <3>1. day - 1 = day + (-1) /\ day = day + 0
      BY <1>4
    <3>. QED
      BY <3>1
  <2>2. \A w \in (backlog.dueSoon \ Lanes("dueSoon")) \cup (Lanes("dueSoon") \ backlog.dueSoon) :
          localDateKey(zone, work[w].dueAt) \in {day + d : d \in {-1, 0, 1}}
    BY <1>6, <2>1
  <2>. QED
    BY <2>2 DEF SoonAgrees, day

---------------------------------------------------------------------------
(* Reminders.                                                              *)

\* A run that is about to make a reminder has left none of its own of that work
\* order in force, whatever other runs have made since.
ClearedOfOwn ==
    \A r \in Runs : reminding[r].stage = "CLEARED" =>
        \A k \in Reminded("ACTIVE") :
            k.workOrder = reminding[r].key.workOrder /\ reminders[k].by = r => k = reminding[r].key

RemindInv ==
    /\ reminding = [r \in Runs |-> reminding[r]]
    /\ RemindedOnce
    /\ ClearedOfOwn

\* What brings no reminder into force.
Quiet ==
    \A k \in Reminded("ACTIVE")' : k \in Reminded("ACTIVE") /\ reminders'[k].by = reminders[k].by

LEMMA WithIsQuiet ==
    ASSUME NEW status, status # "ACTIVE", NEW keys, reminders' = With(status, keys)
    PROVE  Quiet /\ Reminded("ACTIVE")' \cap keys = {}
<1>1. SUFFICES ASSUME NEW k \in Reminded("ACTIVE")'
               PROVE  k \in Reminded("ACTIVE") /\ reminders'[k].by = reminders[k].by /\ k \notin keys
  BY DEF Quiet
<1>2. k \in DOMAIN reminders /\ reminders'[k].status = "ACTIVE"
  BY <1>1 DEF Reminded, With
<1>3. CASE k \in keys
  <2>1. reminders'[k] = [reminders[k] EXCEPT !.status = status]
    BY <1>2, <1>3 DEF With
  <2>. QED
    BY <1>2, <2>1
<1>4. CASE k \notin keys
  <2>1. reminders'[k] = reminders[k]
    BY <1>2, <1>4 DEF With
  <2>. QED
    BY <1>2, <1>4, <2>1 DEF Reminded
<1>. QED
  BY <1>3, <1>4

\* Steps that bring no reminder into force, and clear no run.
LEMMA QuietKeeps ==
    ASSUME RemindInv, Quiet, reminding' = [r \in Runs |-> reminding'[r]],
           \A r \in Runs : reminding'[r] = reminding[r] \/ reminding'[r].stage # "CLEARED"
    PROVE  RemindInv'
<1>1. RemindedOnce'
  BY DEF RemindInv, RemindedOnce, listActiveMaintenanceReminders, Quiet
<1>2. ClearedOfOwn'
  BY DEF RemindInv, ClearedOfOwn, Quiet
<1>. QED
  BY <1>1, <1>2 DEF RemindInv

LEMMA RemindInvKept ==
    ASSUME RemindInv, [SiteNext]_siteVars
    PROVE  RemindInv'
<1>1. CASE UNCHANGED reminderVars
  BY <1>1 DEF RemindInv, RemindedOnce, ClearedOfOwn, listActiveMaintenanceReminders, Reminded, reminderVars
<1>2. ASSUME NEW r \in Runs, NEW run, Goes(r, run), Quiet, run.stage # "CLEARED"
      PROVE  RemindInv'
  <2>1. reminding' = [reminding EXCEPT ![r] = run]
    BY <1>2 DEF Goes
  <2>2. /\ reminding' = [q \in Runs |-> reminding'[q]]
        /\ \A q \in Runs : reminding'[q] = IF q = r THEN run ELSE reminding[q]
    BY <2>1 DEF RemindInv
  <2>. QED
    BY <1>2, <2>2, QuietKeeps
<1>3. UNCHANGED reminders => Quiet
  BY DEF Quiet, Reminded
<1>4. ASSUME NEW r \in Runs, NEW lead, NEW at, ExpirePast(r, lead, at)
      PROVE  RemindInv'
  BY <1>2, <1>4, WithIsQuiet DEF ExpirePast
<1>5. ASSUME NEW r \in Runs, ListDue(r) \/ LookUp(r) \/ LeaveRun(r)
      PROVE  RemindInv'
  BY <1>2, <1>3, <1>5 DEF ListDue, LookUp, LeaveRun, Idle
<1>6. ASSUME NEW r \in Runs, ExpireOthers(r)
      PROVE  RemindInv'
  <2>. DEFINE key == reminding[r].key
              cleared == [reminding[r] EXCEPT !.stage = "CLEARED"]
  <2>1. reminders' = With("EXPIRED", Others(key)) /\ Goes(r, cleared)
    BY <1>6 DEF ExpireOthers
  <2>2. Quiet /\ Reminded("ACTIVE")' \cap Others(key) = {}
    BY <2>1, WithIsQuiet
  <2>3. cleared.key = key
    OBVIOUS
  <2>4. /\ reminding' = [q \in Runs |-> reminding'[q]]
        /\ \A q \in Runs : reminding'[q] = IF q = r THEN cleared ELSE reminding[q]
    BY <2>1 DEF Goes, RemindInv
  <2>. HIDE DEF key, cleared
  <2>5. RemindedOnce'
    BY <2>2 DEF RemindInv, RemindedOnce, listActiveMaintenanceReminders, Quiet
  <2>6. ClearedOfOwn'
    <3>1. ASSUME NEW q \in Runs, reminding'[q].stage = "CLEARED", NEW k \in Reminded("ACTIVE")',
                 k.workOrder = reminding'[q].key.workOrder, reminders'[k].by = q
          PROVE  k = reminding'[q].key
      <4>1. k \in Reminded("ACTIVE") /\ reminders[k].by = q /\ k \notin Others(key)
        BY <2>2, <3>1 DEF Quiet
      <4>2. CASE q = r
        BY <2>3, <2>4, <3>1, <4>1, <4>2 DEF Others
      <4>3. CASE q # r
        BY <2>4, <3>1, <4>1, <4>3 DEF RemindInv, ClearedOfOwn
      <4>. QED
        BY <4>2, <4>3
    <3>. QED
      BY <3>1 DEF ClearedOfOwn
  <2>. QED
    BY <2>4, <2>5, <2>6 DEF RemindInv
<1>7. ASSUME NEW r \in Runs, CreateReminder(r)
      PROVE  RemindInv'
  <2>. DEFINE key == reminding[r].key
              listed == [stage |-> "LISTED", due |-> reminding[r].due]
  <2>1. /\ reminding[r].stage = "CLEARED"
        /\ reminders' = [k \in DOMAIN reminders \cup {key} |->
              IF k \in DOMAIN reminders THEN reminders[k] ELSE [status |-> "ACTIVE", by |-> r]]
        /\ Goes(r, listed)
    BY <1>7 DEF CreateReminder
  <2>2. listed.stage # "CLEARED"
    OBVIOUS
  <2>3. /\ reminding' = [q \in Runs |-> reminding'[q]]
        /\ \A q \in Runs : reminding'[q] = IF q = r THEN listed ELSE reminding[q]
    BY <2>1 DEF Goes, RemindInv
  <2>. HIDE DEF key, listed
  <2>4. ASSUME NEW k \in Reminded("ACTIVE")'
        PROVE  \/ k \in Reminded("ACTIVE") /\ reminders'[k].by = reminders[k].by
               \/ k = key /\ reminders'[k].by = r
    BY <2>1, <2>4 DEF Reminded
  <2>5. \A k \in Reminded("ACTIVE") : k.workOrder = key.workOrder /\ reminders[k].by = r => k = key
    BY <2>1 DEF RemindInv, ClearedOfOwn, key
  <2>6. RemindedOnce'
    <3>1. ASSUME NEW j \in Reminded("ACTIVE")', NEW k \in Reminded("ACTIVE")',
                 j.workOrder = k.workOrder, reminders'[j].by = reminders'[k].by
          PROVE  j = k
      BY <2>4, <2>5, <3>1 DEF RemindInv, RemindedOnce, listActiveMaintenanceReminders
    <3>. QED
      BY <3>1 DEF RemindedOnce, listActiveMaintenanceReminders
  <2>7. ClearedOfOwn'
    <3>1. ASSUME NEW q \in Runs, reminding'[q].stage = "CLEARED", NEW k \in Reminded("ACTIVE")',
                 k.workOrder = reminding'[q].key.workOrder, reminders'[k].by = q
          PROVE  k = reminding'[q].key
      <4>1. q # r /\ reminding'[q] = reminding[q]
        BY <2>2, <2>3, <3>1
      <4>2. k \in Reminded("ACTIVE") /\ reminders[k].by = q
        BY <2>4, <3>1, <4>1
      <4>. QED
        BY <3>1, <4>1, <4>2 DEF RemindInv, ClearedOfOwn
    <3>. QED
      BY <3>1 DEF ClearedOfOwn
  <2>. QED
    BY <2>3, <2>6, <2>7 DEF RemindInv
<1>8. CASE DismissStep
  <2>1. PICK k : reminders' = With("DISMISSED", {k}) /\ reminding' = reminding
    BY <1>8 DEF DismissStep, dismissMaintenanceReminder
  <2>2. Quiet
    BY <2>1, WithIsQuiet
  <2>. QED
    BY <2>1, <2>2, QuietKeeps DEF RemindInv
<1>9. CASE ReminderStep
  BY <1>4, <1>5, <1>6, <1>7, <1>9 DEF ReminderStep
<1>10. CASE WorkStep
  BY <1>1, <1>10 DEF WorkStep, createWorkOrder, generateOccurrence, New, patchWorkOrder,
       recordExecution, consumePart
<1>. QED
  BY <1>1, <1>8, <1>9, <1>10 DEF SiteNext, BulkStep, bulkTriageWorkOrders, ArchiveStep, archiveAsset,
       CapacityStep, setLaborCapacityProfile, disableLaborCapacityProfile, Wait, siteVars

\* The backlog, the lanes, the board, the personal dashboards, the notification
\* center, the public card and the forecast count the same open work, and no
\* work order is reminded of twice but by runs that overlap
\* (lib/analytics/backlog.ts and its likes, lib/maintenance/reminders.ts).
THEOREM PagesOfOpenWorkAgree == SiteSpec => []ReportsAgree
<1>1. SiteInit => RemindInv
  BY DEF SiteInit, RemindInv, RemindedOnce, ClearedOfOwn, listActiveMaintenanceReminders, Reminded, Idle
<1>2. RemindInv /\ [SiteNext]_siteVars => RemindInv'
  BY RemindInvKept
<1>3. RowsInv /\ RemindInv => ReportsAgree
  BY PagesAgree, OneAge, SoonOnThatDay, OwnersSee DEF ReportsAgree, RemindInv
<1>. QED
  BY <1>1, <1>2, <1>3, RowsInvariant, PTL DEF SiteSpec

---------------------------------------------------------------------------
(* The planning calendar.                                                  *)

\* The range that is searched holds every instant of the days of a page.
LEMMA RangeHoldsItsDays ==
    ASSUME NEW zone \in Zones, NEW first \in Int, NEW day \in buildCalendarGrid(first), NEW t \in Int,
           localDateKey(zone, t) = day
    PROVE  calendarSearchRange(first).start <= t /\ t <= calendarSearchRange(first).end
<1>1. day \in Int /\ first <= day /\ day + 1 <= first + GridDays /\ first + GridDays \in Int
  BY ReportAssumption DEF buildCalendarGrid
<1>2. /\ midnight(first) <= midnight(day) /\ midnight(day + 1) <= midnight(first + GridDays)
      /\ midnight(first) \in Int /\ midnight(first + GridDays) \in Int
      /\ midnight(day) \in Int /\ midnight(day + 1) \in Int
  <2>1. first = day \/ midnight(first) + DayLength <= midnight(day)
    BY <1>1, Midnights
  <2>2. day + 1 = first + GridDays \/ midnight(day + 1) + DayLength <= midnight(first + GridDays)
    BY <1>1, Midnights
  <2>3. /\ midnight(first) \in Int /\ midnight(first + GridDays) \in Int
        /\ midnight(day) \in Int /\ midnight(day + 1) \in Int
    BY <1>1, Midnights
  <2>. QED
    BY <2>1, <2>2, <2>3, DayLengthAssumption
<1>3. midnight(day) <= localTime(zone, t) /\ localTime(zone, t) < midnight(day + 1)
  BY <1>1, KeyOf
<1>4. localTime(zone, t) - t \in -Margin..Margin /\ localTime(zone, t) \in Int /\ Margin \in Nat
  <2>1. offset(zone, t) \in Int /\ offset(zone, t) \in {zone.before, zone.after}
    BY ZoneTyped DEF offset
  <2>2. Margin \in Nat /\ offset(zone, t) \in -Margin..Margin
    BY <2>1, ZoneTyped, ReportAssumption
  <2>3. localTime(zone, t) - t = offset(zone, t)
    BY <2>1 DEF localTime
  <2>. QED
    BY <2>1, <2>2, <2>3 DEF localTime
<1>. QED
  BY <1>2, <1>3, <1>4 DEF calendarSearchRange

\* A page of the calendar shows on each day what is planned or due on it, in
\* every time zone (lib/maintenance/planning-calendar.ts).
LEMMA PagesShowTheirDays ==
    ASSUME RowsInv, NEW zone \in Zones
    PROVE  CalendarShowsWhatIsPlanned(zone)
<1>. SUFFICES ASSUME NEW first \in Pages, NEW day \in buildCalendarGrid(first), NEW w \in Reported
              PROVE  LET page == buildPlanningCalendar(zone, first)
                         r == work[w] IN
                     /\ w \in page[day].planned <=> r.status # "CANCELLED" /\ OnDay(zone, r.plannedStart, day)
                     /\ w \in page[day].due <=> r.status # "CANCELLED" /\ OnDay(zone, r.dueAt, day)
  BY DEF CalendarShowsWhatIsPlanned
<1>1. first \in Int
  BY ReportAssumption
<1>2. work[w].plannedStart \in Dates /\ work[w].dueAt \in Dates
  BY DEF Reported, RowsInv, RowTyped
<1>3. \A t \in Dates : OnDay(zone, t, day) =>
        t # None /\ calendarSearchRange(first).start <= t /\ t <= calendarSearchRange(first).end
  BY <1>1, RangeHoldsItsDays DEF OnDay, Dates
<1>4. work[w].status # "CANCELLED" /\ (OnDay(zone, work[w].plannedStart, day) \/ OnDay(zone, work[w].dueAt, day))
        => w \in SearchedWork(first)
  BY <1>2, <1>3 DEF SearchedWork
<1>5. w \in SearchedWork(first) => work[w].status # "CANCELLED"
  BY DEF SearchedWork
<1>6. LET page == buildPlanningCalendar(zone, first) IN
      /\ w \in page[day].planned <=> w \in SearchedWork(first) /\ OnDay(zone, work[w].plannedStart, day)
      /\ w \in page[day].due <=> w \in SearchedWork(first) /\ OnDay(zone, work[w].dueAt, day)
  BY DEF buildPlanningCalendar
<1>. QED
  BY <1>4, <1>5, <1>6

---------------------------------------------------------------------------
(* The days of a report.                                                   *)

\* The guesses come to the instant a day begins at, if the clock shows its
\* midnight at all.
LEMMA ShownDaysBegin ==
    ASSUME NEW zone \in Zones, NEW day \in Int
    PROVE  Resolved(zone, day) <=> Shown(zone, midnight(day))
<1>1. midnight(day) \in Int
  BY StartOfDay
<1>. DEFINE m == midnight(day)
            a == m - zone.before
            b == m - zone.after
            start == localDateStartUtc(zone, day)
<1>. HIDE DEF m
<1>2. m \in Int /\ zone.change \in Int /\ zone.before \in Int /\ zone.after \in Int
  BY <1>1, ZoneTyped DEF m
<1>3. \A g \in Int : Corrected(zone, m, g) = IF g < zone.change THEN a ELSE b
  BY <1>2 DEF Corrected, localTime, offset
<1>4. /\ start \in {a, b}
      /\ a < zone.change \/ b >= zone.change =>
             (start = a /\ a < zone.change) \/ (start = b /\ b >= zone.change)
  BY <1>2, <1>3 DEF localDateStartUtc, m
<1>5. Shown(zone, m) <=> a < zone.change \/ b >= zone.change
  BY <1>2 DEF Shown, localTime, offset
<1>6. localTime(zone, start) = m <=> (start = a /\ a < zone.change) \/ (start = b /\ b >= zone.change)
  BY <1>2, <1>4 DEF localTime, offset
<1>. HIDE DEF start, a, b
<1>7. localTime(zone, start) = m <=> Shown(zone, m)
  BY <1>4, <1>5, <1>6
<1>. QED
  BY <1>7 DEF Resolved, start, m

\* A day the clock begins once begins where the days before it end.
LEMMA ClearDay ==
    ASSUME NEW zone \in Zones, NEW day \in Int, BeginsOnce(zone, day)
    PROVE  /\ Resolved(zone, day)
           /\ \A t \in Int : localDateStartUtc(zone, day) <= t <=> day <= localDateKey(zone, t)
<1>. DEFINE m == midnight(day)
            start == localDateStartUtc(zone, day)
<1>1. Resolved(zone, day)
  BY ShownDaysBegin DEF BeginsOnce, Shown
<1>2. m \in Int /\ start \in Int /\ start \in {m - zone.before, m - zone.after} /\ localTime(zone, start) = m
  BY <1>1, StartOfDay DEF Resolved
<1>3. zone.change \in Int /\ zone.before \in Int /\ zone.after \in Int
  BY ZoneTyped
<1>4. zone.before # zone.after =>
        localTime(zone, m - zone.before) # m \/ localTime(zone, m - zone.after) # m
  BY DEF BeginsOnce
<1>. HIDE DEF m, start
<1>5. ASSUME NEW t \in Int
      PROVE  start <= t <=> m <= localTime(zone, t)
  BY <1>2, <1>3, <1>4 DEF localTime, offset
<1>6. ASSUME NEW t \in Int
      PROVE  m <= localTime(zone, t) <=> day <= localDateKey(zone, t)
  <2>. DEFINE key == localDateKey(zone, t)
  <2>1. /\ key \in Int /\ localTime(zone, t) \in Int
        /\ midnight(key) <= localTime(zone, t) /\ localTime(zone, t) < midnight(key) + DayLength
    <3>1. key \in Int /\ localTime(zone, t) \in Int
      BY KeyOf, ClockDrift
    <3>2. midnight(key) <= localTime(zone, t) /\ localTime(zone, t) < midnight(key + 1)
      BY KeyOf
    <3>. QED
      BY <3>1, <3>2, Midnights
  <2>. HIDE DEF key
  <2>2. /\ midnight(key) \in Int
        /\ day < key => m + DayLength <= midnight(key)
        /\ key < day => midnight(key) + DayLength <= m
        /\ key = day => m = midnight(key)
    BY <2>1, Midnights DEF m
  <2>3. key < day \/ key = day \/ day < key
    BY <2>1
  <2>4. m <= localTime(zone, t) <=> day <= key
    BY <1>2, <2>1, <2>2, <2>3, DayLengthAssumption
  <2>. QED
    BY <2>4 DEF key
<1>. QED
  BY <1>1, <1>5, <1>6 DEF start

\* Days that begin do not begin at one instant.
LEMMA DaysBeginApart ==
    ASSUME NEW zone \in Zones, NEW d \in Int, NEW e \in Int, d < e,
           Resolved(zone, d), Resolved(zone, e)
    PROVE  localDateStartUtc(zone, d) < localDateStartUtc(zone, e)
<1>1. localDateStartUtc(zone, d) <= localDateStartUtc(zone, e)
  BY DaysBeginInOrder
<1>2. localDateStartUtc(zone, d) # localDateStartUtc(zone, e)
  <2>1. midnight(d) + DayLength <= midnight(e) /\ midnight(d) \in Int /\ midnight(e) \in Int
    BY Midnights
  <2>2. midnight(d) # midnight(e)
    BY <2>1, DayLengthAssumption
  <2>. QED
    BY <2>2 DEF Resolved
<1>. QED
  BY <1>1, <1>2, StartOfDay

\* The days of a filter.
LEMMA FilterDays ==
    ASSUME NEW f \in Filters
    PROVE  /\ f.from \in Int /\ f.to \in Int /\ f.from # None /\ f.to # None
           /\ f.from + MaxRangeDays \in Int /\ f.to + 1 \in Int
BY AnalyticsAssumption, SiteAssumption

\* A report is refused for its days only for a midnight that is skipped, or when
\* they are too many.
LEMMA RefusalsAreForDays ==
    ASSUME NEW zone \in Zones, NEW f \in Filters
    PROVE  RefusedForSkipped(zone, f)
<1>1. /\ f.from \in Int /\ f.to \in Int /\ f.from # None /\ f.to # None
      /\ f.from + MaxRangeDays \in Int /\ f.to + 1 \in Int
  BY FilterDays
<1>2. RangeResolves(zone, f) <=>
        f.from <= f.to /\ \A day \in {f.from, f.to + 1} : Shown(zone, midnight(day))
  BY <1>1, ShownDaysBegin DEF RangeResolves
<1>. DEFINE end == f.from + MaxRangeDays
<1>3. ASSUME RangeResolves(zone, f), Shown(zone, midnight(end))
      PROVE  LimitAnswered(zone, f) <=> f.to < end
  <2>1. Resolved(zone, end) /\ Resolved(zone, f.to + 1)
    BY <1>1, <1>3, ShownDaysBegin DEF RangeResolves
  <2>2. LimitAnswered(zone, f) <=> localDateStartUtc(zone, f.to + 1) <= localDateStartUtc(zone, end)
    BY <1>1, <2>1 DEF LimitAnswered, resolveAnalyticsDateRange
  <2>3. localDateStartUtc(zone, f.to + 1) \in Int /\ localDateStartUtc(zone, end) \in Int
    BY <1>1, StartOfDay
  <2>4. CASE f.to < end
    <3>1. f.to + 1 = end \/ f.to + 1 < end
      BY <1>1, <2>4
    <3>. QED
      BY <1>1, <2>1, <2>2, <2>3, <2>4, <3>1, DaysBeginInOrder
  <2>5. CASE ~(f.to < end)
    <3>1. end < f.to + 1
      BY <1>1, <2>5
    <3>2. localDateStartUtc(zone, end) < localDateStartUtc(zone, f.to + 1)
      BY <1>1, <2>1, <3>1, DaysBeginApart
    <3>. QED
      BY <2>2, <2>3, <2>5, <3>2
  <2>. QED
    BY <2>4, <2>5
<1>. QED
  BY <1>2, <1>3 DEF RefusedForSkipped

\* The range of a filter whose days begin once holds the instants of its days,
\* and the window of a report those of them that are past.
LEMMA RangeIsItsDays ==
    ASSUME now \in Int, NEW zone \in Zones, NEW f \in Filters, ClearDays(zone, f), NEW t \in Int
    PROVE  /\ Within(resolveAnalyticsDateRange(zone, f), t) <=> OnDays(zone, f, t)
           /\ Within(window(zone, f), t) <=> InDays(zone, f, t)
<1>. DEFINE from == localDateStartUtc(zone, f.from)
            end == localDateStartUtc(zone, f.to + 1)
<1>1. f.from \in Int /\ f.to \in Int /\ f.to + 1 \in Int /\ f.from # None /\ f.to # None
  BY FilterDays
<1>2. from \in Int /\ end \in Int /\ from # None /\ end # None /\ now # None
  BY <1>1, StartOfDay, SiteAssumption
<1>3. (from <= t <=> f.from <= localDateKey(zone, t)) /\ (end <= t <=> f.to + 1 <= localDateKey(zone, t))
  BY <1>1, ClearDay DEF ClearDays
<1>4. localDateKey(zone, t) \in Int
  BY KeyOf
<1>5. OnDays(zone, f, t) <=> from <= t /\ t < end
  <2>1. t < end <=> localDateKey(zone, t) <= f.to
    BY <1>1, <1>2, <1>3, <1>4
  <2>. HIDE DEF from, end
  <2>. QED
    BY <1>1, <1>3, <2>1 DEF OnDays
<1>6. resolveAnalyticsDateRange(zone, f) = [from |-> from, toExclusive |-> end]
  BY <1>1 DEF resolveAnalyticsDateRange
<1>. HIDE DEF from, end
<1>7. window(zone, f) = [from |-> from, toExclusive |-> Earlier(end, now)]
  BY <1>2, <1>6 DEF window
<1>8. Earlier(end, now) \in Int /\ Earlier(end, now) # None /\ (t < Earlier(end, now) <=> t < end /\ t < now)
  BY <1>2 DEF Earlier
<1>. QED
  BY <1>2, <1>5, <1>6, <1>7, <1>8 DEF Within, InDays

---------------------------------------------------------------------------
(* What the reports of some days have.                                     *)

\* The lines of parts.
Line == [workOrder: WorkOrders, createdAt: Int, unitCost: Costs \cup {None}]

LinesInv == consumed \in Seq(Line)

LEMMA LinesKept ==
    ASSUME RowsInv, LinesInv, [SiteNext]_siteVars
    PROVE  LinesInv'
<1>1. CASE consumed' = consumed
  BY <1>1 DEF LinesInv
<1>2. CASE WorkStep
  <2>1. ASSUME NEW w \in WorkOrders, NEW cost \in Costs \cup {None}, consumePart(w, cost)
        PROVE  LinesInv'
    <3>1. [workOrder |-> w, createdAt |-> now, unitCost |-> cost] \in Line
      BY DEF RowsInv, Line
    <3>. QED
      BY <2>1, <3>1 DEF consumePart, LinesInv
  <2>. QED
    BY <1>1, <1>2, <2>1 DEF WorkStep, createWorkOrder, generateOccurrence, New, patchWorkOrder, recordExecution
<1>. QED
  BY <1>1, <1>2 DEF SiteNext, BulkStep, bulkTriageWorkOrders, ArchiveStep, archiveAsset,
       CapacityStep, setLaborCapacityProfile, disableLaborCapacityProfile, ReminderStep,
       ExpirePast, ListDue, LookUp, ExpireOthers, CreateReminder, LeaveRun, Goes, DismissStep, dismissMaintenanceReminder, Wait, siteVars

\* The last instant before the day after the last.
LEMMA LastOfDays ==
    ASSUME NEW zone \in Zones, NEW day \in Int, BeginsOnce(zone, day + 1), Passes(zone, day)
    PROVE  localDateKey(zone, localDateStartUtc(zone, day + 1) - 1) = day
<1>. DEFINE end == localDateStartUtc(zone, day + 1)
<1>1. end \in Int /\ localTime(zone, end) = midnight(day + 1)
  BY StartOfDay, ClearDay DEF Resolved
<1>2. ~(day + 1 <= localDateKey(zone, end - 1))
  BY <1>1, ClearDay
<1>3. midnight(day) <= localTime(zone, end - 1)
  <2>1. midnight(day) \in Int /\ midnight(day + 1) = midnight(day) + DayLength
    BY Midnights
  <2>2. zone.change \in Int /\ zone.before \in Int /\ zone.after \in Int
    BY ZoneTyped
  <2>. HIDE DEF end
  <2>. QED
    BY <1>1, <2>1, <2>2, DayLengthAssumption DEF Passes, localTime, offset
<1>. HIDE DEF end
<1>4. localDateKey(zone, end - 1) \in Int /\ localTime(zone, end - 1) \in Int
  BY <1>1, KeyOf, ClockDrift
<1>5. localTime(zone, end - 1) < midnight(day + 1)
  <2>. DEFINE key == localDateKey(zone, end - 1)
  <2>1. localTime(zone, end - 1) < midnight(key + 1)
    BY <1>1, KeyOf
  <2>2. key + 1 = day + 1 \/ midnight(key + 1) + DayLength <= midnight(day + 1)
    BY <1>2, <1>4, Midnights
  <2>3. midnight(key + 1) \in Int /\ midnight(day + 1) \in Int
    BY <1>4, Midnights
  <2>. HIDE DEF key
  <2>. QED
    BY <1>4, <2>1, <2>2, <2>3, DayLengthAssumption
<1>. QED
  BY <1>1, <1>3, <1>5, KeyOf DEF end

\* Capacity is that of the weekdays that have begun.
LEMMA CapacityOfBegunDays ==
    ASSUME RowsInv, NEW zone \in Zones, NEW f \in Filters, RangeResolves(zone, f), ClearDays(zone, f),
           Passes(zone, f.to)
    PROVE  buildLaborUtilization(zone, f).businessDays =
             Cardinality({day \in f.from..f.to : IsWeekday(day) /\ day <= localDateKey(zone, now - 1)})
<1>. DEFINE from == localDateStartUtc(zone, f.from)
            end == localDateStartUtc(zone, f.to + 1)
            stop == Earlier(end, now)
            key(t) == localDateKey(zone, t)
<1>1. f.from \in Int /\ f.to \in Int /\ f.to + 1 \in Int /\ f.from # None /\ f.to # None
  BY FilterDays
<1>2. from \in Int /\ end \in Int /\ from # None /\ end # None /\ now \in Int
  BY <1>1, StartOfDay, SiteAssumption DEF RowsInv
<1>3. \A t \in Int : /\ from <= t <=> f.from <= key(t)
                     /\ end <= t <=> f.to + 1 <= key(t)
                     /\ key(t) \in Int
  BY <1>1, ClearDay, KeyOf DEF ClearDays
<1>4. key(end - 1) = f.to
  BY <1>1, LastOfDays DEF ClearDays
<1>5. from < end
  BY <1>1, DaysBeginApart DEF RangeResolves
<1>6. window(zone, f).from = from /\ window(zone, f).toExclusive = stop
  BY <1>1, <1>2 DEF window, resolveAnalyticsDateRange
<1>7. stop \in Int /\ ((stop = end /\ end <= now) \/ (stop = now /\ now < end))
  BY <1>2 DEF Earlier
<1>8. buildLaborUtilization(zone, f).businessDays =
        IF from < stop THEN countWeekdaysInclusive(f.from, lastCapacityDay(zone, f)) ELSE 0
  BY <1>6 DEF buildLaborUtilization
<1>. HIDE DEF from, end, stop, key
<1>9. CASE from < stop
  <2>1. lastCapacityDay(zone, f) = key(stop - 1)
    <3>1. (IF stop - 1 > from THEN stop - 1 ELSE from) = stop - 1
      BY <1>2, <1>7, <1>9
    <3>. QED
      BY <1>6, <3>1 DEF lastCapacityDay, key
  <2>2. \A day \in Int : f.from <= day /\ day <= key(stop - 1) <=>
                         f.from <= day /\ day <= f.to /\ day <= key(now - 1)
    <3>1. CASE stop = end /\ end < now
      <4>1. f.to + 1 <= key(now - 1)
        BY <1>2, <1>3, <3>1
      <4>. QED
        BY <1>1, <1>2, <1>3, <1>4, <3>1, <4>1
    <3>2. CASE stop = end /\ end = now
      BY <1>1, <1>2, <1>3, <1>4, <3>2
    <3>3. CASE stop = now /\ now < end
      <4>1. ~(f.to + 1 <= key(now - 1)) /\ key(now - 1) \in Int
        BY <1>2, <1>3, <3>3
      <4>. QED
        BY <1>1, <3>3, <4>1
    <3>. QED
      BY <1>2, <1>7, <3>1, <3>2, <3>3
  <2>3. {day \in f.from..key(stop - 1) : IsWeekday(day)} =
        {day \in f.from..f.to : IsWeekday(day) /\ day <= key(now - 1)}
    <3>1. key(stop - 1) \in Int
      BY <1>2, <1>3, <1>7
    <3>. QED
      BY <1>1, <2>2, <3>1
  <2>. QED
    BY <1>8, <1>9, <2>1, <2>3 DEF countWeekdaysInclusive, key
<1>10. CASE ~(from < stop)
  <2>1. ~(from <= now - 1)
    BY <1>2, <1>5, <1>7, <1>10
  <2>2. key(now - 1) \in Int /\ ~(f.from <= key(now - 1))
    BY <1>2, <1>3, <2>1
  <2>3. {day \in f.from..f.to : IsWeekday(day) /\ day <= key(now - 1)} = {}
    BY <1>1, <2>2
  <2>. QED
    BY <1>8, <1>10, <2>3, FS_EmptySet DEF key
<1>. QED
  BY <1>9, <1>10

\* Quotients are in the order of what is divided.
LEMMA QuotientsInOrder ==
    ASSUME NEW a \in Int, NEW b \in Int, a <= b
    PROVE  a \div MonthDays \in Int /\ b \div MonthDays \in Int /\ a \div MonthDays <= b \div MonthDays
<1>1. MonthDays \in Nat /\ MonthDays > 0
  BY AnalyticsAssumption
<1>. DEFINE p == a \div MonthDays
            q == b \div MonthDays
<1>2. /\ p \in Int /\ a % MonthDays \in 0..MonthDays - 1 /\ a = MonthDays * p + (a % MonthDays)
      /\ q \in Int /\ b % MonthDays \in 0..MonthDays - 1 /\ b = MonthDays * q + (b % MonthDays)
  BY <1>1
<1>3. MonthDays * p \in Int /\ MonthDays * q \in Int /\ MonthDays * p < MonthDays * q + MonthDays
  BY <1>1, <1>2
<1>. HIDE DEF p, q
<1>4. SUFFICES ASSUME q < p PROVE FALSE
  BY <1>2 DEF p, q
<1>5. PICK n \in Nat : p = q + 1 + n
  <2>1. p - (q + 1) \in Nat /\ p = q + 1 + (p - (q + 1))
    BY <1>2, <1>4
  <2>. QED
    BY <2>1
<1>6. MonthDays * p = MonthDays * q + MonthDays + MonthDays * n /\ MonthDays * n \in Nat
  BY <1>1, <1>2, <1>5
<1>. QED
  BY <1>1, <1>3, <1>6

\* Each report has what happened on its days, and nothing else.
LEMMA ReportsHaveTheirDays ==
    ASSUME RowsInv, LinesInv, NEW zone \in Zones, NEW f \in Filters, ClearDays(zone, f)
    PROVE  CoversDays(zone, f)
<1>. DEFINE Ours(w, t) == OfAsset(f, w) /\ t # None /\ InDays(zone, f, t)
<1>1. f.from \in Int /\ f.to \in Int /\ f.from # None /\ f.to # None
  BY FilterDays
<1>2. \A t \in Int : /\ Within(resolveAnalyticsDateRange(zone, f), t) <=> OnDays(zone, f, t)
                     /\ Within(window(zone, f), t) <=> InDays(zone, f, t)
  BY RangeIsItsDays DEF RowsInv
<1>3. \A w \in Reported :
        /\ w \in WorkOrders /\ work[w].completedAt \in Dates /\ work[w].dueAt \in Dates
        /\ work[w].requestedAt \in Int /\ work[w].assetId \in Assets
  BY DEF Reported, RowsInv, RowTyped
<1>4. \A t \in Dates : t # None => t \in Int
  BY DEF Dates
<1>5. CompletedIn(zone, f) = {w \in WithStatus(Reported, "COMPLETED") : Ours(w, work[w].completedAt)}
  <2>1. \A w \in WithStatus(Reported, "COMPLETED") : w \in Reported
    BY DEF WithStatus
  <2>. QED
    BY <1>2, <1>3, <1>4, <2>1 DEF CompletedIn
<1>6. ASSUME NEW labor \in GetLaborUtilization(zone, f)
      PROVE  /\ labor.summary.completed = {w \in WithStatus(Reported, "COMPLETED") : Ours(w, work[w].completedAt)}
             /\ Passes(zone, f.to) => labor.businessDays =
                  Cardinality({day \in f.from..f.to : IsWeekday(day) /\ day <= localDateKey(zone, now - 1)})
  <2>1. labor = buildLaborUtilization(zone, f) /\ RangeResolves(zone, f)
    BY DEF GetLaborUtilization, Reply, BoundedAnswered, Answered
  <2>2. labor.summary.completed = CompletedIn(zone, f)
    BY <2>1 DEF buildLaborUtilization, LaborSummary
  <2>3. Passes(zone, f.to) => labor.businessDays =
          Cardinality({day \in f.from..f.to : IsWeekday(day) /\ day <= localDateKey(zone, now - 1)})
    BY <2>1, CapacityOfBegunDays
  <2>. QED
    BY <1>5, <2>2, <2>3
<1>7. ASSUME NEW failures \in GetFailurePareto(zone, f)
      PROVE  UNION {failures[a] : a \in Ranked} =
               {w \in OfType(Reported, "CORRECTIVE") :
                  work[w].status # "CANCELLED" /\ work[w].assetId \notin archived /\ Ours(w, work[w].requestedAt)}
  <2>1. failures = [a \in Ranked |-> {w \in FailuresIn(zone, f) : work[w].assetId = a}]
    BY DEF GetFailurePareto, Reply, buildFailurePareto
  <2>2. \A w \in OfType(Reported, "CORRECTIVE") : w \in Reported /\ work[w].requestedAt # None
    BY <1>3, SiteAssumption DEF OfType
  <2>3. FailuresIn(zone, f) =
          {w \in OfType(Reported, "CORRECTIVE") : work[w].status # "CANCELLED" /\ Ours(w, work[w].requestedAt)}
    BY <1>2, <1>3, <2>2 DEF FailuresIn
  <2>4. \A w \in FailuresIn(zone, f) : work[w].assetId \in Ranked <=> work[w].assetId \notin archived
    BY <1>3, <2>2, <2>3 DEF Ranked
  <2>5. UNION {failures[a] : a \in Ranked} = {w \in FailuresIn(zone, f) : work[w].assetId \in Ranked}
    BY <2>1
  <2>. QED
    BY <2>3, <2>4, <2>5
<1>8. ASSUME NEW parts \in GetPartsCost(zone, f)
      PROVE  parts.lines = {i \in DOMAIN consumed : Ours(consumed[i].workOrder, consumed[i].createdAt)}
  <2>1. parts.lines = {i \in DOMAIN consumed :
            /\ OfAsset(f, consumed[i].workOrder)
            /\ Within(window(zone, f), consumed[i].createdAt)}
    BY DEF GetPartsCost, Reply, buildPartsCostDashboard
  <2>2. \A i \in DOMAIN consumed : consumed[i].createdAt \in Int /\ consumed[i].createdAt # None
    <3>1. \A i \in DOMAIN consumed : consumed[i] \in Line
      BY DEF LinesInv
    <3>. QED
      BY <3>1, SiteAssumption DEF Line
  <2>. QED
    BY <1>2, <2>1, <2>2
<1>9. ASSUME NEW pm \in GetPmCompliance(zone, f)
      PROVE  pm.due = {w \in OfType(Reported, "PREVENTIVE") :
                work[w].generated /\ work[w].status # "CANCELLED" /\ Ours(w, work[w].dueAt)}
  <2>1. pm.due = {w \in OfType(Reported, "PREVENTIVE") :
            /\ work[w].generated
            /\ work[w].status # "CANCELLED"
            /\ OfAsset(f, w)
            /\ work[w].dueAt # None /\ Within(window(zone, f), work[w].dueAt)}
    BY DEF GetPmCompliance, Reply, buildPmCompliance
  <2>2. \A w \in OfType(Reported, "PREVENTIVE") : w \in Reported
    BY DEF OfType
  <2>. QED
    BY <1>2, <1>3, <1>4, <2>1, <2>2
<1>10. ASSUME NEW down \in GetDowntime(zone, f)
       PROVE  DOMAIN down.trend \subseteq (f.from \div MonthDays)..(f.to \div MonthDays)
  <2>1. DOMAIN down.trend \subseteq {monthOf(zone, work[w].completedAt) : w \in CompletedIn(zone, f)}
    BY DEF GetDowntime, Reply, buildDowntimeDashboard
  <2>2. ASSUME NEW w \in CompletedIn(zone, f)
        PROVE  monthOf(zone, work[w].completedAt) \in (f.from \div MonthDays)..(f.to \div MonthDays)
    <3>. DEFINE key == localDateKey(zone, work[w].completedAt)
    <3>1. work[w].completedAt \in Int /\ InDays(zone, f, work[w].completedAt)
      BY <1>3, <1>4, <1>5 DEF WithStatus
    <3>2. f.from <= key /\ key <= f.to
      BY <1>1, <3>1 DEF InDays, OnDays
    <3>3. key \in Int
      BY <3>1, KeyOf
    <3>. HIDE DEF key
    <3>4. /\ f.from \div MonthDays <= key \div MonthDays /\ key \div MonthDays <= f.to \div MonthDays
          /\ f.from \div MonthDays \in Int /\ key \div MonthDays \in Int /\ f.to \div MonthDays \in Int
      BY <1>1, <3>2, <3>3, QuotientsInOrder
    <3>. QED
      BY <3>4 DEF monthOf, key
  <2>. QED
    BY <2>1, <2>2
<1>11. ASSUME NEW backlog \in GetBacklog(zone, f)
       PROVE  backlog.totalOpen = {w \in NotClosed : OfAsset(f, w) /\ OnDays(zone, f, work[w].requestedAt)}
  <2>1. backlog.totalOpen = {w \in ActiveWork :
            OfAsset(f, w) /\ Within(resolveAnalyticsDateRange(zone, f), work[w].requestedAt)}
    BY DEF GetBacklog, Reply, buildBacklogDashboard, openBacklogScope, ActiveWork
  <2>2. \A w \in NotClosed : w \in Reported
    BY DEF NotClosed
  <2>. QED
    BY <1>2, <1>3, <2>1, <2>2, OpenIsNotClosed
<1>. HIDE DEF Ours
<1>. QED
  BY <1>6, <1>7, <1>8, <1>9, <1>10, <1>11 DEF CoversDays, Ours

\* The parts of a report are the whole of it.
LEMMA ReportsAddUp ==
    ASSUME RowsInv, NEW zone \in Zones, NEW f \in Filters
    PROVE  PartsAddUp(zone, f)
<1>1. \A w \in CompletedIn(zone, f) : w \in Reported /\ work[w].assetId \in Assets
  BY DEF CompletedIn, WithStatus, Reported, RowsInv, RowTyped
<1>2. ASSUME NEW down \in GetDowntime(zone, f)
      PROVE  /\ Divides(down.trend, down.events)
             /\ Divides(down.topAssets, {w \in down.events : work[w].assetId \notin archived})
  <2>. DEFINE Month(w) == monthOf(zone, work[w].completedAt)
              events == down.events
              ranked == {w \in events : work[w].assetId \notin archived}
  <2>1. /\ events \subseteq CompletedIn(zone, f)
        /\ down.trend = [m \in {Month(w) : w \in events} |-> {w \in events : Month(w) = m}]
        /\ down.topAssets = [a \in Ranked |-> {w \in events : work[w].assetId = a}]
    <3>1. down = buildDowntimeDashboard(zone, f)
      BY DEF GetDowntime, Reply
    <3>2. events = {w \in CompletedIn(zone, f) : Some(DowntimeOf(w))}
      BY <3>1 DEF buildDowntimeDashboard
    <3>3. /\ down.trend = [m \in {monthOf(zone, work[w].completedAt) : w \in events} |->
                            {w \in events : monthOf(zone, work[w].completedAt) = m}]
          /\ down.topAssets = [a \in Ranked |-> {w \in events : work[w].assetId = a}]
      BY <3>1, Zenon DEF buildDowntimeDashboard
    <3>. QED
      BY <3>2, <3>3
  <2>. HIDE DEF events, Month
  <2>2. Divides(down.trend, events)
    BY <2>1 DEF Divides
  <2>3. \A w \in ranked : work[w].assetId \in Ranked
    BY <1>1, <2>1 DEF Ranked
  <2>4. down.topAssets = [a \in Ranked |-> {w \in ranked : work[w].assetId = a}]
    BY <2>1 DEF Ranked
  <2>. HIDE DEF ranked
  <2>5. Divides(down.topAssets, ranked)
    BY <2>3, <2>4 DEF Divides
  <2>. QED
    BY <2>2, <2>5 DEF events, ranked
<1>3. ASSUME NEW labor \in GetLaborUtilization(zone, f)
      PROVE  /\ Divides(labor.people, labor.summary.person)
             /\ labor.summary.completed =
                  labor.summary.excludedMissingLabor \cup labor.summary.person
                    \cup labor.summary.team \cup labor.summary.unassigned
             /\ labor.capacityCoveredLabor \subseteq labor.summary.recorded
  <2>. DEFINE summary == LaborSummary(zone, f)
              profiles == IF window(zone, f).from < window(zone, f).toExclusive
                          THEN listLaborCapacityProfiles ELSE {}
              Owners == {work[w].assigneeId : w \in summary.person} \cup profiles
  <2>1. /\ labor.summary = summary
        /\ labor.people = [u \in Owners |-> {w \in summary.person : work[w].assigneeId = u}]
        /\ labor.capacityCoveredLabor = UNION {{w \in summary.person : work[w].assigneeId = u} : u \in profiles}
    <3>1. labor = buildLaborUtilization(zone, f)
      BY DEF GetLaborUtilization, Reply
    <3>. QED
      BY <3>1, Zenon DEF buildLaborUtilization
  <2>. HIDE DEF profiles
  <2>2. /\ summary.person \subseteq summary.recorded
        /\ summary.completed = summary.excludedMissingLabor \cup summary.person
                                 \cup summary.team \cup summary.unassigned
    BY DEF LaborSummary
  <2>. HIDE DEF summary
  <2>3. \A w \in summary.person : work[w].assigneeId \in Owners
    OBVIOUS
  <2>. HIDE DEF Owners
  <2>4. Divides(labor.people, summary.person)
    BY <2>1, <2>3 DEF Divides
  <2>. QED
    BY <2>1, <2>2, <2>4
<1>4. ASSUME NEW pm \in GetPmCompliance(zone, f)
      PROVE  /\ Divides([done |-> pm.completedOnTime, late |-> pm.completedLate, open |-> pm.openOverdue], pm.due)
             /\ pm.openOverdue \subseteq OverdueIn(NotClosed)
  <2>. DEFINE due == pm.due
  <2>1. /\ pm.completedOnTime = {w \in WithStatus(due, "COMPLETED") :
              work[w].completedAt # None /\ work[w].completedAt <= work[w].dueAt}
        /\ pm.completedLate = {w \in WithStatus(due, "COMPLETED") :
              work[w].completedAt # None /\ work[w].completedAt > work[w].dueAt}
        /\ pm.openOverdue = due \ WithStatus(due, "COMPLETED")
        /\ \A w \in due : /\ w \in Reported /\ work[w].status # "CANCELLED" /\ work[w].dueAt # None
                          /\ Within(window(zone, f), work[w].dueAt)
    BY DEF GetPmCompliance, Reply, buildPmCompliance, OfType, WithStatus
  <2>. HIDE DEF due
  <2>2. \A w \in due : /\ work[w].dueAt \in Int
                       /\ work[w].status = "COMPLETED" => work[w].completedAt # None /\ work[w].completedAt \in Int
    BY <2>1 DEF Reported, RowsInv, RowTyped, RowTimed, Dates
  <2>3. pm.openOverdue \subseteq OverdueIn(NotClosed)
    <3>1. \A w \in due : work[w].dueAt < now
      <4>1. window(zone, f).toExclusive \in Int /\ window(zone, f).toExclusive # None
        BY WindowTyped DEF RowsInv
      <4>2. window(zone, f).toExclusive <= now
        <5>1. f.to \in Int /\ f.to # None /\ localDateStartUtc(zone, f.to + 1) \in Int
          BY FilterDays, StartOfDay
        <5>. QED
          BY <5>1, SiteAssumption DEF window, resolveAnalyticsDateRange, Earlier, RowsInv
      <4>3. \A w \in due : work[w].dueAt < window(zone, f).toExclusive
        BY <2>1, <4>1 DEF Within
      <4>. QED
        BY <2>2, <4>1, <4>2, <4>3 DEF RowsInv
    <3>. QED
      BY <2>1, <3>1 DEF OverdueIn, NotClosed, WithStatus
  <2>. DEFINE parts == [done |-> pm.completedOnTime, late |-> pm.completedLate, open |-> pm.openOverdue]
  <2>4. /\ DOMAIN parts = {"done", "late", "open"} /\ parts["done"] = pm.completedOnTime
        /\ parts["late"] = pm.completedLate /\ parts["open"] = pm.openOverdue
    OBVIOUS
  <2>. HIDE DEF parts
  <2>5. /\ pm.completedOnTime \cup pm.completedLate \cup pm.openOverdue = due
        /\ pm.completedOnTime \cap pm.completedLate = {} /\ pm.completedOnTime \cap pm.openOverdue = {}
        /\ pm.completedLate \cap pm.openOverdue = {}
    BY <2>1, <2>2 DEF WithStatus
  <2>6. UNION {parts[k] : k \in DOMAIN parts} = due
    BY <2>4, <2>5
  <2>7. \A j, k \in DOMAIN parts : j # k => parts[j] \cap parts[k] = {}
    BY <2>4, <2>5
  <2>. QED
    BY <2>3, <2>6, <2>7 DEF Divides, due, parts
<1>. QED
  BY <1>2, <1>3, <1>4 DEF PartsAddUp

\* The reports have exactly what happened on their days by the clock of the
\* organization, on days of a change of the clocks too; they are refused only for
\* a midnight that is skipped; their parts add up; and the planning calendar
\* shows each date on its day (lib/analytics, lib/maintenance/planning-calendar.ts).
THEOREM ReportsCoverDays == SiteSpec => []ReportsCoverTheirDays
<1>1. SiteInit => LinesInv
  BY DEF SiteInit, LinesInv
<1>2. RowsInv /\ LinesInv /\ [SiteNext]_siteVars => LinesInv'
  BY LinesKept
<1>3. RowsInv /\ LinesInv => ReportsCoverTheirDays
  BY RefusalsAreForDays, ReportsAddUp, ReportsHaveTheirDays, PagesShowTheirDays
  DEF ReportsCoverTheirDays
<1>. QED
  BY <1>1, <1>2, <1>3, RowsInvariant, PTL DEF SiteSpec
=============================================================================
