---------------------------- MODULE SiteReports ----------------------------
(***************************************************************************)
(* What the pages say of the open work of a site: the backlog dashboard,   *)
(* the workload of teams, the board, the personal dashboard, the           *)
(* notification center, the forecast and the planning calendar.  Each      *)
(* counts with a query and with dates of its own.                          *)
(*                                                                         *)
(* What a page counts is here the set of what is counted.  A filter has an *)
(* asset and a first and a last day, each of which may be None.            *)
(***************************************************************************)
EXTENDS SiteWork

CONSTANTS
    Zones,          \* the time zones the organization may be in
    Members,        \* the users of each team
    SoonDays,       \* due soon: 7
    HorizonDays,    \* WORKLOAD_HORIZON_DAYS: 14
    ForecastDays,   \* the horizon of the forecast: 30
    Ages,           \* where the classes of age end, in days: 7, 30, 90
    GridDays,       \* the days on a page of the calendar: 42
    Pages,          \* the days calendar pages begin with
    Margin          \* 18 hours

ASSUME ReportAssumption ==
    /\ Zones \subseteq Zone
    /\ \A z \in Zones :
        /\ {z.before, z.after} \subseteq -Margin..Margin
        \* No clock is changed by more than a day.
        /\ z.after - z.before \in -DayLength..DayLength
    /\ {SoonDays, HorizonDays, ForecastDays, GridDays, Margin} \subseteq Nat
    /\ Pages \subseteq Int
    \* The classes of age are in order.
    /\ Ages \in Seq(Nat)
    /\ \A j, k \in 1..Len(Ages) : j < k => Ages[j] < Ages[k]

ASSUME TeamAssumption ==
    /\ \A team \in DOMAIN Members : Members[team] \subseteq Users
    /\ \A e \in Edits \cup Efforts :
        "teamId" \in DOMAIN e => e["teamId"] \in DOMAIN Members \cup {None}

---------------------------------------------------------------------------
(* Days and instants (lib/analytics/date-range.ts).                        *)

midnight(day) == day * DayLength

\* The instant a day begins at: its midnight, corrected by the clock up to three times.
localDateStartUtc(zone, day) ==
    LET once == Corrected(zone, midnight(day), midnight(day)) IN
    Corrected(zone, midnight(day), Corrected(zone, midnight(day), once))

\* Otherwise the request is refused.
Resolved(zone, day) == localTime(zone, localDateStartUtc(zone, day)) = midnight(day)

resolveAnalyticsDateRange(zone, f) ==
    [from |-> IF f.from = None THEN None ELSE localDateStartUtc(zone, f.from),
     toExclusive |-> IF f.to = None THEN None ELSE localDateStartUtc(zone, f.to + 1)]

RangeResolves(zone, f) ==
    /\ f.from # None /\ f.to # None => f.from <= f.to
    /\ f.from # None => Resolved(zone, f.from)
    /\ f.to # None => Resolved(zone, f.to + 1)

Within(range, t) ==
    /\ range.from # None => range.from <= t
    /\ range.toExclusive # None => t < range.toExclusive

OfAsset(f, w) == f.assetId = None \/ work[w].assetId = f.assetId

NoFilter == [assetId |-> None, from |-> None, to |-> None]

---------------------------------------------------------------------------
(* The backlog (lib/analytics/backlog.ts).                                 *)

OPEN_STATUSES == {"REQUESTED", "APPROVED", "PLANNED", "IN_PROGRESS", "BLOCKED"}

OverdueIn(S) == {w \in S : work[w].dueAt # None /\ work[w].dueAt < now}
UrgentIn(S) == {w \in S : work[w].priority = "URGENT"}
UnplannedIn(S) == {w \in S : work[w].plannedStart = None}

openBacklogScope(zone, f) ==
    {w \in Reported :
        /\ work[w].status \in OPEN_STATUSES
        /\ OfAsset(f, w)
        /\ Within(resolveAnalyticsDateRange(zone, f), work[w].requestedAt)}

\* The start of the day that is so many days from today.
BoundaryDay(zone, n) == localDateKey(zone, now) + n
boundary(zone, n) == localDateStartUtc(zone, BoundaryDay(zone, n))

\* The classes of age: from the youngest to those older than all limits.
aging(zone, open) ==
    [k \in 1..Len(Ages) + 1 |->
        {w \in open :
            /\ k <= Len(Ages) => boundary(zone, 1 - Ages[k]) <= work[w].requestedAt
            /\ IF k = 1 THEN work[w].requestedAt <= now
               ELSE work[w].requestedAt < boundary(zone, 1 - Ages[k - 1])}]

buildBacklogDashboard(zone, f) ==
    LET open == openBacklogScope(zone, f) IN
    [totalOpen |-> open,
     overdue   |-> OverdueIn(open),
     dueSoon   |-> {w \in open : /\ work[w].dueAt # None /\ now <= work[w].dueAt
                                 /\ work[w].dueAt < boundary(zone, SoonDays)},
     unplanned |-> UnplannedIn(open),
     urgent    |-> UrgentIn(open),
     aging     |-> aging(zone, open)]

BacklogAnswered(zone, f) ==
    /\ RangeResolves(zone, f)
    /\ \A n \in {SoonDays} \cup {1 - Ages[k] : k \in 1..Len(Ages)} : Resolved(zone, BoundaryDay(zone, n))

\* What a route answers: a body, or nothing when it refuses.
Reply(accepted, body) == IF accepted THEN {body} ELSE {}

GetBacklog(zone, f) == Reply(BacklogAnswered(zone, f), buildBacklogDashboard(zone, f))

\* The export has no classes of age and needs no day but those of the filter.
exportBacklogCsv(zone, f) == Reply(RangeResolves(zone, f), openBacklogScope(zone, f))

---------------------------------------------------------------------------
(* Workload, board, personal dashboard.                                    *)

\* Here soon and the horizon end at this time of day.
Until(w, days) ==
    /\ work[w].dueAt # None
    /\ now <= work[w].dueAt /\ work[w].dueAt <= now + days * DayLength

laneIdentity(w) ==
    CASE work[w].assigneeId # None -> <<"PERSON", work[w].assigneeId>>
      [] work[w].assigneeId = None /\ work[w].teamId # None -> <<"TEAM", work[w].teamId>>
      [] OTHER -> <<"UNASSIGNED", None>>

ActiveWork == {w \in Reported : work[w].status \in OPEN_STATUSES}

buildWorkloadLanes ==
    [key \in {laneIdentity(w) : w \in ActiveWork} |->
        LET lane == {w \in ActiveWork : laneIdentity(w) = key} IN
        [total     |-> lane,
         overdue   |-> OverdueIn(lane),
         dueSoon   |-> {w \in lane : Until(w, SoonDays)},
         unplanned |-> UnplannedIn(lane),
         plannedInHorizon |-> {w \in lane \ UnplannedIn(lane) :
            work[w].plannedStart \in now..now + HorizonDays * DayLength},
         urgent    |-> UrgentIn(lane)]]

\* What the lanes count under a heading, together.
Lanes(heading) ==
    LET lanes == buildWorkloadLanes IN UNION {lanes[key][heading] : key \in DOMAIN lanes}

BoardStatuses == OPEN_STATUSES \cup {"COMPLETED"}

isWorkOrderOverdue(w) ==
    /\ work[w].dueAt # None /\ work[w].dueAt < now
    /\ work[w].status \notin {"COMPLETED", "CANCELLED"}

buildWorkOrderBoardWhere(dueFilter) ==
    CASE dueFilter = "OVERDUE"    -> OverdueIn(ActiveWork)
      [] dueFilter = "DUE_7_DAYS" -> {w \in ActiveWork : Until(w, SoonDays)}
      [] OTHER -> {w \in Reported : /\ work[w].status \in BoardStatuses
                                    /\ dueFilter = "NO_DUE_DATE" => work[w].dueAt = None}

matchesDueFilter(w, filter) ==
    CASE filter = "ALL"         -> TRUE
      [] filter = "NO_DUE_DATE" -> work[w].dueAt = None
      [] filter = "OVERDUE"     -> isWorkOrderOverdue(w)
      [] OTHER -> work[w].status \notin {"COMPLETED", "CANCELLED"} /\ Until(w, SoonDays)

\* The columns of the board.
buildWorkOrderBoard(filter) ==
    [status \in BoardStatuses |->
        {w \in buildWorkOrderBoardWhere(filter) :
            work[w].status = status /\ matchesDueFilter(w, filter)}]

Board(filter) == UNION {buildWorkOrderBoard(filter)[status] : status \in BoardStatuses}

\* The work of a user, or of a team of theirs while it is nobody's.
assignedWorkWhere(u) ==
    {w \in NotClosed :
        \/ work[w].assigneeId = u
        \/ work[w].assigneeId = None /\ work[w].teamId # None /\ u \in Members[work[w].teamId]}

buildPersonalDashboard(u) ==
    LET mine == assignedWorkWhere(u) IN
    [total   |-> mine,
     overdue |-> OverdueIn(mine),
     dueSoon |-> {w \in mine : Until(w, SoonDays)},
     urgent  |-> UrgentIn(mine)]

\* What a technician takes along: work of their teams too that is another's.
TechnicianQueue(u) ==
    {w \in NotClosed :
        \/ work[w].assigneeId = u
        \/ work[w].teamId # None /\ u \in Members[work[w].teamId]}

Personal(heading) == UNION {buildPersonalDashboard(u)[heading] : u \in Users}

---------------------------------------------------------------------------
(* Notifications, the public card and the forecast.                        *)

listActiveMaintenanceReminders == Reminded("ACTIVE")

\* The reminders that are shown, and the work that is overdue.
buildNotificationCenter ==
    [reminders |-> {k \in Reminded("ACTIVE") :
        /\ k.dueAt - k.leadDays * DayLength <= now /\ now <= k.dueAt
        /\ k.workOrder \in NotClosed},
     overdue |-> OverdueIn(NotClosed)]

\* What holders of a public token see.
getPublicKpiCard ==
    [open |-> ActiveWork, overdue |-> OverdueIn(ActiveWork),
     inProgress |-> {w \in Reported : work[w].status = "IN_PROGRESS"}]

forecastState(w) ==
    CASE work[w].dueAt < now -> "OVERDUE"
      [] now <= work[w].dueAt /\ work[w].dueAt <= now + ForecastDays * DayLength -> "DUE_SOON"
      [] OTHER -> "UPCOMING"

Preventive(S) == {w \in S : work[w].type = "PREVENTIVE"}

Forecast(state) ==
    {w \in Preventive(NotClosed) : work[w].dueAt # None /\ forecastState(w) = state}

---------------------------------------------------------------------------
(* The planning calendar: a page of days from a Monday on.                 *)

buildCalendarGrid(first) == first..first + GridDays - 1

\* Mutant: the range is that of the days of Greenwich.
NominalRange(first) ==
    [start |-> midnight(first), end |-> midnight(first + GridDays) - 1]

\* The days are those of the organization, the range is made of the days of
\* Greenwich and widened.
calendarSearchRange(first) ==
    [start |-> midnight(first) - Margin, end |-> midnight(first + GridDays) - 1 + Margin]

SearchedWork(first) ==
    LET range == calendarSearchRange(first) IN
    {w \in Reported :
        /\ work[w].status # "CANCELLED"
        /\ \E t \in {work[w].plannedStart, work[w].dueAt} \ {None} : range.start <= t /\ t <= range.end}

OnDay(zone, t, day) == t # None /\ localDateKey(zone, t) = day

\* What stands on each day: the work that is planned or due on it.
buildPlanningCalendar(zone, first) ==
    [day \in buildCalendarGrid(first) |->
        [planned |-> {w \in SearchedWork(first) : OnDay(zone, work[w].plannedStart, day)},
         due     |-> {w \in SearchedWork(first) : OnDay(zone, work[w].dueAt, day)}]]

Unscheduled == UnplannedIn(NotClosed)

---------------------------------------------------------------------------
(* What the pages owe each other.                                          *)

\* What is in S is in one of the parts, and in one only.
Divides(parts, S) ==
    /\ UNION {parts[k] : k \in DOMAIN parts} = S
    /\ \A j, k \in DOMAIN parts : j # k => parts[j] \cap parts[k] = {}

\* All pages count the same work as open, overdue, urgent and unplanned.
OpenWorkAgrees(zone, backlog) ==
    /\ backlog.totalOpen = NotClosed /\ exportBacklogCsv(zone, NoFilter) = {NotClosed}
    /\ Lanes("total") = NotClosed /\ Lanes("urgent") = backlog.urgent
    /\ Board("ALL") = NotClosed \cup {w \in Reported : work[w].status = "COMPLETED"}
    /\ Lanes("overdue") = backlog.overdue /\ Board("OVERDUE") = backlog.overdue
    /\ buildNotificationCenter.overdue = backlog.overdue
    /\ getPublicKpiCard.open = backlog.totalOpen /\ getPublicKpiCard.overdue = backlog.overdue
    /\ getPublicKpiCard.inProgress \subseteq backlog.totalOpen
    /\ Forecast("OVERDUE") = Preventive(backlog.overdue)
    /\ Lanes("unplanned") = backlog.unplanned /\ Unscheduled = backlog.unplanned
    /\ Board("DUE_7_DAYS") = Lanes("dueSoon")

\* Every open work order has one age.
AgesPartition(backlog) == Divides(backlog.aging, backlog.totalOpen)

\* The backlog says "due soon" up to the beginning of a day and the other pages
\* up to a time of day: they differ on that day only.
SoonAgrees(zone, backlog) ==
    LET others == Lanes("dueSoon") IN
    \A w \in (backlog.dueSoon \ others) \cup (others \ backlog.dueSoon) :
        localDateKey(zone, work[w].dueAt) \in {BoundaryDay(zone, SoonDays) + d : d \in {-1, 0, 1}}

\* What is open and somebody's is on somebody's personal dashboard, and in the
\* queue of each technician whose dashboard it is on.
NobodyForgets ==
    LET lanes == buildWorkloadLanes
        owned == {k \in DOMAIN lanes : k[1] = "PERSON" \/ (k[1] = "TEAM" /\ Members[k[2]] # {})}
    IN  /\ \A heading \in {"total", "overdue", "dueSoon", "urgent"} :
            Personal(heading) = UNION {lanes[key][heading] : key \in owned}
        /\ \A u \in Users : assignedWorkWhere(u) \subseteq TechnicianQueue(u)

\* Runs that come one after another leave at most one reminder of a work order
\* active, whatever became of its due date and however many days ahead reminders
\* were asked for.  Runs at work at one time may leave one each, and no more.
RemindedOnce ==
    \A j, k \in listActiveMaintenanceReminders :
        j.workOrder = k.workOrder /\ reminders[j].by = reminders[k].by => j = k

\* The reports of the open work of a site agree with each other, and no work is
\* reminded of twice but by runs that overlap.
ReportsAgree ==
    /\ \A zone \in Zones : \A backlog \in GetBacklog(zone, NoFilter) :
        OpenWorkAgrees(zone, backlog) /\ AgesPartition(backlog) /\ SoonAgrees(zone, backlog)
    /\ NobodyForgets
    /\ RemindedOnce

\* A page of the calendar shows on a day what is planned or due on it in the
\* time zone of the organization, nothing else, and leaves nothing out.
CalendarShowsWhatIsPlanned(zone) ==
    \A first \in Pages :
        LET page == buildPlanningCalendar(zone, first) IN
        \A day \in buildCalendarGrid(first), w \in Reported :
            LET r == work[w] IN
            /\ w \in page[day].planned <=> r.status # "CANCELLED" /\ OnDay(zone, r.plannedStart, day)
            /\ w \in page[day].due <=> r.status # "CANCELLED" /\ OnDay(zone, r.dueAt, day)
============================================================================
