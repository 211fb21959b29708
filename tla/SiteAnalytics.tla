--------------------------- MODULE SiteAnalytics ---------------------------
(***************************************************************************)
(* What lib/analytics computes from the work orders of a site for a range  *)
(* of days: downtime, failures, labor and capacity, the cost of parts, the *)
(* compliance of preventive work, and the times to and between repairs.    *)
(*                                                                         *)
(* A count is the set of what is counted, and a sum that of the work or    *)
(* the lines it is the sum of.  Lists are not cut at their limits.         *)
(***************************************************************************)
EXTENDS SiteReports, FiniteSetsExt

CONSTANTS
    MonthDays, WeekDays,
    MaxRangeDays,   \* DOWNTIME_MAX_RANGE_DAYS and the like
    Filters

\* The reports are asked for some days, of one asset or of all.
ASSUME AnalyticsAssumption ==
    /\ Filters \subseteq [assetId: Assets \cup {None}, from: Int, to: Int]
    /\ None \notin Assets
    /\ MonthDays \in Nat \ {0} /\ WeekDays \in Nat \ {0} /\ MaxRangeDays \in Nat \ {0}

Earlier(t, u) == IF t <= u THEN t ELSE u

\* What is to come is in no report.
window(zone, f) ==
    LET range == resolveAnalyticsDateRange(zone, f) IN
    [from |-> range.from,
     toExclusive |-> IF range.toExclusive = None THEN now ELSE Earlier(range.toExclusive, now)]

\* A request names days that begin at some instant, and no archived asset.
Answered(zone, f) == RangeResolves(zone, f) /\ f.assetId \notin archived

\* Most reports are limited to some days of the local calendar.
LimitAnswered(zone, f) ==
    LET end == f.from + MaxRangeDays IN
    /\ Resolved(zone, end)
    /\ resolveAnalyticsDateRange(zone, f).toExclusive <= localDateStartUtc(zone, end)

BoundedAnswered(zone, f) == Answered(zone, f) /\ LimitAnswered(zone, f)

WithStatus(S, status) == {w \in S : work[w].status = status}
OfType(S, type) == {w \in S : work[w].type = type}

CompletedIn(zone, f) ==
    LET range == window(zone, f) IN
    {w \in WithStatus(Reported, "COMPLETED") :
        OfAsset(f, w) /\ work[w].completedAt # None /\ Within(range, work[w].completedAt)}

monthOf(zone, t) == localDateKey(zone, t) \div MonthDays

\* Assets are ranked unless they were archived since.
Ranked == Assets \ archived

---------------------------------------------------------------------------

Some(minutes) == minutes # None /\ minutes > 0

DowntimeOf(w) == work[w].downtimeMinutes

buildDowntimeDashboard(zone, f) ==
    LET events == {w \in CompletedIn(zone, f) : Some(DowntimeOf(w))} IN
    [events       |-> events,
     trend        |-> [m \in {monthOf(zone, work[w].completedAt) : w \in events} |->
                        {w \in events : monthOf(zone, work[w].completedAt) = m}],
     topAssets    |-> [a \in Ranked |-> {w \in events : work[w].assetId = a}]]

GetDowntime(zone, f) == Reply(BoundedAnswered(zone, f), buildDowntimeDashboard(zone, f))

\* Failures are counted by when they were reported.
FailuresIn(zone, f) ==
    LET range == window(zone, f) IN
    {w \in OfType(Reported, "CORRECTIVE") :
        /\ work[w].status # "CANCELLED"
        /\ OfAsset(f, w)
        /\ Within(range, work[w].requestedAt)}

buildFailurePareto(zone, f) ==
    [a \in Ranked |-> {w \in FailuresIn(zone, f) : work[w].assetId = a}]

GetFailurePareto(zone, f) == Reply(BoundedAnswered(zone, f), buildFailurePareto(zone, f))

\* Lines of parts, by when they were consumed.
buildPartsCostDashboard(zone, f) ==
    LET lines == {i \in DOMAIN consumed :
            /\ OfAsset(f, consumed[i].workOrder)
            /\ Within(window(zone, f), consumed[i].createdAt)}
        Cost(i) == consumed[i].unitCost
        priced  == {i \in lines : Cost(i) # None}
    IN  [lines |-> lines, priced |-> priced, unpriced |-> {i \in lines : Cost(i) = None}]

GetPartsCost(zone, f) == Reply(BoundedAnswered(zone, f), buildPartsCostDashboard(zone, f))

---------------------------------------------------------------------------
(* Labor and the capacity for it.                                          *)

LaborOf(w) == work[w].laborMinutes

IsWeekday(day) == day % WeekDays < WeekDays - 2

countWeekdaysInclusive(from, to) == Cardinality({day \in from..to : IsWeekday(day)})

\* The last day of the report that has begun.
lastCapacityDay(zone, f) ==
    LET w == window(zone, f) IN
    localDateKey(zone, IF w.toExclusive - 1 > w.from THEN w.toExclusive - 1 ELSE w.from)

listLaborCapacityProfiles == {u \in Users : capacity[u] # None}

\* In fifths of a minute: a week of capacity is that of five days.
baselineCapacityMinutes(weekly, weekdays) == weekly * weekdays

\* The completed work by what is known of its labor and of its owner.
LaborSummary(zone, f) ==
    LET completed == CompletedIn(zone, f)
        recorded  == {w \in completed : Some(LaborOf(w))}
        Persons   == {w \in recorded : work[w].assigneeId # None}
    IN  [completed |-> completed, recorded |-> recorded,
         excludedMissingLabor |-> completed \ recorded,
         person |-> Persons,
         team |-> {w \in recorded \ Persons : work[w].teamId # None},
         unassigned |-> {w \in recorded \ Persons : work[w].teamId = None}]

\* The work each user recorded, and what was expected of those with a profile; a
\* report of days to come has neither.
buildLaborUtilization(zone, f) ==
    LET begun    == window(zone, f).from < window(zone, f).toExclusive
        summary  == LaborSummary(zone, f)
        profiles == IF begun THEN listLaborCapacityProfiles ELSE {}
        days     == IF begun THEN countWeekdaysInclusive(f.from, lastCapacityDay(zone, f)) ELSE 0
        Recorded(u) == {w \in summary.person : work[w].assigneeId = u}
    IN  [summary |-> summary,
         people |-> [u \in {work[w].assigneeId : w \in summary.person} \cup profiles |-> Recorded(u)],
         businessDays |-> days,
         capacityMinutes |-> [u \in profiles |-> baselineCapacityMinutes(capacity[u], days)],
         capacityCoveredLabor |-> UNION {Recorded(u) : u \in profiles}]

GetLaborUtilization(zone, f) == Reply(BoundedAnswered(zone, f), buildLaborUtilization(zone, f))

---------------------------------------------------------------------------
(* Preventive work, by when it is due; only what the schedulers made.      *)

buildPmCompliance(zone, f) ==
    LET due == {w \in OfType(Reported, "PREVENTIVE") :
            /\ work[w].generated
            /\ work[w].status # "CANCELLED"
            /\ OfAsset(f, w)
            /\ work[w].dueAt # None /\ Within(window(zone, f), work[w].dueAt)}
        done == {w \in WithStatus(due, "COMPLETED") : work[w].completedAt # None}
    IN  [due |-> due,
         completedOnTime |-> {w \in done : work[w].completedAt <= work[w].dueAt},
         completedLate   |-> {w \in done : work[w].completedAt > work[w].dueAt},
         openOverdue     |-> due \ WithStatus(due, "COMPLETED")]

\* An asset is looked up only for days that have begun.
PmAnswered(zone, f) ==
    /\ RangeResolves(zone, f)
    /\ window(zone, f).from < window(zone, f).toExclusive => f.assetId \notin archived

GetPmCompliance(zone, f) == Reply(PmAnswered(zone, f), buildPmCompliance(zone, f))

---------------------------------------------------------------------------
(* Reliability.                                                            *)

\* A report of days to come is refused.
ReliabilityAnswered(zone, f) ==
    Answered(zone, f) /\ (f.from # None => window(zone, f).from < window(zone, f).toExclusive)

RepairedIn(zone, f) == OfType(CompletedIn(zone, f), "CORRECTIVE")

ValidTimes(r) == r.startedAt # None /\ r.requestedAt <= r.startedAt /\ r.startedAt <= r.completedAt

mttr(zone, f) ==
    [sample |-> {w \in RepairedIn(zone, f) : ValidTimes(work[w])},
     excludedIncomplete |-> {w \in RepairedIn(zone, f) : ~ValidTimes(work[w])}]

\* Of what happens at one instant, failures come first.
timeline(asset, toExclusive) ==
    LET mine == {w \in OfType(Reported, "CORRECTIVE") : work[w].assetId = asset} IN
    {[at |-> work[w].completedAt, kind |-> 1, of |-> w] :
        w \in {v \in WithStatus(mine, "COMPLETED") : work[v].completedAt < toExclusive}}
    \cup
    {[at |-> work[w].requestedAt, kind |-> 0, of |-> w] :
        w \in {v \in mine : work[v].status # "CANCELLED" /\ work[v].requestedAt < toExclusive}}

\* Mutant: what happens at one instant precedes each other.
PrecedesOrTies(d, e) == d.at <= e.at

Precedes(d, e) == d.at < e.at \/ (d.at = e.at /\ d.kind < e.kind)

\* The repairs before a failure.
Before(e, line) == {d \in line : d.kind = 1 /\ Precedes(d, e)}

\* From the last repair of an asset to each failure after it.
intervals(zone, f) ==
    LET w == window(zone, f) IN
    UNION {LET line == timeline(a, w.toExclusive) IN
           {[assetId |-> a, failure |-> e.of, at |-> e.at,
             previousCompletedAt |-> Max({d.at : d \in Before(e, line)})] :
                e \in {x \in line : x.kind = 0 /\ Before(x, line) # {} /\ Within(w, x.at)}} :
        a \in IF f.assetId = None THEN Assets ELSE {f.assetId}}

buildReliabilityDashboard(zone, f) == [mttr |-> mttr(zone, f), mtbf |-> intervals(zone, f)]

GetReliability(zone, f) == Reply(ReliabilityAnswered(zone, f), buildReliabilityDashboard(zone, f))

---------------------------------------------------------------------------
(* What a report of some days owes its reader.                             *)

\* The days of the filter on the clock of the organization.
OnDays(zone, f, t) ==
    /\ f.from # None => f.from <= localDateKey(zone, t)
    /\ f.to # None => localDateKey(zone, t) <= f.to

InDays(zone, f, t) == t < now /\ OnDays(zone, f, t)

\* The days the clock begins once.
BeginsOnce(zone, day) ==
    \E o \in {zone.before, zone.after} :
        /\ localTime(zone, midnight(day) - o) = midnight(day)
        /\ \A p \in {zone.before, zone.after} \ {o} : localTime(zone, midnight(day) - p) # midnight(day)

\* The clock shows some time of a day, unless it skips the whole of it.
Passes(zone, day) ==
    \/ midnight(day) < zone.change + zone.before
    \/ zone.change + zone.after < midnight(day + 1)

ClearDays(zone, f) ==
    (f.from # None => BeginsOnce(zone, f.from)) /\ (f.to # None => BeginsOnce(zone, f.to + 1))

\* A request is refused for its days only if the clock skips a midnight, or if
\* they are more than the limit, however long the days are.
RefusedForSkipped(zone, f) ==
    /\ RangeResolves(zone, f) <=>
         f.from <= f.to /\ \A day \in {f.from, f.to + 1} : Shown(zone, midnight(day))
    /\ LET end == f.from + MaxRangeDays IN
       RangeResolves(zone, f) /\ Shown(zone, midnight(end)) =>
            (LimitAnswered(zone, f) <=> f.to < end)

\* Each report has what happened on its days, and nothing else.
CoversDays(zone, f) ==
    LET Ours(w, t) == OfAsset(f, w) /\ t # None /\ InDays(zone, f, t) IN
    /\ \A labor \in GetLaborUtilization(zone, f) :
        /\ labor.summary.completed = {w \in WithStatus(Reported, "COMPLETED") : Ours(w, work[w].completedAt)}
        \* Capacity is counted for the weekdays that have begun.
        /\ Passes(zone, f.to) => labor.businessDays =
             Cardinality({day \in f.from..f.to : IsWeekday(day) /\ day <= localDateKey(zone, now - 1)})
    /\ \A failures \in GetFailurePareto(zone, f) :
        UNION {failures[a] : a \in Ranked} =
            {w \in OfType(Reported, "CORRECTIVE") :
                work[w].status # "CANCELLED" /\ work[w].assetId \notin archived /\ Ours(w, work[w].requestedAt)}
    /\ \A parts \in GetPartsCost(zone, f) :
        parts.lines = {i \in DOMAIN consumed : Ours(consumed[i].workOrder, consumed[i].createdAt)}
    /\ \A pm \in GetPmCompliance(zone, f) :
        pm.due = {w \in OfType(Reported, "PREVENTIVE") :
            work[w].generated /\ work[w].status # "CANCELLED" /\ Ours(w, work[w].dueAt)}
    /\ \A down \in GetDowntime(zone, f), backlog \in GetBacklog(zone, f) :
        /\ DOMAIN down.trend \subseteq (f.from \div MonthDays)..(f.to \div MonthDays)
        /\ backlog.totalOpen = {w \in NotClosed : OfAsset(f, w) /\ OnDays(zone, f, work[w].requestedAt)}

\* The parts of a report are the whole of it, whoever owned the work and
\* whatever was archived since.
PartsAddUp(zone, f) ==
    /\ \A down \in GetDowntime(zone, f) :
        /\ Divides(down.trend, down.events)
        /\ Divides(down.topAssets, {w \in down.events : work[w].assetId \notin archived})
    /\ \A labor \in GetLaborUtilization(zone, f) :
        /\ Divides(labor.people, labor.summary.person)
        /\ labor.summary.completed =
             labor.summary.excludedMissingLabor \cup labor.summary.person
               \cup labor.summary.team \cup labor.summary.unassigned
        /\ labor.capacityCoveredLabor \subseteq labor.summary.recorded
    /\ \A pm \in GetPmCompliance(zone, f) :
        /\ Divides([done |-> pm.completedOnTime, late |-> pm.completedLate, open |-> pm.openOverdue], pm.due)
        /\ pm.openOverdue \subseteq OverdueIn(NotClosed)

\* What is said of past days can be relied on: each report has exactly what
\* happened on its days by the clock of the organization, on days of a change
\* of the clocks too; it is refused only for a midnight the clock skips; its
\* parts add up; and the planning calendar shows each date on its day.
ReportsCoverTheirDays ==
    \A zone \in Zones :
        /\ \A f \in Filters :
            /\ RefusedForSkipped(zone, f)
            /\ PartsAddUp(zone, f)
            /\ ClearDays(zone, f) => CoversDays(zone, f)
        /\ CalendarShowsWhatIsPlanned(zone)

\* Every repair has a time to repair, however often the work was blocked,
\* completed, reopened or cancelled, and every time between failures is that
\* from the last repair of the asset to a failure after it.
RepairTimesAreSound ==
    \A zone \in Zones, f \in Filters \cup {NoFilter} : \A reply \in GetReliability(zone, f) :
        /\ reply.mttr.excludedIncomplete = {}
        /\ \A i \in reply.mtbf :
            /\ i.previousCompletedAt < i.at
            /\ \A w \in OfType(WithStatus(Reported, "COMPLETED"), "CORRECTIVE") :
                work[w].assetId = i.assetId =>
                    work[w].completedAt \notin i.previousCompletedAt + 1..i.at - 1
            /\ work[i.failure].status = "COMPLETED" => i.at <= work[i.failure].completedAt
============================================================================
