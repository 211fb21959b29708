------------------------- MODULE PlanningCalendar -------------------------
(***************************************************************************)
(* The planned start and the due date of a work order: they are set by     *)
(* PATCH requests of module WorkOrder, which says of the start only        *)
(* whether it is set, and moved to another day on the planning calendar    *)
(* (app/api/work-orders/[workOrderId]/reschedule).                         *)
(*                                                                         *)
(* A request that is refused because the due date would come before the    *)
(* start changes nothing, and is no step.  Edits of the due date by PATCH  *)
(* are left out: a work order is made with one or without.                 *)
(***************************************************************************)
EXTENDS WorkOrder, LocalTime

CONSTANTS
    Zones,          \* the time zones an organization may be in
    Days,           \* the days work is moved to
    Starts, Dues,   \* the instants requests set
    MaxInstant,     \* bound: due dates
    defaultHour     \* the time of day of work that had none

ASSUME CalendarAssumption ==
    /\ Zones \subseteq Zone /\ Days \subseteq Int /\ Starts \cup Dues \subseteq Int
    /\ MaxInstant \in Int /\ defaultHour \in 0..DayLength - 1
ASSUME CalendarNoneAssumption == None \notin Int

VARIABLES
    zone,       \* Organization.timezone
    start,      \* WorkOrder.plannedStart
    due,        \* WorkOrder.dueAt
    asked       \* per handler, the start its PATCH writes

planVars == <<wo, receipts, job, zone, start, due, asked>>

PlanningTypeOK ==
    /\ WorkOrderTypeOK
    /\ zone \in Zones
    /\ {start, due} \subseteq Int \cup {None}
    /\ asked \in [Handlers -> Int \cup {None}]
    /\ wo.planned <=> start # None

\* INVALID_PLANNING.
InOrder(from, to) == from # None /\ to # None => from <= to

---------------------------------------------------------------------------
(* PATCH of the work order.                                                *)

\* The starts a PATCH may leave, by what it does to the field.
StartsOf(r) ==
    CASE r.planned = "set"   -> Starts
      [] r.planned = "clear" -> {None}
      [] OTHER               -> {start}

\* The dates are checked with the transition, on what the handler has read.
HandleDates(h, r) ==
    /\ Handle(h, r)
    /\ IF r.op = "PATCH" /\ job'[h].stage = "VALIDATED"
       THEN \E s \in StartsOf(r) :
                /\ InOrder(s, due)
                /\ asked' = [asked EXCEPT ![h] = IF r.planned = "keep" THEN None ELSE s]
       ELSE UNCHANGED asked
    /\ UNCHANGED <<zone, start, due>>

Done(h) == asked' = [asked EXCEPT ![h] = None]

CommitDates(h) ==
    LET r == job[h].request
        written == r.op = "PATCH" /\ r.planned # "keep" /\ ~Replayed(r) /\ ~Reused(r)
    IN  /\ Commit(h)
        /\ start' = IF written THEN asked[h] ELSE start
        /\ Done(h)
        /\ UNCHANGED <<zone, due>>

EndDates(h) ==
    /\ End(h)
    /\ Done(h)
    /\ UNCHANGED <<zone, start, due>>

---------------------------------------------------------------------------
(* POST .../reschedule.                                                    *)

\* Work without a start keeps its due date; otherwise both move by the days
\* between the day of the start and the target.
rescheduleWorkOrderDates(target) ==
    IF start = None
    THEN [start |-> zonedDateTimeToUtc(zone, target * DayLength + defaultHour), due |-> due]
    ELSE LET days == target - localDateKey(zone, start)
         IN  [start |-> shiftInstantByLocalDays(zone, start, days),
              due |-> IF due = None THEN None ELSE shiftInstantByLocalDays(zone, due, days)]

RescheduleTo(target) ==
    LET dates == rescheduleWorkOrderDates(target)
    IN  /\ Reschedule
        /\ InOrder(dates.start, dates.due)
        /\ InOrder(dates.due, MaxInstant)
        /\ start' = dates.start
        /\ due' = dates.due
        /\ UNCHANGED <<zone, asked>>

---------------------------------------------------------------------------

PlanningInit ==
    /\ Init
    /\ zone \in Zones
    /\ start = None
    /\ due \in Dues \cup {None}
    /\ asked = [h \in Handlers |-> None]

PlanningNext ==
    \/ \E h \in Handlers :
         \/ \E r \in Requests : HandleDates(h, r)
         \/ CommitDates(h)
         \/ EndDates(h)
    \/ \E target \in Days : RescheduleTo(target)

PlanningSpec == PlanningInit /\ [][PlanningNext]_planVars

---------------------------------------------------------------------------
(* Properties.                                                             *)

\* Work moved on the calendar starts on the day it was moved to and at the same
\* time of day, also across a change of the clocks and from a day to which it
\* was moved before; and its due date keeps its distance in days, and its time
\* of day (rescheduleWorkOrderDates, "preserves local start and due times across
\* the spring DST boundary").
ReschedulingKeepsTheClock ==
    [][\A target \in Days : RescheduleTo(target) =>
        LET days == target - localDateKey(zone, start)
            time == IF start = None THEN defaultHour ELSE timeOfDay(zone, start)
        IN  /\ Kept(zone, start', target * DayLength + time)
            /\ due # None /\ start # None =>
                 Kept(zone, due', localTime(zone, due) + days * DayLength)
    ]_planVars
============================================================================
