-------------------------- MODULE PlanGeneration --------------------------
(***************************************************************************)
(* Maintenance plans and the runs that turn their due occurrences into     *)
(* work orders (lib/maintenance/scheduler.ts and meter-scheduler.ts, and   *)
(* the plan routes of app/api/maintenance-plans).                          *)
(*                                                                         *)
(* The occurrences of a plan are points of an axis: due dates of a         *)
(* calendar plan, thresholds of a meter plan.  The two schedulers are the  *)
(* same algorithm and one set of actions here.  A run lists the plans,     *)
(* and from then on works with what it read: every query and every         *)
(* transaction after that is a step, and other runs and edits come in      *)
(* between.  Dates are numbered, so that advanceCalendarDue adds the       *)
(* frequency of the plan, and fails where the clock of the organization    *)
(* skips the next date; months of different length are left out.           *)
(***************************************************************************)
EXTENDS Naturals

CONSTANTS
    Plans,
    Runs,           \* requests at work at one time
    MaxPoint,       \* bound: the points that plans are set to and runs reach
    Frequencies,
    Skipped,        \* dates that the clock, put forward, does not come to
    MaxOccurrences, \* MAX_OCCURRENCES_PER_PLAN, MAX_THRESHOLDS_PER_PLAN
    MaxEdits,       \* bound: edits of each plan and of the asset
    MaxStops,       \* bound: processes that die
    Messages,       \* messages of a device
    None

ASSUME FrequenciesAssumption == Frequencies \subseteq Nat \ {0}
ASSUME SkippedAssumption == Skipped \subseteq Nat
ASSUME BoundsAssumption == {MaxPoint, MaxOccurrences, MaxEdits, MaxStops} \subseteq Nat

Points == 1..MaxPoint

Modes == {"CALENDAR", "METER"}

ASSUME PlanNoneAssumption == None \notin Nat \cup Plans \cup Messages \cup Modes

VARIABLES
    plan,       \* the MaintenancePlan rows
    orders,     \* for each plan the occurrences that have a work order
    archived,   \* whether the asset of the plans is archived
    run,        \* what each request is doing
    edits,      \* how often each plan or its asset was edited
    stops       \* processes that died

generationVars == <<plan, orders, archived, run, edits, stops>>

MaintenancePlan ==
    [mode: Modes \cup {None}, active: BOOLEAN, due: Nat \cup {None},
     every: Frequencies \cup {None}]

NoPlan == [mode |-> None, active |-> FALSE, due |-> None, every |-> None]

\* What a run read of a plan when it listed it.
Listing == [plan: Plans, due: Nat, every: Frequencies]

\* reach is the date or the meter value up to which the run generates; plan,
\* at, every and count are the locals of its loops; message is what the request
\* was sent for.  touched is history: the plans edited since the listing, or
\* moved by a stale frequency.
Run ==
    [stage: {"IDLE", "SAVING", "LISTING", "LOOKING", "FOUND", "CREATING", "DONE"},
     mode: Modes, reach: Nat, rest: SUBSET Listing,
     plan: Plans \cup {None}, at: Nat, every: Frequencies \cup {None}, count: Nat,
     message: Messages \cup {None}, touched: SUBSET Plans]

Idle ==
    [stage |-> "IDLE", mode |-> "CALENDAR", reach |-> 0, rest |-> {},
     plan |-> None, at |-> 0, every |-> None, count |-> 0,
     message |-> None, touched |-> {}]

GenerationTypeOK ==
    /\ plan \in [Plans -> MaintenancePlan]
    /\ orders \in [Plans -> SUBSET Nat]
    /\ archived \in BOOLEAN
    /\ run \in [Runs -> Run]
    /\ edits \in [Plans -> Nat]
    /\ stops \in Nat

GenerationInit ==
    /\ plan = [p \in Plans |-> NoPlan]
    /\ orders = [p \in Plans |-> {}]
    /\ archived = FALSE
    /\ run = [r \in Runs |-> Idle]
    /\ edits = [p \in Plans |-> 0]
    /\ stops = 0

---------------------------------------------------------------------------
(* Plans.                                                                  *)

\* History: plan p changes under the hands of run r.
Touched(r, p) ==
    IF run[r].stage = "IDLE" THEN run[r] ELSE [run[r] EXCEPT !.touched = @ \cup {p}]

Write(p, row) ==
    /\ edits[p] < MaxEdits
    /\ edits' = [edits EXCEPT ![p] = @ + 1]
    /\ plan' = [plan EXCEPT ![p] = row]
    /\ run' = [r \in Runs |-> Touched(r, p)]
    /\ UNCHANGED <<orders, archived, stops>>

createPlan(p, mode, due, every) ==
    /\ plan[p].mode = None
    /\ ~archived
    /\ Write(p, [mode |-> mode, active |-> TRUE, due |-> due, every |-> every])

\* Mode is immutable, and only a calendar plan may be left without a date.
updatePlan(p, active, due, every) ==
    /\ plan[p].mode # None
    /\ due = None => plan[p].mode = "CALENDAR"
    /\ Write(p, [mode |-> plan[p].mode, active |-> active, due |-> due, every |-> every])

\* An edit of all plans of the asset.  Nothing brings it back.
archiveAsset ==
    /\ ~archived
    /\ \A p \in Plans : edits[p] < MaxEdits
    /\ archived' = TRUE
    /\ edits' = [p \in Plans |-> edits[p] + 1]
    /\ UNCHANGED <<plan, orders, run, stops>>

PlanStep ==
    \/ \E p \in Plans, every \in Frequencies :
         \/ \E mode \in Modes, due \in Points \ Skipped : createPlan(p, mode, due, every)
         \/ \E active \in BOOLEAN, due \in (Points \ Skipped) \cup {None, plan[p].due} :
              updatePlan(p, active, due, every)
    \/ archiveAsset

---------------------------------------------------------------------------
(* Runs.                                                                   *)

\* The plans a run lists: dueness is compared with the row of that moment.
Listed(mode, reach) ==
    {p \in Plans :
        /\ plan[p].mode = mode /\ plan[p].active /\ ~archived
        /\ plan[p].due # None /\ plan[p].due <= reach}

\* The run takes up the next plan it listed, in the order of the due points,
\* or has come to its end.
TakeUpNext(begun) ==
    IF begun.rest = {}
    THEN {[begun EXCEPT !.stage = "DONE", !.plan = None, !.at = 0, !.every = None, !.count = 0]}
    ELSE {[begun EXCEPT !.stage = "LOOKING", !.rest = @ \ {next}, !.plan = next.plan,
                        !.at = next.due, !.every = next.every, !.count = 0] :
            next \in {n \in begun.rest : \A other \in begun.rest : n.due <= other.due}}

Goes(r, next) == run' = [run EXCEPT ![r] = next]

\* The query for the plans that are due.
ListPlans(r, begun) ==
    \E b \in TakeUpNext([begun EXCEPT !.touched = {},
                !.rest = {[plan |-> p, due |-> plan[p].due, every |-> plan[p].every] :
                            p \in Listed(begun.mode, begun.reach)}]) :
        Goes(r, b)

\* advanceCalendarDue: the next date, which the loop needs before it looks for a
\* work order, must exist.
Unresolved(r) == run[r].mode = "CALENDAR" /\ run[r].at + run[r].every \in Skipped

\* SCHEDULER_LIMIT, an unresolved date and PLAN_MOVED end the whole run.
Fail(r) == Goes(r, Idle)

\* The head of the loop over occurrences, and the query for a work order
\* that has the number of this one.
LookForOrder(r) ==
    /\ run[r].stage = "LOOKING"
    /\ IF run[r].count = MaxOccurrences \/ Unresolved(r)
       THEN Fail(r)
       ELSE Goes(r, [run[r] EXCEPT
              !.count = @ + 1,
              !.stage = IF run[r].at \in orders[run[r].plan] THEN "FOUND" ELSE "CREATING"])
    /\ UNCHANGED <<plan, orders, archived, edits, stops>>

\* Mutant: the plan is moved wherever it is.
StillActive(p, at) == plan[p].active

StillDue(p, at) == plan[p].active /\ plan[p].due = at

\* The run goes on to its next occurrence, or to its next plan.  A run that
\* moves the plan by a frequency it read before an edit touches it once more.
Onward(r) ==
    LET p == run[r].plan
        next == run[r].at + run[r].every
        stale == StillDue(p, run[r].at) /\ run[r].every # plan[p].every
    IN
    \E b \in IF next <= run[r].reach
            THEN {[run[r] EXCEPT !.stage = "LOOKING", !.at = next]}
            ELSE TakeUpNext(run[r]) :
        run' = [q \in Runs |-> IF q = r THEN b ELSE IF stale THEN Touched(q, p) ELSE run[q]]

\* The plan moves on if it is still where the run believes it to be.
advancePlanDue(p, at, next) ==
    plan' = IF StillDue(p, at) THEN [plan EXCEPT ![p].due = next] ELSE plan

\* Mutant: an occurrence that has its work order is passed over.
SkipExisting(r) ==
    /\ run[r].stage = "FOUND"
    /\ Onward(r)
    /\ UNCHANGED <<plan, orders, archived, edits, stops>>

\* The work order exists already.
AdvanceExisting(r) ==
    /\ run[r].stage = "FOUND"
    /\ advancePlanDue(run[r].plan, run[r].at, run[r].at + run[r].every)
    /\ Onward(r)
    /\ UNCHANGED <<orders, archived, edits, stops>>

\* The transaction that creates the work order and moves the plan on; the
\* unique number refuses a second work order for one occurrence.
generateOccurrence(r) ==
    LET p == run[r].plan
        at == run[r].at
    IN
    /\ run[r].stage = "CREATING"
    /\ \/ /\ at \in orders[p]
          /\ Goes(r, [run[r] EXCEPT !.stage = "FOUND"])
          /\ UNCHANGED <<plan, orders>>
       \/ /\ at \notin orders[p]
          /\ StillDue(p, at)
          /\ orders' = [orders EXCEPT ![p] = @ \cup {at}]
          /\ advancePlanDue(p, at, at + run[r].every)
          /\ Onward(r)
       \/ /\ at \notin orders[p]
          /\ ~StillDue(p, at)
          /\ Fail(r)
          /\ UNCHANGED <<plan, orders>>
    /\ UNCHANGED <<archived, edits, stops>>

\* The process dies; what it has committed stays.
StopRun(r) ==
    /\ run[r].stage # "IDLE"
    /\ stops < MaxStops
    /\ stops' = stops + 1
    /\ Goes(r, Idle)
    /\ UNCHANGED <<plan, orders, archived, edits>>

RunStep(r) ==
    LookForOrder(r) \/ AdvanceExisting(r) \/ generateOccurrence(r)

---------------------------------------------------------------------------

\* A run that comes to its end leaves nothing due within its reach, however
\* many other runs generate the same plans, fail or die: but for the plans
\* edited after it listed them, or moved by a run that knew them before an edit
\* (a work order that exists and one made by another run both move the plan).
NothingLeftDue ==
    \A r \in Runs : run[r].stage = "DONE" =>
        Listed(run[r].mode, run[r].reach) \subseteq run[r].touched

Recurs(p) == INSTANCE Recurrence WITH
    due <- plan[p].due, orders <- orders[p], edits <- edits[p]

\* No occurrence is skipped and none is generated out of turn, by runs that
\* work with what they read before others moved or edited the plan.
PlansRecur ==
    /\ \A p \in Plans : Recurs(p)!Init
    /\ [][\A p \in Plans : [Recurs(p)!Next]_(Recurs(p)!recurrence)]_generationVars
============================================================================
