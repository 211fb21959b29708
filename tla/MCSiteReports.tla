--------------------------- MODULE MCSiteReports ---------------------------
EXTENDS SiteAnalytics, TLC

CONSTANTS
    Features,   \* bound: how much may be noted beside the status of one work order
    Second,     \* the other failure
    MaxReminders

MCKinds ==
    {[type |-> "CORRECTIVE", priority |-> "URGENT", assetId |-> a] : a \in Assets}

MCEdits ==
    [dueAt: {5}] \cup [plannedStart: {4, 7}] \cup [type: {"PREVENTIVE"}]
    \cup [assigneeId: Users \cup {None}] \cup [teamId: DOMAIN Members]

MCEfforts == {[laborMinutes |-> 2, downtimeMinutes |-> 3]}

\* A zone in the west that puts its clocks forward the hour before midnight;
\* one in the east that skips midnight; one that has an hour twice.
MCZones ==
    {[change |-> 5, before |-> -2, after |-> -1],
     [change |-> 3, before |-> 1, after |-> 2],
     [change |-> 7, before |-> 2, after |-> 1]}

MCFilters ==
    {[assetId |-> None, from |-> 0, to |-> to] : to \in {1, 2}} \cup
    {[assetId |-> a, from |-> 1, to |-> 2] : a \in Assets}

MCMembers == [m1 |-> Users]

MCAges == <<1, 2>>

Noted(w) ==
    LET r == work[w]
        AsMade == IF r.generated THEN [type |-> "PREVENTIVE", priority |-> "NORMAL"]
                  ELSE [type |-> "CORRECTIVE", priority |-> "URGENT"]
    IN  Cardinality({f \in {"assigneeId", "teamId", "plannedStart", "laborMinutes"} : r[f] # None})
          + Cardinality({f \in {"type", "priority"} : r[f] # AsMade[f]})
          + (IF r.dueAt # None THEN 1 ELSE 0)

Reminding == reminders # << >> \/ \E r \in Runs : reminding[r] # Idle

Small ==
    Cardinality(archived) + Len(consumed) + (IF Reminding THEN 1 ELSE 0)
      + Cardinality({u \in Users : capacity[u] # None})
      + MapThenSumSet(Noted, Reported) <= IF Second \in Reported THEN 0 ELSE Features

\* The second failure of the asset is repaired without ado, and nothing is noted
\* of the first then.
Plain ==
    Second \in Reported =>
        /\ ~work[Second].generated
        /\ work[Second].status \notin {"PLANNED", "BLOCKED", "CANCELLED"}

AtWorkOnReminders == {r \in Runs : reminding[r] # Idle}

Overlapping == Cardinality(AtWorkOnReminders) > 1

\* Reminders are two at most, of one work order that is generated at first.  While
\* runs overlap it is not cancelled, no time passes, and no reminder is dismissed.
FewReminders ==
    Reminding =>
        /\ Cardinality(DOMAIN reminders) <= MaxReminders
        /\ \A w \in Reported :
            /\ work[w].requestedAt = Min(Instants) /\ work[w].dueAt # Min(Instants)
            /\ work[w].status \in {"APPROVED", "CANCELLED"}
        /\ Overlapping =>
            /\ now = Min(Instants)
            /\ \A w \in Reported : work[w].status # "CANCELLED"
            /\ Reminded("DISMISSED") = {}

\* A run expires what is past as soon as it has begun.
AtOnce == \A r \in Runs : reminding[r] = Idle /\ reminding'[r] # Idle => reminding'[r].at = now

MCNext == SiteNext /\ Small' /\ Plain' /\ FewReminders' /\ AtOnce

\* Runs are interchangeable.
Symmetric == Permutations(Runs)

MCSpec == SiteInit /\ [][MCNext]_siteVars
=============================================================================
