--------------------------- MODULE MCWorkOrder ---------------------------
(***************************************************************************)
(* Instances of PlanningCalendar, and of WorkOrder with it, for TLC.       *)
(***************************************************************************)
EXTENDS PlanningCalendar, TLC

PatchOf(status, planned, key) ==
    [op |-> "PATCH", status |-> status, planned |-> planned, key |-> key]

ExecutionOf(note, add, tick, untick, key) ==
    [op |-> "EXECUTION", note |-> note, add |-> add, tick |-> tick,
     untick |-> untick, key |-> key]

\* Every transition, some of them under the key, planning with and without the
\* transition it is needed for, and each kind of execution record.
MixedRequests ==
    {PatchOf(status, "keep", None) : status \in Status \ {"APPROVED", "REQUESTED"}}
    \cup {PatchOf(status, "keep", k) : status \in {"APPROVED", "REQUESTED"}, k \in Keys}
    \cup {PatchOf("PLANNED", "set", None), PatchOf(None, "clear", None)}
    \cup {ExecutionOf("set", TRUE, {}, {}, None), ExecutionOf("keep", FALSE, Items, {}, None)}
    \cup {ExecutionOf("clear", FALSE, {}, Items, k) : k \in Keys}

\* Days of four hours.  The clocks of the first organization are put forward at
\* midnight, west of Greenwich; of the second put back in the night, east of it.
TwoZones ==
    {[change |-> 10, before |-> -2, after |-> -1], [change |-> 7, before |-> 2, after |-> 1]}

Symmetric == Permutations(Handlers) \cup Permutations(Keys)
============================================================================
