---------------------------- MODULE SavedViews ----------------------------
(***************************************************************************)
(* The saved views of one user on one board (saved-views.ts).  A view is   *)
(* the newest row of its id in an audit log: creating, changing and        *)
(* deleting one each read the log and then append a row, as separate       *)
(* statements outside any transaction.                                     *)
(*                                                                         *)
(* What a request looks at differs: one view is read from the whole log,   *)
(* newest row first (latestView); the list, which the limit and the names  *)
(* are checked against, from the oldest rows up to a limit                 *)
(* (listScopedSnapshots).  Filters and the order of the list are data and  *)
(* left out; a name stands for all that are the same to nameKey.           *)
(***************************************************************************)
EXTENDS Naturals, Sequences, FiniteSets

CONSTANTS
    SavedViewIds,
    ViewNames,
    Askers,       \* processes that serve a request
    ViewLimit,    \* SAVED_VIEW_LIMIT
    HistoryLimit, \* SAVED_VIEW_HISTORY_LIMIT
    MaxViewRows   \* bound on the log

ASSUME ViewsAssumption ==
    /\ ViewLimit \in Nat
    /\ HistoryLimit \in Nat
    /\ MaxViewRows \in Nat

VARIABLES
    viewLog,  \* the SavedView rows of the audit log, oldest first
    viewJob,  \* what a process has read and is about to append
    clean     \* history: every row was appended to the log it was decided on

viewVars == <<viewLog, viewJob, clean>>

ViewRow == [id : SavedViewIds, name : ViewNames, active : BOOLEAN]

\* "found": a view to be changed is read, its name has yet to be checked.
ViewJob == [at : {"create", "found", "update", "delete"},
            id : SavedViewIds, name : ViewNames, base : Nat]

NoJob == [at |-> "idle"]

ViewsTypeOK ==
    /\ viewLog \in Seq(ViewRow)
    /\ viewJob \in [Askers -> ViewJob \cup {NoJob}]
    /\ clean \in BOOLEAN

ViewsInit ==
    /\ viewLog = <<>>
    /\ viewJob = [h \in Askers |-> NoJob]
    /\ clean = TRUE

-----------------------------------------------------------------------------
(* What is read.                                                           *)

\* Row i is the newest of its view among the first n.
NewestOfView(i, n) == \A j \in (i + 1)..n : viewLog[j].id # viewLog[i].id

\* The views that the first n rows say there are.
Shown(n) == {i \in 1..n : viewLog[i].active /\ NewestOfView(i, n)}

ViewIds(n) == {viewLog[i].id : i \in Shown(n)}

\* The rows that the list is made of.
RowsRead == IF Len(viewLog) <= HistoryLimit THEN Len(viewLog) ELSE HistoryLimit

NameTaken(n, v) == \E i \in Shown(RowsRead) : viewLog[i].id # v /\ viewLog[i].name = n

\* The id of a new view is random.
Unused(v) ==
    /\ \A i \in 1..Len(viewLog) : viewLog[i].id # v
    /\ \A h \in Askers : viewJob[h] # NoJob => viewJob[h].id # v

-----------------------------------------------------------------------------
(* Requests.                                                               *)
Start(h, at, v, n) ==
    /\ viewJob[h] = NoJob
    /\ viewJob' = [viewJob EXCEPT ![h] = [at |-> at, id |-> v, name |-> n, base |-> Len(viewLog)]]
    /\ UNCHANGED <<viewLog, clean>>

\* createSavedView: one look at the list for the limit and the name.
createSavedView(h, v, n) ==
    /\ Unused(v)
    /\ Cardinality(ViewIds(RowsRead)) < ViewLimit
    /\ ~NameTaken(n, v)
    /\ Start(h, "create", v, n)

\* Fault: the oldest row of the view is read.
oldestView(v, i) ==
    /\ viewLog[i].id = v
    /\ viewLog[i].active
    /\ \A j \in 1..(i - 1) : viewLog[j].id # v

\* latestView, in a request to change the view or to delete it.
latestView(v, i) ==
    /\ viewLog[i].id = v
    /\ viewLog[i].active
    /\ NewestOfView(i, Len(viewLog))

updateSavedView(h, v, n) ==
    /\ \E i \in 1..Len(viewLog) : latestView(v, i)
    /\ Start(h, "found", v, n)

assertUniqueName(h) ==
    /\ viewJob[h].at = "found"
    /\ ~NameTaken(viewJob[h].name, viewJob[h].id)
    /\ viewJob' = [viewJob EXCEPT ![h].at = "update"]
    /\ UNCHANGED <<viewLog, clean>>

deleteSavedView(h, v) ==
    \E i \in 1..Len(viewLog) :
        /\ latestView(v, i)
        /\ Start(h, "delete", v, viewLog[i].name)

\* auditLog.create.
AppendView(h) ==
    LET j == viewJob[h]
    IN  /\ j.at \in {"create", "update", "delete"}
        /\ Len(viewLog) < MaxViewRows
        /\ viewLog' = Append(viewLog, [id |-> j.id, name |-> j.name, active |-> j.at # "delete"])
        /\ clean' = (clean /\ j.base = Len(viewLog))
        /\ viewJob' = [viewJob EXCEPT ![h] = NoJob]

\* A name is taken, or the process dies.
EndView(h) ==
    /\ viewJob[h] # NoJob
    /\ viewJob' = [viewJob EXCEPT ![h] = NoJob]
    /\ UNCHANGED <<viewLog, clean>>

ViewsNext ==
    \E h \in Askers :
        \/ \E v \in SavedViewIds, n \in ViewNames : createSavedView(h, v, n) \/ updateSavedView(h, v, n)
        \/ \E v \in SavedViewIds : deleteSavedView(h, v)
        \/ assertUniqueName(h)
        \/ AppendView(h)
        \/ EndView(h)

ViewsSpec == ViewsInit /\ [][ViewsNext]_viewVars

-----------------------------------------------------------------------------
DeletedStaysDeleted ==
    \A i, j \in 1..Len(viewLog) :
        i < j /\ viewLog[i].id = viewLog[j].id /\ ~viewLog[i].active => ~viewLog[j].active

NamesAreUnique ==
    \A i, j \in Shown(Len(viewLog)) : viewLog[i].name = viewLog[j].name => i = j

\* As long as requests do not overlap: a view that was deleted stays deleted;
\* and until the log has outgrown what the list reads of it, a user has no two
\* views of one name and no more than the limit (VIEW_NAME_CONFLICT,
\* VIEW_LIMIT_REACHED).
ViewsAreConsistent ==
    clean =>
        /\ DeletedStaysDeleted
        /\ Len(viewLog) <= HistoryLimit + 1 =>
               NamesAreUnique /\ Cardinality(ViewIds(Len(viewLog))) <= ViewLimit
=============================================================================
