-------------------------- MODULE MCOfflineQueue --------------------------
(***************************************************************************)
(* What is sent to the server, for TLC: the queued writes of a device, and *)
(* the files of photos, evidence and documents.  They have no state in     *)
(* common, so one moves while the other is where it began.                 *)
(***************************************************************************)
EXTENDS OfflineQueue, StoredFiles, TLC

\* The technician blocks and resumes the work and records a note; somebody else
\* cancels it.
FieldRequests ==
    {[op |-> "PATCH", status |-> status, planned |-> "keep", key |-> k] :
        status \in {"BLOCKED", "IN_PROGRESS"}, k \in Keys}
    \cup {[op |-> "EXECUTION", note |-> "set", add |-> FALSE, tick |-> {},
           untick |-> {}, key |-> k] : k \in Keys}
    \cup {[op |-> "PATCH", status |-> status, planned |-> "keep", key |-> None] :
        status \in {"CANCELLED"}}

SendingInit == QueueInit /\ FilesInit

SendingNext ==
    \/ FilesInit /\ QueueNext /\ UNCHANGED fileVars
    \/ QueueInit /\ FilesNext /\ UNCHANGED queueVars

SendingSpec == SendingInit /\ [][SendingNext]_<<queueVars, fileVars>>

\* Handlers serve the requests of both.
Symmetric == Permutations(Handlers) \cup Permutations(Tabs) \cup Permutations(Contents)
============================================================================
