--------------------------- MODULE OfflineQueue ---------------------------
(***************************************************************************)
(* The technician's offline write queue                                    *)
(* (lib/pwa/technician-write-queue-client.ts and its page) against the     *)
(* work-order server of module WorkOrder.                                  *)
(*                                                                         *)
(* The queue is a browser database shared by the technician's tabs.  A     *)
(* flush lists it once, then sends the writes of that list one by one,     *)
(* each under its own id as Idempotency-Key, and stops at the first that   *)
(* is not done.  Requests and answers may be late or lost; a request whose *)
(* sender gave up may still be on its way or at work.                      *)
(*                                                                         *)
(* The ids are the numbers of the writes in the order they are queued.     *)
(* Retry times are not modelled: a flush may stop before any write.        *)
(***************************************************************************)
EXTENDS WorkOrder

CONSTANT Tabs

ASSUME KeyAssumption == Keys \subseteq Nat

VARIABLES
    write,      \* the request of each queued write
    fate,       \* NEW, QUEUED, SYNCED or DISCARDED
    conflict,   \* the writes whose last answer was a 409
    flush,      \* per tab, what is left of its list and whether it awaits an answer
    wire,       \* requests under way: their write, and the tab that awaits it
    caller      \* per handler, the tab that awaits its answer

clientVars == <<write, fate, conflict, flush>>
serverVars == <<wo, receipts, job>>
netVars == <<wire, caller>>
queueVars == <<clientVars, serverVars, netVars>>

Queued == {k \in Keys : fate[k] = "QUEUED"}

First(S) == CHOOSE k \in S : \A j \in S : k <= j

Idle == [todo |-> {}, sent |-> FALSE]

QueueTypeOK ==
    /\ WorkOrderTypeOK
    /\ write \in [Keys -> Requests \cup {None}]
    /\ fate \in [Keys -> {"NEW", "QUEUED", "SYNCED", "DISCARDED"}]
    /\ conflict \subseteq Queued
    /\ flush \in [Tabs -> [todo: SUBSET Keys, sent: BOOLEAN]]
    /\ wire \subseteq [key: Keys, tab: Tabs \cup {None}]
    /\ caller \in [Handlers -> Tabs \cup {None}]

---------------------------------------------------------------------------
(* The queue.                                                              *)

\* enqueueTechnicianWrite: the new write comes after all others.
Enqueue(r) ==
    /\ r.key # None /\ fate[r.key] = "NEW"
    /\ \A k \in Keys : k < r.key => fate[k] # "NEW"
    /\ write' = [write EXCEPT ![r.key] = r]
    /\ fate' = [fate EXCEPT ![r.key] = "QUEUED"]
    /\ UNCHANGED <<conflict, flush, serverVars, netVars>>

\* The technician discards a write the server refused with a conflict.
Discard(k) ==
    /\ k \in conflict
    /\ fate' = [fate EXCEPT ![k] = "DISCARDED"]
    /\ conflict' = conflict \ {k}
    /\ UNCHANGED <<write, flush, serverVars, netVars>>

---------------------------------------------------------------------------
(* Flushing: flushTechnicianWrites.                                        *)

StartFlush(t) ==
    /\ flush[t] = Idle /\ Queued # {}
    /\ flush' = [flush EXCEPT ![t].todo = Queued]
    /\ UNCHANGED <<write, fate, conflict, serverVars, netVars>>

Send(t) ==
    /\ flush[t].todo # {} /\ ~flush[t].sent
    /\ flush' = [flush EXCEPT ![t].sent = TRUE]
    /\ wire' = wire \cup {[key |-> First(flush[t].todo), tab |-> t]}
    /\ UNCHANGED <<write, fate, conflict, serverVars, caller>>

\* The next write waits for its retry window, or the tab is closed.
StopFlush(t) ==
    /\ flush[t] # Idle /\ ~flush[t].sent
    /\ flush' = [flush EXCEPT ![t] = Idle]
    /\ UNCHANGED <<write, fate, conflict, serverVars, netVars>>

\* Fault: a write that got no answer does not stop the flush.
CarryOn(t) == [flush[t] EXCEPT !.todo = @ \ {First(@)}, !.sent = FALSE]

\* Fault: a write that got no answer leaves the queue.
LeftByFailure(k) == [fate EXCEPT ![k] = "SYNCED"]

\* What a write is when its request failed: still queued, to be tried again.
AfterFailure(k) == fate

\* What a flush does when its request failed.
StoppedByFailure(t) == Idle

\* No answer: the request or the connection is lost for the tab.  The write is
\* marked for another try (the mark of a conflict goes), unless the tab is closed.
GiveUp(t) ==
    LET k == First(flush[t].todo)
    IN  /\ flush[t].sent
        /\ \E marked \in BOOLEAN :
            conflict' = IF marked THEN conflict \ {k} ELSE conflict
        /\ fate' = AfterFailure(k)
        /\ flush' = [flush EXCEPT ![t] = StoppedByFailure(t)]
        /\ wire' = {IF m.tab = t THEN [m EXCEPT !.tab = None] ELSE m : m \in wire}
        /\ caller' = [h \in Handlers |-> IF caller[h] = t THEN None ELSE caller[h]]
        /\ UNCHANGED <<write, serverVars>>

\* Fault: marking a refused write brings back one that left the queue.
ReceiveAnyWrite(t, k, answer) ==
    IF answer \in {"OK", "NO_CHANGES"}
    THEN /\ fate' = [fate EXCEPT ![k] = IF @ = "QUEUED" THEN "SYNCED" ELSE @]
         /\ conflict' = conflict \ {k}
         /\ flush' = [flush EXCEPT ![t] = [todo |-> @.todo \ {k}, sent |-> FALSE]]
    ELSE /\ conflict' = conflict \cup {k}
         /\ flush' = [flush EXCEPT ![t] = Idle]
         /\ UNCHANGED fate

\* An answer reaches the tab.  NO_CHANGES to a transition counts as done.
Receive(t, k, answer) ==
    IF answer \in {"OK", "NO_CHANGES"}
    THEN /\ fate' = [fate EXCEPT ![k] = IF @ = "QUEUED" THEN "SYNCED" ELSE @]
         /\ conflict' = conflict \ {k}
         /\ flush' = [flush EXCEPT ![t] = [todo |-> @.todo \ {k}, sent |-> FALSE]]
    ELSE /\ conflict' = conflict \cup ({k} \cap Queued)
         /\ flush' = [flush EXCEPT ![t] = Idle]
         /\ UNCHANGED fate

---------------------------------------------------------------------------
(* The network and the server.                                             *)

Arrive(h, m) ==
    /\ Handle(h, write[m.key])
    /\ wire' = wire \ {m}
    /\ caller' = [caller EXCEPT ![h] = m.tab]
    /\ UNCHANGED clientVars

Lose(m) ==
    /\ wire' = wire \ {m}
    /\ UNCHANGED <<clientVars, serverVars, caller>>

ServerCommit(h) == Commit(h) /\ UNCHANGED <<clientVars, netVars>>

Answer(h) ==
    LET t == caller[h]
    IN  /\ t # None /\ job[h].stage = "ANSWERED"
        /\ Receive(t, job[h].request.key, job[h].answer)
        /\ End(h)
        /\ caller' = [caller EXCEPT ![h] = None]
        /\ UNCHANGED <<write, wire>>

\* The server dies at work or its answer is lost; the tab will notice (GiveUp).
EndUnheard(h) ==
    /\ End(h)
    /\ caller' = [caller EXCEPT ![h] = None]
    /\ UNCHANGED <<clientVars, wire>>

\* Somebody else changes the work order, online.
OtherRequest(h, r) ==
    /\ r.key = None
    /\ Handle(h, r)
    /\ UNCHANGED <<clientVars, netVars>>

---------------------------------------------------------------------------

\* The technician is at work when the connection is lost.
QueueInit ==
    /\ wo = [status |-> "IN_PROGRESS", planned |-> FALSE, started |-> TRUE,
             completed |-> FALSE, note |-> FALSE, items |-> [i \in Items |-> "open"]]
    /\ receipts = [k \in Keys |-> <<>>]
    /\ job = [h \in Handlers |-> None]
    /\ write = [k \in Keys |-> None]
    /\ fate = [k \in Keys |-> "NEW"]
    /\ conflict = {}
    /\ flush = [t \in Tabs |-> Idle]
    /\ wire = {}
    /\ caller = [h \in Handlers |-> None]

ClientStep ==
    \/ \E r \in Requests : Enqueue(r)
    \/ \E k \in Keys : Discard(k)
    \/ \E t \in Tabs : StartFlush(t) \/ Send(t) \/ StopFlush(t) \/ GiveUp(t)

ServerStep ==
    \/ \E m \in wire : Lose(m) \/ \E h \in Handlers : Arrive(h, m)
    \/ \E h \in Handlers : ServerCommit(h) \/ Answer(h) \/ EndUnheard(h)
    \/ \E h \in Handlers, r \in Requests : OtherRequest(h, r)

QueueNext == ClientStep \/ ServerStep

QueueSpec == QueueInit /\ [][QueueNext]_queueVars

---------------------------------------------------------------------------
(* Properties.                                                             *)

\* No write is lost: one that left the queue as synced was written, unless the
\* server said there was nothing to change (only transitions are told so).
NoWriteLost ==
    \A k \in Keys :
        fate[k] = "SYNCED" /\ write[k].op = "EXECUTION" => receipts[k] = <<write[k]>>

\* Each write is applied once at most, and once it counts as done, at least once.
WrittenExactlyOnce == KeyAppliedOnce /\ NoWriteLost

\* A write is applied only when every earlier one has left the queue, whatever
\* the tabs, retries and late requests.
WritesInOrder ==
    [][\A k \in Keys : receipts'[k] # receipts[k] =>
        \A j \in Keys : j < k => fate[j] # "QUEUED"]_queueVars
============================================================================
