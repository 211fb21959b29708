--------------------------- MODULE QualityEvent ---------------------------
(***************************************************************************)
(* One quality event, from its report to its closure and back              *)
(* (lib/quality/events.ts), and the request that closes it                 *)
(* (app/api/quality/events/[eventId]/route.ts).                            *)
(*                                                                         *)
(* The record is the newest row of an append-only log.  Every function     *)
(* that writes one runs in a Serializable transaction and is one action;   *)
(* a conflict is retried or reported and changes nothing.  The route that  *)
(* closes an event is not such a transaction: it reads the CAPA and the 8D *)
(* first, each in a query of its own, and closes the event afterwards.     *)
(*                                                                         *)
(* Texts, links, dates and owners are left out: a containment is there or  *)
(* not, completed or not.  Members who may not act change nothing.         *)
(***************************************************************************)
EXTENDS Naturals

CONSTANT Closers    \* requests that close the event, at work at one time

VARIABLES
    event,      \* the newest snapshot of the QualityEvent
    closing     \* what each closing request has found in order

eventVars == <<event, closing>>

\* raced is history: the request that closed the event was overtaken by a
\* write to the CAPA or the 8D after it had read them.
QualityEventSnapshot ==
    [status: {"NONE", "OPEN", "CONTAINED", "INVESTIGATING", "CLOSED"},
     containment: {"NONE", "RECORDED", "COMPLETED"},
     raced: BOOLEAN]

\* The workspaces a closing request looks at.
Gates == {"CAPA", "EIGHT_D"}

\* overtaken is history.
Closing == [passed: SUBSET Gates, overtaken: BOOLEAN]

NotClosing == [passed |-> {}, overtaken |-> FALSE]

EventTypeOK ==
    /\ event \in QualityEventSnapshot
    /\ closing \in [Closers -> Closing]

EventInit ==
    /\ event = [status |-> "NONE", containment |-> "NONE", raced |-> FALSE]
    /\ closing = [r \in Closers |-> NotClosing]

---------------------------------------------------------------------------

\* A second request with the key of the event finds the event and writes
\* nothing.
createQualityEvent ==
    /\ event.status = "NONE"
    /\ event' = [event EXCEPT !.status = "OPEN"]
    /\ UNCHANGED closing

\* completed is FALSE when the request clears completedAt.
setImmediateContainment(completed) ==
    /\ event.status \notin {"NONE", "CLOSED"}
    /\ event' = [event EXCEPT
         !.containment = IF completed THEN "COMPLETED" ELSE "RECORDED",
         !.status = IF @ = "OPEN" THEN "CONTAINED" ELSE @]
    /\ UNCHANGED closing

startInvestigation ==
    /\ event.status \in {"OPEN", "CONTAINED"}
    /\ event' = [event EXCEPT !.status = "INVESTIGATING"]
    /\ UNCHANGED closing

reopenEvent ==
    /\ event.status = "CLOSED"
    /\ event' = [event EXCEPT !.status = "INVESTIGATING", !.raced = FALSE]
    /\ UNCHANGED closing

\* The CLOSE branch of transitionStatus.
MayClose ==
    /\ event.status \in {"CONTAINED", "INVESTIGATING"}
    /\ event.containment # "NONE"

\* One of the two workspaces has been read and does not stand in the way.
PassGate(r, gate) ==
    /\ gate \notin closing[r].passed
    /\ closing' = [closing EXCEPT ![r].passed = @ \cup {gate}]
    /\ UNCHANGED event

\* The request has passed both gates and closes the event.
CloseEvent(r) ==
    /\ closing[r].passed = Gates
    /\ MayClose
    /\ event' = [event EXCEPT !.status = "CLOSED", !.raced = closing[r].overtaken]
    /\ closing' = [closing EXCEPT ![r] = NotClosing]

\* The request is refused, or its process dies.
GiveUpClosing(r) ==
    /\ closing[r].passed # {}
    /\ closing' = [closing EXCEPT ![r] = NotClosing]
    /\ UNCHANGED event

\* Part of every write of a record that the gate looks at.
Overtake(gate) ==
    closing' = [r \in Closers |->
        IF gate \in closing[r].passed THEN [closing[r] EXCEPT !.overtaken = TRUE]
        ELSE closing[r]]

EventStep ==
    \/ createQualityEvent
    \/ \E completed \in BOOLEAN : setImmediateContainment(completed)
    \/ startInvestigation
    \/ reopenEvent
    \/ \E r \in Closers : CloseEvent(r) \/ GiveUpClosing(r)
============================================================================
