------------------------- MODULE WebhookDelivery -------------------------
(***************************************************************************)
(* Outbound webhooks of one site: the integration events, the runs of the  *)
(* worker, the retries, the dead letters and their replay                  *)
(* (lib/webhooks/*.ts, lib/integrations/*.ts).                             *)
(*                                                                         *)
(* A run of the worker is a request that a timer makes; nothing keeps two  *)
(* of them apart, or a run from the replay of a dead letter.  Deliveries   *)
(* have no row of their own: their state is the newest row of an audit     *)
(* log, and a run dates all rows it writes by the time it began, so a row  *)
(* written later may be dated earlier and be no state at all.  The same    *)
(* goes for the events, which are RECORDED or PROCESSED by their newest    *)
(* row.                                                                    *)
(*                                                                         *)
(* Dates are not numbers here.  newer[h] holds the handlers dated after h, *)
(* outdated[h] the deliveries that have a row dated after h, and           *)
(* younger[h] the events that occurred after h.                            *)
(***************************************************************************)
EXTENDS Integers

CONSTANTS
    Subscriptions,
    Events,         \* numbers, in the order the events are recorded
    Handlers,       \* requests the server works on at one time
    maxAttempts,
    MaxOverlaps,    \* bound: how many requests begin while another is at work
    MaxStops,       \* bound: how many die
    MaxReplays,     \* bound: how often people ask for a replay
    None

ASSUME AttemptAssumption == maxAttempts \in Nat \ {0}
ASSUME EventAssumption == Events \subseteq Nat
ASSUME BoundAssumption == MaxOverlaps \in Nat /\ MaxStops \in Nat /\ MaxReplays \in Nat

VARIABLES
    subscription,   \* the state of each subscription
    event,          \* the newest action on each event
    addressees,     \* per event, the subscriptions dated before it
    made,           \* history: per event, those whose row was there when it occurred
    row,            \* per delivery, its newest row
    letter,         \* per delivery, its dead letter
    run,            \* per handler, how far its loops are
    sending,        \* per handler, its call of deliverWebhook
    newer, outdated, younger,
    delivered,      \* history: deliveries with a DELIVERED row
    overlaps, stops, replays

log == <<subscription, event, addressees, made, row, letter>>
dates == <<newer, outdated, younger>>
work == <<run, sending, dates>>
history == <<delivered, overlaps, stops, replays>>
vars == <<log, work, history>>

Deliveries == Subscriptions \X Events

NoRow == [action |-> "NONE", attempt |-> 0, due |-> FALSE, behind |-> FALSE]

\* behind: too many newer rows for the scan of the retries to get to it.
Row == [action: {"NONE", "FAILED", "DELIVERED", "DEAD_LETTERED"},
        attempt: 0..maxAttempts, due: BOOLEAN, behind: BOOLEAN]

\* A delivery to try again, with the attempts made so far.
Attempt == [delivery: Deliveries, attempt: 0..(maxAttempts - 1)]

Sending == [delivery: Deliveries, attempt: 1..maxAttempts,
            stage: {"POST", "SUCCEEDED", "RESOLVING", "FAILED", "DEAD", "LETTERED"}]

Run == [stage: {"RETRYING", "LISTED", "DELIVERING", "REPLAYING"}, retries: SUBSET Attempt,
        subs: SUBSET Subscriptions, events: SUBSET Events, left: SUBSET Subscriptions]

ASSUME NoneAssumption == None \notin Run \cup Sending

WebhookTypeOK ==
    /\ subscription \in [Subscriptions -> {"NONE", "DATED", "ACTIVE", "REVOKED"}]
    /\ event \in [Events -> {"NONE", "OCCURRED", "RECORDED", "PROCESSED"}]
    /\ addressees \in [Events -> SUBSET Subscriptions]
    /\ made \in [Events -> SUBSET Subscriptions]
    /\ row \in [Deliveries -> Row]
    /\ letter \in [Deliveries -> {"NONE", "OPEN", "RESOLVED"}]
    /\ run \in [Handlers -> Run \cup {None}]
    /\ sending \in [Handlers -> Sending \cup {None}]
    /\ newer \in [Handlers -> SUBSET Handlers]
    /\ outdated \in [Handlers -> SUBSET Deliveries]
    /\ younger \in [Handlers -> SUBSET Events]
    /\ delivered \subseteq Deliveries
    /\ overlaps \in 0..MaxOverlaps /\ stops \in 0..MaxStops /\ replays \in 0..MaxReplays

---------------------------------------------------------------------------
(* Requests and their dates.                                               *)

Busy == {h \in Handlers : run[h] # None}

Begins(h, r) ==
    /\ run[h] = None
    /\ run' = [run EXCEPT ![h] = r]
    /\ IF Busy = {} THEN UNCHANGED overlaps
       ELSE overlaps < MaxOverlaps /\ overlaps' = overlaps + 1

\* From now on h writes rows of this moment.
Dates(h) ==
    /\ newer' = [g \in Handlers |->
            IF g = h THEN {} ELSE IF g \in Busy THEN newer[g] \cup {h} ELSE newer[g]]
    /\ outdated' = [outdated EXCEPT ![h] = {}]
    /\ younger' = [younger EXCEPT ![h] = {}]

Ends(h) ==
    /\ run' = [run EXCEPT ![h] = None]
    /\ sending' = [sending EXCEPT ![h] = None]
    /\ newer' = [g \in Handlers |-> IF g = h THEN {} ELSE newer[g] \ {h}]
    /\ outdated' = [outdated EXCEPT ![h] = {}]
    /\ younger' = [younger EXCEPT ![h] = {}]

\* h writes a row; it is the newest unless one is dated later.
Writes(h, d, action, attempt) ==
    /\ row' = IF d \in outdated[h] THEN row
              ELSE [row EXCEPT ![d] =
                        [action |-> action, attempt |-> attempt, due |-> FALSE, behind |-> FALSE]]
    /\ outdated' = [g \in Handlers |->
            IF h \in newer[g] THEN outdated[g] \cup {d} ELSE outdated[g]]
    /\ UNCHANGED <<newer, younger>>

---------------------------------------------------------------------------
(* Subscriptions and events.                                               *)

\* createWebhookSubscription takes its date,
DateSubscription(s) ==
    /\ subscription[s] = "NONE"
    /\ subscription' = [subscription EXCEPT ![s] = "DATED"]
    /\ UNCHANGED <<event, addressees, made, row, letter, work, history>>

\* and then inserts the row, unless it dies before.
CreateSubscription(s) ==
    /\ subscription[s] = "DATED"
    /\ subscription' = [subscription EXCEPT ![s] = "ACTIVE"]
    /\ UNCHANGED <<event, addressees, made, row, letter, work, history>>

RevokeSubscription(s) ==
    /\ subscription[s] = "ACTIVE"
    /\ subscription' = [subscription EXCEPT ![s] = "REVOKED"]
    /\ UNCHANGED <<event, addressees, made, row, letter, work, history>>

\* An event occurs when its work order is created, which gives it its date.
Occur(e) ==
    /\ event[e] = "NONE"
    /\ \A f \in Events : f < e => event[f] # "NONE"
    /\ event' = [event EXCEPT ![e] = "OCCURRED"]
    /\ addressees' = [addressees EXCEPT ![e] = {s \in Subscriptions : subscription[s] # "NONE"}]
    /\ made' = [made EXCEPT ![e] = {s \in Subscriptions : subscription[s] \in {"ACTIVE", "REVOKED"}}]
    /\ younger' = [h \in Handlers |-> IF h \in Busy THEN younger[h] \cup {e} ELSE younger[h]]
    /\ UNCHANGED <<subscription, row, letter, run, sending, newer, outdated, history>>

\* recordIntegrationEventInTransaction, when the transaction of the work order commits.
RecordEvent(e) ==
    /\ event[e] = "OCCURRED"
    /\ event' = [event EXCEPT ![e] = "RECORDED"]
    /\ UNCHANGED <<subscription, addressees, made, row, letter, work, history>>

\* The next attempt of a failed delivery has come.
FallDue(d) ==
    /\ row[d].action = "FAILED" /\ ~row[d].due
    /\ row' = [row EXCEPT ![d].due = TRUE]
    /\ UNCHANGED <<subscription, event, addressees, made, letter, work, history>>

\* Deliveries of any site write rows: newer ones fill the window the scan reads,
\* or failed ones the number of them it takes, due or not,
FallBehind(d) ==
    /\ row[d].action = "FAILED" /\ ~row[d].behind
    /\ row' = [row EXCEPT ![d].behind = TRUE]
    /\ UNCHANGED <<subscription, event, addressees, made, letter, work, history>>

\* until those are retried.
ComeForward(d) ==
    /\ row[d].behind
    /\ row' = [row EXCEPT ![d].behind = FALSE]
    /\ UNCHANGED <<subscription, event, addressees, made, letter, work, history>>

---------------------------------------------------------------------------
(* processWebhookQueue.                                                    *)

Idle(h, stage) == run[h] # None /\ run[h].stage = stage /\ sending[h] = None

Posts(h, d, attempt) ==
    sending' = [sending EXCEPT ![h] = [delivery |-> d, attempt |-> attempt, stage |-> "POST"]]

\* retryFailedWebhookDeliveries lists, of what its scan gets to, what has failed
\* and is due.
Retriable == {d \in Deliveries :
    /\ row[d].action = "FAILED" /\ ~row[d].behind
    /\ row[d].due /\ row[d].attempt < maxAttempts}

StartRun(h) ==
    /\ Begins(h, [stage |-> "RETRYING",
                  retries |-> {[delivery |-> d, attempt |-> row[d].attempt] : d \in Retriable},
                  subs |-> {}, events |-> {}, left |-> {}])
    /\ Dates(h)
    /\ UNCHANGED <<log, sending, delivered, stops, replays>>

\* It looks again whether the delivery has come to an end meanwhile.
Retry(h, t) ==
    /\ Idle(h, "RETRYING")
    /\ t \in run[h].retries
    /\ run' = [run EXCEPT ![h].retries = @ \ {t}]
    /\ IF /\ subscription[t.delivery[1]] = "ACTIVE"
          /\ row[t.delivery].action \notin {"DELIVERED", "DEAD_LETTERED"}
       THEN Posts(h, t.delivery, t.attempt + 1) ELSE UNCHANGED sending
    /\ UNCHANGED <<log, dates, history>>

\* Fault: a run that finds nobody to serve ends there.
ListSubscriptionsOrEnd(h) ==
    LET active == {s \in Subscriptions : subscription[s] = "ACTIVE"}
    IN  /\ Idle(h, "RETRYING") /\ run[h].retries = {}
        /\ IF active = {} THEN Ends(h)
           ELSE /\ run' = [run EXCEPT ![h].stage = "LISTED", ![h].subs = active]
                /\ UNCHANGED <<sending, dates>>
        /\ UNCHANGED <<log, history>>

ListSubscriptions(h) ==
    /\ Idle(h, "RETRYING") /\ run[h].retries = {}
    /\ run' = [run EXCEPT ![h].stage = "LISTED",
                          ![h].subs = {s \in Subscriptions : subscription[s] = "ACTIVE"}]
    /\ UNCHANGED <<log, sending, dates, history>>

\* listPendingIntegrationEvents.
ListEvents(h) ==
    /\ Idle(h, "LISTED")
    /\ run' = [run EXCEPT ![h].stage = "DELIVERING", ![h].left = run[h].subs,
                          ![h].events = {e \in Events : event[e] = "RECORDED"}]
    /\ UNCHANGED <<log, sending, dates, history>>

First(h, e) == e \in run[h].events /\ \A f \in run[h].events : e <= f

\* Fault: whether there is a row already is not asked.
AlwaysNew(s, e) == s \in addressees[e]

New(s, e) == s \in addressees[e] /\ row[<<s, e>>].action = "NONE"

Deliver(h, s, e) ==
    /\ Idle(h, "DELIVERING")
    /\ First(h, e) /\ s \in run[h].left
    /\ run' = [run EXCEPT ![h].left = @ \ {s}]
    /\ IF New(s, e) THEN Posts(h, <<s, e>>, 1) ELSE UNCHANGED sending
    /\ UNCHANGED <<log, dates, history>>

\* Fault: events are marked with the time it is done.
DatedNow(h, e) == TRUE

\* A mark is dated by the run, and is no state if the event occurred later.
DatedAfter(h, e) == e \notin younger[h]

\* markIntegrationEventProcessed; the advisory lock keeps two of them apart.
MarkProcessed(h, e) ==
    /\ Idle(h, "DELIVERING")
    /\ First(h, e) /\ run[h].left = {}
    /\ run' = [run EXCEPT ![h].events = @ \ {e}, ![h].left = run[h].subs]
    /\ event' = IF DatedAfter(h, e) THEN [event EXCEPT ![e] = "PROCESSED"] ELSE event
    /\ UNCHANGED <<subscription, addressees, made, row, letter, sending, dates, history>>

EndRun(h) ==
    /\ \/ Idle(h, "DELIVERING") /\ run[h].events = {}
       \/ Idle(h, "REPLAYING") /\ run[h].retries = {}
    /\ Ends(h)
    /\ UNCHANGED <<log, history>>

---------------------------------------------------------------------------
(* deliverWebhook.                                                         *)

At(h, stage) == sending[h] # None /\ sending[h].stage = stage

Goes(h, stage) == sending' = [sending EXCEPT ![h].stage = stage]

\* What the endpoint answers, or that nothing was heard of it.
Outcome == {"SUCCESS", "TRANSIENT", "PERMANENT", "NETWORK"}

\* Fault: one attempt too many is put off.
DecideLate(outcome, attempt) ==
    IF outcome = "SUCCESS" THEN "SUCCEEDED"
    ELSE IF attempt <= maxAttempts /\ outcome # "PERMANENT" THEN "FAILED" ELSE "DEAD"

\* The retry policy's decision: the stage the call goes on with.
Decide(outcome, attempt) ==
    IF outcome = "SUCCESS" THEN "SUCCEEDED"
    ELSE IF attempt < maxAttempts /\ outcome # "PERMANENT" THEN "FAILED" ELSE "DEAD"

Post(h, outcome) ==
    /\ At(h, "POST")
    /\ Goes(h, Decide(outcome, sending[h].attempt))
    /\ UNCHANGED <<log, run, dates, history>>

RecordDelivered(h) ==
    LET d == sending[h].delivery
    IN  /\ At(h, "SUCCEEDED")
        /\ Writes(h, d, "DELIVERED", sending[h].attempt)
        /\ delivered' = delivered \cup {d}
        /\ Goes(h, "RESOLVING")
        /\ UNCHANGED <<subscription, event, addressees, made, letter, run,
                       overlaps, stops, replays>>

Returns(h) == sending' = [sending EXCEPT ![h] = None]

\* resolveIntegrationDeadLetter.
Resolve(h) ==
    LET d == sending[h].delivery
    IN  /\ At(h, "RESOLVING")
        /\ letter' = IF letter[d] = "OPEN" THEN [letter EXCEPT ![d] = "RESOLVED"] ELSE letter
        /\ Returns(h)
        /\ UNCHANGED <<subscription, event, addressees, made, row, run, dates, history>>

RecordFailed(h) ==
    /\ At(h, "FAILED")
    /\ Writes(h, sending[h].delivery, "FAILED", sending[h].attempt)
    /\ Returns(h)
    /\ UNCHANGED <<subscription, event, addressees, made, letter, run, history>>

\* recordIntegrationDeadLetter makes the letter, or opens it again.
RecordLetter(h) ==
    /\ At(h, "DEAD")
    /\ letter' = [letter EXCEPT ![sending[h].delivery] = "OPEN"]
    /\ Goes(h, "LETTERED")
    /\ UNCHANGED <<subscription, event, addressees, made, row, run, dates, history>>

RecordDeadLettered(h) ==
    /\ At(h, "LETTERED")
    /\ Writes(h, sending[h].delivery, "DEAD_LETTERED", sending[h].attempt)
    /\ Returns(h)
    /\ UNCHANGED <<subscription, event, addressees, made, letter, run, history>>

---------------------------------------------------------------------------
(* replayWebhookDeadLetter.                                                *)

ReadForReplay(h, d) ==
    /\ letter[d] = "OPEN"
    /\ subscription[d[1]] = "ACTIVE"
    /\ replays < MaxReplays /\ replays' = replays + 1
    /\ Begins(h, [stage |-> "REPLAYING", retries |-> {[delivery |-> d, attempt |-> 0]},
                  subs |-> {}, events |-> {}, left |-> {}])
    /\ UNCHANGED <<log, sending, dates, delivered, stops>>

\* markIntegrationDeadLetterReplayed asks again whether the letter is open.
Replay(h, t) ==
    /\ Idle(h, "REPLAYING")
    /\ t \in run[h].retries
    /\ IF letter[t.delivery] = "OPEN"
       THEN /\ run' = [run EXCEPT ![h].retries = {}]
            /\ Posts(h, t.delivery, 1)
            /\ Dates(h)
       ELSE Ends(h)
    /\ UNCHANGED <<log, history>>

---------------------------------------------------------------------------

\* The process dies, or a statement fails.
Stop(h) ==
    /\ run[h] # None
    /\ stops < MaxStops /\ stops' = stops + 1
    /\ Ends(h)
    /\ UNCHANGED <<log, delivered, overlaps, replays>>

Init ==
    /\ subscription = [s \in Subscriptions |-> "NONE"]
    /\ event = [e \in Events |-> "NONE"]
    /\ addressees = [e \in Events |-> {}]
    /\ made = [e \in Events |-> {}]
    /\ row = [d \in Deliveries |-> NoRow]
    /\ letter = [d \in Deliveries |-> "NONE"]
    /\ run = [h \in Handlers |-> None]
    /\ sending = [h \in Handlers |-> None]
    /\ newer = [h \in Handlers |-> {}]
    /\ outdated = [h \in Handlers |-> {}]
    /\ younger = [h \in Handlers |-> {}]
    /\ delivered = {}
    /\ overlaps = 0 /\ stops = 0 /\ replays = 0

SubscriptionStep == \E s \in Subscriptions :
    DateSubscription(s) \/ CreateSubscription(s) \/ RevokeSubscription(s)

People ==
    \/ SubscriptionStep
    \/ \E e \in Events : Occur(e) \/ RecordEvent(e)

RunStep(h) ==
    \/ \E d \in Deliveries, a \in 0..(maxAttempts - 1) : Retry(h, [delivery |-> d, attempt |-> a])
    \/ ListSubscriptions(h)
    \/ ListEvents(h)
    \/ \E e \in Events : MarkProcessed(h, e) \/ \E s \in Subscriptions : Deliver(h, s, e)
    \/ EndRun(h)
    \/ \E d \in Deliveries : Replay(h, [delivery |-> d, attempt |-> 0])

DeliveryStep(h) ==
    \/ \E outcome \in Outcome : Post(h, outcome)
    \/ RecordDelivered(h) \/ Resolve(h)
    \/ RecordFailed(h)
    \/ RecordLetter(h) \/ RecordDeadLettered(h)

Wait(d) == FallDue(d) \/ FallBehind(d) \/ ComeForward(d)

Start == \E h \in Handlers : StartRun(h)

Next ==
    \/ People
    \/ Start
    \/ \E h \in Handlers : RunStep(h) \/ DeliveryStep(h) \/ Stop(h)
    \/ \E h \in Handlers, d \in Deliveries : ReadForReplay(h, d)
    \/ \E d \in Deliveries : Wait(d)

\* A timer starts the worker again and again, a request that was begun goes on,
\* the endpoint answers or times out, and back-off ends.
Fairness ==
    /\ WF_vars(Start)
    /\ \A h \in Handlers : WF_vars(RunStep(h) \/ DeliveryStep(h))
    /\ \A d \in Deliveries : WF_vars(FallDue(d))

Spec == Init /\ [][Next]_vars

FairSpec == Spec /\ Fairness

---------------------------------------------------------------------------
(* Properties.                                                             *)

Settled(d) == d \in delivered \/ letter[d] = "OPEN" \/ subscription[d[1]] = "REVOKED"

\* An event that was processed is not forgotten for a subscription whose row was
\* there when it occurred: it was delivered, has a failed attempt on record, or
\* lies with the dead letters, wherever runs overlap, replays interfere or
\* processes die, and although a run lists the subscriptions before the events.
\* (One that is dated, and not yet inserted, may lose the event.)
NothingForgotten ==
    \A s \in Subscriptions, e \in Events :
        event[e] = "PROCESSED" /\ s \in made[e] =>
            Settled(<<s, e>>) \/ row[<<s, e>>].action = "FAILED"

\* "Successful deliveries are never resent by the normal worker scan", as long
\* as requests do not overlap.  The exception is a delivery that was replayed,
\* by a process that died before it resolved the dead letter: people may replay
\* it again, and when that fails it is the worker that goes on
\* (replayWebhookDeadLetter, deliverWebhook, retryFailedWebhookDeliveries).
SuccessIsFinal ==
    [][\A h \in Handlers :
        overlaps' = 0 /\ sending[h] = None /\ sending'[h] # None /\ run[h].stage # "REPLAYING" =>
            LET d == sending'[h].delivery IN d \in delivered => letter[d] = "OPEN"]_vars

\* Every event is processed in the end: a run that fails is made up for.
EventsAreProcessed == \A e \in Events : event[e] = "RECORDED" ~> event[e] = "PROCESSED"

\* A failed delivery that the scans go on getting to comes to an end: it is
\* delivered, becomes a dead letter, or the subscription is revoked.  Rows that keep
\* it out of the scan are the only way not to.
FailuresSettle ==
    \A d \in Deliveries : row[d].action = "FAILED" ~> Settled(d) \/ row[d].behind
============================================================================
