--------------------------- MODULE WebhookProofs ---------------------------
(***************************************************************************)
(* Proofs about WebhookDelivery, for any subscriptions, events and number  *)
(* of requests at work at one time.                                        *)
(***************************************************************************)
EXTENDS WebhookDelivery, TLAPS

\* Subscription s has an attempt at e on record, or wants none any more.
Tended(s, e) == subscription[s] = "REVOKED" \/ row[<<s, e>>].action # "NONE"

ProcessedAreTended ==
    \A e \in Events : \A s \in made[e] : event[e] = "PROCESSED" => Tended(s, e)

MadeSubscriptionsExist ==
    \A e \in Events : \A s \in made[e] :
        s \in addressees[e] /\ subscription[s] \in {"ACTIVE", "REVOKED"}

\* A row and a letter say no more than what has happened.
RowsTrue ==
    \A d \in Deliveries :
        /\ row[d].action = "DELIVERED" => d \in delivered
        /\ row[d].action = "DEAD_LETTERED" => letter[d] = "OPEN" \/ d \in delivered
        /\ letter[d] = "RESOLVED" => d \in delivered

OutdatedHaveRows == \A h \in Handlers : \A d \in outdated[h] : row[d].action # "NONE"

\* What a call of deliverWebhook has done already.
SendingTrue(j) ==
    /\ j.stage = "RESOLVING" => j.delivery \in delivered /\ row[j.delivery].action # "NONE"
    /\ j.stage = "LETTERED" => letter[j.delivery] = "OPEN" \/ j.delivery \in delivered

SendingsTrue == \A h \in Handlers : sending[h] # None => SendingTrue(sending[h])

\* A run that has listed the subscriptions has all that an event it may mark is
\* for (y: the events that are younger than the run), and has tended those it
\* is through with.
RunFair(r, j, y) ==
    /\ r.stage \in {"LISTED", "DELIVERING"} =>
        \A e \in Events \ y : \A s \in made[e] : s \in r.subs \/ subscription[s] = "REVOKED"
    /\ r.stage = "DELIVERING" =>
        \A e \in r.events \ y : (\A f \in r.events : e <= f) =>
            \A s \in made[e] \ r.left :
                Tended(s, e) \/ (j # None /\ j.delivery = <<s, e>>)

RunsFair == \A h \in Handlers : run[h] # None => RunFair(run[h], sending[h], younger[h])

IInv ==
    /\ WebhookTypeOK
    /\ ProcessedAreTended
    /\ MadeSubscriptionsExist
    /\ RowsTrue
    /\ OutdatedHaveRows
    /\ SendingsTrue
    /\ RunsFair

---------------------------------------------------------------------------
(* The type invariant.                                                     *)

LEMMA BeginsTyped ==
  ASSUME WebhookTypeOK, NEW h \in Handlers, NEW r \in Run, Begins(h, r)
  PROVE  run' \in [Handlers -> Run \cup {None}] /\ overlaps' \in 0..MaxOverlaps
BY BoundAssumption DEF Begins, WebhookTypeOK

LEMMA DatesTyped ==
  ASSUME WebhookTypeOK, NEW h \in Handlers, Dates(h)
  PROVE  /\ newer' \in [Handlers -> SUBSET Handlers]
         /\ outdated' \in [Handlers -> SUBSET Deliveries]
         /\ younger' \in [Handlers -> SUBSET Events]
BY DEF Dates, WebhookTypeOK

LEMMA EndsTyped ==
  ASSUME WebhookTypeOK, NEW h \in Handlers, Ends(h)
  PROVE  /\ run' \in [Handlers -> Run \cup {None}]
         /\ sending' \in [Handlers -> Sending \cup {None}]
         /\ newer' \in [Handlers -> SUBSET Handlers]
         /\ outdated' \in [Handlers -> SUBSET Deliveries]
         /\ younger' \in [Handlers -> SUBSET Events]
BY DEF Ends, WebhookTypeOK

LEMMA WritesTyped ==
  ASSUME WebhookTypeOK, NEW h \in Handlers, NEW d \in Deliveries,
         NEW action \in {"FAILED", "DELIVERED", "DEAD_LETTERED"}, NEW attempt \in 1..maxAttempts,
         Writes(h, d, action, attempt)
  PROVE  /\ row' \in [Deliveries -> Row]
         /\ newer' \in [Handlers -> SUBSET Handlers]
         /\ outdated' \in [Handlers -> SUBSET Deliveries]
         /\ younger' \in [Handlers -> SUBSET Events]
<1>1. [action |-> action, attempt |-> attempt, due |-> FALSE, behind |-> FALSE] \in Row
  BY AttemptAssumption DEF Row
<1>2. row' \in [Deliveries -> Row]
  BY <1>1 DEF Writes, WebhookTypeOK
<1>3. outdated' \in [Handlers -> SUBSET Deliveries]
  BY DEF Writes, WebhookTypeOK
<1>. QED
  BY <1>2, <1>3 DEF Writes, WebhookTypeOK

LEMMA PostsTyped ==
  ASSUME WebhookTypeOK, NEW h \in Handlers, NEW d \in Deliveries, NEW attempt \in 1..maxAttempts,
         Posts(h, d, attempt)
  PROVE  sending' \in [Handlers -> Sending \cup {None}]
BY DEF Posts, WebhookTypeOK, Sending

LEMMA GoesTyped ==
  ASSUME WebhookTypeOK, NEW h \in Handlers, sending[h] # None,
         NEW stage \in {"SUCCEEDED", "RESOLVING", "FAILED", "DEAD", "LETTERED"}, Goes(h, stage)
  PROVE  sending' \in [Handlers -> Sending \cup {None}]
<1>1. sending[h] \in Sending
  BY DEF WebhookTypeOK
<1>2. [sending[h] EXCEPT !.stage = stage] \in Sending
  BY <1>1 DEF Sending
<1>. QED
  BY <1>2 DEF Goes, WebhookTypeOK

\* While a delivery waits, only what its row says of when it is retried changes.
LEMMA WaitStep ==
  ASSUME WebhookTypeOK, NEW d \in Deliveries, Wait(d)
  PROVE  /\ row' \in [Deliveries -> Row]
         /\ \A c \in Deliveries : row'[c].action = row[c].action
         /\ UNCHANGED <<subscription, event, addressees, made, letter, work, history>>
<1>1. PICK r : r \in {[row[d] EXCEPT !.due = TRUE], [row[d] EXCEPT !.behind = TRUE],
                     [row[d] EXCEPT !.behind = FALSE]}
               /\ row' = [row EXCEPT ![d] = r]
  BY DEF Wait, FallDue, FallBehind, ComeForward
<1>2. row[d] \in Row
  BY DEF WebhookTypeOK
<1>3. r \in Row /\ r.action = row[d].action
  BY <1>1, <1>2 DEF Row
<1>. QED
  BY <1>1, <1>3 DEF Wait, FallDue, FallBehind, ComeForward, WebhookTypeOK

LEMMA TypeStep ==
  ASSUME WebhookTypeOK, [Next]_vars
  PROVE  WebhookTypeOK'
<1>. USE DEF WebhookTypeOK
<1>1. CASE UNCHANGED vars
  BY <1>1 DEF vars, log, work, dates, history
<1>2. ASSUME NEW s \in Subscriptions, DateSubscription(s) \/ CreateSubscription(s) \/ RevokeSubscription(s)
      PROVE  WebhookTypeOK'
  BY <1>2 DEF DateSubscription, CreateSubscription, RevokeSubscription, work, dates, history
<1>3. ASSUME NEW e \in Events, Occur(e) \/ RecordEvent(e)
      PROVE  WebhookTypeOK'
  <2>1. CASE Occur(e)
    <3>1. younger' \in [Handlers -> SUBSET Events]
      BY <2>1 DEF Occur
    <3>. QED
      BY <2>1, <3>1 DEF Occur, history
  <2>2. CASE RecordEvent(e)
    BY <2>2 DEF RecordEvent, work, dates, history
  <2>. QED
    BY <1>3, <2>1, <2>2
<1>4. ASSUME NEW d \in Deliveries, Wait(d) PROVE WebhookTypeOK'
  BY <1>4, WaitStep DEF work, dates, history
<1>5. ASSUME NEW h \in Handlers, StartRun(h) PROVE WebhookTypeOK'
  <2>1. {[delivery |-> d, attempt |-> row[d].attempt] : d \in Retriable} \subseteq Attempt
    BY AttemptAssumption DEF Retriable, Attempt, Row
  <2>2. [stage |-> "RETRYING",
         retries |-> {[delivery |-> d, attempt |-> row[d].attempt] : d \in Retriable},
         subs |-> {}, events |-> {}, left |-> {}] \in Run
    BY <2>1 DEF Run
  <2>. QED
    BY <1>5, <2>2, BeginsTyped, DatesTyped DEF StartRun, log
<1>6. ASSUME NEW h \in Handlers, RunStep(h) PROVE WebhookTypeOK'
  <2>1. ASSUME NEW d \in Deliveries, NEW a \in 0..(maxAttempts - 1),
               Retry(h, [delivery |-> d, attempt |-> a])
        PROVE  WebhookTypeOK'
    <3>1. run[h] \in Run
      BY <2>1 DEF Retry, Idle
    <3>2. run' \in [Handlers -> Run \cup {None}]
      BY <2>1, <3>1 DEF Retry, Run
    <3>3. sending' \in [Handlers -> Sending \cup {None}]
      <4>1. a + 1 \in 1..maxAttempts
        BY AttemptAssumption
      <4>2. Posts(h, d, a + 1) \/ sending' = sending
        BY <2>1 DEF Retry
      <4>. QED
        BY <4>1, <4>2, PostsTyped
    <3>. QED
      BY <2>1, <3>2, <3>3 DEF Retry, log, dates, history
  <2>2. CASE ListSubscriptions(h)
    <3>1. run[h] \in Run
      BY <2>2 DEF ListSubscriptions, Idle
    <3>2. run' \in [Handlers -> Run \cup {None}]
      BY <2>2, <3>1 DEF ListSubscriptions, Run
    <3>. QED
      BY <2>2, <3>2 DEF ListSubscriptions, log, dates, history
  <2>3. CASE ListEvents(h)
    <3>1. run[h] \in Run
      BY <2>3 DEF ListEvents, Idle
    <3>2. run' \in [Handlers -> Run \cup {None}]
      BY <2>3, <3>1 DEF ListEvents, Run
    <3>. QED
      BY <2>3, <3>2 DEF ListEvents, log, dates, history
  <2>4. ASSUME NEW e \in Events, MarkProcessed(h, e) PROVE WebhookTypeOK'
    <3>1. run[h] \in Run
      BY <2>4 DEF MarkProcessed, Idle
    <3>2. run' \in [Handlers -> Run \cup {None}]
      BY <2>4, <3>1 DEF MarkProcessed, Run
    <3>. QED
      BY <2>4, <3>2 DEF MarkProcessed, dates, history
  <2>5. ASSUME NEW e \in Events, NEW s \in Subscriptions, Deliver(h, s, e)
        PROVE  WebhookTypeOK'
    <3>1. run[h] \in Run
      BY <2>5 DEF Deliver, Idle
    <3>2. run' \in [Handlers -> Run \cup {None}]
      BY <2>5, <3>1 DEF Deliver, Run
    <3>3. sending' \in [Handlers -> Sending \cup {None}]
      <4>1. <<s, e>> \in Deliveries /\ 1 \in 1..maxAttempts
        BY AttemptAssumption DEF Deliveries
      <4>2. Posts(h, <<s, e>>, 1) \/ sending' = sending
        BY <2>5 DEF Deliver
      <4>. QED
        BY <4>1, <4>2, PostsTyped
    <3>. QED
      BY <2>5, <3>2, <3>3 DEF Deliver, log, dates, history
  <2>6. CASE EndRun(h)
    BY <2>6, EndsTyped DEF EndRun, log, history
  <2>7. ASSUME NEW d \in Deliveries, Replay(h, [delivery |-> d, attempt |-> 0])
        PROVE  WebhookTypeOK'
    <3>1. CASE letter[d] = "OPEN"
      <4>1. run[h] \in Run
        BY <2>7 DEF Replay, Idle
      <4>2. run' \in [Handlers -> Run \cup {None}]
        <5>1. run' = [run EXCEPT ![h] = [run[h] EXCEPT !.retries = {}]]
          BY <2>7, <3>1 DEF Replay
        <5>2. [run[h] EXCEPT !.retries = {}] \in Run
          BY <4>1 DEF Run
        <5>. QED
          BY <5>1, <5>2
      <4>3. sending' \in [Handlers -> Sending \cup {None}]
        <5>1. 1 \in 1..maxAttempts
          BY AttemptAssumption
        <5>. QED
          BY <2>7, <3>1, <5>1, PostsTyped DEF Replay
      <4>. QED
        BY <2>7, <3>1, <4>2, <4>3, DatesTyped DEF Replay, log, history
    <3>2. CASE letter[d] # "OPEN"
      BY <2>7, <3>2, EndsTyped DEF Replay, log, history
    <3>. QED
      BY <3>1, <3>2
  <2>. QED
    BY <1>6, <2>1, <2>2, <2>3, <2>4, <2>5, <2>6, <2>7 DEF RunStep
<1>7. ASSUME NEW h \in Handlers, DeliveryStep(h) PROVE WebhookTypeOK'
  <2>1. sending[h] \in Sending
    BY <1>7 DEF DeliveryStep, Post, RecordDelivered, Resolve, RecordFailed, RecordLetter,
                RecordDeadLettered, At
  <2>2. /\ sending[h] # None
        /\ sending[h].delivery \in Deliveries /\ sending[h].attempt \in 1..maxAttempts
    BY <1>7, <2>1 DEF DeliveryStep, Post, RecordDelivered, Resolve, RecordFailed, RecordLetter,
                RecordDeadLettered, At, Sending
  <2>3. ASSUME NEW outcome \in Outcome, Post(h, outcome) PROVE WebhookTypeOK'
    <3>1. Decide(outcome, sending[h].attempt) \in {"SUCCEEDED", "FAILED", "DEAD"}
      BY DEF Decide
    <3>. QED
      BY <2>2, <2>3, <3>1, GoesTyped DEF Post, log, dates, history
  <2>4. CASE RecordDelivered(h)
    BY <2>2, <2>4, GoesTyped, WritesTyped DEF RecordDelivered
  <2>5. CASE Resolve(h)
    BY <2>2, <2>5 DEF Resolve, Returns, dates, history
  <2>6. CASE RecordFailed(h)
    BY <2>2, <2>6, WritesTyped DEF RecordFailed, Returns, history
  <2>7. CASE RecordLetter(h)
    BY <2>2, <2>7, GoesTyped DEF RecordLetter, dates, history
  <2>8. CASE RecordDeadLettered(h)
    BY <2>2, <2>8, WritesTyped DEF RecordDeadLettered, Returns, history
  <2>. QED
    BY <1>7, <2>3, <2>4, <2>5, <2>6, <2>7, <2>8 DEF DeliveryStep
<1>8. ASSUME NEW h \in Handlers, Stop(h) PROVE WebhookTypeOK'
  BY <1>8, EndsTyped, BoundAssumption DEF Stop, log
<1>9. ASSUME NEW h \in Handlers, NEW d \in Deliveries, ReadForReplay(h, d)
      PROVE  WebhookTypeOK'
  <2>1. [stage |-> "REPLAYING", retries |-> {[delivery |-> d, attempt |-> 0]},
         subs |-> {}, events |-> {}, left |-> {}] \in Run
    BY AttemptAssumption DEF Run, Attempt
  <2>2. replays' \in 0..MaxReplays
    BY <1>9, BoundAssumption DEF ReadForReplay
  <2>. QED
    BY <1>9, <2>1, <2>2, BeginsTyped DEF ReadForReplay, log, dates
<1>. QED
  BY <1>1, <1>2, <1>3, <1>4, <1>5, <1>6, <1>7, <1>8, <1>9 DEF Next, People, SubscriptionStep, Start

\* Subscriptions, events, rows, letters and what requests are about are well
\* typed in every reachable state, for any number of requests.
THEOREM WebhookTypeCorrect == Spec => []WebhookTypeOK
<1>1. Init => WebhookTypeOK
  BY AttemptAssumption, BoundAssumption DEF Init, WebhookTypeOK, NoRow, Row
<1>. QED
  BY <1>1, TypeStep, PTL DEF Spec

---------------------------------------------------------------------------
(* What a step leaves true of the requests.                                *)

\* No step takes back a revocation, a row or a delivery, and a letter is closed
\* only by one.
Grows ==
    /\ \A s \in Subscriptions : subscription[s] = "REVOKED" => subscription'[s] = "REVOKED"
    /\ \A d \in Deliveries : row[d].action # "NONE" => row'[d].action # "NONE"
    /\ delivered \subseteq delivered'
    /\ \A d \in Deliveries : letter[d] = "OPEN" => letter'[d] = "OPEN" \/ d \in delivered'

LEMMA SendingStays ==
  ASSUME Grows, NEW j \in Sending, SendingTrue(j)
  PROVE  SendingTrue(j)'
<1>1. j.delivery \in Deliveries
  BY DEF Sending
<1>. QED
  BY <1>1 DEF SendingTrue, Grows

LEMMA TendedStays ==
  ASSUME Grows, NEW s \in Subscriptions, NEW e \in Events, Tended(s, e)
  PROVE  Tended(s, e)'
<1>1. <<s, e>> \in Deliveries
  BY DEF Deliveries
<1>. QED
  BY <1>1 DEF Tended, Grows

\* A run stays fair although events occur, as long as they are younger than it,
\* and although its call goes on (k in place of j), if that has left a row.
LEMMA RunStays ==
  ASSUME WebhookTypeOK, Grows,
         NEW r \in Run, NEW j \in Sending \cup {None}, NEW k \in Sending \cup {None},
         NEW y \in SUBSET Events, NEW z \in SUBSET Events, y \subseteq z,
         \A e \in Events \ z : made'[e] = made[e],
         j # None => \/ k # None /\ k.delivery = j.delivery
                    \/ row'[j.delivery].action # "NONE",
         RunFair(r, j, y)
  PROVE  RunFair(r, k, z)'
<1>1. ASSUME r.stage \in {"LISTED", "DELIVERING"},
             NEW e \in Events \ z, NEW s \in made'[e]
      PROVE  s \in r.subs \/ subscription'[s] = "REVOKED"
  <2>1. s \in made[e] /\ s \in Subscriptions /\ e \in Events \ y
    BY <1>1 DEF WebhookTypeOK
  <2>2. s \in r.subs \/ subscription[s] = "REVOKED"
    BY <1>1, <2>1 DEF RunFair
  <2>. QED
    BY <2>1, <2>2 DEF Grows
<1>2. ASSUME r.stage = "DELIVERING", NEW e \in r.events \ z, \A f \in r.events : e <= f,
             NEW s \in made'[e] \ r.left
      PROVE  \/ subscription'[s] = "REVOKED" \/ row'[<<s, e>>].action # "NONE"
             \/ k # None /\ k.delivery = <<s, e>>
  <2>1. e \in Events
    BY DEF Run
  <2>2. s \in made[e] \ r.left /\ s \in Subscriptions /\ e \in r.events \ y
    BY <1>2, <2>1 DEF WebhookTypeOK
  <2>3. Tended(s, e) \/ (j # None /\ j.delivery = <<s, e>>)
    BY <1>2, <2>2 DEF RunFair
  <2>4. CASE Tended(s, e)
    BY <2>1, <2>2, <2>4, TendedStays DEF Tended
  <2>5. CASE j # None /\ j.delivery = <<s, e>>
    BY <2>5
  <2>. QED
    BY <2>3, <2>4, <2>5
<1>. QED
  BY <1>1, <1>2 DEF RunFair, Tended

\* A step in which h goes on to r and j, and the others wait.
LEMMA HandlerStep ==
  ASSUME IInv, WebhookTypeOK', Grows,
         NEW h \in Handlers,
         NEW r \in Run \cup {None}, NEW j \in Sending \cup {None}, NEW y \in SUBSET Events,
         run'[h] = r, sending'[h] = j, younger'[h] = y,
         r # None => RunFair(r, j, y)',
         j # None => SendingTrue(j)',
         made' = made,
         \A g \in Handlers \ {h} :
            run'[g] = run[g] /\ sending'[g] = sending[g] /\ younger'[g] = younger[g]
  PROVE  RunsFair' /\ SendingsTrue'
<1>1. ASSUME NEW g \in Handlers, NEW q \in Run, NEW k \in Sending \cup {None},
             NEW z \in SUBSET Events, run'[g] = q, q # None, sending'[g] = k, younger'[g] = z
      PROVE  RunFair(q, k, z)'
  <2>1. CASE g = h
    BY <1>1, <2>1
  <2>2. CASE g # h
    <3>1. run[g] = q /\ sending[g] = k /\ younger[g] = z
      BY <1>1, <2>2
    <3>2. RunFair(q, k, z)
      BY <1>1, <3>1 DEF IInv, RunsFair
    <3>3. WebhookTypeOK /\ \A e \in Events \ z : made'[e] = made[e]
      BY DEF IInv
    <3>. QED
      BY <3>2, <3>3, RunStays
  <2>. QED
    BY <2>1, <2>2
<1>2. ASSUME NEW g \in Handlers, NEW k \in Sending, sending'[g] = k, k # None
      PROVE  SendingTrue(k)'
  <2>1. CASE g = h
    BY <1>2, <2>1
  <2>2. CASE g # h
    <3>1. SendingTrue(k)
      BY <1>2, <2>2 DEF IInv, SendingsTrue
    <3>. QED
      BY <3>1, SendingStays
  <2>. QED
    BY <2>1, <2>2
<1>3. RunsFair'
  <2>1. SUFFICES ASSUME NEW g \in Handlers, run'[g] # None
                 PROVE  RunFair(run[g], sending[g], younger[g])'
    BY DEF RunsFair
  <2>2. PICK q \in Run : q = run'[g]
    BY <2>1 DEF WebhookTypeOK
  <2>3. PICK k \in Sending \cup {None} : k = sending'[g]
    BY DEF WebhookTypeOK
  <2>4. PICK z \in SUBSET Events : z = younger'[g]
    BY DEF WebhookTypeOK
  <2>5. RunFair(q, k, z)'
    BY <1>1, <2>1, <2>2, <2>3, <2>4
  <2>. QED
    BY <2>2, <2>3, <2>4, <2>5 DEF RunFair
<1>4. SendingsTrue'
  <2>1. SUFFICES ASSUME NEW g \in Handlers, sending'[g] # None PROVE SendingTrue(sending[g])'
    BY DEF SendingsTrue
  <2>2. PICK k \in Sending : k = sending'[g]
    BY <2>1 DEF WebhookTypeOK
  <2>3. SendingTrue(k)'
    BY <1>2, <2>1, <2>2
  <2>. QED
    BY <2>2, <2>3 DEF SendingTrue
<1>. QED
  BY <1>3, <1>4

\* A step of people, which no request takes part in.
LEMMA PeopleStep ==
  ASSUME IInv, WebhookTypeOK', Grows, run' = run, sending' = sending,
         \A g \in Handlers : younger[g] \subseteq younger'[g],
         \A g \in Handlers : run[g] # None =>
            \A e \in Events \ younger'[g] : made'[e] = made[e]
  PROVE  RunsFair' /\ SendingsTrue'
<1>1. RunsFair'
  <2>1. SUFFICES ASSUME NEW g \in Handlers, run'[g] # None
                 PROVE  RunFair(run[g], sending[g], younger[g])'
    BY DEF RunsFair
  <2>2. PICK q \in Run : q = run[g]
    BY <2>1 DEF WebhookTypeOK, IInv
  <2>3. PICK k \in Sending \cup {None} : k = sending[g]
    BY DEF WebhookTypeOK, IInv
  <2>4. PICK z \in SUBSET Events : z = younger'[g]
    BY DEF WebhookTypeOK
  <2>5. PICK y \in SUBSET Events : y = younger[g]
    BY DEF WebhookTypeOK, IInv
  <2>6. RunFair(q, k, y)
    BY <2>1, <2>2, <2>3, <2>5 DEF IInv, RunsFair
  <2>7. /\ WebhookTypeOK /\ y \subseteq z
        /\ \A e \in Events \ z : made'[e] = made[e]
    BY <2>1, <2>4, <2>5 DEF IInv
  <2>8. RunFair(q, k, z)'
    BY <2>6, <2>7, RunStays
  <2>. QED
    BY <2>2, <2>3, <2>4, <2>8 DEF RunFair
<1>2. SendingsTrue'
  <2>1. SUFFICES ASSUME NEW g \in Handlers, sending'[g] # None PROVE SendingTrue(sending[g])'
    BY DEF SendingsTrue
  <2>2. PICK k \in Sending : k = sending[g]
    BY <2>1 DEF WebhookTypeOK, IInv
  <2>3. SendingTrue(k)
    BY <2>1, <2>2 DEF IInv, SendingsTrue
  <2>4. SendingTrue(k)'
    BY <2>3, SendingStays
  <2>. QED
    BY <2>2, <2>4 DEF SendingTrue
<1>. QED
  BY <1>1, <1>2

---------------------------------------------------------------------------
(* What a step leaves true of the log.                                     *)

\* Requests that write nothing.
LEMMA QuietStep ==
  ASSUME IInv, UNCHANGED <<log, delivered>>
  PROVE  Grows /\ ProcessedAreTended' /\ MadeSubscriptionsExist' /\ RowsTrue'
BY DEF IInv, log, Grows, ProcessedAreTended, MadeSubscriptionsExist, RowsTrue, Tended

LEMMA QuietDates ==
  ASSUME IInv, row' = row, \A g \in Handlers : outdated'[g] \subseteq outdated[g]
  PROVE  OutdatedHaveRows'
BY DEF IInv, OutdatedHaveRows

\* A row that is written is there, whether it is the newest or not.
LEMMA WriteStep ==
  ASSUME IInv, NEW h \in Handlers, NEW d \in Deliveries,
         NEW action \in {"FAILED", "DELIVERED", "DEAD_LETTERED"}, NEW attempt \in 1..maxAttempts,
         Writes(h, d, action, attempt)
  PROVE  /\ \A c \in Deliveries : row[c].action # "NONE" => row'[c].action # "NONE"
         /\ row'[d].action # "NONE"
         /\ \A c \in Deliveries :
                row'[c].action = row[c].action \/ (c = d /\ row'[c].action = action)
         /\ OutdatedHaveRows'
<1>1. row \in [Deliveries -> Row] /\ outdated \in [Handlers -> SUBSET Deliveries]
  BY DEF IInv, WebhookTypeOK
<1>2. CASE d \in outdated[h]
  <2>1. row' = row /\ row[d].action # "NONE"
    BY <1>2 DEF Writes, IInv, OutdatedHaveRows
  <2>2. OutdatedHaveRows'
    BY <2>1 DEF Writes, IInv, OutdatedHaveRows
  <2>. QED
    BY <2>1, <2>2
<1>3. CASE d \notin outdated[h]
  <2>1. \A c \in Deliveries :
          IF c = d THEN row'[c].action = action ELSE row'[c] = row[c]
    BY <1>1, <1>3 DEF Writes
  <2>2. \A g \in Handlers : \A c \in outdated'[g] : c \in Deliveries /\ (c = d \/ c \in outdated[g])
    BY <1>1 DEF Writes
  <2>3. OutdatedHaveRows'
    BY <2>1, <2>2 DEF IInv, OutdatedHaveRows
  <2>. QED
    BY <2>1, <2>3
<1>. QED
  BY <1>2, <1>3

\* A request that ends leaves what it has written.
LEMMA EndStep ==
  ASSUME IInv, WebhookTypeOK', NEW h \in Handlers, Ends(h), UNCHANGED <<log, delivered>>
  PROVE  IInv'
<1>1. WebhookTypeOK
  BY DEF IInv
<1>2. run'[h] = None /\ sending'[h] = None /\ younger'[h] = {}
  BY <1>1 DEF Ends, WebhookTypeOK
<1>3. \A g \in Handlers \ {h} :
        run'[g] = run[g] /\ sending'[g] = sending[g] /\ younger'[g] = younger[g]
  BY <1>1 DEF Ends, WebhookTypeOK
<1>4. OutdatedHaveRows'
  <2>1. row' = row /\ \A g \in Handlers : outdated'[g] \subseteq outdated[g]
    BY <1>1 DEF Ends, WebhookTypeOK, log
  <2>. QED
    BY <2>1, QuietDates
<1>5. made' = made
  BY DEF log
<1>6. RunsFair' /\ SendingsTrue'
  BY <1>2, <1>3, <1>5, QuietStep, HandlerStep
<1>. QED
  BY <1>4, <1>6, QuietStep DEF IInv

\* A request that goes on to r, with the call j, and writes nothing.
LEMMA GoStep ==
  ASSUME IInv, WebhookTypeOK', NEW h \in Handlers,
         NEW r \in Run, NEW j \in Sending \cup {None}, NEW y \in SUBSET Events,
         run' = [run EXCEPT ![h] = r], sending' = [sending EXCEPT ![h] = j],
         younger' = [younger EXCEPT ![h] = y],
         \A g \in Handlers : outdated'[g] \subseteq outdated[g],
         RunFair(r, j, y), j # None => SendingTrue(j),
         UNCHANGED <<log, delivered>>
  PROVE  IInv'
<1>1. WebhookTypeOK
  BY DEF IInv
<1>2. run'[h] = r /\ sending'[h] = j /\ younger'[h] = y
  BY <1>1 DEF WebhookTypeOK
<1>3. \A g \in Handlers \ {h} :
        run'[g] = run[g] /\ sending'[g] = sending[g] /\ younger'[g] = younger[g]
  BY <1>1 DEF WebhookTypeOK
<1>4. /\ subscription' = subscription /\ made' = made /\ row' = row
      /\ letter' = letter /\ delivered' = delivered
  BY DEF log
<1>5. RunFair(r, j, y)'
  BY <1>4 DEF RunFair, Tended
<1>6. j # None => SendingTrue(j)'
  BY <1>4 DEF SendingTrue
<1>7. RunsFair' /\ SendingsTrue'
  BY <1>2, <1>3, <1>4, <1>5, <1>6, QuietStep, HandlerStep
<1>8. OutdatedHaveRows'
  BY <1>4, QuietDates
<1>. QED
  BY <1>7, <1>8, QuietStep DEF IInv

\* A call j of deliverWebhook that goes on to k, or returns having left a row.
LEMMA CallStep ==
  ASSUME IInv, WebhookTypeOK', Grows, NEW h \in Handlers,
         NEW j \in Sending, NEW k \in Sending \cup {None},
         j # None, sending[h] = j, sending' = [sending EXCEPT ![h] = k],
         UNCHANGED <<run, younger, subscription, event, addressees, made>>,
         RowsTrue', OutdatedHaveRows',
         k # None => SendingTrue(k)',
         (k # None /\ k.delivery = j.delivery) \/ row'[j.delivery].action # "NONE"
  PROVE  IInv'
<1>1. WebhookTypeOK
  BY DEF IInv
<1>2. PICK r \in Run \cup {None} : r = run[h]
  BY <1>1 DEF WebhookTypeOK
<1>3. PICK y \in SUBSET Events : y = younger[h]
  BY <1>1 DEF WebhookTypeOK
<1>4. /\ run'[h] = r /\ sending'[h] = k /\ younger'[h] = y
      /\ \A g \in Handlers \ {h} :
            run'[g] = run[g] /\ sending'[g] = sending[g] /\ younger'[g] = younger[g]
  BY <1>1, <1>2, <1>3 DEF WebhookTypeOK
<1>5. r # None => RunFair(r, k, y)'
  <2>1. SUFFICES ASSUME r # None PROVE RunFair(r, k, y)'
    OBVIOUS
  <2>2. RunFair(r, j, y) /\ r \in Run
    BY <2>1, <1>2, <1>3 DEF IInv, RunsFair
  <2>3. \A e \in Events \ y : made'[e] = made[e]
    OBVIOUS
  <2>. QED
    BY <1>1, <2>2, <2>3, RunStays
<1>6. RunsFair' /\ SendingsTrue'
  BY <1>4, <1>5, HandlerStep
<1>7. ProcessedAreTended'
  <2>1. SUFFICES ASSUME NEW e \in Events, NEW s \in made[e], event[e] = "PROCESSED"
                 PROVE  Tended(s, e)'
    BY DEF ProcessedAreTended
  <2>2. Tended(s, e) /\ s \in Subscriptions
    BY <1>1, <2>1 DEF IInv, ProcessedAreTended, WebhookTypeOK
  <2>. QED
    BY <2>2, TendedStays
<1>8. MadeSubscriptionsExist'
  BY DEF IInv, MadeSubscriptionsExist
<1>. QED
  BY <1>6, <1>7, <1>8 DEF IInv

LEMMA CallInv ==
  ASSUME IInv, WebhookTypeOK', NEW h \in Handlers, DeliveryStep(h)
  PROVE  IInv'
<1>1. PICK j \in Sending : j = sending[h]
  BY DEF IInv, WebhookTypeOK, DeliveryStep, Post, RecordDelivered, Resolve, RecordFailed,
         RecordLetter, RecordDeadLettered, At
<1>2. /\ j # None /\ j.delivery \in Deliveries /\ j.attempt \in 1..maxAttempts
      /\ SendingTrue(j)
  BY <1>1 DEF DeliveryStep, Post, RecordDelivered, Resolve, RecordFailed,
         RecordLetter, RecordDeadLettered, At, Sending, IInv, SendingsTrue
<1>3. ASSUME NEW stage \in {"SUCCEEDED", "RESOLVING", "FAILED", "DEAD", "LETTERED"}
      PROVE  /\ [j EXCEPT !.stage = stage] \in Sending
             /\ [j EXCEPT !.stage = stage].stage = stage
             /\ [j EXCEPT !.stage = stage].delivery = j.delivery
  BY DEF Sending
<1>4. ASSUME NEW stage \in {"SUCCEEDED", "RESOLVING", "FAILED", "DEAD", "LETTERED"},
             Goes(h, stage)
      PROVE  \E k \in Sending \ {None} :
                /\ k.stage = stage /\ k.delivery = j.delivery
                /\ sending' = [sending EXCEPT ![h] = k]
  <2>1. PICK k \in Sending : k = [j EXCEPT !.stage = stage]
    BY <1>3
  <2>2. sending' = [sending EXCEPT ![h] = k]
    BY <1>1, <1>4, <2>1 DEF Goes
  <2>. QED
    BY <1>3, <2>1, <2>2, NoneAssumption
<1>5. WebhookTypeOK
  BY DEF IInv
<1>6. ASSUME NEW outcome \in Outcome, Post(h, outcome) PROVE IInv'
  <2>1. Goes(h, Decide(outcome, j.attempt)) /\ UNCHANGED <<log, run, newer, outdated, younger, delivered>>
    BY <1>1, <1>6 DEF Post, dates, history
  <2>2. Decide(outcome, j.attempt) \in {"SUCCEEDED", "FAILED", "DEAD"}
    BY DEF Decide
  <2>3. PICK k \in Sending \ {None} :
          /\ k.stage \in {"SUCCEEDED", "FAILED", "DEAD"} /\ k.delivery = j.delivery
          /\ sending' = [sending EXCEPT ![h] = k]
    BY <1>4, <2>1, <2>2
  <2>4. SendingTrue(k)'
    BY <2>3 DEF SendingTrue
  <2>5. OutdatedHaveRows'
    BY <2>1 DEF log, IInv, OutdatedHaveRows
  <2>6. UNCHANGED <<run, younger, subscription, event, addressees, made>>
    BY <2>1 DEF log
  <2>. QED
    BY <1>1, <1>2, <2>1, <2>3, <2>4, <2>5, <2>6, QuietStep, CallStep
<1>7. CASE RecordDelivered(h)
  <2>1. /\ Writes(h, j.delivery, "DELIVERED", j.attempt) /\ Goes(h, "RESOLVING")
        /\ delivered' = delivered \cup {j.delivery}
        /\ letter' = letter
        /\ UNCHANGED <<run, younger, subscription, event, addressees, made>>
    BY <1>1, <1>7 DEF RecordDelivered, Writes
  <2>2. PICK k \in Sending \ {None} :
          /\ k.stage = "RESOLVING" /\ k.delivery = j.delivery
          /\ sending' = [sending EXCEPT ![h] = k]
    BY <1>4, <2>1
  <2>3. /\ \A c \in Deliveries : row[c].action # "NONE" => row'[c].action # "NONE"
        /\ row'[j.delivery].action # "NONE"
        /\ \A c \in Deliveries :
            row'[c].action = row[c].action \/ (c = j.delivery /\ row'[c].action = "DELIVERED")
        /\ OutdatedHaveRows'
    BY <1>2, <2>1, WriteStep
  <2>4. Grows
    BY <2>1, <2>3 DEF Grows
  <2>5. RowsTrue'
    BY <2>1, <2>3 DEF IInv, RowsTrue
  <2>6. SendingTrue(k)'
    BY <2>1, <2>2, <2>3 DEF SendingTrue
  <2>. QED
    BY <1>1, <1>2, <2>1, <2>2, <2>3, <2>4, <2>5, <2>6, CallStep
<1>8. CASE Resolve(h)
  <2>1. /\ letter' = IF letter[j.delivery] = "OPEN"
                     THEN [letter EXCEPT ![j.delivery] = "RESOLVED"] ELSE letter
        /\ sending' = [sending EXCEPT ![h] = None]
        /\ row' = row /\ outdated' = outdated /\ delivered' = delivered
        /\ UNCHANGED <<run, younger, subscription, event, addressees, made>>
    BY <1>1, <1>8 DEF Resolve, Returns, dates, history
  <2>2. j.delivery \in delivered /\ row[j.delivery].action # "NONE"
    BY <1>1, <1>2, <1>8 DEF Resolve, At, SendingTrue
  <2>3. \A c \in Deliveries : letter'[c] = letter[c] \/ (c = j.delivery /\ letter'[c] = "RESOLVED")
    BY <1>5, <2>1 DEF WebhookTypeOK
  <2>4. Grows
    BY <2>1, <2>2, <2>3 DEF Grows
  <2>5. RowsTrue'
    BY <2>1, <2>2, <2>3 DEF IInv, RowsTrue
  <2>6. OutdatedHaveRows'
    BY <2>1 DEF IInv, OutdatedHaveRows
  <2>. QED
    BY <1>1, <1>2, <2>1, <2>2, <2>4, <2>5, <2>6, CallStep
<1>9. CASE RecordFailed(h)
  <2>1. /\ Writes(h, j.delivery, "FAILED", j.attempt)
        /\ sending' = [sending EXCEPT ![h] = None]
        /\ letter' = letter /\ delivered' = delivered
        /\ UNCHANGED <<run, younger, subscription, event, addressees, made>>
    BY <1>1, <1>9 DEF RecordFailed, Returns, Writes, history
  <2>2. /\ \A c \in Deliveries : row[c].action # "NONE" => row'[c].action # "NONE"
        /\ row'[j.delivery].action # "NONE"
        /\ \A c \in Deliveries :
            row'[c].action = row[c].action \/ (c = j.delivery /\ row'[c].action = "FAILED")
        /\ OutdatedHaveRows'
    BY <1>2, <2>1, WriteStep
  <2>3. Grows
    BY <2>1, <2>2 DEF Grows
  <2>4. RowsTrue'
    BY <2>1, <2>2 DEF IInv, RowsTrue
  <2>. QED
    BY <1>1, <1>2, <2>1, <2>2, <2>3, <2>4, CallStep
<1>10. CASE RecordLetter(h)
  <2>1. /\ letter' = [letter EXCEPT ![j.delivery] = "OPEN"] /\ Goes(h, "LETTERED")
        /\ row' = row /\ outdated' = outdated /\ delivered' = delivered
        /\ UNCHANGED <<run, younger, subscription, event, addressees, made>>
    BY <1>1, <1>10 DEF RecordLetter, dates, history
  <2>2. PICK k \in Sending \ {None} :
          /\ k.stage = "LETTERED" /\ k.delivery = j.delivery
          /\ sending' = [sending EXCEPT ![h] = k]
    BY <1>4, <2>1
  <2>3. /\ letter'[j.delivery] = "OPEN"
        /\ \A c \in Deliveries : letter'[c] = letter[c] \/ letter'[c] = "OPEN"
    BY <1>2, <1>5, <2>1 DEF WebhookTypeOK
  <2>4. Grows
    BY <2>1, <2>3 DEF Grows
  <2>5. RowsTrue'
    BY <2>1, <2>3 DEF IInv, RowsTrue
  <2>6. SendingTrue(k)' /\ OutdatedHaveRows'
    BY <2>1, <2>2, <2>3 DEF SendingTrue, IInv, OutdatedHaveRows
  <2>. QED
    BY <1>1, <1>2, <2>1, <2>2, <2>4, <2>5, <2>6, CallStep
<1>11. CASE RecordDeadLettered(h)
  <2>1. /\ Writes(h, j.delivery, "DEAD_LETTERED", j.attempt)
        /\ sending' = [sending EXCEPT ![h] = None]
        /\ letter' = letter /\ delivered' = delivered
        /\ UNCHANGED <<run, younger, subscription, event, addressees, made>>
    BY <1>1, <1>11 DEF RecordDeadLettered, Returns, Writes, history
  <2>2. letter[j.delivery] = "OPEN" \/ j.delivery \in delivered
    BY <1>1, <1>2, <1>11 DEF RecordDeadLettered, At, SendingTrue
  <2>3. /\ \A c \in Deliveries : row[c].action # "NONE" => row'[c].action # "NONE"
        /\ row'[j.delivery].action # "NONE"
        /\ \A c \in Deliveries :
            row'[c].action = row[c].action \/ (c = j.delivery /\ row'[c].action = "DEAD_LETTERED")
        /\ OutdatedHaveRows'
    BY <1>2, <2>1, WriteStep
  <2>4. Grows
    BY <2>1, <2>3 DEF Grows
  <2>5. RowsTrue'
    BY <2>1, <2>2, <2>3 DEF IInv, RowsTrue
  <2>. QED
    BY <1>1, <1>2, <2>1, <2>3, <2>4, <2>5, CallStep
<1>. QED
  BY <1>6, <1>7, <1>8, <1>9, <1>10, <1>11 DEF DeliveryStep

---------------------------------------------------------------------------
(* The runs of the worker.                                                 *)

LEMMA RunInv ==
  ASSUME IInv, WebhookTypeOK', NEW h \in Handlers, RunStep(h)
  PROVE  IInv'
<1>1. WebhookTypeOK
  BY DEF IInv
<1>2. ASSUME NEW stage \in {"RETRYING", "LISTED", "DELIVERING", "REPLAYING"}, Idle(h, stage)
      PROVE  /\ run[h] \in Run /\ run[h] # None /\ run[h].stage = stage /\ sending[h] = None
             /\ RunFair(run[h], None, younger[h])
  BY <1>1, <1>2 DEF Idle, IInv, RunsFair, WebhookTypeOK
<1>3. PICK y \in SUBSET Events : y = younger[h] /\ younger = [younger EXCEPT ![h] = y]
  BY <1>1 DEF WebhookTypeOK
<1>4. sending[h] = None => sending = [sending EXCEPT ![h] = None]
  BY <1>1 DEF WebhookTypeOK
\* A post that has only begun rests on nothing.
<1>5. ASSUME NEW d \in Deliveries, NEW attempt \in 1..maxAttempts, Posts(h, d, attempt)
      PROVE  \E k \in Sending \ {None} :
                /\ k.delivery = d /\ SendingTrue(k)
                /\ sending' = [sending EXCEPT ![h] = k]
  <2>1. PICK k \in Sending : k = [delivery |-> d, attempt |-> attempt, stage |-> "POST"]
    BY DEF Sending
  <2>2. SendingTrue(k)
    BY <2>1 DEF SendingTrue
  <2>. QED
    BY <1>5, <2>1, <2>2, NoneAssumption DEF Posts
<1>6. ASSUME NEW d \in Deliveries, NEW a \in 0..(maxAttempts - 1),
             Retry(h, [delivery |-> d, attempt |-> a])
      PROVE  IInv'
  <2>0. Idle(h, "RETRYING")
    BY <1>6 DEF Retry
  <2>1. PICK r \in Run : r = [run[h] EXCEPT !.retries = @ \ {[delivery |-> d, attempt |-> a]}]
    BY <1>2, <2>0 DEF Run
  <2>2. r.stage = "RETRYING"
    BY <1>2, <2>0, <2>1 DEF Run
  <2>3. RunFair(r, None, y) /\ \A k \in Sending : RunFair(r, k, y)
    BY <2>2 DEF RunFair
  <2>4. PICK j \in Sending \cup {None} :
          /\ sending' = [sending EXCEPT ![h] = j]
          /\ j # None => SendingTrue(j)
    <3>1. a + 1 \in 1..maxAttempts
      BY AttemptAssumption
    <3>2. Posts(h, d, a + 1) \/ sending' = sending
      BY <1>6 DEF Retry
    <3>. QED
      BY <1>2, <1>4, <1>5, <2>0, <3>1, <3>2
  <2>5. /\ run' = [run EXCEPT ![h] = r] /\ younger' = younger /\ outdated' = outdated
        /\ UNCHANGED <<log, delivered>>
    BY <1>6, <2>1 DEF Retry, dates, history
  <2>. QED
    BY <1>3, <2>3, <2>4, <2>5, GoStep
<1>7. CASE ListSubscriptions(h)
  <2>0. Idle(h, "RETRYING")
    BY <1>7 DEF ListSubscriptions
  <2>1. PICK r \in Run :
          r = [run[h] EXCEPT !.stage = "LISTED",
                             !.subs = {s \in Subscriptions : subscription[s] = "ACTIVE"}]
    BY <1>2, <2>0 DEF Run
  <2>2. r.stage = "LISTED" /\ r.subs = {s \in Subscriptions : subscription[s] = "ACTIVE"}
    BY <1>2, <2>0, <2>1 DEF Run
  <2>3. RunFair(r, None, y)
    <3>1. ASSUME NEW e \in Events, NEW s \in made[e]
          PROVE  s \in r.subs \/ subscription[s] = "REVOKED"
      <4>1. s \in Subscriptions /\ subscription[s] \in {"ACTIVE", "REVOKED"}
        BY <1>1, <3>1 DEF IInv, MadeSubscriptionsExist, WebhookTypeOK
      <4>. QED
        BY <4>1, <2>2
    <3>. QED
      BY <2>2, <3>1 DEF RunFair
  <2>4. /\ run' = [run EXCEPT ![h] = r] /\ younger' = younger /\ outdated' = outdated
        /\ sending' = [sending EXCEPT ![h] = None]
        /\ UNCHANGED <<log, delivered>>
    BY <1>2, <1>4, <1>7, <2>0, <2>1 DEF ListSubscriptions, dates, history
  <2>. QED
    BY <1>3, <2>3, <2>4, GoStep
<1>8. CASE ListEvents(h)
  <2>0. Idle(h, "LISTED")
    BY <1>8 DEF ListEvents
  <2>1. PICK r \in Run :
          r = [run[h] EXCEPT !.stage = "DELIVERING", !.left = run[h].subs,
                             !.events = {e \in Events : event[e] = "RECORDED"}]
    BY <1>2, <2>0 DEF Run
  <2>2. r.stage = "DELIVERING" /\ r.subs = run[h].subs /\ r.left = r.subs
    BY <1>2, <2>0, <2>1 DEF Run
  <2>3. \A e \in Events \ y : \A s \in made[e] :
          s \in r.subs \/ subscription[s] = "REVOKED"
    BY <1>2, <1>3, <2>0, <2>2 DEF RunFair
  <2>4. RunFair(r, None, y)
    BY <2>2, <2>3 DEF RunFair, Tended, Run
  <2>5. /\ run' = [run EXCEPT ![h] = r] /\ younger' = younger /\ outdated' = outdated
        /\ sending' = [sending EXCEPT ![h] = None]
        /\ UNCHANGED <<log, delivered>>
    BY <1>2, <1>4, <1>8, <2>0, <2>1 DEF ListEvents, dates, history
  <2>. QED
    BY <1>3, <2>4, <2>5, GoStep
<1>9. ASSUME NEW e \in Events, NEW s \in Subscriptions, Deliver(h, s, e)
      PROVE  IInv'
  <2>0. Idle(h, "DELIVERING") /\ First(h, e)
    BY <1>9 DEF Deliver
  <2>1. PICK r \in Run : r = [run[h] EXCEPT !.left = @ \ {s}]
    BY <1>2, <2>0 DEF Run
  <2>2. /\ r.stage = "DELIVERING" /\ r.subs = run[h].subs
        /\ r.events = run[h].events /\ r.left = run[h].left \ {s}
    BY <1>2, <2>0, <2>1 DEF Run
  <2>3. RunFair(run[h], None, y)
    BY <1>2, <1>3, <2>0
  <2>4. PICK j \in Sending \cup {None} :
          /\ sending' = [sending EXCEPT ![h] = j]
          /\ j # None => SendingTrue(j)
          /\ New(s, e) => j # None /\ j.delivery = <<s, e>>
    <3>1. <<s, e>> \in Deliveries /\ 1 \in 1..maxAttempts
      BY AttemptAssumption DEF Deliveries
    <3>2. CASE New(s, e)
      <4>1. Posts(h, <<s, e>>, 1)
        BY <1>9, <3>2 DEF Deliver
      <4>. QED
        BY <1>5, <3>1, <4>1
    <3>3. CASE ~New(s, e)
      BY <1>2, <1>4, <1>9, <2>0, <3>3 DEF Deliver
    <3>. QED
      BY <3>2, <3>3
  <2>5. ASSUME NEW f \in r.events \ y, \A g \in r.events : f <= g, NEW c \in made[f] \ r.left
        PROVE  Tended(c, f) \/ (j # None /\ j.delivery = <<c, f>>)
    <3>1. f = e
      <4>1. e \in r.events /\ f \in r.events /\ e <= f /\ f <= e
        BY <2>0, <2>2, <2>5 DEF First
      <4>2. e \in Nat /\ f \in Nat
        BY <4>1, EventAssumption DEF Run
      <4>. QED
        BY <4>1, <4>2
    <3>2. CASE c = s
      <4>1. c \in addressees[f]
        BY <2>5, <3>1 DEF IInv, MadeSubscriptionsExist
      <4>. QED
        BY <2>4, <2>5, <3>1, <3>2, <4>1 DEF New, Tended
    <3>3. CASE c # s
      <4>1. c \in made[f] \ run[h].left
        BY <2>2, <2>5, <3>3
      <4>2. run[h].stage = "DELIVERING" /\ f \in run[h].events \ y /\ \A g \in run[h].events : f <= g
        BY <1>2, <2>0, <2>2, <2>5
      <4>. QED
        BY <2>3, <4>1, <4>2 DEF RunFair
    <3>. QED
      BY <3>2, <3>3
  <2>6. RunFair(r, j, y)
    <3>1. \A f \in Events \ y : \A c \in made[f] :
            c \in r.subs \/ subscription[c] = "REVOKED"
      BY <1>2, <2>0, <2>2, <2>3 DEF RunFair
    <3>. QED
      BY <2>5, <3>1 DEF RunFair
  <2>7. /\ run' = [run EXCEPT ![h] = r] /\ younger' = younger /\ outdated' = outdated
        /\ UNCHANGED <<log, delivered>>
    BY <1>9, <2>1 DEF Deliver, dates, history
  <2>. QED
    BY <1>3, <2>4, <2>6, <2>7, GoStep
<1>10. ASSUME NEW e \in Events, MarkProcessed(h, e) PROVE IInv'
  <2>0. Idle(h, "DELIVERING") /\ First(h, e) /\ run[h].left = {}
    BY <1>10 DEF MarkProcessed
  <2>1. PICK r \in Run : r = [run[h] EXCEPT !.events = @ \ {e}, !.left = run[h].subs]
    BY <1>2, <2>0 DEF Run
  <2>2. r.stage = "DELIVERING" /\ r.subs = run[h].subs /\ r.left = r.subs
    BY <1>2, <2>0, <2>1 DEF Run
  <2>3. RunFair(run[h], None, y)
    BY <1>2, <1>3, <2>0
  <2>4. /\ run' = [run EXCEPT ![h] = r] /\ sending' = sending
        /\ younger' = younger /\ outdated' = outdated
        /\ subscription' = subscription /\ row' = row
        /\ addressees' = addressees /\ made' = made
        /\ letter' = letter /\ delivered' = delivered
        /\ event' = IF e \notin y THEN [event EXCEPT ![e] = "PROCESSED"] ELSE event
    BY <1>3, <1>10, <2>1 DEF MarkProcessed, DatedAfter, dates, history
  <2>5. ASSUME NEW f \in Events, NEW s \in made[f], event'[f] = "PROCESSED"
        PROVE  Tended(s, f)
    <3>1. CASE event[f] = "PROCESSED"
      BY <2>5, <3>1 DEF IInv, ProcessedAreTended
    <3>2. CASE event[f] # "PROCESSED"
      <4>1. f = e /\ e \notin y
        BY <1>1, <2>4, <2>5, <3>2 DEF WebhookTypeOK
      <4>. QED
        BY <1>2, <2>0, <2>3, <2>5, <4>1 DEF RunFair, First
    <3>. QED
      BY <3>1, <3>2
  <2>6. ProcessedAreTended'
    BY <2>4, <2>5 DEF ProcessedAreTended, Tended
  <2>7. MadeSubscriptionsExist' /\ RowsTrue' /\ OutdatedHaveRows' /\ Grows
    BY <2>4 DEF IInv, MadeSubscriptionsExist, RowsTrue, OutdatedHaveRows, Grows
  <2>8. RunFair(r, None, y)'
    <3>1. \A f \in Events \ y : \A s \in made[f] :
            s \in r.subs \/ subscription[s] = "REVOKED"
      BY <1>2, <2>0, <2>2, <2>3 DEF RunFair
    <3>2. RunFair(r, None, y)
      BY <2>2, <3>1 DEF RunFair, Tended, Run
    <3>. QED
      BY <2>4, <3>2 DEF RunFair, Tended
  <2>9. /\ run'[h] = r /\ sending'[h] = None /\ younger'[h] = y
        /\ \A g \in Handlers \ {h} :
              run'[g] = run[g] /\ sending'[g] = sending[g] /\ younger'[g] = younger[g]
    BY <1>1, <1>2, <1>3, <2>0, <2>4 DEF WebhookTypeOK
  <2>10. RunsFair' /\ SendingsTrue'
    BY <2>4, <2>7, <2>8, <2>9, HandlerStep
  <2>. QED
    BY <2>6, <2>7, <2>10 DEF IInv
<1>11. CASE EndRun(h)
  BY <1>11, EndStep DEF EndRun, history
<1>12. ASSUME NEW d \in Deliveries, Replay(h, [delivery |-> d, attempt |-> 0])
       PROVE  IInv'
  <2>0. Idle(h, "REPLAYING")
    BY <1>12 DEF Replay
  <2>1. CASE letter[d] = "OPEN"
    <3>1. PICK r \in Run : r = [run[h] EXCEPT !.retries = {}]
      BY <1>2, <2>0 DEF Run
    <3>2. r.stage = "REPLAYING"
      BY <1>2, <2>0, <3>1 DEF Run
    <3>3. 1 \in 1..maxAttempts
      BY AttemptAssumption
    <3>4. Posts(h, d, 1) /\ Dates(h) /\ run' = [run EXCEPT ![h] = r]
          /\ UNCHANGED <<log, delivered>>
      BY <1>12, <2>1, <3>1 DEF Replay, history
    <3>5. PICK j \in Sending : SendingTrue(j) /\ sending' = [sending EXCEPT ![h] = j]
      BY <1>5, <3>3, <3>4
    <3>6. RunFair(r, j, {})
      BY <3>2 DEF RunFair
    <3>7. /\ younger' = [younger EXCEPT ![h] = {}]
          /\ \A g \in Handlers : outdated'[g] \subseteq outdated[g]
      BY <1>1, <3>4 DEF Dates, WebhookTypeOK
    <3>. QED
      BY <3>4, <3>5, <3>6, <3>7, GoStep
  <2>2. CASE letter[d] # "OPEN"
    BY <1>12, <2>2, EndStep DEF Replay, history
  <2>. QED
    BY <2>1, <2>2
<1>. QED
  BY <1>6, <1>7, <1>8, <1>9, <1>10, <1>11, <1>12 DEF RunStep

\* A request that begins has listed nothing.
LEMMA BeginStep ==
  ASSUME IInv, WebhookTypeOK', NEW h \in Handlers, NEW r \in Run, Begins(h, r),
         r.stage \in {"RETRYING", "REPLAYING"}, sending' = sending,
         Dates(h) \/ UNCHANGED dates, UNCHANGED <<log, delivered>>
  PROVE  IInv'
<1>1. WebhookTypeOK
  BY DEF IInv
<1>2. PICK j \in Sending \cup {None} : j = sending[h] /\ sending' = [sending EXCEPT ![h] = j]
  BY <1>1 DEF WebhookTypeOK
<1>3. j # None => SendingTrue(j)
  BY <1>2 DEF IInv, SendingsTrue
<1>4. run' = [run EXCEPT ![h] = r] /\ \A y \in SUBSET Events : RunFair(r, j, y)
  BY DEF Begins, RunFair
<1>5. CASE Dates(h)
  <2>1. younger' = [younger EXCEPT ![h] = {}]
    BY <1>5 DEF Dates
  <2>2. \A g \in Handlers : outdated'[g] \subseteq outdated[g]
    BY <1>1, <1>5 DEF Dates, WebhookTypeOK
  <2>3. RunFair(r, j, {})
    BY <1>4
  <2>. QED
    BY <1>2, <1>3, <1>4, <2>1, <2>2, <2>3, GoStep
<1>6. CASE UNCHANGED dates
  <2>1. PICK y \in SUBSET Events : younger' = [younger EXCEPT ![h] = y]
    BY <1>1, <1>6 DEF dates, WebhookTypeOK
  <2>2. \A g \in Handlers : outdated'[g] \subseteq outdated[g]
    BY <1>6 DEF dates
  <2>. QED
    BY <1>2, <1>3, <1>4, <2>1, <2>2, GoStep
<1>. QED
  BY <1>5, <1>6

---------------------------------------------------------------------------
(* The invariant.                                                          *)

LEMMA InvStep ==
  ASSUME IInv, [Next]_vars
  PROVE  IInv'
<1>1. WebhookTypeOK /\ WebhookTypeOK'
  BY TypeStep DEF IInv
<1>2. CASE UNCHANGED vars
  <2>1. run' = run /\ sending' = sending /\ younger' = younger /\ outdated' = outdated
        /\ UNCHANGED <<log, delivered>>
    BY <1>2 DEF vars, work, dates, history
  <2>2. made' = made /\ row' = row
    BY <2>1 DEF log
  <2>3. RunsFair' /\ SendingsTrue'
    BY <1>1, <2>1, <2>2, QuietStep, PeopleStep
  <2>. QED
    BY <1>1, <2>1, <2>2, <2>3, QuietStep, QuietDates DEF IInv
<1>3. ASSUME NEW s \in Subscriptions, DateSubscription(s) \/ CreateSubscription(s) \/ RevokeSubscription(s)
      PROVE  IInv'
  <2>1. UNCHANGED <<event, addressees, made, row, letter, run, sending, outdated, younger, delivered>>
    BY <1>3 DEF DateSubscription, CreateSubscription, RevokeSubscription, work, dates, history
  <2>2. \A c \in Subscriptions :
          /\ subscription[c] = "REVOKED" => subscription'[c] = "REVOKED"
          /\ subscription[c] \in {"ACTIVE", "REVOKED"} => subscription'[c] \in {"ACTIVE", "REVOKED"}
    BY <1>1, <1>3 DEF DateSubscription, CreateSubscription, RevokeSubscription, WebhookTypeOK
  <2>3. Grows
    BY <2>1, <2>2 DEF Grows
  <2>4. \A e \in Events : made[e] \subseteq Subscriptions
    BY <1>1 DEF WebhookTypeOK
  <2>5. ProcessedAreTended' /\ MadeSubscriptionsExist'
    BY <2>1, <2>2, <2>4 DEF IInv, ProcessedAreTended, MadeSubscriptionsExist, Tended
  <2>6. RowsTrue' /\ OutdatedHaveRows'
    BY <2>1 DEF IInv, RowsTrue, OutdatedHaveRows
  <2>7. RunsFair' /\ SendingsTrue'
    BY <1>1, <2>1, <2>3, PeopleStep
  <2>. QED
    BY <1>1, <2>5, <2>6, <2>7 DEF IInv
<1>4. ASSUME NEW e \in Events, Occur(e) PROVE IInv'
  <2>1. UNCHANGED <<subscription, row, letter, run, sending, outdated, delivered>>
    BY <1>4 DEF Occur, history
  <2>2. /\ \A f \in Events \ {e} : event'[f] = event[f] /\ made'[f] = made[f]
        /\ event'[e] = "OCCURRED"
        /\ \A f \in Events \ {e} : addressees'[f] = addressees[f]
        /\ \A s \in made'[e] : s \in addressees'[e] /\ subscription[s] \in {"ACTIVE", "REVOKED"}
        /\ \A g \in Handlers : younger[g] \subseteq younger'[g]
        /\ \A g \in Handlers : run[g] # None => e \in younger'[g]
    BY <1>1, <1>4 DEF Occur, Busy, WebhookTypeOK
  <2>3. Grows
    BY <2>1 DEF Grows
  <2>4. ProcessedAreTended' /\ MadeSubscriptionsExist' /\ RowsTrue' /\ OutdatedHaveRows'
    BY <2>1, <2>2 DEF IInv, ProcessedAreTended, MadeSubscriptionsExist, RowsTrue, OutdatedHaveRows, Tended
  <2>5. RunsFair' /\ SendingsTrue'
    BY <1>1, <2>1, <2>2, <2>3, PeopleStep
  <2>. QED
    BY <1>1, <2>4, <2>5 DEF IInv
<1>5. ASSUME NEW e \in Events, RecordEvent(e) PROVE IInv'
  <2>1. UNCHANGED <<subscription, addressees, made, row, letter, run, sending, outdated, younger, delivered>>
    BY <1>5 DEF RecordEvent, work, dates, history
  <2>2. \A f \in Events : event'[f] = "PROCESSED" => event[f] = "PROCESSED"
    BY <1>1, <1>5 DEF RecordEvent, WebhookTypeOK
  <2>3. Grows
    BY <2>1 DEF Grows
  <2>4. ProcessedAreTended' /\ MadeSubscriptionsExist' /\ RowsTrue' /\ OutdatedHaveRows'
    BY <2>1, <2>2 DEF IInv, ProcessedAreTended, MadeSubscriptionsExist, RowsTrue, OutdatedHaveRows, Tended
  <2>5. RunsFair' /\ SendingsTrue'
    BY <1>1, <2>1, <2>3, PeopleStep
  <2>. QED
    BY <1>1, <2>4, <2>5 DEF IInv
<1>6. ASSUME NEW d \in Deliveries, Wait(d) PROVE IInv'
  <2>1. UNCHANGED <<subscription, event, addressees, made, letter, run, sending, outdated, younger, delivered>>
    BY <1>1, <1>6, WaitStep DEF work, dates, history
  <2>2. \A c \in Deliveries : row'[c].action = row[c].action
    BY <1>1, <1>6, WaitStep
  <2>3. Grows
    BY <2>1, <2>2 DEF Grows
  <2>4. /\ \A e \in Events : \A s \in made[e] : <<s, e>> \in Deliveries
        /\ \A g \in Handlers : outdated[g] \subseteq Deliveries
    BY <1>1 DEF WebhookTypeOK, Deliveries
  <2>5. ProcessedAreTended' /\ MadeSubscriptionsExist'
    BY <2>1, <2>2, <2>4 DEF IInv, ProcessedAreTended, MadeSubscriptionsExist, Tended
  <2>6. RowsTrue' /\ OutdatedHaveRows'
    BY <2>1, <2>2, <2>4 DEF IInv, RowsTrue, OutdatedHaveRows
  <2>7. RunsFair' /\ SendingsTrue'
    BY <1>1, <2>1, <2>3, PeopleStep
  <2>. QED
    BY <1>1, <2>5, <2>6, <2>7 DEF IInv
<1>7. ASSUME NEW h \in Handlers, StartRun(h) PROVE IInv'
  <2>1. {[delivery |-> d, attempt |-> row[d].attempt] : d \in Retriable} \subseteq Attempt
    BY <1>1, AttemptAssumption DEF Retriable, Attempt, Row, WebhookTypeOK
  <2>2. PICK r \in Run :
          r = [stage |-> "RETRYING",
               retries |-> {[delivery |-> d, attempt |-> row[d].attempt] : d \in Retriable},
               subs |-> {}, events |-> {}, left |-> {}]
    BY <2>1 DEF Run
  <2>. QED
    BY <1>1, <1>7, <2>2, BeginStep DEF StartRun
<1>8. ASSUME NEW h \in Handlers, NEW d \in Deliveries, ReadForReplay(h, d) PROVE IInv'
  <2>1. PICK r \in Run :
          r = [stage |-> "REPLAYING", retries |-> {[delivery |-> d, attempt |-> 0]},
               subs |-> {}, events |-> {}, left |-> {}]
    <3>1. [delivery |-> d, attempt |-> 0] \in Attempt
      BY AttemptAssumption DEF Attempt
    <3>. QED
      BY <3>1 DEF Run
  <2>. QED
    BY <1>1, <1>8, <2>1, BeginStep DEF ReadForReplay
<1>9. ASSUME NEW h \in Handlers, Stop(h) PROVE IInv'
  BY <1>1, <1>9, EndStep DEF Stop
<1>. QED
  BY <1>1, <1>2, <1>3, <1>4, <1>5, <1>6, <1>7, <1>8, <1>9, RunInv, CallInv DEF Next, People, SubscriptionStep, Start

\* However many requests overlap, replay or die, an event that was processed is
\* not forgotten for a subscription whose row was there when it occurred.
THEOREM NothingIsForgotten == Spec => []NothingForgotten
<1>1. Init => IInv
  <2>1. Init => WebhookTypeOK
    BY AttemptAssumption, BoundAssumption DEF Init, WebhookTypeOK, NoRow, Row
  <2>. QED
    BY <2>1 DEF Init, IInv, ProcessedAreTended, MadeSubscriptionsExist, RowsTrue, OutdatedHaveRows,
                SendingsTrue, RunsFair, NoRow
<1>2. IInv => NothingForgotten
  <2>1. SUFFICES ASSUME IInv, NEW s \in Subscriptions, NEW e \in Events,
                        event[e] = "PROCESSED", s \in made[e]
                 PROVE  Settled(<<s, e>>) \/ row[<<s, e>>].action = "FAILED"
    BY DEF NothingForgotten
  <2>2. Tended(s, e)
    BY <2>1 DEF IInv, ProcessedAreTended
  <2>3. <<s, e>> \in Deliveries /\ <<s, e>>[1] = s
    BY DEF Deliveries
  <2>4. row[<<s, e>>].action \in {"NONE", "FAILED", "DELIVERED", "DEAD_LETTERED"}
    BY <2>1, <2>3 DEF IInv, WebhookTypeOK, Row
  <2>. QED
    BY <2>1, <2>2, <2>3, <2>4 DEF Tended, Settled, IInv, RowsTrue
<1>. QED
  BY <1>1, <1>2, InvStep, PTL DEF Spec

---------------------------------------------------------------------------
(* What was delivered is not sent again.                                   *)

\* A call takes up nothing that was delivered, unless its dead letter is open.
TakenUp(j) ==
    IF j.stage = "RESOLVING" THEN row[j.delivery].action = "DELIVERED"
    ELSE j.delivery \in delivered => letter[j.delivery] = "OPEN"

DeliveredAreDone == \A d \in delivered : row[d].action = "DELIVERED" \/ letter[d] = "OPEN"

AloneInv ==
    overlaps = 0 =>
        /\ \A g, h \in Handlers : run[g] # None /\ run[h] # None => g = h
        /\ \A h \in Handlers : newer[h] = {} /\ outdated[h] = {}
        /\ \A h \in Handlers : sending[h] # None => run[h] # None /\ TakenUp(sending[h])
        /\ DeliveredAreDone

LEMMA BeginsAlone ==
  ASSUME WebhookTypeOK, NEW h \in Handlers, NEW r, Begins(h, r), overlaps' = 0
  PROVE  overlaps = 0 /\ \A g \in Handlers : run[g] = None
BY BoundAssumption DEF Begins, Busy, WebhookTypeOK

\* A step of h when nobody else is at work, after which h has the call j.
LEMMA AloneGoesOn ==
  ASSUME AloneInv, overlaps = 0,
         NEW h \in Handlers, NEW j,
         \A g \in Handlers \ {h} : run[g] = None /\ run'[g] = None,
         \A g \in Handlers \ {h} : sending'[g] = sending[g],
         \A g \in Handlers : newer'[g] = {} /\ outdated'[g] = {},
         sending'[h] = j, j # None => run'[h] # None /\ TakenUp(j)',
         DeliveredAreDone'
  PROVE  AloneInv'
<1>1. ASSUME NEW g \in Handlers, sending'[g] # None
      PROVE  run'[g] # None /\ TakenUp(sending[g])'
  <2>1. g = h
    BY <1>1 DEF AloneInv
  <2>2. sending'[g] = j
    BY <2>1
  <2>. QED
    BY <1>1, <2>1, <2>2 DEF TakenUp
<1>2. ASSUME NEW g \in Handlers, NEW f \in Handlers, run'[g] # None, run'[f] # None
      PROVE  g = f
  BY <1>2
<1>. QED
  BY <1>1, <1>2 DEF AloneInv, TakenUp

\* What a step that writes no row and opens or closes no letter leaves true.
LEMMA LogUnchanged ==
  ASSUME UNCHANGED <<letter, delivered>>, \A d \in Deliveries : row'[d].action = row[d].action
  PROVE  /\ DeliveredAreDone /\ delivered \subseteq Deliveries => DeliveredAreDone'
         /\ \A j \in Sending : TakenUp(j) => TakenUp(j)'
<1>1. ASSUME NEW j \in Sending, TakenUp(j) PROVE TakenUp(j)'
  <2>1. j.delivery \in Deliveries
    BY DEF Sending
  <2>. QED
    BY <1>1, <2>1 DEF TakenUp
<1>. QED
  BY <1>1 DEF DeliveredAreDone

\* A step that leaves the handlers alone.
LEMMA OthersAlone ==
  ASSUME WebhookTypeOK, AloneInv, UNCHANGED <<run, sending, newer, outdated, overlaps>>,
         UNCHANGED <<letter, delivered>>, \A d \in Deliveries : row'[d].action = row[d].action
  PROVE  AloneInv'
<1>. SUFFICES ASSUME overlaps' = 0 PROVE AloneInv'
  BY DEF AloneInv
<1>1. DeliveredAreDone'
  BY LogUnchanged DEF AloneInv, WebhookTypeOK
<1>2. ASSUME NEW g \in Handlers, sending[g] # None
      PROVE  run[g] # None /\ TakenUp(sending[g])'
  <2>1. sending[g] \in Sending /\ TakenUp(sending[g]) /\ run[g] # None
    BY <1>2 DEF WebhookTypeOK, AloneInv
  <2>. QED
    BY <2>1, LogUnchanged
<1>. QED
  BY <1>1, <1>2 DEF AloneInv, TakenUp

LEMMA AloneStep ==
  ASSUME WebhookTypeOK, AloneInv, [Next]_vars
  PROVE  AloneInv'
<1>. SUFFICES ASSUME overlaps' = 0 PROVE AloneInv'
  BY DEF AloneInv
<1>1. CASE UNCHANGED vars \/ People
  <2>1. /\ UNCHANGED <<run, sending, newer, outdated, overlaps>>
        /\ UNCHANGED <<row, letter, delivered>>
    BY <1>1 DEF vars, log, work, dates, history, People, SubscriptionStep, DateSubscription,
                CreateSubscription,
                RevokeSubscription, Occur, RecordEvent
  <2>. QED
    BY <2>1, OthersAlone
<1>2. ASSUME NEW d \in Deliveries, Wait(d) PROVE AloneInv'
  <2>1. \A c \in Deliveries : row'[c].action = row[c].action
    BY <1>2, WaitStep
  <2>2. UNCHANGED <<run, sending, newer, outdated, overlaps, letter, delivered>>
    BY <1>2 DEF Wait, FallDue, FallBehind, ComeForward, work, dates, history
  <2>. QED
    BY <2>1, <2>2, OthersAlone
<1>3. ASSUME NEW h \in Handlers, NEW r, Begins(h, r), UNCHANGED <<row, letter, sending, delivered>>,
             Dates(h) \/ UNCHANGED dates
      PROVE  AloneInv'
  <2>1. overlaps = 0 /\ \A g \in Handlers : run[g] = None
    BY <1>3, BeginsAlone
  <2>2. \A g \in Handlers : sending[g] = None /\ newer[g] = {} /\ outdated[g] = {}
    BY <2>1 DEF AloneInv
  <2>3. \A g \in Handlers \ {h} : run'[g] = None
    BY <1>3, <2>1 DEF Begins, WebhookTypeOK
  <2>4. \A g \in Handlers : newer'[g] = {} /\ outdated'[g] = {}
    BY <1>3, <2>1, <2>2 DEF Dates, Busy, dates, WebhookTypeOK
  <2>5. DeliveredAreDone'
    BY <1>3, <2>1, LogUnchanged DEF AloneInv, WebhookTypeOK
  <2>. QED
    BY <1>3, <2>1, <2>2, <2>3, <2>4, <2>5, AloneGoesOn
<1>4. ASSUME NEW h \in Handlers, StartRun(h) \/ \E d \in Deliveries : ReadForReplay(h, d)
      PROVE  AloneInv'
  BY <1>3, <1>4 DEF StartRun, ReadForReplay, log
<1>5. ASSUME NEW h \in Handlers, run[h] # None, overlaps = 0
      PROVE  /\ \A g \in Handlers \ {h} : run[g] = None
             /\ \A g \in Handlers : newer[g] = {} /\ outdated[g] = {}
             /\ sending[h] # None => sending[h] \in Sending /\ TakenUp(sending[h])
             /\ DeliveredAreDone
  BY <1>5 DEF AloneInv, WebhookTypeOK
<1>6. ASSUME NEW h \in Handlers, run[h] # None, overlaps = 0, Ends(h), UNCHANGED <<row, letter, delivered>>
      PROVE  AloneInv'
  <2>1. /\ \A g \in Handlers \ {h} : run'[g] = run[g] /\ sending'[g] = sending[g]
        /\ sending'[h] = None
        /\ \A g \in Handlers : newer'[g] = {} /\ outdated'[g] = {}
    BY <1>5, <1>6 DEF Ends, WebhookTypeOK
  <2>2. DeliveredAreDone'
    BY <1>5, <1>6, LogUnchanged DEF WebhookTypeOK
  <2>. QED
    BY <1>5, <1>6, <2>1, <2>2, AloneGoesOn
<1>7. ASSUME NEW h \in Handlers, run[h] # None, overlaps = 0, UNCHANGED <<row, letter, delivered>>,
             \A g \in Handlers \ {h} : run'[g] = run[g], run'[h] # None,
             UNCHANGED dates \/ Dates(h),
             \/ UNCHANGED sending
             \/ \E d \in Deliveries : \E attempt \in 1..maxAttempts :
                  /\ Posts(h, d, attempt)
                  /\ row[d].action = "DELIVERED" => letter[d] = "OPEN"
      PROVE  AloneInv'
  <2>1. \A g \in Handlers : newer'[g] = {} /\ outdated'[g] = {}
    BY <1>5, <1>7 DEF Dates, Busy, dates, WebhookTypeOK
  <2>2. DeliveredAreDone'
    BY <1>5, <1>7, LogUnchanged DEF WebhookTypeOK
  <2>3. CASE UNCHANGED sending
    <3>1. sending[h] # None => TakenUp(sending[h])'
      BY <1>5, <1>7, <2>3, LogUnchanged
    <3>2. PICK j : j = sending[h]
      OBVIOUS
    <3>3. j # None => TakenUp(j)'
      BY <2>3, <3>1, <3>2 DEF TakenUp
    <3>. QED
      BY <1>5, <1>7, <2>1, <2>2, <2>3, <3>2, <3>3, AloneGoesOn
  <2>4. ASSUME NEW d \in Deliveries, NEW attempt \in 1..maxAttempts, Posts(h, d, attempt),
               row[d].action = "DELIVERED" => letter[d] = "OPEN"
        PROVE  AloneInv'
    <3>. DEFINE j == [delivery |-> d, attempt |-> attempt, stage |-> "POST"]
    <3>1. /\ sending'[h] = j
          /\ \A g \in Handlers \ {h} : sending'[g] = sending[g]
      BY <2>4 DEF Posts, WebhookTypeOK
    <3>2. d \in delivered => letter[d] = "OPEN"
      BY <1>5, <1>7, <2>4 DEF DeliveredAreDone
    <3>3. TakenUp(j)'
      BY <1>7, <3>2 DEF TakenUp
    <3>. HIDE DEF j
    <3>. QED
      BY <1>5, <1>7, <2>1, <2>2, <3>1, <3>3, AloneGoesOn
  <2>. QED
    BY <1>7, <2>3, <2>4
<1>8. ASSUME NEW h \in Handlers, NEW r \in Run, run' = [run EXCEPT ![h] = r]
      PROVE  run'[h] # None /\ \A g \in Handlers \ {h} : run'[g] = run[g]
  BY <1>8, NoneAssumption DEF WebhookTypeOK
<1>9. ASSUME NEW h \in Handlers, RunStep(h) PROVE AloneInv'
  <2>1. ASSUME NEW d \in Deliveries, NEW a \in 0..(maxAttempts - 1),
               Retry(h, [delivery |-> d, attempt |-> a])
        PROVE  AloneInv'
    <3>1. run[h] # None /\ overlaps = 0 /\ UNCHANGED <<row, letter, delivered, dates>>
      BY <2>1 DEF Retry, Idle, history, log
    <3>2. run[h] \in Run
      BY <3>1 DEF WebhookTypeOK
    <3>3. PICK r \in Run : run' = [run EXCEPT ![h] = r]
      BY <2>1, <3>2 DEF Retry, Run
    <3>4. a + 1 \in 1..maxAttempts
      BY AttemptAssumption
    <3>5. UNCHANGED sending \/ (Posts(h, d, a + 1) /\ row[d].action # "DELIVERED")
      BY <2>1 DEF Retry
    <3>. QED
      BY <1>7, <1>8, <3>1, <3>3, <3>4, <3>5
  <2>2. CASE ListSubscriptions(h) \/ ListEvents(h)
    <3>1. run[h] # None /\ overlaps = 0 /\ UNCHANGED <<row, letter, delivered, dates, sending>>
      BY <2>2 DEF ListSubscriptions, ListEvents, Idle, history, log
    <3>2. run[h] \in Run
      BY <3>1 DEF WebhookTypeOK
    <3>3. PICK r \in Run : run' = [run EXCEPT ![h] = r]
      BY <2>2, <3>2 DEF ListSubscriptions, ListEvents, Run
    <3>. QED
      BY <1>7, <1>8, <3>1, <3>3
  <2>3. ASSUME NEW e \in Events, NEW s \in Subscriptions, Deliver(h, s, e)
        PROVE  AloneInv'
    <3>1. run[h] # None /\ overlaps = 0 /\ UNCHANGED <<row, letter, delivered, dates>>
      BY <2>3 DEF Deliver, Idle, history, log
    <3>2. run[h] \in Run
      BY <3>1 DEF WebhookTypeOK
    <3>3. PICK r \in Run : run' = [run EXCEPT ![h] = r]
      BY <2>3, <3>2 DEF Deliver, Run
    <3>4. <<s, e>> \in Deliveries /\ 1 \in 1..maxAttempts
      BY AttemptAssumption DEF Deliveries
    <3>5. UNCHANGED sending \/ (Posts(h, <<s, e>>, 1) /\ row[<<s, e>>].action # "DELIVERED")
      BY <2>3 DEF Deliver, New
    <3>. QED
      BY <1>7, <1>8, <3>1, <3>3, <3>4, <3>5
  <2>4. ASSUME NEW e \in Events, MarkProcessed(h, e) PROVE AloneInv'
    <3>1. run[h] # None /\ overlaps = 0
          /\ UNCHANGED <<row, letter, delivered, dates, sending>>
      BY <2>4 DEF MarkProcessed, Idle, history
    <3>2. run[h] \in Run
      BY <3>1 DEF WebhookTypeOK
    <3>3. PICK r \in Run : run' = [run EXCEPT ![h] = r]
      BY <2>4, <3>2 DEF MarkProcessed, Run
    <3>. QED
      BY <1>7, <1>8, <3>1, <3>3
  <2>5. CASE EndRun(h)
    <3>1. run[h] # None /\ overlaps = 0 /\ Ends(h) /\ UNCHANGED <<row, letter, delivered>>
      BY <2>5 DEF EndRun, Idle, history, log
    <3>. QED
      BY <1>6, <3>1
  <2>6. ASSUME NEW d \in Deliveries, Replay(h, [delivery |-> d, attempt |-> 0])
        PROVE  AloneInv'
    <3>1. run[h] # None /\ overlaps = 0 /\ UNCHANGED <<row, letter, delivered>>
      BY <2>6 DEF Replay, Idle, history, log
    <3>2. CASE letter[d] = "OPEN"
      <4>1. run[h] \in Run
        BY <3>1 DEF WebhookTypeOK
      <4>2. PICK r \in Run : run' = [run EXCEPT ![h] = r]
        BY <2>6, <3>2, <4>1 DEF Replay, Run
      <4>3. 1 \in 1..maxAttempts /\ Posts(h, d, 1) /\ Dates(h)
        BY <2>6, <3>2, AttemptAssumption DEF Replay
      <4>. QED
        BY <1>7, <1>8, <3>1, <3>2, <4>2, <4>3
    <3>3. CASE letter[d] # "OPEN"
      BY <1>6, <2>6, <3>1, <3>3 DEF Replay
    <3>. QED
      BY <3>2, <3>3
  <2>. QED
    BY <1>9, <2>1, <2>2, <2>3, <2>4, <2>5, <2>6 DEF RunStep
<1>10. ASSUME NEW h \in Handlers, Stop(h) PROVE AloneInv'
  <2>1. run[h] # None /\ overlaps = 0 /\ Ends(h) /\ UNCHANGED <<row, letter, delivered>>
    BY <1>10 DEF Stop, log
  <2>. QED
    BY <1>6, <2>1
<1>11. ASSUME NEW h \in Handlers, DeliveryStep(h) PROVE AloneInv'
  <2>. DEFINE j == sending[h]
              d == j.delivery
  <2>1. /\ j # None /\ UNCHANGED <<run, overlaps>>
        /\ \A g \in Handlers \ {h} : sending'[g] = sending[g]
    BY <1>11 DEF DeliveryStep, Post, RecordDelivered, Resolve, RecordFailed, RecordLetter,
                RecordDeadLettered, At, Goes, Returns, history, WebhookTypeOK
  <2>2. run[h] # None /\ overlaps = 0
    BY <2>1 DEF AloneInv
  <2>3. /\ j \in Sending /\ TakenUp(j) /\ d \in Deliveries /\ DeliveredAreDone
        /\ delivered \subseteq Deliveries
    BY <1>5, <2>1, <2>2 DEF Sending, WebhookTypeOK
  <2>4. ASSUME NEW stage \in {"SUCCEEDED", "RESOLVING", "FAILED", "DEAD", "LETTERED"},
               Goes(h, stage)
        PROVE  sending'[h].stage = stage /\ sending'[h].delivery = d
    BY <2>3, <2>4 DEF Goes, Sending, WebhookTypeOK
  <2>5. ASSUME NEW action, NEW attempt, Writes(h, d, action, attempt)
        PROVE  /\ row'[d].action = action
               /\ \A c \in Deliveries \ {d} : row'[c] = row[c]
               /\ \A g \in Handlers : newer'[g] = {} /\ outdated'[g] = {}
    BY <1>5, <2>2, <2>3, <2>5 DEF Writes, WebhookTypeOK
  <2>6. UNCHANGED dates => \A g \in Handlers : newer'[g] = {} /\ outdated'[g] = {}
    BY <1>5, <2>2 DEF dates
  <2>7. ASSUME NEW k, sending'[h] = k, k # None => TakenUp(k)', DeliveredAreDone',
               \A g \in Handlers : newer'[g] = {} /\ outdated'[g] = {}
        PROVE  AloneInv'
    BY <1>5, <2>1, <2>2, <2>7, AloneGoesOn
  <2>. HIDE DEF j, d
  <2>8. ASSUME NEW outcome \in Outcome, Post(h, outcome) PROVE AloneInv'
    <3>1. PICK stage \in {"SUCCEEDED", "FAILED", "DEAD"} : Goes(h, stage)
      BY <2>8 DEF Post, Decide
    <3>2. j.stage = "POST" /\ UNCHANGED <<row, letter, delivered, dates>>
      BY <2>8 DEF Post, At, history, log, j
    <3>3. PICK k : k = sending'[h]
      OBVIOUS
    <3>4. k.stage = stage /\ k.delivery = d
      BY <2>4, <3>1, <3>3
    <3>5. TakenUp(k)'
      BY <2>3, <3>2, <3>4 DEF TakenUp, d
    <3>6. DeliveredAreDone'
      BY <2>3, <3>2 DEF DeliveredAreDone
    <3>. QED
      BY <2>6, <2>7, <3>2, <3>3, <3>5, <3>6
  <2>9. CASE RecordDelivered(h)
    <3>1. /\ Writes(h, d, "DELIVERED", j.attempt) /\ Goes(h, "RESOLVING")
          /\ delivered' = delivered \cup {d} /\ UNCHANGED letter
      BY <2>9 DEF RecordDelivered, j, d
    <3>2. PICK k : k = sending'[h]
      OBVIOUS
    <3>3. k.stage = "RESOLVING" /\ k.delivery = d
      BY <2>4, <3>1, <3>2
    <3>4. TakenUp(k)'
      BY <2>5, <3>1, <3>3 DEF TakenUp
    <3>5. DeliveredAreDone'
      BY <2>3, <2>5, <3>1 DEF DeliveredAreDone
    <3>. QED
      BY <2>5, <2>7, <3>1, <3>2, <3>4, <3>5
  <2>10. CASE Resolve(h)
    <3>1. /\ j.stage = "RESOLVING" /\ sending'[h] = None
          /\ UNCHANGED <<row, delivered, dates>>
          /\ \A c \in Deliveries \ {d} : letter'[c] = letter[c]
      BY <2>10 DEF Resolve, At, Returns, history, WebhookTypeOK, j, d
    <3>2. row[d].action = "DELIVERED"
      BY <2>3, <3>1 DEF TakenUp, d
    <3>3. DeliveredAreDone'
      BY <2>3, <3>1, <3>2 DEF DeliveredAreDone
    <3>. QED
      BY <2>6, <2>7, <3>1, <3>3
  <2>11. CASE RecordFailed(h) \/ RecordDeadLettered(h)
    <3>1. /\ j.stage # "RESOLVING" /\ sending'[h] = None
          /\ \E action : Writes(h, d, action, j.attempt)
          /\ UNCHANGED <<letter, delivered>>
      BY <2>11 DEF RecordFailed, RecordDeadLettered, At, Returns, history, WebhookTypeOK, j, d
    <3>2. d \in delivered => letter[d] = "OPEN"
      BY <2>3, <3>1 DEF TakenUp, d
    <3>3. DeliveredAreDone'
      BY <2>3, <2>5, <3>1, <3>2 DEF DeliveredAreDone
    <3>. QED
      BY <2>5, <2>7, <3>1, <3>3
  <2>12. CASE RecordLetter(h)
    <3>1. /\ Goes(h, "LETTERED") /\ letter' = [letter EXCEPT ![d] = "OPEN"]
          /\ UNCHANGED <<row, delivered, dates>>
      BY <2>12 DEF RecordLetter, history, j, d
    <3>2. PICK k : k = sending'[h]
      OBVIOUS
    <3>3. k.stage = "LETTERED" /\ k.delivery = d
      BY <2>4, <3>1, <3>2
    <3>4. letter'[d] = "OPEN" /\ \A c \in Deliveries \ {d} : letter'[c] = letter[c]
      BY <2>3, <3>1 DEF WebhookTypeOK
    <3>5. TakenUp(k)'
      BY <3>3, <3>4 DEF TakenUp
    <3>6. DeliveredAreDone'
      BY <2>3, <3>1, <3>4 DEF DeliveredAreDone
    <3>. QED
      BY <2>6, <2>7, <3>1, <3>2, <3>5, <3>6
  <2>. QED
    BY <1>11, <2>8, <2>9, <2>10, <2>11, <2>12 DEF DeliveryStep
<1>. QED
  BY <1>1, <1>2, <1>4, <1>9, <1>10, <1>11 DEF Next, Start

\* As long as requests do not overlap, the worker sends nothing again that was
\* delivered, unless its dead letter is open.
THEOREM SuccessesAreFinal == Spec => SuccessIsFinal
<1>1. Init => AloneInv
  BY DEF Init, AloneInv, DeliveredAreDone
<1>2. WebhookTypeOK /\ AloneInv /\ [Next]_vars => AloneInv'
  BY AloneStep
<1>3. ASSUME WebhookTypeOK, AloneInv, [Next]_vars,
             NEW h \in Handlers, overlaps' = 0, sending[h] = None, sending'[h] # None,
             run[h].stage # "REPLAYING"
      PROVE  sending'[h].delivery \in delivered => letter[sending'[h].delivery] = "OPEN"
  <2>1. ASSUME NEW g \in Handlers, NEW d \in Deliveries, NEW attempt, Posts(g, d, attempt),
               UNCHANGED overlaps, row[d].action # "DELIVERED"
        PROVE  sending'[h].delivery \in delivered => letter[sending'[h].delivery] = "OPEN"
    <3>1. sending'[h].delivery = d
      BY <1>3, <2>1 DEF Posts, WebhookTypeOK
    <3>. QED
      BY <1>3, <2>1, <3>1 DEF AloneInv, DeliveredAreDone
  <2>2. ASSUME NEW g \in Handlers, RunStep(g)
        PROVE  sending'[h].delivery \in delivered => letter[sending'[h].delivery] = "OPEN"
    <3>1. ASSUME NEW d \in Deliveries, NEW a, Retry(g, [delivery |-> d, attempt |-> a])
          PROVE  sending'[h].delivery \in delivered => letter[sending'[h].delivery] = "OPEN"
      BY <1>3, <2>1, <3>1 DEF Retry, history
    <3>2. ASSUME NEW s \in Subscriptions, NEW e \in Events, Deliver(g, s, e)
          PROVE  sending'[h].delivery \in delivered => letter[sending'[h].delivery] = "OPEN"
      <4>1. <<s, e>> \in Deliveries
        BY DEF Deliveries
      <4>. QED
        BY <1>3, <2>1, <3>2, <4>1 DEF Deliver, New, history
    <3>3. ASSUME NEW d \in Deliveries, Replay(g, [delivery |-> d, attempt |-> 0])
          PROVE  FALSE
      BY <1>3, <3>3 DEF Replay, Idle, Posts, Ends, WebhookTypeOK
    <3>4. CASE \/ ListSubscriptions(g) \/ ListEvents(g) \/ EndRun(g)
               \/ \E e \in Events : MarkProcessed(g, e)
      BY <1>3, <3>4 DEF ListSubscriptions, ListEvents, EndRun, Ends, MarkProcessed, WebhookTypeOK
    <3>. QED
      BY <2>2, <3>1, <3>2, <3>3, <3>4 DEF RunStep
  <2>3. ASSUME NEW g \in Handlers, DeliveryStep(g) \/ Stop(g) PROVE FALSE
    BY <1>3, <2>3 DEF DeliveryStep, Post, RecordDelivered, Resolve, RecordFailed, RecordLetter,
                RecordDeadLettered, At, Goes, Returns, Stop, Ends, WebhookTypeOK
  <2>4. CASE \/ UNCHANGED vars \/ People \/ Start
             \/ \E g \in Handlers, d \in Deliveries : ReadForReplay(g, d)
             \/ \E d \in Deliveries : Wait(d)
    <3>1. UNCHANGED sending
      BY <2>4 DEF vars, work, People, SubscriptionStep, DateSubscription, CreateSubscription, RevokeSubscription, Occur,
                  RecordEvent, Start, StartRun, ReadForReplay, Wait, FallDue, FallBehind, ComeForward
    <3>. QED
      BY <1>3, <3>1
  <2>. QED
    BY <1>3, <2>2, <2>3, <2>4 DEF Next
<1>4. WebhookTypeOK /\ AloneInv /\ [Next]_vars =>
        [\A h \in Handlers :
            overlaps' = 0 /\ sending[h] = None /\ sending'[h] # None /\ run[h].stage # "REPLAYING" =>
                LET d == sending'[h].delivery IN d \in delivered => letter[d] = "OPEN"]_vars
  BY <1>3
<1>. QED
  BY <1>1, <1>2, <1>4, WebhookTypeCorrect, PTL DEF Spec, SuccessIsFinal
============================================================================
