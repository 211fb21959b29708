----------------------- MODULE PreventiveMaintenance -----------------------
(***************************************************************************)
(* What makes preventive work orders: a request for a run of the calendar  *)
(* scheduler (app/api/maintenance-scheduler/route.ts), a meter reading     *)
(* entered by hand (lib/assets/meters.ts), and a reading that a device     *)
(* sends and its provider delivers, perhaps more than once                 *)
(* (lib/integrations/examples/iot-meter-readings.ts).                      *)
(*                                                                         *)
(* There is one meter, without rollover.  Its last reading is the one with *)
(* the latest readingAt, which need not be the one entered last.  The      *)
(* provider is outside the code: it may deliver a message at any time, and *)
(* under FairSpec it goes on until the message is processed.               *)
(***************************************************************************)
EXTENDS PlanGeneration

CONSTANTS
    Dates,      \* the dates through which calendar runs generate
    Values,     \* the values that readings by hand have
    valueOf     \* the reading each message carries

ASSUME MessagesAssumption ==
    /\ Dates \cup Values \subseteq Points
    /\ valueOf \in [Messages -> Points]

VARIABLES
    latest,     \* the value of the last reading, 0 before the first
    message     \* the receipt and the integration event of each message

vars == <<generationVars, latest, message>>

\* readings: how many readings the message has made, each with its receipt and
\* the RECORDED row of the event.  processed: the event has its PROCESSED row.
Message == [readings: Nat, processed: BOOLEAN]

MaintenanceTypeOK ==
    /\ GenerationTypeOK
    /\ latest \in Nat
    /\ message \in [Messages -> Message]

Init ==
    /\ GenerationInit
    /\ latest = 0
    /\ message = [m \in Messages |-> [readings |-> 0, processed |-> FALSE]]

---------------------------------------------------------------------------

\* throughDate may lie in the future.
StartCalendarRun(r, throughDate) ==
    /\ run[r].stage = "IDLE"
    /\ ListPlans(r, [Idle EXCEPT !.reach = throughDate])
    /\ UNCHANGED <<plan, orders, archived, edits, stops, latest, message>>

\* The reading is compared with the last one.
Acceptable(value) == ~archived /\ latest <= value

addMeterReading(r, value) ==
    /\ run[r].stage = "IDLE"
    /\ Acceptable(value)
    /\ Goes(r, [Idle EXCEPT !.stage = "SAVING", !.mode = "METER", !.reach = value])
    /\ UNCHANGED <<plan, orders, archived, edits, stops, latest, message>>

\* Mutant: deliveries of one message do not wait for one another.
NeverLocked(m) == FALSE

\* Deliveries of one message wait for one another until the reading and its
\* receipt are committed (pg_advisory_xact_lock).
Locked(m) == \E r \in Runs : run[r].stage = "SAVING" /\ run[r].message = m

Ingesting(m, stage) ==
    [Idle EXCEPT !.stage = stage, !.mode = "METER", !.reach = valueOf[m], !.message = m]

\* Mutant: a message that has its receipt is answered at once.
IngestOnce(r, m) ==
    /\ run[r].stage = "IDLE"
    /\ ~Locked(m)
    /\ message[m].readings = 0
    /\ Acceptable(valueOf[m])
    /\ Goes(r, Ingesting(m, "SAVING"))
    /\ UNCHANGED <<plan, orders, archived, edits, stops, latest, message>>

\* A message that has its receipt makes no second reading.
ingestMessage(r, m) ==
    /\ run[r].stage = "IDLE"
    /\ ~Locked(m)
    /\ IF message[m].readings > 0
       THEN Goes(r, Ingesting(m, "LISTING"))
       ELSE /\ Acceptable(valueOf[m])
            /\ Goes(r, Ingesting(m, "SAVING"))
    /\ UNCHANGED <<plan, orders, archived, edits, stops, latest, message>>

\* backdated: another reading has a later readingAt.
SaveReading(r, backdated) ==
    LET m == run[r].message IN
    /\ run[r].stage = "SAVING"
    /\ backdated => latest # 0
    /\ latest' = IF backdated THEN latest ELSE run[r].reach
    /\ message' = IF m = None THEN message
                  ELSE [message EXCEPT ![m].readings = @ + 1]
    /\ Goes(r, [run[r] EXCEPT !.stage = "LISTING"])
    /\ UNCHANGED <<plan, orders, archived, edits, stops>>

ListMeterPlans(r) ==
    /\ run[r].stage = "LISTING"
    /\ ListPlans(r, run[r])
    /\ UNCHANGED <<plan, orders, archived, edits, stops, latest, message>>

markIntegrationEventProcessed(m) ==
    message' = [message EXCEPT ![m].processed = TRUE]

\* The run has come to its end, and the request is answered.
Finish(r) ==
    LET m == run[r].message IN
    /\ run[r].stage = "DONE"
    /\ IF m = None THEN UNCHANGED message
       ELSE markIntegrationEventProcessed(m)
    /\ Goes(r, Idle)
    /\ UNCHANGED <<plan, orders, archived, edits, stops, latest>>

RequestStep(r) ==
    \/ RunStep(r) /\ UNCHANGED <<latest, message>>
    \/ \E backdated \in BOOLEAN : SaveReading(r, backdated)
    \/ ListMeterPlans(r)
    \/ Finish(r)

Next ==
    \/ (PlanStep \/ \E r \in Runs : StopRun(r)) /\ UNCHANGED <<latest, message>>
    \/ \E r \in Runs :
         \/ \E date \in Dates : StartCalendarRun(r, date)
         \/ \E value \in Values : addMeterReading(r, value)
         \/ \E m \in Messages : ingestMessage(r, m)
         \/ RequestStep(r)

\* Requests go on; the provider repeats a message that was accepted until it
\* is processed.
Fairness ==
    /\ \A r \in Runs : WF_vars(RequestStep(r))
    /\ \A m \in Messages :
         SF_vars(~message[m].processed /\ \E r \in Runs : ingestMessage(r, m))

Spec == Init /\ [][Next]_vars

FairSpec == Spec /\ Fairness

---------------------------------------------------------------------------

\* "A repeated message cannot create a second reading", though deliveries
\* overlap and processes die anywhere (ingestVerifiedExampleIotMeterReading).
AppliedOnce == \A m \in Messages : message[m].readings <= 1

\* "A crash between reading commit and scheduling heals": a message that made
\* its reading is processed in the end, whatever fails on the way, a limit of
\* the scheduler or a plan that moved.
MessagesAreProcessed ==
    \A m \in Messages :
        message[m].readings > 0 ~> message[m].processed
==============================================================================
