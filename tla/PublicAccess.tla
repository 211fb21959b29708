---------------------------- MODULE PublicAccess ----------------------------
(***************************************************************************)
(* Access to one site with a scoped credential, from a public page, an     *)
(* embedded widget or a server with an API key: maintenance requests       *)
(* (lib/public-requests/create-request.ts) and lookups that are counted:   *)
(* the status of a request, an asset card, a controlled document, a KPI    *)
(* card.  The three families of routes authenticate in their own ways and  *)
(* then run the same functions, so one set of actions stands for all.      *)
(*                                                                         *)
(* Every query and every transaction of a request is a step; requests      *)
(* overlap, die anywhere, and are sent again under the same                *)
(* Idempotency-Key.  Submissions are never deleted.                        *)
(***************************************************************************)
EXTENDS Naturals, Sequences, FiniteSets

CONSTANTS
    Tokens,             \* credentials, browser tokens and API keys alike
    Keys,               \* idempotency keys
    Views,              \* the kinds of lookup: "STATUS", "ASSET" and others
    Handlers,           \* requests at work at one time
    Grants,             \* the sets of scopes a credential may be issued with
    Expiries,           \* when a credential may expire
    REQUESTS_PER_HOUR,
    VIEWS_PER_HOUR,     \* of each kind
    Hour,               \* the length of the window
    MaxTime,            \* bound
    None

Kinds == Views \cup {"CREATE"}

ASSUME LimitsAssumption ==
    /\ {REQUESTS_PER_HOUR, VIEWS_PER_HOUR, Hour, MaxTime} \subseteq Nat
    /\ REQUESTS_PER_HOUR > 0 /\ VIEWS_PER_HOUR > 0
ASSUME GrantsAssumption == Grants \subseteq SUBSET Kinds /\ "CREATE" \notin Views
ASSUME ExpiriesAssumption == Expiries \subseteq Nat
ASSUME HandlersAssumption == IsFiniteSet(Handlers)
ASSUME TokenNoneAssumption == None \notin Tokens \cup Keys \cup Kinds \cup {"OK"}

VARIABLES
    time,
    token,      \* the credentials
    tracked,    \* the submissions, each with the work order it made
    viewed,     \* the dates of the lookups recorded for a credential and kind
    assetGone,  \* whether the asset that requests name is archived
    request     \* what each handler is doing

vars == <<time, token, tracked, viewed, assetGone, request>>

Token == [scopes: SUBSET Kinds, expiresAt: Nat, revoked: BOOLEAN]

Submission == [token: Tokens, key: Keys, order: Nat, at: Nat]

\* order: the work order a creation is answered with, or a lookup asks for.
\* now: the time at which the window of the limit was read.  retry is history:
\* the submission of this key existed when the request arrived.
Request ==
    [stage: {"IDLE", "AUTHORISE", "LOOK", "COUNT", "ASSET", "CHECK", "WRITE", "REREAD",
             "SEEK", "RECORD", "ANSWERED"},
     kind: Kinds, token: Tokens \cup {None}, key: Keys \cup {None}, order: Nat, now: Nat,
     retry: BOOLEAN,
     outcome: {None, "OK", "INVALID_TOKEN", "RATE_LIMITED", "NOT_FOUND"}]

Idle ==
    [stage |-> "IDLE", kind |-> "CREATE", token |-> None, key |-> None, order |-> 0, now |-> 0,
     retry |-> FALSE, outcome |-> None]

AccessTypeOK ==
    /\ time \in Nat
    /\ token \in [Tokens -> Token \cup {None}]
    /\ tracked \subseteq Submission
    /\ viewed \in [Tokens -> [Views -> Seq(Nat)]]
    /\ assetGone \in BOOLEAN
    /\ request \in [Handlers -> Request]

Init ==
    /\ time = 0
    /\ token = [t \in Tokens |-> None]
    /\ tracked = {}
    /\ viewed = [t \in Tokens |-> [v \in Views |-> <<>>]]
    /\ assetGone = FALSE
    /\ request = [h \in Handlers |-> Idle]

---------------------------------------------------------------------------
(* The site.                                                               *)

Tick ==
    /\ time < MaxTime
    /\ time' = time + 1
    /\ UNCHANGED <<token, tracked, viewed, assetGone, request>>

\* The scopes are stored in an audit row beside the credential, before the
\* secret is handed out.
createPublicRequestToken(t, scopes, expiresAt) ==
    /\ token[t] = None
    /\ token' = [token EXCEPT ![t] = [scopes |-> scopes, expiresAt |-> expiresAt,
                                      revoked |-> FALSE]]
    /\ UNCHANGED <<time, tracked, viewed, assetGone, request>>

revokeToken(t) ==
    /\ token[t] # None
    /\ ~token[t].revoked
    /\ token' = [token EXCEPT ![t].revoked = TRUE]
    /\ UNCHANGED <<time, tracked, viewed, assetGone, request>>

archiveAsset ==
    /\ ~assetGone
    /\ assetGone' = TRUE
    /\ UNCHANGED <<time, token, tracked, viewed, request>>

---------------------------------------------------------------------------
(* Requests.                                                               *)

SubmissionsOf(t, k) == {s \in tracked : s.token = t /\ s.key = k}

Goes(h, next) ==
    /\ request' = [request EXCEPT ![h] = next]
    /\ UNCHANGED <<time, token, tracked, viewed, assetGone>>

Answered(h, outcome) == [request[h] EXCEPT !.stage = "ANSWERED", !.outcome = outcome]

AnsweredWith(h, s) == [Answered(h, "OK") EXCEPT !.order = s.order]

Moves(h, stage) == Goes(h, [request[h] EXCEPT !.stage = stage])

\* A creation names a key; a lookup may ask for any work order.
Arrive(h, t, kind, key, order) ==
    /\ request[h].stage = "IDLE"
    /\ IF kind = "CREATE" THEN key # None /\ order = 0 ELSE key = None
    /\ Goes(h, [Idle EXCEPT !.stage = "AUTHORISE", !.kind = kind, !.token = t, !.key = key,
                            !.order = order, !.retry = SubmissionsOf(t, key) # {}])

\* The query for the credential.
Authorise(h) ==
    LET t == request[h].token
        live == token[t] # None /\ ~token[t].revoked /\ time < token[t].expiresAt
    IN
    /\ request[h].stage = "AUTHORISE"
    /\ IF ~live \/ request[h].kind \notin token[t].scopes
       THEN Goes(h, Answered(h, "INVALID_TOKEN"))
       ELSE Moves(h, IF request[h].kind = "CREATE" THEN "LOOK" ELSE "COUNT")

\* Mutant: the limit comes first.
LookLater(h) ==
    /\ request[h].stage = "LOOK"
    /\ Moves(h, "COUNT")

\* The submission of the key, before the limit is looked at.
Look(h) ==
    LET found == SubmissionsOf(request[h].token, request[h].key) IN
    /\ request[h].stage = "LOOK"
    /\ \/ found = {} /\ Moves(h, "COUNT")
       \/ \E s \in found : Goes(h, AnsweredWith(h, s))

InWindow(date, end) == date <= end /\ end <= date + Hour

Submitted(t, end) == Cardinality({s \in tracked : s.token = t /\ InWindow(s.at, end)})

Viewed(t, kind, end) ==
    Cardinality({i \in DOMAIN viewed[t][kind] : InWindow(viewed[t][kind][i], end)})

\* Mutant: only what was recorded at this instant counts.
OverToday(h) ==
    LET t == request[h].token
        kind == request[h].kind
    IN
    IF kind = "CREATE"
    THEN Cardinality({s \in tracked : s.token = t /\ s.at = time}) >= REQUESTS_PER_HOUR
    ELSE Cardinality({i \in DOMAIN viewed[t][kind] : viewed[t][kind][i] = time})
           >= VIEWS_PER_HOUR

\* What is recorded for this credential in the hour before now is at the limit.
OverLimit(h) ==
    LET t == request[h].token IN
    IF request[h].kind = "CREATE"
    THEN Submitted(t, time) >= REQUESTS_PER_HOUR
    ELSE Viewed(t, request[h].kind, time) >= VIEWS_PER_HOUR

\* The hourly limit is counted before anything is written.
Count(h) ==
    /\ request[h].stage = "COUNT"
    /\ IF OverLimit(h)
       THEN Goes(h, Answered(h, "RATE_LIMITED"))
       ELSE Goes(h, [request[h] EXCEPT !.now = time,
                        !.stage = IF request[h].kind = "CREATE" THEN "ASSET" ELSE "SEEK"])

\* The query for the asset, if the request names one.
FindAsset(h) ==
    /\ request[h].stage = "ASSET"
    /\ \/ assetGone /\ Goes(h, Answered(h, "NOT_FOUND"))
       \/ Moves(h, "CHECK")

\* The transaction looks for the key once more.
Check(h) ==
    LET found == SubmissionsOf(request[h].token, request[h].key) IN
    /\ request[h].stage = "CHECK"
    /\ \/ found = {} /\ Moves(h, "WRITE")
       \/ \E s \in found : Goes(h, AnsweredWith(h, s))

NewSubmission(h) ==
    [token |-> request[h].token, key |-> request[h].key, order |-> Cardinality(tracked) + 1,
     at |-> time]

Record(h, s) ==
    /\ tracked' = tracked \cup {s}
    /\ request' = [request EXCEPT ![h] = AnsweredWith(h, s)]
    /\ UNCHANGED <<time, token, viewed, assetGone>>

\* Mutant: the key of a submission is not unique in the database.
WriteAnyway(h) ==
    /\ request[h].stage = "WRITE"
    /\ Record(h, NewSubmission(h))

\* The work order, its submission and the event are written and committed;
\* the unique index on token and key refuses the second of two transactions,
\* which takes its work order back.
Write(h) ==
    /\ request[h].stage = "WRITE"
    /\ IF SubmissionsOf(request[h].token, request[h].key) = {}
       THEN Record(h, NewSubmission(h))
       ELSE Moves(h, "REREAD")

\* The answer of the transaction that came first.
Reread(h) ==
    /\ request[h].stage = "REREAD"
    /\ \E s \in SubmissionsOf(request[h].token, request[h].key) : Goes(h, AnsweredWith(h, s))

\* A status is read only for a submission of the same credential; the card of
\* an archived asset is refused.
Missing(h) ==
    CASE request[h].kind = "STATUS" ->
           ~ \E s \in tracked : s.token = request[h].token /\ s.order = request[h].order
      [] request[h].kind = "ASSET" -> assetGone
      [] OTHER -> FALSE

\* A status that is not found is not recorded; other lookups always are.
Seek(h) ==
    /\ request[h].stage = "SEEK"
    /\ IF Missing(h) /\ request[h].kind = "STATUS"
       THEN Goes(h, Answered(h, "NOT_FOUND"))
       ELSE Goes(h, [request[h] EXCEPT !.stage = "RECORD",
                        !.outcome = IF Missing(h) THEN "NOT_FOUND" ELSE "OK"])

\* The lookup is recorded with the date at which it was counted.
RecordView(h) ==
    LET t == request[h].token
        kind == request[h].kind
    IN
    /\ request[h].stage = "RECORD"
    /\ viewed' = [viewed EXCEPT ![t][kind] = Append(@, request[h].now)]
    /\ request' = [request EXCEPT ![h].stage = "ANSWERED"]
    /\ UNCHANGED <<time, token, tracked, assetGone>>

\* The answer arrives, or the process dies or loses its client at any step.
Leave(h) ==
    /\ request[h].stage # "IDLE"
    /\ Goes(h, Idle)

LookupStep(h) == Seek(h) \/ RecordView(h)

Next ==
    \/ Tick
    \/ archiveAsset
    \/ \E t \in Tokens :
         \/ \E scopes \in Grants, expiresAt \in Expiries :
              createPublicRequestToken(t, scopes, expiresAt)
         \/ revokeToken(t)
    \/ \E h \in Handlers :
         \/ \E t \in Tokens, kind \in Kinds, key \in Keys \cup {None},
               order \in 0..Cardinality(tracked) : Arrive(h, t, kind, key, order)
         \/ Authorise(h) \/ Look(h) \/ Count(h) \/ FindAsset(h) \/ Check(h) \/ Write(h)
         \/ Reread(h) \/ LookupStep(h) \/ Leave(h)

Spec == Init /\ [][Next]_vars

---------------------------------------------------------------------------

\* However often and however closely a request is repeated, its key has one
\* submission and no two submissions share a work order; and every copy of the
\* request that is answered is answered with that work order
\* (createPublicMaintenanceRequest, three places).
OneOrderPerKey ==
    /\ \A s1, s2 \in tracked :
         (s1.token = s2.token /\ s1.key = s2.key) \/ s1.order = s2.order => s1 = s2
    /\ \A h \in Handlers :
         request[h].kind = "CREATE" /\ request[h].outcome = "OK" =>
             \E s \in SubmissionsOf(request[h].token, request[h].key) :
                 s.order = request[h].order

\* A request that comes again after its work order was made gets it as long as
\* the credential lives: neither the hourly limit, used up since, nor an asset
\* archived since stands in its way.
RetriesAreAnswered ==
    \A h \in Handlers :
        request[h].retry => request[h].outcome \in {None, "OK", "INVALID_TOKEN"}

\* A request may be repeated at will: it is done once and answered alike.
CreationIsIdempotent == OneOrderPerKey /\ RetriesAreAnswered

\* The limits are counted and written apart, so that requests which overlap
\* exceed them: by one for each request that was at work besides, and by no
\* more, however late they write and whichever of them die.
BudgetsHold ==
    \A t \in Tokens, end \in 0..MaxTime :
        /\ Submitted(t, end) < REQUESTS_PER_HOUR + Cardinality(Handlers)
        /\ \A v \in Views : Viewed(t, v, end) < VIEWS_PER_HOUR + Cardinality(Handlers)
============================================================================
