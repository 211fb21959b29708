---------------------------- MODULE LimitsProofs ----------------------------
(***************************************************************************)
(* Proofs about what comes to the API from outside: PublicAccess, for any  *)
(* credentials, keys, limits and number of overlapping requests,           *)
(* RateLimiter, for any clients, limit, window and size of the map, and    *)
(* SavedViews, for any limits and number of overlapping requests.          *)
(***************************************************************************)
EXTENDS PublicAccess, RateLimiter, SavedViews, FiniteSetTheorems, TLAPS

---------------------------------------------------------------------------
(* Public access.                                                          *)

\* Work orders are numbered by counting, so numbers in use are not above.
NumbersUsed ==
    /\ IsFiniteSet(tracked)
    /\ \A s \in tracked : s.order <= Cardinality(tracked)

Unique ==
    \A s1, s2 \in tracked :
        (s1.token = s2.token /\ s1.key = s2.key) \/ s1.order = s2.order => s1 = s2

\* What the stage of a request says of it.
Shaped(r) ==
    /\ r.stage # "IDLE" => r.token \in Tokens
    /\ r.stage # "IDLE" /\ r.kind = "CREATE" => r.key \in Keys
    /\ r.kind # "CREATE" => r.key = None
    /\ r.stage \in {"LOOK", "ASSET", "CHECK", "WRITE", "REREAD"} => r.kind = "CREATE"
    /\ r.stage \in {"SEEK", "RECORD"} => r.kind # "CREATE"
    /\ r.stage \notin {"RECORD", "ANSWERED"} => r.outcome = None

\* A creation that succeeded names the work order of its key.
Told(r) ==
    r.kind = "CREATE" /\ r.outcome = "OK" =>
        \E s \in SubmissionsOf(r.token, r.key) : s.order = r.order

\* A request that was sent before has its submission, and has it found before
\* the limit is counted.
RetryTrue(r) ==
    r.retry =>
        /\ SubmissionsOf(r.token, r.key) # {}
        /\ r.stage \in {"AUTHORISE", "LOOK", "ANSWERED"}
        /\ r.outcome \in {None, "OK", "INVALID_TOKEN"}

Good(r) == Shaped(r) /\ Told(r) /\ RetryTrue(r)

AccessInv ==
    /\ AccessTypeOK
    /\ NumbersUsed
    /\ Unique
    /\ \A h \in Handlers : Good(request[h])

---------------------------------------------------------------------------

\* A step that changes the record of one request only.
LEMMA GoesStep ==
  ASSUME AccessInv, NEW h \in Handlers, NEW next \in Request, Good(next), Goes(h, next)
  PROVE  AccessInv'
<1>1. request' = [request EXCEPT ![h] = next] /\ UNCHANGED <<time, token, tracked, viewed, assetGone>>
  BY DEF Goes
<1>2. AccessTypeOK'
  BY <1>1 DEF AccessInv, AccessTypeOK
<1>3. NumbersUsed' /\ Unique'
  BY <1>1 DEF AccessInv, NumbersUsed, Unique
<1>4. ASSUME NEW g \in Handlers PROVE Good(request[g])'
  <2>1. request'[g] = request[g] \/ request'[g] = next
    BY <1>1 DEF AccessInv, AccessTypeOK
  <2>2. Good(request[g])
    BY DEF AccessInv
  <2> QED BY <1>1, <2>1, <2>2 DEF Good, Shaped, Told, RetryTrue, SubmissionsOf
<1> QED BY <1>2, <1>3, <1>4 DEF AccessInv

LEMMA SubmissionType ==
  ASSUME AccessInv, NEW t, NEW k
  PROVE  \A s \in SubmissionsOf(t, k) :
           /\ s \in tracked /\ s.token = t /\ s.key = k
           /\ s.order \in Nat /\ s.token \in Tokens /\ s.key \in Keys
BY DEF AccessInv, AccessTypeOK, Submission, SubmissionsOf

LEMMA AnswerRecord ==
  ASSUME NEW h, request[h] \in Request, NEW s, s.order \in Nat
  PROVE  LET a == AnsweredWith(h, s) IN
         /\ a \in Request
         /\ a.stage = "ANSWERED" /\ a.outcome = "OK" /\ a.order = s.order
         /\ a.kind = request[h].kind /\ a.token = request[h].token
         /\ a.key = request[h].key /\ a.retry = request[h].retry
BY DEF AnsweredWith, Answered, Request

\* The answer that names a submission of the key.
LEMMA AnswerGood ==
  ASSUME AccessInv, NEW h \in Handlers, request[h].kind = "CREATE",
         request[h].stage \notin {"IDLE", "RECORD"},
         NEW s \in SubmissionsOf(request[h].token, request[h].key)
  PROVE  AnsweredWith(h, s) \in Request /\ Good(AnsweredWith(h, s))
<1> DEFINE r == request[h]
           a == AnsweredWith(h, s)
<1>1. r \in Request /\ Good(r)
  BY DEF AccessInv, AccessTypeOK
<1>2. s.order \in Nat
  BY SubmissionType
<1>3. /\ a \in Request
      /\ a.stage = "ANSWERED" /\ a.outcome = "OK" /\ a.order = s.order
      /\ a.kind = r.kind /\ a.token = r.token /\ a.key = r.key /\ a.retry = r.retry
  BY <1>1, <1>2, AnswerRecord
<1> QED BY <1>1, <1>3 DEF Good, Shaped, Told, RetryTrue

LEMMA ArriveStep ==
  ASSUME AccessInv, NEW h \in Handlers, NEW t \in Tokens, NEW kind \in Kinds,
         NEW key \in Keys \cup {None}, NEW order \in Nat, Arrive(h, t, kind, key, order)
  PROVE  AccessInv'
<1> DEFINE next == [Idle EXCEPT !.stage = "AUTHORISE", !.kind = kind, !.token = t, !.key = key,
                               !.order = order, !.retry = SubmissionsOf(t, key) # {}]
<1>1. /\ next \in Request
      /\ next.stage = "AUTHORISE" /\ next.kind = kind /\ next.token = t /\ next.key = key
      /\ next.retry = (SubmissionsOf(t, key) # {}) /\ next.outcome = None
  BY DEF Idle, Request, Kinds
<1>2. kind = "CREATE" => key \in Keys
  BY DEF Arrive
<1>3. kind # "CREATE" => key = None
  BY DEF Arrive
<1>4. Good(next)
  BY <1>1, <1>2, <1>3, TokenNoneAssumption DEF Good, Shaped, Told, RetryTrue
<1>5. Goes(h, next)
  BY DEF Arrive
<1> QED BY <1>1, <1>4, <1>5, GoesStep

LEMMA AuthoriseStep ==
  ASSUME AccessInv, NEW h \in Handlers, Authorise(h)
  PROVE  AccessInv'
<1> DEFINE r == request[h]
           refused == Answered(h, "INVALID_TOKEN")
           passed == [r EXCEPT !.stage = IF r.kind = "CREATE" THEN "LOOK" ELSE "COUNT"]
<1>1. r \in Request /\ Good(r) /\ r.stage = "AUTHORISE"
  BY DEF AccessInv, AccessTypeOK, Authorise
<1>2. Goes(h, refused) \/ Goes(h, passed)
  BY DEF Authorise, Moves
<1>3. refused \in Request /\ Good(refused)
  <2>1. /\ refused \in Request /\ refused.stage = "ANSWERED" /\ refused.outcome = "INVALID_TOKEN"
        /\ refused.kind = r.kind /\ refused.token = r.token /\ refused.key = r.key
        /\ refused.retry = r.retry
    BY <1>1 DEF Answered, Request
  <2> QED BY <1>1, <2>1 DEF Good, Shaped, Told, RetryTrue
<1>4. r.kind # "CREATE" => ~r.retry
  BY <1>1, TokenNoneAssumption, SubmissionType DEF Good, Shaped, RetryTrue
<1>5. passed \in Request /\ Good(passed)
  <2>1. /\ passed \in Request
        /\ passed.stage = IF r.kind = "CREATE" THEN "LOOK" ELSE "COUNT"
        /\ passed.outcome = r.outcome
        /\ passed.kind = r.kind /\ passed.token = r.token /\ passed.key = r.key
        /\ passed.retry = r.retry
    BY <1>1 DEF Request
  <2> QED BY <1>1, <1>4, <2>1 DEF Good, Shaped, Told, RetryTrue
<1> QED BY <1>2, <1>3, <1>5, GoesStep

\* A request that is not a retry moves on without an answer.
LEMMA OnwardGood ==
  ASSUME AccessInv, NEW h \in Handlers, NEW next \in Request,
         next.kind = request[h].kind, next.token = request[h].token,
         next.key = request[h].key, next.retry = request[h].retry,
         next.outcome = None, ~request[h].retry, request[h].stage # "IDLE",
         \/ next.kind = "CREATE" /\ next.stage \in {"COUNT", "ASSET", "CHECK", "WRITE", "REREAD"}
         \/ next.kind # "CREATE" /\ next.stage = "SEEK"
  PROVE  Good(next)
<1>1. Good(request[h])
  BY DEF AccessInv
<1> QED BY <1>1, TokenNoneAssumption DEF Good, Shaped, Told, RetryTrue

\* An answer that is no success may be given to a request that is no retry.
LEMMA RefusalGood ==
  ASSUME AccessInv, NEW h \in Handlers, NEW outcome \in {"RATE_LIMITED", "NOT_FOUND"},
         ~request[h].retry, request[h].stage # "IDLE"
  PROVE  Answered(h, outcome) \in Request /\ Good(Answered(h, outcome))
<1> DEFINE r == request[h]
           a == Answered(h, outcome)
<1>1. r \in Request /\ Good(r)
  BY DEF AccessInv, AccessTypeOK
<1>2. /\ a \in Request /\ a.stage = "ANSWERED" /\ a.outcome = outcome
      /\ a.kind = r.kind /\ a.token = r.token /\ a.key = r.key /\ a.retry = r.retry
  BY <1>1 DEF Answered, Request
<1> QED BY <1>1, <1>2 DEF Good, Shaped, Told, RetryTrue

\* The three places that look for the submission of the key.
LEMMA FoundStep ==
  ASSUME AccessInv, NEW h \in Handlers, request[h].stage \in {"LOOK", "CHECK", "REREAD"},
         \E s \in SubmissionsOf(request[h].token, request[h].key) : Goes(h, AnsweredWith(h, s))
  PROVE  AccessInv'
<1>1. PICK s \in SubmissionsOf(request[h].token, request[h].key) : Goes(h, AnsweredWith(h, s))
  OBVIOUS
<1>2. request[h].kind = "CREATE"
  BY DEF AccessInv, Good, Shaped
<1>3. AnsweredWith(h, s) \in Request /\ Good(AnsweredWith(h, s))
  BY <1>2, AnswerGood
<1> QED BY <1>1, <1>3, GoesStep

\* A request that is no retry moves to the next query.
LEMMA OnwardStep ==
  ASSUME AccessInv, NEW h \in Handlers, NEW stage \in {"COUNT", "CHECK", "WRITE", "REREAD"},
         request[h].stage \in {"LOOK", "ASSET", "CHECK", "WRITE"}, ~request[h].retry,
         Moves(h, stage)
  PROVE  AccessInv'
<1> DEFINE next == [request[h] EXCEPT !.stage = stage]
<1>1. request[h] \in Request /\ Good(request[h])
  BY DEF AccessInv, AccessTypeOK
<1>2. /\ next \in Request /\ next.stage = stage /\ next.outcome = request[h].outcome
      /\ next.kind = request[h].kind /\ next.token = request[h].token
      /\ next.key = request[h].key /\ next.retry = request[h].retry
  BY <1>1 DEF Request
<1>3. next.outcome = None /\ next.kind = "CREATE"
  BY <1>1, <1>2 DEF Good, Shaped
<1>4. Good(next)
  BY <1>2, <1>3, OnwardGood
<1>5. Goes(h, next)
  BY DEF Moves
<1> QED BY <1>2, <1>4, <1>5, GoesStep

LEMMA LookStep ==
  ASSUME AccessInv, NEW h \in Handlers, Look(h)
  PROVE  AccessInv'
<1>1. CASE SubmissionsOf(request[h].token, request[h].key) = {} /\ Moves(h, "COUNT")
  <2>1. ~request[h].retry
    BY <1>1 DEF AccessInv, Good, RetryTrue
  <2> QED BY <1>1, <2>1, OnwardStep DEF Look
<1>2. CASE \E s \in SubmissionsOf(request[h].token, request[h].key) :
             Goes(h, AnsweredWith(h, s))
  BY <1>2, FoundStep DEF Look
<1> QED BY <1>1, <1>2 DEF Look

LEMMA CountStep ==
  ASSUME AccessInv, NEW h \in Handlers, Count(h)
  PROVE  AccessInv'
<1> DEFINE next == [request[h] EXCEPT !.now = time,
                      !.stage = IF request[h].kind = "CREATE" THEN "ASSET" ELSE "SEEK"]
<1>1. request[h] \in Request /\ Good(request[h]) /\ request[h].stage = "COUNT" /\ time \in Nat
  BY DEF AccessInv, AccessTypeOK, Count
<1>2. ~request[h].retry /\ request[h].outcome = None
  BY <1>1 DEF Good, RetryTrue, Shaped
<1>3. CASE Goes(h, Answered(h, "RATE_LIMITED"))
  BY <1>1, <1>2, <1>3, RefusalGood, GoesStep
<1>4. CASE Goes(h, next)
  <2>1. /\ next \in Request /\ next.outcome = request[h].outcome
        /\ next.stage = IF request[h].kind = "CREATE" THEN "ASSET" ELSE "SEEK"
        /\ next.kind = request[h].kind /\ next.token = request[h].token
        /\ next.key = request[h].key /\ next.retry = request[h].retry
    BY <1>1 DEF Request
  <2>2. Good(next)
    BY <1>1, <1>2, <2>1, OnwardGood
  <2> QED BY <1>4, <2>1, <2>2, GoesStep
<1> QED BY <1>3, <1>4 DEF Count

LEMMA FindAssetStep ==
  ASSUME AccessInv, NEW h \in Handlers, FindAsset(h)
  PROVE  AccessInv'
<1>1. request[h].stage = "ASSET" /\ ~request[h].retry
  BY DEF AccessInv, Good, RetryTrue, FindAsset
<1>2. CASE Goes(h, Answered(h, "NOT_FOUND"))
  BY <1>1, <1>2, RefusalGood, GoesStep
<1>3. CASE Moves(h, "CHECK")
  BY <1>1, <1>3, OnwardStep
<1> QED BY <1>2, <1>3 DEF FindAsset

LEMMA CheckStep ==
  ASSUME AccessInv, NEW h \in Handlers, Check(h)
  PROVE  AccessInv'
<1>1. request[h].stage = "CHECK" /\ ~request[h].retry
  BY DEF AccessInv, Good, RetryTrue, Check
<1>2. CASE Moves(h, "WRITE")
  BY <1>1, <1>2, OnwardStep
<1>3. CASE \E s \in SubmissionsOf(request[h].token, request[h].key) :
             Goes(h, AnsweredWith(h, s))
  BY <1>1, <1>3, FoundStep
<1> QED BY <1>2, <1>3 DEF Check

LEMMA RereadStep ==
  ASSUME AccessInv, NEW h \in Handlers, Reread(h)
  PROVE  AccessInv'
BY FoundStep DEF Reread

---------------------------------------------------------------------------
(* The transaction that writes.                                            *)

\* The submission it adds is the first of its key, and its number is new.
LEMMA RecordStep ==
  ASSUME AccessInv, NEW h \in Handlers, request[h].stage = "WRITE",
         SubmissionsOf(request[h].token, request[h].key) = {}, Record(h, NewSubmission(h))
  PROVE  AccessInv'
<1> DEFINE r == request[h]
           s == NewSubmission(h)
<1>1. /\ r \in Request /\ Good(r) /\ r.kind = "CREATE" /\ ~r.retry
      /\ r.token \in Tokens /\ r.key \in Keys
  BY DEF AccessInv, AccessTypeOK, Good, Shaped, RetryTrue
<1>2. IsFiniteSet(tracked) /\ Cardinality(tracked) \in Nat /\ time \in Nat
  BY FS_CardinalityType DEF AccessInv, NumbersUsed, AccessTypeOK
<1>3. /\ s \in Submission /\ s.token = r.token /\ s.key = r.key
      /\ s.order = Cardinality(tracked) + 1
  BY <1>1, <1>2 DEF NewSubmission, Submission
<1>4. s \notin tracked
  BY <1>3 DEF SubmissionsOf
<1>5. tracked' = tracked \cup {s} /\ UNCHANGED <<time, token, viewed, assetGone>>
  BY DEF Record
<1>6. IsFiniteSet(tracked') /\ Cardinality(tracked') = Cardinality(tracked) + 1
  BY <1>2, <1>4, <1>5, FS_AddElement
<1>7. NumbersUsed'
  <2>1. \A x \in tracked : x.order \in Nat /\ x.order <= Cardinality(tracked)
    BY DEF AccessInv, NumbersUsed, AccessTypeOK, Submission
  <2>2. \A x \in tracked' : x.order <= Cardinality(tracked) + 1
    BY <1>2, <1>3, <1>5, <2>1
  <2> QED BY <1>6, <2>2 DEF NumbersUsed
<1>8. Unique'
  <2>1. \A x \in tracked : x.order \in Nat /\ x.order <= Cardinality(tracked)
    BY DEF AccessInv, NumbersUsed, AccessTypeOK, Submission
  <2>2. \A x \in tracked : x.order # s.order /\ ~(x.token = s.token /\ x.key = s.key)
    BY <1>2, <1>3, <2>1 DEF SubmissionsOf
  <2> QED BY <1>5, <2>2 DEF AccessInv, Unique
<1> DEFINE a == AnsweredWith(h, s)
<1>9. /\ a \in Request
      /\ a.stage = "ANSWERED" /\ a.outcome = "OK" /\ a.order = s.order
      /\ a.kind = r.kind /\ a.token = r.token /\ a.key = r.key /\ a.retry = r.retry
  <2>1. s.order \in Nat
    BY <1>2, <1>3
  <2> QED BY <1>1, <1>3, <2>1, AnswerRecord
<1>10. request' = [request EXCEPT ![h] = a]
  BY DEF Record
<1>11. AccessTypeOK'
  BY <1>3, <1>5, <1>9, <1>10 DEF AccessInv, AccessTypeOK
<1>12. ASSUME NEW g \in Handlers PROVE Good(request[g])'
  <2>1. CASE g = h
    <3>1. request'[g] = a
      BY <1>10, <2>1 DEF AccessInv, AccessTypeOK
    <3>2. s \in tracked' /\ s.token = a.token /\ s.key = a.key /\ s.order = a.order
      BY <1>3, <1>5, <1>9
    <3>3. Told(request[g])'
      BY <3>1, <3>2 DEF Told, SubmissionsOf
    <3>4. Shaped(request[g])' /\ RetryTrue(request[g])'
      BY <1>1, <1>9, <3>1 DEF Good, Shaped, RetryTrue
    <3> QED BY <3>3, <3>4 DEF Good
  <2>2. CASE g # h
    <3>1. request'[g] = request[g] /\ Good(request[g])
      BY <1>10, <2>2 DEF AccessInv, AccessTypeOK
    <3>2. tracked \subseteq tracked'
      BY <1>5
    <3> QED BY <3>1, <3>2 DEF Good, Shaped, Told, RetryTrue, SubmissionsOf
  <2> QED BY <2>1, <2>2
<1> QED BY <1>7, <1>8, <1>11, <1>12 DEF AccessInv

LEMMA WriteStep ==
  ASSUME AccessInv, NEW h \in Handlers, Write(h)
  PROVE  AccessInv'
<1>1. request[h].stage = "WRITE" /\ ~request[h].retry
  BY DEF AccessInv, Good, RetryTrue, Write
<1>2. CASE SubmissionsOf(request[h].token, request[h].key) = {}
  BY <1>1, <1>2, RecordStep DEF Write
<1>3. CASE SubmissionsOf(request[h].token, request[h].key) # {}
  BY <1>1, <1>3, OnwardStep DEF Write
<1> QED BY <1>2, <1>3

---------------------------------------------------------------------------
(* Lookups.                                                                *)

LEMMA SeekStep ==
  ASSUME AccessInv, NEW h \in Handlers, Seek(h)
  PROVE  AccessInv'
<1> DEFINE found == [request[h] EXCEPT !.stage = "RECORD",
                       !.outcome = IF Missing(h) THEN "NOT_FOUND" ELSE "OK"]
<1>1. /\ request[h] \in Request /\ Good(request[h]) /\ request[h].stage = "SEEK"
      /\ ~request[h].retry /\ request[h].kind # "CREATE"
  BY DEF AccessInv, AccessTypeOK, Seek, Good, Shaped, RetryTrue
<1>2. CASE Goes(h, Answered(h, "NOT_FOUND"))
  BY <1>1, <1>2, RefusalGood, GoesStep
<1>3. CASE Goes(h, found)
  <2>1. /\ found \in Request /\ found.stage = "RECORD"
        /\ found.kind = request[h].kind /\ found.token = request[h].token
        /\ found.key = request[h].key /\ found.retry = request[h].retry
    BY <1>1 DEF Request
  <2>2. Good(found)
    BY <1>1, <2>1 DEF Good, Shaped, Told, RetryTrue
  <2> QED BY <1>3, <2>1, <2>2, GoesStep
<1> QED BY <1>2, <1>3 DEF Seek

LEMMA RecordViewStep ==
  ASSUME AccessInv, NEW h \in Handlers, RecordView(h)
  PROVE  AccessInv'
<1> DEFINE r == request[h]
           next == [r EXCEPT !.stage = "ANSWERED"]
<1>1. /\ r \in Request /\ Good(r) /\ r.stage = "RECORD" /\ ~r.retry
      /\ r.kind \in Views /\ r.token \in Tokens /\ r.now \in Nat
  BY DEF AccessInv, AccessTypeOK, RecordView, Good, Shaped, RetryTrue, Request, Kinds
<1>2. r.kind # "CREATE"
  BY <1>1, GrantsAssumption
<1>3. /\ next \in Request /\ next.stage = "ANSWERED"
      /\ next.kind = r.kind /\ next.token = r.token
      /\ next.key = r.key /\ next.retry = r.retry
  BY <1>1 DEF Request
<1>4. Good(next)
  BY <1>1, <1>2, <1>3 DEF Good, Shaped, Told, RetryTrue
<1>5. request' = [request EXCEPT ![h] = next] /\ UNCHANGED <<time, token, tracked, assetGone>>
  BY DEF RecordView
<1>6. viewed' \in [Tokens -> [Views -> Seq(Nat)]]
  <2>1. viewed[r.token] \in [Views -> Seq(Nat)] /\ viewed[r.token][r.kind] \in Seq(Nat)
    BY <1>1 DEF AccessInv, AccessTypeOK
  <2>2. Append(viewed[r.token][r.kind], r.now) \in Seq(Nat)
    BY <1>1, <2>1
  <2>3. PICK row : row = [viewed[r.token] EXCEPT ![r.kind] = Append(viewed[r.token][r.kind], r.now)]
    OBVIOUS
  <2>4. row \in [Views -> Seq(Nat)]
    BY <2>1, <2>2, <2>3
  <2>5. viewed' = [viewed EXCEPT ![r.token] = row]
    BY <2>3 DEF RecordView
  <2> QED BY <2>4, <2>5 DEF AccessInv, AccessTypeOK
<1>7. AccessTypeOK' /\ NumbersUsed' /\ Unique'
  BY <1>3, <1>5, <1>6 DEF AccessInv, AccessTypeOK, NumbersUsed, Unique
<1>8. ASSUME NEW g \in Handlers PROVE Good(request[g])'
  <2>1. (request'[g] = request[g] \/ request'[g] = next) /\ Good(request[g])
    BY <1>5 DEF AccessInv, AccessTypeOK
  <2> QED BY <1>4, <1>5, <2>1 DEF Good, Shaped, Told, RetryTrue, SubmissionsOf
<1> QED BY <1>7, <1>8 DEF AccessInv

LEMMA LeaveStep ==
  ASSUME AccessInv, NEW h \in Handlers, Leave(h)
  PROVE  AccessInv'
<1>1. Idle \in Request
  BY DEF Idle, Request, Kinds
<1>2. Good(Idle)
  BY TokenNoneAssumption DEF Idle, Good, Shaped, Told, RetryTrue
<1> QED BY <1>1, <1>2, GoesStep DEF Leave

---------------------------------------------------------------------------
(* The site, and all together.                                             *)

LEMMA SiteStep ==
  ASSUME AccessInv,
         \/ Tick \/ archiveAsset
         \/ \E t \in Tokens : revokeToken(t)
         \/ \E t \in Tokens, scopes \in Grants, expiresAt \in Expiries :
              createPublicRequestToken(t, scopes, expiresAt)
  PROVE  AccessInv'
<1>1. /\ UNCHANGED <<tracked, viewed, request>>
      /\ time' = time \/ time' = time + 1
      /\ assetGone' = assetGone \/ assetGone' = TRUE
  BY DEF Tick, archiveAsset, revokeToken, createPublicRequestToken
<1>2. token' \in [Tokens -> Token \cup {None}]
  <2>1. token \in [Tokens -> Token \cup {None}]
    BY DEF AccessInv, AccessTypeOK
  <2>2. CASE Tick \/ archiveAsset
    BY <2>1, <2>2 DEF Tick, archiveAsset
  <2>3. ASSUME NEW t \in Tokens, revokeToken(t)
        PROVE  token' \in [Tokens -> Token \cup {None}]
    <3>1. token[t] \in Token
      BY <2>1, <2>3 DEF revokeToken
    <3>2. [token[t] EXCEPT !.revoked = TRUE] \in Token
      BY <3>1 DEF Token
    <3> QED BY <2>1, <2>3, <3>2 DEF revokeToken
  <2>4. ASSUME NEW t \in Tokens, NEW scopes \in Grants, NEW expiresAt \in Expiries,
               createPublicRequestToken(t, scopes, expiresAt)
        PROVE  token' \in [Tokens -> Token \cup {None}]
    <3>1. [scopes |-> scopes, expiresAt |-> expiresAt, revoked |-> FALSE] \in Token
      BY GrantsAssumption, ExpiriesAssumption DEF Token
    <3> QED BY <2>1, <2>4, <3>1 DEF createPublicRequestToken
  <2> QED BY <2>2, <2>3, <2>4
<1>3. AccessTypeOK'
  <2>1. time' \in Nat
    BY <1>1 DEF AccessInv, AccessTypeOK
  <2>3. assetGone' \in BOOLEAN
    <3>1. assetGone \in BOOLEAN
      BY DEF AccessInv, AccessTypeOK
    <3> QED BY <1>1, <3>1, Zenon
  <2>2. UNCHANGED tracked /\ UNCHANGED viewed /\ UNCHANGED request
    BY <1>1
  <2> QED BY <1>2, <2>1, <2>2, <2>3 DEF AccessInv, AccessTypeOK
<1>4. NumbersUsed' /\ Unique'
  BY <1>1 DEF AccessInv, NumbersUsed, Unique
<1>5. \A h \in Handlers : Good(request[h])'
  BY <1>1 DEF AccessInv, Good, Shaped, Told, RetryTrue, SubmissionsOf
<1> QED BY <1>3, <1>4, <1>5 DEF AccessInv

LEMMA StepKeeps == AccessInv /\ [Next]_vars => AccessInv'
<1> SUFFICES ASSUME AccessInv, [Next]_vars PROVE AccessInv'
  OBVIOUS
<1>1. ASSUME Tick \/ archiveAsset PROVE AccessInv'
  BY <1>1, SiteStep
<1>2. ASSUME NEW t \in Tokens,
             \/ revokeToken(t)
             \/ \E scopes \in Grants, expiresAt \in Expiries :
                  createPublicRequestToken(t, scopes, expiresAt)
      PROVE  AccessInv'
  BY <1>2, SiteStep
<1>3. ASSUME NEW h \in Handlers, NEW t \in Tokens, NEW kind \in Kinds,
             NEW key \in Keys \cup {None}, NEW order \in 0..Cardinality(tracked),
             Arrive(h, t, kind, key, order)
      PROVE  AccessInv'
  BY <1>3, ArriveStep
<1>4. ASSUME NEW h \in Handlers,
             \/ Authorise(h) \/ Look(h) \/ Count(h) \/ FindAsset(h) \/ Check(h) \/ Write(h)
             \/ Reread(h) \/ Seek(h) \/ RecordView(h) \/ Leave(h)
      PROVE  AccessInv'
  BY <1>4, AuthoriseStep, LookStep, CountStep, FindAssetStep, CheckStep, WriteStep, RereadStep,
     SeekStep, RecordViewStep, LeaveStep
<1>5. CASE UNCHANGED vars
  BY <1>5 DEF AccessInv, AccessTypeOK, NumbersUsed, Unique, Good, Shaped, Told, RetryTrue,
              SubmissionsOf, vars
<1> QED BY <1>1, <1>2, <1>3, <1>4, <1>5 DEF Next, LookupStep

THEOREM AccessIsSound == Spec => []AccessInv
<1>1. Init => AccessInv
  <2> SUFFICES ASSUME Init PROVE AccessInv
    OBVIOUS
  <2>1. Idle \in Request /\ Good(Idle)
    BY TokenNoneAssumption DEF Idle, Request, Kinds, Good, Shaped, Told, RetryTrue
  <2>2. [t \in Tokens |-> [v \in Views |-> <<>>]] \in [Tokens -> [Views -> Seq(Nat)]]
    OBVIOUS
  <2>3. AccessTypeOK
    BY <2>1, <2>2 DEF Init, AccessTypeOK
  <2>4. NumbersUsed /\ Unique
    BY FS_EmptySet DEF Init, NumbersUsed, Unique
  <2> QED BY <2>1, <2>3, <2>4 DEF Init, AccessInv
<1> QED BY <1>1, StepKeeps, PTL DEF Spec

---------------------------------------------------------------------------

\* Credentials, submissions and requests are well typed in every reachable state.
THEOREM AccessTypeCorrect == Spec => []AccessTypeOK
<1>1. AccessInv => AccessTypeOK
  BY DEF AccessInv
<1> QED BY <1>1, AccessIsSound, PTL

\* Copies of a request, however they interleave or die, make one work order and
\* are all answered with it; one sent again is never refused for the limit or for
\* its asset.
THEOREM OneOrderForEachKey == Spec => []CreationIsIdempotent
<1>1. AccessInv => OneOrderPerKey
  BY DEF AccessInv, Unique, Good, Told, OneOrderPerKey
<1>2. AccessInv => RetriesAreAnswered
  BY DEF AccessInv, Good, RetryTrue, RetriesAreAnswered
<1>3. AccessInv => CreationIsIdempotent
  BY <1>1, <1>2 DEF CreationIsIdempotent
<1> QED BY <1>3, AccessIsSound, PTL

---------------------------------------------------------------------------
(* The hourly limits.                                                      *)

\* The stages between the count of a request and what it records.
Past == {"ASSET", "CHECK", "WRITE", "SEEK", "RECORD"}

\* Requests let through by the limit, not after end, that have yet to record.
Underway(t, kind, end) ==
    {h \in Handlers : /\ request[h].stage \in Past
                      /\ request[h].token = t /\ request[h].kind = kind
                      /\ request[h].now <= end}

Spent(t, kind, end) == IF kind = "CREATE" THEN Submitted(t, end) ELSE Viewed(t, kind, end)
Budget(kind) == IF kind = "CREATE" THEN REQUESTS_PER_HOUR ELSE VIEWS_PER_HOUR

\* Nothing is recorded, and nothing was counted, in the future.
DatesArePast ==
    /\ \A s \in tracked : s.at <= time
    /\ \A t \in Tokens, v \in Views : \A i \in DOMAIN viewed[t][v] : viewed[t][v][i] <= time
    /\ \A h \in Handlers : request[h].stage \in Past => request[h].now <= time

\* Once a window is at its limit, what it holds and what may still come to it
\* are fewer than the limit and the handlers together: nothing enters any more,
\* and the request that reached the limit is no longer under way.
WindowsAreBounded ==
    \A t \in Tokens, kind \in Kinds, end \in Nat :
        Spent(t, kind, end) >= Budget(kind) =>
            Spent(t, kind, end) + Cardinality(Underway(t, kind, end))
                < Budget(kind) + Cardinality(Handlers)

BudgetInv == DatesArePast /\ WindowsAreBounded

LEMMA BudgetTypes ==
  ASSUME AccessInv, NEW t \in Tokens, NEW kind \in Kinds, NEW end \in Nat
  PROVE  /\ Spent(t, kind, end) \in Nat
         /\ Budget(kind) \in Nat /\ Budget(kind) > 0
         /\ IsFiniteSet(Underway(t, kind, end))
         /\ Cardinality(Underway(t, kind, end)) \in Nat
         /\ Cardinality(Handlers) \in Nat
<1>1. Budget(kind) \in Nat /\ Budget(kind) > 0
  BY LimitsAssumption DEF Budget
<1>2. IsFiniteSet(Underway(t, kind, end))
  BY HandlersAssumption, FS_Subset DEF Underway
<1>3. Submitted(t, end) \in Nat
  <2>1. IsFiniteSet({s \in tracked : s.token = t /\ InWindow(s.at, end)})
    BY FS_Subset DEF AccessInv, NumbersUsed
  <2> QED BY <2>1, FS_CardinalityType DEF Submitted
<1>4. ASSUME kind # "CREATE" PROVE Viewed(t, kind, end) \in Nat
  <2>1. viewed[t][kind] \in Seq(Nat)
    BY <1>4 DEF AccessInv, AccessTypeOK, Kinds
  <2>2. IsFiniteSet(1..Len(viewed[t][kind]))
    BY <2>1, FS_Interval
  <2>3. IsFiniteSet({i \in DOMAIN viewed[t][kind] : InWindow(viewed[t][kind][i], end)})
    BY <2>1, <2>2, FS_Subset
  <2> QED BY <2>3, FS_CardinalityType DEF Viewed
<1> QED BY <1>1, <1>2, <1>3, <1>4, HandlersAssumption, FS_CardinalityType DEF Spent

\* A step that records nothing and lets nobody through.
Quiet ==
    /\ UNCHANGED <<tracked, viewed>>
    /\ time' \in Nat /\ time <= time'
    /\ \A h \in Handlers :
         request'[h].stage \in Past =>
            /\ request[h].stage \in Past
            /\ request'[h].token = request[h].token
            /\ request'[h].kind = request[h].kind /\ request'[h].now = request[h].now

LEMMA QuietKeeps ==
  ASSUME AccessInv, BudgetInv, Quiet
  PROVE  BudgetInv'
<1>1. DatesArePast'
  <2>1. time \in Nat /\ time' \in Nat /\ time <= time'
    BY DEF Quiet, AccessInv, AccessTypeOK
  <2>2. \A s \in tracked : s.at \in Nat
    BY DEF AccessInv, AccessTypeOK, Submission
  <2>3. \A t \in Tokens, v \in Views : \A i \in DOMAIN viewed[t][v] : viewed[t][v][i] \in Nat
    BY DEF AccessInv, AccessTypeOK
  <2>4. \A h \in Handlers : request[h].now \in Nat
    BY DEF AccessInv, AccessTypeOK, Request
  <2>5. \A s \in tracked' : s.at <= time'
    BY <2>1, <2>2 DEF Quiet, BudgetInv, DatesArePast
  <2>6. \A t \in Tokens, v \in Views : \A i \in DOMAIN viewed'[t][v] : viewed'[t][v][i] <= time'
    BY <2>1, <2>3 DEF Quiet, BudgetInv, DatesArePast
  <2>7. \A h \in Handlers : request'[h].stage \in Past => request'[h].now <= time'
    BY <2>1, <2>4 DEF Quiet, BudgetInv, DatesArePast
  <2> QED BY <2>5, <2>6, <2>7 DEF DatesArePast
<1>2. WindowsAreBounded'
  <2> SUFFICES ASSUME NEW t \in Tokens, NEW kind \in Kinds, NEW end \in Nat,
                      Spent(t, kind, end)' >= Budget(kind)
               PROVE  Spent(t, kind, end)' + Cardinality(Underway(t, kind, end)')
                        < Budget(kind) + Cardinality(Handlers)
    BY DEF WindowsAreBounded, Budget
  <2>1. Spent(t, kind, end)' = Spent(t, kind, end)
    BY DEF Quiet, Spent, Submitted, Viewed
  <2>2. Underway(t, kind, end)' \subseteq Underway(t, kind, end)
    BY DEF Quiet, Underway
  <2>3. /\ Spent(t, kind, end) \in Nat /\ Budget(kind) \in Nat /\ Cardinality(Handlers) \in Nat
        /\ IsFiniteSet(Underway(t, kind, end)) /\ Cardinality(Underway(t, kind, end)) \in Nat
    BY BudgetTypes
  <2>4. /\ Cardinality(Underway(t, kind, end)') <= Cardinality(Underway(t, kind, end))
        /\ Cardinality(Underway(t, kind, end)') \in Nat
    BY <2>2, <2>3, FS_Subset, FS_CardinalityType
  <2>5. Spent(t, kind, end) + Cardinality(Underway(t, kind, end))
          < Budget(kind) + Cardinality(Handlers)
    BY <2>1 DEF BudgetInv, WindowsAreBounded
  <2> QED BY <2>1, <2>3, <2>4, <2>5
<1> QED BY <1>1, <1>2 DEF BudgetInv

\* A step by which request h records what it counted.
LEMMA RecordingKeeps ==
  ASSUME AccessInv, BudgetInv, NEW h \in Handlers,
         request[h].stage \in Past, request'[h].stage \notin Past,
         \A g \in Handlers \ {h} : request'[g] = request[g],
         NEW t \in Tokens, NEW kind \in Kinds, NEW end \in Nat,
         Spent(t, kind, end)' \in Nat,
         \/ Spent(t, kind, end)' = Spent(t, kind, end)
         \/ /\ Spent(t, kind, end)' <= Spent(t, kind, end) + 1
            /\ h \in Underway(t, kind, end),
         Spent(t, kind, end)' >= Budget(kind)
  PROVE  Spent(t, kind, end)' + Cardinality(Underway(t, kind, end)')
           < Budget(kind) + Cardinality(Handlers)
<1>1. Underway(t, kind, end)' = Underway(t, kind, end) \ {h}
  BY DEF Underway
<1>2. /\ Spent(t, kind, end) \in Nat /\ Budget(kind) \in Nat /\ Cardinality(Handlers) \in Nat
      /\ IsFiniteSet(Underway(t, kind, end)) /\ Cardinality(Underway(t, kind, end)) \in Nat
  BY BudgetTypes
<1>3. /\ Cardinality(Underway(t, kind, end)') \in Nat
      /\ Cardinality(Underway(t, kind, end)') <= Cardinality(Underway(t, kind, end))
      /\ h \in Underway(t, kind, end) =>
           Cardinality(Underway(t, kind, end)') = Cardinality(Underway(t, kind, end)) - 1
  <2>1. CASE h \in Underway(t, kind, end)
    <3>1. /\ IsFiniteSet(Underway(t, kind, end) \ {h})
          /\ Cardinality(Underway(t, kind, end) \ {h}) = Cardinality(Underway(t, kind, end)) - 1
      BY <1>2, <2>1, FS_RemoveElement
    <3>2. Cardinality(Underway(t, kind, end) \ {h}) \in Nat
      BY <3>1, FS_CardinalityType
    <3> QED BY <1>1, <1>2, <3>1, <3>2
  <2>2. CASE h \notin Underway(t, kind, end)
    <3>1. Underway(t, kind, end)' = Underway(t, kind, end)
      BY <1>1, <2>2
    <3> QED BY <1>2, <2>2, <3>1
  <2> QED BY <2>1, <2>2
<1>4. Spent(t, kind, end) >= Budget(kind) =>
        Spent(t, kind, end) + Cardinality(Underway(t, kind, end))
          < Budget(kind) + Cardinality(Handlers)
  BY DEF BudgetInv, WindowsAreBounded
<1>5. CASE Spent(t, kind, end) >= Budget(kind)
  BY <1>2, <1>3, <1>4, <1>5
\* The limit is reached by this step.
<1>6. CASE ~(Spent(t, kind, end) >= Budget(kind))
  <2>1. Spent(t, kind, end)' = Budget(kind) /\ h \in Underway(t, kind, end)
    BY <1>2, <1>6
  <2>2. Cardinality(Underway(t, kind, end)) <= Cardinality(Handlers)
    BY HandlersAssumption, FS_Subset DEF Underway
  <2> QED BY <1>2, <1>3, <2>1, <2>2
<1> QED BY <1>5, <1>6

\* A request that is let through has seen the windows it can still enter below
\* their limit.
LEMMA CountKeeps ==
  ASSUME AccessInv, BudgetInv, NEW h \in Handlers, Count(h)
  PROVE  BudgetInv'
<1> DEFINE r == request[h]
<1>1. r \in Request /\ r.kind \in Kinds /\ r.token \in Tokens /\ time \in Nat
  BY DEF Count, AccessInv, AccessTypeOK, Good, Shaped, Request
<1>2. CASE OverLimit(h)
  <2>1. Answered(h, "RATE_LIMITED").stage = "ANSWERED"
    BY <1>1 DEF Answered, Request
  <2>2. /\ request' = [request EXCEPT ![h] = Answered(h, "RATE_LIMITED")]
        /\ UNCHANGED <<time, token, tracked, viewed, assetGone>>
    BY <1>2 DEF Count, Goes
  <2>3. Quiet
    BY <1>1, <2>1, <2>2 DEF Quiet, Past, AccessInv, AccessTypeOK
  <2> QED BY <2>3, QuietKeeps
<1>3. CASE ~OverLimit(h)
  <2> DEFINE next == [r EXCEPT !.now = time,
                               !.stage = IF r.kind = "CREATE" THEN "ASSET" ELSE "SEEK"]
  <2>1. /\ next.stage \in Past /\ next.token = r.token /\ next.kind = r.kind /\ next.now = time
    BY <1>1 DEF Request, Past
  <2>2. /\ request' = [request EXCEPT ![h] = next]
        /\ UNCHANGED <<time, token, tracked, viewed, assetGone>>
    BY <1>3 DEF Count, Goes
  <2> HIDE DEF next
  <2>3. request'[h] = next /\ \A g \in Handlers \ {h} : request'[g] = request[g]
    BY <2>2 DEF AccessInv, AccessTypeOK
  <2>4. DatesArePast'
    BY <1>1, <2>1, <2>2, <2>3 DEF BudgetInv, DatesArePast
  <2>5. ASSUME NEW t \in Tokens, NEW kind \in Kinds, NEW end \in Nat,
               Spent(t, kind, end)' >= Budget(kind)
        PROVE  Spent(t, kind, end)' + Cardinality(Underway(t, kind, end)')
                 < Budget(kind) + Cardinality(Handlers)
    <3>1. Spent(t, kind, end)' = Spent(t, kind, end)
      BY <2>2 DEF Spent, Submitted, Viewed
    <3>2. Spent(t, kind, end) + Cardinality(Underway(t, kind, end))
            < Budget(kind) + Cardinality(Handlers)
      BY <2>5, <3>1 DEF BudgetInv, WindowsAreBounded
    <3>3. CASE t = r.token /\ kind = r.kind /\ time <= end
      <4>1. Spent(t, kind, time) < Budget(kind)
        <5>1. IF kind = "CREATE" THEN ~(Submitted(t, time) >= REQUESTS_PER_HOUR)
                                 ELSE ~(Viewed(t, kind, time) >= VIEWS_PER_HOUR)
          BY <1>3, <3>3 DEF OverLimit
        <5>2. Spent(t, kind, time) \in Nat /\ Budget(kind) \in Nat
          BY <1>1, BudgetTypes
        <5> QED BY <5>1, <5>2 DEF Spent, Budget
      <4>2. ASSUME NEW d \in Nat, d <= time, InWindow(d, end) PROVE InWindow(d, time)
        BY <1>1, <3>3, <4>2, LimitsAssumption DEF InWindow
      <4>3. Spent(t, kind, end) <= Spent(t, kind, time)
        <5>1. CASE kind = "CREATE"
          <6> DEFINE atEnd == {s \in tracked : s.token = t /\ InWindow(s.at, end)}
                     atTime == {s \in tracked : s.token = t /\ InWindow(s.at, time)}
          <6>1. \A s \in tracked : s.at \in Nat /\ s.at <= time
            BY DEF BudgetInv, DatesArePast, AccessInv, AccessTypeOK, Submission
          <6>2. atEnd \subseteq atTime
            BY <4>2, <6>1
          <6>3. IsFiniteSet(atTime)
            BY FS_Subset DEF AccessInv, NumbersUsed
          <6>4. Cardinality(atEnd) <= Cardinality(atTime)
            BY <6>2, <6>3, FS_Subset
          <6> QED BY <5>1, <6>4 DEF Spent, Submitted
        <5>2. CASE kind # "CREATE"
          <6> DEFINE atEnd == {i \in DOMAIN viewed[t][kind] : InWindow(viewed[t][kind][i], end)}
                     atTime == {i \in DOMAIN viewed[t][kind] : InWindow(viewed[t][kind][i], time)}
          <6>1. kind \in Views /\ viewed[t][kind] \in Seq(Nat)
            BY <5>2 DEF AccessInv, AccessTypeOK, Kinds
          <6>2. \A i \in DOMAIN viewed[t][kind] :
                  viewed[t][kind][i] \in Nat /\ viewed[t][kind][i] <= time
            BY <6>1 DEF BudgetInv, DatesArePast
          <6>3. atEnd \subseteq atTime
            BY <4>2, <6>2
          <6>4. IsFiniteSet(1..Len(viewed[t][kind]))
            BY <6>1, FS_Interval
          <6>5. IsFiniteSet(atTime)
            BY <6>1, <6>4, FS_Subset
          <6>6. Cardinality(atEnd) <= Cardinality(atTime)
            BY <6>3, <6>5, FS_Subset
          <6> QED BY <5>2, <6>6 DEF Spent, Viewed
        <5> QED BY <5>1, <5>2
      <4>4. Spent(t, kind, end) \in Nat /\ Spent(t, kind, time) \in Nat /\ Budget(kind) \in Nat
        BY <1>1, BudgetTypes
      <4> QED BY <2>5, <3>1, <4>1, <4>3, <4>4
    <3>4. CASE ~(t = r.token /\ kind = r.kind /\ time <= end)
      <4>1. Underway(t, kind, end)' \subseteq Underway(t, kind, end)
        BY <2>1, <2>3, <3>4 DEF Underway
      <4>2. /\ Spent(t, kind, end) \in Nat /\ Budget(kind) \in Nat
            /\ Cardinality(Handlers) \in Nat
            /\ IsFiniteSet(Underway(t, kind, end)) /\ Cardinality(Underway(t, kind, end)) \in Nat
        BY BudgetTypes
      <4>3. /\ Cardinality(Underway(t, kind, end)') <= Cardinality(Underway(t, kind, end))
            /\ Cardinality(Underway(t, kind, end)') \in Nat
        BY <4>1, <4>2, FS_Subset, FS_CardinalityType
      <4> QED BY <3>1, <3>2, <4>2, <4>3
    <3> QED BY <3>3, <3>4
  <2> QED BY <2>4, <2>5 DEF BudgetInv, WindowsAreBounded, Budget
<1> QED BY <1>2, <1>3

\* A submission enters only windows its request counted.
LEMMA WriteKeeps ==
  ASSUME AccessInv, BudgetInv, NEW h \in Handlers, request[h].stage = "WRITE",
         Record(h, NewSubmission(h))
  PROVE  BudgetInv'
<1> DEFINE r == request[h]
           s == NewSubmission(h)
           a == AnsweredWith(h, s)
<1>1. /\ r \in Request /\ r.kind = "CREATE" /\ r.token \in Tokens /\ r.now \in Nat
      /\ r.now <= time /\ time \in Nat
  BY DEF AccessInv, AccessTypeOK, Good, Shaped, Request, BudgetInv, DatesArePast, Past
<1>2. s.token = r.token /\ s.at = time
  BY DEF NewSubmission
<1>3. a.stage = "ANSWERED"
  BY <1>1 DEF AnsweredWith, Answered, Request
<1>4. /\ tracked' = tracked \cup {s} /\ UNCHANGED <<time, token, viewed, assetGone>>
      /\ request' = [request EXCEPT ![h] = a]
  BY DEF Record
<1> HIDE DEF s, a
<1>5. request'[h] = a /\ \A g \in Handlers \ {h} : request'[g] = request[g]
  BY <1>4 DEF AccessInv, AccessTypeOK
<1>6. DatesArePast'
  BY <1>1, <1>2, <1>3, <1>4, <1>5 DEF BudgetInv, DatesArePast, Past
<1>7. ASSUME NEW t \in Tokens, NEW kind \in Kinds, NEW end \in Nat,
             Spent(t, kind, end)' >= Budget(kind)
      PROVE  Spent(t, kind, end)' + Cardinality(Underway(t, kind, end)')
               < Budget(kind) + Cardinality(Handlers)
  <2> DEFINE old == {x \in tracked : x.token = t /\ InWindow(x.at, end)}
             new == {x \in tracked' : x.token = t /\ InWindow(x.at, end)}
  <2>1. kind # "CREATE" => Spent(t, kind, end)' = Spent(t, kind, end)
    BY <1>4 DEF Spent, Viewed
  <2>2. kind = "CREATE" =>
          /\ Spent(t, kind, end) = Cardinality(old) /\ Spent(t, kind, end)' = Cardinality(new)
    BY DEF Spent, Submitted
  <2>3. Spent(t, kind, end) \in Nat /\ IsFiniteSet(old) /\ Cardinality(old) \in Nat
    BY BudgetTypes, FS_Subset, FS_CardinalityType DEF AccessInv, NumbersUsed
  <2>4. CASE kind = "CREATE" /\ t = r.token /\ InWindow(time, end)
    <3>1. new = old \cup {s}
      BY <1>2, <1>4, <2>4
    <3>2. Cardinality(new) \in Nat /\ Cardinality(new) <= Cardinality(old) + 1
      <4>1. Cardinality(old \cup {s}) =
              IF s \in old THEN Cardinality(old) ELSE Cardinality(old) + 1
        BY <2>3, FS_AddElement
      <4> HIDE DEF old, new
      <4> QED BY <2>3, <3>1, <4>1
    <3>3. h \in Underway(t, kind, end)
      <4>1. time <= end
        BY <2>4 DEF InWindow
      <4> QED BY <1>1, <2>4, <4>1 DEF Underway, Past
    <3>4. Spent(t, kind, end)' \in Nat /\ Spent(t, kind, end)' <= Spent(t, kind, end) + 1
      BY <2>2, <2>4, <3>2
    <3>5. r.stage \in Past /\ request'[h].stage \notin Past
      BY <1>3, <1>5 DEF Past
    <3> QED BY <1>5, <1>7, <3>3, <3>4, <3>5, RecordingKeeps
  <2>5. CASE ~(kind = "CREATE" /\ t = r.token /\ InWindow(time, end))
    <3>1. kind = "CREATE" => new = old
      BY <1>2, <1>4, <2>5
    <3>2. Spent(t, kind, end)' = Spent(t, kind, end)
      BY <2>1, <2>2, <3>1
    <3>3. r.stage \in Past /\ request'[h].stage \notin Past
      BY <1>3, <1>5 DEF Past
    <3> QED BY <1>5, <1>7, <2>3, <3>2, <3>3, RecordingKeeps
  <2> QED BY <2>4, <2>5
<1> QED BY <1>6, <1>7 DEF BudgetInv, WindowsAreBounded, Budget

\* A lookup is recorded with the date at which it was counted.
LEMMA RecordViewKeeps ==
  ASSUME AccessInv, BudgetInv, NEW h \in Handlers, RecordView(h)
  PROVE  BudgetInv'
<1> DEFINE r == request[h]
           log == viewed[r.token][r.kind]
<1>1. /\ r \in Request /\ r.kind \in Views /\ r.kind # "CREATE" /\ r.token \in Tokens
      /\ r.now \in Nat /\ r.now <= time /\ time \in Nat
  BY DEF RecordView, AccessInv, AccessTypeOK, Good, Shaped, Request, BudgetInv, DatesArePast,
         Past, Kinds
<1>2. /\ viewed' = [viewed EXCEPT ![r.token][r.kind] = Append(log, r.now)]
      /\ request' = [request EXCEPT ![h].stage = "ANSWERED"]
      /\ UNCHANGED <<time, token, tracked, assetGone>> /\ r.stage = "RECORD"
  BY DEF RecordView
<1>3. /\ request'[h].stage = "ANSWERED"
      /\ \A g \in Handlers \ {h} : request'[g] = request[g]
  BY <1>1, <1>2 DEF AccessInv, AccessTypeOK, Request
<1>4. /\ log \in Seq(Nat) /\ viewed'[r.token][r.kind] = Append(log, r.now)
      /\ \A t \in Tokens, v \in Views :
           t # r.token \/ v # r.kind => viewed'[t][v] = viewed[t][v]
  BY <1>1, <1>2 DEF AccessInv, AccessTypeOK
<1> HIDE DEF log
<1>5. /\ DOMAIN Append(log, r.now) = DOMAIN log \cup {Len(log) + 1}
      /\ Len(log) + 1 \notin DOMAIN log
      /\ Append(log, r.now)[Len(log) + 1] = r.now
      /\ \A i \in DOMAIN log : Append(log, r.now)[i] = log[i]
  <2>1. DOMAIN log = 1..Len(log) /\ Len(log) \in Nat
    BY <1>4
  <2> QED BY <1>1, <1>4, <2>1
<1>6. DatesArePast'
  <2>1. ASSUME NEW t \in Tokens, NEW v \in Views, NEW i \in DOMAIN viewed'[t][v]
        PROVE  viewed'[t][v][i] <= time
    <3>1. CASE t = r.token /\ v = r.kind
      <4>1. \A j \in DOMAIN log : log[j] <= time
        BY <1>1 DEF BudgetInv, DatesArePast, log
      <4> QED BY <1>1, <1>4, <1>5, <3>1, <4>1
    <3>2. CASE ~(t = r.token /\ v = r.kind)
      BY <1>4, <3>2 DEF BudgetInv, DatesArePast
    <3> QED BY <3>1, <3>2
  <2>2. \A g \in Handlers : request'[g].stage \in Past => request'[g].now <= time
    BY <1>3 DEF BudgetInv, DatesArePast, Past
  <2> QED BY <1>2, <2>1, <2>2 DEF BudgetInv, DatesArePast
<1>7. ASSUME NEW t \in Tokens, NEW kind \in Kinds, NEW end \in Nat,
             Spent(t, kind, end)' >= Budget(kind)
      PROVE  Spent(t, kind, end)' + Cardinality(Underway(t, kind, end)')
               < Budget(kind) + Cardinality(Handlers)
  <2>1. r.stage \in Past /\ request'[h].stage \notin Past
    BY <1>2, <1>3 DEF Past
  <2>2. Spent(t, kind, end) \in Nat
    BY BudgetTypes
  <2>3. CASE ~(t = r.token /\ kind = r.kind)
    <3>1. Spent(t, kind, end)' = Spent(t, kind, end)
      <4>1. CASE kind = "CREATE"
        BY <1>2, <4>1 DEF Spent, Submitted
      <4>2. CASE kind # "CREATE"
        <5>1. viewed'[t][kind] = viewed[t][kind]
          BY <1>4, <2>3, <4>2 DEF Kinds
        <5> QED BY <4>2, <5>1 DEF Spent, Viewed
      <4> QED BY <4>1, <4>2
    <3> QED BY <1>3, <1>7, <2>1, <2>2, <3>1, RecordingKeeps
  <2>4. CASE t = r.token /\ kind = r.kind
    <3> DEFINE old == {i \in DOMAIN log : InWindow(log[i], end)}
               new == {i \in DOMAIN viewed'[t][kind] : InWindow(viewed'[t][kind][i], end)}
    <3>1. Spent(t, kind, end) = Cardinality(old) /\ Spent(t, kind, end)' = Cardinality(new)
      BY <1>1, <2>4 DEF Spent, Viewed, log
    <3>2. IsFiniteSet(old) /\ Cardinality(old) \in Nat
      <4>1. DOMAIN log = 1..Len(log) /\ IsFiniteSet(1..Len(log))
        BY <1>4, FS_Interval
      <4> QED BY <4>1, FS_Subset, FS_CardinalityType
    <3>3. CASE InWindow(r.now, end)
      <4>1. new = old \cup {Len(log) + 1}
        BY <1>4, <1>5, <2>4, <3>3
      <4>2. Len(log) + 1 \notin old
        BY <1>5
      <4>3. Cardinality(old \cup {Len(log) + 1}) = Cardinality(old) + 1
        <5> HIDE DEF old
        <5> QED BY <3>2, <4>2, FS_AddElement
      <4> HIDE DEF old, new
      <4>4. Spent(t, kind, end)' \in Nat /\ Spent(t, kind, end)' <= Spent(t, kind, end) + 1
        BY <3>1, <3>2, <4>1, <4>3
      <4>5. h \in Underway(t, kind, end)
        BY <2>1, <2>4, <3>3 DEF Underway, InWindow
      <4> QED BY <1>3, <1>7, <2>1, <4>4, <4>5, RecordingKeeps
    <3>4. CASE ~InWindow(r.now, end)
      <4>1. new = old
        BY <1>4, <1>5, <2>4, <3>4
      <4>2. Spent(t, kind, end)' = Spent(t, kind, end)
        BY <3>1, <4>1
      <4> QED BY <1>3, <1>7, <2>1, <2>2, <4>2, RecordingKeeps
    <3> QED BY <3>3, <3>4
  <2> QED BY <2>3, <2>4
<1> QED BY <1>6, <1>7 DEF BudgetInv, WindowsAreBounded, Budget

\* A request that changes its stage otherwise is let through by nothing.
LEMMA GoesQuietly ==
  ASSUME AccessInv, NEW h \in Handlers, NEW next, Goes(h, next),
         next.stage \in Past =>
            /\ request[h].stage \in Past
            /\ next.token = request[h].token
            /\ next.kind = request[h].kind /\ next.now = request[h].now
  PROVE  Quiet
<1>1. request' = [request EXCEPT ![h] = next] /\ UNCHANGED <<time, token, tracked, viewed, assetGone>>
  BY DEF Goes
<1>2. request'[h] = next /\ \A g \in Handlers \ {h} : request'[g] = request[g]
  BY <1>1 DEF AccessInv, AccessTypeOK
<1>3. time \in Nat
  BY DEF AccessInv, AccessTypeOK
<1> QED BY <1>1, <1>2, <1>3 DEF Quiet

\* A request is answered, or moves on, without a word on the limits.
LEMMA AnswersAreQuiet ==
  ASSUME AccessInv, NEW h \in Handlers, NEW s, NEW outcome
  PROVE  /\ Goes(h, Answered(h, outcome)) => Quiet
         /\ Goes(h, AnsweredWith(h, s)) => Quiet
         /\ \A stage : Moves(h, stage) /\ (stage \in Past => request[h].stage \in Past) => Quiet
<1>1. request[h] \in Request
  BY DEF AccessInv, AccessTypeOK
<1>2. Answered(h, outcome).stage \notin Past /\ AnsweredWith(h, s).stage \notin Past
  BY <1>1 DEF Answered, AnsweredWith, Request, Past
<1>3. ASSUME NEW stage, Moves(h, stage), stage \in Past => request[h].stage \in Past
      PROVE  Quiet
  <2> DEFINE next == [request[h] EXCEPT !.stage = stage]
  <2>1. /\ next.stage = stage /\ next.token = request[h].token
        /\ next.kind = request[h].kind /\ next.now = request[h].now
    BY <1>1 DEF Request
  <2>2. Goes(h, next)
    BY <1>3 DEF Moves
  <2> HIDE DEF next
  <2> QED BY <1>3, <2>1, <2>2, GoesQuietly
<1>4. Goes(h, Answered(h, outcome)) => Quiet
  BY <1>2, GoesQuietly
<1>5. Goes(h, AnsweredWith(h, s)) => Quiet
  BY <1>2, GoesQuietly
<1> QED BY <1>3, <1>4, <1>5

LEMMA OtherStepsAreQuiet ==
  ASSUME AccessInv, NEW h \in Handlers,
         \/ Authorise(h) \/ Look(h) \/ FindAsset(h) \/ Check(h) \/ Reread(h)
         \/ Seek(h) \/ Leave(h)
  PROVE  Quiet
<1>1. request[h] \in Request
  BY DEF AccessInv, AccessTypeOK
<1>2. CASE Authorise(h)
  <2>1. Goes(h, Answered(h, "INVALID_TOKEN")) \/ Moves(h, "LOOK") \/ Moves(h, "COUNT")
    BY <1>2 DEF Authorise
  <2> QED BY <2>1, AnswersAreQuiet DEF Past
<1>3. CASE Look(h)
  <2>1. Moves(h, "COUNT") \/ \E s : Goes(h, AnsweredWith(h, s))
    BY <1>3 DEF Look
  <2> QED BY <2>1, AnswersAreQuiet DEF Past
<1>4. CASE FindAsset(h)
  <2>1. request[h].stage = "ASSET" /\ (Goes(h, Answered(h, "NOT_FOUND")) \/ Moves(h, "CHECK"))
    BY <1>4 DEF FindAsset
  <2> QED BY <2>1, AnswersAreQuiet DEF Past
<1>5. CASE Check(h)
  <2>1. request[h].stage = "CHECK" /\ (Moves(h, "WRITE") \/ \E s : Goes(h, AnsweredWith(h, s)))
    BY <1>5 DEF Check
  <2> QED BY <2>1, AnswersAreQuiet DEF Past
<1>6. CASE Reread(h)
  <2>1. \E s : Goes(h, AnsweredWith(h, s))
    BY <1>6 DEF Reread
  <2> QED BY <2>1, AnswersAreQuiet
<1>7. CASE Seek(h)
  <2>1. CASE Missing(h) /\ request[h].kind = "STATUS"
    <3>1. Goes(h, Answered(h, "NOT_FOUND"))
      BY <1>7, <2>1 DEF Seek
    <3> QED BY <3>1, AnswersAreQuiet
  <2>2. CASE ~(Missing(h) /\ request[h].kind = "STATUS")
    <3> DEFINE next == [request[h] EXCEPT !.stage = "RECORD",
                            !.outcome = IF Missing(h) THEN "NOT_FOUND" ELSE "OK"]
    <3>1. Goes(h, next) /\ request[h].stage = "SEEK"
      BY <1>7, <2>2 DEF Seek
    <3>2. /\ next.token = request[h].token
          /\ next.kind = request[h].kind /\ next.now = request[h].now
      BY <1>1 DEF Request
    <3> HIDE DEF next
    <3> QED BY <3>1, <3>2, GoesQuietly DEF Past
  <2> QED BY <2>1, <2>2
<1>8. CASE Leave(h)
  <2>1. Goes(h, Idle) /\ Idle.stage \notin Past
    BY <1>8 DEF Leave, Idle, Past
  <2> QED BY <2>1, GoesQuietly
<1> QED BY <1>2, <1>3, <1>4, <1>5, <1>6, <1>7, <1>8

LEMMA BudgetStep == AccessInv /\ BudgetInv /\ [Next]_vars => BudgetInv'
<1> SUFFICES ASSUME AccessInv, BudgetInv, [Next]_vars PROVE BudgetInv'
  OBVIOUS
<1>1. time \in Nat
  BY DEF AccessInv, AccessTypeOK
<1>2. CASE Tick
  BY <1>1, <1>2, QuietKeeps DEF Tick, Quiet
<1>3. CASE archiveAsset
  BY <1>1, <1>3, QuietKeeps DEF archiveAsset, Quiet
<1>4. ASSUME NEW t \in Tokens,
             \/ revokeToken(t)
             \/ \E scopes \in Grants, expiresAt \in Expiries :
                  createPublicRequestToken(t, scopes, expiresAt)
      PROVE  BudgetInv'
  <2>1. UNCHANGED <<time, tracked, viewed, assetGone, request>>
    BY <1>4 DEF revokeToken, createPublicRequestToken
  <2> QED BY <1>1, <2>1, QuietKeeps DEF Quiet
<1>5. ASSUME NEW h \in Handlers, NEW t \in Tokens, NEW kind \in Kinds,
             NEW key \in Keys \cup {None}, NEW order \in 0..Cardinality(tracked),
             Arrive(h, t, kind, key, order)
      PROVE  BudgetInv'
  <2> DEFINE next == [Idle EXCEPT !.stage = "AUTHORISE", !.kind = kind, !.token = t, !.key = key,
                                  !.order = order, !.retry = SubmissionsOf(t, key) # {}]
  <2>1. Goes(h, next) /\ next.stage = "AUTHORISE"
    BY <1>5 DEF Arrive, Idle
  <2> HIDE DEF next
  <2>2. Quiet
    BY <2>1, GoesQuietly DEF Past
  <2> QED BY <2>2, QuietKeeps
<1>6. ASSUME NEW h \in Handlers,
             \/ Authorise(h) \/ Look(h) \/ FindAsset(h) \/ Check(h) \/ Reread(h)
             \/ Seek(h) \/ Leave(h)
      PROVE  BudgetInv'
  BY <1>6, OtherStepsAreQuiet, QuietKeeps
<1>7. ASSUME NEW h \in Handlers, Write(h)
      PROVE  BudgetInv'
  <2>1. CASE SubmissionsOf(request[h].token, request[h].key) = {}
    BY <1>7, <2>1, WriteKeeps DEF Write
  <2>2. CASE SubmissionsOf(request[h].token, request[h].key) # {}
    <3>1. Moves(h, "REREAD")
      BY <1>7, <2>2 DEF Write
    <3>2. Quiet
      BY <3>1, AnswersAreQuiet DEF Past
    <3> QED BY <3>2, QuietKeeps
  <2> QED BY <2>1, <2>2
<1>8. CASE UNCHANGED vars
  BY <1>1, <1>8, QuietKeeps DEF vars, Quiet
<1> QED BY <1>2, <1>3, <1>4, <1>5, <1>6, <1>7, <1>8, CountKeeps, RecordViewKeeps DEF Next, LookupStep

\* Requests that overlap exceed an hourly limit by fewer than there are handlers,
\* in whatever hour one looks.
THEOREM BudgetsAreHeld == Spec => []BudgetsHold
<1>1. Init => BudgetInv
  <2> SUFFICES ASSUME Init PROVE BudgetInv
    OBVIOUS
  <2>1. DatesArePast
    BY DEF Init, DatesArePast, Idle, Past
  <2>2. ASSUME NEW t \in Tokens, NEW kind \in Kinds, NEW end \in Nat
        PROVE  Spent(t, kind, end) = 0
    <3>1. {s \in tracked : s.token = t /\ InWindow(s.at, end)} = {}
      BY DEF Init
    <3>2. Submitted(t, end) = 0
      BY <3>1, FS_EmptySet DEF Submitted
    <3>3. ASSUME kind # "CREATE" PROVE Viewed(t, kind, end) = 0
      <4>1. viewed[t][kind] = << >>
        BY <3>3 DEF Init, Kinds
      <4>2. {i \in DOMAIN viewed[t][kind] : InWindow(viewed[t][kind][i], end)} = {}
        BY <4>1
      <4> QED BY <4>2, FS_EmptySet DEF Viewed
    <3> QED BY <3>2, <3>3 DEF Spent
  <2>3. \A kind \in Kinds : Budget(kind) \in Nat /\ Budget(kind) > 0
    BY LimitsAssumption DEF Budget
  <2>4. WindowsAreBounded
    BY <2>2, <2>3 DEF WindowsAreBounded
  <2> QED BY <2>1, <2>4 DEF BudgetInv
<1>2. AccessInv /\ BudgetInv => BudgetsHold
  <2> SUFFICES ASSUME AccessInv, BudgetInv, NEW t \in Tokens, NEW end \in 0..MaxTime
               PROVE  /\ Submitted(t, end) < REQUESTS_PER_HOUR + Cardinality(Handlers)
                      /\ \A v \in Views :
                           Viewed(t, v, end) < VIEWS_PER_HOUR + Cardinality(Handlers)
    BY DEF BudgetsHold
  <2>1. end \in Nat
    BY LimitsAssumption
  <2>2. ASSUME NEW kind \in Kinds
        PROVE  Spent(t, kind, end) < Budget(kind) + Cardinality(Handlers)
    <3>1. /\ Spent(t, kind, end) \in Nat /\ Budget(kind) \in Nat /\ Cardinality(Handlers) \in Nat
          /\ Cardinality(Underway(t, kind, end)) \in Nat
      BY <2>1, BudgetTypes
    <3>2. Spent(t, kind, end) >= Budget(kind) =>
            Spent(t, kind, end) + Cardinality(Underway(t, kind, end))
              < Budget(kind) + Cardinality(Handlers)
      BY <2>1 DEF BudgetInv, WindowsAreBounded
    <3>3. CASE Spent(t, kind, end) >= Budget(kind)
      BY <3>1, <3>2, <3>3
    <3>4. CASE ~(Spent(t, kind, end) >= Budget(kind))
      BY <3>1, <3>4
    <3> QED BY <3>3, <3>4
  <2>3. "CREATE" \in Kinds /\ \A v \in Views : v \in Kinds /\ v # "CREATE"
    BY GrantsAssumption DEF Kinds
  <2> QED BY <2>2, <2>3 DEF Spent, Budget
<1> QED BY <1>1, <1>2, BudgetStep, AccessIsSound, PTL DEF Spec

---------------------------------------------------------------------------
(* The limiter.                                                            *)

\* The observer and the map agree on when a client was last seen.
NotedTrue ==
    \A c \in Clients :
        /\ history[c].seen # NoEntry => history[c].began <= history[c].seen /\ history[c].seen <= now
        /\ entries[c] # NoEntry => history[c].seen # NoEntry /\ entries[c].lastSeenAt = history[c].seen

\* In a small crowd the map has forgotten nothing: it has dropped the window of
\* the client only if the observer, too, knows it to be over.
Remembered(c) ==
    /\ history[c].admitted <= limit
    /\ IF entries[c] = NoEntry
       THEN Over(c)
       ELSE /\ entries[c].resetAt = history[c].began + windowMs
            /\ history[c].admitted <= entries[c].count

WindowsTrue == \A c \in Clients : Cardinality(Crowd(c)) <= maxKeys => Remembered(c)

LimiterInv == LimiterTypeOK /\ MapIsBounded /\ NotedTrue /\ WindowsTrue

---------------------------------------------------------------------------
(* The map.                                                                *)

Maps == [Clients -> Entry \cup {NoEntry}]

LEMMA LiveFinite ==
  ASSUME NEW map \in Maps
  PROVE  /\ IsFiniteSet(Live(map)) /\ Cardinality(Live(map)) \in Nat
         /\ IsFiniteSet(Current(map)) /\ Cardinality(Current(map)) \in Nat
         /\ Cardinality(Current(map)) <= Cardinality(Live(map))
<1>1. Live(map) \in SUBSET Clients /\ Current(map) \in SUBSET Live(map)
  BY DEF Live, Current
<1>2. IsFiniteSet(Live(map))
  BY <1>1, ClientsAssumption, FS_Subset
<1>3. IsFiniteSet(Current(map)) /\ Cardinality(Current(map)) <= Cardinality(Live(map))
  BY <1>1, <1>2, FS_Subset
<1> QED BY <1>2, <1>3, FS_CardinalityType

\* What becomes of an entry when room is made: it stays, or it goes because its
\* window is over, or because maxKeys entries were seen no earlier.
Dropped(c) ==
    \/ entries[c].resetAt <= now
    \/ \E S \in SUBSET Live(entries) :
         /\ Cardinality(S) = maxKeys
         /\ \A e \in S : entries[c].lastSeenAt <= entries[e].lastSeenAt

RoomIn(map) ==
    /\ map \in Maps
    /\ Cardinality(Live(map)) < maxKeys
    /\ \A c \in Clients : map[c] = entries[c] \/ map[c] = NoEntry
    /\ \A c \in Clients : entries[c] # NoEntry /\ map[c] = NoEntry => Dropped(c)

LEMMA KeepIsMap ==
  ASSUME entries \in Maps, NEW kept \in SUBSET Live(entries)
  PROVE  /\ Keep(entries, kept) \in Maps
         /\ Live(Keep(entries, kept)) = kept
         /\ \A c \in Clients :
              Keep(entries, kept)[c] = IF c \in kept THEN entries[c] ELSE NoEntry
BY DEF Keep, Maps, Live

LEMMA EnsureMakesRoom ==
  ASSUME LimiterTypeOK, MapIsBounded, NEW map \in ensureCapacity(entries)
  PROVE  RoomIn(map)
<1> DEFINE current == Current(entries)
<1>1. entries \in Maps /\ maxKeys \in Nat \ {0} /\ now \in Nat
  BY LimiterAssumption DEF LimiterTypeOK, Maps
<1>2. /\ Cardinality(Live(entries)) \in Nat /\ Cardinality(current) \in Nat
      /\ IsFiniteSet(current) /\ Cardinality(current) <= Cardinality(Live(entries))
  BY <1>1, LiveFinite
<1>3. \A c \in Live(entries) \ current : entries[c].resetAt <= now
  BY <1>1 DEF Current, Live, Maps, Entry
<1>4. CASE Cardinality(Live(entries)) < maxKeys
  BY <1>1, <1>4 DEF ensureCapacity, RoomIn
<1>5. CASE ~(Cardinality(Live(entries)) < maxKeys) /\ Cardinality(current) < maxKeys
  <2>1. map = Keep(entries, current) /\ current \in SUBSET Live(entries)
    BY <1>5 DEF ensureCapacity, Current
  <2>2. /\ map \in Maps /\ Live(map) = current
        /\ \A c \in Clients : map[c] = IF c \in current THEN entries[c] ELSE NoEntry
    BY <1>1, <2>1, KeepIsMap
  <2>3. \A c \in Live(entries) : c \notin current => Dropped(c)
    BY <1>3 DEF Dropped
  <2>4. Cardinality(Live(map)) < maxKeys
    BY <1>5, <2>2
  <2> QED BY <2>2, <2>3, <2>4 DEF RoomIn, Live
<1>6. CASE ~(Cardinality(Live(entries)) < maxKeys) /\ ~(Cardinality(current) < maxKeys)
  <2>1. PICK gone \in SUBSET current :
          /\ map = Keep(entries, current \ gone)
          /\ Cardinality(current) = maxKeys - 1 + Cardinality(gone)
          /\ Oldest(entries, gone)
    BY <1>6 DEF ensureCapacity
  <2>2. current \ gone \in SUBSET Live(entries)
    BY DEF Current
  <2>3. IsFiniteSet(gone) /\ Cardinality(gone) \in Nat /\ current \cap gone = gone
    BY <1>2, FS_Subset, FS_CardinalityType
  <2>4. Cardinality(current) <= maxKeys
    BY <1>2, <1>1 DEF MapIsBounded
  <2>5. Cardinality(current) = maxKeys /\ Cardinality(gone) = 1
    BY <1>1, <1>2, <1>6, <2>1, <2>3, <2>4
  <2>6. Cardinality(current \ gone) = maxKeys - 1
    <3>1. Cardinality(current \ gone) = Cardinality(current) - Cardinality(current \cap gone)
      BY <1>2, FS_Difference
    <3> QED BY <2>3, <2>5, <3>1
  <2>7. PICK x : gone = {x}
    BY <2>3, <2>5, FS_Singleton
  <2>8. x \in current /\ x \in Live(entries)
    BY <2>1, <2>7 DEF Current
  <2>9. \A e \in current : entries[x].lastSeenAt <= entries[e].lastSeenAt
    <3>1. \A e \in current \ gone : entries[x].lastSeenAt <= entries[e].lastSeenAt
      BY <2>1, <2>7 DEF Oldest
    <3>2. entries[x] \in Entry
      BY <1>1, <2>8 DEF Live, Maps
    <3> QED BY <2>7, <3>1, <3>2 DEF Entry
  <2>10. Dropped(x)
    BY <2>5, <2>9 DEF Dropped, Current
  <2>11. \A c \in Live(entries) : c \notin current \ gone => Dropped(c)
    BY <1>3, <2>7, <2>10 DEF Dropped
  <2>12. /\ map \in Maps /\ Live(map) = current \ gone
         /\ \A c \in Clients : map[c] = IF c \in current \ gone THEN entries[c] ELSE NoEntry
    BY <1>1, <2>1, <2>2, KeepIsMap
  <2>13. Cardinality(Live(map)) < maxKeys
    BY <1>1, <2>6, <2>12
  <2> QED BY <2>11, <2>12, <2>13 DEF RoomIn, Live
<1> QED BY <1>4, <1>5, <1>6

---------------------------------------------------------------------------
(* One check.                                                              *)

\* What a check of client d writes.
Checked(d, map) ==
    /\ entries' = [map EXCEPT ![d] = Counted(map[d])]
    /\ history' = [history EXCEPT ![d] = Noted(d, map[d].count + 1 <= limit)]
    /\ now' = now

\* The map that client d is counted in.
OpenedFor(d, map) ==
    /\ map \in Maps
    /\ map[d] # NoEntry
    /\ Cardinality(Live(map)) <= maxKeys
    /\ \A c \in Clients \ {d} : map[c] = entries[c] \/ (map[c] = NoEntry /\ Dropped(c))
    /\ IF entries[d] = NoEntry \/ entries[d].resetAt <= now
       THEN map[d] = NewWindow
       ELSE map[d] = entries[d]
    /\ entries[d] # NoEntry => \A c \in Clients \ {d} : map[c] = entries[c]

LEMMA OpenedIsOpenedFor ==
  ASSUME LimiterTypeOK, MapIsBounded, NEW d \in Clients, NEW map \in Opened(d)
  PROVE  OpenedFor(d, map)
<1>1. entries \in Maps /\ now \in Nat /\ windowMs \in Nat /\ maxKeys \in Nat
  BY LimiterAssumption DEF LimiterTypeOK, Maps
<1>2. NewWindow \in Entry
  BY <1>1 DEF NewWindow, Entry
<1>3. NewWindow # NoEntry
  BY <1>2, EntryAssumption DEF Entry
<1>4. CASE entries[d] = NoEntry
  <2>1. PICK room \in ensureCapacity(entries) : map = [room EXCEPT ![d] = NewWindow]
    BY <1>4 DEF Opened
  <2>2. RoomIn(room)
    BY EnsureMakesRoom
  <2>3. map \in Maps /\ map[d] = NewWindow /\ \A c \in Clients \ {d} : map[c] = room[c]
    BY <1>2, <2>1, <2>2 DEF RoomIn, Maps
  <2>4. Live(map) = Live(room) \cup {d}
    BY <1>3, <2>3 DEF Live
  <2>5. IsFiniteSet(Live(room)) /\ Cardinality(Live(room)) \in Nat
    BY <2>2, LiveFinite DEF RoomIn
  <2>6. Cardinality(Live(room) \cup {d}) <= Cardinality(Live(room)) + 1
    BY <2>5, FS_AddElement
  <2>7. IsFiniteSet(Live(map)) /\ Cardinality(Live(map)) \in Nat
    BY <2>3, LiveFinite
  <2>8. Cardinality(Live(map)) <= maxKeys
    BY <1>1, <2>2, <2>4, <2>5, <2>6, <2>7 DEF RoomIn
  <2>9. \A c \in Clients \ {d} : map[c] = entries[c] \/ (map[c] = NoEntry /\ Dropped(c))
    BY <2>2, <2>3 DEF RoomIn
  <2> QED BY <1>3, <1>4, <2>3, <2>8, <2>9 DEF OpenedFor
<1>5. CASE entries[d] # NoEntry /\ entries[d].resetAt <= now
  <2>1. map = [entries EXCEPT ![d] = NewWindow]
    <3>1. entries[d].resetAt \in Nat
      BY <1>1, <1>5 DEF Maps, Entry
    <3> QED BY <1>1, <1>5, <3>1 DEF Opened
  <2>2. map \in Maps /\ map[d] = NewWindow /\ \A c \in Clients \ {d} : map[c] = entries[c]
    BY <1>1, <1>2, <2>1 DEF Maps
  <2>3. Live(map) = Live(entries)
    BY <1>3, <1>5, <2>2 DEF Live
  <2> QED BY <1>3, <1>5, <2>2, <2>3 DEF OpenedFor, MapIsBounded
<1>6. CASE entries[d] # NoEntry /\ ~(entries[d].resetAt <= now)
  <2>1. map = entries
    <3>1. entries[d].resetAt \in Nat
      BY <1>1, <1>6 DEF Maps, Entry
    <3> QED BY <1>1, <1>6, <3>1 DEF Opened
  <2> QED BY <1>1, <1>6, <2>1 DEF OpenedFor, MapIsBounded
<1> QED BY <1>4, <1>5, <1>6

\* The row and the notes of client d after its check.
LEMMA CheckedRow ==
  ASSUME LimiterTypeOK, NEW d \in Clients, NEW map, OpenedFor(d, map), Checked(d, map)
  PROVE  /\ entries' \in Maps
         /\ \A c \in Clients \ {d} : entries'[c] = map[c] /\ history'[c] = history[c]
         /\ entries'[d] # NoEntry
         /\ entries'[d] = Counted(map[d])
         /\ history' \in [Clients -> History]
         /\ history'[d].seen = now
         /\ history'[d].began = (IF Over(d) THEN now ELSE history[d].began)
         /\ history'[d].admitted =
              (IF Over(d) THEN 0 ELSE history[d].admitted)
                + (IF map[d].count + 1 <= limit THEN 1 ELSE 0)
<1>1. now \in Nat /\ history[d] \in History /\ history \in [Clients -> History]
  BY DEF LimiterTypeOK
<1>2. map \in Maps /\ map[d] \in Entry
  BY DEF OpenedFor, Maps
<1>4. Counted(map[d]) \in Entry /\ Counted(map[d]) # NoEntry
  <2>1. Counted(map[d]) \in Entry
    BY <1>1, <1>2 DEF Entry, Counted
  <2> QED BY <2>1, EntryAssumption DEF Entry
<1>5. entries' = [map EXCEPT ![d] = Counted(map[d])]
  BY DEF Checked
<1>6. /\ entries' \in Maps
      /\ \A c \in Clients \ {d} : entries'[c] = map[c]
      /\ entries'[d] = Counted(map[d])
  BY <1>2, <1>4, <1>5 DEF Maps
<1> DEFINE note == Noted(d, map[d].count + 1 <= limit)
<1>7. note \in History
  BY <1>1 DEF Noted, History
<1>8. history' = [history EXCEPT ![d] = note]
  BY DEF Checked
<1> HIDE DEF note
<1>9. /\ history' \in [Clients -> History]
      /\ \A c \in Clients \ {d} : history'[c] = history[c]
      /\ history'[d] = note
  BY <1>1, <1>7, <1>8
<1> QED BY <1>4, <1>6, <1>9 DEF note, Noted

LEMMA CheckTyped ==
  ASSUME LimiterTypeOK, NEW d \in Clients, NEW map, OpenedFor(d, map), Checked(d, map)
  PROVE  LimiterTypeOK' /\ MapIsBounded'
<1>1. LimiterTypeOK'
  BY CheckedRow DEF LimiterTypeOK, Checked, Maps
<1>2. \A c \in Clients : entries'[c] # NoEntry <=> map[c] # NoEntry
  <2>1. entries'[d] # NoEntry /\ map[d] # NoEntry
    BY CheckedRow DEF OpenedFor
  <2>2. \A c \in Clients \ {d} : entries'[c] = map[c]
    BY CheckedRow
  <2> QED BY <2>1, <2>2
<1>3. Live(entries)' = Live(map)
  BY <1>2 DEF Live
<1> QED BY <1>1, <1>3 DEF MapIsBounded, OpenedFor

LEMMA CheckNoted ==
  ASSUME LimiterInv, NEW d \in Clients, NEW map, OpenedFor(d, map), Checked(d, map)
  PROVE  NotedTrue'
<1>1. now' = now /\ now \in Nat
  BY DEF Checked, LimiterInv, LimiterTypeOK
<1> SUFFICES ASSUME NEW c \in Clients
             PROVE  /\ history'[c].seen # NoEntry =>
                         history'[c].began <= history'[c].seen /\ history'[c].seen <= now
                    /\ entries'[c] # NoEntry =>
                         history'[c].seen # NoEntry /\ entries'[c].lastSeenAt = history'[c].seen
  BY <1>1 DEF NotedTrue
<1>2. LimiterTypeOK
  BY DEF LimiterInv
<1>3. CASE c = d
  <2>1. history[d] \in History
    BY <1>2 DEF LimiterTypeOK
  <2>2. history'[d].seen = now /\ now # NoEntry
    BY <1>1, <1>2, CheckedRow, EntryAssumption
  <2>3. history'[d].began <= now
    <3>0. history'[d].began = (IF Over(d) THEN now ELSE history[d].began)
      BY <1>2, CheckedRow
    <3>1. CASE Over(d)
      BY <1>1, <3>0, <3>1
    <3>2. CASE ~Over(d)
      <4>1. history'[d].began = history[d].began
        BY <3>0, <3>2
      <4>2. history[d].seen # NoEntry
        BY <3>2 DEF Over, LimiterInv, NotedTrue
      <4>3. history[d].began <= history[d].seen /\ history[d].seen <= now
        BY <4>2 DEF LimiterInv, NotedTrue
      <4> QED BY <1>1, <2>1, <4>1, <4>2, <4>3 DEF History
    <3> QED BY <3>1, <3>2
  <2>4. entries'[d].lastSeenAt = now
    <3>1. entries'[d] = Counted(map[d])
      BY <1>2, CheckedRow
    <3> QED BY <3>1 DEF Counted
  <2> QED BY <1>1, <1>3, <2>2, <2>3, <2>4
<1>4. CASE c # d
  <2>1. entries'[c] = map[c] /\ history'[c] = history[c]
    BY <1>2, <1>4, CheckedRow
  <2>2. map[c] = entries[c] \/ map[c] = NoEntry
    BY <1>4 DEF OpenedFor
  <2> QED BY <2>1, <2>2 DEF LimiterInv, NotedTrue
<1> QED BY <1>3, <1>4

---------------------------------------------------------------------------
(* Crowds and windows.                                                     *)

LEMMA CrowdCounts ==
  ASSUME NEW c \in Clients
  PROVE  IsFiniteSet(Crowd(c)) /\ Cardinality(Crowd(c)) \in Nat
<1>1. Crowd(c) \in SUBSET Clients
  BY DEF Crowd
<1> QED BY <1>1, ClientsAssumption, FS_Subset, FS_CardinalityType

\* While the window of a client goes on, its crowd only grows.
LEMMA CrowdGrows ==
  ASSUME LimiterInv, NEW d \in Clients, NEW map, OpenedFor(d, map), Checked(d, map),
         NEW c \in Clients, c = d => ~Over(d)
  PROVE  /\ Crowd(c) \subseteq Crowd(c)' /\ d \in Crowd(d)'
         /\ Cardinality(Crowd(c)') \in Nat
         /\ Cardinality(Crowd(c)) <= Cardinality(Crowd(c)')
<1>1. LimiterTypeOK /\ now \in Nat /\ \A e \in Clients : history[e] \in History
  BY DEF LimiterInv, LimiterTypeOK
<1>2. /\ \A e \in Clients \ {d} : history'[e] = history[e]
      /\ history'[d].seen = now /\ now # NoEntry
      /\ history'[d].began = (IF Over(d) THEN now ELSE history[d].began)
  BY <1>1, CheckedRow, EntryAssumption
<1>3. \A e \in Clients : history[e].seen # NoEntry => history[e].seen \in Nat /\ history[e].seen <= now
  BY <1>1 DEF LimiterInv, NotedTrue, History
<1>4. history'[c].began = history[c].began /\ history[c].began \in Nat
  BY <1>1, <1>2 DEF History
<1>5. \A e \in Crowd(c) : e \in Crowd(c)'
  <2> SUFFICES ASSUME NEW e \in Crowd(c)
               PROVE  history'[e].seen # NoEntry /\ history'[e].seen >= history'[c].began
    BY DEF Crowd
  <2>1. e \in Clients /\ history[e].seen # NoEntry /\ history[e].seen >= history[c].began
    BY DEF Crowd
  <2>2. CASE e = d
    BY <1>1, <1>2, <1>3, <1>4, <2>1, <2>2
  <2>3. CASE e # d
    BY <1>2, <1>4, <2>1, <2>3
  <2> QED BY <2>2, <2>3
<1>6. d \in Crowd(d)'
  <2>1. LimiterTypeOK' /\ NotedTrue'
    BY <1>1, CheckTyped, CheckNoted DEF LimiterInv
  <2>2. history'[d].began <= history'[d].seen /\ history'[d].seen # NoEntry
    BY <1>2, <2>1 DEF NotedTrue
  <2>3. history'[d].began \in Nat /\ history'[d].seen \in Nat
    BY <1>1, <1>2, <2>1 DEF LimiterTypeOK, History
  <2> QED BY <2>2, <2>3 DEF Crowd
<1>7. IsFiniteSet(Crowd(c)') /\ Cardinality(Crowd(c)') \in Nat
  <2>1. Crowd(c)' \in SUBSET Clients
    BY DEF Crowd
  <2> QED BY <2>1, ClientsAssumption, FS_Subset, FS_CardinalityType
<1>8. Crowd(c) \in SUBSET (Crowd(c)')
  BY <1>5
<1> QED BY <1>6, <1>7, <1>8, FS_Subset

\* Client c, seen in its window, and maxKeys entries seen no earlier than it
\* make, with the newcomer d, a crowd that is too large.
LEMMA DroppedInACrowd ==
  ASSUME LimiterInv, NEW d \in Clients, NEW map, OpenedFor(d, map), Checked(d, map),
         entries[d] = NoEntry, NEW c \in Clients \ {d}, entries[c] # NoEntry,
         NEW S \in SUBSET Live(entries), Cardinality(S) = maxKeys,
         \A e \in S : entries[c].lastSeenAt <= entries[e].lastSeenAt
  PROVE  ~(Cardinality(Crowd(c)') <= maxKeys)
<1>1. LimiterTypeOK /\ now \in Nat /\ maxKeys \in Nat
  BY LimiterAssumption DEF LimiterInv, LimiterTypeOK
<1>2. history'[c] = history[c] /\ history'[d].seen = now /\ now # NoEntry
  BY <1>1, CheckedRow, EntryAssumption
<1>3. history[c].began \in Nat /\ history[c].began <= history[c].seen
      /\ history[c].seen \in Nat /\ history[c].seen <= now
      /\ entries[c].lastSeenAt = history[c].seen
  BY <1>1 DEF LimiterInv, NotedTrue, LimiterTypeOK, History
<1>4. d \notin S
  BY DEF Live
<1>5. \A e \in S : e \in Crowd(c)'
  <2> SUFFICES ASSUME NEW e \in S
               PROVE  e \in Clients /\ history'[e].seen # NoEntry
                      /\ history'[e].seen >= history'[c].began
    BY DEF Crowd
  <2>1. e \in Clients \ {d} /\ entries[e] # NoEntry
    BY <1>4 DEF Live
  <2>2. history'[e] = history[e]
    BY <1>1, <2>1, CheckedRow
  <2>3. history[e].seen # NoEntry /\ entries[e].lastSeenAt = history[e].seen
        /\ history[e].seen \in Nat
    BY <1>1, <2>1 DEF LimiterInv, NotedTrue, LimiterTypeOK, History
  <2> QED BY <1>2, <1>3, <2>1, <2>2, <2>3
<1>6. d \in Crowd(c)'
  BY <1>1, <1>2, <1>3 DEF Crowd
<1>7. IsFiniteSet(S) /\ IsFiniteSet(Crowd(c)') /\ Cardinality(Crowd(c)') \in Nat
  <2>1. S \in SUBSET Clients /\ Crowd(c)' \in SUBSET Clients
    BY DEF Crowd, Live
  <2> QED BY <2>1, ClientsAssumption, FS_Subset, FS_CardinalityType
<1>8. IsFiniteSet(S \cup {d}) /\ Cardinality(S \cup {d}) = maxKeys + 1
  BY <1>4, <1>7, FS_AddElement
<1>9. S \cup {d} \in SUBSET (Crowd(c)')
  BY <1>5, <1>6
<1>10. Cardinality(S \cup {d}) <= Cardinality(Crowd(c)')
  BY <1>7, <1>9, FS_Subset
<1> QED BY <1>1, <1>7, <1>8, <1>10

LEMMA CheckRemembersOther ==
  ASSUME LimiterInv, NEW d \in Clients, NEW map, OpenedFor(d, map), Checked(d, map),
         NEW c \in Clients \ {d}, Cardinality(Crowd(c)') <= maxKeys
  PROVE  Remembered(c)'
<1>1. LimiterTypeOK /\ now \in Nat /\ now' = now /\ maxKeys \in Nat /\ windowMs \in Nat
  BY LimiterAssumption DEF LimiterInv, LimiterTypeOK, Checked
<1>2. entries'[c] = map[c] /\ history'[c] = history[c]
  BY <1>1, CheckedRow
<1>3. Remembered(c)
  <2>1. Cardinality(Crowd(c)) <= Cardinality(Crowd(c)') /\ Cardinality(Crowd(c)') \in Nat
    BY CrowdGrows
  <2>2. Cardinality(Crowd(c)) \in Nat
    BY CrowdCounts
  <2> QED BY <1>1, <2>1, <2>2 DEF LimiterInv, WindowsTrue
<1>4. CASE map[c] = entries[c]
  BY <1>1, <1>2, <1>3, <1>4 DEF Remembered, Over
<1>5. CASE map[c] = NoEntry /\ entries[c] # NoEntry
  <2>1. Dropped(c) /\ entries[d] = NoEntry
    BY <1>5 DEF OpenedFor
  <2>2. entries[c].resetAt <= now
    BY <1>5, <2>1, DroppedInACrowd DEF Dropped
  <2>3. history[c].admitted <= limit /\ history[c].began + windowMs <= now
    BY <1>3, <1>5, <2>2 DEF Remembered
  <2> QED BY <1>1, <1>2, <1>5, <2>3 DEF Remembered, Over
<1> QED BY <1>4, <1>5 DEF OpenedFor

LEMMA CheckRemembersOwn ==
  ASSUME LimiterInv, NEW d \in Clients, NEW map, OpenedFor(d, map), Checked(d, map),
         Cardinality(Crowd(d)') <= maxKeys
  PROVE  Remembered(d)'
<1>1. /\ LimiterTypeOK /\ now \in Nat /\ now' = now /\ maxKeys \in Nat /\ windowMs \in Nat
      /\ limit \in Nat \ {0} /\ history[d] \in History
  BY LimiterAssumption DEF LimiterInv, LimiterTypeOK, Checked
<1>2. /\ entries'[d] # NoEntry /\ entries'[d] = Counted(map[d])
      /\ history'[d].began = (IF Over(d) THEN now ELSE history[d].began)
      /\ history'[d].admitted =
           (IF Over(d) THEN 0 ELSE history[d].admitted)
             + (IF map[d].count + 1 <= limit THEN 1 ELSE 0)
  BY <1>1, CheckedRow
<1>3. SUFFICES /\ history'[d].admitted <= limit
               /\ map[d].resetAt = history'[d].began + windowMs
               /\ history'[d].admitted <= map[d].count + 1
  BY <1>2 DEF Remembered, Counted
<1>4. CASE Over(d)
  <2>1. map[d] = NewWindow
    BY <1>4 DEF OpenedFor, Over
  <2>2. map[d].count = 0 /\ map[d].resetAt = now + windowMs
    BY <2>1 DEF NewWindow
  <2>3. history'[d].began = now /\ history'[d].admitted = 1
    BY <1>1, <1>2, <1>4, <2>2
  <2> QED BY <1>1, <2>2, <2>3
<1>5. CASE ~Over(d)
  <2>1. Remembered(d)
    <3>1. Cardinality(Crowd(d)) <= Cardinality(Crowd(d)') /\ Cardinality(Crowd(d)') \in Nat
      BY <1>5, CrowdGrows
    <3>2. Cardinality(Crowd(d)) \in Nat
      BY CrowdCounts
    <3> QED BY <1>1, <3>1, <3>2 DEF LimiterInv, WindowsTrue
  <2>2. entries[d] # NoEntry
    BY <1>5, <2>1 DEF Remembered
  <2>3. map[d] = entries[d] /\ entries[d] \in Entry
    BY <1>1, <1>5, <2>2 DEF OpenedFor, Over, LimiterTypeOK
  <2>4. /\ history[d].admitted <= limit /\ history[d].admitted <= entries[d].count
        /\ entries[d].resetAt = history[d].began + windowMs
    BY <2>1, <2>2 DEF Remembered
  <2>5. history[d].admitted \in Nat /\ entries[d].count \in Nat
    BY <1>1, <2>3 DEF History, Entry
  <2>6. history'[d].began = history[d].began
        /\ history'[d].admitted = history[d].admitted
             + (IF entries[d].count + 1 <= limit THEN 1 ELSE 0)
    BY <1>2, <1>5, <2>3
  <2> QED BY <1>1, <2>3, <2>4, <2>5, <2>6
<1> QED BY <1>4, <1>5

---------------------------------------------------------------------------
(* The invariant.                                                          *)

LEMMA LimiterPassStep ==
  ASSUME LimiterInv, Pass
  PROVE  LimiterInv'
<1>1. /\ LimiterTypeOK /\ now \in Nat /\ now' = now + 1 /\ entries' = entries
      /\ history' = history /\ windowMs \in Nat
  BY LimiterAssumption DEF LimiterInv, LimiterTypeOK, Pass
<1>2. LimiterTypeOK' /\ MapIsBounded'
  BY <1>1 DEF LimiterInv, LimiterTypeOK, MapIsBounded, Live
<1>3. NotedTrue'
  BY <1>1 DEF LimiterInv, NotedTrue, LimiterTypeOK, History
<1>4. WindowsTrue'
  <2> SUFFICES ASSUME NEW c \in Clients, Cardinality(Crowd(c)') <= maxKeys
               PROVE  Remembered(c)'
    BY DEF WindowsTrue
  <2>1. Crowd(c)' = Crowd(c)
    BY <1>1 DEF Crowd
  <2>2. Remembered(c)
    BY <2>1 DEF LimiterInv, WindowsTrue
  <2>3. Over(c) => Over(c)'
    BY <1>1 DEF Over, LimiterTypeOK, Entry, History
  <2> QED BY <1>1, <2>2, <2>3 DEF Remembered
<1> QED BY <1>2, <1>3, <1>4 DEF LimiterInv

LEMMA LimiterCheckStep ==
  ASSUME LimiterInv, NEW d \in Clients, check(d)
  PROVE  LimiterInv'
<1>1. PICK map \in Opened(d) : Checked(d, map)
  BY DEF check, Checked
<1>2. LimiterTypeOK /\ MapIsBounded
  BY DEF LimiterInv
<1>3. OpenedFor(d, map)
  BY <1>2, OpenedIsOpenedFor
<1>4. LimiterTypeOK' /\ MapIsBounded'
  BY <1>1, <1>2, <1>3, CheckTyped
<1>5. NotedTrue'
  BY <1>1, <1>3, CheckNoted
<1>6. WindowsTrue'
  BY <1>1, <1>3, CheckRemembersOwn, CheckRemembersOther DEF WindowsTrue
<1> QED BY <1>4, <1>5, <1>6 DEF LimiterInv

LEMMA LimiterIsSound == LimiterSpec => []LimiterInv
<1>1. LimiterInit => LimiterInv
  <2> SUFFICES ASSUME LimiterInit PROVE LimiterInv
    OBVIOUS
  <2>1. LimiterTypeOK
    BY DEF LimiterInit, LimiterTypeOK, History, Entry
  <2>2. Live(entries) = {}
    BY DEF LimiterInit, Live
  <2>3. MapIsBounded
    BY <2>2, FS_EmptySet, LimiterAssumption DEF MapIsBounded
  <2>4. NotedTrue
    BY DEF LimiterInit, NotedTrue
  <2>5. WindowsTrue
    BY LimiterAssumption DEF LimiterInit, WindowsTrue, Remembered, Over
  <2> QED BY <2>1, <2>3, <2>4, <2>5 DEF LimiterInv
<1>2. LimiterInv /\ [LimiterNext]_limiterVars => LimiterInv'
  <2> SUFFICES ASSUME LimiterInv, [LimiterNext]_limiterVars PROVE LimiterInv'
    OBVIOUS
  <2>1. CASE Pass
    BY <2>1, LimiterPassStep
  <2>2. ASSUME NEW c \in Clients, check(c) PROVE LimiterInv'
    BY <2>2, LimiterCheckStep
  <2>3. CASE UNCHANGED limiterVars
    BY <2>3 DEF LimiterInv, LimiterTypeOK, MapIsBounded, Live, NotedTrue, WindowsTrue, Crowd,
                Remembered, Over, limiterVars
  <2> QED BY <2>1, <2>2, <2>3 DEF LimiterNext
<1> QED BY <1>1, <1>2, PTL DEF LimiterSpec

---------------------------------------------------------------------------

\* Entries and notes are well typed in every reachable state.
THEOREM LimiterTypeCorrect == LimiterSpec => []LimiterTypeOK
<1>1. LimiterInv => LimiterTypeOK
  BY DEF LimiterInv
<1> QED BY <1>1, LimiterIsSound, PTL

\* Whatever clients come, the map of the limiter stays within its capacity.
THEOREM MapStaysBounded == LimiterSpec => []MapIsBounded
<1>1. LimiterInv => MapIsBounded
  BY DEF LimiterInv
<1> QED BY <1>1, LimiterIsSound, PTL

\* As long as the clients of one window fit into the map, nobody is admitted
\* more often than the limit in its window, whatever was dropped before.
THEOREM QuotasHold == LimiterSpec => []QuotaHolds
<1>1. LimiterInv => QuotaHolds
  BY DEF LimiterInv, WindowsTrue, Remembered, QuotaHolds
<1> QED BY <1>1, LimiterIsSound, PTL

-----------------------------------------------------------------------------
(* The saved views of a user.                                             *)
\* What a process knows as long as nothing was appended since it read.
KnowsViews(j) ==
    LET n == Len(viewLog)
    IN  /\ j.at = "create" /\ n <= HistoryLimit =>
               /\ \A i \in Shown(n) : viewLog[i].name # j.name
               /\ Cardinality(ViewIds(n)) < ViewLimit
        /\ j.at # "create" => j.id \in ViewIds(n)
        /\ j.at = "update" /\ n <= HistoryLimit =>
               \A i \in Shown(n) : viewLog[i].name = j.name => viewLog[i].id = j.id

ViewsInv ==
    /\ ViewsTypeOK
    /\ \A h \in Askers : viewJob[h] # NoJob =>
           /\ viewJob[h].base <= Len(viewLog)
           /\ viewJob[h].base = Len(viewLog) =>
                  /\ KnowsViews(viewJob[h])
                  /\ viewJob[h].at = "create" =>
                         \A i \in 1..Len(viewLog) : viewLog[i].id # viewJob[h].id
    /\ IsFiniteSet(ViewIds(Len(viewLog)))
    /\ ViewsAreConsistent

-----------------------------------------------------------------------------
\* What a row that is appended does to the views that are shown.
LEMMA ShownAppend ==
  ASSUME viewLog \in Seq(ViewRow), NEW r \in ViewRow, viewLog' = Append(viewLog, r),
         NEW n \in Nat, n = Len(viewLog)
  PROVE  /\ Len(viewLog') = n + 1
         /\ \A i \in 1..n : viewLog'[i] = viewLog[i]
         /\ viewLog'[n + 1] = r
         /\ Shown(n + 1)' = {i \in Shown(n) : viewLog[i].id # r.id} \cup {i \in {n + 1} : r.active}
<1>1. /\ Len(viewLog') = n + 1
      /\ \A i \in 1..n : viewLog'[i] = viewLog[i]
      /\ viewLog'[n + 1] = r
  OBVIOUS
<1>2. ASSUME NEW i \in 1..n
      PROVE  i \in Shown(n + 1)' <=> i \in Shown(n) /\ viewLog[i].id # r.id
  <2>1. NewestOfView(i, n + 1)' <=> NewestOfView(i, n) /\ viewLog[i].id # r.id
    <3>1. (i + 1)..(n + 1) = ((i + 1)..n) \cup {n + 1}
      BY <1>1, <1>2
    <3>2. \A j \in (i + 1)..n : j \in 1..n
      BY <1>1, <1>2
    <3>. QED
      BY <1>1, <1>2, <3>1, <3>2 DEF NewestOfView
  <2>2. i \in 1..(n + 1)
    BY <1>1, <1>2
  <2>. QED
    BY <1>1, <1>2, <2>1, <2>2 DEF Shown
<1>3. n + 1 \in Shown(n + 1)' <=> r.active
  <2>1. NewestOfView(n + 1, n + 1)'
    BY <1>1 DEF NewestOfView
  <2>. QED
    BY <1>1, <2>1 DEF Shown
<1>4. Shown(n + 1)' \subseteq 1..(n + 1) /\ Shown(n) \subseteq 1..n
  BY DEF Shown
<1>5. 1..(n + 1) = (1..n) \cup {n + 1} /\ n + 1 \notin 1..n
  BY <1>1
<1>. QED
  BY <1>1, <1>2, <1>3, <1>4, <1>5

LEMMA ViewFields ==
  ASSUME ViewsTypeOK, NEW h \in Askers, viewJob[h] # NoJob
  PROVE  /\ viewJob[h] \in ViewJob
         /\ viewJob[h].at \in {"create", "found", "update", "delete"}
         /\ viewJob[h].id \in SavedViewIds /\ viewJob[h].name \in ViewNames /\ viewJob[h].base \in Nat
BY DEF ViewsTypeOK, ViewJob

\* The id of a view that is shown, and that of a newest active row.
LEMMA FoundIsShown ==
  ASSUME NEW v, NEW i \in 1..Len(viewLog), latestView(v, i)
  PROVE  i \in Shown(Len(viewLog)) /\ v \in ViewIds(Len(viewLog))
BY DEF latestView, Shown, ViewIds

LEMMA ViewsInitially == ViewsInit => ViewsInv
<1> SUFFICES ASSUME ViewsInit PROVE ViewsInv
  OBVIOUS
<1>1. Len(viewLog) = 0 /\ Shown(Len(viewLog)) = {} /\ ViewIds(Len(viewLog)) = {}
  BY DEF ViewsInit, Shown, ViewIds
<1>2. IsFiniteSet({}) /\ Cardinality({}) = 0
  BY FS_EmptySet
<1>3. ViewsTypeOK /\ \A h \in Askers : viewJob[h] = NoJob
  BY DEF ViewsInit, ViewsTypeOK
<1>4. ViewsAreConsistent
  <2>1. DeletedStaysDeleted /\ NamesAreUnique
    BY <1>1 DEF DeletedStaysDeleted, NamesAreUnique
  <2>2. Cardinality(ViewIds(Len(viewLog))) <= ViewLimit
    <3>1. ViewIds(Len(viewLog)) = {}
      BY <1>1
    <3>2. Cardinality({}) <= ViewLimit
      BY <1>2, ViewsAssumption
    <3>. QED
      BY <3>1, <3>2
  <2>. QED
    BY <2>1, <2>2 DEF ViewsAreConsistent
<1>. QED
  BY <1>1, <1>2, <1>3, <1>4 DEF ViewsInv

\* A step that appends nothing, of a process that knows what it goes on with.
LEMMA ViewStep ==
  ASSUME ViewsInv, NEW h \in Askers, NEW j \in ViewJob \cup {NoJob},
         viewJob' = [viewJob EXCEPT ![h] = j],
         UNCHANGED viewLog, UNCHANGED clean,
         j # NoJob => j.base <= Len(viewLog),
         j # NoJob /\ j.base = Len(viewLog) => KnowsViews(j),
         j # NoJob /\ j.at = "create" => \A i \in 1..Len(viewLog) : viewLog[i].id # j.id
  PROVE  ViewsInv'
<1>1. viewJob'[h] = j /\ \A g \in Askers \ {h} : viewJob'[g] = viewJob[g]
  BY DEF ViewsInv, ViewsTypeOK
<1>2. \A n : Shown(n)' = Shown(n) /\ ViewIds(n)' = ViewIds(n)
  BY DEF Shown, ViewIds, NewestOfView
<1>3. \A k : KnowsViews(k)' = KnowsViews(k)
  BY DEF KnowsViews, Shown, ViewIds, NewestOfView
<1>4. ViewsTypeOK'
  BY DEF ViewsInv, ViewsTypeOK
<1>5. ViewsAreConsistent'
  BY DEF ViewsInv, ViewsAreConsistent, DeletedStaysDeleted, NamesAreUnique, Shown, ViewIds, NewestOfView
<1>6. ASSUME NEW g \in Askers, viewJob'[g] # NoJob
      PROVE  /\ viewJob'[g].base <= Len(viewLog')
             /\ viewJob'[g].base = Len(viewLog') =>
                    /\ KnowsViews(viewJob'[g])
                    /\ viewJob'[g].at = "create" =>
                           \A i \in 1..Len(viewLog') : viewLog'[i].id # viewJob'[g].id
  BY <1>1, <1>6 DEF ViewsInv
<1>. QED
  BY <1>2, <1>3, <1>4, <1>5, <1>6 DEF ViewsInv

LEMMA AppendKeepsViews ==
  ASSUME ViewsInv, NEW h \in Askers, AppendView(h)
  PROVE  ViewsInv'
<1>0. PICK n \in Nat : n = Len(viewLog)
  BY DEF ViewsInv, ViewsTypeOK
<1> DEFINE j == viewJob[h]
           r == [id |-> j.id, name |-> j.name, active |-> j.at # "delete"]
<1>1. /\ ViewsTypeOK /\ j # NoJob /\ n = Len(viewLog) /\ HistoryLimit \in Nat /\ ViewLimit \in Nat
      /\ j.at \in {"create", "update", "delete"}
  BY <1>0, ViewsAssumption DEF ViewsInv, ViewsTypeOK, AppendView, NoJob
<1>2. r \in ViewRow /\ j.base \in Nat /\ viewLog \in Seq(ViewRow)
  BY <1>1, ViewFields DEF ViewRow, ViewsTypeOK
<1>3. viewLog' = Append(viewLog, r)
  BY DEF AppendView
<1>4. /\ Len(viewLog') = n + 1
      /\ \A i \in 1..n : viewLog'[i] = viewLog[i]
      /\ viewLog'[n + 1] = r
      /\ Shown(n + 1)' = {i \in Shown(n) : viewLog[i].id # r.id} \cup {i \in {n + 1} : r.active}
  BY <1>0, <1>2, <1>3, ShownAppend
<1>5. viewJob'[h] = NoJob /\ \A g \in Askers \ {h} : viewJob'[g] = viewJob[g]
  BY <1>1 DEF AppendView, ViewsTypeOK
<1>6. ViewsTypeOK'
  BY <1>1, <1>2, <1>3 DEF ViewsTypeOK, AppendView
<1>7. ASSUME NEW g \in Askers, viewJob'[g] # NoJob
      PROVE  viewJob'[g].base <= n + 1 /\ viewJob'[g].base # n + 1
  <2>1. viewJob'[g] = viewJob[g] /\ viewJob[g] # NoJob
    BY <1>5, <1>7
  <2>2. viewJob[g].base \in Nat /\ viewJob[g].base <= n
    BY <1>1, <2>1, ViewFields DEF ViewsInv
  <2>. QED
    BY <1>1, <2>1, <2>2
<1>8. Shown(n) \subseteq 1..n
  BY DEF Shown
<1>9. ViewIds(n + 1)' = (ViewIds(n) \ {j.id}) \cup {v \in {j.id} : r.active}
  BY <1>1, <1>4, <1>8 DEF ViewIds
<1>10. IsFiniteSet(ViewIds(n + 1)')
  <2>1. IsFiniteSet(ViewIds(n) \ {j.id}) /\ IsFiniteSet((ViewIds(n) \ {j.id}) \cup {j.id})
    BY <1>0, FS_Difference, FS_AddElement DEF ViewsInv
  <2>2. {v \in {j.id} : r.active} = {} \/ {v \in {j.id} : r.active} = {j.id}
    OBVIOUS
  <2>. QED
    BY <1>9, <2>1, <2>2
<1>11. ASSUME clean'
       PROVE  /\ DeletedStaysDeleted'
              /\ n + 1 <= HistoryLimit + 1 =>
                     NamesAreUnique' /\ Cardinality(ViewIds(n + 1)') <= ViewLimit
  <2>1. clean /\ j.base = n
    BY <1>0, <1>11 DEF AppendView
  <2>2. KnowsViews(j) /\ (j.at = "create" => \A i \in 1..n : viewLog[i].id # j.id)
    BY <1>1, <2>1 DEF ViewsInv
  <2>3. /\ DeletedStaysDeleted
        /\ n <= HistoryLimit => NamesAreUnique /\ Cardinality(ViewIds(n)) <= ViewLimit
    BY <1>1, <2>1 DEF ViewsInv, ViewsAreConsistent
  <2>4. DeletedStaysDeleted'
    <3> SUFFICES ASSUME NEW i \in 1..(n + 1), NEW k \in 1..(n + 1), i < k,
                        viewLog'[i].id = viewLog'[k].id, ~viewLog'[i].active
                 PROVE  ~viewLog'[k].active
      BY <1>4 DEF DeletedStaysDeleted
    <3>1. CASE k \in 1..n
      BY <1>1, <1>4, <2>3, <3>1 DEF DeletedStaysDeleted
    <3>2. CASE k = n + 1
      <4>1. i \in 1..n /\ viewLog[i].id = j.id /\ ~viewLog[i].active
        BY <1>1, <1>4, <3>2
      <4>2. j.at # "create"
        BY <2>2, <4>1
      <4>3. PICK s \in Shown(n) : viewLog[s].id = j.id
        BY <1>0, <2>2, <4>2 DEF KnowsViews, ViewIds
      <4>4. s \in 1..n /\ viewLog[s].active /\ \A m \in (s + 1)..n : viewLog[m].id # viewLog[s].id
        BY <4>3 DEF Shown, NewestOfView
      <4>5. i < s \/ i = s \/ i \in (s + 1)..n
        BY <1>1, <4>1, <4>4
      <4>. QED
        BY <1>0, <1>4, <2>3, <3>2, <4>1, <4>3, <4>4, <4>5 DEF DeletedStaysDeleted
    <3>. QED
      BY <1>1, <3>1, <3>2
  <2>5. ASSUME n <= HistoryLimit
        PROVE  NamesAreUnique' /\ Cardinality(ViewIds(n + 1)') <= ViewLimit
    <3>1. NamesAreUnique /\ Cardinality(ViewIds(n)) <= ViewLimit
      BY <2>3, <2>5
    <3>2. \A i \in Shown(n) : r.active /\ viewLog[i].name = j.name => viewLog[i].id = j.id
      BY <1>1, <2>2, <2>5 DEF KnowsViews
    <3>3. NamesAreUnique'
      <4> SUFFICES ASSUME NEW i \in Shown(n + 1)', NEW k \in Shown(n + 1)',
                          viewLog'[i].name = viewLog'[k].name
                   PROVE  i = k
        BY <1>4 DEF NamesAreUnique
      <4>1. CASE i \in Shown(n) /\ k \in Shown(n)
        BY <1>0, <1>4, <1>8, <3>1, <4>1 DEF NamesAreUnique
      <4>2. CASE i \in Shown(n) /\ k \notin Shown(n)
        <5>1. k = n + 1 /\ r.active /\ viewLog[i].id # j.id /\ viewLog'[i] = viewLog[i]
          BY <1>1, <1>4, <1>8, <4>2
        <5>. QED
          BY <1>4, <3>2, <4>2, <5>1
      <4>3. CASE i \notin Shown(n) /\ k \in Shown(n)
        <5>1. i = n + 1 /\ r.active /\ viewLog[k].id # j.id /\ viewLog'[k] = viewLog[k]
          BY <1>1, <1>4, <1>8, <4>3
        <5>. QED
          BY <1>4, <3>2, <4>3, <5>1
      <4>4. CASE i \notin Shown(n) /\ k \notin Shown(n)
        BY <1>4, <4>4
      <4>. QED
        BY <4>1, <4>2, <4>3, <4>4
    <3>4. IsFiniteSet(ViewIds(n)) /\ Cardinality(ViewIds(n)) \in Nat
      BY <1>0, FS_CardinalityType DEF ViewsInv
    <3>5. CASE j.at = "create"
      <4>1. Cardinality(ViewIds(n)) < ViewLimit /\ j.id \notin ViewIds(n)
        BY <1>0, <1>8, <2>2, <2>5, <3>5 DEF KnowsViews, ViewIds
      <4>2. ViewIds(n + 1)' = ViewIds(n) \cup {j.id}
        BY <1>9, <3>5, <4>1
      <4>3. Cardinality(ViewIds(n) \cup {j.id}) = Cardinality(ViewIds(n)) + 1
        BY <3>4, <4>1, FS_AddElement
      <4>4. Cardinality(ViewIds(n)) + 1 <= ViewLimit
        BY <1>1, <3>4, <4>1
      <4>. QED
        BY <1>1, <3>3, <4>2, <4>3, <4>4
    <3>6. CASE j.at # "create"
      <4>1. j.id \in ViewIds(n)
        BY <1>0, <2>2, <3>6 DEF KnowsViews
      <4>2. ViewIds(n + 1)' \subseteq ViewIds(n)
        BY <1>9, <4>1
      <4>3. Cardinality(ViewIds(n + 1)') <= Cardinality(ViewIds(n)) /\ Cardinality(ViewIds(n + 1)') \in Nat
        BY <1>10, <3>4, <4>2, FS_Subset, FS_CardinalityType
      <4>. QED
        BY <1>1, <3>1, <3>3, <3>4, <4>3
    <3>. QED
      BY <3>5, <3>6
  <2>. QED
    BY <1>1, <2>4, <2>5
<1>12. ViewsAreConsistent'
  BY <1>4, <1>11 DEF ViewsAreConsistent
<1>. QED
  BY <1>4, <1>6, <1>7, <1>10, <1>12 DEF ViewsInv

LEMMA StepsKeepViews == ViewsInv /\ [ViewsNext]_viewVars => ViewsInv'
<1> SUFFICES ASSUME ViewsInv, [ViewsNext]_viewVars
             PROVE  ViewsInv'
  OBVIOUS
<1> DEFINE n == Len(viewLog)
<1>0. /\ ViewsTypeOK /\ n \in Nat /\ HistoryLimit \in Nat
      /\ n <= HistoryLimit => RowsRead = n
  BY ViewsAssumption DEF ViewsInv, ViewsTypeOK, RowsRead
<1>1. ASSUME NEW h \in Askers, NEW v \in SavedViewIds, NEW m \in ViewNames, createSavedView(h, v, m)
      PROVE  ViewsInv'
  <2> DEFINE j == [at |-> "create", id |-> v, name |-> m, base |-> n]
  <2>1. /\ viewJob' = [viewJob EXCEPT ![h] = j] /\ UNCHANGED viewLog /\ UNCHANGED clean
        /\ \A i \in 1..n : viewLog[i].id # v
    BY <1>1 DEF createSavedView, Start, Unused
  <2>2. j \in ViewJob
    BY <1>0 DEF ViewJob
  <2>3. n <= HistoryLimit => /\ \A i \in Shown(n) : viewLog[i].name # m
                             /\ Cardinality(ViewIds(n)) < ViewLimit
    BY <1>0, <1>1, <2>1 DEF createSavedView, NameTaken, Shown
  <2>4. KnowsViews(j)
    BY <2>3 DEF KnowsViews
  <2>5. j.base = n /\ (j.at = "create" => j.id = v) /\ j.at \in {"create", "found"}
    OBVIOUS
  <2> HIDE DEF j
  <2>6. /\ j \in ViewJob \cup {NoJob} /\ j.base <= Len(viewLog)
        /\ j.at = "create" => \A i \in 1..Len(viewLog) : viewLog[i].id # j.id
    BY <1>0, <2>1, <2>2, <2>5
  <2>. QED
    BY <2>1, <2>4, <2>6, ViewStep
<1>2. ASSUME NEW h \in Askers, NEW v \in SavedViewIds, NEW m \in ViewNames, updateSavedView(h, v, m)
      PROVE  ViewsInv'
  <2> DEFINE j == [at |-> "found", id |-> v, name |-> m, base |-> n]
  <2>1. viewJob' = [viewJob EXCEPT ![h] = j] /\ UNCHANGED viewLog /\ UNCHANGED clean
    BY <1>2 DEF updateSavedView, Start
  <2>2. j \in ViewJob
    BY <1>0 DEF ViewJob
  <2>3. v \in ViewIds(n)
    BY <1>2, FoundIsShown DEF updateSavedView
  <2>4. KnowsViews(j)
    BY <2>3 DEF KnowsViews
  <2>5. j.base = n /\ j.at = "found"
    OBVIOUS
  <2> HIDE DEF j
  <2>6. /\ j \in ViewJob \cup {NoJob} /\ j.base <= Len(viewLog)
        /\ j.at = "create" => \A i \in 1..Len(viewLog) : viewLog[i].id # j.id
    BY <1>0, <2>1, <2>2, <2>5
  <2>. QED
    BY <2>1, <2>4, <2>6, ViewStep
<1>3. ASSUME NEW h \in Askers, NEW v \in SavedViewIds, deleteSavedView(h, v)
      PROVE  ViewsInv'
  <2>1. PICK i \in 1..n : latestView(v, i) /\ Start(h, "delete", v, viewLog[i].name)
    BY <1>3 DEF deleteSavedView
  <2> DEFINE j == [at |-> "delete", id |-> v, name |-> viewLog[i].name, base |-> n]
  <2>2. viewJob' = [viewJob EXCEPT ![h] = j] /\ UNCHANGED viewLog /\ UNCHANGED clean
    BY <2>1 DEF Start
  <2>3. viewLog[i] \in ViewRow
    BY <1>0, <2>1 DEF ViewsTypeOK
  <2>4. j \in ViewJob
    BY <1>0, <2>3 DEF ViewJob, ViewRow
  <2>5. v \in ViewIds(n)
    BY <2>1, FoundIsShown
  <2>6. KnowsViews(j)
    BY <2>5 DEF KnowsViews
  <2>7. j.base = n /\ j.at = "delete"
    OBVIOUS
  <2> HIDE DEF j
  <2>8. j \in ViewJob \cup {NoJob} /\ j.base <= Len(viewLog) /\ j.at # "create"
    BY <1>0, <2>4, <2>7
  <2>. QED
    BY <2>2, <2>6, <2>8, ViewStep
<1>4. ASSUME NEW h \in Askers, assertUniqueName(h)
      PROVE  ViewsInv'
  <2>1. viewJob[h] # NoJob /\ viewJob[h].at = "found"
    BY <1>4 DEF assertUniqueName, NoJob
  <2> DEFINE j == [viewJob[h] EXCEPT !.at = "update"]
  <2>2. j \in ViewJob /\ j.at = "update" /\ j.id = viewJob[h].id /\ j.name = viewJob[h].name
        /\ j.base = viewJob[h].base
    BY <1>0, <2>1, ViewFields DEF ViewJob
  <2>3. viewJob' = [viewJob EXCEPT ![h] = j] /\ UNCHANGED viewLog /\ UNCHANGED clean
    BY <1>4 DEF assertUniqueName
  <2>4. /\ viewJob[h].base <= n
        /\ viewJob[h].base = n => viewJob[h].id \in ViewIds(n)
    BY <2>1 DEF ViewsInv, KnowsViews
  <2>5. n <= HistoryLimit =>
            \A i \in Shown(n) : viewLog[i].name = viewJob[h].name => viewLog[i].id = viewJob[h].id
    BY <1>0, <1>4 DEF assertUniqueName, NameTaken
  <2> HIDE DEF j
  <2>6. j.base = n => KnowsViews(j)
    BY <2>2, <2>4, <2>5 DEF KnowsViews
  <2>. QED
    BY <2>2, <2>3, <2>4, <2>6, ViewStep
<1>5. ASSUME NEW h \in Askers, AppendView(h)
      PROVE  ViewsInv'
  BY <1>5, AppendKeepsViews
<1>6. ASSUME NEW h \in Askers, EndView(h)
      PROVE  ViewsInv'
  <2>1. viewJob' = [viewJob EXCEPT ![h] = NoJob] /\ UNCHANGED viewLog /\ UNCHANGED clean
    BY <1>6 DEF EndView
  <2>2. NoJob \in ViewJob \cup {NoJob}
    OBVIOUS
  <2>. QED
    BY <2>1, <2>2, ViewStep
<1>7. CASE UNCHANGED viewVars
  <2>1. viewLog' = viewLog /\ viewJob' = viewJob /\ clean' = clean
    BY <1>7 DEF viewVars
  <2>2. \A m : Shown(m)' = Shown(m) /\ ViewIds(m)' = ViewIds(m)
    BY <2>1 DEF Shown, ViewIds, NewestOfView
  <2>3. \A k : KnowsViews(k)' = KnowsViews(k)
    BY <2>1, <2>2 DEF KnowsViews
  <2>4. ViewsAreConsistent'
    BY <2>1, <2>2 DEF ViewsInv, ViewsAreConsistent, DeletedStaysDeleted, NamesAreUnique
  <2>5. ViewsTypeOK'
    BY <2>1 DEF ViewsInv, ViewsTypeOK
  <2>. QED
    BY <2>1, <2>2, <2>3, <2>4, <2>5 DEF ViewsInv
<1>. QED
  BY <1>1, <1>2, <1>3, <1>4, <1>5, <1>6, <1>7 DEF ViewsNext

\* While requests do not overlap, deleted views stay deleted, and names are
\* unique and the views within their limit until the log outgrows the list
\* (listScopedSnapshots, createSavedView, updateSavedView).
THEOREM SavedViewsAreConsistent == ViewsSpec => [](ViewsTypeOK /\ ViewsAreConsistent)
<1>1. ViewsInit => ViewsInv
  BY ViewsInitially
<1>2. ViewsInv /\ [ViewsNext]_viewVars => ViewsInv'
  BY StepsKeepViews
<1>3. ViewsInv => ViewsTypeOK /\ ViewsAreConsistent
  BY DEF ViewsInv
<1>. QED
  BY <1>1, <1>2, <1>3, PTL DEF ViewsSpec
============================================================================
