-------------------------- MODULE DocumentSearch --------------------------
(***************************************************************************)
(* Search in controlled documents by meaning (controlled-document-search.ts*)
(* over vector-store.ts and postgres-vector-store.ts).  A revision in force*)
(* is indexed by a vector of its file, stored with the checksum its row    *)
(* had; nothing ever deletes one.  A search reads the vectors nearest to   *)
(* the query, more than are wanted, and then asks the database which of    *)
(* them are still in force, as of when the search began.  Every read and   *)
(* write is a step; embedding keeps no state.                              *)
(*                                                                         *)
(* The rows change as DocumentControl has it: by handlers that write by id *)
(* what they decided earlier, so that one that went out of force may come  *)
(* back, and one in force get another date.                                *)
(*                                                                         *)
(* A file is its content, and a checksum is the content it was made of.    *)
(* How near a vector is to a query is any score of the content.            *)
(***************************************************************************)
EXTENDS Naturals, FiniteSets

CONSTANTS
    Issues,             \* document revisions, numbered in the order of their ids
    Texts,              \* contents of files
    Indexers,           \* requests that index, at work at one time
    Searchers,          \* requests that search
    Rankings,           \* how near each text may be to a query
    resultLimit,        \* limit
    SEARCH_OVERSAMPLE,
    maxCandidates,
    LastDay,           \* bound: dates are 0..LastDay
    MaxChanges,         \* bound: changes of issues after their release, and days that pass
    NoVector

ASSUME SearchAssumption ==
    /\ Issues \subseteq Nat /\ IsFiniteSet(Issues)
    /\ Rankings \subseteq [Texts -> Nat]
    /\ {resultLimit, SEARCH_OVERSAMPLE, maxCandidates, LastDay, MaxChanges} \subseteq Nat
    /\ NoVector \notin Texts
    /\ NoVector \notin [issue : Issues, text : Texts, checksum : Texts]

VARIABLES
    issue,      \* the DocumentRevision rows
    vectors,    \* the AiVectorRecord rows
    indexing,   \* what an indexing request has read
    search,     \* what a search has read and found
    today,      \* the clock
    gone,       \* history: what was out of force when a search began, and not brought back since
    steady,     \* history: what was in force and indexed then, and nothing changed it since
    muddled,    \* history: issues indexed while their file was replaced
    changes     \* history: how many changes and days there were

searchVars == <<issue, vectors, indexing, search, today, gone, steady, muddled, changes>>

Days == 0..LastDay

\* The date of an issue that has none.
Never == LastDay + 1

\* OBSOLETE stands for any other status: late writers leave several.
Issue == [status : {"EFFECTIVE", "OBSOLETE"}, effectiveAt : 0..Never,
          expiresAt : 0..Never, file : Texts]

\* What an issue is before its release, whose dates and file may be anything.
Draft == [status |-> "DRAFT", effectiveAt |-> Never, expiresAt |-> Never, file |-> NoVector]

Vector == [issue : Issues, text : Texts, checksum : Texts]

Indexing == [issue : Issues, checksum : Texts, text : Texts \cup {NoVector}]

Search == [at : {"query", "lookup", "answered"}, score : Rankings,
           asOf : Days, read : SUBSET Vector, found : SUBSET Vector]

SearchTypeOK ==
    /\ issue \in [Issues -> Issue \cup {Draft}]
    /\ vectors \in [Issues -> Vector \cup {NoVector}]
    /\ indexing \in [Indexers -> Indexing \cup {NoVector}]
    /\ search \in [Searchers -> Search \cup {NoVector}]
    /\ today \in Days
    /\ gone \in [Searchers -> SUBSET Issues]
    /\ steady \in [Searchers -> SUBSET Issues]
    /\ muddled \subseteq Issues
    /\ changes \in 0..MaxChanges

SearchInit ==
    /\ issue = [i \in Issues |-> Draft]
    /\ vectors = [i \in Issues |-> NoVector]
    /\ indexing = [x \in Indexers |-> NoVector]
    /\ search = [s \in Searchers |-> NoVector]
    /\ today = 0
    /\ gone = [s \in Searchers |-> {}]
    /\ steady = [s \in Searchers |-> {}]
    /\ muddled = {}
    /\ changes = 0

-----------------------------------------------------------------------------
(* Reading and ranking.                                                    *)
IsEffective(i, asOf) ==
    /\ issue[i].status = "EFFECTIVE"
    /\ issue[i].effectiveAt <= asOf
    /\ issue[i].expiresAt > asOf

\* The vector of an issue as it is.
TrueVector(i) == [issue |-> i, text |-> issue[i].file, checksum |-> issue[i].file]

Indexed == {i \in Issues : vectors[i] # NoVector}

\* By score, then by id.
Before(score, u, v) ==
    \/ score[u.text] > score[v.text]
    \/ score[u.text] = score[v.text] /\ u.issue < v.issue

Ahead(score, v, V) == {u \in V : Before(score, u, v)}

\* The first n of a set of vectors.
Best(score, n, V) == {v \in V : Cardinality(Ahead(score, v, V)) < n}

Oversampled == resultLimit * SEARCH_OVERSAMPLE

\* What the search answers: valid hits up to the limit.
Results(s) == Best(search[s].score, resultLimit, search[s].found)

Touched(i) == steady' = [s \in Searchers |-> steady[s] \ {i}]

Returned(i) == gone' = [s \in Searchers |-> gone[s] \ {i}]

Changed == changes < MaxChanges /\ changes' = changes + 1

-----------------------------------------------------------------------------
(* What happens to a revision.                                             *)

\* activateRevision, once the date has come.
Release(i, t, date, end) ==
    /\ issue[i] = Draft
    /\ date <= today /\ date < end
    /\ issue' = [issue EXCEPT ![i] = [status |-> "EFFECTIVE", effectiveAt |-> date,
                                      expiresAt |-> end, file |-> t]]
    /\ Returned(i)
    /\ UNCHANGED <<vectors, indexing, search, today, steady, muddled, changes>>

\* The activation of another one lists this one and writes it.
Obsolete(i) ==
    /\ issue[i].status = "EFFECTIVE"
    /\ Changed
    /\ issue' = [issue EXCEPT ![i].status = "OBSOLETE"]
    /\ Touched(i)
    /\ UNCHANGED <<vectors, indexing, search, today, gone, muddled>>

\* An activation that read it before writes it EFFECTIVE, whatever it has become.
Reactivate(i) ==
    /\ issue[i].status = "OBSOLETE"
    /\ Changed
    /\ issue' = [issue EXCEPT ![i].status = "EFFECTIVE"]
    /\ Returned(i)
    /\ UNCHANGED <<vectors, indexing, search, today, steady, muddled>>

\* scheduleRevisionEffective takes one in force, and writes it by id; a
\* revision returned to its draft loses its date.
Redate(i, date) ==
    /\ issue[i] # Draft
    /\ issue[i].effectiveAt # date
    /\ Changed
    /\ issue' = [issue EXCEPT ![i].effectiveAt = date]
    /\ Returned(i)
    /\ Touched(i)
    /\ UNCHANGED <<vectors, indexing, search, today, muddled>>

\* Its file is replaced by an upload that began when it was a draft.
ReplaceFile(i, t) ==
    /\ issue[i] # Draft
    /\ issue[i].file # t
    /\ Changed
    /\ issue' = [issue EXCEPT ![i].file = t]
    /\ Touched(i)
    /\ UNCHANGED <<vectors, indexing, search, today, gone, muddled>>

\* Days come, and issues expire.
Tick ==
    /\ today < LastDay
    /\ Changed
    /\ today' = today + 1
    /\ UNCHANGED <<issue, vectors, indexing, search, gone, steady, muddled>>

-----------------------------------------------------------------------------
(* indexEffectiveRevision.                                                 *)
FindRevision(x, i) ==
    /\ indexing[x] = NoVector
    /\ IsEffective(i, today)
    /\ indexing' = [indexing EXCEPT ![x] =
           [issue |-> i, checksum |-> issue[i].file, text |-> NoVector]]
    /\ UNCHANGED <<issue, vectors, search, today, gone, steady, muddled, changes>>

\* The file is read by the row as it is now, and not compared with the checksum.
ReadFile(x) ==
    LET j == indexing[x]
    IN  /\ j # NoVector /\ j.text = NoVector
        /\ indexing' = [indexing EXCEPT ![x].text = issue[j.issue].file]
        /\ muddled' = IF issue[j.issue].file = j.checksum THEN muddled ELSE muddled \cup {j.issue}
        /\ UNCHANGED <<issue, vectors, search, today, gone, steady, changes>>

\* A record of the revision is overwritten.  A request that timed out may be
\* written all the same.
Upsert(x) ==
    LET j == indexing[x]
    IN  /\ j # NoVector /\ j.text # NoVector
        /\ vectors' = [vectors EXCEPT ![j.issue] = j]
        /\ Touched(j.issue)
        /\ indexing' = [indexing EXCEPT ![x] = NoVector]
        /\ UNCHANGED <<issue, search, today, gone, muddled, changes>>

\* A file that cannot be read, an embedding or the store fails.
IndexFails(x) ==
    /\ indexing[x] # NoVector
    /\ indexing' = [indexing EXCEPT ![x] = NoVector]
    /\ UNCHANGED <<issue, vectors, search, today, gone, steady, muddled, changes>>

-----------------------------------------------------------------------------
(* search.                                                                 *)

StartSearch(s, score) ==
    /\ search[s] = NoVector
    /\ search' = [search EXCEPT ![s] =
           [at |-> "query", score |-> score, asOf |-> today, read |-> {}, found |-> {}]]
    /\ gone' = [gone EXCEPT ![s] = {i \in Issues : ~IsEffective(i, today)}]
    /\ steady' = [steady EXCEPT ![s] =
           {i \in Issues : IsEffective(i, today) /\ vectors[i] = TrueVector(i)}]
    /\ UNCHANGED <<issue, vectors, indexing, today, muddled, changes>>

\* More vectors than the store will rank are an error.
Query(s) ==
    /\ search[s] # NoVector /\ search[s].at = "query"
    /\ Cardinality(Indexed) <= maxCandidates
    /\ search' = [search EXCEPT ![s].at = "lookup", ![s].read = {vectors[i] : i \in Indexed}]
    /\ UNCHANGED <<issue, vectors, indexing, today, gone, steady, muddled, changes>>

\* Fault: the checksum is not compared.
StillEffective(s, v) == IsEffective(v.issue, search[s].asOf)

\* The dates are those the row has now; the day is the one the search began on.
StillValid(s, v) ==
    IsEffective(v.issue, search[s].asOf) /\ issue[v.issue].file = v.checksum

\* A hit that is still valid, with the checksum of its row.
Cited(v) == [v EXCEPT !.checksum = issue[v.issue].file]

findEffectiveRevisionsByIds(s) ==
    /\ search[s] # NoVector /\ search[s].at = "lookup"
    /\ search' = [search EXCEPT ![s].at = "answered", ![s].found =
           {Cited(v) : v \in
               {v \in Best(search[s].score, Oversampled, search[s].read) : StillValid(s, v)}}]
    /\ UNCHANGED <<issue, vectors, indexing, today, gone, steady, muddled, changes>>

\* It is answered, or fails.
EndSearch(s) ==
    /\ search[s] # NoVector
    /\ search' = [search EXCEPT ![s] = NoVector]
    /\ gone' = [gone EXCEPT ![s] = {}]
    /\ steady' = [steady EXCEPT ![s] = {}]
    /\ UNCHANGED <<issue, vectors, indexing, today, muddled, changes>>

SearchNext ==
    \/ \E i \in Issues :
           \/ Obsolete(i) \/ Reactivate(i)
           \/ \E date \in 0..Never : Redate(i, date)
           \/ \E t \in Texts :
                  \/ ReplaceFile(i, t)
                  \/ \E date \in Days, end \in 1..Never : Release(i, t, date, end)
    \/ Tick
    \/ \E x \in Indexers :
           \/ \E i \in Issues : FindRevision(x, i)
           \/ ReadFile(x) \/ Upsert(x) \/ IndexFails(x)
    \/ \E s \in Searchers :
           \/ \E score \in Rankings : StartSearch(s, score)
           \/ Query(s) \/ findEffectiveRevisionsByIds(s)
           \/ EndSearch(s)

SearchSpec == SearchInit /\ [][SearchNext]_searchVars

-----------------------------------------------------------------------------
\* Nothing is found that was out of force when the search began, or not yet in
\* force, unless somebody has activated or dated it since: no old vector brings it
\* back, nor a date that comes while the search goes on.
NothingGoneIsFound ==
    \A s \in Searchers : search[s] # NoVector =>
        \A v \in search[s].found : v.issue \notin gone[s]

\* What is found was ranked by the content whose checksum is cited, although the
\* vectors outlive the files they were made of: only a file that was replaced
\* between the two reads of an indexing request is ranked by another content.
FoundAsCited ==
    \A s \in Searchers : search[s] # NoVector =>
        \A v \in search[s].found : v.text = v.checksum \/ v.issue \in muddled

\* An issue that is in force and truly indexed while the search goes on is
\* among the results, unless as many vectors as are looked at, stale or not,
\* are nearer, or as many valid ones as are wanted.
NothingSteadyIsMissed ==
    \A s \in Searchers : search[s] # NoVector /\ search[s].at = "answered" =>
        \A i \in steady[s] :
            \/ TrueVector(i) \in Results(s)
            \/ Cardinality(Ahead(search[s].score, TrueVector(i), search[s].read)) >= Oversampled
            \/ Cardinality(Ahead(search[s].score, TrueVector(i), search[s].found)) >= resultLimit

\* What a search answers is what the documents in force have to say.
SearchIsSound == NothingGoneIsFound /\ FoundAsCited /\ NothingSteadyIsMissed
=============================================================================
