---------------------------- MODULE RateLimiter ----------------------------
(***************************************************************************)
(* The limiter in front of the API (lib/rate-limit.ts, middleware.ts): one *)
(* process, one map of fixed windows, one entry for each bucket and client *)
(* address.  The map is bounded: to make room for a new client it drops    *)
(* the windows that are over, and then those seen least recently.          *)
(*                                                                         *)
(* A check runs to its end without a pause, so it is one action; what is   *)
(* hard is the history of checks.  The clock does not run backwards.       *)
(***************************************************************************)
EXTENDS Naturals, FiniteSets

CONSTANTS
    Clients,    \* the keys that arrive: a bucket and an address
    limit,
    windowMs,
    maxKeys,
    MaxClock,    \* bound
    MaxCount,   \* bound: requests counted in one window
    NoEntry

ASSUME ClientsAssumption == IsFiniteSet(Clients)
ASSUME LimiterAssumption ==
    /\ {limit, windowMs, maxKeys} \subseteq Nat \ {0}
    /\ {MaxClock, MaxCount} \subseteq Nat
ASSUME EntryAssumption == NoEntry \notin Nat \cup [count: Nat, resetAt: Nat, lastSeenAt: Nat]

VARIABLES
    now,
    entries,    \* the map
    history     \* history: for each client what an observer of it has counted

limiterVars == <<now, entries, history>>

Entry == [count: Nat, resetAt: Nat, lastSeenAt: Nat]

\* seen: the time of the last request.  began: when the window of the client
\* began, for an observer who does not forget it when the map drops the entry.
\* admitted: the requests admitted in it.
History == [seen: Nat \cup {NoEntry}, began: Nat, admitted: Nat]

LimiterTypeOK ==
    /\ now \in Nat
    /\ entries \in [Clients -> Entry \cup {NoEntry}]
    /\ history \in [Clients -> History]

LimiterInit ==
    /\ now = 0
    /\ entries = [c \in Clients |-> NoEntry]
    /\ history = [c \in Clients |-> [seen |-> NoEntry, began |-> 0, admitted |-> 0]]

Live(map) == {c \in Clients : map[c] # NoEntry}

Keep(map, kept) == [c \in Clients |-> IF c \in kept THEN map[c] ELSE NoEntry]

Current(map) == {c \in Live(map) : now < map[c].resetAt}

\* Mutant: the sort is the other way round.
Newest(map, gone) ==
    \A c \in gone, d \in Current(map) \ gone : map[d].lastSeenAt <= map[c].lastSeenAt

\* gone are the least recently seen of the current entries.
Oldest(map, gone) ==
    \A c \in gone, d \in Current(map) \ gone : map[c].lastSeenAt <= map[d].lastSeenAt

\* Mutant: the map is cleared of old windows only when it has overflowed.
EnsureLate(map) ==
    IF Cardinality(Live(map)) <= maxKeys THEN {map} ELSE {Keep(map, Current(map))}

\* The map with room for one more.
ensureCapacity(map) ==
    IF Cardinality(Live(map)) < maxKeys
    THEN {map}
    ELSE IF Cardinality(Current(map)) < maxKeys
    THEN {Keep(map, Current(map))}
    ELSE {Keep(map, Current(map) \ gone) :
            gone \in {g \in SUBSET Current(map) :
                        /\ Cardinality(Current(map)) = maxKeys - 1 + Cardinality(g)
                        /\ Oldest(map, g)}}

NewWindow == [count |-> 0, resetAt |-> now + windowMs, lastSeenAt |-> now]

\* The maps a check of client c may go on with: an old window is replaced in
\* its place, a new one needs room.
Opened(c) ==
    IF entries[c] = NoEntry
    THEN {[map EXCEPT ![c] = NewWindow] : map \in ensureCapacity(entries)}
    ELSE IF now >= entries[c].resetAt
    THEN {[entries EXCEPT ![c] = NewWindow]}
    ELSE {entries}

\* The window the observer knows is over.
Over(c) ==
    IF entries[c] # NoEntry
    THEN entries[c].resetAt <= now
    ELSE history[c].seen = NoEntry \/ history[c].began + windowMs <= now

\* What the observer of client c notes.
Noted(c, allowed) ==
    [seen |-> now,
     began |-> IF Over(c) THEN now ELSE history[c].began,
     admitted |-> (IF Over(c) THEN 0 ELSE history[c].admitted) + IF allowed THEN 1 ELSE 0]

Counted(entry) ==
    [count |-> entry.count + 1, resetAt |-> entry.resetAt, lastSeenAt |-> now]

\* A request of client c goes through the middleware.
check(c) ==
    \E map \in Opened(c) :
        /\ map[c].count < MaxCount
        /\ Over(c) \/ history[c].admitted < MaxCount
        /\ entries' = [map EXCEPT ![c] = Counted(map[c])]
        /\ history' = [history EXCEPT ![c] = Noted(c, map[c].count + 1 <= limit)]
        /\ UNCHANGED now

Pass ==
    /\ now < MaxClock
    /\ now' = now + 1
    /\ UNCHANGED <<entries, history>>

LimiterNext == Pass \/ \E c \in Clients : check(c)

LimiterSpec == LimiterInit /\ [][LimiterNext]_limiterVars

---------------------------------------------------------------------------

\* "This prevents arbitrary client identifiers from causing unbounded memory
\* growth": whatever clients come, the map never has more than maxKeys entries
\* (ensureCapacity, called for new clients only).
MapIsBounded == Cardinality(Live(entries)) <= maxKeys

\* The clients seen since the window of c began, c among them.
Crowd(c) ==
    {d \in Clients : history[d].seen # NoEntry /\ history[d].seen >= history[c].began}

\* What the bound costs: as long as no more than maxKeys clients come within
\* the window of a client, it is admitted at most limit times in it, though the
\* map was full before and windows of others were dropped and opened.
QuotaHolds ==
    \A c \in Clients :
        Cardinality(Crowd(c)) <= maxKeys => history[c].admitted <= limit
============================================================================
