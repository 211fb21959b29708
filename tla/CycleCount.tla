---------------------------- MODULE CycleCount ----------------------------
(***************************************************************************)
(* Cycle counts (lib/inventory/cycle-counts.ts) on top of the inventory.   *)
(*                                                                         *)
(* A count lives in the audit log; its newest row is the count.  Recording *)
(* and completing run at the Serializable level: of two such transactions  *)
(* on one count the first to commit aborts the other.  Cancelling runs at  *)
(* the database's default level, READ COMMITTED: it neither aborts nor is  *)
(* aborted, so each of the three is split into its read and its commit.    *)
(*                                                                         *)
(* Completing appends two rows: the COMPLETED snapshot, then a row that    *)
(* lists the movements and is no snapshot.  Both carry a creation time of  *)
(* one millisecond's resolution; `readable' tells whether the newest row   *)
(* parses as a snapshot.                                                   *)
(***************************************************************************)
EXTENDS Inventory

CONSTANTS
    Counts,     \* cycle counts an instance opens
    Clerks      \* requests about counts the server works on at one time

ASSUME CountNoneAssumption == None \notin Amounts

VARIABLES count, readable, job

countVars == <<count, readable, job>>
allVars == <<vars, countVars>>

\* An item of a count is a part whose expected quantity is not None; it is
\* counted when its counted quantity is not None.
Snapshot ==
    [status: {"NONE", "OPEN", "COMPLETED", "CANCELLED"}, bin: Bins \cup {None},
     expected: [Parts -> Amounts \cup {None}], counted: [Parts -> Amounts \cup {None}]]

NoCount == [status |-> "NONE", bin |-> None,
            expected |-> [p \in Parts |-> None], counted |-> [p \in Parts |-> None]]

Items(snapshot) == {p \in Parts : snapshot.expected[p] # None}

CountKey(c, p) == <<"cycle", c, p>>

Job == [op: {"RECORD", "COMPLETE", "CANCEL"}, id: Counts, read: Snapshot,
        part: Parts \cup {None}, quantity: Amounts \cup {None}]

CountTypeOK ==
    /\ TypeOK
    /\ count \in [Counts -> Snapshot]
    /\ readable \in [Counts -> BOOLEAN]
    /\ job \in [Clerks -> Job \cup {None}]

---------------------------------------------------------------------------

\* createCycleCount lists the balance rows of the bin; a row exists from the
\* slot's first movement on.
Listed(b, p) == p \notin retired /\ \E m \in movements : m.bin = b /\ m.part = p

CreateCount(c, b) ==
    /\ count[c] = NoCount
    /\ b \notin retired
    /\ \E p \in Parts : Listed(b, p)
    /\ count' = [count EXCEPT ![c] =
            [status |-> "OPEN", bin |-> b,
             expected |-> [p \in Parts |-> IF Listed(b, p) THEN balance[<<b, p>>] ELSE None],
             counted |-> [p \in Parts |-> None]]]
    /\ UNCHANGED <<vars, readable, job>>

\* latestCount: the newest row, if it is a snapshot.
Found(c) == count[c] # NoCount /\ readable[c]

\* The transaction reads the count and finds it open.
Begin(k, op, c, p, q) ==
    /\ job[k] = None
    /\ Found(c)
    /\ count[c].status = "OPEN"
    /\ IF op = "RECORD" THEN p \in Items(count[c]) /\ q \in Amounts
                        ELSE p = None /\ q = None
    /\ job' = [job EXCEPT ![k] =
            [op |-> op, id |-> c, read |-> count[c], part |-> p, quantity |-> q]]
    /\ UNCHANGED <<vars, count, readable>>

\* Fault: serializable transactions on one count do not see each other.
CommitAlone(k) == [job EXCEPT ![k] = None]

\* Clerk k's Serializable transaction commits: the others on its count abort.
CommitSerializable(k) ==
    [j \in Clerks |->
        IF j = k \/ (job[j] # None /\ job[j].id = job[k].id /\ job[j].op # "CANCEL")
        THEN None ELSE job[j]]

\* recordCycleCountItem appends the snapshot it read, with one item counted.
CommitRecord(k) ==
    LET j == job[k]
    IN  /\ j # None /\ j.op = "RECORD"
        /\ count' = [count EXCEPT ![j.id] = [j.read EXCEPT !.counted[j.part] = j.quantity]]
        /\ readable' = [readable EXCEPT ![j.id] = TRUE]
        /\ job' = CommitSerializable(k)
        /\ UNCHANGED vars

\* Fault: stock that moved since the count was opened is not noticed.
NeverStale(snapshot) == FALSE

\* COUNT_STALE: the bin no longer holds what the count was opened on.
Stale(snapshot) ==
    \E p \in Items(snapshot) : balance[<<snapshot.bin, p>>] # snapshot.expected[p]

Adjustment(c, snapshot, p) ==
    MovementRequest(snapshot.bin, p, "ADJUSTMENT", snapshot.counted[p], CountKey(c, p), None)

\* Items counted as expected are not adjusted.
Adjusted(snapshot) ==
    {p \in Items(snapshot) : snapshot.counted[p] # snapshot.expected[p]}

\* Every adjustment passes the checks of applyStockMovement; the items are
\* parts of their own, so no adjustment changes what another one checks.
AdjustmentsAccepted(c, snapshot) ==
    \A p \in Adjusted(snapshot) : Accepts(Adjustment(c, snapshot, p))

PostAdjustments(c, snapshot) ==
    LET bin == snapshot.bin
        parts == Adjusted(snapshot)
        delta == [p \in parts |-> Delta(Adjustment(c, snapshot, p))]
    IN  /\ balance' = [s \in Slots |-> IF s[1] = bin /\ s[2] \in parts
                                       THEN balance[s] + delta[s[2]] ELSE balance[s]]
        /\ onHand' = [p \in Parts |-> IF p \in parts THEN onHand[p] + delta[p] ELSE onHand[p]]
        /\ movements' = movements \cup
            {[bin |-> bin, part |-> p, type |-> "ADJUSTMENT", amount |-> snapshot.counted[p],
              key |-> CountKey(c, p), wo |-> None, delta |-> delta[p]] : p \in parts}

\* completeCycleCount: adjusts the stock, appends the COMPLETED snapshot and then
\* the list of movements, which is the newest row unless the clock ties.
CommitComplete(k) ==
    LET j == job[k]
    IN  /\ j # None /\ j.op = "COMPLETE"
        /\ \A p \in Items(j.read) : j.read.counted[p] # None    \* else COUNT_INCOMPLETE
        /\ ~Stale(j.read)
        /\ AdjustmentsAccepted(j.id, j.read)        \* else COUNT_ADJUSTMENT_BLOCKED
        /\ PostAdjustments(j.id, j.read)
        /\ count' = [count EXCEPT ![j.id] = [j.read EXCEPT !.status = "COMPLETED"]]
        /\ \E tie \in BOOLEAN : readable' = [readable EXCEPT ![j.id] = tie]
        /\ job' = CommitSerializable(k)
        /\ UNCHANGED <<reservation, usage, setting>>

\* cancelCycleCount appends the snapshot it read, now CANCELLED.
CommitCancel(k) ==
    LET j == job[k]
    IN  /\ j # None /\ j.op = "CANCEL"
        /\ count' = [count EXCEPT ![j.id] = [j.read EXCEPT !.status = "CANCELLED"]]
        /\ readable' = [readable EXCEPT ![j.id] = TRUE]
        /\ job' = [job EXCEPT ![k] = None]
        /\ UNCHANGED vars

\* Refused (incomplete, stale, blocked), aborted by the database, or crashed.
EndWithoutCommit(k) ==
    /\ job[k] # None
    /\ job' = [job EXCEPT ![k] = None]
    /\ UNCHANGED <<vars, count, readable>>

---------------------------------------------------------------------------

CountInit ==
    /\ Init
    /\ count = [c \in Counts |-> NoCount]
    /\ readable = [c \in Counts |-> TRUE]
    /\ job = [k \in Clerks |-> None]

CountStep ==
    \/ \E c \in Counts, b \in Bins : CreateCount(c, b)
    \/ \E k \in Clerks :
        \/ \E op \in {"RECORD", "COMPLETE", "CANCEL"}, c \in Counts,
              p \in Parts \cup {None}, q \in Amounts \cup {None} : Begin(k, op, c, p, q)
        \/ CommitRecord(k)
        \/ CommitComplete(k)
        \/ CommitCancel(k)
        \/ EndWithoutCommit(k)

InventoryStep == Next /\ UNCHANGED countVars

CountNext == InventoryStep \/ CountStep

CountSpec == CountInit /\ [][CountNext]_allVars

---------------------------------------------------------------------------
(* Properties.                                                             *)

\* When a count completes, the bin holds exactly what was counted of every
\* item: stock that moved between opening and completing a count is never
\* overwritten nor left out (the stale check and the adjustments together).
CompletionLeavesWhatWasCounted ==
    [][\A c \in Counts :
        count[c].status # "COMPLETED" /\ count'[c].status = "COMPLETED" =>
            \A p \in Items(count'[c]) :
                balance'[<<count'[c].bin, p>>] = count'[c].counted[p]]_allVars

\* An item once counted stays counted while the count is open, although every
\* record rewrites the whole count from an earlier read.
CountedItemsStayCounted ==
    [][\A c \in Counts, p \in Parts :
        count[c].status = "OPEN" /\ count'[c].status = "OPEN" /\ count[c].counted[p] # None
            => count'[c].counted[p] # None]_allVars
============================================================================
