---------------------------- MODULE Inventory ----------------------------
(***************************************************************************)
(* The stock ledger (lib/inventory/stock.ts), the work-order reservations  *)
(* (lib/inventory/reservations.ts) and the consumption of parts by a work  *)
(* order (lib/work-orders/parts.ts and its route).                         *)
(*                                                                         *)
(* Every stock transaction runs at PostgreSQL's Serializable level: it is  *)
(* one action here, and an attempt the database aborts (P2034, P2002)      *)
(* changes nothing and is made again.  What the code does OUTSIDE those    *)
(* transactions is split: a consumption's route checks the work order's    *)
(* status first and commits later, when the status may be another.         *)
(*                                                                         *)
(* Reservations live in the audit log: only the newest snapshot of a       *)
(* reservation counts, so the model keeps that one.  Quantities are        *)
(* naturals (the columns are floats).                                      *)
(***************************************************************************)
EXTENDS Integers, FiniteSets

CONSTANTS
    Bins, Parts, WorkOrders,
    MovementKeys,   \* idempotency keys of stock-movement requests
    UseKeys,        \* idempotency keys of consumption requests
    Handlers,       \* consumption requests the server works on at one time
    Statuses,       \* the work-order statuses an instance exercises
    Archivable,     \* the bins and parts an instance archives
    MaxQuantity,    \* bound: no bin holds, and no request asks for, more
    None

WorkOrderStatus == {"REQUESTED", "APPROVED", "PLANNED", "IN_PROGRESS",
                    "BLOCKED", "COMPLETED", "CANCELLED"}

ASSUME FiniteAssumption ==
    IsFiniteSet(Bins) /\ IsFiniteSet(Parts) /\ IsFiniteSet(WorkOrders)
ASSUME QuantityAssumption == MaxQuantity \in Nat \ {0}
ASSUME StatusAssumption == Statuses \subseteq WorkOrderStatus
ASSUME NoneAssumption == None \notin WorkOrders

Slots == Bins \X Parts      \* one StockBalance row per bin and part
Amounts == 0..MaxQuantity

\* The sum of f, a function into Amounts, counted as its units.
Units(f) == {u \in (DOMAIN f) \X (1..MaxQuantity) : u[2] <= f[u[1]]}
Total(f) == Cardinality(Units(f))

\* What a ledger row is filed under: stockMovement.idempotencyKey.
ClientKey(k) == <<"client", k>>
WorkOrderKey(w, k) == <<"wo", w, k>>

VARIABLES
    balance,        \* StockBalance.quantity of each slot
    onHand,         \* Part.quantityOnHand
    movements,      \* the rows of StockMovement
    reservation,    \* newest StockReservation snapshot, per work order and slot
    consumptions,   \* the rows of WorkOrderPartConsumption
    used,           \* WorkOrderPart.quantity, per work order and part
    woStatus,       \* WorkOrder.status
    retired,        \* archived bins and parts
    pending         \* the consumption each handler has let through its checks

stock == <<balance, onHand, movements>>
usage == <<consumptions, used, pending>>
setting == <<woStatus, retired>>
vars == <<balance, onHand, movements, reservation, consumptions, used,
          woStatus, retired, pending>>

ReservationStatus == {"ACTIVE", "RELEASED", "CONSUMED"}
Reservation == [quantity: Amounts, consumed: Amounts, status: ReservationStatus]
NoReservation == [quantity |-> 0, consumed |-> 0, status |-> "RELEASED"]

MovementType == {"RECEIPT", "ISSUE", "ADJUSTMENT", "WORK_ORDER_CONSUMPTION"}

\* A request to applyStockMovement.  `amount' is the quantity, or the target of
\* an ADJUSTMENT; `wo' is the work order a consumption refers to.
MovementRequest(b, p, type, amount, key, w) ==
    [bin |-> b, part |-> p, type |-> type, amount |-> amount, key |-> key, wo |-> w]

SlotOf(r) == <<r.bin, r.part>>      \* of a request, a ledger row or a consumption

Consumption ==
    [wo: WorkOrders, key: UseKeys, bin: Bins, part: Parts, quantity: Amounts \ {0}]

TypeOK ==
    /\ balance \in [Slots -> Amounts]
    /\ onHand \in [Parts -> Nat]
    /\ \A m \in movements :
        /\ m.bin \in Bins /\ m.part \in Parts /\ m.type \in MovementType
        /\ m.amount \in Amounts /\ m.delta \in Int
    /\ reservation \in [WorkOrders -> [Slots -> Reservation]]
    /\ consumptions \subseteq Consumption
    /\ used \in [WorkOrders -> [Parts -> Nat]]
    /\ woStatus \in [WorkOrders -> Statuses]
    /\ retired \subseteq Archivable
    /\ pending \in [Handlers -> Consumption \cup {None}]

---------------------------------------------------------------------------
(* Reservations: what a work order may still draw from a slot.             *)

Remaining(w, s) ==
    LET r == reservation[w][s]
    IN  IF r.status = "ACTIVE" /\ r.quantity > r.consumed
        THEN r.quantity - r.consumed ELSE 0

\* reservations.reduce: what a set of work orders holds of a slot.
ReservedBy(W, s) == Total([w \in W |-> Remaining(w, s)])

\* Fault: nobody else's reservation is seen.
NothingReserved(w, s) == 0

\* reservedQuantityForOthers: w = None leaves out nobody.
ReservedForOthers(w, s) == ReservedBy(WorkOrders \ {w}, s)

---------------------------------------------------------------------------
(* The ledger: applyStockMovement.                                         *)

Delta(r) ==
    CASE r.type = "ADJUSTMENT" -> r.amount - balance[SlotOf(r)]
      [] r.type = "RECEIPT"    -> r.amount
      [] OTHER                 -> -r.amount

\* Fault: the idempotency key is not looked up.
NeverFiled(r) == FALSE

\* A row already holds this key in this bin: the request is answered with it,
\* or refused when its payload differs; either way nothing is written.
Filed(r) == \E m \in movements : m.bin = r.bin /\ m.key = r.key

Accepts(r) ==
    LET s == SlotOf(r)
        d == Delta(r)
    IN  /\ {r.bin, r.part} \cap retired = {}
        /\ ~Filed(r)
        /\ balance[s] + d \in Amounts           \* the upper end is the bound
        /\ d < 0 => /\ balance[s] - ReservedForOthers(r.wo, s) >= -d
                    /\ onHand[r.part] >= -d     \* else BALANCE_DIVERGENCE

\* Fault: the part's aggregate is left alone.
PostWithoutAggregate(r) ==
    /\ balance' = [balance EXCEPT ![SlotOf(r)] = @ + Delta(r)]
    /\ movements' = movements \cup
        {[bin |-> r.bin, part |-> r.part, type |-> r.type, amount |-> r.amount,
          key |-> r.key, wo |-> r.wo, delta |-> Delta(r)]}
    /\ UNCHANGED onHand

\* Fault: a consumption changes the stock without a ledger row.
PostUnledgered(r) ==
    /\ balance' = [balance EXCEPT ![SlotOf(r)] = @ + Delta(r)]
    /\ onHand' = [onHand EXCEPT ![r.part] = @ + Delta(r)]
    /\ UNCHANGED movements

Post(r) ==
    /\ balance' = [balance EXCEPT ![SlotOf(r)] = @ + Delta(r)]
    /\ onHand' = [onHand EXCEPT ![r.part] = @ + Delta(r)]
    /\ movements' = movements \cup
        {[bin |-> r.bin, part |-> r.part, type |-> r.type, amount |-> r.amount,
          key |-> r.key, wo |-> r.wo, delta |-> Delta(r)]}

\* POST /api/inventory/stock-movements: recordStockMovement.
RecordStockMovement(b, p, type, amount, k) ==
    LET r == MovementRequest(b, p, type, amount, ClientKey(k), None)
    IN  /\ type # "ADJUSTMENT" => amount > 0
        /\ Accepts(r)
        /\ Post(r)
        /\ UNCHANGED <<reservation, usage, setting>>

---------------------------------------------------------------------------
(* Reserving and releasing: POST and DELETE of a work order's reservations. *)

Reserve(w, b, p, q) ==
    LET s == <<b, p>>
        consumed == reservation[w][s].consumed      \* 0 when there is none
    IN  /\ woStatus[w] \notin {"REQUESTED", "COMPLETED", "CANCELLED"}
        /\ {b, p} \cap retired = {}
        /\ balance[s] > 0
        /\ q > 0 /\ q >= consumed
        /\ q - consumed <= balance[s] - ReservedForOthers(w, s)
        /\ reservation' = [reservation EXCEPT ![w][s] =
                [quantity |-> q, consumed |-> consumed,
                 status |-> IF q > consumed THEN "ACTIVE" ELSE "CONSUMED"]]
        /\ UNCHANGED <<stock, usage, setting>>

\* Neither the work order's status nor archived bins and parts are looked at.
Release(w, s) ==
    /\ reservation[w][s].status = "ACTIVE"
    /\ reservation' = [reservation EXCEPT ![w][s].status = "RELEASED"]
    /\ UNCHANGED <<stock, usage, setting>>

---------------------------------------------------------------------------
(* Consuming: POST /api/work-orders/<id>/parts.                            *)

\* Fault: the whole quantity is charged to the reservation.
DrawDownWhole(w, s, q) ==
    LET r == reservation[w][s]
    IN  IF Remaining(w, s) = 0 THEN UNCHANGED reservation
        ELSE reservation' = [reservation EXCEPT ![w][s] =
                [r EXCEPT !.consumed = @ + q,
                          !.status = IF r.consumed + q >= r.quantity
                                     THEN "CONSUMED" ELSE "ACTIVE"]]

\* Fault: the reservation is not drawn down.
DrawDownNothing(w, s, q) == UNCHANGED reservation

\* consumeWorkOrderReservation, inside the consumption's transaction.
DrawDownReservation(w, s, q) ==
    LET r == reservation[w][s]
        left == Remaining(w, s)
        consumed == r.consumed + (IF q < left THEN q ELSE left)
    IN  IF left = 0 THEN UNCHANGED reservation
        ELSE reservation' = [reservation EXCEPT ![w][s] =
                [r EXCEPT !.consumed = consumed,
                          !.status = IF consumed >= r.quantity
                                     THEN "CONSUMED" ELSE "ACTIVE"]]

\* The route reads the work order and lets the request through.
CheckConsumption(h, c) ==
    /\ pending[h] = None
    /\ woStatus[c.wo] \in {"IN_PROGRESS", "BLOCKED"}
    /\ pending' = [pending EXCEPT ![h] = c]
    /\ UNCHANGED <<stock, reservation, consumptions, used, setting>>

\* consumeWorkOrderPart commits.  It does not read the status again.
CommitConsumption(h) ==
    LET c == pending[h]
        s == SlotOf(c)
        r == MovementRequest(c.bin, c.part, "WORK_ORDER_CONSUMPTION", c.quantity,
                             WorkOrderKey(c.wo, c.key), c.wo)
    IN  /\ c # None
        /\ ~ \E d \in consumptions : d.wo = c.wo /\ d.key = c.key
        /\ Accepts(r)
        /\ Post(r)
        /\ DrawDownReservation(c.wo, s, c.quantity)
        /\ used' = [used EXCEPT ![c.wo][c.part] = @ + c.quantity]
        /\ consumptions' = consumptions \cup {c}
        /\ pending' = [pending EXCEPT ![h] = None]
        /\ UNCHANGED setting

\* The request ends with nothing written: its key was used before, the stock
\* refuses it, its transaction was aborted four times, or the process died.
EndWithoutWrite(h) ==
    /\ pending[h] # None
    /\ pending' = [pending EXCEPT ![h] = None]
    /\ UNCHANGED <<stock, reservation, consumptions, used, setting>>

---------------------------------------------------------------------------
(* What others do to the records these transactions read.                  *)

\* PATCH of the work order.  Its handler validates against an earlier read, so
\* from the stock's point of view any status may follow any other.
SetStatus(w, st) ==
    /\ woStatus[w] # st
    /\ woStatus' = [woStatus EXCEPT ![w] = st]
    /\ UNCHANGED <<stock, reservation, usage, retired>>

\* updatePart and updateStockBin: no look at balances or reservations.
SetActive(x, active) ==
    /\ active <=> x \in retired
    /\ retired' = IF active THEN retired \ {x} ELSE retired \cup {x}
    /\ UNCHANGED <<stock, reservation, usage, woStatus>>

---------------------------------------------------------------------------

Init ==
    /\ balance = [s \in Slots |-> 0]
    /\ onHand = [p \in Parts |-> 0]
    /\ movements = {}
    /\ reservation = [w \in WorkOrders |-> [s \in Slots |-> NoReservation]]
    /\ consumptions = {}
    /\ used = [w \in WorkOrders |-> [p \in Parts |-> 0]]
    /\ woStatus \in [WorkOrders -> Statuses]
    /\ retired = {}
    /\ pending = [h \in Handlers |-> None]

StockStep ==
    \E b \in Bins, p \in Parts, type \in MovementType \ {"WORK_ORDER_CONSUMPTION"},
       amount \in Amounts, k \in MovementKeys : RecordStockMovement(b, p, type, amount, k)

ReservationStep ==
    \E w \in WorkOrders, b \in Bins, p \in Parts :
        \/ \E q \in Amounts : Reserve(w, b, p, q)
        \/ Release(w, <<b, p>>)

ConsumptionStep ==
    \E h \in Handlers :
        \/ \E c \in Consumption : CheckConsumption(h, c)
        \/ CommitConsumption(h)
        \/ EndWithoutWrite(h)

SettingStep ==
    \/ \E w \in WorkOrders, st \in Statuses : SetStatus(w, st)
    \/ \E x \in Archivable, active \in BOOLEAN : SetActive(x, active)

Next == StockStep \/ ReservationStep \/ ConsumptionStep \/ SettingStep

Spec == Init /\ [][Next]_vars

---------------------------------------------------------------------------
(* Properties.                                                             *)

\* Work orders never hold more of a part in a bin than the bin contains, by
\* whatever sequence of reservations, resizes, consumptions (within, beyond or
\* without a reservation), issues and adjustments: the checks of stock.ts and
\* reservations.ts each look at one request and rely on all the others.
ReservedWithinStock ==
    \A s \in Slots : ReservedBy(WorkOrders, s) <= balance[s]

\* Part.quantityOnHand is the sum of the part's bins, so that the refusal
\* BALANCE_DIVERGENCE of stock.ts never meets a bin that holds the stock.
AggregateMatchesBins ==
    \A p \in Parts : onHand[p] = Total([b \in Bins |-> balance[<<b, p>>]])

\* Each balance is the sum of its ledger rows, so a retried request is never
\* booked twice, nor a change of stock left out of the ledger.
LedgerExplainsBalances ==
    \A s \in Slots :
        LET rows == {m \in movements : SlotOf(m) = s}
        IN  balance[s] = Total([m \in rows |-> IF m.delta > 0 THEN m.delta ELSE 0])
                       - Total([m \in rows |-> IF m.delta < 0 THEN -m.delta ELSE 0])

\* The consumption rows of a work order, its totals per part, and the ledger
\* tell one story: every consumption has exactly one ledger row, in whatever
\* bin, every such ledger row has its consumption, and the totals add up.
ConsumptionsAreLedgered ==
    /\ \A c \in consumptions :
        {m \in movements : m.key = WorkOrderKey(c.wo, c.key)}
          = {[bin |-> c.bin, part |-> c.part, type |-> "WORK_ORDER_CONSUMPTION",
              amount |-> c.quantity, key |-> WorkOrderKey(c.wo, c.key),
              wo |-> c.wo, delta |-> -c.quantity]}
    /\ \A m \in movements : m.type = "WORK_ORDER_CONSUMPTION" =>
        \E c \in consumptions : m.key = WorkOrderKey(c.wo, c.key)
    /\ \A w \in WorkOrders, p \in Parts :
        used[w][p] = Total([c \in {c \in consumptions : c.wo = w /\ c.part = p} |-> c.quantity])

\* The ledger explains both what there is and what was used.
LedgerTellsAll == LedgerExplainsBalances /\ ConsumptionsAreLedgered

\* What a reservation counts as consumed was consumed by its work order from
\* its slot, and an ACTIVE reservation has something left: resizing, releasing
\* and reserving again never lose or invent a consumption.
ReservationsCountRealUse ==
    \A w \in WorkOrders, s \in Slots :
        LET r == reservation[w][s]
        IN  /\ r.consumed <=
                 Total([c \in {c \in consumptions : c.wo = w /\ SlotOf(c) = s} |-> c.quantity])
            /\ r.status = "ACTIVE" => r.consumed < r.quantity
            /\ r.consumed <= r.quantity

\* Each slot is a StockPool: what is not reserved is free, and what a work
\* order holds is its own.
Pool(s) == INSTANCE StockPool WITH
    free <- balance[s] - ReservedBy(WorkOrders, s),
    held <- [w \in WorkOrders |-> Remaining(w, s)]

SlotsArePools ==
    /\ \A s \in Slots : Pool(s)!Init
    /\ [][\A s \in Slots : [Pool(s)!Next]_(Pool(s)!pool)]_vars
============================================================================
