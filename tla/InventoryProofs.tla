------------------------- MODULE InventoryProofs -------------------------
(***************************************************************************)
(* Proofs about Inventory, CycleCount, Reorder and Purchasing, for any     *)
(* bins, parts, work orders, keys, suppliers and number of handlers.       *)
(***************************************************************************)
EXTENDS CycleCount, Reorder, Purchasing, FiniteSetTheorems, TLAPS

---------------------------------------------------------------------------
(* Totals.                                                                 *)

\* A total of amounts is a natural number.
LEMMA TotalType ==
  ASSUME NEW S, IsFiniteSet(S), NEW f \in [S -> Amounts]
  PROVE  /\ IsFiniteSet(Units(f))
         /\ Total(f) \in Nat
<1>1. IsFiniteSet(1..MaxQuantity)
  BY FS_Interval, QuantityAssumption
<1>2. IsFiniteSet(S \X (1..MaxQuantity))
  BY <1>1, FS_Product
<1>3. Units(f) \in SUBSET (S \X (1..MaxQuantity))
  BY DEF Units
<1>4. IsFiniteSet(Units(f))
  BY <1>2, <1>3, FS_Subset
<1>. QED
  BY <1>4, FS_CardinalityType DEF Total

\* One element's amount can be split off a total.
LEMMA TotalWithout ==
  ASSUME NEW S, IsFiniteSet(S), NEW f \in [S -> Amounts], NEW e \in S
  PROVE  Total(f) = Total([x \in S \ {e} |-> f[x]]) + f[e]
<1>. DEFINE g == [x \in S \ {e} |-> f[x]]
            own == {e} \X (1..f[e])
<1>1. f[e] \in Nat /\ f[e] <= MaxQuantity
  BY QuantityAssumption DEF Amounts
<1>2. IsFiniteSet(own) /\ Cardinality(own) = f[e]
  <2>1. IsFiniteSet({e}) /\ Cardinality({e}) = 1
    BY FS_Singleton
  <2>2. IsFiniteSet(1..f[e]) /\ Cardinality(1..f[e]) = f[e]
    BY <1>1, FS_Interval
  <2>3. IsFiniteSet(own) /\ Cardinality(own) = Cardinality({e}) * Cardinality(1..f[e])
    BY <2>1, <2>2, FS_Product
  <2>. QED
    BY <2>1, <2>2, <2>3, <1>1
<1>3. IsFiniteSet(S \ {e}) /\ g \in [S \ {e} -> Amounts]
  BY FS_Difference
<1>4. IsFiniteSet(Units(g)) /\ Cardinality(Units(g)) \in Nat
  BY <1>3, TotalType DEF Total
<1>5. Units(f) = Units(g) \cup own
  <2>1. ASSUME NEW u \in Units(f) PROVE u \in Units(g) \cup own
    BY <1>1, QuantityAssumption DEF Units
  <2>2. ASSUME NEW u \in Units(g) PROVE u \in Units(f)
    BY DEF Units
  <2>3. ASSUME NEW u \in own PROVE u \in Units(f)
    BY <1>1, QuantityAssumption DEF Units
  <2>. QED
    BY <2>1, <2>2, <2>3
<1>6. Units(g) \cap own = {}
  BY DEF Units
<1>7. Cardinality(Units(f)) = Cardinality(Units(g)) + f[e] - Cardinality(Units(g) \cap own)
  BY <1>2, <1>4, <1>5, FS_Union
<1>8. Cardinality(Units(g) \cap own) = 0
  BY <1>6, FS_EmptySet
<1>9. Cardinality(Units(f)) = Cardinality(Units(g)) + f[e]
  BY <1>1, <1>4, <1>7, <1>8
<1>. QED
  BY <1>9 DEF Total

\* Changing one element's amount changes the total by as much.
LEMMA TotalExcept ==
  ASSUME NEW S, IsFiniteSet(S), NEW f \in [S -> Amounts], NEW e \in S, NEW n \in Amounts
  PROVE  Total([f EXCEPT ![e] = n]) = Total(f) - f[e] + n
<1>. DEFINE g == [f EXCEPT ![e] = n]
<1>1. g \in [S -> Amounts] /\ g[e] = n
  OBVIOUS
<1>2. [x \in S \ {e} |-> g[x]] = [x \in S \ {e} |-> f[x]]
  OBVIOUS
<1>3. /\ Total(f) = Total([x \in S \ {e} |-> f[x]]) + f[e]
      /\ Total(g) = Total([x \in S \ {e} |-> f[x]]) + n
  <2>1. ASSUME NEW h \in [S -> Amounts]
        PROVE  Total(h) = Total([x \in S \ {e} |-> h[x]]) + h[e]
    BY TotalWithout
  <2>2. Total(g) = Total([x \in S \ {e} |-> g[x]]) + g[e]
    BY <1>1, <2>1
  <2>. QED
    BY <1>1, <1>2, <2>1, <2>2
<1>4. IsFiniteSet(S \ {e}) /\ [x \in S \ {e} |-> f[x]] \in [S \ {e} -> Amounts]
  BY FS_Difference
<1>5. Total([x \in S \ {e} |-> f[x]]) \in Nat
  BY <1>4, TotalType
<1>6. f[e] \in Int /\ n \in Int
  BY QuantityAssumption DEF Amounts
<1>. QED
  BY <1>3, <1>5, <1>6

\* Nothing adds up to nothing.
LEMMA TotalZero ==
  ASSUME NEW S, NEW f, f = [x \in S |-> 0]
  PROVE  Total(f) = 0
<1>1. Units(f) = {}
  BY QuantityAssumption DEF Units
<1>. QED
  BY <1>1, FS_EmptySet DEF Total

---------------------------------------------------------------------------
(* Types.                                                                  *)

IsRequest(r) ==
    /\ r.bin \in Bins /\ r.part \in Parts /\ r.type \in MovementType
    /\ r.amount \in Amounts /\ r.wo \in WorkOrders \cup {None}

\* Amounts are natural numbers.
LEMMA AmountsAreNaturals ==
  /\ Amounts \subseteq Nat
  /\ 0 \in Amounts
  /\ \A n \in Amounts : n <= MaxQuantity
  /\ \A n \in Amounts, m \in Nat : m <= n => m \in Amounts
  BY QuantityAssumption DEF Amounts

\* A movement's effect on its bin is an integer.
LEMMA DeltaType ==
  ASSUME TypeOK, NEW r, IsRequest(r)
  PROVE  Delta(r) \in Int
<1>1. SlotOf(r) \in Slots
  BY DEF IsRequest, Slots, SlotOf
<1>2. balance[SlotOf(r)] \in Amounts /\ r.amount \in Amounts
  BY <1>1 DEF TypeOK, IsRequest
<1>3. balance[SlotOf(r)] \in Int /\ r.amount \in Int
  BY <1>2, QuantityAssumption DEF Amounts
<1>. QED
  BY <1>3 DEF Delta

\* An accepted movement leaves the three stock tables well typed.
LEMMA PostType ==
  ASSUME TypeOK, NEW r, IsRequest(r), Accepts(r), Post(r)
  PROVE  /\ balance' \in [Slots -> Amounts]
         /\ onHand' \in [Parts -> Nat]
         /\ \A m \in movements' :
              /\ m.bin \in Bins /\ m.part \in Parts /\ m.type \in MovementType
              /\ m.amount \in Amounts /\ m.delta \in Int
<1>. DEFINE s == SlotOf(r)
            row == [bin |-> r.bin, part |-> r.part, type |-> r.type, amount |-> r.amount,
                    key |-> r.key, wo |-> r.wo, delta |-> Delta(r)]
<1>1. s \in Slots /\ r.part \in Parts
  BY DEF IsRequest, Slots, SlotOf
<1>2. Delta(r) \in Int
  BY DeltaType
<1>3. balance' \in [Slots -> Amounts]
  BY <1>1 DEF TypeOK, Accepts, Post
<1>4. onHand' \in [Parts -> Nat]
  <2>1. onHand[r.part] + Delta(r) \in Nat
    BY <1>1, <1>2 DEF TypeOK, Accepts
  <2>. QED
    BY <1>1, <2>1 DEF TypeOK, Post
<1>5. movements' = movements \cup {row}
  BY DEF Post
<1>6. /\ row.bin \in Bins /\ row.part \in Parts /\ row.type \in MovementType
      /\ row.amount \in Amounts /\ row.delta \in Int
  BY <1>2 DEF IsRequest
<1>7. ASSUME NEW m \in movements'
      PROVE  /\ m.bin \in Bins /\ m.part \in Parts /\ m.type \in MovementType
             /\ m.amount \in Amounts /\ m.delta \in Int
  <2>. HIDE DEF row
  <2>1. CASE m \in movements
    BY <2>1 DEF TypeOK
  <2>2. CASE m = row
    BY <1>6, <2>2
  <2>. QED
    BY <1>5, <2>1, <2>2
<1>. QED
  BY <1>3, <1>4, <1>7

\* What a reservation leaves to draw is an amount.
LEMMA RemainingType ==
  ASSUME TypeOK, NEW w \in WorkOrders, NEW s \in Slots
  PROVE  /\ Remaining(w, s) \in Amounts
         /\ reservation[w][s] \in Reservation
<1>1. reservation[w][s] \in Reservation
  BY DEF TypeOK
<1>2. /\ reservation[w][s].quantity \in Amounts
      /\ reservation[w][s].consumed \in Amounts
  BY <1>1 DEF Reservation
<1>. QED
  BY <1>1, <1>2, AmountsAreNaturals DEF Remaining, Amounts

\* Drawing down a reservation leaves a reservation.
LEMMA DrawDownType ==
  ASSUME TypeOK, NEW w \in WorkOrders, NEW s \in Slots, NEW q \in Amounts,
         DrawDownReservation(w, s, q)
  PROVE  reservation' \in [WorkOrders -> [Slots -> Reservation]]
<1>. DEFINE r == reservation[w][s]
            left == Remaining(w, s)
            consumed == r.consumed + (IF q < left THEN q ELSE left)
            drawn == [r EXCEPT !.consumed = consumed,
                               !.status = IF consumed >= r.quantity
                                          THEN "CONSUMED" ELSE "ACTIVE"]
<1>1. CASE left = 0
  BY <1>1 DEF TypeOK, DrawDownReservation
<1>2. CASE left # 0
  <2>1. r \in Reservation /\ r.quantity \in Amounts /\ r.consumed \in Amounts
    BY RemainingType DEF Reservation
  <2>2. left = r.quantity - r.consumed /\ r.quantity > r.consumed
    BY <1>2 DEF Remaining
  <2>3. consumed \in Amounts
    <3>1. r.quantity \in Nat /\ r.consumed \in Nat /\ q \in Nat
      BY <2>1, AmountsAreNaturals
    <3>2. consumed \in Nat /\ consumed <= r.quantity
      BY <2>2, <3>1
    <3>. QED
      BY <2>1, <3>2, AmountsAreNaturals
  <2>4. drawn \in Reservation
    BY <2>1, <2>3 DEF Reservation, ReservationStatus
  <2>5. reservation' = [reservation EXCEPT ![w][s] = drawn]
    BY <1>2 DEF DrawDownReservation
  <2>. QED
    BY <2>4, <2>5 DEF TypeOK
<1>. QED
  BY <1>1, <1>2

\* Every step of the inventory keeps its types.
LEMMA StepKeepsTypes ==
  ASSUME TypeOK, [Next]_vars
  PROVE  TypeOK'
<1>1. CASE StockStep
  <2>1. PICK b \in Bins, p \in Parts, type \in MovementType \ {"WORK_ORDER_CONSUMPTION"},
             amount \in Amounts, k \in MovementKeys : RecordStockMovement(b, p, type, amount, k)
    BY <1>1 DEF StockStep
  <2>. DEFINE r == MovementRequest(b, p, type, amount, ClientKey(k), None)
  <2>2. IsRequest(r)
    BY DEF IsRequest, MovementRequest
  <2>3. Accepts(r) /\ Post(r) /\ UNCHANGED <<reservation, usage, setting>>
    BY <2>1 DEF RecordStockMovement
  <2>. HIDE DEF r
  <2>. QED
    BY <2>2, <2>3, PostType DEF TypeOK, usage, setting
<1>2. ASSUME NEW w \in WorkOrders, NEW b \in Bins, NEW p \in Parts, NEW q \in Amounts,
             Reserve(w, b, p, q)
      PROVE  TypeOK'
  <2>. DEFINE s == <<b, p>>
  <2>1. s \in Slots
    BY DEF Slots
  <2>2. reservation[w][s] \in Reservation
    BY <2>1, RemainingType
  <2>3. [quantity |-> q, consumed |-> reservation[w][s].consumed,
         status |-> IF q > reservation[w][s].consumed THEN "ACTIVE" ELSE "CONSUMED"]
        \in Reservation
    BY <2>2 DEF Reservation, ReservationStatus
  <2>4. reservation' = [reservation EXCEPT ![w][s] =
          [quantity |-> q, consumed |-> reservation[w][s].consumed,
           status |-> IF q > reservation[w][s].consumed THEN "ACTIVE" ELSE "CONSUMED"]]
    BY <1>2 DEF Reserve
  <2>5. reservation' \in [WorkOrders -> [Slots -> Reservation]]
    BY <2>1, <2>3, <2>4 DEF TypeOK
  <2>. QED
    BY <1>2, <2>5 DEF TypeOK, Reserve, stock, usage, setting
<1>3. ASSUME NEW w \in WorkOrders, NEW b \in Bins, NEW p \in Parts, Release(w, <<b, p>>)
      PROVE  TypeOK'
  <2>. DEFINE s == <<b, p>>
  <2>1. s \in Slots
    BY DEF Slots
  <2>2. [reservation[w][s] EXCEPT !.status = "RELEASED"] \in Reservation
    BY <2>1, RemainingType DEF Reservation, ReservationStatus
  <2>3. reservation' = [reservation EXCEPT ![w][s] =
                          [reservation[w][s] EXCEPT !.status = "RELEASED"]]
    BY <1>3, <2>1 DEF Release, TypeOK
  <2>4. reservation' \in [WorkOrders -> [Slots -> Reservation]]
    BY <2>1, <2>2, <2>3 DEF TypeOK
  <2>. QED
    BY <1>3, <2>4 DEF TypeOK, Release, stock, usage, setting
<1>4. ASSUME NEW h \in Handlers, NEW c \in Consumption, CheckConsumption(h, c)
      PROVE  TypeOK'
  BY <1>4 DEF TypeOK, CheckConsumption, stock, setting
<1>5. ASSUME NEW h \in Handlers, CommitConsumption(h)
      PROVE  TypeOK'
  <2>. DEFINE c == pending[h]
              r == MovementRequest(c.bin, c.part, "WORK_ORDER_CONSUMPTION", c.quantity,
                                   WorkOrderKey(c.wo, c.key), c.wo)
  <2>1. c \in Consumption
    BY <1>5 DEF CommitConsumption, TypeOK
  <2>2. /\ c.wo \in WorkOrders /\ c.bin \in Bins /\ c.part \in Parts
        /\ c.quantity \in Amounts /\ SlotOf(c) \in Slots
    BY <2>1 DEF Consumption, SlotOf, Slots
  <2>3. IsRequest(r)
    BY <2>2 DEF IsRequest, MovementRequest, MovementType
  <2>4. /\ Accepts(r) /\ Post(r)
        /\ DrawDownReservation(c.wo, SlotOf(c), c.quantity)
        /\ used' = [used EXCEPT ![c.wo][c.part] = @ + c.quantity]
        /\ consumptions' = consumptions \cup {c}
        /\ pending' = [pending EXCEPT ![h] = None]
        /\ UNCHANGED setting
    BY <1>5 DEF CommitConsumption
  <2>5. /\ balance' \in [Slots -> Amounts]
        /\ onHand' \in [Parts -> Nat]
        /\ \A m \in movements' :
            /\ m.bin \in Bins /\ m.part \in Parts /\ m.type \in MovementType
            /\ m.amount \in Amounts /\ m.delta \in Int
    <3>. HIDE DEF r
    <3>. QED
      BY <2>3, <2>4, PostType
  <2>6. reservation' \in [WorkOrders -> [Slots -> Reservation]]
    BY <2>2, <2>4, DrawDownType
  <2>7. used' \in [WorkOrders -> [Parts -> Nat]]
    <3>1. used[c.wo][c.part] + c.quantity \in Nat
      BY <2>2, QuantityAssumption DEF Amounts, TypeOK
    <3>. QED
      BY <2>2, <2>4, <3>1 DEF TypeOK
  <2>8. consumptions' \subseteq Consumption /\ pending' \in [Handlers -> Consumption \cup {None}]
    BY <2>1, <2>4 DEF TypeOK
  <2>9. woStatus' \in [WorkOrders -> Statuses] /\ retired' \subseteq Archivable
    BY <2>4 DEF TypeOK, setting
  <2>. QED
    BY <2>5, <2>6, <2>7, <2>8, <2>9 DEF TypeOK
<1>6. ASSUME NEW h \in Handlers, EndWithoutWrite(h)
      PROVE  TypeOK'
  BY <1>6 DEF TypeOK, EndWithoutWrite, stock, setting
<1>7. CASE SettingStep
  BY <1>7 DEF TypeOK, SettingStep, SetStatus, SetActive, stock, usage
<1>8. CASE UNCHANGED vars
  BY <1>8 DEF TypeOK, vars
<1>. QED
  BY <1>1, <1>2, <1>3, <1>4, <1>5, <1>6, <1>7, <1>8
  DEF Next, ReservationStep, ConsumptionStep

\* Every state of the inventory is well typed.
THEOREM TypeCorrect == Spec => []TypeOK
<1>1. Init => TypeOK
  <2>. SUFFICES ASSUME Init PROVE TypeOK
    OBVIOUS
  <2>1. NoReservation \in Reservation
    BY AmountsAreNaturals DEF NoReservation, Reservation, ReservationStatus
  <2>. QED
    BY <2>1, AmountsAreNaturals DEF Init, TypeOK
<1>2. TypeOK /\ [Next]_vars => TypeOK'
  BY StepKeepsTypes
<1>. QED
  BY <1>1, <1>2, PTL DEF Spec

---------------------------------------------------------------------------
(* Reservations stay within the stock.                                     *)

Held(s) == [w \in WorkOrders |-> Remaining(w, s)]

\* What is held of a slot is one work order's share and the others'.
LEMMA ReservedSplit ==
  ASSUME TypeOK, NEW s \in Slots
  PROVE  /\ Held(s) \in [WorkOrders -> Amounts]
         /\ ReservedBy(WorkOrders, s) = Total(Held(s))
         /\ ReservedBy(WorkOrders, s) \in Nat
         /\ ReservedForOthers(None, s) = ReservedBy(WorkOrders, s)
         /\ \A w \in WorkOrders :
              /\ ReservedForOthers(w, s) \in Nat
              /\ ReservedBy(WorkOrders, s) = ReservedForOthers(w, s) + Remaining(w, s)
<1>1. Held(s) \in [WorkOrders -> Amounts]
  BY RemainingType DEF Held
<1>2. ReservedBy(WorkOrders, s) = Total(Held(s))
  BY DEF ReservedBy, Held
<1>3. ReservedBy(WorkOrders, s) \in Nat
  BY <1>1, <1>2, TotalType, FiniteAssumption
<1>4. ReservedForOthers(None, s) = ReservedBy(WorkOrders, s)
  <2>1. WorkOrders \ {None} = WorkOrders
    BY NoneAssumption
  <2>. QED
    BY <2>1 DEF ReservedForOthers
<1>5. ASSUME NEW w \in WorkOrders
      PROVE  /\ ReservedForOthers(w, s) \in Nat
             /\ ReservedBy(WorkOrders, s) = ReservedForOthers(w, s) + Remaining(w, s)
  <2>. DEFINE others == [x \in WorkOrders \ {w} |-> Held(s)[x]]
  <2>1. others = [x \in WorkOrders \ {w} |-> Remaining(x, s)]
    BY DEF Held
  <2>2. ReservedForOthers(w, s) = Total(others)
    BY <2>1 DEF ReservedForOthers, ReservedBy
  <2>3. IsFiniteSet(WorkOrders \ {w}) /\ others \in [WorkOrders \ {w} -> Amounts]
    BY <1>1, FiniteAssumption, FS_Difference
  <2>4. Total(others) \in Nat
    BY <2>3, TotalType
  <2>5. Total(Held(s)) = Total(others) + Held(s)[w]
    BY <1>1, FiniteAssumption, TotalWithout
  <2>6. Held(s)[w] = Remaining(w, s)
    BY DEF Held
  <2>. QED
    BY <1>2, <2>2, <2>4, <2>5, <2>6
<1>. QED
  BY <1>1, <1>2, <1>3, <1>4, <1>5

\* A step that leaves the reservations alone leaves what is held alone.
LEMMA NoReservationChanged ==
  ASSUME UNCHANGED reservation, NEW s \in Slots
  PROVE  /\ ReservedBy(WorkOrders, s)' = ReservedBy(WorkOrders, s)
         /\ Held(s)' = Held(s)
  BY DEF ReservedBy, Remaining, Held

\* A step that rewrites one reservation changes what is held of its slot by as
\* much, and of no other slot.
LEMMA OneReservationChanged ==
  ASSUME TypeOK, NEW w \in WorkOrders, NEW s \in Slots, NEW new \in Reservation,
         reservation' = [reservation EXCEPT ![w][s] = new]
  PROVE  /\ ReservedBy(WorkOrders, s)'
              = ReservedBy(WorkOrders, s) - Remaining(w, s) + Remaining(w, s)'
         /\ Held(s)' = [Held(s) EXCEPT ![w] = Remaining(w, s)']
         /\ \A t \in Slots \ {s} : /\ ReservedBy(WorkOrders, t)' = ReservedBy(WorkOrders, t)
                                   /\ Held(t)' = Held(t)
<1>1. reservation'[w][s] = new
  BY DEF TypeOK
<1>2. \A x \in WorkOrders, t \in Slots :
        x # w \/ t # s => reservation'[x][t] = reservation[x][t]
  BY DEF TypeOK
<1>3. \A x \in WorkOrders, t \in Slots :
        x # w \/ t # s => Remaining(x, t)' = Remaining(x, t)
  BY <1>2 DEF Remaining
<1>4. Held(s)' = [Held(s) EXCEPT ![w] = Remaining(w, s)']
  BY <1>3 DEF Held
<1>5. ReservedBy(WorkOrders, s)'
        = ReservedBy(WorkOrders, s) - Remaining(w, s) + Remaining(w, s)'
  <2>1. Remaining(w, s)' \in Amounts
    <3>1. new.quantity \in Amounts /\ new.consumed \in Amounts
      BY DEF Reservation
    <3>. QED
      BY <1>1, <3>1, QuantityAssumption DEF Remaining, Amounts
  <2>2. Held(s) \in [WorkOrders -> Amounts] /\ ReservedBy(WorkOrders, s) = Total(Held(s))
    BY ReservedSplit
  <2>3. Total([Held(s) EXCEPT ![w] = Remaining(w, s)'])
          = Total(Held(s)) - Held(s)[w] + Remaining(w, s)'
    <3>1. \A f \in [WorkOrders -> Amounts], n \in Amounts :
            Total([f EXCEPT ![w] = n]) = Total(f) - f[w] + n
      BY FiniteAssumption, TotalExcept
    <3>. QED
      BY <2>1, <2>2, <3>1
  <2>4. ReservedBy(WorkOrders, s)' = Total(Held(s)')
    BY DEF ReservedBy, Held
  <2>5. Held(s)[w] = Remaining(w, s)
    BY DEF Held
  <2>. QED
    BY <1>4, <2>2, <2>3, <2>4, <2>5
<1>6. ASSUME NEW t \in Slots \ {s}
      PROVE  /\ ReservedBy(WorkOrders, t)' = ReservedBy(WorkOrders, t)
             /\ Held(t)' = Held(t)
  <2>1. Held(t)' = Held(t)
    BY <1>3 DEF Held
  <2>2. ReservedBy(WorkOrders, t)' = Total(Held(t)') /\ ReservedBy(WorkOrders, t) = Total(Held(t))
    BY DEF ReservedBy, Held
  <2>. QED
    BY <2>1, <2>2
<1>. QED
  BY <1>4, <1>5, <1>6

\* A movement that is accepted takes only stock that nobody else has reserved.
LEMMA AcceptedLeavesReserved ==
  ASSUME TypeOK, NEW r, IsRequest(r), Accepts(r), Post(r), NEW s \in Slots
  PROVE  IF s = SlotOf(r)
         THEN /\ balance'[s] = balance[s] + Delta(r)
              /\ Delta(r) < 0 => balance'[s] >= ReservedForOthers(r.wo, s)
         ELSE balance'[s] = balance[s]
<1>1. Delta(r) \in Int /\ balance[s] \in Int
  BY DeltaType, QuantityAssumption DEF TypeOK, Amounts
<1>2. CASE s # SlotOf(r)
  BY <1>2 DEF Post, TypeOK
<1>3. CASE s = SlotOf(r)
  <2>1. balance'[s] = balance[s] + Delta(r)
    BY <1>3 DEF Post, TypeOK
  <2>2. Delta(r) < 0 => balance[s] - ReservedForOthers(r.wo, s) >= -Delta(r)
    BY <1>3 DEF Accepts
  <2>3. ReservedForOthers(r.wo, s) \in Int
    BY ReservedSplit DEF IsRequest
  <2>. QED
    BY <1>1, <1>3, <2>1, <2>2, <2>3
<1>. QED
  BY <1>2, <1>3

\* Drawing q from a reservation leaves what is beyond q of it.
LEMMA DrawDownRemaining ==
  ASSUME TypeOK, NEW w \in WorkOrders, NEW s \in Slots, NEW q \in Amounts,
         DrawDownReservation(w, s, q)
  PROVE  LET left == Remaining(w, s)
             rest == IF q < left THEN left - q ELSE 0
         IN  /\ ReservedBy(WorkOrders, s)' = ReservedBy(WorkOrders, s) - left + rest
             /\ Held(s)' = [Held(s) EXCEPT ![w] = rest]
             /\ \A t \in Slots \ {s} : /\ ReservedBy(WorkOrders, t)' = ReservedBy(WorkOrders, t)
                                       /\ Held(t)' = Held(t)
<1>. DEFINE r == reservation[w][s]
            left == Remaining(w, s)
            rest == IF q < left THEN left - q ELSE 0
            consumed == r.consumed + (IF q < left THEN q ELSE left)
            drawn == [r EXCEPT !.consumed = consumed,
                               !.status = IF consumed >= r.quantity
                                          THEN "CONSUMED" ELSE "ACTIVE"]
<1>1. /\ r \in Reservation /\ r.quantity \in Nat /\ r.consumed \in Nat
      /\ q \in Nat /\ left \in Nat
  BY RemainingType, QuantityAssumption DEF Reservation, Amounts
<1>2. ReservedBy(WorkOrders, s) \in Nat
  BY ReservedSplit
<1>3. CASE left = 0
  <2>1. UNCHANGED reservation /\ rest = 0
    BY <1>1, <1>3 DEF DrawDownReservation
  <2>2. \A t \in Slots : /\ ReservedBy(WorkOrders, t)' = ReservedBy(WorkOrders, t)
                         /\ Held(t)' = Held(t)
    BY <2>1, NoReservationChanged
  <2>3. Held(s) = [Held(s) EXCEPT ![w] = 0]
    BY <1>3 DEF Held
  <2>. QED
    BY <1>2, <1>3, <2>1, <2>2, <2>3
<1>4. CASE left # 0
  <2>1. left = r.quantity - r.consumed /\ r.quantity > r.consumed
    BY <1>4 DEF Remaining
  <2>2. reservation' = [reservation EXCEPT ![w][s] = drawn]
    BY <1>4 DEF DrawDownReservation
  <2>3. reservation' \in [WorkOrders -> [Slots -> Reservation]]
    BY DrawDownType
  <2>4. reservation'[w][s] = drawn
    BY <2>2 DEF TypeOK
  <2>5. drawn \in Reservation
    BY <2>3, <2>4
  <2>6. /\ drawn.quantity = r.quantity /\ drawn.consumed = consumed
        /\ drawn.status = IF consumed >= r.quantity THEN "CONSUMED" ELSE "ACTIVE"
    BY <1>1 DEF Reservation
  <2>7. Remaining(w, s)' = rest
    BY <1>1, <2>1, <2>4, <2>6 DEF Remaining
  <2>. HIDE DEF drawn
  <2>8. /\ ReservedBy(WorkOrders, s)'
            = ReservedBy(WorkOrders, s) - Remaining(w, s) + Remaining(w, s)'
        /\ Held(s)' = [Held(s) EXCEPT ![w] = Remaining(w, s)']
        /\ \A t \in Slots \ {s} : /\ ReservedBy(WorkOrders, t)' = ReservedBy(WorkOrders, t)
                                  /\ Held(t)' = Held(t)
    BY <2>2, <2>5, OneReservationChanged
  <2>. QED
    BY <2>7, <2>8
<1>. QED
  BY <1>3, <1>4

\* Every step of the inventory keeps the reservations within the stock.
LEMMA StepKeepsReserved ==
  ASSUME TypeOK, ReservedWithinStock, [Next]_vars
  PROVE  ReservedWithinStock'
<1>. SUFFICES ASSUME NEW s \in Slots
              PROVE  ReservedBy(WorkOrders, s)' <= balance'[s]
  BY DEF ReservedWithinStock
<1>. USE QuantityAssumption
<1>1. ReservedBy(WorkOrders, s) <= balance[s] /\ balance[s] \in Nat
  BY DEF ReservedWithinStock, TypeOK, Amounts
<1>2. ReservedBy(WorkOrders, s) \in Nat
  BY ReservedSplit
<1>3. CASE UNCHANGED reservation /\ UNCHANGED balance
  BY <1>1, <1>3, NoReservationChanged
<1>4. CASE StockStep
  <2>1. PICK b \in Bins, p \in Parts, type \in MovementType \ {"WORK_ORDER_CONSUMPTION"},
             amount \in Amounts, k \in MovementKeys : RecordStockMovement(b, p, type, amount, k)
    BY <1>4 DEF StockStep
  <2>. DEFINE r == MovementRequest(b, p, type, amount, ClientKey(k), None)
  <2>2. IsRequest(r) /\ r.wo = None
    BY DEF IsRequest, MovementRequest
  <2>3. Accepts(r) /\ Post(r) /\ UNCHANGED reservation
    BY <2>1 DEF RecordStockMovement
  <2>. HIDE DEF r
  <2>4. ReservedForOthers(None, s) = ReservedBy(WorkOrders, s)
    BY ReservedSplit
  <2>5. ReservedBy(WorkOrders, s)' = ReservedBy(WorkOrders, s)
    BY <2>3, NoReservationChanged
  <2>6. Delta(r) \in Int
    BY <2>2, DeltaType
  <2>7. IF s = SlotOf(r)
        THEN /\ balance'[s] = balance[s] + Delta(r)
             /\ Delta(r) < 0 => balance'[s] >= ReservedForOthers(r.wo, s)
        ELSE balance'[s] = balance[s]
    BY <2>2, <2>3, AcceptedLeavesReserved
  <2>. QED
    BY <1>1, <1>2, <2>2, <2>4, <2>5, <2>6, <2>7
<1>5. ASSUME NEW w \in WorkOrders, NEW b \in Bins, NEW p \in Parts, NEW q \in Amounts,
             Reserve(w, b, p, q)
      PROVE  ReservedBy(WorkOrders, s)' <= balance'[s]
  <2>. DEFINE t == <<b, p>>
              consumed == reservation[w][t].consumed
              new == [quantity |-> q, consumed |-> consumed,
                      status |-> IF q > consumed THEN "ACTIVE" ELSE "CONSUMED"]
  <2>1. t \in Slots /\ consumed \in Amounts
    BY RemainingType DEF Slots, Reservation
  <2>2. new \in Reservation
    BY <2>1 DEF Reservation, ReservationStatus
  <2>3. /\ reservation' = [reservation EXCEPT ![w][t] = new]
        /\ q >= consumed /\ q - consumed <= balance[t] - ReservedForOthers(w, t)
        /\ UNCHANGED balance
    BY <1>5 DEF Reserve, stock
  <2>4. Remaining(w, t)' = q - consumed
    <3>1. reservation'[w][t] = new
      BY <2>1, <2>3 DEF TypeOK
    <3>. QED
      BY <2>1, <2>3, <3>1 DEF Remaining, Amounts
  <2>5. CASE s = t
    <3>1. ReservedBy(WorkOrders, t)'
            = ReservedBy(WorkOrders, t) - Remaining(w, t) + Remaining(w, t)'
      <4>. HIDE DEF t, new
      <4>. QED
        BY <2>1, <2>2, <2>3, OneReservationChanged
    <3>2. /\ ReservedForOthers(w, t) \in Nat
          /\ ReservedBy(WorkOrders, t) = ReservedForOthers(w, t) + Remaining(w, t)
      BY <2>1, ReservedSplit
    <3>3. Remaining(w, t) \in Nat /\ consumed \in Nat /\ q \in Nat
      BY <2>1, RemainingType DEF Amounts
    <3>. HIDE DEF t, consumed
    <3>. QED
      BY <1>1, <2>3, <2>4, <2>5, <3>1, <3>2, <3>3
  <2>6. CASE s # t
    <3>1. ReservedBy(WorkOrders, s)' = ReservedBy(WorkOrders, s)
      <4>. HIDE DEF t, new
      <4>. QED
        BY <2>1, <2>2, <2>3, <2>6, OneReservationChanged
    <3>. QED
      BY <1>1, <2>3, <3>1
  <2>. QED
    BY <2>5, <2>6
<1>6. ASSUME NEW w \in WorkOrders, NEW b \in Bins, NEW p \in Parts, Release(w, <<b, p>>)
      PROVE  ReservedBy(WorkOrders, s)' <= balance'[s]
  <2>. DEFINE t == <<b, p>>
              new == [reservation[w][t] EXCEPT !.status = "RELEASED"]
  <2>1. t \in Slots
    BY DEF Slots
  <2>2. new \in Reservation /\ new.status = "RELEASED"
    BY <2>1, RemainingType DEF Reservation, ReservationStatus
  <2>3. reservation' = [reservation EXCEPT ![w][t] = new] /\ UNCHANGED balance
    BY <1>6, <2>1 DEF Release, TypeOK, stock
  <2>4. Remaining(w, t)' = 0
    <3>1. reservation'[w][t] = new
      BY <2>1, <2>3 DEF TypeOK
    <3>. QED
      BY <2>2, <3>1 DEF Remaining
  <2>5. Remaining(w, t) \in Nat
    BY <2>1, RemainingType DEF Amounts
  <2>. HIDE DEF t, new
  <2>6. /\ ReservedBy(WorkOrders, t)'
            = ReservedBy(WorkOrders, t) - Remaining(w, t) + Remaining(w, t)'
        /\ \A u \in Slots \ {t} : ReservedBy(WorkOrders, u)' = ReservedBy(WorkOrders, u)
    BY <2>1, <2>2, <2>3, OneReservationChanged
  <2>. QED
    BY <1>1, <1>2, <2>1, <2>3, <2>4, <2>5, <2>6
<1>7. ASSUME NEW h \in Handlers, CommitConsumption(h)
      PROVE  ReservedBy(WorkOrders, s)' <= balance'[s]
  <2>1. PICK c \in Consumption : pending[h] = c
    BY <1>7 DEF CommitConsumption, TypeOK
  <2>. DEFINE r == MovementRequest(c.bin, c.part, "WORK_ORDER_CONSUMPTION", c.quantity,
                                   WorkOrderKey(c.wo, c.key), c.wo)
              left == Remaining(c.wo, SlotOf(c))
  <2>2. /\ c.wo \in WorkOrders /\ c.bin \in Bins /\ c.part \in Parts
        /\ c.quantity \in Amounts /\ SlotOf(c) \in Slots
    BY <2>1 DEF Consumption, SlotOf, Slots
  <2>3. /\ IsRequest(r) /\ r.wo = c.wo /\ SlotOf(r) = SlotOf(c)
        /\ Delta(r) = -c.quantity
    BY <2>2 DEF IsRequest, MovementRequest, MovementType, SlotOf, Delta
  <2>4. Accepts(r) /\ Post(r) /\ DrawDownReservation(c.wo, SlotOf(c), c.quantity)
    BY <1>7, <2>1 DEF CommitConsumption
  <2>. HIDE DEF r
  <2>5. IF s = SlotOf(r)
        THEN /\ balance'[s] = balance[s] + Delta(r)
             /\ Delta(r) < 0 => balance'[s] >= ReservedForOthers(r.wo, s)
        ELSE balance'[s] = balance[s]
    BY <2>3, <2>4, AcceptedLeavesReserved
  <2>6. /\ ReservedBy(WorkOrders, SlotOf(c))' = ReservedBy(WorkOrders, SlotOf(c)) - left
              + (IF c.quantity < left THEN left - c.quantity ELSE 0)
        /\ \A t \in Slots \ {SlotOf(c)} : ReservedBy(WorkOrders, t)' = ReservedBy(WorkOrders, t)
    BY <2>2, <2>4, DrawDownRemaining
  <2>7. CASE s = SlotOf(c)
    <3>1. /\ ReservedForOthers(c.wo, s) \in Nat
          /\ ReservedBy(WorkOrders, s) = ReservedForOthers(c.wo, s) + left
      BY <2>2, <2>7, ReservedSplit
    <3>2. left \in Nat /\ c.quantity \in Nat /\ c.quantity # 0
      BY <2>1, <2>2, RemainingType DEF Amounts, Consumption
    <3>. HIDE DEF left
    <3>. QED
      BY <1>1, <1>2, <2>3, <2>5, <2>6, <2>7, <3>1, <3>2
  <2>8. CASE s # SlotOf(c)
    BY <1>1, <2>3, <2>5, <2>6, <2>8
  <2>. QED
    BY <2>7, <2>8
<1>8. ASSUME NEW h \in Handlers,
             (\E c \in Consumption : CheckConsumption(h, c)) \/ EndWithoutWrite(h)
      PROVE  UNCHANGED reservation /\ UNCHANGED balance
  BY <1>8 DEF CheckConsumption, EndWithoutWrite, stock
<1>9. CASE SettingStep \/ UNCHANGED vars
  BY <1>3, <1>9 DEF SettingStep, SetStatus, SetActive, stock, vars
<1>. QED
  BY <1>3, <1>4, <1>5, <1>6, <1>7, <1>8, <1>9
  DEF Next, ReservationStep, ConsumptionStep

\* At first nothing is reserved.
LEMMA NothingReservedAtFirst ==
  ASSUME Init
  PROVE  ReservedWithinStock
<1>. SUFFICES ASSUME NEW s \in Slots
              PROVE  ReservedBy(WorkOrders, s) <= balance[s]
  BY DEF ReservedWithinStock
<1>1. [w \in WorkOrders |-> Remaining(w, s)] = [w \in WorkOrders |-> 0]
  BY DEF Init, Remaining, NoReservation
<1>2. ReservedBy(WorkOrders, s) = 0
  BY <1>1, TotalZero DEF ReservedBy
<1>. QED
  BY <1>2 DEF Init

\* No step lets the work orders hold more of a slot than the bin contains.
THEOREM ReservedIsWithinStock == Spec => []ReservedWithinStock
<1>1. Init => ReservedWithinStock
  BY NothingReservedAtFirst
<1>2. TypeOK /\ ReservedWithinStock /\ [Next]_vars => ReservedWithinStock'
  BY StepKeepsReserved
<1>. QED
  BY <1>1, <1>2, TypeCorrect, PTL DEF Spec

---------------------------------------------------------------------------
(* Every slot implements StockPool.                                        *)

Free(s) == balance[s] - ReservedBy(WorkOrders, s)

\* A slot whose stock and reservations stay the same stutters.
LEMMA PoolStutters ==
  ASSUME NEW s \in Slots, balance'[s] = balance[s], Held(s)' = Held(s),
         ReservedBy(WorkOrders, s)' = ReservedBy(WorkOrders, s)
  PROVE  UNCHANGED Pool(s)!pool
  BY DEF Pool!pool, Held

\* A movement for nobody puts units into its slot, or takes free ones.
LEMMA MovementInPool ==
  ASSUME TypeOK, NEW r, IsRequest(r), r.wo = None, Accepts(r), Post(r),
         UNCHANGED reservation, NEW s \in Slots
  PROVE  [Pool(s)!Next]_(Pool(s)!pool)
<1>. USE QuantityAssumption
<1>1. Delta(r) \in Int /\ balance[s] \in Nat /\ balance[s] <= MaxQuantity
  BY DeltaType DEF TypeOK, Amounts
<1>2. /\ ReservedForOthers(None, s) = ReservedBy(WorkOrders, s)
      /\ ReservedBy(WorkOrders, s) \in Nat
  BY ReservedSplit
<1>3. Held(s)' = Held(s) /\ ReservedBy(WorkOrders, s)' = ReservedBy(WorkOrders, s)
  BY NoReservationChanged
<1>4. CASE s # SlotOf(r)
  <2>1. balance'[s] = balance[s]
    BY <1>4 DEF Post, TypeOK
  <2>. QED
    BY <1>3, <2>1, PoolStutters
<1>5. CASE s = SlotOf(r)
  <2>1. balance'[s] = balance[s] + Delta(r) /\ balance'[s] \in Amounts
    BY <1>5 DEF Post, Accepts, TypeOK
  <2>2. Free(s)' = Free(s) + Delta(r)
    BY <1>1, <1>2, <1>3, <2>1 DEF Free
  <2>3. CASE Delta(r) >= 0
    <3>1. Delta(r) \in Amounts
      BY <1>1, <2>1, <2>3 DEF Amounts
    <3>2. Pool(s)!Put(Delta(r))
      BY <1>3, <2>2 DEF Pool!Put, Free, Held
    <3>. QED
      BY <3>1, <3>2 DEF Pool!Next
  <2>4. CASE Delta(r) < 0
    <3>1. -Delta(r) \in Amounts
      BY <1>1, <2>1, <2>4 DEF Amounts
    <3>2. -Delta(r) <= Free(s)
      BY <1>1, <1>2, <1>5, <2>4 DEF Accepts, Free
    <3>3. Free(s)' = Free(s) - (-Delta(r))
      BY <1>1, <1>2, <2>2 DEF Free
    <3>4. Pool(s)!Take(-Delta(r))
      BY <1>3, <3>2, <3>3 DEF Pool!Take, Free, Held
    <3>. QED
      BY <3>1, <3>4 DEF Pool!Next
  <2>. QED
    BY <1>1, <2>3, <2>4
<1>. QED
  BY <1>4, <1>5

\* Rewriting a work order's reservation within what the others leave is a Hold
\* in its slot and a stutter in the others.
LEMMA ReservationInPool ==
  ASSUME TypeOK, NEW w \in WorkOrders, NEW t \in Slots, NEW new \in Reservation,
         NEW n \in Amounts,
         reservation' = [reservation EXCEPT ![w][t] = new], UNCHANGED balance,
         Remaining(w, t)' = n, n <= balance[t] - ReservedForOthers(w, t),
         NEW s \in Slots
  PROVE  [Pool(s)!Next]_(Pool(s)!pool)
<1>. USE QuantityAssumption
<1>1. /\ ReservedBy(WorkOrders, t)'
            = ReservedBy(WorkOrders, t) - Remaining(w, t) + Remaining(w, t)'
      /\ Held(t)' = [Held(t) EXCEPT ![w] = Remaining(w, t)']
      /\ \A u \in Slots \ {t} : /\ ReservedBy(WorkOrders, u)' = ReservedBy(WorkOrders, u)
                                /\ Held(u)' = Held(u)
  BY OneReservationChanged
<1>2. /\ ReservedForOthers(w, t) \in Nat /\ Remaining(w, t) \in Nat /\ n \in Nat
      /\ ReservedBy(WorkOrders, t) = ReservedForOthers(w, t) + Remaining(w, t)
      /\ balance[t] \in Nat /\ Held(t)[w] = Remaining(w, t)
  <2>1. /\ ReservedForOthers(w, t) \in Nat
        /\ ReservedBy(WorkOrders, t) = ReservedForOthers(w, t) + Remaining(w, t)
    BY ReservedSplit
  <2>2. Remaining(w, t) \in Amounts /\ balance[t] \in Amounts
    BY RemainingType DEF TypeOK
  <2>3. Held(t)[w] = Remaining(w, t)
    BY DEF Held
  <2>. QED
    BY <2>1, <2>2, <2>3 DEF Amounts
<1>3. CASE s # t
  BY <1>1, <1>3, PoolStutters
<1>4. CASE s = t
  <2>1. n <= Free(t) + Held(t)[w] /\ Free(t)' = Free(t) + Held(t)[w] - n
    BY <1>1, <1>2 DEF Free
  <2>2. Held(t)' = [Held(t) EXCEPT ![w] = n]
    BY <1>1
  <2>3. Pool(t)!Hold(w, n)
    BY <2>1, <2>2 DEF Pool!Hold, Free, Held
  <2>. QED
    BY <1>4, <2>3 DEF Pool!Next
<1>. QED
  BY <1>3, <1>4

\* A consumption draws from its slot: the work order's own units first.
LEMMA ConsumptionInPool ==
  ASSUME TypeOK, NEW c \in Consumption, NEW r, IsRequest(r), r.wo = c.wo,
         SlotOf(r) = SlotOf(c), Delta(r) = -c.quantity, Accepts(r), Post(r),
         DrawDownReservation(c.wo, SlotOf(c), c.quantity), NEW s \in Slots
  PROVE  [Pool(s)!Next]_(Pool(s)!pool)
<1>. DEFINE w == c.wo
            t == SlotOf(c)
            q == c.quantity
            left == Remaining(w, t)
            rest == IF q < left THEN left - q ELSE 0
<1>. USE QuantityAssumption
<1>1. w \in WorkOrders /\ t \in Slots /\ q \in Amounts \ {0}
  BY DEF Consumption, SlotOf, Slots
<1>2. /\ ReservedBy(WorkOrders, t)' = ReservedBy(WorkOrders, t) - left + rest
      /\ Held(t)' = [Held(t) EXCEPT ![w] = rest]
      /\ \A u \in Slots \ {t} : /\ ReservedBy(WorkOrders, u)' = ReservedBy(WorkOrders, u)
                                /\ Held(u)' = Held(u)
  BY <1>1, DrawDownRemaining
<1>3. /\ ReservedForOthers(w, t) \in Nat /\ left \in Nat /\ q \in Nat /\ q > 0
      /\ ReservedBy(WorkOrders, t) = ReservedForOthers(w, t) + left
      /\ balance[t] \in Nat /\ Held(t)[w] = left
  BY <1>1, ReservedSplit, RemainingType DEF Amounts, TypeOK, Held
<1>4. CASE s # t
  <2>1. balance'[s] = balance[s]
    BY <1>4 DEF Post, TypeOK
  <2>. QED
    BY <1>2, <1>4, <2>1, PoolStutters
<1>5. CASE s = t
  <2>1. balance'[t] = balance[t] - q
    BY <1>1, <1>3 DEF Post, TypeOK
  <2>2. balance[t] - ReservedForOthers(w, t) >= q
    BY <1>3 DEF Accepts
  <2>. HIDE DEF w, t, q, left
  <2>3. q <= Free(t) + Held(t)[w]
    BY <1>3, <2>2 DEF Free
  <2>4. Free(t)' = balance'[t] - ReservedBy(WorkOrders, t)'
    BY DEF Free, t
  <2>5. Free(t)' = Free(t) - (IF q > Held(t)[w] THEN q - Held(t)[w] ELSE 0)
    BY <1>2, <1>3, <2>1, <2>4 DEF Free
  <2>6. Held(t)' = [Held(t) EXCEPT ![w] = IF Held(t)[w] > q THEN Held(t)[w] - q ELSE 0]
    BY <1>2, <1>3
  <2>7. Pool(t)!Draw(w, q)
    BY <2>3, <2>5, <2>6 DEF Pool!Draw, Pool!Less, Free, Held
  <2>. QED
    BY <1>1, <1>5, <2>7 DEF Pool!Next
<1>. QED
  BY <1>4, <1>5

\* Whatever step the inventory takes, each slot takes a step of its pool or none.
LEMMA SlotStep ==
  ASSUME TypeOK, ReservedWithinStock, [Next]_vars, NEW s \in Slots
  PROVE  [Pool(s)!Next]_(Pool(s)!pool)
<1>. USE QuantityAssumption
<1>1. CASE StockStep
  <2>1. PICK b \in Bins, p \in Parts, type \in MovementType \ {"WORK_ORDER_CONSUMPTION"},
             amount \in Amounts, k \in MovementKeys : RecordStockMovement(b, p, type, amount, k)
    BY <1>1 DEF StockStep
  <2>. DEFINE r == MovementRequest(b, p, type, amount, ClientKey(k), None)
  <2>2. IsRequest(r) /\ r.wo = None
    BY DEF IsRequest, MovementRequest
  <2>3. Accepts(r) /\ Post(r) /\ UNCHANGED reservation
    BY <2>1 DEF RecordStockMovement
  <2>. HIDE DEF r
  <2>. QED
    BY <2>2, <2>3, MovementInPool
<1>2. ASSUME NEW w \in WorkOrders, NEW b \in Bins, NEW p \in Parts, NEW q \in Amounts,
             Reserve(w, b, p, q)
      PROVE  [Pool(s)!Next]_(Pool(s)!pool)
  <2>. DEFINE t == <<b, p>>
              consumed == reservation[w][t].consumed
              new == [quantity |-> q, consumed |-> consumed,
                      status |-> IF q > consumed THEN "ACTIVE" ELSE "CONSUMED"]
  <2>1. t \in Slots /\ consumed \in Amounts
    BY RemainingType DEF Slots, Reservation
  <2>2. new \in Reservation
    BY <2>1 DEF Reservation, ReservationStatus
  <2>3. /\ reservation' = [reservation EXCEPT ![w][t] = new]
        /\ q >= consumed /\ q - consumed <= balance[t] - ReservedForOthers(w, t)
        /\ UNCHANGED balance
    BY <1>2 DEF Reserve, stock
  <2>4. Remaining(w, t)' = q - consumed
    <3>1. reservation'[w][t] = new
      BY <2>1, <2>3 DEF TypeOK
    <3>. QED
      BY <2>1, <2>3, <3>1 DEF Remaining, Amounts
  <2>5. q - consumed \in Amounts
    BY <2>1, <2>3 DEF Amounts
  <2>. HIDE DEF t, new, consumed
  <2>. QED
    BY <2>1, <2>2, <2>3, <2>4, <2>5, ReservationInPool
<1>3. ASSUME NEW w \in WorkOrders, NEW b \in Bins, NEW p \in Parts, Release(w, <<b, p>>)
      PROVE  [Pool(s)!Next]_(Pool(s)!pool)
  <2>. DEFINE t == <<b, p>>
              new == [reservation[w][t] EXCEPT !.status = "RELEASED"]
  <2>1. t \in Slots
    BY DEF Slots
  <2>2. new \in Reservation /\ new.status = "RELEASED"
    BY <2>1, RemainingType DEF Reservation, ReservationStatus
  <2>3. reservation' = [reservation EXCEPT ![w][t] = new] /\ UNCHANGED balance
    BY <1>3, <2>1 DEF Release, TypeOK, stock
  <2>4. Remaining(w, t)' = 0
    <3>1. reservation'[w][t] = new
      BY <2>1, <2>3 DEF TypeOK
    <3>. QED
      BY <2>2, <3>1 DEF Remaining
  <2>. HIDE DEF t, new
  <2>5. 0 <= balance[t] - ReservedForOthers(w, t)
    <3>1. ReservedBy(WorkOrders, t) <= balance[t] /\ balance[t] \in Amounts
      BY <2>1 DEF ReservedWithinStock, TypeOK
    <3>2. /\ ReservedForOthers(w, t) \in Nat
          /\ ReservedBy(WorkOrders, t) = ReservedForOthers(w, t) + Remaining(w, t)
      BY <2>1, ReservedSplit
    <3>3. Remaining(w, t) \in Amounts
      BY <2>1, RemainingType
    <3>. QED
      BY <3>1, <3>2, <3>3 DEF Amounts
  <2>. QED
    BY <2>1, <2>2, <2>3, <2>4, <2>5, ReservationInPool, AmountsAreNaturals
<1>4. ASSUME NEW h \in Handlers, CommitConsumption(h)
      PROVE  [Pool(s)!Next]_(Pool(s)!pool)
  <2>1. PICK c \in Consumption : pending[h] = c
    BY <1>4 DEF CommitConsumption, TypeOK
  <2>. DEFINE r == MovementRequest(c.bin, c.part, "WORK_ORDER_CONSUMPTION", c.quantity,
                                   WorkOrderKey(c.wo, c.key), c.wo)
  <2>2. /\ IsRequest(r) /\ r.wo = c.wo /\ SlotOf(r) = SlotOf(c)
        /\ Delta(r) = -c.quantity
    BY DEF IsRequest, MovementRequest, MovementType, SlotOf, Delta, Consumption
  <2>3. Accepts(r) /\ Post(r) /\ DrawDownReservation(c.wo, SlotOf(c), c.quantity)
    BY <1>4, <2>1 DEF CommitConsumption
  <2>. HIDE DEF r
  <2>. QED
    BY <2>2, <2>3, ConsumptionInPool
<1>5. CASE UNCHANGED <<balance, reservation>>
  <2>1. Held(s)' = Held(s) /\ ReservedBy(WorkOrders, s)' = ReservedBy(WorkOrders, s)
    BY <1>5, NoReservationChanged
  <2>. QED
    BY <1>5, <2>1, PoolStutters
<1>6. ASSUME NEW h \in Handlers,
             (\E c \in Consumption : CheckConsumption(h, c)) \/ EndWithoutWrite(h)
      PROVE  UNCHANGED <<balance, reservation>>
  BY <1>6 DEF CheckConsumption, EndWithoutWrite, stock
<1>7. CASE SettingStep \/ UNCHANGED vars
  BY <1>5, <1>7 DEF SettingStep, SetStatus, SetActive, stock, vars
<1>. QED
  BY <1>1, <1>2, <1>3, <1>4, <1>5, <1>6, <1>7
  DEF Next, ReservationStep, ConsumptionStep

\* Each slot implements the abstract pool: its initial state is the pool's and
\* every step of the inventory is a step of its pool or leaves the pool alone.
THEOREM SlotsImplementPools == Spec => SlotsArePools
<1>1. Init => \A s \in Slots : Pool(s)!Init
  <2>. SUFFICES ASSUME Init, NEW s \in Slots PROVE Pool(s)!Init
    OBVIOUS
  <2>1. Held(s) = [w \in WorkOrders |-> 0]
    BY DEF Init, Remaining, NoReservation, Held
  <2>2. ReservedBy(WorkOrders, s) = 0
    BY <2>1, TotalZero DEF ReservedBy, Held
  <2>. QED
    BY <2>1, <2>2 DEF Init, Pool!Init, Held
<1>2. TypeOK /\ ReservedWithinStock /\ [Next]_vars
        => [\A s \in Slots : [Pool(s)!Next]_(Pool(s)!pool)]_vars
  BY SlotStep
<1>. QED
  BY <1>1, <1>2, TypeCorrect, ReservedIsWithinStock, PTL DEF Spec, SlotsArePools

---------------------------------------------------------------------------
(* The aggregate matches the bins.                                         *)

Shelves(p) == [b \in Bins |-> balance[<<b, p>>]]

\* A movement changes a part's aggregate and the sum of its bins alike.
LEMMA PostKeepsAggregate ==
  ASSUME TypeOK, AggregateMatchesBins, NEW r, IsRequest(r), Accepts(r), Post(r),
         NEW p \in Parts
  PROVE  onHand'[p] = Total(Shelves(p)')
<1>1. Shelves(p) \in [Bins -> Amounts] /\ onHand[p] = Total(Shelves(p))
  BY DEF Shelves, TypeOK, Slots, AggregateMatchesBins
<1>2. CASE p # r.part
  <2>1. Shelves(p)' = Shelves(p)
    BY <1>2 DEF Shelves, Post, SlotOf, Slots, TypeOK, IsRequest
  <2>2. onHand'[p] = onHand[p]
    BY <1>2 DEF Post, TypeOK
  <2>. QED
    BY <1>1, <2>1, <2>2
<1>3. CASE p = r.part
  <2>. DEFINE b == r.bin
              new == balance[<<b, p>>] + Delta(r)
  <2>1. b \in Bins /\ SlotOf(r) = <<b, p>> /\ <<b, p>> \in Slots
    BY <1>3 DEF IsRequest, SlotOf, Slots
  <2>2. new \in Amounts
    BY <2>1 DEF Accepts
  <2>3. Shelves(p)' = [Shelves(p) EXCEPT ![b] = new]
    <3>1. balance' = [balance EXCEPT ![<<b, p>>] = new]
      BY <2>1 DEF Post
    <3>2. \A x \in Bins : balance'[<<x, p>>] = IF x = b THEN new ELSE balance[<<x, p>>]
      BY <2>1, <3>1 DEF TypeOK, Slots
    <3>. HIDE DEF new
    <3>. QED
      BY <3>2 DEF Shelves
  <2>4. \A f \in [Bins -> Amounts], n \in Amounts :
          Total([f EXCEPT ![b] = n]) = Total(f) - f[b] + n
    BY <2>1, FiniteAssumption, TotalExcept
  <2>5. Shelves(p)[b] = balance[<<b, p>>]
    BY <2>1 DEF Shelves
  <2>6. Total(Shelves(p)') = Total(Shelves(p)) - balance[<<b, p>>] + new
    BY <1>1, <2>2, <2>3, <2>4, <2>5
  <2>7. onHand'[p] = onHand[p] + Delta(r)
    BY <1>3 DEF Post, TypeOK
  <2>8. Delta(r) \in Int /\ balance[<<b, p>>] \in Amounts /\ Total(Shelves(p)) \in Nat
    BY <1>1, <2>1, DeltaType, TotalType, FiniteAssumption DEF TypeOK
  <2>. QED
    BY <1>1, <2>6, <2>7, <2>8, QuantityAssumption DEF Amounts
<1>. QED
  BY <1>2, <1>3

\* Every step of the inventory keeps the parts' aggregates.
LEMMA StepKeepsAggregate ==
  ASSUME TypeOK, AggregateMatchesBins, [Next]_vars
  PROVE  AggregateMatchesBins'
<1>1. CASE UNCHANGED <<balance, onHand>>
  BY <1>1 DEF AggregateMatchesBins
<1>2. ASSUME NEW r, IsRequest(r), Accepts(r), Post(r)
      PROVE  AggregateMatchesBins'
  BY <1>2, PostKeepsAggregate DEF AggregateMatchesBins, Shelves
<1>3. CASE StockStep
  <2>1. PICK b \in Bins, p \in Parts, type \in MovementType \ {"WORK_ORDER_CONSUMPTION"},
             amount \in Amounts, k \in MovementKeys : RecordStockMovement(b, p, type, amount, k)
    BY <1>3 DEF StockStep
  <2>. DEFINE r == MovementRequest(b, p, type, amount, ClientKey(k), None)
  <2>2. IsRequest(r)
    BY DEF IsRequest, MovementRequest
  <2>3. Accepts(r) /\ Post(r)
    BY <2>1 DEF RecordStockMovement
  <2>. HIDE DEF r
  <2>. QED
    BY <1>2, <2>2, <2>3
<1>4. ASSUME NEW h \in Handlers, CommitConsumption(h)
      PROVE  AggregateMatchesBins'
  <2>1. PICK c \in Consumption : pending[h] = c
    BY <1>4 DEF CommitConsumption, TypeOK
  <2>. DEFINE r == MovementRequest(c.bin, c.part, "WORK_ORDER_CONSUMPTION", c.quantity,
                                   WorkOrderKey(c.wo, c.key), c.wo)
  <2>2. IsRequest(r)
    BY DEF IsRequest, MovementRequest, MovementType, Consumption
  <2>3. Accepts(r) /\ Post(r)
    BY <1>4, <2>1 DEF CommitConsumption
  <2>. HIDE DEF r
  <2>. QED
    BY <1>2, <2>2, <2>3
<1>5. CASE ReservationStep \/ SettingStep \/ UNCHANGED vars
  <2>1. ASSUME NEW w, NEW b, NEW p, NEW q, Reserve(w, b, p, q) \/ Release(w, <<b, p>>)
        PROVE  UNCHANGED stock
    BY <2>1 DEF Reserve, Release
  <2>2. ReservationStep => UNCHANGED stock
    BY <2>1 DEF ReservationStep
  <2>3. SettingStep => UNCHANGED stock
    BY DEF SettingStep, SetStatus, SetActive
  <2>. QED
    BY <1>1, <1>5, <2>2, <2>3 DEF stock, vars
<1>6. ASSUME NEW h \in Handlers,
             (\E c \in Consumption : CheckConsumption(h, c)) \/ EndWithoutWrite(h)
      PROVE  UNCHANGED <<balance, onHand>>
  BY <1>6 DEF CheckConsumption, EndWithoutWrite, stock
<1>. QED
  BY <1>1, <1>3, <1>4, <1>5, <1>6 DEF Next, ConsumptionStep

\* At first there is nothing to add up.
LEMMA NothingOnHandAtFirst ==
  ASSUME Init
  PROVE  AggregateMatchesBins
<1>. SUFFICES ASSUME NEW p \in Parts
              PROVE  onHand[p] = Total(Shelves(p))
  BY DEF AggregateMatchesBins, Shelves
<1>1. Shelves(p) = [b \in Bins |-> 0]
  BY DEF Init, Shelves, Slots
<1>. QED
  BY <1>1, TotalZero DEF Init

\* A part's quantityOnHand is always the sum of its bins.
THEOREM AggregateIsSumOfBins == Spec => []AggregateMatchesBins
<1>1. Init => AggregateMatchesBins
  BY NothingOnHandAtFirst
<1>2. TypeOK /\ AggregateMatchesBins /\ [Next]_vars => AggregateMatchesBins'
  BY StepKeepsAggregate
<1>. QED
  BY <1>1, <1>2, TypeCorrect, PTL DEF Spec

---------------------------------------------------------------------------
(* The ledger.                                                             *)

\* What POST /stock-movements books.
LEMMA StockStepPosts ==
  ASSUME TypeOK, StockStep
  PROVE  \E r : /\ IsRequest(r) /\ Accepts(r) /\ Post(r)
                /\ r.type # "WORK_ORDER_CONSUMPTION"
                /\ \E k \in MovementKeys : r.key = ClientKey(k)
                /\ UNCHANGED <<reservation, usage, setting>>
<1>1. PICK b \in Bins, p \in Parts, type \in MovementType \ {"WORK_ORDER_CONSUMPTION"},
           amount \in Amounts, k \in MovementKeys : RecordStockMovement(b, p, type, amount, k)
  BY DEF StockStep
<1>. DEFINE r == MovementRequest(b, p, type, amount, ClientKey(k), None)
<1>2. IsRequest(r) /\ r.type # "WORK_ORDER_CONSUMPTION" /\ r.key = ClientKey(k)
  BY DEF IsRequest, MovementRequest
<1>3. Accepts(r) /\ Post(r) /\ UNCHANGED <<reservation, usage, setting>>
  BY <1>1 DEF RecordStockMovement
<1>. HIDE DEF r
<1>. QED
  BY <1>2, <1>3

\* What a consumption books.
RequestOf(c) == MovementRequest(c.bin, c.part, "WORK_ORDER_CONSUMPTION", c.quantity,
                                WorkOrderKey(c.wo, c.key), c.wo)

LEMMA ConsumptionPosts ==
  ASSUME TypeOK, NEW h \in Handlers, CommitConsumption(h)
  PROVE  \E c \in Consumption :
            /\ IsRequest(RequestOf(c)) /\ Accepts(RequestOf(c)) /\ Post(RequestOf(c))
            /\ ~ \E d \in consumptions : d.wo = c.wo /\ d.key = c.key
            /\ DrawDownReservation(c.wo, SlotOf(c), c.quantity)
            /\ used' = [used EXCEPT ![c.wo][c.part] = @ + c.quantity]
            /\ consumptions' = consumptions \cup {c}
            /\ UNCHANGED setting
<1>. DEFINE c == pending[h]
<1>1. c \in Consumption
  BY DEF CommitConsumption, TypeOK
<1>2. IsRequest(RequestOf(c))
  BY <1>1 DEF IsRequest, MovementRequest, MovementType, Consumption, RequestOf
<1>3. /\ Accepts(RequestOf(c)) /\ Post(RequestOf(c))
      /\ ~ \E d \in consumptions : d.wo = c.wo /\ d.key = c.key
      /\ DrawDownReservation(c.wo, SlotOf(c), c.quantity)
      /\ used' = [used EXCEPT ![c.wo][c.part] = @ + c.quantity]
      /\ consumptions' = consumptions \cup {c}
      /\ UNCHANGED setting
  BY DEF CommitConsumption, RequestOf
<1>. QED
  BY <1>1, <1>2, <1>3

\* Every other step leaves the ledger alone, and all that has to do with parts used.
LEMMA OtherStepsPostNothing ==
  ASSUME [Next]_vars, ~StockStep, ~ \E h \in Handlers : CommitConsumption(h)
  PROVE  UNCHANGED <<balance, movements, consumptions, used>>
<1>1. ASSUME NEW w, NEW b, NEW p, NEW q, Reserve(w, b, p, q) \/ Release(w, <<b, p>>)
      PROVE  UNCHANGED <<balance, movements, consumptions, used>>
  BY <1>1 DEF Reserve, Release, stock, usage
<1>2. ASSUME NEW h, NEW c, CheckConsumption(h, c) \/ EndWithoutWrite(h)
      PROVE  UNCHANGED <<balance, movements, consumptions, used>>
  BY <1>2 DEF CheckConsumption, EndWithoutWrite, stock
<1>3. SettingStep => UNCHANGED <<balance, movements, consumptions, used>>
  BY DEF SettingStep, SetStatus, SetActive, stock, usage
<1>4. UNCHANGED vars => UNCHANGED <<balance, movements, consumptions, used>>
  BY DEF vars
<1>. QED
  BY <1>1, <1>2, <1>3, <1>4 DEF Next, ReservationStep, ConsumptionStep

RowOf(r) == [bin |-> r.bin, part |-> r.part, type |-> r.type, amount |-> r.amount,
             key |-> r.key, wo |-> r.wo, delta |-> Delta(r)]

Rows(s) == {m \in movements : SlotOf(m) = s}
Arrived(rows) == [m \in rows |-> IF m.delta > 0 THEN m.delta ELSE 0]
Withdrawn(rows) == [m \in rows |-> IF m.delta < 0 THEN -m.delta ELSE 0]

RowsFit ==
    /\ IsFiniteSet(movements)
    /\ \A m \in movements : m.delta \in -MaxQuantity..MaxQuantity

\* What rows of amounts add up to.
LEMMA SumsOfRows ==
  ASSUME NEW rows, IsFiniteSet(rows), \A m \in rows : m.delta \in -MaxQuantity..MaxQuantity
  PROVE  /\ Arrived(rows) \in [rows -> Amounts] /\ Withdrawn(rows) \in [rows -> Amounts]
         /\ Total(Arrived(rows)) \in Nat /\ Total(Withdrawn(rows)) \in Nat
<1>1. Arrived(rows) \in [rows -> Amounts] /\ Withdrawn(rows) \in [rows -> Amounts]
  BY QuantityAssumption DEF Arrived, Withdrawn, Amounts
<1>. QED
  BY <1>1, TotalType

\* One row more adds what it moved.
LEMMA OneRowMore ==
  ASSUME NEW rows, NEW row, IsFiniteSet(rows), row \notin rows,
         \A m \in rows \cup {row} : m.delta \in -MaxQuantity..MaxQuantity
  PROVE  Total(Arrived(rows \cup {row})) - Total(Withdrawn(rows \cup {row}))
           = Total(Arrived(rows)) - Total(Withdrawn(rows)) + row.delta
<1>. DEFINE new == rows \cup {row}
<1>1. IsFiniteSet(new)
  BY FS_AddElement
<1>2. /\ Arrived(rows) \in [rows -> Amounts] /\ Withdrawn(rows) \in [rows -> Amounts]
      /\ Total(Arrived(rows)) \in Nat /\ Total(Withdrawn(rows)) \in Nat
  BY SumsOfRows
<1>3. Arrived(new) \in [new -> Amounts] /\ Withdrawn(new) \in [new -> Amounts]
  BY <1>1, SumsOfRows
<1>4. \A m \in rows : Arrived(new)[m] = Arrived(rows)[m] /\ Withdrawn(new)[m] = Withdrawn(rows)[m]
  BY DEF Arrived, Withdrawn
<1>. HIDE DEF new
<1>5. \A g \in [new -> Amounts] : Total(g) = Total([m \in new \ {row} |-> g[m]]) + g[row]
  <2>1. row \in new
    BY DEF new
  <2>. QED
    BY <1>1, <2>1, TotalWithout
<1>6. /\ Total(Arrived(new)) = Total(Arrived(rows)) + Arrived(new)[row]
      /\ Total(Withdrawn(new)) = Total(Withdrawn(rows)) + Withdrawn(new)[row]
  <2>1. /\ [m \in new \ {row} |-> Arrived(new)[m]] = Arrived(rows)
        /\ [m \in new \ {row} |-> Withdrawn(new)[m]] = Withdrawn(rows)
    <3>1. new \ {row} = rows
      BY DEF new
    <3>. QED
      BY <1>4, <3>1 DEF Arrived, Withdrawn
  <2>. QED
    BY <1>3, <1>5, <2>1
<1>7. Arrived(new)[row] \in Int /\ Withdrawn(new)[row] \in Int
      /\ Arrived(new)[row] - Withdrawn(new)[row] = row.delta
  BY QuantityAssumption DEF Arrived, Withdrawn, new
<1>. QED
  BY <1>2, <1>6, <1>7 DEF new

\* What a movement books: a row that was not there, and its effect on the bin.
LEMMA PostedRow ==
  ASSUME TypeOK, RowsFit, NEW r, IsRequest(r), Accepts(r), Post(r)
  PROVE  /\ RowOf(r) \notin movements /\ movements' = movements \cup {RowOf(r)}
         /\ RowsFit'
         /\ \A s \in Slots : balance'[s] = IF s = SlotOf(r) THEN balance[s] + Delta(r) ELSE balance[s]
<1>1. SlotOf(r) \in Slots
  BY DEF IsRequest, Slots, SlotOf
<1>2. Delta(r) \in -MaxQuantity..MaxQuantity
  <2>1. balance[SlotOf(r)] \in Amounts /\ r.amount \in Amounts
    BY <1>1 DEF TypeOK, IsRequest
  <2>. QED
    BY <2>1, QuantityAssumption DEF Amounts, Delta
<1>3. movements' = movements \cup {RowOf(r)}
  BY DEF Post, RowOf
<1>4. RowOf(r) \notin movements
  BY DEF Accepts, Filed, RowOf
<1>5. RowsFit'
  <2>1. IsFiniteSet(movements')
    BY <1>3, FS_AddElement DEF RowsFit
  <2>2. RowOf(r).delta = Delta(r)
    BY DEF RowOf
  <2>. QED
    BY <1>2, <1>3, <2>1, <2>2 DEF RowsFit
<1>6. \A s \in Slots : balance'[s] = IF s = SlotOf(r) THEN balance[s] + Delta(r) ELSE balance[s]
  BY <1>1 DEF Post, TypeOK
<1>. QED
  BY <1>3, <1>4, <1>5, <1>6

\* A movement changes a balance and the sum of its rows alike.
LEMMA PostKeepsLedger ==
  ASSUME TypeOK, RowsFit, LedgerExplainsBalances, NEW r, IsRequest(r), Accepts(r), Post(r)
  PROVE  LedgerExplainsBalances'
<1>1. /\ RowOf(r) \notin movements /\ movements' = movements \cup {RowOf(r)}
      /\ RowsFit'
      /\ \A s \in Slots : balance'[s] = IF s = SlotOf(r) THEN balance[s] + Delta(r) ELSE balance[s]
  BY PostedRow
<1>2. SlotOf(RowOf(r)) = SlotOf(r) /\ RowOf(r).delta = Delta(r)
  BY DEF SlotOf, RowOf
<1>3. Delta(r) \in Int
  BY DeltaType
<1>. SUFFICES ASSUME NEW s \in Slots
              PROVE  balance'[s] = Total(Arrived(Rows(s)')) - Total(Withdrawn(Rows(s)'))
  BY DEF LedgerExplainsBalances, Rows, Arrived, Withdrawn
<1>4. balance[s] = Total(Arrived(Rows(s))) - Total(Withdrawn(Rows(s)))
  BY DEF LedgerExplainsBalances, Rows, Arrived, Withdrawn
<1>5. CASE s # SlotOf(r)
  <2>1. Rows(s)' = Rows(s)
    BY <1>1, <1>2, <1>5 DEF Rows
  <2>. QED
    BY <1>1, <1>4, <1>5, <2>1
<1>6. CASE s = SlotOf(r)
  <2>1. Rows(s)' = Rows(s) \cup {RowOf(r)} /\ RowOf(r) \notin Rows(s)
    BY <1>1, <1>2, <1>6 DEF Rows
  <2>2. IsFiniteSet(Rows(s)) /\ \A m \in Rows(s)' : m.delta \in -MaxQuantity..MaxQuantity
    BY <1>1, FS_Subset DEF Rows, RowsFit
  <2>3. Total(Arrived(Rows(s)')) - Total(Withdrawn(Rows(s)'))
          = Total(Arrived(Rows(s))) - Total(Withdrawn(Rows(s))) + Delta(r)
    BY <1>2, <2>1, <2>2, OneRowMore
  <2>. QED
    BY <1>1, <1>4, <1>6, <2>3
<1>. QED
  BY <1>5, <1>6

LedgerInv == RowsFit /\ LedgerExplainsBalances

\* At first there are no rows, and no stock.
LEMMA LedgerStartsEmpty ==
  ASSUME Init
  PROVE  LedgerInv
<1>1. RowsFit
  BY FS_EmptySet DEF Init, RowsFit
<1>2. ASSUME NEW s \in Slots
      PROVE  balance[s] = Total(Arrived(Rows(s))) - Total(Withdrawn(Rows(s)))
  <2>1. Arrived(Rows(s)) = [m \in {} |-> 0] /\ Withdrawn(Rows(s)) = [m \in {} |-> 0]
    BY DEF Init, Rows, Arrived, Withdrawn
  <2>2. Total(Arrived(Rows(s))) = 0 /\ Total(Withdrawn(Rows(s))) = 0
    BY <2>1, TotalZero
  <2>. QED
    BY <2>2 DEF Init
<1>. QED
  BY <1>1, <1>2 DEF LedgerInv, LedgerExplainsBalances, Rows, Arrived, Withdrawn

\* Every step of the inventory keeps the ledger.
LEMMA StepKeepsLedger ==
  ASSUME TypeOK, LedgerInv, [Next]_vars
  PROVE  LedgerInv'
<1>. USE DEF LedgerInv
<1>1. CASE StockStep
  BY <1>1, StockStepPosts, PostedRow, PostKeepsLedger
<1>2. CASE \E h \in Handlers : CommitConsumption(h)
  BY <1>2, ConsumptionPosts, PostedRow, PostKeepsLedger
<1>3. CASE ~StockStep /\ ~ \E h \in Handlers : CommitConsumption(h)
  <2>1. UNCHANGED <<balance, movements>>
    BY <1>3, OtherStepsPostNothing
  <2>. QED
    BY <2>1 DEF RowsFit, LedgerExplainsBalances
<1>. QED
  BY <1>1, <1>2, <1>3

\* Every balance is what its ledger rows add up to.
LEMMA BalancesAreExplained == Spec => []LedgerExplainsBalances
<1>1. Init => LedgerInv
  BY LedgerStartsEmpty
<1>2. TypeOK /\ LedgerInv /\ [Next]_vars => LedgerInv'
  BY StepKeepsLedger
<1>3. LedgerInv => LedgerExplainsBalances
  BY DEF LedgerInv
<1>. QED
  BY <1>1, <1>2, <1>3, TypeCorrect, PTL DEF Spec

---------------------------------------------------------------------------
(* Consumptions.                                                           *)

\* A row's key tells what the row is of.
KeysTell ==
    \A m \in movements :
        IF m.type = "WORK_ORDER_CONSUMPTION"
        THEN \E c \in consumptions : m.key = WorkOrderKey(c.wo, c.key)
        ELSE \E k \in MovementKeys : m.key = ClientKey(k)

LineQuantities(S) == [c \in S |-> c.quantity]
UsedBy(w, p) == {c \in consumptions : c.wo = w /\ c.part = p}
UsedFrom(w, s) == {c \in consumptions : c.wo = w /\ SlotOf(c) = s}

\* Keys are told apart.
LEMMA KeysDiffer ==
  ASSUME NEW k, NEW w, NEW u
  PROVE  ClientKey(k) # WorkOrderKey(w, u)
<1>1. WorkOrderKey(w, u)[1] = "wo" /\ ClientKey(k)[1] = "client"
  BY DEF WorkOrderKey, ClientKey
<1>. QED
  BY <1>1

LEMMA KeysAreOnesOwn ==
  ASSUME NEW w, NEW u, NEW x, NEW v, WorkOrderKey(w, u) = WorkOrderKey(x, v)
  PROVE  w = x /\ u = v
<1>1. /\ WorkOrderKey(w, u)[2] = w /\ WorkOrderKey(w, u)[3] = u
      /\ WorkOrderKey(x, v)[2] = x /\ WorkOrderKey(x, v)[3] = v
  BY DEF WorkOrderKey
<1>. QED
  BY <1>1

\* The sum of a set of consumptions, and of one more.
LEMMA OneUseMore ==
  ASSUME NEW S \in SUBSET Consumption, IsFiniteSet(S), NEW c \in Consumption, c \notin S
  PROVE  /\ Total(LineQuantities(S)) \in Nat
         /\ Total(LineQuantities(S \cup {c})) = Total(LineQuantities(S)) + c.quantity
<1>. DEFINE new == S \cup {c}
<1>1. /\ LineQuantities(S) \in [S -> Amounts] /\ LineQuantities(new) \in [new -> Amounts]
      /\ LineQuantities(new)[c] = c.quantity
  BY DEF LineQuantities, Consumption
<1>2. IsFiniteSet(new) /\ c \in new
  BY FS_AddElement
<1>3. \A g \in [new -> Amounts] : Total(g) = Total([x \in new \ {c} |-> g[x]]) + g[c]
  BY <1>2, TotalWithout
<1>4. [x \in new \ {c} |-> LineQuantities(new)[x]] = LineQuantities(S)
  <2>1. new \ {c} = S
    OBVIOUS
  <2>. HIDE DEF new
  <2>. QED
    BY <2>1 DEF LineQuantities
<1>5. Total(LineQuantities(S)) \in Nat
  BY <1>1, TotalType
<1>. HIDE DEF new
<1>. QED
  BY <1>1, <1>3, <1>4, <1>5 DEF new

\* A consumption books its row, and adds to the totals of its work order and part.
LEMMA ConsumptionKeepsBooks ==
  ASSUME TypeOK, RowsFit, IsFiniteSet(consumptions), KeysTell, ConsumptionsAreLedgered,
         NEW h \in Handlers, CommitConsumption(h)
  PROVE  KeysTell' /\ ConsumptionsAreLedgered'
<1>1. PICK c \in Consumption :
        /\ IsRequest(RequestOf(c)) /\ Accepts(RequestOf(c)) /\ Post(RequestOf(c))
        /\ ~ \E d \in consumptions : d.wo = c.wo /\ d.key = c.key
        /\ used' = [used EXCEPT ![c.wo][c.part] = @ + c.quantity]
        /\ consumptions' = consumptions \cup {c}
  BY ConsumptionPosts
<1>. DEFINE row == [bin |-> c.bin, part |-> c.part, type |-> "WORK_ORDER_CONSUMPTION",
                    amount |-> c.quantity, key |-> WorkOrderKey(c.wo, c.key),
                    wo |-> c.wo, delta |-> -c.quantity]
<1>2. RowOf(RequestOf(c)) = row
  BY DEF RowOf, RequestOf, MovementRequest, Delta
<1>3. movements' = movements \cup {row}
  BY <1>1, <1>2, PostedRow
<1>4. KeysTell'
  <2>1. ASSUME NEW m \in movements'
        PROVE  IF m.type = "WORK_ORDER_CONSUMPTION"
               THEN \E d \in consumptions' : m.key = WorkOrderKey(d.wo, d.key)
               ELSE \E k \in MovementKeys : m.key = ClientKey(k)
    <3>1. CASE m \in movements
      BY <1>1, <3>1 DEF KeysTell
    <3>2. CASE m = row
      BY <1>1, <3>2
    <3>. QED
      BY <1>3, <2>1, <3>1, <3>2
  <2>. QED
    BY <2>1 DEF KeysTell
<1>5. ASSUME NEW m \in movements, NEW d \in consumptions', m.key = WorkOrderKey(d.wo, d.key)
      PROVE  d \in consumptions
  <2>1. PICK e \in consumptions : m.key = WorkOrderKey(e.wo, e.key)
    BY <1>5, KeysDiffer DEF KeysTell
  <2>2. e.wo = d.wo /\ e.key = d.key
    <3>1. WorkOrderKey(e.wo, e.key) = WorkOrderKey(d.wo, d.key)
      BY <1>5, <2>1
    <3>. QED
      BY <3>1 DEF WorkOrderKey
  <2>. QED
    BY <1>1, <2>1, <2>2
<1>6. ASSUME NEW d \in consumptions'
      PROVE  {m \in movements' : m.key = WorkOrderKey(d.wo, d.key)}
               = {[bin |-> d.bin, part |-> d.part, type |-> "WORK_ORDER_CONSUMPTION",
                   amount |-> d.quantity, key |-> WorkOrderKey(d.wo, d.key),
                   wo |-> d.wo, delta |-> -d.quantity]}
  <2>1. CASE d \in consumptions
    <3>1. d.wo # c.wo \/ d.key # c.key
      BY <1>1, <2>1
    <3>2. row.key # WorkOrderKey(d.wo, d.key)
      BY <3>1, KeysAreOnesOwn
    <3>3. {m \in movements' : m.key = WorkOrderKey(d.wo, d.key)}
            = {m \in movements : m.key = WorkOrderKey(d.wo, d.key)}
      <4>. HIDE DEF row
      <4>. QED
        BY <1>3, <3>2
    <3>. QED
      BY <2>1, <3>3 DEF ConsumptionsAreLedgered
  <2>2. CASE d \notin consumptions
    <3>1. d = c
      BY <1>1, <2>2
    <3>2. \A m \in movements : m.key # WorkOrderKey(d.wo, d.key)
      BY <1>5, <2>2
    <3>3. row.key = WorkOrderKey(d.wo, d.key)
      BY <3>1
    <3>4. {m \in movements' : m.key = WorkOrderKey(d.wo, d.key)} = {row}
      <4>. HIDE DEF row
      <4>. QED
        BY <1>3, <3>2, <3>3
    <3>. QED
      BY <3>1, <3>4
  <2>. QED
    BY <2>1, <2>2
<1>7. ASSUME NEW w \in WorkOrders, NEW p \in Parts
      PROVE  used'[w][p] = Total(LineQuantities(UsedBy(w, p)'))
  <2>1. used[w][p] = Total(LineQuantities(UsedBy(w, p)))
    BY DEF ConsumptionsAreLedgered, LineQuantities, UsedBy
  <2>2. UsedBy(w, p) \in SUBSET Consumption /\ IsFiniteSet(UsedBy(w, p))
    BY FS_Subset DEF UsedBy, TypeOK
  <2>3. CASE c.wo = w /\ c.part = p
    <3>1. UsedBy(w, p)' = UsedBy(w, p) \cup {c} /\ c \notin UsedBy(w, p)
      BY <1>1, <2>3 DEF UsedBy
    <3>2. used'[w][p] = used[w][p] + c.quantity
      BY <1>1, <2>3 DEF TypeOK
    <3>. QED
      BY <2>1, <2>2, <3>1, <3>2, OneUseMore
  <2>4. CASE ~ (c.wo = w /\ c.part = p)
    <3>1. UsedBy(w, p)' = UsedBy(w, p)
      BY <1>1, <2>4 DEF UsedBy
    <3>2. used'[w][p] = used[w][p]
      BY <1>1, <2>4 DEF TypeOK
    <3>. QED
      BY <2>1, <3>1, <3>2
  <2>. QED
    BY <2>3, <2>4
<1>8. \A m \in movements' : m.type = "WORK_ORDER_CONSUMPTION" =>
        \E d \in consumptions' : m.key = WorkOrderKey(d.wo, d.key)
  BY <1>4 DEF KeysTell
<1>. QED
  BY <1>4, <1>6, <1>7, <1>8 DEF ConsumptionsAreLedgered, LineQuantities, UsedBy

BooksInv == RowsFit /\ IsFiniteSet(consumptions) /\ KeysTell /\ ConsumptionsAreLedgered

LEMMA BooksAreKept == Spec => []BooksInv
<1>1. Init => BooksInv
  <2>. SUFFICES ASSUME Init PROVE BooksInv
    OBVIOUS
  <2>1. RowsFit /\ IsFiniteSet(consumptions) /\ KeysTell
    BY FS_EmptySet DEF Init, RowsFit, KeysTell
  <2>2. ASSUME NEW w \in WorkOrders, NEW p \in Parts
        PROVE  used[w][p] = Total(LineQuantities(UsedBy(w, p)))
    <3>1. LineQuantities(UsedBy(w, p)) = [c \in {} |-> 0]
      BY DEF Init, LineQuantities, UsedBy
    <3>. QED
      BY <3>1, TotalZero DEF Init
  <2>. QED
    BY <2>1, <2>2 DEF BooksInv, ConsumptionsAreLedgered, LineQuantities, UsedBy, Init
<1>2. TypeOK /\ BooksInv /\ [Next]_vars => BooksInv'
  <2>. SUFFICES ASSUME TypeOK, BooksInv, [Next]_vars PROVE BooksInv'
    OBVIOUS
  <2>. USE DEF BooksInv
  <2>1. CASE StockStep
    <3>1. PICK r : /\ IsRequest(r) /\ Accepts(r) /\ Post(r)
                   /\ r.type # "WORK_ORDER_CONSUMPTION"
                   /\ \E k \in MovementKeys : r.key = ClientKey(k)
                   /\ UNCHANGED usage
      BY <2>1, StockStepPosts
    <3>2. movements' = movements \cup {RowOf(r)} /\ RowsFit'
      BY <3>1, PostedRow
    <3>3. RowOf(r).type = r.type /\ RowOf(r).key = r.key
      BY DEF RowOf
    <3>4. consumptions' = consumptions /\ used' = used
      BY <3>1 DEF usage
    <3>5. KeysTell'
      BY <3>1, <3>2, <3>3, <3>4 DEF KeysTell
    <3>6. ASSUME NEW c \in consumptions
          PROVE  {m \in movements' : m.key = WorkOrderKey(c.wo, c.key)}
                   = {m \in movements : m.key = WorkOrderKey(c.wo, c.key)}
      BY <3>1, <3>2, <3>3, KeysDiffer
    <3>7. ConsumptionsAreLedgered'
      BY <3>4, <3>5, <3>6 DEF ConsumptionsAreLedgered, KeysTell
    <3>. QED
      BY <3>2, <3>4, <3>5, <3>7
  <2>2. ASSUME NEW h \in Handlers, CommitConsumption(h)
        PROVE  BooksInv'
    <3>1. KeysTell' /\ ConsumptionsAreLedgered'
      BY <2>2, ConsumptionKeepsBooks
    <3>2. PICK c \in Consumption : /\ IsRequest(RequestOf(c)) /\ Accepts(RequestOf(c))
                                   /\ Post(RequestOf(c)) /\ consumptions' = consumptions \cup {c}
      BY <2>2, ConsumptionPosts
    <3>3. RowsFit'
      BY <3>2, PostedRow
    <3>4. IsFiniteSet(consumptions')
      BY <3>2, FS_AddElement
    <3>. QED
      BY <3>1, <3>3, <3>4
  <2>3. CASE ~StockStep /\ ~ \E h \in Handlers : CommitConsumption(h)
    <3>1. UNCHANGED <<movements, consumptions, used>>
      BY <2>3, OtherStepsPostNothing
    <3>. QED
      BY <3>1 DEF RowsFit, KeysTell, ConsumptionsAreLedgered
  <2>. QED
    BY <2>1, <2>2, <2>3
<1>. QED
  BY <1>1, <1>2, TypeCorrect, PTL DEF Spec

\* The consumption rows, the totals and the ledger tell one story.
LEMMA ConsumptionsMatchTheLedger == Spec => []ConsumptionsAreLedgered
<1>1. BooksInv => ConsumptionsAreLedgered
  BY DEF BooksInv
<1>. QED
  BY <1>1, BooksAreKept, PTL

\* Every balance is the sum of its ledger rows, and every consumption is in the
\* ledger, once.
THEOREM LedgerIsComplete == Spec => []LedgerTellsAll
<1>1. LedgerExplainsBalances /\ ConsumptionsAreLedgered => LedgerTellsAll
  BY DEF LedgerTellsAll
<1>. QED
  BY <1>1, BalancesAreExplained, ConsumptionsMatchTheLedger, PTL

---------------------------------------------------------------------------
(* What reservations count as consumed.                                    *)

RealUse(w, s) ==
    /\ reservation[w][s].consumed <= Total(LineQuantities(UsedFrom(w, s)))
    /\ reservation[w][s].status = "ACTIVE" => reservation[w][s].consumed < reservation[w][s].quantity
    /\ reservation[w][s].consumed <= reservation[w][s].quantity

\* Drawing q from a reservation counts at most q more as consumed.
LEMMA DrawDownCounts ==
  ASSUME TypeOK, NEW w \in WorkOrders, NEW s \in Slots, NEW q \in Amounts,
         DrawDownReservation(w, s, q),
         reservation[w][s].consumed <= reservation[w][s].quantity,
         reservation[w][s].status = "ACTIVE" => reservation[w][s].consumed < reservation[w][s].quantity
  PROVE  /\ reservation'[w][s].consumed <= reservation[w][s].consumed + q
         /\ reservation'[w][s].status = "ACTIVE"
              => reservation'[w][s].consumed < reservation'[w][s].quantity
         /\ reservation'[w][s].consumed <= reservation'[w][s].quantity
         /\ \A x \in WorkOrders, t \in Slots :
              x # w \/ t # s => reservation'[x][t] = reservation[x][t]
<1>. DEFINE r == reservation[w][s]
            left == Remaining(w, s)
            consumed == r.consumed + (IF q < left THEN q ELSE left)
            drawn == [r EXCEPT !.consumed = consumed,
                               !.status = IF consumed >= r.quantity
                                          THEN "CONSUMED" ELSE "ACTIVE"]
<1>1. /\ r \in Reservation /\ r.quantity \in Nat /\ r.consumed \in Nat
      /\ q \in Nat /\ left \in Nat
  BY RemainingType, QuantityAssumption DEF Reservation, Amounts
<1>2. CASE left = 0
  BY <1>1, <1>2 DEF DrawDownReservation
<1>3. CASE left # 0
  <2>1. left = r.quantity - r.consumed /\ r.quantity > r.consumed
    BY <1>3 DEF Remaining
  <2>2. reservation' = [reservation EXCEPT ![w][s] = drawn]
    BY <1>3 DEF DrawDownReservation
  <2>3. reservation'[w][s] = drawn
    BY <2>2 DEF TypeOK
  <2>4. \A x \in WorkOrders, t \in Slots : x # w \/ t # s => reservation'[x][t] = reservation[x][t]
    <3>. HIDE DEF drawn
    <3>. QED
      BY <2>2 DEF TypeOK
  <2>5. /\ drawn.quantity = r.quantity /\ drawn.consumed = consumed
        /\ drawn.status = IF consumed >= r.quantity THEN "CONSUMED" ELSE "ACTIVE"
    BY <1>1 DEF Reservation
  <2>6. consumed <= r.quantity /\ consumed <= r.consumed + q /\ consumed \in Nat
    BY <1>1, <2>1
  <2>. QED
    BY <1>1, <2>3, <2>4, <2>5, <2>6
<1>. QED
  BY <1>2, <1>3

\* A consumption is counted by no more than it used.
LEMMA ConsumptionCounts ==
  ASSUME TypeOK, IsFiniteSet(consumptions), ReservationsCountRealUse,
         NEW h \in Handlers, CommitConsumption(h),
         NEW w \in WorkOrders, NEW s \in Slots
  PROVE  RealUse(w, s)'
<1>1. PICK c \in Consumption :
        /\ ~ \E d \in consumptions : d.wo = c.wo /\ d.key = c.key
        /\ DrawDownReservation(c.wo, SlotOf(c), c.quantity)
        /\ consumptions' = consumptions \cup {c}
  BY ConsumptionPosts
<1>2. /\ c.wo \in WorkOrders /\ SlotOf(c) \in Slots /\ c.quantity \in Amounts
      /\ c.quantity \in Nat
  BY QuantityAssumption DEF Consumption, SlotOf, Slots, Amounts
<1>3. RealUse(w, s) /\ RealUse(c.wo, SlotOf(c))
  BY <1>2 DEF ReservationsCountRealUse, RealUse, LineQuantities, UsedFrom
<1>4. /\ reservation'[c.wo][SlotOf(c)].consumed <= reservation[c.wo][SlotOf(c)].consumed + c.quantity
      /\ reservation'[c.wo][SlotOf(c)].status = "ACTIVE" =>
           reservation'[c.wo][SlotOf(c)].consumed < reservation'[c.wo][SlotOf(c)].quantity
      /\ reservation'[c.wo][SlotOf(c)].consumed <= reservation'[c.wo][SlotOf(c)].quantity
      /\ \A x \in WorkOrders, t \in Slots :
           x # c.wo \/ t # SlotOf(c) => reservation'[x][t] = reservation[x][t]
  <2>. DEFINE t == SlotOf(c)
  <2>. HIDE DEF t
  <2>1. t \in Slots /\ DrawDownReservation(c.wo, t, c.quantity) /\ RealUse(c.wo, t)
    BY <1>1, <1>2, <1>3 DEF t
  <2>. QED
    BY <1>2, <2>1, DrawDownCounts DEF RealUse, t
<1>5. CASE c.wo = w /\ SlotOf(c) = s
  <2>1. UsedFrom(w, s)' = UsedFrom(w, s) \cup {c} /\ c \notin UsedFrom(w, s)
    BY <1>1, <1>5 DEF UsedFrom
  <2>2. UsedFrom(w, s) \in SUBSET Consumption /\ IsFiniteSet(UsedFrom(w, s))
    BY FS_Subset DEF UsedFrom, TypeOK
  <2>3. /\ Total(LineQuantities(UsedFrom(w, s))) \in Nat
        /\ Total(LineQuantities(UsedFrom(w, s)')) = Total(LineQuantities(UsedFrom(w, s))) + c.quantity
    BY <2>1, <2>2, OneUseMore
  <2>4. reservation[w][s].consumed \in Nat /\ reservation'[w][s].consumed \in Nat
    <3>1. reservation' \in [WorkOrders -> [Slots -> Reservation]]
      <4>. DEFINE t == SlotOf(c)
      <4>. HIDE DEF t
      <4>1. t \in Slots /\ DrawDownReservation(c.wo, t, c.quantity)
        BY <1>1, <1>2 DEF t
      <4>. QED
        BY <1>2, <4>1, DrawDownType
    <3>. QED
      BY <3>1, QuantityAssumption DEF TypeOK, Reservation, Amounts
  <2>. QED
    BY <1>2, <1>3, <1>4, <1>5, <2>3, <2>4 DEF RealUse
<1>6. CASE ~ (c.wo = w /\ SlotOf(c) = s)
  <2>1. UsedFrom(w, s)' = UsedFrom(w, s)
    BY <1>1, <1>6 DEF UsedFrom
  <2>2. reservation'[w][s] = reservation[w][s]
    BY <1>4, <1>6
  <2>. QED
    BY <1>3, <2>1, <2>2 DEF RealUse
<1>. QED
  BY <1>5, <1>6

\* A reservation never counts a consumption that was not made, and an active one
\* has something left.
THEOREM ReservationsAreHonest == Spec => []ReservationsCountRealUse
<1>. DEFINE RInv == IsFiniteSet(consumptions) /\ ReservationsCountRealUse
<1>1. Init => RInv
  <2>. SUFFICES ASSUME Init PROVE RInv
    OBVIOUS
  <2>1. ASSUME NEW w \in WorkOrders, NEW s \in Slots
        PROVE  RealUse(w, s)
    <3>1. LineQuantities(UsedFrom(w, s)) = [c \in {} |-> 0]
      BY DEF Init, LineQuantities, UsedFrom
    <3>2. Total(LineQuantities(UsedFrom(w, s))) = 0
      BY <3>1, TotalZero
    <3>. QED
      BY <3>2 DEF Init, RealUse, NoReservation
  <2>. QED
    BY <2>1, FS_EmptySet DEF Init, ReservationsCountRealUse, RealUse, LineQuantities, UsedFrom
<1>2. TypeOK /\ RInv /\ [Next]_vars => RInv'
  <2>. SUFFICES ASSUME TypeOK, RInv, [Next]_vars PROVE RInv'
    OBVIOUS
  <2>1. ASSUME UNCHANGED consumptions, UNCHANGED reservation
        PROVE  RInv'
    BY <2>1 DEF ReservationsCountRealUse
  <2>2. StockStep => UNCHANGED consumptions /\ UNCHANGED reservation
    BY StockStepPosts DEF usage
  <2>3. ASSUME NEW h \in Handlers, CommitConsumption(h)
        PROVE  RInv'
    <3>1. IsFiniteSet(consumptions')
      BY <2>3, ConsumptionPosts, FS_AddElement
    <3>2. \A w \in WorkOrders, s \in Slots : RealUse(w, s)'
      BY <2>3, ConsumptionCounts
    <3>. QED
      BY <3>1, <3>2 DEF ReservationsCountRealUse, RealUse, LineQuantities, UsedFrom
  <2>4. ASSUME NEW h \in Handlers,
               (\E c \in Consumption : CheckConsumption(h, c)) \/ EndWithoutWrite(h)
        PROVE  UNCHANGED consumptions /\ UNCHANGED reservation
    BY <2>4 DEF CheckConsumption, EndWithoutWrite
  <2>5. SettingStep \/ UNCHANGED vars => UNCHANGED consumptions /\ UNCHANGED reservation
    BY DEF SettingStep, SetStatus, SetActive, usage, vars
  <2>6. ASSUME NEW w \in WorkOrders, NEW b \in Bins, NEW p \in Parts, NEW q \in Amounts,
               Reserve(w, b, p, q)
        PROVE  RInv'
    <3>. DEFINE s == <<b, p>>
                new == [quantity |-> q, consumed |-> reservation[w][s].consumed,
                        status |-> IF q > reservation[w][s].consumed THEN "ACTIVE" ELSE "CONSUMED"]
    <3>1. s \in Slots /\ reservation' = [reservation EXCEPT ![w][s] = new]
          /\ q >= reservation[w][s].consumed /\ UNCHANGED consumptions
      BY <2>6 DEF Reserve, Slots, usage
    <3>2. reservation[w][s].consumed \in Nat /\ q \in Nat
      BY <3>1, RemainingType, QuantityAssumption DEF Reservation, Amounts
    <3>3. ASSUME NEW x \in WorkOrders, NEW t \in Slots
          PROVE  RealUse(x, t)'
      <4>1. RealUse(x, t) /\ UsedFrom(x, t)' = UsedFrom(x, t)
        BY <3>1 DEF ReservationsCountRealUse, RealUse, LineQuantities, UsedFrom
      <4>2. reservation'[x][t] = IF x = w /\ t = s THEN new ELSE reservation[x][t]
        <5>. HIDE DEF new, s
        <5>. QED
          BY <3>1 DEF TypeOK
      <4>. QED
        BY <3>1, <3>2, <4>1, <4>2 DEF RealUse
    <3>. QED
      BY <3>1, <3>3 DEF ReservationsCountRealUse, RealUse, LineQuantities, UsedFrom
  <2>7. ASSUME NEW w \in WorkOrders, NEW b \in Bins, NEW p \in Parts, Release(w, <<b, p>>)
        PROVE  RInv'
    <3>. DEFINE s == <<b, p>>
                new == [reservation[w][s] EXCEPT !.status = "RELEASED"]
    <3>1. s \in Slots /\ reservation' = [reservation EXCEPT ![w][s] = new] /\ UNCHANGED consumptions
      BY <2>7 DEF Release, Slots, usage, TypeOK
    <3>2. /\ new.consumed = reservation[w][s].consumed /\ new.quantity = reservation[w][s].quantity
          /\ new.status = "RELEASED"
      BY <3>1, RemainingType DEF Reservation
    <3>3. ASSUME NEW x \in WorkOrders, NEW t \in Slots
          PROVE  RealUse(x, t)'
      <4>1. RealUse(x, t) /\ UsedFrom(x, t)' = UsedFrom(x, t)
        BY <3>1 DEF ReservationsCountRealUse, RealUse, LineQuantities, UsedFrom
      <4>2. reservation'[x][t] = IF x = w /\ t = s THEN new ELSE reservation[x][t]
        <5>. HIDE DEF new, s
        <5>. QED
          BY <3>1 DEF TypeOK
      <4>. QED
        BY <3>1, <3>2, <4>1, <4>2 DEF RealUse
    <3>. QED
      BY <3>1, <3>3 DEF ReservationsCountRealUse, RealUse, LineQuantities, UsedFrom
  <2>. QED
    BY <2>1, <2>2, <2>3, <2>4, <2>5, <2>6, <2>7 DEF Next, ReservationStep, ConsumptionStep
<1>3. RInv => ReservationsCountRealUse
  OBVIOUS
<1>. QED
  BY <1>1, <1>2, <1>3, TypeCorrect, PTL DEF Spec

---------------------------------------------------------------------------
(* Reorder alerts.                                                         *)

\* A part's aggregate covers each of its bins.
LEMMA AggregateCoversBins ==
  ASSUME TypeOK, AggregateMatchesBins, NEW b \in Bins, NEW p \in Parts
  PROVE  onHand[p] >= balance[<<b, p>>]
<1>1. Shelves(p) \in [Bins -> Amounts] /\ onHand[p] = Total(Shelves(p))
  BY DEF Shelves, TypeOK, Slots, AggregateMatchesBins
<1>2. Total(Shelves(p)) = Total([x \in Bins \ {b} |-> Shelves(p)[x]]) + Shelves(p)[b]
  BY <1>1, FiniteAssumption, TotalWithout
<1>3. Total([x \in Bins \ {b} |-> Shelves(p)[x]]) \in Nat
  <2>1. IsFiniteSet(Bins \ {b}) /\ [x \in Bins \ {b} |-> Shelves(p)[x]] \in [Bins \ {b} -> Amounts]
    BY <1>1, FiniteAssumption, FS_Difference
  <2>. QED
    BY <2>1, TotalType
<1>4. Shelves(p)[b] = balance[<<b, p>>] /\ Shelves(p)[b] \in Nat
  BY <1>1, QuantityAssumption DEF Shelves, Amounts
<1>. QED
  BY <1>1, <1>2, <1>3, <1>4

\* What nobody has filed yet is accepted if there is enough stock.
LEMMA FreshIssue ==
  ASSUME TypeOK, AggregateMatchesBins, KeysTell, NEW s \in InScope
  PROVE  Accepts(NewRequest(s, "ISSUE", 1)) <=> balance[s] > ReservedBy(WorkOrders, s)
<1>. DEFINE r == NewRequest(s, "ISSUE", 1)
<1>1. /\ r.bin = s[1] /\ r.part = s[2] /\ r.type = "ISSUE" /\ r.amount = 1
      /\ r.key = <<"new">> /\ r.wo = None /\ SlotOf(r) = <<s[1], s[2]>>
  BY DEF NewRequest, MovementRequest, SlotOf
<1>2. s \in Slots /\ s = <<s[1], s[2]>> /\ s[1] \in Bins /\ s[2] \in Parts
      /\ {s[1], s[2]} \cap retired = {}
  BY DEF InScope, Slots
<1>3. ~Filed(r)
  <2>1. ASSUME NEW m \in movements PROVE m.key # <<"new">>
    <3>1. ASSUME NEW k PROVE ClientKey(k) # <<"new">>
      BY DEF ClientKey
    <3>2. ASSUME NEW w, NEW u PROVE WorkOrderKey(w, u) # <<"new">>
      BY DEF WorkOrderKey
    <3>. QED
      BY <3>1, <3>2 DEF KeysTell
  <2>. QED
    BY <1>1, <2>1 DEF Filed
<1>4. Delta(r) = -1
  BY <1>1 DEF Delta
<1>5. /\ balance[s] \in Nat /\ balance[s] <= MaxQuantity /\ onHand[s[2]] \in Nat
      /\ onHand[s[2]] >= balance[s]
  BY <1>2, AggregateCoversBins, QuantityAssumption DEF TypeOK, Amounts
<1>6. /\ ReservedForOthers(r.wo, SlotOf(r)) = ReservedBy(WorkOrders, s)
      /\ ReservedBy(WorkOrders, s) \in Nat
  BY <1>1, <1>2, ReservedSplit
<1>7. Accepts(r) <=> /\ balance[s] + (-1) \in Amounts
                     /\ balance[s] - ReservedBy(WorkOrders, s) >= 1
                     /\ onHand[s[2]] >= 1
  <2>. HIDE DEF r
  <2>. QED
    BY <1>1, <1>2, <1>3, <1>4, <1>6 DEF Accepts
<1>8. balance[s] + (-1) \in Amounts <=> balance[s] >= 1
  BY <1>5, QuantityAssumption DEF Amounts
<1>. HIDE DEF r
<1>9. Accepts(r) <=> balance[s] > ReservedBy(WorkOrders, s)
  BY <1>5, <1>6, <1>7, <1>8
<1>. QED
  BY <1>9 DEF r

\* An alert agrees with what the stock would do, for every policy.
THEOREM AlertsAgreeWithTheStock == Spec => []AlertsMatchTheStock
<1>1. TypeOK /\ AggregateMatchesBins /\ KeysTell => AlertsMatchTheStock
  <2>. SUFFICES ASSUME TypeOK, AggregateMatchesBins, KeysTell,
                       NEW s \in InScope, NEW policy \in ReorderPolicies
                PROVE  LET available == Available(s)
                           suggested == SuggestedOrderQuantity(available, policy)
                           out == ReorderAlertStatus(available, policy) = "OUT_OF_STOCK"
                       IN  /\ out <=> ~Accepts(NewRequest(s, "ISSUE", 1))
                           /\ \A w \in WorkOrders :
                                out <=> balance[s] - ReservedForOthers(w, s) <= Remaining(w, s)
                           /\ policy.reorderQuantity = None /\ suggested > 0 =>
                                (ReorderAlertStatus(available + suggested, policy) = "OK"
                                   <=> policy.minQuantity < policy.maxQuantity)
    BY DEF AlertsMatchTheStock
  <2>. DEFINE available == Available(s)
              suggested == SuggestedOrderQuantity(available, policy)
              out == ReorderAlertStatus(available, policy) = "OUT_OF_STOCK"
  <2>1. s \in Slots /\ balance[s] \in Nat
    BY QuantityAssumption DEF InScope, TypeOK, Amounts
  <2>2. /\ ReservedBy(WorkOrders, s) \in Nat
        /\ ReservedForOthers(None, s) = ReservedBy(WorkOrders, s)
    BY <2>1, ReservedSplit
  <2>3. available = IF balance[s] > ReservedBy(WorkOrders, s)
                    THEN balance[s] - ReservedBy(WorkOrders, s) ELSE 0
    BY <2>2 DEF Available
  <2>4. /\ policy.minQuantity \in Nat /\ policy.maxQuantity \in Nat
        /\ policy.maxQuantity >= policy.minQuantity
    BY QuantityAssumption DEF ReorderPolicies, Amounts
  <2>5. available \in Nat /\ (available = 0 <=> ~(balance[s] > ReservedBy(WorkOrders, s)))
    BY <2>1, <2>2, <2>3
  <2>6. out <=> available = 0
    BY DEF ReorderAlertStatus
  <2>7. out <=> ~Accepts(NewRequest(s, "ISSUE", 1))
    BY <2>5, <2>6, FreshIssue
  <2>8. ASSUME NEW w \in WorkOrders
        PROVE  out <=> balance[s] - ReservedForOthers(w, s) <= Remaining(w, s)
    <3>1. /\ ReservedForOthers(w, s) \in Nat /\ Remaining(w, s) \in Nat
          /\ ReservedBy(WorkOrders, s) = ReservedForOthers(w, s) + Remaining(w, s)
      BY <2>1, ReservedSplit, RemainingType, AmountsAreNaturals
    <3>. HIDE DEF out, available
    <3>. QED
      BY <2>1, <2>2, <2>5, <2>6, <3>1
  <2>9. ASSUME policy.reorderQuantity = None, suggested > 0
        PROVE  ReorderAlertStatus(available + suggested, policy) = "OK"
                 <=> policy.minQuantity < policy.maxQuantity
    <3>. HIDE DEF available
    <3>1. policy.maxQuantity > available /\ suggested = policy.maxQuantity - available
      BY <2>4, <2>5, <2>9 DEF SuggestedOrderQuantity
    <3>2. available + suggested = policy.maxQuantity /\ policy.maxQuantity # 0
      BY <2>4, <2>5, <3>1
    <3>3. ReorderAlertStatus(policy.maxQuantity, policy) = "OK"
            <=> ~(policy.maxQuantity <= policy.minQuantity)
      BY <3>2 DEF ReorderAlertStatus
    <3>. HIDE DEF suggested
    <3>. QED
      BY <2>4, <3>2, <3>3
  <2>. QED
    BY <2>7, <2>8, <2>9
<1>2. BooksInv => KeysTell
  BY DEF BooksInv
<1>. QED
  BY <1>1, <1>2, TypeCorrect, AggregateIsSumOfBins, BooksAreKept, PTL

---------------------------------------------------------------------------
(* Cycle counts.                                                           *)

\* A count that exists has a bin, and what a clerk works on was read open.
CountsAreKnown ==
    /\ \A c \in Counts : count[c].status # "NONE" => count[c].bin \in Bins
    /\ \A k \in Clerks : job[k] # None =>
        /\ job[k].read.status = "OPEN" /\ job[k].read.bin \in Bins
        /\ count[job[k].id].status # "NONE"
        /\ job[k].op = "RECORD" => job[k].part \in Parts /\ job[k].quantity \in Amounts

\* What a Serializable transaction has read is what it will replace, unless the
\* count was closed meanwhile by a cancellation.
ReadsAreCurrent ==
    \A k \in Clerks : job[k] # None /\ job[k].op # "CANCEL" =>
        count[job[k].id].status # "OPEN" \/ count[job[k].id] = job[k].read

CountInv == CountTypeOK /\ CountsAreKnown /\ ReadsAreCurrent

\* The adjustments of a complete count set each adjusted slot to what was counted.
LEMMA AdjustedStock ==
  ASSUME TypeOK, NEW c, NEW snapshot \in Snapshot, snapshot.bin \in Bins,
         \A p \in Items(snapshot) : snapshot.counted[p] # None,
         AdjustmentsAccepted(c, snapshot), PostAdjustments(c, snapshot)
  PROVE  /\ \A s \in Slots : balance'[s] =
              IF s[1] = snapshot.bin /\ s[2] \in Adjusted(snapshot)
              THEN snapshot.counted[s[2]] ELSE balance[s]
         /\ \A p \in Parts : onHand'[p] =
              IF p \in Adjusted(snapshot)
              THEN onHand[p] + snapshot.counted[p] - balance[<<snapshot.bin, p>>] ELSE onHand[p]
         /\ balance' \in [Slots -> Amounts]
         /\ onHand' \in [Parts -> Nat]
         /\ \A m \in movements' :
              /\ m.bin \in Bins /\ m.part \in Parts /\ m.type \in MovementType
              /\ m.amount \in Amounts /\ m.delta \in Int
<1>. DEFINE bin == snapshot.bin
            parts == Adjusted(snapshot)
            request(p) == Adjustment(c, snapshot, p)
            delta == [p \in parts |-> Delta(request(p))]
<1>1. ASSUME NEW p \in parts
      PROVE  /\ p \in Parts /\ <<bin, p>> \in Slots /\ balance[<<bin, p>>] \in Amounts
             /\ snapshot.counted[p] \in Amounts
             /\ Delta(request(p)) = snapshot.counted[p] - balance[<<bin, p>>]
             /\ IsRequest(request(p)) /\ Accepts(request(p))
             /\ request(p).part = p
  <2>1. p \in Items(snapshot) /\ p \in Parts /\ <<bin, p>> \in Slots
    BY DEF Adjusted, Items, Slots
  <2>2. snapshot.counted[p] \in Amounts /\ balance[<<bin, p>>] \in Amounts
    BY <2>1 DEF Snapshot, TypeOK
  <2>3. /\ request(p).bin = bin /\ request(p).part = p /\ request(p).type = "ADJUSTMENT"
        /\ request(p).amount = snapshot.counted[p] /\ request(p).wo = None
    BY DEF Adjustment, MovementRequest
  <2>4. Accepts(request(p))
    BY DEF AdjustmentsAccepted
  <2>. HIDE DEF request
  <2>5. IsRequest(request(p))
    BY <2>1, <2>2, <2>3 DEF IsRequest, MovementType
  <2>6. Delta(request(p)) = snapshot.counted[p] - balance[<<bin, p>>]
    BY <2>3 DEF Delta, SlotOf
  <2>. QED
    BY <2>1, <2>2, <2>3, <2>4, <2>5, <2>6
<1>2. ASSUME NEW p \in parts
      PROVE  delta[p] = snapshot.counted[p] - balance[<<bin, p>>] /\ delta[p] \in Int
  <2>1. delta[p] = Delta(request(p))
    OBVIOUS
  <2>. HIDE DEF request, delta, parts
  <2>. QED
    BY <1>1, <2>1, QuantityAssumption DEF Amounts
<1>3. /\ balance' = [s \in Slots |-> IF s[1] = bin /\ s[2] \in parts
                                     THEN balance[s] + delta[s[2]] ELSE balance[s]]
      /\ onHand' = [p \in Parts |-> IF p \in parts THEN onHand[p] + delta[p] ELSE onHand[p]]
      /\ movements' = movements \cup
            {[bin |-> bin, part |-> p, type |-> "ADJUSTMENT", amount |-> snapshot.counted[p],
              key |-> CountKey(c, p), wo |-> None, delta |-> delta[p]] : p \in parts}
  BY DEF PostAdjustments
<1>. HIDE DEF delta, request, parts
<1>4. ASSUME NEW s \in Slots
      PROVE  /\ balance'[s] = IF s[1] = bin /\ s[2] \in parts
                              THEN snapshot.counted[s[2]] ELSE balance[s]
             /\ balance'[s] \in Amounts
  <2>1. balance[s] \in Amounts /\ s = <<s[1], s[2]>>
    BY DEF TypeOK, Slots
  <2>2. CASE s[1] = bin /\ s[2] \in parts
    <3>1. balance'[s] = balance[s] + delta[s[2]]
      BY <1>3, <2>2
    <3>2. delta[s[2]] = snapshot.counted[s[2]] - balance[s] /\ snapshot.counted[s[2]] \in Amounts
      BY <1>1, <1>2, <2>1, <2>2
    <3>3. balance'[s] = snapshot.counted[s[2]]
      BY <2>1, <3>1, <3>2, QuantityAssumption DEF Amounts
    <3>. QED
      BY <2>2, <3>2, <3>3
  <2>3. CASE ~(s[1] = bin /\ s[2] \in parts)
    BY <1>3, <2>1, <2>3
  <2>. QED
    BY <2>2, <2>3
<1>5. ASSUME NEW p \in Parts
      PROVE  /\ onHand'[p] = IF p \in parts
                             THEN onHand[p] + snapshot.counted[p] - balance[<<bin, p>>]
                             ELSE onHand[p]
             /\ onHand'[p] \in Nat
  <2>1. onHand[p] \in Nat
    BY DEF TypeOK
  <2>2. CASE p \in parts
    <3>1. onHand'[p] = onHand[p] + delta[p]
      BY <1>3, <2>2
    <3>2. delta[p] \in Int /\ (delta[p] < 0 => onHand[p] >= -delta[p])
      <4>1. delta[p] = Delta(request(p)) /\ delta[p] \in Int
        BY <1>1, <1>2, <2>2
      <4>2. Accepts(request(p)) /\ request(p).part = p
        BY <1>1, <2>2
      <4>. QED
        BY <4>1, <4>2 DEF Accepts
    <3>3. /\ delta[p] = snapshot.counted[p] - balance[<<bin, p>>]
          /\ snapshot.counted[p] \in Int /\ balance[<<bin, p>>] \in Int
      BY <1>1, <1>2, <2>2, QuantityAssumption DEF Amounts
    <3>. QED
      BY <2>1, <2>2, <3>1, <3>2, <3>3
  <2>3. CASE p \notin parts
    BY <1>3, <2>1, <2>3
  <2>. QED
    BY <2>2, <2>3
<1>6. balance' \in [Slots -> Amounts] /\ onHand' \in [Parts -> Nat]
  BY <1>3, <1>4, <1>5
<1>7. ASSUME NEW m \in movements'
      PROVE  /\ m.bin \in Bins /\ m.part \in Parts /\ m.type \in MovementType
             /\ m.amount \in Amounts /\ m.delta \in Int
  <2>1. CASE m \in movements
    BY <2>1 DEF TypeOK
  <2>2. CASE m \notin movements
    <3>1. PICK p \in parts :
            m = [bin |-> bin, part |-> p, type |-> "ADJUSTMENT", amount |-> snapshot.counted[p],
                 key |-> CountKey(c, p), wo |-> None, delta |-> delta[p]]
      BY <1>3, <2>2
    <3>. QED
      BY <1>1, <1>2, <3>1 DEF MovementType
  <2>. QED
    BY <2>1, <2>2
<1>. QED
  BY <1>4, <1>5, <1>6, <1>7 DEF parts

\* Completing a count moves each part's aggregate as much as its bins.
LEMMA AdjustmentsKeepAggregate ==
  ASSUME TypeOK, AggregateMatchesBins, NEW c, NEW snapshot \in Snapshot,
         snapshot.bin \in Bins, \A p \in Items(snapshot) : snapshot.counted[p] # None,
         AdjustmentsAccepted(c, snapshot), PostAdjustments(c, snapshot), NEW p \in Parts
  PROVE  onHand'[p] = Total(Shelves(p)')
<1>. DEFINE b == snapshot.bin
            new == IF p \in Adjusted(snapshot) THEN snapshot.counted[p] ELSE balance[<<b, p>>]
<1>1. Shelves(p) \in [Bins -> Amounts] /\ onHand[p] = Total(Shelves(p))
  BY DEF Shelves, TypeOK, Slots, AggregateMatchesBins
<1>2. balance[<<b, p>>] \in Amounts /\ Shelves(p)[b] = balance[<<b, p>>]
  BY DEF Shelves, TypeOK, Slots
<1>3. new \in Amounts
  BY <1>2 DEF Adjusted, Items, Snapshot
<1>4. \A x \in Bins : balance'[<<x, p>>] = IF x = b THEN new ELSE balance[<<x, p>>]
  BY AdjustedStock DEF Slots
<1>5. onHand'[p] = onHand[p] + new - balance[<<b, p>>]
  <2>1. onHand[p] \in Nat /\ balance[<<b, p>>] \in Nat
    BY <1>2, QuantityAssumption DEF TypeOK, Amounts
  <2>. QED
    BY <2>1, AdjustedStock
<1>. HIDE DEF new
<1>6. Shelves(p)' = [Shelves(p) EXCEPT ![b] = new]
  BY <1>4 DEF Shelves
<1>7. \A f \in [Bins -> Amounts], n \in Amounts :
        Total([f EXCEPT ![b] = n]) = Total(f) - f[b] + n
  BY FiniteAssumption, TotalExcept
<1>8. Total(Shelves(p)') = Total(Shelves(p)) - balance[<<b, p>>] + new
  BY <1>1, <1>2, <1>3, <1>6, <1>7
<1>9. Total(Shelves(p)) \in Nat /\ balance[<<b, p>>] \in Int /\ new \in Int
  BY <1>1, <1>2, <1>3, TotalType, FiniteAssumption, QuantityAssumption DEF Amounts
<1>. QED
  BY <1>1, <1>5, <1>8, <1>9

\* Every step keeps the counts' types.
LEMMA CountTypesAreKept ==
  ASSUME CountTypeOK, CountsAreKnown, [CountNext]_allVars
  PROVE  CountTypeOK'
<1>. USE DEF countVars
<1>1. CASE InventoryStep \/ UNCHANGED allVars
  <2>1. [Next]_vars /\ UNCHANGED countVars
    BY <1>1 DEF InventoryStep, allVars
  <2>. QED
    BY <2>1, StepKeepsTypes DEF CountTypeOK
<1>2. ASSUME UNCHANGED vars
      PROVE  TypeOK'
  BY <1>2, StepKeepsTypes DEF CountTypeOK
<1>3. ASSUME NEW c \in Counts, NEW b \in Bins, CreateCount(c, b)
      PROVE  CountTypeOK'
  <2>. DEFINE new == [status |-> "OPEN", bin |-> b,
                      expected |-> [p \in Parts |-> IF Listed(b, p) THEN balance[<<b, p>>] ELSE None],
                      counted |-> [p \in Parts |-> None]]
  <2>1. new \in Snapshot
    BY DEF Snapshot, CountTypeOK, TypeOK, Slots
  <2>2. count' = [count EXCEPT ![c] = new] /\ UNCHANGED <<vars, readable, job>>
    BY <1>3 DEF CreateCount
  <2>. QED
    BY <1>2, <2>1, <2>2 DEF CountTypeOK
<1>4. ASSUME NEW k \in Clerks, NEW op \in {"RECORD", "COMPLETE", "CANCEL"}, NEW c \in Counts,
             NEW p \in Parts \cup {None}, NEW q \in Amounts \cup {None}, Begin(k, op, c, p, q)
      PROVE  CountTypeOK'
  <2>1. [op |-> op, id |-> c, read |-> count[c], part |-> p, quantity |-> q] \in Job
    BY DEF Job, CountTypeOK
  <2>. QED
    BY <1>2, <1>4, <2>1 DEF Begin, CountTypeOK
<1>5. ASSUME NEW k \in Clerks, job[k] # None
      PROVE  /\ job[k] \in Job /\ job[k].id \in Counts /\ job[k].read \in Snapshot
             /\ job[k].part \in Parts \cup {None} /\ job[k].quantity \in Amounts \cup {None}
  BY <1>5 DEF CountTypeOK, Job
<1>6. ASSUME NEW k \in Clerks
      PROVE  /\ CommitSerializable(k) \in [Clerks -> Job \cup {None}]
             /\ [job EXCEPT ![k] = None] \in [Clerks -> Job \cup {None}]
  BY DEF CommitSerializable, CountTypeOK
<1>7. ASSUME NEW k \in Clerks, CommitRecord(k)
      PROVE  CountTypeOK'
  <2>. DEFINE new == [job[k].read EXCEPT !.counted[job[k].part] = job[k].quantity]
  <2>1. /\ job[k] # None /\ count' = [count EXCEPT ![job[k].id] = new]
        /\ readable' = [readable EXCEPT ![job[k].id] = TRUE]
        /\ job' = CommitSerializable(k) /\ UNCHANGED vars
    BY <1>7 DEF CommitRecord
  <2>2. new \in Snapshot
    BY <1>5, <2>1 DEF Snapshot
  <2>. HIDE DEF new
  <2>. QED
    BY <1>2, <1>5, <1>6, <2>1, <2>2 DEF CountTypeOK
<1>8. ASSUME NEW k \in Clerks, CommitCancel(k)
      PROVE  CountTypeOK'
  <2>. DEFINE new == [job[k].read EXCEPT !.status = "CANCELLED"]
  <2>1. /\ job[k] # None /\ count' = [count EXCEPT ![job[k].id] = new]
        /\ readable' = [readable EXCEPT ![job[k].id] = TRUE]
        /\ job' = [job EXCEPT ![k] = None] /\ UNCHANGED vars
    BY <1>8 DEF CommitCancel
  <2>2. new \in Snapshot
    BY <1>5, <2>1 DEF Snapshot
  <2>. HIDE DEF new
  <2>. QED
    BY <1>2, <1>5, <1>6, <2>1, <2>2 DEF CountTypeOK
<1>9. ASSUME NEW k \in Clerks, CommitComplete(k)
      PROVE  CountTypeOK'
  <2>. DEFINE new == [job[k].read EXCEPT !.status = "COMPLETED"]
  <2>1. /\ job[k] # None /\ count' = [count EXCEPT ![job[k].id] = new]
        /\ job' = CommitSerializable(k) /\ UNCHANGED <<reservation, usage, setting>>
    BY <1>9 DEF CommitComplete
  <2>2. readable' \in [Counts -> BOOLEAN]
    BY <1>9 DEF CommitComplete, CountTypeOK
  <2>3. new \in Snapshot
    BY <1>5, <2>1 DEF Snapshot
  <2>4. TypeOK'
    <3>1. /\ job[k].read.bin \in Bins
          /\ \A p \in Items(job[k].read) : job[k].read.counted[p] # None
          /\ AdjustmentsAccepted(job[k].id, job[k].read)
          /\ PostAdjustments(job[k].id, job[k].read)
      BY <1>9, <2>1 DEF CommitComplete, CountsAreKnown
    <3>2. /\ balance' \in [Slots -> Amounts]
          /\ onHand' \in [Parts -> Nat]
          /\ \A m \in movements' :
              /\ m.bin \in Bins /\ m.part \in Parts /\ m.type \in MovementType
              /\ m.amount \in Amounts /\ m.delta \in Int
      BY <1>5, <2>1, <3>1, AdjustedStock DEF CountTypeOK
    <3>. QED
      BY <2>1, <3>2 DEF CountTypeOK, TypeOK, usage, setting
  <2>. HIDE DEF new
  <2>. QED
    BY <1>5, <1>6, <2>1, <2>2, <2>3, <2>4 DEF CountTypeOK
<1>10. ASSUME NEW k \in Clerks, EndWithoutCommit(k)
       PROVE  CountTypeOK'
  BY <1>2, <1>6, <1>10 DEF EndWithoutCommit, CountTypeOK
<1>. QED
  BY <1>1, <1>3, <1>4, <1>7, <1>8, <1>9, <1>10 DEF CountNext, CountStep

\* Every step keeps what the transactions on counts know of them.
LEMMA CountKnowledgeIsKept ==
  ASSUME CountInv, [CountNext]_allVars
  PROVE  CountsAreKnown' /\ ReadsAreCurrent'
<1>. USE DEF CountInv
<1>1. CASE UNCHANGED countVars
  BY <1>1 DEF CountsAreKnown, ReadsAreCurrent, countVars
<1>2. ASSUME NEW c \in Counts, NEW b \in Bins, CreateCount(c, b)
      PROVE  CountsAreKnown' /\ ReadsAreCurrent'
  <2>1. /\ count[c].status = "NONE" /\ UNCHANGED job
        /\ count'[c].status = "OPEN" /\ count'[c].bin = b
        /\ \A d \in Counts \ {c} : count'[d] = count[d]
    BY <1>2 DEF CreateCount, NoCount, CountTypeOK
  <2>2. ASSUME NEW k \in Clerks, job[k] # None
        PROVE  job[k].id \in Counts \ {c}
    BY <2>1, <2>2 DEF CountsAreKnown, CountTypeOK, Job
  <2>. QED
    BY <2>1, <2>2 DEF CountsAreKnown, ReadsAreCurrent
<1>3. ASSUME NEW k \in Clerks, NEW op \in {"RECORD", "COMPLETE", "CANCEL"}, NEW c \in Counts,
             NEW p \in Parts \cup {None}, NEW q \in Amounts \cup {None}, Begin(k, op, c, p, q)
      PROVE  CountsAreKnown' /\ ReadsAreCurrent'
  <2>. DEFINE new == [op |-> op, id |-> c, read |-> count[c], part |-> p, quantity |-> q]
  <2>1. /\ count[c].status = "OPEN" /\ count[c].bin \in Bins /\ UNCHANGED count
        /\ job' = [job EXCEPT ![k] = new]
        /\ op = "RECORD" => p \in Parts /\ q \in Amounts
    BY <1>3 DEF Begin, CountsAreKnown, Items
  <2>2. job'[k] = new /\ \A j \in Clerks \ {k} : job'[j] = job[j]
    BY <2>1 DEF CountTypeOK
  <2>. QED
    BY <2>1, <2>2 DEF CountsAreKnown, ReadsAreCurrent
<1>4. ASSUME NEW k \in Clerks, job[k] # None
      PROVE  /\ job[k] \in Job /\ job[k].id \in Counts /\ job[k].read \in Snapshot
             /\ job[k].read.status = "OPEN" /\ job[k].read.bin \in Bins
  BY <1>4 DEF CountTypeOK, Job, CountsAreKnown
\* A Serializable commit replaces the count and aborts the others that read it.
<1>5. ASSUME NEW k \in Clerks, NEW new \in Snapshot, job[k] # None, new.status # "NONE",
             new.bin \in Bins, count' = [count EXCEPT ![job[k].id] = new],
             job' = CommitSerializable(k)
      PROVE  CountsAreKnown' /\ ReadsAreCurrent'
  <2>1. /\ count'[job[k].id] = new
        /\ \A d \in Counts \ {job[k].id} : count'[d] = count[d]
    BY <1>4, <1>5 DEF CountTypeOK
  <2>2. ASSUME NEW j \in Clerks, job'[j] # None
        PROVE  /\ job'[j] = job[j]
               /\ job[j].id = job[k].id => job[j].op = "CANCEL"
    BY <1>5, <2>2 DEF CommitSerializable
  <2>3. ASSUME NEW j \in Clerks, job[j] # None
        PROVE  job[j].id \in Counts
    BY <1>4, <2>3
  <2>4. CountsAreKnown'
    BY <1>5, <2>1, <2>2, <2>3 DEF CountsAreKnown
  <2>. QED
    BY <1>5, <2>1, <2>2, <2>3, <2>4 DEF ReadsAreCurrent
<1>6. ASSUME NEW k \in Clerks, CommitRecord(k)
      PROVE  CountsAreKnown' /\ ReadsAreCurrent'
  <2>. DEFINE new == [job[k].read EXCEPT !.counted[job[k].part] = job[k].quantity]
  <2>1. /\ job[k] # None /\ count' = [count EXCEPT ![job[k].id] = new]
        /\ job' = CommitSerializable(k)
    BY <1>6 DEF CommitRecord
  <2>2. new \in Snapshot /\ new.status = "OPEN" /\ new.bin \in Bins
    BY <1>4, <2>1 DEF Snapshot, Job
  <2>. HIDE DEF new
  <2>. QED
    BY <1>5, <2>1, <2>2
<1>7. ASSUME NEW k \in Clerks, CommitComplete(k)
      PROVE  CountsAreKnown' /\ ReadsAreCurrent'
  <2>. DEFINE new == [job[k].read EXCEPT !.status = "COMPLETED"]
  <2>1. /\ job[k] # None /\ count' = [count EXCEPT ![job[k].id] = new]
        /\ job' = CommitSerializable(k)
    BY <1>7 DEF CommitComplete
  <2>2. new \in Snapshot /\ new.status = "COMPLETED" /\ new.bin \in Bins
    BY <1>4, <2>1 DEF Snapshot
  <2>. HIDE DEF new
  <2>. QED
    BY <1>5, <2>1, <2>2
<1>8. ASSUME NEW k \in Clerks, CommitCancel(k)
      PROVE  CountsAreKnown' /\ ReadsAreCurrent'
  <2>. DEFINE new == [job[k].read EXCEPT !.status = "CANCELLED"]
  <2>1. /\ job[k] # None /\ count' = [count EXCEPT ![job[k].id] = new]
        /\ job' = [job EXCEPT ![k] = None]
    BY <1>8 DEF CommitCancel
  <2>2. new.status = "CANCELLED" /\ new.bin \in Bins
    BY <1>4, <2>1 DEF Snapshot
  <2>. HIDE DEF new
  <2>3. /\ count'[job[k].id] = new
        /\ \A d \in Counts \ {job[k].id} : count'[d] = count[d]
    BY <1>4, <2>1 DEF CountTypeOK
  <2>4. ASSUME NEW j \in Clerks, job'[j] # None
        PROVE  job'[j] = job[j]
    BY <2>1, <2>4 DEF CountTypeOK
  <2>5. ASSUME NEW j \in Clerks, job[j] # None
        PROVE  job[j].id \in Counts
    BY <1>4, <2>5
  <2>6. CountsAreKnown'
    BY <2>2, <2>3, <2>4, <2>5 DEF CountsAreKnown
  <2>. QED
    BY <2>2, <2>3, <2>4, <2>5, <2>6 DEF ReadsAreCurrent
<1>9. ASSUME NEW k \in Clerks, EndWithoutCommit(k)
      PROVE  CountsAreKnown' /\ ReadsAreCurrent'
  <2>1. ASSUME NEW j \in Clerks, job'[j] # None
        PROVE  job'[j] = job[j]
    BY <1>9, <2>1 DEF EndWithoutCommit, CountTypeOK
  <2>. QED
    BY <1>9, <2>1 DEF EndWithoutCommit, CountsAreKnown, ReadsAreCurrent
<1>. QED
  BY <1>1, <1>2, <1>3, <1>6, <1>7, <1>8, <1>9
  DEF CountNext, CountStep, InventoryStep, allVars

LEMMA CountInvHolds == CountSpec => []CountInv
<1>1. CountInit => CountInv
  <2>. SUFFICES ASSUME CountInit PROVE CountInv
    OBVIOUS
  <2>1. TypeOK
    <3>1. NoReservation \in Reservation
      BY AmountsAreNaturals DEF NoReservation, Reservation, ReservationStatus
    <3>. QED
      BY <3>1, AmountsAreNaturals DEF CountInit, Init, TypeOK
  <2>2. NoCount \in Snapshot /\ NoCount.status = "NONE"
    BY DEF NoCount, Snapshot
  <2>. QED
    BY <2>1, <2>2 DEF CountInit, CountInv, CountTypeOK, CountsAreKnown, ReadsAreCurrent
<1>2. CountInv /\ [CountNext]_allVars => CountInv'
  BY CountTypesAreKept, CountKnowledgeIsKept DEF CountInv
<1>. QED
  BY <1>1, <1>2, PTL DEF CountSpec

\* Every state of the inventory with its cycle counts is well typed.
THEOREM CountTypeCorrect == CountSpec => []CountTypeOK
<1>1. CountInv => CountTypeOK
  BY DEF CountInv
<1>. QED
  BY <1>1, CountInvHolds, PTL

\* When a count completes, the bin holds what was counted of each of its items.
THEOREM CompletionIsExact == CountSpec => CompletionLeavesWhatWasCounted
<1>1. ASSUME CountInv, [CountNext]_allVars, NEW c \in Counts,
             count[c].status # "COMPLETED", count'[c].status = "COMPLETED",
             NEW p \in Items(count'[c])
      PROVE  balance'[<<count'[c].bin, p>>] = count'[c].counted[p]
  <2>1. ASSUME NEW k \in Clerks, job[k] # None
        PROVE  /\ job[k].id \in Counts /\ job[k].read \in Snapshot
               /\ job[k].read.status = "OPEN" /\ job[k].read.bin \in Bins
    BY <1>1, <2>1 DEF CountInv, CountTypeOK, Job, CountsAreKnown
  <2>2. count \in [Counts -> Snapshot] /\ TypeOK
    BY <1>1 DEF CountInv, CountTypeOK
  <2>3. ~UNCHANGED count
    BY <1>1
  <2>4. ASSUME NEW d \in Counts, NEW b \in Bins, CreateCount(d, b)
        PROVE  count'[c].status # "COMPLETED"
    BY <1>1, <2>2, <2>4 DEF CreateCount
  <2>5. ASSUME NEW k \in Clerks, CommitRecord(k) \/ CommitCancel(k)
        PROVE  count'[c].status # "COMPLETED"
    <3>1. PICK new : /\ new.status # "COMPLETED" /\ job[k] # None
                     /\ count' = [count EXCEPT ![job[k].id] = new]
      <4>1. CASE CommitRecord(k)
        <5>. WITNESS [job[k].read EXCEPT !.counted[job[k].part] = job[k].quantity]
        <5>1. job[k] # None
          BY <4>1 DEF CommitRecord
        <5>. QED
          BY <2>1, <4>1, <5>1 DEF CommitRecord, Snapshot
      <4>2. CASE CommitCancel(k)
        <5>. WITNESS [job[k].read EXCEPT !.status = "CANCELLED"]
        <5>1. job[k] # None
          BY <4>2 DEF CommitCancel
        <5>. QED
          BY <2>1, <4>2, <5>1 DEF CommitCancel, Snapshot
      <4>. QED
        BY <2>5, <4>1, <4>2
    <3>. QED
      BY <1>1, <2>2, <3>1
  <2>6. PICK k \in Clerks : CommitComplete(k)
    BY <1>1, <2>3, <2>4, <2>5
    DEF CountNext, CountStep, InventoryStep, Begin, EndWithoutCommit, allVars, countVars
  <2>. DEFINE read == job[k].read
  <2>7. /\ job[k] # None
        /\ \A x \in Items(read) : read.counted[x] # None
        /\ ~Stale(read)
        /\ AdjustmentsAccepted(job[k].id, read)
        /\ PostAdjustments(job[k].id, read)
        /\ count' = [count EXCEPT ![job[k].id] = [read EXCEPT !.status = "COMPLETED"]]
    BY <2>6 DEF CommitComplete
  <2>8. read \in Snapshot /\ read.bin \in Bins
    BY <2>1, <2>7
  <2>9. count'[c] = [read EXCEPT !.status = "COMPLETED"]
    BY <1>1, <2>2, <2>7
  <2>10. /\ count'[c].bin = read.bin /\ count'[c].counted = read.counted
         /\ Items(count'[c]) = Items(read)
    BY <2>8, <2>9 DEF Snapshot, Items
  <2>. HIDE DEF read
  <2>11. p \in Items(read) /\ <<read.bin, p>> \in Slots
    BY <2>8, <2>10 DEF Items, Slots
  <2>12. balance'[<<read.bin, p>>] =
           IF p \in Adjusted(read) THEN read.counted[p] ELSE balance[<<read.bin, p>>]
    BY <2>2, <2>7, <2>8, <2>11, AdjustedStock
  <2>13. balance[<<read.bin, p>>] = read.expected[p]
    BY <2>7, <2>11 DEF Stale
  <2>. QED
    BY <2>10, <2>11, <2>12, <2>13 DEF Adjusted
<1>2. CountInv /\ [CountNext]_allVars =>
        [\A c \in Counts :
            count[c].status # "COMPLETED" /\ count'[c].status = "COMPLETED" =>
                \A p \in Items(count'[c]) :
                    balance'[<<count'[c].bin, p>>] = count'[c].counted[p]]_allVars
  BY <1>1
<1>. QED
  BY <1>2, CountInvHolds, PTL DEF CountSpec, CompletionLeavesWhatWasCounted

\* An item once counted stays counted while its count is open.
THEOREM CountingIsKept == CountSpec => CountedItemsStayCounted
<1>1. ASSUME CountInv, [CountNext]_allVars, NEW c \in Counts, NEW p \in Parts,
             count[c].status = "OPEN", count'[c].status = "OPEN", count[c].counted[p] # None
      PROVE  count'[c].counted[p] # None
  <2>1. ASSUME NEW k \in Clerks, job[k] # None
        PROVE  job[k] \in Job /\ job[k].id \in Counts /\ job[k].read \in Snapshot
    BY <1>1, <2>1 DEF CountInv, CountTypeOK, Job
  <2>2. count \in [Counts -> Snapshot]
    BY <1>1 DEF CountInv, CountTypeOK
  <2>3. CASE UNCHANGED count
    BY <1>1, <2>3
  <2>4. ASSUME NEW d \in Counts, NEW b \in Bins, CreateCount(d, b)
        PROVE  count'[c] = count[c]
    BY <1>1, <2>2, <2>4 DEF CreateCount, NoCount
  <2>5. ASSUME NEW k \in Clerks, CommitComplete(k) \/ CommitCancel(k)
        PROVE  count'[c] = count[c]
    <3>1. PICK new : /\ new.status # "OPEN" /\ job[k] # None
                     /\ count' = [count EXCEPT ![job[k].id] = new]
      <4>1. CASE CommitComplete(k)
        <5>. WITNESS [job[k].read EXCEPT !.status = "COMPLETED"]
        <5>1. job[k] # None
          BY <4>1 DEF CommitComplete
        <5>. QED
          BY <2>1, <4>1, <5>1 DEF CommitComplete, Snapshot
      <4>2. CASE CommitCancel(k)
        <5>. WITNESS [job[k].read EXCEPT !.status = "CANCELLED"]
        <5>1. job[k] # None
          BY <4>2 DEF CommitCancel
        <5>. QED
          BY <2>1, <4>2, <5>1 DEF CommitCancel, Snapshot
      <4>. QED
        BY <2>5, <4>1, <4>2
    <3>. QED
      BY <1>1, <2>2, <3>1
  <2>6. ASSUME NEW k \in Clerks, CommitRecord(k)
        PROVE  count'[c].counted[p] # None
    <3>. DEFINE read == job[k].read
                new == [read EXCEPT !.counted[job[k].part] = job[k].quantity]
    <3>1. /\ job[k] # None /\ job[k].op = "RECORD"
          /\ count' = [count EXCEPT ![job[k].id] = new]
      BY <2>6 DEF CommitRecord
    <3>2. CASE job[k].id # c
      BY <1>1, <2>2, <3>1, <3>2
    <3>3. CASE job[k].id = c
      <4>1. read = count[c] /\ job[k].quantity # None /\ job[k].part \in Parts
        BY <1>1, <3>1, <3>3, CountNoneAssumption DEF CountInv, ReadsAreCurrent, CountsAreKnown
      <4>2. count'[c] = new
        BY <2>2, <3>1, <3>3
      <4>3. new.counted[p] = IF p = job[k].part THEN job[k].quantity ELSE read.counted[p]
        BY <2>1, <3>1, <4>1 DEF Snapshot
      <4>. QED
        BY <1>1, <4>1, <4>2, <4>3
    <3>. QED
      BY <3>2, <3>3
  <2>. QED
    BY <1>1, <2>3, <2>4, <2>5, <2>6
    DEF CountNext, CountStep, InventoryStep, Begin, EndWithoutCommit, allVars, countVars
<1>2. CountInv /\ [CountNext]_allVars =>
        [\A c \in Counts, p \in Parts :
            count[c].status = "OPEN" /\ count'[c].status = "OPEN" /\ count[c].counted[p] # None
                => count'[c].counted[p] # None]_allVars
  BY <1>1
<1>. QED
  BY <1>2, CountInvHolds, PTL DEF CountSpec, CountedItemsStayCounted

\* The adjustments of a count take no stock that is reserved.
LEMMA AdjustmentsKeepReserved ==
  ASSUME TypeOK, ReservedWithinStock, NEW c, NEW snapshot \in Snapshot,
         snapshot.bin \in Bins, \A p \in Items(snapshot) : snapshot.counted[p] # None,
         AdjustmentsAccepted(c, snapshot), PostAdjustments(c, snapshot), UNCHANGED reservation
  PROVE  ReservedWithinStock'
<1>. SUFFICES ASSUME NEW s \in Slots
              PROVE  ReservedBy(WorkOrders, s)' <= balance'[s]
  BY DEF ReservedWithinStock
<1>1. /\ ReservedBy(WorkOrders, s)' = ReservedBy(WorkOrders, s)
      /\ ReservedBy(WorkOrders, s) \in Nat
      /\ ReservedForOthers(None, s) = ReservedBy(WorkOrders, s)
  BY NoReservationChanged, ReservedSplit
<1>2. ReservedBy(WorkOrders, s) <= balance[s] /\ balance[s] \in Nat
  BY QuantityAssumption DEF ReservedWithinStock, TypeOK, Amounts
<1>3. CASE s[1] = snapshot.bin /\ s[2] \in Adjusted(snapshot)
  <2>. DEFINE p == s[2]
              r == Adjustment(c, snapshot, p)
  <2>1. s = <<snapshot.bin, p>> /\ snapshot.counted[p] \in Nat
    BY <1>3, QuantityAssumption DEF Slots, Adjusted, Items, Snapshot, Amounts
  <2>2. balance'[s] = snapshot.counted[p]
    BY <1>3, AdjustedStock
  <2>3. Accepts(r)
    BY <1>3 DEF AdjustmentsAccepted
  <2>4. SlotOf(r) = s /\ Delta(r) = snapshot.counted[p] - balance[s] /\ r.wo = None
    BY <2>1 DEF Adjustment, MovementRequest, SlotOf, Delta
  <2>. HIDE DEF r, p
  <2>5. Delta(r) < 0 => balance[s] - ReservedBy(WorkOrders, s) >= -Delta(r)
    BY <1>1, <2>3, <2>4 DEF Accepts
  <2>. QED
    BY <1>1, <1>2, <2>1, <2>2, <2>4, <2>5
<1>4. CASE ~(s[1] = snapshot.bin /\ s[2] \in Adjusted(snapshot))
  <2>1. balance'[s] = balance[s]
    BY <1>4, AdjustedStock
  <2>. QED
    BY <1>1, <1>2, <2>1
<1>. QED
  BY <1>3, <1>4

\* The adjustments of a count book one row for each slot they change.
LEMMA AdjustmentsKeepLedger ==
  ASSUME TypeOK, LedgerInv, NEW c, NEW snapshot \in Snapshot, snapshot.bin \in Bins,
         \A p \in Items(snapshot) : snapshot.counted[p] # None,
         AdjustmentsAccepted(c, snapshot), PostAdjustments(c, snapshot)
  PROVE  LedgerInv'
<1>. DEFINE bin == snapshot.bin
            parts == Adjusted(snapshot)
            delta == [p \in parts |-> Delta(Adjustment(c, snapshot, p))]
            row(p) == [bin |-> bin, part |-> p, type |-> "ADJUSTMENT",
                       amount |-> snapshot.counted[p], key |-> CountKey(c, p), wo |-> None,
                       delta |-> delta[p]]
            new == {row(p) : p \in parts}
<1>1. movements' = movements \cup new
  BY DEF PostAdjustments
<1>2. ASSUME NEW p \in parts
      PROVE  /\ delta[p] = snapshot.counted[p] - balance[<<bin, p>>]
             /\ delta[p] \in -MaxQuantity..MaxQuantity
             /\ row(p) \notin movements
             /\ SlotOf(row(p)) = <<bin, p>>
  <2>1. <<bin, p>> \in Slots /\ snapshot.counted[p] \in Amounts
    BY DEF Slots, Adjusted, Items, Snapshot
  <2>2. balance[<<bin, p>>] \in Amounts
    BY <2>1 DEF TypeOK
  <2>3. delta[p] = snapshot.counted[p] - balance[<<bin, p>>]
    BY DEF Adjustment, MovementRequest, Delta, SlotOf
  <2>4. Accepts(Adjustment(c, snapshot, p))
    BY DEF AdjustmentsAccepted
  <2>5. row(p).bin = bin /\ row(p).part = p /\ row(p).key = CountKey(c, p)
    OBVIOUS
  <2>. HIDE DEF row, delta
  <2>6. row(p) \notin movements
    BY <2>4, <2>5 DEF Accepts, Filed, Adjustment, MovementRequest
  <2>7. delta[p] \in -MaxQuantity..MaxQuantity
    BY <2>1, <2>2, <2>3, QuantityAssumption DEF Amounts
  <2>. QED
    BY <2>3, <2>5, <2>6, <2>7 DEF SlotOf
<1>3. /\ \A p \in parts : row(p).delta = delta[p] /\ row(p) \in new
      /\ \A m \in new : \E p \in parts : m = row(p)
  OBVIOUS
<1>. HIDE DEF row, delta, new
<1>4. \A m \in movements' : m.delta \in -MaxQuantity..MaxQuantity
  BY <1>1, <1>2, <1>3 DEF LedgerInv, RowsFit, new
<1>5. IsFiniteSet(movements')
  <2>1. IsFiniteSet(parts)
    BY FiniteAssumption, FS_Subset DEF Adjusted, Items
  <2>2. IsFiniteSet(new)
    <3>. DEFINE f == [p \in parts |-> row(p)]
    <3>1. f \in Surjection(parts, new)
      <4>1. \A p \in parts : f[p] = row(p) /\ row(p) \in new
        BY <1>3
      <4>2. f \in [parts -> new]
        BY <4>1
      <4>3. \A m \in new : \E p \in parts : f[p] = m
        BY <1>3, <4>1
      <4>. HIDE DEF f
      <4>. QED
        BY <4>2, <4>3 DEF Surjection
    <3>. HIDE DEF f
    <3>. QED
      BY <2>1, <3>1, FS_Surjection
  <2>. QED
    BY <1>1, <2>2, FS_Union DEF LedgerInv, RowsFit
<1>6. ASSUME NEW s \in Slots
      PROVE  balance'[s] = Total(Arrived(Rows(s)')) - Total(Withdrawn(Rows(s)'))
  <2>1. balance[s] = Total(Arrived(Rows(s))) - Total(Withdrawn(Rows(s)))
    BY DEF LedgerInv, LedgerExplainsBalances, Rows, Arrived, Withdrawn
  <2>2. CASE s[1] = bin /\ s[2] \in parts
    <3>1. s = <<bin, s[2]>>
      BY <2>2 DEF Slots
    <3>2. Rows(s)' = Rows(s) \cup {row(s[2])} /\ row(s[2]) \notin Rows(s)
      <4>1. ASSUME NEW m \in new, SlotOf(m) = s
            PROVE  m = row(s[2])
        <5>1. PICK p \in parts : m = row(p)
          BY <1>3
        <5>2. s = <<bin, p>>
          BY <1>2, <4>1, <5>1
        <5>. QED
          BY <5>1, <5>2
      <4>2. row(s[2]) \in new /\ SlotOf(row(s[2])) = s /\ row(s[2]) \notin movements
        BY <1>2, <1>3, <2>2, <3>1
      <4>. QED
        BY <1>1, <4>1, <4>2 DEF Rows
    <3>3. IsFiniteSet(Rows(s)) /\ \A m \in Rows(s)' : m.delta \in -MaxQuantity..MaxQuantity
      BY <1>4, FS_Subset DEF Rows, LedgerInv, RowsFit
    <3>4. Total(Arrived(Rows(s)')) - Total(Withdrawn(Rows(s)'))
            = Total(Arrived(Rows(s))) - Total(Withdrawn(Rows(s))) + delta[s[2]]
      BY <1>3, <2>2, <3>2, <3>3, OneRowMore
    <3>5. balance'[s] = snapshot.counted[s[2]] /\ balance[s] \in Nat
      BY <2>2, AdjustedStock, QuantityAssumption DEF TypeOK, Amounts
    <3>6. /\ delta[s[2]] = snapshot.counted[s[2]] - balance[s]
          /\ snapshot.counted[s[2]] \in Nat
      BY <1>2, <2>2, <3>1, QuantityAssumption DEF Adjusted, Items, Snapshot, Amounts
    <3>. QED
      BY <2>1, <3>4, <3>5, <3>6
  <2>3. CASE ~(s[1] = bin /\ s[2] \in parts)
    <3>1. balance'[s] = balance[s]
      BY <2>3, AdjustedStock
    <3>2. Rows(s)' = Rows(s)
      <4>1. ASSUME NEW m \in new
            PROVE  SlotOf(m) # s
        <5>1. PICK p \in parts : m = row(p)
          BY <1>3
        <5>2. SlotOf(m) = <<bin, p>>
          BY <1>2, <5>1
        <5>. QED
          BY <2>3, <5>2
      <4>. QED
        BY <1>1, <4>1 DEF Rows
    <3>. QED
      BY <2>1, <3>1, <3>2
  <2>. QED
    BY <2>2, <2>3
<1>. QED
  BY <1>4, <1>5, <1>6
  DEF LedgerInv, RowsFit, LedgerExplainsBalances, Rows, Arrived, Withdrawn

\* What a step on a count does to the stock: nothing, or it posts adjustments.
LEMMA CountStepPosts ==
  ASSUME CountInv, [CountNext]_allVars, ~[Next]_vars
  PROVE  \E c \in Counts, snapshot \in Snapshot :
            /\ snapshot.bin \in Bins
            /\ \A p \in Items(snapshot) : snapshot.counted[p] # None
            /\ AdjustmentsAccepted(c, snapshot) /\ PostAdjustments(c, snapshot)
            /\ UNCHANGED reservation
<1>1. PICK k \in Clerks : CommitComplete(k)
  BY DEF CountNext, CountStep, InventoryStep, CreateCount, Begin, CommitRecord, CommitCancel,
         EndWithoutCommit, allVars
<1>. DEFINE read == job[k].read
<1>2. /\ job[k] # None
      /\ \A x \in Items(read) : read.counted[x] # None
      /\ AdjustmentsAccepted(job[k].id, read)
      /\ PostAdjustments(job[k].id, read)
      /\ UNCHANGED reservation
  BY <1>1 DEF CommitComplete
<1>3. job[k].id \in Counts /\ read \in Snapshot /\ read.bin \in Bins
  BY <1>2 DEF CountInv, CountTypeOK, Job, CountsAreKnown
<1>. HIDE DEF read
<1>. QED
  BY <1>2, <1>3

\* The parts' aggregates survive completed counts as well.
THEOREM CountsKeepTheAggregate == CountSpec => []AggregateMatchesBins
<1>1. CountInit => AggregateMatchesBins
  BY NothingOnHandAtFirst DEF CountInit
<1>2. CountInv /\ AggregateMatchesBins /\ [CountNext]_allVars => AggregateMatchesBins'
  <2>. SUFFICES ASSUME CountInv, AggregateMatchesBins, [CountNext]_allVars
                PROVE  AggregateMatchesBins'
    OBVIOUS
  <2>1. CASE [Next]_vars
    BY <2>1, StepKeepsAggregate DEF CountInv, CountTypeOK
  <2>2. CASE ~[Next]_vars
    <3>1. \A p \in Parts : onHand'[p] = Total(Shelves(p)')
      BY <2>2, CountStepPosts, AdjustmentsKeepAggregate DEF CountInv, CountTypeOK
    <3>. QED
      BY <3>1 DEF AggregateMatchesBins, Shelves
  <2>. QED
    BY <2>1, <2>2
<1>. QED
  BY <1>1, <1>2, CountInvHolds, PTL DEF CountSpec

\* Completed counts take no reserved stock.
THEOREM CountsRespectReservations == CountSpec => []ReservedWithinStock
<1>1. CountInit => ReservedWithinStock
  BY NothingReservedAtFirst DEF CountInit
<1>2. CountInv /\ ReservedWithinStock /\ [CountNext]_allVars => ReservedWithinStock'
  BY CountStepPosts, StepKeepsReserved, AdjustmentsKeepReserved DEF CountInv, CountTypeOK
<1>. QED
  BY <1>1, <1>2, CountInvHolds, PTL DEF CountSpec

\* The ledger explains the adjustments of completed counts as well.
THEOREM CountsAreLedgered == CountSpec => []LedgerExplainsBalances
<1>1. CountInit => LedgerInv
  BY LedgerStartsEmpty DEF CountInit
<1>2. CountInv /\ LedgerInv /\ [CountNext]_allVars => LedgerInv'
  BY CountStepPosts, StepKeepsLedger, AdjustmentsKeepLedger DEF CountInv, CountTypeOK
<1>3. LedgerInv => LedgerExplainsBalances
  BY DEF LedgerInv
<1>. QED
  BY <1>1, <1>2, <1>3, CountInvHolds, PTL DEF CountSpec

---------------------------------------------------------------------------
(* Purchase requests and suppliers.                                        *)

\* The snapshots of a purchase request.
Snapshots == PurchaseRequestSnapshot
SnapshotRows == [before: Snapshots \cup {Absent}, after: Snapshots]

\* What a handler may be about.
Jobs ==
    [stage: {"REST"}] \cup
    [stage: {"RESOLVE"}, previous: Snapshots \cup {Absent}, input: Line] \cup
    [stage: {"APPEND"}, previous: Snapshots \cup {Absent}, snapshot: Snapshots] \cup
    [stage: {"CLEAR"}, supplier: Suppliers, preferred: BOOLEAN, active: BOOLEAN] \cup
    [stage: {"WRITE"}, supplier: Suppliers, cleared: SUBSET Suppliers, written: Reference] \cup
    [stage: {"DISABLE"}, supplier: Suppliers] \cup
    [stage: {"SUPPLIER"}, supplier: Suppliers, current: BOOLEAN, active: BOOLEAN]

Typed ==
    /\ requestLog \in Seq(SnapshotRows)
    /\ supplierActive \in [Suppliers -> BOOLEAN]
    /\ reference \in [Suppliers -> Reference \cup {Absent}]
    /\ partActive \in BOOLEAN /\ overlapped \in BOOLEAN
    /\ buying \in [Buyers -> Jobs]
    /\ \A h \in Buyers : buying[h].stage = "WRITE" =>
         \A o \in buying[h].cleared : reference[o] # Absent

LEMMA JobFields ==
  ASSUME NEW j \in Jobs
  PROVE  /\ j.stage = "REST" => j = AtRest
         /\ j.stage = "RESOLVE" => j.previous \in Snapshots \cup {Absent} /\ j.input \in Line
         /\ j.stage = "APPEND" => j.previous \in Snapshots \cup {Absent} /\ j.snapshot \in Snapshots
         /\ j.stage = "CLEAR" =>
              j.supplier \in Suppliers /\ j.preferred \in BOOLEAN /\ j.active \in BOOLEAN
         /\ j.stage = "WRITE" =>
              j.supplier \in Suppliers /\ j.cleared \in SUBSET Suppliers /\ j.written \in Reference
         /\ j.stage = "DISABLE" => j.supplier \in Suppliers
         /\ j.stage = "SUPPLIER" =>
              j.supplier \in Suppliers /\ j.current \in BOOLEAN /\ j.active \in BOOLEAN
  BY DEF Jobs, AtRest

LEMMA RestIsJob == AtRest \in Jobs /\ AtRest.stage = "REST"
  BY DEF AtRest, Jobs

\* The newest snapshot of a log.
LEMMA LatestType ==
  ASSUME NEW log \in Seq(SnapshotRows)
  PROVE  /\ latest(log) \in Snapshots \cup {Absent}
         /\ log = << >> => latest(log) = Absent
         /\ log # << >> => Len(log) \in 1..Len(log) /\ latest(log) = log[Len(log)].after
<1>1. CASE log = << >>
  BY <1>1 DEF latest
<1>2. CASE log # << >>
  <2>1. Len(log) \in 1..Len(log) /\ log[Len(log)] \in SnapshotRows
    BY <1>2
  <2>. QED
    BY <1>2, <2>1 DEF latest, SnapshotRows
<1>. QED
  BY <1>1, <1>2

\* A row more.
LEMMA OneSnapshotMore ==
  ASSUME NEW log \in Seq(SnapshotRows), NEW row \in SnapshotRows
  PROVE  /\ Append(log, row) \in Seq(SnapshotRows)
         /\ Append(log, row) # << >>
         /\ Len(Append(log, row)) = Len(log) + 1
         /\ Append(log, row)[Len(log) + 1] = row
         /\ \A i \in 1..Len(log) : Append(log, row)[i] = log[i]
         /\ latest(Append(log, row)) = row.after
  BY DEF latest

\* What resolving makes of a line.
LEMMA ResolvedLine ==
  ASSUME NEW input \in Line, NEW s \in resolveLines(input)
  PROVE  [input EXCEPT !.supplier = s] \in Line
<1>1. s \in Suppliers \cup {Absent}
  BY DEF resolveLines, Line
<1>. QED
  BY <1>1 DEF Line

\* A step that changes one handler's task.
OnlyJob(h, task) == buying' = [buying EXCEPT ![h] = task]

\* What becomes of the jobs when one handler goes on with another.
LEMMA OneJobChanged ==
  ASSUME Typed, NEW h \in Buyers, NEW task \in Jobs, OnlyJob(h, task)
  PROVE  /\ buying' \in [Buyers -> Jobs] /\ buying'[h] = task
         /\ \A g \in Buyers \ {h} : buying'[g] = buying[g]
  BY DEF Typed, OnlyJob

\* What each of a handler's steps makes it do next.
LEMMA RequestJobs ==
  ASSUME Typed, NEW h \in Buyers, RequestStep(h)
  PROVE  \/ \E previous \in Snapshots \cup {Absent}, input \in Line :
              /\ Arrives(h, [stage |-> "RESOLVE", previous |-> previous, input |-> input])
              /\ previous = latest(requestLog)
              /\ previous = Absent \/ previous.status = "DRAFT"
              /\ UNCHANGED Records
         \/ \E previous \in Snapshots, snapshot \in Snapshots :
              /\ Arrives(h, [stage |-> "APPEND", previous |-> previous, snapshot |-> snapshot])
              /\ previous = latest(requestLog) /\ requestLog # << >>
              /\ previous.status \in {"DRAFT", "SUBMITTED"}
              /\ snapshot.status \in {"APPROVED", "REJECTED"} =>
                    previous = [snapshot EXCEPT !.status = "SUBMITTED"]
              /\ UNCHANGED Records
         \/ \E snapshot \in Snapshots :
              /\ buying[h].stage = "RESOLVE"
              /\ Proceeds(h, [stage |-> "APPEND", previous |-> buying[h].previous,
                              snapshot |-> snapshot])
              /\ snapshot.status =
                    IF buying[h].previous = Absent THEN "DRAFT" ELSE buying[h].previous.status
              /\ UNCHANGED Records
         \/ appendSnapshot(h)
<1>1. /\ latest(requestLog) \in Snapshots \cup {Absent}
      /\ requestLog = << >> => latest(requestLog) = Absent
  BY LatestType DEF Typed
<1>2. ASSUME NEW input \in Line,
             createPurchaseRequest(h, input) \/ updatePurchaseRequestDraft(h, input)
      PROVE  LET previous == latest(requestLog)
             IN  /\ Arrives(h, [stage |-> "RESOLVE", previous |-> previous, input |-> input])
                 /\ previous = Absent \/ previous.status = "DRAFT"
                 /\ UNCHANGED Records
  BY <1>2 DEF createPurchaseRequest, updatePurchaseRequestDraft
<1>3. ASSUME NEW action \in {"SUBMIT", "APPROVE", "REJECT", "CANCEL"},
             transitionPurchaseRequest(h, action)
      PROVE  \E previous \in Snapshots, snapshot \in Snapshots :
              /\ Arrives(h, [stage |-> "APPEND", previous |-> previous, snapshot |-> snapshot])
              /\ previous = latest(requestLog) /\ requestLog # << >>
              /\ previous.status \in {"DRAFT", "SUBMITTED"}
              /\ snapshot.status \in {"APPROVED", "REJECTED"} =>
                    previous = [snapshot EXCEPT !.status = "SUBMITTED"]
              /\ UNCHANGED Records
  <2>. DEFINE previous == latest(requestLog)
              next == nextStatus(previous.status, action)
              snapshot == [previous EXCEPT !.status = next]
  <2>1. /\ previous \in Snapshots /\ next # Absent /\ requestLog # << >>
        /\ Arrives(h, [stage |-> "APPEND", previous |-> previous, snapshot |-> snapshot])
        /\ UNCHANGED Records
    BY <1>1, <1>3 DEF transitionPurchaseRequest
  <2>2. /\ next \in {"SUBMITTED", "APPROVED", "REJECTED", "CANCELLED"}
        /\ previous.status \in {"DRAFT", "SUBMITTED"}
        /\ next \in {"APPROVED", "REJECTED"} => previous.status = "SUBMITTED"
    BY <2>1 DEF nextStatus
  <2>. HIDE DEF next, previous
  <2>3. /\ snapshot \in Snapshots /\ snapshot.status = next
        /\ [snapshot EXCEPT !.status = "SUBMITTED"] = [previous EXCEPT !.status = "SUBMITTED"]
    BY <2>1, <2>2 DEF Snapshots, PurchaseRequestSnapshot
  <2>4. next \in {"APPROVED", "REJECTED"} => previous = [snapshot EXCEPT !.status = "SUBMITTED"]
    BY <2>1, <2>2, <2>3 DEF Snapshots, PurchaseRequestSnapshot
  <2>. HIDE DEF snapshot
  <2>. QED
    BY <2>1, <2>2, <2>3, <2>4 DEF previous
<1>4. CASE Resolve(h)
  <2>. DEFINE j == buying[h]
  <2>1. j \in Jobs /\ j.stage = "RESOLVE"
    BY <1>4 DEF Resolve, Typed
  <2>2. j.previous \in Snapshots \cup {Absent} /\ j.input \in Line
    BY <2>1, JobFields
  <2>3. PICK s \in resolveLines(j.input) :
          LET line == [j.input EXCEPT !.supplier = s]
          IN  Proceeds(h, [stage |-> "APPEND", previous |-> j.previous,
                 snapshot |-> IF j.previous = Absent
                              THEN [status |-> "DRAFT", payload |-> j.input, line |-> line]
                              ELSE [j.previous EXCEPT !.line = line]])
    BY <1>4 DEF Resolve
  <2>. DEFINE line == [j.input EXCEPT !.supplier = s]
              snapshot == IF j.previous = Absent
                          THEN [status |-> "DRAFT", payload |-> j.input, line |-> line]
                          ELSE [j.previous EXCEPT !.line = line]
  <2>4. line \in Line
    BY <2>2, ResolvedLine
  <2>. HIDE DEF line
  <2>5. Proceeds(h, [stage |-> "APPEND", previous |-> j.previous, snapshot |-> snapshot])
    BY <2>3 DEF line
  <2>. HIDE DEF j
  <2>6. /\ snapshot \in Snapshots
        /\ snapshot.status = IF j.previous = Absent THEN "DRAFT" ELSE j.previous.status
    BY <2>2, <2>4 DEF Snapshots, PurchaseRequestSnapshot
  <2>. HIDE DEF snapshot
  <2>. QED
    BY <1>4, <2>1, <2>5, <2>6 DEF Resolve, j
<1>. QED
  BY <1>1, <1>2, <1>3, <1>4 DEF RequestStep

LEMMA SupplyJobs ==
  ASSUME Typed, NEW h \in Buyers, ReferenceStep(h) \/ DisableStep(h) \/ SupplierStep(h)
  PROVE  \/ \E s \in Suppliers, preferred \in BOOLEAN, active \in BOOLEAN :
              /\ supplierActive[s]
              /\ Arrives(h, [stage |-> "CLEAR", supplier |-> s, preferred |-> preferred,
                             active |-> active])
              /\ UNCHANGED Records
         \/ \E s \in Suppliers, cleared \in SUBSET Suppliers, written \in Reference :
              /\ buying[h].stage = "CLEAR" /\ s = buying[h].supplier
              /\ Proceeds(h, [stage |-> "WRITE", supplier |-> s, cleared |-> cleared,
                              written |-> written])
              /\ s \notin cleared /\ \A o \in cleared : reference[o] # Absent
              /\ written.preferred => written.active
              /\ written.preferred => \A o \in Suppliers \ {s} :
                    reference[o] # Absent /\ reference[o].preferred /\ reference[o].active
                      => o \in cleared
              /\ UNCHANGED Records
         \/ UpsertReference(h)
         \/ \E s \in Suppliers :
              /\ Arrives(h, [stage |-> "DISABLE", supplier |-> s])
              /\ UNCHANGED Records
         \/ Disable(h)
         \/ \E s \in Suppliers, active \in BOOLEAN :
              /\ Arrives(h, [stage |-> "SUPPLIER", supplier |-> s, current |-> supplierActive[s],
                             active |-> active])
              /\ UNCHANGED Records
         \/ WriteSupplier(h)
<1>1. ASSUME ClearPreferred(h)
      PROVE  \E s \in Suppliers, cleared \in SUBSET Suppliers, written \in Reference :
              /\ buying[h].stage = "CLEAR" /\ s = buying[h].supplier
              /\ Proceeds(h, [stage |-> "WRITE", supplier |-> s, cleared |-> cleared,
                              written |-> written])
              /\ s \notin cleared /\ \A o \in cleared : reference[o] # Absent
              /\ written.preferred => written.active
              /\ written.preferred => \A o \in Suppliers \ {s} :
                    reference[o] # Absent /\ reference[o].preferred /\ reference[o].active
                      => o \in cleared
              /\ UNCHANGED Records
  <2>. DEFINE j == buying[h]
              others == OthersPreferred(j.supplier, j.preferred, j.active)
              written == [preferred |-> j.preferred /\ j.active, active |-> j.active]
  <2>1. /\ j.stage = "CLEAR"
        /\ Proceeds(h, [stage |-> "WRITE", supplier |-> j.supplier, cleared |-> others,
                        written |-> written])
        /\ UNCHANGED Records
    BY <1>1 DEF ClearPreferred
  <2>2. j.supplier \in Suppliers /\ j.preferred \in BOOLEAN /\ j.active \in BOOLEAN
    BY <2>1, JobFields DEF Typed
  <2>3. others \in SUBSET Suppliers /\ written \in Reference
    BY <2>2 DEF OthersPreferred, Reference
  <2>4. j.supplier \notin others /\ \A o \in others : reference[o] # Absent
    BY DEF OthersPreferred
  <2>5. /\ written.preferred => written.active
        /\ written.preferred => \A o \in Suppliers \ {j.supplier} :
              reference[o] # Absent /\ reference[o].preferred /\ reference[o].active => o \in others
    BY DEF OthersPreferred
  <2>. HIDE DEF j, others, written
  <2>. QED
    BY <2>1, <2>2, <2>3, <2>4, <2>5 DEF j
<1>2. ASSUME NEW s \in Suppliers, NEW preferred \in BOOLEAN, NEW active \in BOOLEAN,
             setPartSupplierReference(h, s, preferred, active)
      PROVE  /\ supplierActive[s]
             /\ Arrives(h, [stage |-> "CLEAR", supplier |-> s, preferred |-> preferred,
                            active |-> active])
             /\ UNCHANGED Records
  BY <1>2 DEF setPartSupplierReference
<1>3. ASSUME NEW s \in Suppliers, disablePartSupplierReference(h, s)
      PROVE  Arrives(h, [stage |-> "DISABLE", supplier |-> s]) /\ UNCHANGED Records
  BY <1>3 DEF disablePartSupplierReference
<1>4. ASSUME NEW s \in Suppliers, NEW active \in BOOLEAN, updateSupplier(h, s, active)
      PROVE  /\ Arrives(h, [stage |-> "SUPPLIER", supplier |-> s, current |-> supplierActive[s],
                            active |-> active])
             /\ UNCHANGED Records
  BY <1>4 DEF updateSupplier
<1>. QED
  BY <1>1, <1>2, <1>3, <1>4 DEF ReferenceStep, DisableStep, SupplierStep

\* What is written on the references.
LEMMA WrittenReferences ==
  ASSUME Typed, NEW h \in Buyers
  PROVE  /\ UpsertReference(h) =>
              /\ buying[h].supplier \in Suppliers /\ buying[h].written \in Reference
              /\ reference' \in [Suppliers -> Reference \cup {Absent}]
              /\ \A o \in Suppliers : reference'[o] =
                    IF o = buying[h].supplier THEN buying[h].written
                    ELSE IF o \in buying[h].cleared THEN [reference[o] EXCEPT !.preferred = FALSE]
                    ELSE reference[o]
         /\ Disable(h) =>
              /\ buying[h].supplier \in Suppliers
              /\ reference' = [reference EXCEPT ![buying[h].supplier] =
                                  [preferred |-> FALSE, active |-> FALSE]]
              /\ reference' \in [Suppliers -> Reference \cup {Absent}]
         /\ WriteSupplier(h) =>
              /\ buying[h].supplier \in Suppliers /\ buying[h].active \in BOOLEAN
              /\ reference' = ReferencesAfter(buying[h].supplier,
                                  ~buying[h].active /\ buying[h].current)
              /\ reference' \in [Suppliers -> Reference \cup {Absent}]
              /\ supplierActive' \in [Suppliers -> BOOLEAN]
         /\ UpsertReference(h) \/ Disable(h) \/ WriteSupplier(h) =>
              \A o \in Suppliers : reference[o] # Absent => reference'[o] # Absent
<1>1. ASSUME UpsertReference(h)
      PROVE  /\ buying[h].supplier \in Suppliers /\ buying[h].written \in Reference
             /\ reference' \in [Suppliers -> Reference \cup {Absent}]
             /\ \A o \in Suppliers : reference'[o] =
                   IF o = buying[h].supplier THEN buying[h].written
                   ELSE IF o \in buying[h].cleared THEN [reference[o] EXCEPT !.preferred = FALSE]
                   ELSE reference[o]
             /\ \A o \in Suppliers : reference[o] # Absent => reference'[o] # Absent
  <2>1. /\ buying[h].supplier \in Suppliers /\ buying[h].written \in Reference
        /\ \A o \in buying[h].cleared : o \in Suppliers /\ reference[o] # Absent
    BY <1>1, JobFields DEF UpsertReference, Typed
  <2>2. reference' = [o \in Suppliers |->
                        IF o = buying[h].supplier THEN buying[h].written
                        ELSE IF o \in buying[h].cleared THEN [reference[o] EXCEPT !.preferred = FALSE]
                        ELSE reference[o]]
    BY <1>1 DEF UpsertReference
  <2>3. ASSUME NEW o \in Suppliers, o \in buying[h].cleared
        PROVE  [reference[o] EXCEPT !.preferred = FALSE] \in Reference
    BY <2>1, <2>3 DEF Typed, Reference
  <2>4. ASSUME NEW o \in Suppliers
        PROVE  /\ reference'[o] \in Reference \cup {Absent}
               /\ reference[o] # Absent => reference'[o] # Absent
    BY <2>1, <2>2, <2>3, AbsentAssumption DEF Typed
  <2>. QED
    BY <2>1, <2>2, <2>4
<1>2. [preferred |-> FALSE, active |-> FALSE] \in Reference
  BY DEF Reference
<1>3. ASSUME Disable(h)
      PROVE  /\ buying[h].supplier \in Suppliers
             /\ reference' = [reference EXCEPT ![buying[h].supplier] =
                                 [preferred |-> FALSE, active |-> FALSE]]
             /\ reference' \in [Suppliers -> Reference \cup {Absent}]
             /\ \A o \in Suppliers : reference[o] # Absent => reference'[o] # Absent
  <2>1. buying[h].supplier \in Suppliers
    BY <1>3, JobFields DEF Disable, Typed
  <2>2. reference' = [reference EXCEPT ![buying[h].supplier] =
                        [preferred |-> FALSE, active |-> FALSE]]
    BY <1>3 DEF Disable
  <2>. QED
    BY <1>2, <2>1, <2>2, AbsentAssumption DEF Typed
<1>4. ASSUME WriteSupplier(h)
      PROVE  /\ buying[h].supplier \in Suppliers /\ buying[h].active \in BOOLEAN
             /\ reference' = ReferencesAfter(buying[h].supplier,
                                 ~buying[h].active /\ buying[h].current)
             /\ reference' \in [Suppliers -> Reference \cup {Absent}]
             /\ supplierActive' \in [Suppliers -> BOOLEAN]
             /\ \A o \in Suppliers : reference[o] # Absent => reference'[o] # Absent
  <2>1. /\ buying[h].supplier \in Suppliers /\ buying[h].active \in BOOLEAN
        /\ reference' = ReferencesAfter(buying[h].supplier, ~buying[h].active /\ buying[h].current)
        /\ supplierActive' = [supplierActive EXCEPT ![buying[h].supplier] = buying[h].active]
    BY <1>4, JobFields DEF WriteSupplier, Typed
  <2>. QED
    BY <1>2, <2>1, AbsentAssumption DEF Typed, ReferencesAfter
<1>. QED
  BY <1>1, <1>3, <1>4

---------------------------------------------------------------------------
(* Types.                                                                  *)

LEMMA PurchasingKeepsTypes ==
  ASSUME Typed, [PurchasingNext]_purchasingVars
  PROVE  Typed'
<1>. USE RestIsJob
<1>1. ASSUME NEW h \in Buyers, NEW task \in Jobs, Arrives(h, task) \/ Proceeds(h, task),
             UNCHANGED Records,
             task.stage = "WRITE" => \A o \in task.cleared : reference[o] # Absent
      PROVE  Typed'
  <2>1. OnlyJob(h, task) /\ overlapped' \in BOOLEAN
    BY <1>1 DEF Arrives, Proceeds, OnlyJob, Typed
  <2>. QED
    BY <1>1, <2>1, OneJobChanged DEF Typed, Records
<1>2. ASSUME NEW h \in Buyers, Ends(h), UNCHANGED partActive,
             requestLog' \in Seq(SnapshotRows), supplierActive' \in [Suppliers -> BOOLEAN],
             reference' \in [Suppliers -> Reference \cup {Absent}],
             \A o \in Suppliers : reference[o] # Absent => reference'[o] # Absent
      PROVE  Typed'
  <2>1. OnlyJob(h, AtRest) /\ overlapped' \in BOOLEAN
    BY <1>2 DEF Ends, Proceeds, OnlyJob, Typed
  <2>2. /\ buying' \in [Buyers -> Jobs] /\ buying'[h] = AtRest
        /\ \A g \in Buyers \ {h} : buying'[g] = buying[g]
    BY <2>1, OneJobChanged
  <2>3. ASSUME NEW g \in Buyers, buying'[g].stage = "WRITE", NEW o \in buying'[g].cleared
        PROVE  reference'[o] # Absent
    <3>1. g # h /\ buying'[g] = buying[g]
      BY <2>2, <2>3
    <3>2. o \in Suppliers
      BY <2>3, <3>1, JobFields DEF Typed
    <3>. QED
      BY <1>2, <2>3, <3>1, <3>2 DEF Typed
  <2>. QED
    BY <1>2, <2>1, <2>2, <2>3 DEF Typed
<1>3. ASSUME NEW h \in Buyers, RequestStep(h)
      PROVE  Typed'
  <2>1. ASSUME NEW previous \in Snapshots \cup {Absent}, NEW input \in Line,
               Arrives(h, [stage |-> "RESOLVE", previous |-> previous, input |-> input]),
               UNCHANGED Records
        PROVE  Typed'
    <3>1. [stage |-> "RESOLVE", previous |-> previous, input |-> input] \in Jobs
      BY DEF Jobs
    <3>. QED
      BY <1>1, <2>1, <3>1
  <2>2. ASSUME NEW previous \in Snapshots \cup {Absent}, NEW snapshot \in Snapshots,
               \/ Arrives(h, [stage |-> "APPEND", previous |-> previous, snapshot |-> snapshot])
               \/ Proceeds(h, [stage |-> "APPEND", previous |-> previous, snapshot |-> snapshot]),
               UNCHANGED Records
        PROVE  Typed'
    <3>1. [stage |-> "APPEND", previous |-> previous, snapshot |-> snapshot] \in Jobs
      BY DEF Jobs
    <3>. QED
      BY <1>1, <2>2, <3>1
  <2>3. CASE appendSnapshot(h)
    <3>1. buying[h].previous \in Snapshots \cup {Absent} /\ buying[h].snapshot \in Snapshots
      BY <2>3, JobFields DEF appendSnapshot, Typed
    <3>2. Row(buying[h].previous, buying[h].snapshot) \in SnapshotRows
      BY <3>1 DEF Row, SnapshotRows
    <3>3. requestLog' \in Seq(SnapshotRows)
      BY <2>3, <3>2 DEF appendSnapshot, Typed
    <3>. QED
      BY <1>2, <2>3, <3>3 DEF appendSnapshot, Typed
  <2>4. buying[h].stage = "RESOLVE" => buying[h].previous \in Snapshots \cup {Absent}
    BY JobFields DEF Typed
  <2>. QED
    BY <1>3, <2>1, <2>2, <2>3, <2>4, RequestJobs
<1>4. ASSUME NEW h \in Buyers, ReferenceStep(h) \/ DisableStep(h) \/ SupplierStep(h)
      PROVE  Typed'
  <2>1. ASSUME NEW s \in Suppliers, NEW preferred \in BOOLEAN, NEW active \in BOOLEAN,
               Arrives(h, [stage |-> "CLEAR", supplier |-> s, preferred |-> preferred,
                           active |-> active]),
               UNCHANGED Records
        PROVE  Typed'
    <3>1. [stage |-> "CLEAR", supplier |-> s, preferred |-> preferred, active |-> active] \in Jobs
      BY DEF Jobs
    <3>. QED
      BY <1>1, <2>1, <3>1
  <2>2. ASSUME NEW s \in Suppliers, NEW cleared \in SUBSET Suppliers, NEW written \in Reference,
               Proceeds(h, [stage |-> "WRITE", supplier |-> s, cleared |-> cleared,
                            written |-> written]),
               \A o \in cleared : reference[o] # Absent, UNCHANGED Records
        PROVE  Typed'
    <3>1. [stage |-> "WRITE", supplier |-> s, cleared |-> cleared, written |-> written] \in Jobs
      BY DEF Jobs
    <3>. QED
      BY <1>1, <2>2, <3>1
  <2>3. ASSUME NEW s \in Suppliers, Arrives(h, [stage |-> "DISABLE", supplier |-> s]),
               UNCHANGED Records
        PROVE  Typed'
    <3>1. [stage |-> "DISABLE", supplier |-> s] \in Jobs
      BY DEF Jobs
    <3>. QED
      BY <1>1, <2>3, <3>1
  <2>4. ASSUME NEW s \in Suppliers, NEW active \in BOOLEAN,
               Arrives(h, [stage |-> "SUPPLIER", supplier |-> s, current |-> supplierActive[s],
                           active |-> active]),
               UNCHANGED Records
        PROVE  Typed'
    <3>1. [stage |-> "SUPPLIER", supplier |-> s, current |-> supplierActive[s],
           active |-> active] \in Jobs
      BY DEF Jobs, Typed
    <3>. QED
      BY <1>1, <2>4, <3>1
  <2>5. CASE UpsertReference(h) \/ Disable(h)
    <3>1. Ends(h) /\ UNCHANGED <<requestLog, supplierActive, partActive>>
      BY <2>5 DEF UpsertReference, Disable
    <3>. QED
      BY <1>2, <2>5, <3>1, WrittenReferences DEF Typed
  <2>6. CASE WriteSupplier(h)
    <3>1. Ends(h) /\ UNCHANGED <<requestLog, partActive>>
      BY <2>6 DEF WriteSupplier
    <3>. QED
      BY <1>2, <2>6, <3>1, WrittenReferences DEF Typed
  <2>. QED
    BY <1>4, <2>1, <2>2, <2>3, <2>4, <2>5, <2>6, SupplyJobs
<1>5. ASSUME NEW h \in Buyers, Abandon(h)
      PROVE  Typed'
  BY <1>2, <1>5 DEF Abandon, Records, Typed
<1>6. CASE updatePart
  BY <1>6 DEF updatePart, Typed
<1>7. CASE UNCHANGED purchasingVars
  BY <1>7 DEF purchasingVars, Typed
<1>. QED
  BY <1>3, <1>4, <1>5, <1>6, <1>7 DEF PurchasingNext

LEMMA PurchasingIsTyped == PurchasingSpec => []Typed
<1>1. PurchasingInit => Typed
  <2>1. << >> \in Seq(SnapshotRows)
    OBVIOUS
  <2>. QED
    BY <2>1, RestIsJob DEF PurchasingInit, Typed
<1>. QED
  BY <1>1, PurchasingKeepsTypes, PTL DEF PurchasingSpec

\* The purchase request, the suppliers and their references are well typed.
THEOREM PurchasingTypeCorrect == PurchasingSpec => []PurchasingTypeOK
<1>1. Typed => PurchasingTypeOK
  BY DEF Typed, PurchasingTypeOK, SnapshotRows, Snapshots
<1>. QED
  BY <1>1, PurchasingIsTyped, PTL

---------------------------------------------------------------------------
(* Decisions.                                                              *)

\* A snapshot that decides has the snapshot it decides on before it.
IsOf(log, n, snapshot) ==
    snapshot.status \in {"APPROVED", "REJECTED"} =>
        \E j \in 1..n : log[j].after = [snapshot EXCEPT !.status = "SUBMITTED"]

\* Whoever decides has read what is decided on in the log, and whoever edits
\* has read a draft.
DecidersHaveRead ==
    \A h \in Buyers :
        /\ buying[h].stage = "RESOLVE" =>
             buying[h].previous = Absent \/ buying[h].previous.status = "DRAFT"
        /\ buying[h].stage = "APPEND" => IsOf(requestLog, Len(requestLog), buying[h].snapshot)

DecisionInv == DecidersHaveRead /\ DecidedAsSubmitted

LEMMA DecisionStep ==
  ASSUME Typed, DecisionInv, [PurchasingNext]_purchasingVars
  PROVE  DecisionInv'
<1>1. ASSUME UNCHANGED requestLog, NEW h \in Buyers, NEW task \in Jobs, OnlyJob(h, task),
             task.stage = "RESOLVE" => task.previous = Absent \/ task.previous.status = "DRAFT",
             task.stage = "APPEND" => IsOf(requestLog, Len(requestLog), task.snapshot)
      PROVE  DecisionInv'
  <2>1. buying'[h] = task /\ \A g \in Buyers \ {h} : buying'[g] = buying[g]
    BY <1>1, OneJobChanged
  <2>. QED
    BY <1>1, <2>1 DEF DecisionInv, DecidersHaveRead, DecidedAsSubmitted
<1>2. ASSUME UNCHANGED requestLog, NEW h \in Buyers, Ends(h)
      PROVE  DecisionInv'
  BY <1>1, <1>2, RestIsJob DEF Ends, Proceeds, OnlyJob
<1>3. ASSUME NEW h \in Buyers, NEW previous \in Snapshots \cup {Absent}, NEW input \in Line,
             Arrives(h, [stage |-> "RESOLVE", previous |-> previous, input |-> input]),
             previous = Absent \/ previous.status = "DRAFT", UNCHANGED Records
      PROVE  DecisionInv'
  <2>1. [stage |-> "RESOLVE", previous |-> previous, input |-> input] \in Jobs
    BY DEF Jobs
  <2>. QED
    BY <1>1, <1>3, <2>1 DEF Arrives, OnlyJob, Records
<1>4. ASSUME NEW h \in Buyers, NEW previous \in Snapshots \cup {Absent}, NEW snapshot \in Snapshots,
             \/ Arrives(h, [stage |-> "APPEND", previous |-> previous, snapshot |-> snapshot])
             \/ Proceeds(h, [stage |-> "APPEND", previous |-> previous, snapshot |-> snapshot]),
             UNCHANGED Records, IsOf(requestLog, Len(requestLog), snapshot)
      PROVE  DecisionInv'
  <2>1. [stage |-> "APPEND", previous |-> previous, snapshot |-> snapshot] \in Jobs
    BY DEF Jobs
  <2>. QED
    BY <1>1, <1>4, <2>1 DEF Arrives, Proceeds, OnlyJob, Records
<1>5. ASSUME NEW h \in Buyers, appendSnapshot(h)
      PROVE  DecisionInv'
  <2>. DEFINE snapshot == buying[h].snapshot
              row == Row(buying[h].previous, snapshot)
              n == Len(requestLog)
  <2>1. /\ buying[h].stage = "APPEND" /\ requestLog' = Append(requestLog, row)
        /\ OnlyJob(h, AtRest)
    BY <1>5 DEF appendSnapshot, Ends, Proceeds, OnlyJob
  <2>2. snapshot \in Snapshots /\ row \in SnapshotRows /\ row.after = snapshot
    BY <2>1, JobFields DEF Typed, Row, SnapshotRows
  <2>3. requestLog \in Seq(SnapshotRows) /\ n \in Nat
    BY DEF Typed
  <2>4. IsOf(requestLog, n, snapshot)
    BY <2>1 DEF DecisionInv, DecidersHaveRead
  <2>. HIDE DEF row, snapshot
  <2>5. /\ Len(requestLog') = n + 1 /\ requestLog'[n + 1] = row
        /\ \A i \in 1..n : requestLog'[i] = requestLog[i]
    BY <2>1, <2>2, <2>3, OneSnapshotMore
  <2>6. DOMAIN requestLog' = 1..(n + 1) /\ DOMAIN requestLog = 1..n
    BY <2>1, <2>2, <2>3, <2>5
  <2>7. ASSUME NEW i \in DOMAIN requestLog', requestLog'[i].after.status \in {"APPROVED", "REJECTED"}
        PROVE  \E j \in 1..(i - 1) :
                  requestLog'[j].after = [requestLog'[i].after EXCEPT !.status = "SUBMITTED"]
    <3>1. CASE i = n + 1
      <4>1. PICK j \in 1..n : requestLog[j].after = [snapshot EXCEPT !.status = "SUBMITTED"]
        BY <2>2, <2>4, <2>5, <2>7, <3>1 DEF IsOf
      <4>. QED
        BY <2>2, <2>3, <2>5, <3>1, <4>1
    <3>2. CASE i \in 1..n
      <4>1. PICK j \in 1..(i - 1) :
              requestLog[j].after = [requestLog[i].after EXCEPT !.status = "SUBMITTED"]
        BY <2>5, <2>6, <2>7, <3>2 DEF DecisionInv, DecidedAsSubmitted
      <4>2. j \in 1..n
        BY <2>3, <3>2
      <4>. QED
        BY <2>5, <3>2, <4>1, <4>2
    <3>. QED
      BY <2>3, <2>6, <3>1, <3>2
  <2>8. /\ buying'[h] = AtRest /\ \A g \in Buyers \ {h} : buying'[g] = buying[g]
    BY <2>1, RestIsJob, OneJobChanged
  <2>9. ASSUME NEW x, IsOf(requestLog, n, x)
        PROVE  IsOf(requestLog', n + 1, x)
    <3>1. \A j \in 1..n : j \in 1..(n + 1)
      BY <2>3
    <3>. QED
      BY <2>5, <2>9, <3>1 DEF IsOf
  <2>10. DecidersHaveRead'
    BY <2>5, <2>8, <2>9, RestIsJob DEF DecisionInv, DecidersHaveRead
  <2>. QED
    BY <2>7, <2>10 DEF DecisionInv, DecidedAsSubmitted
<1>6. ASSUME NEW h \in Buyers, RequestStep(h)
      PROVE  DecisionInv'
  <2>1. ASSUME NEW previous \in Snapshots, NEW snapshot \in Snapshots,
               Arrives(h, [stage |-> "APPEND", previous |-> previous, snapshot |-> snapshot]),
               previous = latest(requestLog), requestLog # << >>,
               snapshot.status \in {"APPROVED", "REJECTED"} =>
                    previous = [snapshot EXCEPT !.status = "SUBMITTED"],
               UNCHANGED Records
        PROVE  DecisionInv'
    <3>1. Len(requestLog) \in 1..Len(requestLog) /\ latest(requestLog) = requestLog[Len(requestLog)].after
      BY <2>1, LatestType DEF Typed
    <3>2. IsOf(requestLog, Len(requestLog), snapshot)
      BY <2>1, <3>1 DEF IsOf
    <3>. QED
      BY <1>4, <2>1, <3>2
  <2>2. ASSUME NEW snapshot \in Snapshots, buying[h].stage = "RESOLVE",
               Proceeds(h, [stage |-> "APPEND", previous |-> buying[h].previous,
                            snapshot |-> snapshot]),
               snapshot.status =
                    IF buying[h].previous = Absent THEN "DRAFT" ELSE buying[h].previous.status,
               UNCHANGED Records
        PROVE  DecisionInv'
    <3>1. buying[h].previous \in Snapshots \cup {Absent}
      BY <2>2, JobFields DEF Typed
    <3>2. snapshot.status = "DRAFT"
      BY <2>2 DEF DecisionInv, DecidersHaveRead
    <3>3. IsOf(requestLog, Len(requestLog), snapshot)
      BY <3>2 DEF IsOf
    <3>. QED
      BY <1>4, <2>2, <3>1, <3>3
  <2>. QED
    BY <1>3, <1>5, <1>6, <2>1, <2>2, RequestJobs
<1>7. ASSUME NEW h \in Buyers, ReferenceStep(h) \/ DisableStep(h) \/ SupplierStep(h)
      PROVE  DecisionInv'
  <2>1. ASSUME NEW task \in Jobs, task.stage \notin {"RESOLVE", "APPEND"}, OnlyJob(h, task),
               UNCHANGED requestLog
        PROVE  DecisionInv'
    BY <1>1, <2>1
  <2>3. UpsertReference(h) \/ Disable(h) \/ WriteSupplier(h) => DecisionInv'
    BY <1>2 DEF UpsertReference, Disable, WriteSupplier
  <2>4. \A s \in Suppliers : supplierActive[s] \in BOOLEAN
    BY DEF Typed
  <2>5. ASSUME NEW task \in Jobs, task.stage \notin {"RESOLVE", "APPEND"},
               Arrives(h, task) \/ Proceeds(h, task), UNCHANGED Records
        PROVE  DecisionInv'
    BY <2>1, <2>5 DEF Arrives, Proceeds, OnlyJob, Records
  <2>6. ASSUME NEW s \in Suppliers, NEW preferred \in BOOLEAN, NEW active \in BOOLEAN,
               Arrives(h, [stage |-> "CLEAR", supplier |-> s, preferred |-> preferred,
                           active |-> active]),
               UNCHANGED Records
        PROVE  DecisionInv'
    <3>1. [stage |-> "CLEAR", supplier |-> s, preferred |-> preferred, active |-> active] \in Jobs
      BY DEF Jobs
    <3>. QED
      BY <2>5, <2>6, <3>1
  <2>7. ASSUME NEW s \in Suppliers, NEW cleared \in SUBSET Suppliers, NEW written \in Reference,
               Proceeds(h, [stage |-> "WRITE", supplier |-> s, cleared |-> cleared,
                            written |-> written]),
               UNCHANGED Records
        PROVE  DecisionInv'
    <3>1. [stage |-> "WRITE", supplier |-> s, cleared |-> cleared, written |-> written] \in Jobs
      BY DEF Jobs
    <3>. QED
      BY <2>5, <2>7, <3>1
  <2>8. ASSUME NEW s \in Suppliers, Arrives(h, [stage |-> "DISABLE", supplier |-> s]),
               UNCHANGED Records
        PROVE  DecisionInv'
    <3>1. [stage |-> "DISABLE", supplier |-> s] \in Jobs
      BY DEF Jobs
    <3>. QED
      BY <2>5, <2>8, <3>1
  <2>9. ASSUME NEW s \in Suppliers, NEW active \in BOOLEAN,
               Arrives(h, [stage |-> "SUPPLIER", supplier |-> s, current |-> supplierActive[s],
                           active |-> active]),
               UNCHANGED Records
        PROVE  DecisionInv'
    <3>1. [stage |-> "SUPPLIER", supplier |-> s, current |-> supplierActive[s],
           active |-> active] \in Jobs
      BY <2>4 DEF Jobs
    <3>. QED
      BY <2>5, <2>9, <3>1
  <2>. QED
    BY <1>7, <2>3, <2>6, <2>7, <2>8, <2>9, SupplyJobs
<1>8. ASSUME NEW h \in Buyers, Abandon(h)
      PROVE  DecisionInv'
  BY <1>2, <1>8 DEF Abandon, Records
<1>9. CASE updatePart \/ UNCHANGED purchasingVars
  BY <1>9 DEF updatePart, purchasingVars, DecisionInv, DecidersHaveRead, DecidedAsSubmitted
<1>. QED
  BY <1>6, <1>7, <1>8, <1>9 DEF PurchasingNext

\* Every approval and every rejection is of a snapshot that was submitted.
THEOREM DecisionsAreOfSubmissions == PurchasingSpec => []DecidedAsSubmitted
<1>1. PurchasingInit => DecisionInv
  BY RestIsJob DEF PurchasingInit, DecisionInv, DecidersHaveRead, DecidedAsSubmitted
<1>2. Typed /\ DecisionInv /\ [PurchasingNext]_purchasingVars => DecisionInv'
  BY DecisionStep
<1>3. DecisionInv => DecidedAsSubmitted
  BY DEF DecisionInv
<1>. QED
  BY <1>1, <1>2, <1>3, PurchasingIsTyped, PTL DEF PurchasingSpec

---------------------------------------------------------------------------
(* Suppliers, one handler at a time.                                       *)

Chosen(s) == reference[s] # Absent /\ reference[s].active /\ reference[s].preferred

\* What a handler has read is still so.
Current(j) ==
    /\ j.stage \in {"RESOLVE", "APPEND"} =>
         /\ j.previous = latest(requestLog)
         /\ j.previous = Absent \/ j.previous.status \in {"DRAFT", "SUBMITTED"}
    /\ j.stage = "CLEAR" => supplierActive[j.supplier]
    /\ j.stage = "WRITE" =>
         /\ supplierActive[j.supplier] /\ j.supplier \notin j.cleared
         /\ j.written.preferred =>
              /\ j.written.active
              /\ \A o \in Suppliers \ {j.supplier} : Chosen(o) => o \in j.cleared
    /\ j.stage = "SUPPLIER" => j.current = supplierActive[j.supplier]

Consistent ==
    /\ \A s, o \in Suppliers : Chosen(s) /\ Chosen(o) => s = o
    /\ \A s \in Suppliers : reference[s] # Absent /\ reference[s].active => supplierActive[s]
    /\ \A i \in 1..(Len(requestLog) - 1) : requestLog[i].after.status \in {"DRAFT", "SUBMITTED"}

AloneInv ==
    ~overlapped =>
        /\ \A g, h \in Buyers : buying[g] # AtRest /\ buying[h] # AtRest => g = h
        /\ \A h \in Buyers : Current(buying[h])
        /\ Consistent

LEMMA RestIsCurrent == Current(AtRest)
  BY DEF Current, AtRest

\* A handler that was alone, and knows what is so.
LEMMA AloneGoesOn ==
  ASSUME Typed, NEW h \in Buyers, NEW task \in Jobs, OnlyJob(h, task),
         \A g \in Buyers \ {h} : buying[g] = AtRest, Current(task)', Consistent'
  PROVE  AloneInv'
<1>1. buying'[h] = task /\ \A g \in Buyers \ {h} : buying'[g] = AtRest
  BY OneJobChanged
<1>2. Current(AtRest)'
  BY DEF Current, AtRest
<1>3. ASSUME NEW g \in Buyers PROVE Current(buying[g])'
  <2>1. CASE g = h
    <3>1. buying'[g] = task
      BY <1>1, <2>1
    <3>. QED
      BY <3>1 DEF Current, Chosen
  <2>2. CASE g # h
    <3>1. buying'[g] = AtRest
      BY <1>1, <2>2
    <3>. QED
      BY <3>1 DEF Current, AtRest
  <2>. QED
    BY <2>1, <2>2
<1>. QED
  BY <1>1, <1>3 DEF AloneInv

\* What does not change the records leaves true what was.
LEMMA RecordsUnchanged ==
  ASSUME UNCHANGED <<requestLog, supplierActive, reference>>, NEW j
  PROVE  /\ Current(j) => Current(j)'
         /\ Consistent => Consistent'
  BY DEF Current, Chosen, Consistent

LEMMA AloneStep ==
  ASSUME Typed, AloneInv, [PurchasingNext]_purchasingVars
  PROVE  AloneInv'
<1>. SUFFICES ASSUME ~overlapped' PROVE AloneInv'
  BY DEF AloneInv
<1>1. ASSUME NEW h \in Buyers, NEW task, Arrives(h, task)
      PROVE  /\ ~overlapped /\ OnlyJob(h, task) /\ Consistent
             /\ \A g \in Buyers \ {h} : buying[g] = AtRest
  BY <1>1 DEF Arrives, OnlyJob, AloneInv
<1>2. ASSUME NEW h \in Buyers, NEW task, Proceeds(h, task), buying[h] # AtRest
      PROVE  /\ ~overlapped /\ OnlyJob(h, task) /\ Consistent /\ Current(buying[h])
             /\ \A g \in Buyers \ {h} : buying[g] = AtRest
  BY <1>2 DEF Proceeds, OnlyJob, AloneInv
<1>3. ASSUME NEW h \in Buyers, NEW task \in Jobs, UNCHANGED Records, Current(task),
             Arrives(h, task) \/ (Proceeds(h, task) /\ buying[h] # AtRest)
      PROVE  AloneInv'
  <2>1. /\ OnlyJob(h, task) /\ Consistent /\ \A g \in Buyers \ {h} : buying[g] = AtRest
    BY <1>1, <1>2, <1>3
  <2>2. Current(task)' /\ Consistent'
    BY <1>3, <2>1, RecordsUnchanged DEF Records
  <2>. QED
    BY <2>1, <2>2, AloneGoesOn
<1>4. ASSUME NEW h \in Buyers, Ends(h), buying[h] # AtRest, Consistent'
      PROVE  AloneInv'
  <2>1. OnlyJob(h, AtRest) /\ \A g \in Buyers \ {h} : buying[g] = AtRest
    BY <1>2, <1>4 DEF Ends
  <2>2. Current(AtRest)'
    BY DEF Current, AtRest
  <2>. QED
    BY <1>4, <2>1, <2>2, RestIsJob, AloneGoesOn
<1>5. AtRest.stage = "REST"
  BY RestIsJob
<1>6. ASSUME NEW h \in Buyers, RequestStep(h)
      PROVE  AloneInv'
  <2>1. ASSUME NEW previous \in Snapshots \cup {Absent}, NEW input \in Line,
               Arrives(h, [stage |-> "RESOLVE", previous |-> previous, input |-> input]),
               previous = latest(requestLog), previous = Absent \/ previous.status = "DRAFT",
               UNCHANGED Records
        PROVE  AloneInv'
    <3>1. /\ [stage |-> "RESOLVE", previous |-> previous, input |-> input] \in Jobs
          /\ Current([stage |-> "RESOLVE", previous |-> previous, input |-> input])
      BY <2>1 DEF Jobs, Current
    <3>. QED
      BY <1>3, <2>1, <3>1
  <2>2. ASSUME NEW previous \in Snapshots, NEW snapshot \in Snapshots,
               Arrives(h, [stage |-> "APPEND", previous |-> previous, snapshot |-> snapshot]),
               previous = latest(requestLog), previous.status \in {"DRAFT", "SUBMITTED"},
               UNCHANGED Records
        PROVE  AloneInv'
    <3>1. /\ [stage |-> "APPEND", previous |-> previous, snapshot |-> snapshot] \in Jobs
          /\ Current([stage |-> "APPEND", previous |-> previous, snapshot |-> snapshot])
      BY <2>2 DEF Jobs, Current
    <3>. QED
      BY <1>3, <2>2, <3>1
  <2>3. ASSUME NEW snapshot \in Snapshots, buying[h].stage = "RESOLVE",
               Proceeds(h, [stage |-> "APPEND", previous |-> buying[h].previous,
                            snapshot |-> snapshot]),
               UNCHANGED Records
        PROVE  AloneInv'
    <3>. DEFINE previous == buying[h].previous
    <3>1. buying[h] # AtRest /\ previous \in Snapshots \cup {Absent}
      BY <1>5, <2>3, JobFields DEF Typed
    <3>2. Current(buying[h])
      BY <1>2, <2>3, <3>1
    <3>3. /\ previous = latest(requestLog)
          /\ previous = Absent \/ previous.status \in {"DRAFT", "SUBMITTED"}
      BY <2>3, <3>2 DEF Current
    <3>4. Proceeds(h, [stage |-> "APPEND", previous |-> previous, snapshot |-> snapshot])
      BY <2>3
    <3>. HIDE DEF previous
    <3>5. /\ [stage |-> "APPEND", previous |-> previous, snapshot |-> snapshot] \in Jobs
          /\ Current([stage |-> "APPEND", previous |-> previous, snapshot |-> snapshot])
      BY <3>1, <3>3 DEF Jobs, Current
    <3>. QED
      BY <1>3, <2>3, <3>1, <3>4, <3>5
  <2>4. CASE appendSnapshot(h)
    <3>. DEFINE row == Row(buying[h].previous, buying[h].snapshot)
                n == Len(requestLog)
    <3>1. /\ buying[h].stage = "APPEND" /\ buying[h] # AtRest /\ Ends(h)
          /\ requestLog' = Append(requestLog, row) /\ UNCHANGED <<supplierActive, reference>>
      BY <1>5, <2>4 DEF appendSnapshot
    <3>2. Consistent /\ Current(buying[h])
      BY <1>2, <3>1 DEF Ends
    <3>3. row \in SnapshotRows /\ requestLog \in Seq(SnapshotRows) /\ n \in Nat
      BY <3>1, JobFields DEF Typed, Row, SnapshotRows
    <3>4. n # 0 => requestLog[n].after.status \in {"DRAFT", "SUBMITTED"}
      <4>1. /\ buying[h].previous = latest(requestLog)
            /\ buying[h].previous = Absent \/ buying[h].previous.status \in {"DRAFT", "SUBMITTED"}
        BY <3>1, <3>2 DEF Current
      <4>2. n # 0 => latest(requestLog) = requestLog[n].after /\ requestLog[n].after \in Snapshots
        <5>1. n # 0 => n \in 1..n /\ requestLog # << >> /\ requestLog[n] \in SnapshotRows
          BY <3>3
        <5>. QED
          BY <3>3, <5>1, LatestType DEF SnapshotRows
      <4>. QED
        BY <4>1, <4>2, AbsentAssumption DEF Snapshots
    <3>. HIDE DEF row
    <3>5. /\ Len(requestLog') = n + 1
          /\ \A i \in 1..n : requestLog'[i] = requestLog[i]
      BY <3>1, <3>3, OneSnapshotMore
    <3>6. ASSUME NEW i \in 1..(Len(requestLog') - 1)
          PROVE  requestLog'[i].after.status \in {"DRAFT", "SUBMITTED"}
      <4>1. i \in 1..n /\ requestLog'[i] = requestLog[i]
        BY <3>3, <3>5
      <4>2. i = n \/ i \in 1..(n - 1)
        BY <3>3, <4>1
      <4>. QED
        BY <3>2, <3>3, <3>4, <4>1, <4>2 DEF Consistent
    <3>7. Consistent'
      BY <3>1, <3>2, <3>6 DEF Consistent, Chosen
    <3>. QED
      BY <1>4, <3>1, <3>7
  <2>. QED
    BY <1>6, <2>1, <2>2, <2>3, <2>4, RequestJobs
<1>7. ASSUME NEW h \in Buyers, ReferenceStep(h) \/ DisableStep(h) \/ SupplierStep(h)
      PROVE  AloneInv'
  <2>1. ASSUME NEW s \in Suppliers, NEW preferred \in BOOLEAN, NEW active \in BOOLEAN,
               supplierActive[s],
               Arrives(h, [stage |-> "CLEAR", supplier |-> s, preferred |-> preferred,
                           active |-> active]),
               UNCHANGED Records
        PROVE  AloneInv'
    <3>. DEFINE task == [stage |-> "CLEAR", supplier |-> s, preferred |-> preferred, active |-> active]
    <3>1. task \in Jobs /\ Current(task)
      BY <2>1 DEF Jobs, Current
    <3>. QED
      BY <1>3, <2>1, <3>1
  <2>2. ASSUME NEW s \in Suppliers, NEW cleared \in SUBSET Suppliers, NEW written \in Reference,
               buying[h].stage = "CLEAR", s = buying[h].supplier,
               Proceeds(h, [stage |-> "WRITE", supplier |-> s, cleared |-> cleared,
                            written |-> written]),
               s \notin cleared,
               written.preferred => written.active,
               written.preferred => \A o \in Suppliers \ {s} :
                    reference[o] # Absent /\ reference[o].preferred /\ reference[o].active
                      => o \in cleared,
               UNCHANGED Records
        PROVE  AloneInv'
    <3>. DEFINE task == [stage |-> "WRITE", supplier |-> s, cleared |-> cleared, written |-> written]
    <3>1. buying[h] # AtRest
      BY <1>5, <2>2
    <3>2. Current(buying[h])
      BY <1>2, <2>2, <3>1
    <3>3. task \in Jobs /\ Current(task)
      BY <2>2, <3>2 DEF Jobs, Current, Chosen
    <3>. QED
      BY <1>3, <2>2, <3>1, <3>3
  <2>3. ASSUME NEW s \in Suppliers, Arrives(h, [stage |-> "DISABLE", supplier |-> s]),
               UNCHANGED Records
        PROVE  AloneInv'
    <3>1. [stage |-> "DISABLE", supplier |-> s] \in Jobs /\ Current([stage |-> "DISABLE", supplier |-> s])
      BY DEF Jobs, Current
    <3>. QED
      BY <1>3, <2>3, <3>1
  <2>4. ASSUME NEW s \in Suppliers, NEW active \in BOOLEAN,
               Arrives(h, [stage |-> "SUPPLIER", supplier |-> s, current |-> supplierActive[s],
                           active |-> active]),
               UNCHANGED Records
        PROVE  AloneInv'
    <3>. DEFINE task == [stage |-> "SUPPLIER", supplier |-> s, current |-> supplierActive[s],
                        active |-> active]
    <3>1. task \in Jobs /\ Current(task)
      BY DEF Jobs, Current, Typed
    <3>. QED
      BY <1>3, <2>4, <3>1
  <2>5. CASE UpsertReference(h)
    <3>. DEFINE j == buying[h]
                s == j.supplier
    <3>1. /\ j.stage = "WRITE" /\ j # AtRest /\ Ends(h)
          /\ UNCHANGED <<requestLog, supplierActive>>
      BY <1>5, <2>5 DEF UpsertReference
    <3>2. Consistent /\ Current(j)
      BY <1>2, <3>1 DEF Ends
    <3>3. /\ s \in Suppliers /\ j.written \in Reference
          /\ \A o \in Suppliers : reference'[o] =
                IF o = s THEN j.written
                ELSE IF o \in j.cleared THEN [reference[o] EXCEPT !.preferred = FALSE]
                ELSE reference[o]
          /\ \A o \in j.cleared : reference[o] # Absent
      BY <2>5, <3>1, WrittenReferences DEF Typed
    <3>4. /\ supplierActive[s] /\ s \notin j.cleared
          /\ j.written.preferred => \A o \in Suppliers \ {s} : Chosen(o) => o \in j.cleared
      BY <3>1, <3>2 DEF Current
    <3>. HIDE DEF j, s
    <3>5. ASSUME NEW o \in Suppliers, o \in j.cleared, o # s
          PROVE  /\ reference[o] # Absent /\ reference'[o].active = reference[o].active
                 /\ reference'[o].preferred = FALSE
      BY <3>3, <3>5 DEF Typed, Reference
    <3>6. ASSUME NEW o \in Suppliers, o # s, Chosen(o)'
          PROVE  Chosen(o) /\ o \notin j.cleared
      <4>1. o \notin j.cleared
        BY <3>5, <3>6 DEF Chosen
      <4>. QED
        BY <3>3, <3>6, <4>1 DEF Chosen
    <3>7. ASSUME NEW x \in Suppliers, x = s, Chosen(x)'
          PROVE  \A o \in Suppliers : Chosen(o)' => o = s
      <4>1. j.written.preferred
        BY <3>3, <3>7 DEF Chosen
      <4>. QED
        BY <3>4, <3>6, <4>1
    <3>8. ASSUME NEW x \in Suppliers, NEW o \in Suppliers, Chosen(x)', Chosen(o)'
          PROVE  x = o
      <4>1. CASE x = s \/ o = s
        BY <3>7, <3>8, <4>1
      <4>2. CASE x # s /\ o # s
        BY <3>2, <3>6, <3>8, <4>2 DEF Consistent
      <4>. QED
        BY <4>1, <4>2
    <3>9. ASSUME NEW o \in Suppliers, reference'[o] # Absent, reference'[o].active
          PROVE  supplierActive'[o]
      <4>1. CASE o = s
        BY <3>1, <3>4, <4>1
      <4>2. CASE o # s
        <5>1. reference[o] # Absent /\ reference[o].active
          BY <3>3, <3>5, <3>9, <4>2
        <5>. QED
          BY <3>1, <3>2, <5>1 DEF Consistent
      <4>. QED
        BY <4>1, <4>2
    <3>10. Consistent'
      BY <3>1, <3>2, <3>8, <3>9 DEF Consistent
    <3>. QED
      BY <1>4, <3>1, <3>10 DEF j
  <2>6. CASE Disable(h)
    <3>. DEFINE j == buying[h]
    <3>1. /\ j.stage = "DISABLE" /\ j # AtRest /\ Ends(h)
          /\ UNCHANGED <<requestLog, supplierActive>>
      BY <1>5, <2>6 DEF Disable
    <3>2. Consistent
      BY <1>2, <3>1 DEF Ends
    <3>3. /\ j.supplier \in Suppliers
          /\ reference' = [reference EXCEPT ![j.supplier] = [preferred |-> FALSE, active |-> FALSE]]
      BY <2>6, WrittenReferences
    <3>4. \A o \in Suppliers : reference'[o] = reference[o] \/ ~reference'[o].active
      BY <3>3 DEF Typed
    <3>5. \A o \in Suppliers : Chosen(o)' => Chosen(o)
      BY <3>4 DEF Chosen
    <3>6. Consistent'
      BY <3>1, <3>2, <3>4, <3>5 DEF Consistent
    <3>. QED
      BY <1>4, <3>1, <3>6
  <2>7. CASE WriteSupplier(h)
    <3>. DEFINE j == buying[h]
                s == j.supplier
                archived == ~j.active /\ j.current
    <3>1. /\ j.stage = "SUPPLIER" /\ j # AtRest /\ Ends(h) /\ UNCHANGED requestLog
          /\ supplierActive' = [supplierActive EXCEPT ![s] = j.active]
      BY <1>5, <2>7 DEF WriteSupplier
    <3>2. Consistent /\ Current(j)
      BY <1>2, <3>1 DEF Ends
    <3>3. s \in Suppliers /\ j.active \in BOOLEAN /\ reference' = ReferencesAfter(s, archived)
      BY <2>7, WrittenReferences
    <3>4. j.current = supplierActive[s]
      BY <3>1, <3>2 DEF Current
    <3>5. \A o \in Suppliers : reference'[o] = reference[o] \/ ~reference'[o].active
      BY <3>3 DEF Typed, ReferencesAfter
    <3>6. archived /\ reference'[s] # Absent => ~reference'[s].active
      BY <3>3 DEF Typed, ReferencesAfter
    <3>7. \A o \in Suppliers : Chosen(o)' => Chosen(o)
      BY <3>5 DEF Chosen
    <3>8. ASSUME NEW o \in Suppliers, reference'[o] # Absent, reference'[o].active
          PROVE  supplierActive'[o]
      <4>1. supplierActive[o]
        BY <3>2, <3>5, <3>8 DEF Consistent
      <4>2. CASE o # s
        BY <3>1, <4>1, <4>2 DEF Typed
      <4>3. CASE o = s
        <5>1. ~archived
          BY <3>6, <3>8, <4>3
        <5>2. j.active
          BY <3>4, <4>1, <4>3, <5>1
        <5>. QED
          BY <3>1, <3>3, <4>3, <5>2 DEF Typed
      <4>. QED
        BY <4>2, <4>3
    <3>9. Consistent'
      BY <3>1, <3>2, <3>7, <3>8 DEF Consistent
    <3>. QED
      BY <1>4, <3>1, <3>9
  <2>. QED
    BY <1>7, <2>1, <2>2, <2>3, <2>4, <2>5, <2>6, <2>7, SupplyJobs
<1>8. ASSUME NEW h \in Buyers, Abandon(h)
      PROVE  AloneInv'
  <2>1. buying[h] # AtRest /\ Ends(h) /\ UNCHANGED <<requestLog, supplierActive, reference>>
    BY <1>8 DEF Abandon, Records
  <2>2. Consistent
    BY <1>2, <2>1 DEF Ends
  <2>3. Consistent'
    BY <2>1, <2>2 DEF Consistent, Chosen
  <2>. QED
    BY <1>4, <2>1, <2>3
<1>9. CASE updatePart \/ UNCHANGED purchasingVars
  <2>1. UNCHANGED <<requestLog, supplierActive, reference, buying, overlapped>>
    BY <1>9 DEF updatePart, purchasingVars
  <2>. QED
    BY <2>1 DEF AloneInv, Current, Chosen, Consistent
<1>. QED
  BY <1>6, <1>7, <1>8, <1>9 DEF PurchasingNext

\* As long as handlers do not overlap, suppliers, references and decided
\* requests are consistent.
THEOREM SuppliersStayConsistent == PurchasingSpec => []SuppliersAreConsistent
<1>1. PurchasingInit => AloneInv
  BY RestIsCurrent DEF PurchasingInit, AloneInv, Consistent, Chosen
<1>2. Typed /\ AloneInv /\ [PurchasingNext]_purchasingVars => AloneInv'
  BY AloneStep
<1>3. AloneInv => SuppliersAreConsistent
  BY DEF AloneInv, Consistent, Chosen, SuppliersAreConsistent, InForce
<1>. QED
  BY <1>1, <1>2, <1>3, PurchasingIsTyped, PTL DEF PurchasingSpec
==========================================================================
