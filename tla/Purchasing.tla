---------------------------- MODULE Purchasing ----------------------------
(***************************************************************************)
(* A purchase request for one part and the suppliers of that part          *)
(* (lib/inventory/purchase-requests and suppliers, and their routes).      *)
(*                                                                         *)
(* Purchase requests have no table: the state of one is its newest         *)
(* snapshot in the audit log, beside the snapshot it was made from.  The   *)
(* transactions run at READ COMMITTED, so every read is a step, and a      *)
(* commit makes its writes visible at once.  An error leaves no trace and  *)
(* is no step.                                                             *)
(***************************************************************************)
EXTENDS Naturals, Sequences, FiniteSets

CONSTANTS
    Suppliers,
    Quantities,     \* what may be ordered
    Buyers,         \* requests at work at a time
    MaxArrivals,    \* bounds the requests of the model
    Absent

VARIABLES
    requestLog,     \* the snapshots of the purchase request, oldest first
    supplierActive,
    reference,      \* PartSupplier: one row of the part for each supplier
    partActive,
    buying,         \* what each handler is about, and what it has read
    arrivals,       \* for the bound
    overlapped      \* history: two handlers were at work together

purchasingVars ==
    <<requestLog, supplierActive, reference, partActive, buying, arrivals, overlapped>>

Line == [quantity: Quantities, supplier: Suppliers \cup {Absent}]

\* payload: what the key of the request was first used for.
PurchaseRequestSnapshot ==
    [status: {"DRAFT", "SUBMITTED", "APPROVED", "REJECTED", "CANCELLED"},
     payload: Line, line: Line]

Reference == [preferred: BOOLEAN, active: BOOLEAN]

ASSUME AbsentAssumption == Absent \notin PurchaseRequestSnapshot \cup Reference

AtRest == [stage |-> "REST"]

PurchasingTypeOK ==
    /\ requestLog \in Seq([before: PurchaseRequestSnapshot \cup {Absent},
                           after: PurchaseRequestSnapshot])
    /\ supplierActive \in [Suppliers -> BOOLEAN]
    /\ reference \in [Suppliers -> Reference \cup {Absent}]
    /\ {partActive, overlapped} \subseteq BOOLEAN
    /\ DOMAIN buying = Buyers

PurchasingInit ==
    /\ requestLog = << >>
    /\ supplierActive = [s \in Suppliers |-> TRUE]
    /\ reference = [s \in Suppliers |-> Absent]
    /\ partActive = TRUE
    /\ buying = [h \in Buyers |-> AtRest]
    /\ arrivals = 0
    /\ overlapped = FALSE

\* The newest snapshot; the rows are dated as they are written.
latest(log) == IF log = << >> THEN Absent ELSE log[Len(log)].after

Row(before, after) == [before |-> before, after |-> after]

---------------------------------------------------------------------------
(* Handlers.                                                               *)

Arrives(h, job) ==
    /\ buying[h] = AtRest
    /\ arrivals < MaxArrivals
    /\ arrivals' = arrivals + 1
    /\ buying' = [buying EXCEPT ![h] = job]
    /\ overlapped' = (overlapped \/ \E g \in Buyers : buying[g] # AtRest)

Proceeds(h, job) ==
    /\ buying' = [buying EXCEPT ![h] = job]
    /\ UNCHANGED <<arrivals, overlapped>>

Ends(h) == Proceeds(h, AtRest)

Records == <<requestLog, supplierActive, reference, partActive>>

\* The process dies, its client leaves, or an error ends the handler.
Abandon(h) ==
    /\ buying[h] # AtRest
    /\ Ends(h)
    /\ UNCHANGED Records

---------------------------------------------------------------------------
(* The purchase request.                                                   *)

\* A key that was used is answered with the request it made, or refused.
createPurchaseRequest(h, input) ==
    /\ latest(requestLog) = Absent
    /\ Arrives(h, [stage |-> "RESOLVE", previous |-> Absent, input |-> input])
    /\ UNCHANGED Records

updatePurchaseRequestDraft(h, input) ==
    LET previous == latest(requestLog) IN
    /\ previous # Absent
    /\ previous.status = "DRAFT"
    /\ Arrives(h, [stage |-> "RESOLVE", previous |-> previous, input |-> input])
    /\ UNCHANGED Records

\* Mutant: a draft can be decided on.
AnyStatus(current, action) ==
    CASE action = "SUBMIT" /\ current = "DRAFT" -> "SUBMITTED"
      [] action = "APPROVE" /\ current \in {"DRAFT", "SUBMITTED"} -> "APPROVED"
      [] action = "REJECT" /\ current \in {"DRAFT", "SUBMITTED"} -> "REJECTED"
      [] action = "CANCEL" /\ current \in {"DRAFT", "SUBMITTED"} -> "CANCELLED"
      [] OTHER -> Absent

nextStatus(current, action) ==
    CASE action = "SUBMIT" /\ current = "DRAFT" -> "SUBMITTED"
      [] action = "APPROVE" /\ current = "SUBMITTED" -> "APPROVED"
      [] action = "REJECT" /\ current = "SUBMITTED" -> "REJECTED"
      [] action = "CANCEL" /\ current \in {"DRAFT", "SUBMITTED"} -> "CANCELLED"
      [] OTHER -> Absent

transitionPurchaseRequest(h, action) ==
    LET previous == latest(requestLog) IN
    /\ previous # Absent
    /\ nextStatus(previous.status, action) # Absent
    /\ Arrives(h, [stage |-> "APPEND", previous |-> previous,
                   snapshot |-> [previous EXCEPT !.status = nextStatus(@, action)]])
    /\ UNCHANGED Records

InForce(s) == reference[s] # Absent /\ reference[s].active /\ supplierActive[s]

\* The suppliers a line may resolve to: the one it names, or else one that is
\* preferred, if there is any.
resolveLines(input) ==
    LET preferred == {s \in Suppliers : InForce(s) /\ reference[s].preferred} IN
    IF input.supplier # Absent THEN {s \in {input.supplier} : InForce(s)}
    ELSE IF preferred = {} THEN {Absent}
    ELSE preferred

\* The line is looked up, and a snapshot is made over the one read first.
Resolve(h) ==
    /\ buying[h].stage = "RESOLVE"
    /\ partActive
    /\ \E s \in resolveLines(buying[h].input) :
         LET line == [buying[h].input EXCEPT !.supplier = s]
             previous == buying[h].previous
         IN  Proceeds(h, [stage |-> "APPEND", previous |-> previous,
                snapshot |-> IF previous = Absent
                             THEN [status |-> "DRAFT", payload |-> buying[h].input, line |-> line]
                             ELSE [previous EXCEPT !.line = line]])
    /\ UNCHANGED Records

appendSnapshot(h) ==
    /\ buying[h].stage = "APPEND"
    /\ requestLog' = Append(requestLog, Row(buying[h].previous, buying[h].snapshot))
    /\ Ends(h)
    /\ UNCHANGED <<supplierActive, reference, partActive>>

---------------------------------------------------------------------------
(* Suppliers and their references.                                         *)

\* The rows another transaction has written and not committed.
Locked(h) == UNION {buying[g].cleared : g \in {g \in Buyers \ {h} : buying[g].stage = "WRITE"}}

\* requirePartSupplierScope: the part exists and the supplier is active.
\* The route gives a flag the request leaves out its default, so that what
\* the reference was before makes no difference.
setPartSupplierReference(h, s, preferred, active) ==
    /\ supplierActive[s]
    /\ Arrives(h, [stage |-> "CLEAR", supplier |-> s, preferred |-> preferred, active |-> active])
    /\ UNCHANGED Records

\* Mutant: the other references keep their preference.
ClearNothing(s, preferred, active) == {}

\* The references a preferred one takes the preference from.
OthersPreferred(s, preferred, active) ==
    IF ~preferred \/ ~active THEN {}
    ELSE {o \in Suppliers \ {s} : reference[o] # Absent /\ reference[o].preferred /\ reference[o].active}

\* They are locked from this statement to the commit.
ClearPreferred(h) ==
    LET s == buying[h].supplier
        others == OthersPreferred(s, buying[h].preferred, buying[h].active)
    IN
    /\ buying[h].stage = "CLEAR"
    /\ others \cap Locked(h) = {}
    /\ Proceeds(h, [stage |-> "WRITE", supplier |-> s, cleared |-> others,
            written |-> [preferred |-> buying[h].preferred /\ buying[h].active,
                         active |-> buying[h].active]])
    /\ UNCHANGED Records

UpsertReference(h) ==
    LET s == buying[h].supplier IN
    /\ buying[h].stage = "WRITE"
    /\ s \notin Locked(h)
    /\ reference' = [o \in Suppliers |->
                        IF o = s THEN buying[h].written
                        ELSE IF o \in buying[h].cleared THEN [reference[o] EXCEPT !.preferred = FALSE]
                        ELSE reference[o]]
    /\ Ends(h)
    /\ UNCHANGED <<requestLog, supplierActive, partActive>>

disablePartSupplierReference(h, s) ==
    /\ supplierActive[s]
    /\ reference[s] # Absent
    /\ reference[s].active
    /\ Arrives(h, [stage |-> "DISABLE", supplier |-> s])
    /\ UNCHANGED Records

Disable(h) ==
    LET s == buying[h].supplier IN
    /\ buying[h].stage = "DISABLE"
    /\ s \notin Locked(h)
    /\ reference' = [reference EXCEPT ![s] = [preferred |-> FALSE, active |-> FALSE]]
    /\ Ends(h)
    /\ UNCHANGED <<requestLog, supplierActive, partActive>>

\* The supplier is read outside the transaction that writes it.
updateSupplier(h, s, active) ==
    /\ Arrives(h, [stage |-> "SUPPLIER", supplier |-> s, current |-> supplierActive[s],
                   active |-> active])
    /\ UNCHANGED Records

\* Mutant: an archived supplier keeps its references.
KeepReferences(s, archived) == reference

ReferencesAfter(s, archived) ==
    IF archived /\ reference[s] # Absent /\ reference[s].active
    THEN [reference EXCEPT ![s] = [preferred |-> FALSE, active |-> FALSE]]
    ELSE reference

WriteSupplier(h) ==
    LET s == buying[h].supplier
        archived == ~buying[h].active /\ buying[h].current
    IN
    /\ buying[h].stage = "SUPPLIER"
    /\ archived => s \notin Locked(h)
    /\ supplierActive' = [supplierActive EXCEPT ![s] = buying[h].active]
    /\ reference' = ReferencesAfter(s, archived)
    /\ Ends(h)
    /\ UNCHANGED <<requestLog, partActive>>

\* A part is archived, or active again.
updatePart ==
    /\ partActive' = ~partActive
    /\ UNCHANGED <<requestLog, supplierActive, reference, buying, arrivals, overlapped>>

---------------------------------------------------------------------------

RequestStep(h) ==
    \/ \E input \in Line : createPurchaseRequest(h, input) \/ updatePurchaseRequestDraft(h, input)
    \/ \E action \in {"SUBMIT", "APPROVE", "REJECT", "CANCEL"} : transitionPurchaseRequest(h, action)
    \/ Resolve(h) \/ appendSnapshot(h)

ReferenceStep(h) ==
    \/ \E s \in Suppliers, preferred, active \in BOOLEAN :
         setPartSupplierReference(h, s, preferred, active)
    \/ ClearPreferred(h) \/ UpsertReference(h)

DisableStep(h) ==
    \/ \E s \in Suppliers : disablePartSupplierReference(h, s)
    \/ Disable(h)

SupplierStep(h) ==
    \/ \E s \in Suppliers, active \in BOOLEAN : updateSupplier(h, s, active)
    \/ WriteSupplier(h)

PurchasingNext ==
    \/ updatePart
    \/ \E h \in Buyers :
         RequestStep(h) \/ ReferenceStep(h) \/ DisableStep(h) \/ SupplierStep(h) \/ Abandon(h)

PurchasingSpec == PurchasingInit /\ [][PurchasingNext]_purchasingVars

---------------------------------------------------------------------------

\* However the handlers of a purchase request overlap, an approval or a
\* rejection is of a line somebody submitted, just as it was submitted: a
\* draft that changes meanwhile is submitted again or not decided on
\* (transitionPurchaseRequest copies the snapshot it read).
DecidedAsSubmitted ==
    \A i \in DOMAIN requestLog :
        requestLog[i].after.status \in {"APPROVED", "REJECTED"} =>
            \E j \in 1..(i - 1) :
                requestLog[j].after = [requestLog[i].after EXCEPT !.status = "SUBMITTED"]

\* As long as no two handlers are at work together: one active reference of a
\* part at most is preferred, an archived supplier has no active reference,
\* and nothing is written on a decided request.
SuppliersAreConsistent ==
    ~overlapped =>
        /\ \A s, o \in Suppliers :
             InForce(s) /\ reference[s].preferred /\ InForce(o) /\ reference[o].preferred => s = o
        /\ \A s \in Suppliers : reference[s] # Absent /\ reference[s].active => supplierActive[s]
        /\ \A i \in 1..(Len(requestLog) - 1) :
             requestLog[i].after.status \in {"DRAFT", "SUBMITTED"}
============================================================================
