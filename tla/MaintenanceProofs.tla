------------------------- MODULE MaintenanceProofs -------------------------
(***************************************************************************)
(* Proofs about PlanGeneration and PreventiveMaintenance, for any plans,   *)
(* frequencies, messages, number of overlapping runs and bounds, and about *)
(* AssetHierarchy, for any finite set of codes, files and handlers.        *)
(***************************************************************************)
EXTENDS PreventiveMaintenance, AssetHierarchy, FiniteSetTheorems, WellFoundedInduction, TLAPS

Working == {"LOOKING", "FOUND", "CREATING"}

PlansWhole == \A p \in Plans : plan[p].mode # None => plan[p].every \in Frequencies

\* What the stage of a run says of it.
RunWhole(x) ==
    /\ x.stage \in Working => x.plan \in Plans /\ x.every \in Frequencies
    /\ x.stage = "FOUND" => x.at \in orders[x.plan]
    /\ x.stage = "DONE" => x.rest = {}
    /\ \A l1, l2 \in x.rest : l1.plan = l2.plan => l1 = l2
    /\ x.stage \in Working => \A l \in x.rest : l.plan # x.plan

Whole == MaintenanceTypeOK /\ PlansWhole /\ \A r \in Runs : RunWhole(run[r])

\* due is an occurrence of the axis that begins at base.
On(base, every, due) == \E k \in Nat : due = base + k * every

Covers(l, p) ==
    l.plan = p /\ l.every = plan[p].every /\ On(l.due, l.every, plan[p].due)

AtWork(x) ==
    IF x.stage \in Working THEN {[plan |-> x.plan, due |-> x.at, every |-> x.every]} ELSE {}

\* Every plan that is due within the reach of a run, and that nobody has
\* touched, is one the run has still to come to, at a point the run will reach.
RunCovers(x) ==
    x.stage \in Working \cup {"DONE"} =>
        \A p \in Listed(x.mode, x.reach) \ x.touched :
            \E l \in x.rest \cup AtWork(x) : Covers(l, p)

Covered == \A r \in Runs : RunCovers(run[r])

\* A message has at most one reading, and one delivery that makes it.
Delivering(r, m) == run[r].stage = "SAVING" /\ run[r].message = m

OneDelivery ==
    \A m \in Messages :
        /\ message[m].readings <= 1
        /\ \A r \in Runs : Delivering(r, m) => message[m].readings = 0
        /\ \A r1, r2 \in Runs : Delivering(r1, m) /\ Delivering(r2, m) => r1 = r2

IInv == Whole /\ Covered /\ OneDelivery

---------------------------------------------------------------------------
(* Runs and the loops they are in.                                         *)

LEMMA IdleIsRun == Idle \in Run /\ RunWhole(Idle) /\ Idle.stage = "IDLE"
BY DEF Idle, Run, RunWhole, Working, Modes

LEMMA FrequenciesArePositive ==
  ASSUME NEW every \in Frequencies
  PROVE  every \in Nat /\ every > 0
BY FrequenciesAssumption

\* What taking up the next plan leaves as it was, and what it takes.
Successor(begun, b) ==
    /\ b \in Run
    /\ b.mode = begun.mode /\ b.reach = begun.reach /\ b.message = begun.message
    /\ b.touched = begun.touched
    /\ \/ begun.rest = {} /\ b.rest = {} /\ b.stage = "DONE"
       \/ \E n \in begun.rest :
            /\ b.stage = "LOOKING" /\ b.rest = begun.rest \ {n}
            /\ b.plan = n.plan /\ b.at = n.due /\ b.every = n.every

LEMMA TakeUpNextSucceeds ==
  ASSUME NEW begun \in Run, NEW b \in TakeUpNext(begun),
         \A l1, l2 \in begun.rest : l1.plan = l2.plan => l1 = l2
  PROVE  Successor(begun, b) /\ RunWhole(b)
<1>1. CASE begun.rest = {}
  <2>1. b = [begun EXCEPT !.stage = "DONE", !.plan = None, !.at = 0, !.every = None, !.count = 0]
    BY <1>1 DEF TakeUpNext
  <2>2. /\ b \in Run /\ b.stage = "DONE" /\ b.rest = begun.rest /\ b.mode = begun.mode
        /\ b.reach = begun.reach /\ b.message = begun.message /\ b.touched = begun.touched
    BY <2>1 DEF Run
  <2> QED BY <1>1, <2>2 DEF Successor, RunWhole, Working
<1>2. CASE begun.rest # {}
  <2>1. PICK n \in begun.rest :
          b = [begun EXCEPT !.stage = "LOOKING", !.rest = @ \ {n}, !.plan = n.plan,
                            !.at = n.due, !.every = n.every, !.count = 0]
    BY <1>2 DEF TakeUpNext
  <2>2. n.plan \in Plans /\ n.due \in Nat /\ n.every \in Frequencies
    BY DEF Run, Listing
  <2>3. begun.rest \ {n} \in SUBSET Listing
    BY DEF Run
  <2>4. /\ b \in Run /\ b.stage = "LOOKING" /\ b.rest = begun.rest \ {n} /\ b.mode = begun.mode
        /\ b.reach = begun.reach /\ b.message = begun.message /\ b.touched = begun.touched
        /\ b.plan = n.plan /\ b.at = n.due /\ b.every = n.every
    BY <2>1, <2>2, <2>3 DEF Run
  <2> QED BY <2>2, <2>4 DEF Successor, RunWhole, Working
<1> QED BY <1>1, <1>2

\* The run with its listing, before it takes up the first plan.
Begin(begun) ==
    [begun EXCEPT !.touched = {},
        !.rest = {[plan |-> p, due |-> plan[p].due, every |-> plan[p].every] :
                    p \in Listed(begun.mode, begun.reach)}]

LEMMA BeginIsRun ==
  ASSUME Whole, NEW begun \in Run
  PROVE  /\ Begin(begun) \in Run
         /\ Begin(begun).mode = begun.mode /\ Begin(begun).reach = begun.reach
         /\ Begin(begun).message = begun.message /\ Begin(begun).touched = {}
         /\ \A p \in Listed(begun.mode, begun.reach) :
              [plan |-> p, due |-> plan[p].due, every |-> plan[p].every] \in Begin(begun).rest
         /\ \A l1, l2 \in Begin(begun).rest : l1.plan = l2.plan => l1 = l2
<1> DEFINE rest == {[plan |-> p, due |-> plan[p].due, every |-> plan[p].every] :
                      p \in Listed(begun.mode, begun.reach)}
<1>1. ASSUME NEW p \in Listed(begun.mode, begun.reach)
      PROVE  [plan |-> p, due |-> plan[p].due, every |-> plan[p].every] \in Listing
  <2>1. p \in Plans /\ plan[p].mode = begun.mode /\ plan[p].due # None
    BY DEF Listed
  <2>2. begun.mode # None
    BY PlanNoneAssumption DEF Run
  <2>3. plan[p].due \in Nat /\ plan[p].every \in Frequencies
    BY <2>1, <2>2 DEF Whole, MaintenanceTypeOK, GenerationTypeOK, MaintenancePlan, PlansWhole
  <2> QED BY <2>1, <2>3 DEF Listing
<1>2. rest \in SUBSET Listing
  BY <1>1
<1>3. PICK x : x = rest
  OBVIOUS
<1>4. Begin(begun) = [begun EXCEPT !.touched = {}, !.rest = x]
  BY <1>3 DEF Begin
<1>5. /\ Begin(begun) \in Run /\ Begin(begun).rest = x
      /\ Begin(begun).mode = begun.mode /\ Begin(begun).reach = begun.reach
      /\ Begin(begun).message = begun.message /\ Begin(begun).touched = {}
  BY <1>2, <1>3, <1>4 DEF Run
<1>6. \A l1, l2 \in x : l1.plan = l2.plan => l1 = l2
  BY <1>3
<1> QED BY <1>3, <1>5, <1>6

\* The listing of plans, in words that the proofs use.
LEMMA ListPlansBegins ==
  ASSUME Whole, NEW r \in Runs, NEW begun \in Run, ListPlans(r, begun)
  PROVE  \E b \in TakeUpNext(Begin(begun)) :
           /\ Goes(r, b) /\ Successor(Begin(begun), b) /\ RunWhole(b)
<1>1. PICK b \in TakeUpNext(Begin(begun)) : Goes(r, b)
  BY DEF ListPlans, Begin
<1>2. Begin(begun) \in Run /\ \A l1, l2 \in Begin(begun).rest : l1.plan = l2.plan => l1 = l2
  BY BeginIsRun
<1> QED BY <1>1, <1>2, TakeUpNextSucceeds

\* Where a run goes from an occurrence.
Continues(r, b) ==
    /\ b \in Run
    /\ RunWhole(b)
    /\ b.mode = run[r].mode /\ b.reach = run[r].reach /\ b.message = run[r].message
    /\ b.touched = run[r].touched
    /\ LET next == run[r].at + run[r].every IN
       \/ /\ next <= run[r].reach
          /\ b.stage = "LOOKING" /\ b.rest = run[r].rest
          /\ b.plan = run[r].plan /\ b.at = next /\ b.every = run[r].every
       \/ next > run[r].reach /\ Successor(run[r], b)

Stale(r) == StillDue(run[r].plan, run[r].at) /\ run[r].every # plan[run[r].plan].every

LEMMA OnwardContinues ==
  ASSUME Whole, NEW r \in Runs, run[r].stage \in Working, Onward(r)
  PROVE  \E b \in Run :
           /\ Continues(r, b)
           /\ run' = [q \in Runs |-> IF q = r THEN b
                                     ELSE IF Stale(r) THEN Touched(q, run[r].plan) ELSE run[q]]
<1> DEFINE next == run[r].at + run[r].every
<1>1. run[r] \in Run /\ run[r].plan \in Plans /\ run[r].every \in Frequencies
  BY DEF Whole, MaintenanceTypeOK, GenerationTypeOK, RunWhole
<1>2. next \in Nat /\ run[r].reach \in Nat
  BY <1>1, FrequenciesArePositive DEF Run
<1>3. PICK b \in IF next <= run[r].reach
                 THEN {[run[r] EXCEPT !.stage = "LOOKING", !.at = next]}
                 ELSE TakeUpNext(run[r]) :
        run' = [q \in Runs |-> IF q = r THEN b
                               ELSE IF Stale(r) THEN Touched(q, run[r].plan) ELSE run[q]]
  BY DEF Onward, Stale
<1>4. CASE next <= run[r].reach
  <2>1. PICK at : at = next
    OBVIOUS
  <2>2. b = [run[r] EXCEPT !.stage = "LOOKING", !.at = at] /\ at \in Nat
    BY <1>2, <1>3, <1>4, <2>1
  <2>3. /\ b \in Run /\ b.stage = "LOOKING" /\ b.at = at /\ b.rest = run[r].rest
        /\ b.mode = run[r].mode /\ b.reach = run[r].reach /\ b.message = run[r].message
        /\ b.touched = run[r].touched /\ b.plan = run[r].plan /\ b.every = run[r].every
    BY <1>1, <2>2 DEF Run
  <2>4. RunWhole(b)
    BY <1>1, <2>3 DEF Whole, RunWhole, Working
  <2> QED BY <1>3, <1>4, <2>1, <2>3, <2>4 DEF Continues
<1>5. CASE ~(next <= run[r].reach)
  <2>1. b \in TakeUpNext(run[r])
    BY <1>3, <1>5
  <2>2. Successor(run[r], b) /\ RunWhole(b)
    BY <1>1, <2>1, TakeUpNextSucceeds DEF Whole, RunWhole
  <2>3. next > run[r].reach
    BY <1>2, <1>5
  <2> QED BY <1>3, <2>2, <2>3 DEF Continues, Successor
<1> QED BY <1>4, <1>5

---------------------------------------------------------------------------
(* The axis of occurrences.                                                *)

LEMMA OnSelf ==
  ASSUME NEW base \in Nat, NEW every \in Frequencies
  PROVE  On(base, every, base)
<1>1. base = base + 0 * every
  BY FrequenciesArePositive
<1> QED BY <1>1 DEF On

LEMMA OnFurther ==
  ASSUME NEW base \in Nat, NEW every \in Frequencies, NEW due \in Nat, On(base, every, due)
  PROVE  On(base, every, due + every)
<1>1. PICK k \in Nat : due = base + k * every
  BY DEF On
<1>2. due + every = base + (k + 1) * every /\ k + 1 \in Nat
  BY <1>1, FrequenciesArePositive
<1> QED BY <1>2 DEF On

LEMMA OnBeyond ==
  ASSUME NEW base \in Nat, NEW every \in Frequencies, NEW due \in Nat, On(base, every, due),
         due # base
  PROVE  On(base + every, every, due) /\ due >= base + every
<1>1. PICK k \in Nat : due = base + k * every
  BY DEF On
<1>2. every \in Nat /\ every > 0
  BY FrequenciesArePositive
<1>3. k # 0
  BY <1>1, <1>2
<1>4. PICK j \in Nat : k = j + 1
  BY <1>3
<1>5. due = (base + every) + j * every /\ j * every >= 0
  BY <1>1, <1>2, <1>4
<1> QED BY <1>2, <1>5 DEF On

---------------------------------------------------------------------------
(* What a step of one run means for what it covers.                        *)

\* The next plan of a listing comes under work, the others stay.
LEMMA SuccessorWork ==
  ASSUME NEW begun \in Run, NEW b, Successor(begun, b)
  PROVE  begun.rest \subseteq b.rest \cup AtWork(b)
<1>1. CASE begun.rest = {}
  BY <1>1
<1>2. ASSUME NEW n \in begun.rest,
             b.stage = "LOOKING", b.rest = begun.rest \ {n},
             b.plan = n.plan, b.at = n.due, b.every = n.every
      PROVE  begun.rest \subseteq b.rest \cup AtWork(b)
  <2>1. n = [plan |-> n.plan, due |-> n.due, every |-> n.every]
    BY DEF Run, Listing
  <2>2. n \in AtWork(b)
    BY <1>2, <2>1 DEF AtWork, Working
  <2> QED BY <1>2, <2>2
<1> QED BY <1>1, <1>2 DEF Successor

LEMMA SuccessorStage ==
  ASSUME NEW begun, NEW b, Successor(begun, b)
  PROVE  b.stage \in {"LOOKING", "DONE"}
BY DEF Successor

\* A run that has just listed its plans covers them.
LEMMA BeginCovers ==
  ASSUME Whole, NEW begun \in Run, NEW b, Successor(Begin(begun), b)
  PROVE  RunCovers(b)
<1>1. Begin(begun) \in Run
  BY BeginIsRun
<1>2. Begin(begun).rest \subseteq b.rest \cup AtWork(b)
  BY <1>1, SuccessorWork
<1> SUFFICES ASSUME NEW p \in Listed(b.mode, b.reach)
             PROVE  \E l \in b.rest \cup AtWork(b) : Covers(l, p)
  BY DEF RunCovers
<1> DEFINE l == [plan |-> p, due |-> plan[p].due, every |-> plan[p].every]
<1>3. p \in Listed(begun.mode, begun.reach) /\ begun.mode \in Modes
  BY BeginIsRun DEF Successor, Run
<1>4. l \in Begin(begun).rest
  BY <1>3, BeginIsRun
<1>5. plan[p].due \in Nat /\ plan[p].every \in Frequencies
  BY <1>1, <1>4 DEF Run, Listing
<1>6. Covers(l, p)
  BY <1>5, OnSelf DEF Covers
<1> QED BY <1>2, <1>4, <1>6

\* Plan p moves by its own frequency.
MovesOn(p) ==
    /\ plan[p].due \in Nat /\ plan[p].every \in Frequencies
    /\ plan'[p].mode = plan[p].mode /\ plan'[p].active = plan[p].active
    /\ plan'[p].every = plan[p].every
    /\ plan'[p].due = plan[p].due + plan[p].every

\* A run is told of a plan that is edited, and need not be told of one that
\* others move on.
LEMMA OthersCover ==
  ASSUME Whole, NEW x \in Run, RunWhole(x), RunCovers(x), NEW p \in Plans, NEW y \in Run,
         y.stage = x.stage, y.mode = x.mode, y.reach = x.reach, y.rest = x.rest,
         AtWork(y) = AtWork(x), x.touched \subseteq y.touched,
         archived' = archived \/ archived' = TRUE,
         \A q \in Plans \ {p} : plan'[q] = plan[q],
         p \in y.touched \/ plan'[p] = plan[p] \/ MovesOn(p)
  PROVE  RunCovers(y)'
<1> SUFFICES ASSUME y.stage \in Working \cup {"DONE"},
                    NEW q \in Listed(y.mode, y.reach)', q \notin y.touched
             PROVE  \E l \in y.rest \cup AtWork(y) : Covers(l, q)'
  BY DEF RunCovers, AtWork
<1>1. q \in Plans /\ ~archived' /\ ~archived
  BY DEF Listed
<1>2. x.reach \in Nat
  BY DEF Run
<1>3. CASE plan'[q] = plan[q]
  <2>1. q \in Listed(x.mode, x.reach) \ x.touched
    BY <1>1, <1>3 DEF Listed
  <2>2. PICK l \in x.rest \cup AtWork(x) : Covers(l, q)
    BY <2>1 DEF RunCovers
  <2> QED BY <1>3, <2>2 DEF Covers
<1>4. CASE q = p /\ MovesOn(p)
  <2>1. plan[p].every \in Nat /\ plan[p].every > 0
    BY <1>4, FrequenciesArePositive DEF MovesOn
  <2>2. plan'[p].mode = y.mode /\ plan'[p].active /\ plan'[p].due <= y.reach
    BY <1>4 DEF Listed
  <2>3. plan[p].due <= x.reach /\ plan[p].due # None
    BY <1>2, <1>4, <2>1, <2>2, PlanNoneAssumption DEF MovesOn
  <2>4. p \in Listed(x.mode, x.reach) \ x.touched
    BY <1>1, <1>4, <2>2, <2>3 DEF Listed, MovesOn
  <2>5. PICK l \in x.rest \cup AtWork(x) : Covers(l, p)
    BY <2>4 DEF RunCovers
  <2>6. l.due \in Nat
    BY DEF Run, Listing, AtWork
  <2>7. On(l.due, l.every, plan'[p].due)
    BY <1>4, <2>5, <2>6, OnFurther DEF Covers, MovesOn
  <2>8. l.plan = p /\ l.every = plan'[p].every
    BY <1>4, <2>5 DEF Covers, MovesOn
  <2>9. Covers(l, p)'
    BY <2>7, <2>8 DEF Covers, On
  <2> QED BY <1>4, <2>5, <2>9
<1> QED BY <1>1, <1>3, <1>4

\* The run that works on an occurrence, when it leaves it.
LEMMA OnwardCovers ==
  ASSUME Whole, NEW r \in Runs, run[r].stage \in Working, RunCovers(run[r]),
         advancePlanDue(run[r].plan, run[r].at, run[r].at + run[r].every),
         NEW b, Continues(r, b), archived' = archived
  PROVE  RunCovers(b)'
<1> DEFINE x == run[r]
           p == run[r].plan
           next == run[r].at + run[r].every
           current == [plan |-> p, due |-> run[r].at, every |-> run[r].every]
<1>1. /\ x \in Run /\ p \in Plans /\ x.every \in Frequencies /\ x.at \in Nat /\ x.reach \in Nat
      /\ x.every \in Nat /\ x.every > 0 /\ next \in Nat /\ next > x.at
  <2>1. x \in Run /\ p \in Plans /\ x.every \in Frequencies
    BY DEF Whole, MaintenanceTypeOK, GenerationTypeOK, RunWhole
  <2> QED BY <2>1, FrequenciesArePositive DEF Run
<1>2. x.rest \subseteq b.rest \cup AtWork(b)
  <2>1. CASE Successor(x, b)
    BY <1>1, <2>1, SuccessorWork
  <2>2. CASE b.rest = x.rest
    BY <2>2
  <2> QED BY <2>1, <2>2 DEF Continues
<1>3. next <= x.reach => [plan |-> p, due |-> next, every |-> x.every] \in AtWork(b)
  BY <1>1 DEF Continues, AtWork, Working
<1>4. b.mode = x.mode /\ b.reach = x.reach /\ b.touched = x.touched
  BY DEF Continues
<1>5. plan \in [Plans -> MaintenancePlan]
  BY DEF Whole, MaintenanceTypeOK, GenerationTypeOK
<1> SUFFICES ASSUME NEW q \in Listed(b.mode, b.reach)', q \notin b.touched
             PROVE  \E l \in b.rest \cup AtWork(b) : Covers(l, q)'
  BY DEF RunCovers, AtWork
<1>6. q \in Plans /\ ~archived
  BY DEF Listed
<1>7. CASE plan'[q] = plan[q] /\ ~(q = p /\ StillDue(p, x.at))
  <2>1. q \in Listed(x.mode, x.reach) \ x.touched
    BY <1>4, <1>6, <1>7 DEF Listed
  <2>2. PICK l \in x.rest \cup AtWork(x) : Covers(l, q)
    BY <2>1 DEF RunCovers
  <2>3. Covers(l, q)'
    BY <1>7, <2>2 DEF Covers
  <2>4. CASE l \in x.rest
    BY <1>2, <2>3, <2>4
  <2>5. CASE l \in AtWork(x)
    <3>1. l = current
      BY <2>5 DEF AtWork
    <3>2. /\ q = p /\ x.every = plan[p].every /\ On(x.at, x.every, plan[p].due)
          /\ plan[p].due \in Nat
      BY <1>5, <2>1, <2>2, <3>1 DEF Covers, Listed, MaintenancePlan
    <3>3. plan[p].due # x.at
      BY <1>7, <2>1, <3>2 DEF StillDue, Listed
    <3>4. On(next, x.every, plan[p].due) /\ plan[p].due >= next
      BY <1>1, <3>2, <3>3, OnBeyond
    <3>5. next <= x.reach
      BY <1>1, <2>1, <3>2, <3>4 DEF Listed
    <3>6. PICK k : k = [plan |-> p, due |-> next, every |-> x.every]
      OBVIOUS
    <3>7. k.plan = q /\ k.every = plan'[q].every /\ On(k.due, k.every, plan'[q].due)
      BY <1>7, <3>2, <3>4, <3>6
    <3>8. Covers(k, q)'
      BY <3>7 DEF Covers, On
    <3> QED BY <1>3, <3>5, <3>6, <3>8
  <2> QED BY <2>4, <2>5
<1>8. CASE q = p /\ StillDue(p, x.at)
  <2>1. plan' = [plan EXCEPT ![p].due = next]
    BY <1>8 DEF advancePlanDue
  <2>2. /\ plan'[p].mode = plan[p].mode /\ plan'[p].active = plan[p].active
        /\ plan'[p].every = plan[p].every /\ plan'[p].due = next
    BY <1>1, <1>5, <2>1 DEF MaintenancePlan
  <2>3. plan'[p].mode = x.mode /\ plan'[p].active /\ next <= x.reach
    BY <1>4, <1>8, <2>2 DEF Listed
  <2>4. plan[p].due = x.at /\ x.at <= x.reach /\ x.at # None
    BY <1>1, <1>8, <2>3, PlanNoneAssumption DEF StillDue
  <2>5. p \in Listed(x.mode, x.reach) \ x.touched
    BY <1>1, <1>4, <1>6, <1>8, <2>2, <2>3, <2>4 DEF Listed
  <2>6. PICK l \in x.rest \cup AtWork(x) : Covers(l, p)
    BY <2>5 DEF RunCovers
  <2>7. l \in AtWork(x)
    BY <2>6 DEF Whole, RunWhole, Covers
  <2>8. x.every = plan[p].every
    BY <2>6, <2>7 DEF AtWork, Covers
  <2>9. On(next, x.every, next)
    BY <1>1, OnSelf
  <2>10. PICK k : k = [plan |-> p, due |-> next, every |-> x.every]
    OBVIOUS
  <2>11. k.plan = q /\ k.every = plan'[q].every /\ On(k.due, k.every, plan'[q].due)
    BY <1>8, <2>2, <2>8, <2>9, <2>10
  <2>12. Covers(k, q)'
    BY <2>11 DEF Covers, On
  <2> QED BY <1>3, <2>3, <2>10, <2>12
<1>9. plan'[q] = plan[q] \/ (q = p /\ StillDue(p, x.at))
  BY <1>1, <1>5, <1>6 DEF advancePlanDue
<1> QED BY <1>7, <1>8, <1>9

---------------------------------------------------------------------------
(* Steps in which one request moves and the plans stay.                    *)

LEMMA GoesKeeps ==
  ASSUME IInv, NEW r \in Runs, NEW b \in Run, RunWhole(b), RunCovers(b), Goes(r, b),
         UNCHANGED <<plan, orders, archived, edits>>, stops' \in Nat, latest' \in Nat,
         message' \in [Messages -> Message],
         \A m \in Messages : message'[m].readings = message[m].readings,
         b.stage = "SAVING" /\ b.message \in Messages =>
            message[b.message].readings = 0 /\ ~Locked(b.message)
  PROVE  IInv'
<1>1. run \in [Runs -> Run] /\ run' = [run EXCEPT ![r] = b]
  BY DEF IInv, Whole, MaintenanceTypeOK, GenerationTypeOK, Goes
<1>2. MaintenanceTypeOK' /\ PlansWhole'
  BY <1>1 DEF IInv, Whole, MaintenanceTypeOK, GenerationTypeOK, PlansWhole
<1>3. ASSUME NEW q \in Runs PROVE RunWhole(run[q])' /\ RunCovers(run[q])'
  <2>1. run'[q] = b \/ run'[q] = run[q]
    BY <1>1
  <2>2. RunWhole(run[q]) /\ RunCovers(run[q])
    BY DEF IInv, Whole, Covered
  <2>3. RunWhole(run'[q]) /\ RunCovers(run'[q])
    BY <2>1, <2>2
  <2> QED BY <2>3 DEF RunWhole, RunCovers, Listed, Covers, AtWork
<1>4. OneDelivery'
  <2> SUFFICES ASSUME NEW m \in Messages
               PROVE  /\ message'[m].readings <= 1
                      /\ \A q \in Runs : Delivering(q, m)' => message'[m].readings = 0
                      /\ \A q1, q2 \in Runs : Delivering(q1, m)' /\ Delivering(q2, m)' => q1 = q2
    BY DEF OneDelivery
  <2>1. \A q \in Runs \ {r} : Delivering(q, m)' <=> Delivering(q, m)
    BY <1>1 DEF Delivering
  <2>2. Delivering(r, m)' => message[m].readings = 0 /\ ~Locked(m)
    BY <1>1 DEF Delivering
  <2>3. Locked(m) <=> \E q \in Runs : Delivering(q, m)
    BY DEF Locked, Delivering
  <2> QED BY <2>1, <2>2, <2>3 DEF IInv, OneDelivery
<1> QED BY <1>2, <1>3, <1>4 DEF IInv, Whole, Covered

LEMMA MessagesTyped ==
  ASSUME IInv
  PROVE  message \in [Messages -> Message] /\ latest \in Nat /\ stops \in Nat
BY DEF IInv, Whole, MaintenanceTypeOK, GenerationTypeOK

LEMMA IdleCovers == RunCovers(Idle)
BY DEF Idle, RunCovers, Working

LEMMA ListKeeps ==
  ASSUME IInv, NEW r \in Runs, NEW begun \in Run, ListPlans(r, begun),
         UNCHANGED <<plan, orders, archived, edits, stops, latest, message>>
  PROVE  IInv'
<1>1. PICK b \in TakeUpNext(Begin(begun)) :
        Goes(r, b) /\ Successor(Begin(begun), b) /\ RunWhole(b)
  BY ListPlansBegins DEF IInv
<1>2. b \in Run /\ b.stage # "SAVING"
  BY <1>1 DEF Successor
<1>3. RunCovers(b)
  BY <1>1, BeginCovers DEF IInv
<1> QED BY <1>1, <1>2, <1>3, GoesKeeps, MessagesTyped

LEMMA StartCalendarRunKeeps ==
  ASSUME IInv, NEW r \in Runs, NEW date \in Dates, StartCalendarRun(r, date)
  PROVE  IInv'
<1> DEFINE begun == [Idle EXCEPT !.reach = date]
<1>1. date \in Nat
  BY MessagesAssumption DEF Points
<1>2. begun \in Run
  BY <1>1, IdleIsRun DEF Run
<1> QED BY <1>2, ListKeeps DEF StartCalendarRun

LEMMA ListMeterPlansKeeps ==
  ASSUME IInv, NEW r \in Runs, ListMeterPlans(r)
  PROVE  IInv'
<1>1. run[r] \in Run
  BY DEF IInv, Whole, MaintenanceTypeOK, GenerationTypeOK
<1> QED BY <1>1, ListKeeps DEF ListMeterPlans

LEMMA addMeterReadingKeeps ==
  ASSUME IInv, NEW r \in Runs, NEW value \in Values, addMeterReading(r, value)
  PROVE  IInv'
<1> DEFINE b == [Idle EXCEPT !.stage = "SAVING", !.mode = "METER", !.reach = value]
<1>1. value \in Nat
  BY MessagesAssumption DEF Points
<1>2. b \in Run /\ b.stage = "SAVING" /\ b.message = None /\ b.rest = {}
  BY <1>1 DEF Idle, Run, Modes
<1>3. RunWhole(b) /\ RunCovers(b)
  BY <1>2 DEF RunWhole, RunCovers, Working
<1>4. Goes(r, b) /\ UNCHANGED <<plan, orders, archived, edits, stops, latest, message>>
  BY DEF addMeterReading
<1> QED BY <1>2, <1>3, <1>4, GoesKeeps, MessagesTyped, PlanNoneAssumption

LEMMA ingestMessageKeeps ==
  ASSUME IInv, NEW r \in Runs, NEW m \in Messages, ingestMessage(r, m)
  PROVE  IInv'
<1>1. valueOf[m] \in Nat
  BY MessagesAssumption DEF Points
<1>2. ASSUME NEW stage \in {"LISTING", "SAVING"}
      PROVE  LET b == Ingesting(m, stage) IN
             b \in Run /\ b.stage = stage /\ b.message = m /\ RunWhole(b) /\ RunCovers(b)
  <2> DEFINE b == Ingesting(m, stage)
  <2>1. b \in Run /\ b.stage = stage /\ b.message = m /\ b.rest = {}
    BY <1>1 DEF Ingesting, Idle, Run, Modes
  <2> QED BY <2>1 DEF RunWhole, RunCovers, Working
<1>3. ~Locked(m) /\ UNCHANGED <<plan, orders, archived, edits, stops, latest, message>>
  BY DEF ingestMessage
<1>4. CASE message[m].readings > 0 /\ Goes(r, Ingesting(m, "LISTING"))
  BY <1>2, <1>3, <1>4, GoesKeeps, MessagesTyped
<1>5. CASE ~(message[m].readings > 0) /\ Goes(r, Ingesting(m, "SAVING"))
  <2>1. message[m].readings = 0
    BY <1>5, MessagesTyped DEF Message
  <2> QED BY <1>2, <1>3, <1>5, <2>1, GoesKeeps, MessagesTyped
<1> QED BY <1>4, <1>5 DEF ingestMessage

LEMMA FinishKeeps ==
  ASSUME IInv, NEW r \in Runs, Finish(r)
  PROVE  IInv'
<1>1. run[r] \in Run
  BY DEF IInv, Whole, MaintenanceTypeOK, GenerationTypeOK
<1>2. /\ message' \in [Messages -> Message]
      /\ \A m \in Messages : message'[m].readings = message[m].readings
  <2>1. message \in [Messages -> Message]
    BY MessagesTyped
  <2>2. CASE UNCHANGED message
    BY <2>1, <2>2
  <2>3. ASSUME NEW m \in Messages, markIntegrationEventProcessed(m)
        PROVE  /\ message' \in [Messages -> Message]
               /\ \A k \in Messages : message'[k].readings = message[k].readings
    BY <2>1, <2>3 DEF markIntegrationEventProcessed, Message
  <2> QED BY <1>1, <2>2, <2>3 DEF Finish, Run
<1>3. Goes(r, Idle) /\ UNCHANGED <<plan, orders, archived, edits, stops, latest>>
  BY DEF Finish
<1> QED BY <1>2, <1>3, GoesKeeps, MessagesTyped, IdleIsRun, IdleCovers

LEMMA StopRunKeeps ==
  ASSUME IInv, NEW r \in Runs, StopRun(r), UNCHANGED <<latest, message>>
  PROVE  IInv'
<1>1. Goes(r, Idle) /\ UNCHANGED <<plan, orders, archived, edits>> /\ stops' = stops + 1
  BY DEF StopRun
<1>2. stops' \in Nat
  BY <1>1, MessagesTyped
<1> QED BY <1>1, <1>2, GoesKeeps, MessagesTyped, IdleIsRun, IdleCovers

\* The reading and its receipt are written; the message was not read before.
LEMMA SaveReadingKeeps ==
  ASSUME IInv, NEW r \in Runs, NEW backdated \in BOOLEAN, SaveReading(r, backdated)
  PROVE  IInv'
<1>0. PICK m, b : m = run[r].message /\ b = [run[r] EXCEPT !.stage = "LISTING"]
  OBVIOUS
<1>1. run[r] \in Run /\ run[r].stage = "SAVING" /\ run \in [Runs -> Run]
  BY DEF IInv, Whole, MaintenanceTypeOK, GenerationTypeOK, SaveReading
<1>2. b \in Run /\ b.stage = "LISTING" /\ b.rest = run[r].rest
  BY <1>0, <1>1 DEF Run
<1>3. /\ run' = [run EXCEPT ![r] = b]
      /\ UNCHANGED <<plan, orders, archived, edits, stops>>
      /\ latest' = latest \/ latest' = run[r].reach
      /\ message' = IF m = None THEN message ELSE [message EXCEPT ![m].readings = @ + 1]
  BY <1>0 DEF SaveReading, Goes
<1>4. message \in [Messages -> Message] /\ latest \in Nat
  BY MessagesTyped
<1>5. message' \in [Messages -> Message]
  <2>1. CASE m = None
    BY <1>3, <1>4, <2>1
  <2>2. CASE m # None
    <3>1. m \in Messages /\ message[m].readings \in Nat /\ message[m].processed \in BOOLEAN
      BY <1>0, <1>1, <1>4, <2>2 DEF Run, Message
    <3>2. [message[m] EXCEPT !.readings = @ + 1] \in Message
      BY <1>4, <3>1 DEF Message
    <3> QED BY <1>3, <1>4, <2>2, <3>2
  <2> QED BY <2>1, <2>2
<1>6. MaintenanceTypeOK' /\ PlansWhole'
  <2>1. latest' \in Nat
    BY <1>1, <1>3, <1>4 DEF Run
  <2>2. run' \in [Runs -> Run]
    BY <1>1, <1>2, <1>3
  <2> QED BY <1>3, <1>5, <2>1, <2>2
          DEF IInv, Whole, MaintenanceTypeOK, GenerationTypeOK, PlansWhole
<1>7. ASSUME NEW q \in Runs PROVE RunWhole(run[q])' /\ RunCovers(run[q])'
  <2>1. RunWhole(b) /\ RunCovers(b)
    BY <1>2 DEF IInv, Whole, RunWhole, RunCovers, Working
  <2>2. run'[q] = b \/ run'[q] = run[q]
    BY <1>1, <1>3
  <2>3. RunWhole(run[q]) /\ RunCovers(run[q])
    BY DEF IInv, Whole, Covered
  <2>4. RunWhole(run'[q]) /\ RunCovers(run'[q])
    BY <2>1, <2>2, <2>3
  <2> QED BY <1>3, <2>4 DEF RunWhole, RunCovers, Listed, Covers, AtWork
<1>8. OneDelivery'
  <2> SUFFICES ASSUME NEW k \in Messages
               PROVE  /\ message'[k].readings <= 1
                      /\ \A q \in Runs : Delivering(q, k)' => message'[k].readings = 0
                      /\ \A q1, q2 \in Runs : Delivering(q1, k)' /\ Delivering(q2, k)' => q1 = q2
    BY DEF OneDelivery
  <2>1. \A q \in Runs : Delivering(q, k)' => Delivering(q, k) /\ q # r
    BY <1>1, <1>2, <1>3 DEF Delivering
  <2>2. CASE k # m
    <3>1. message'[k].readings = message[k].readings
      BY <1>3, <1>4, <2>2
    <3> QED BY <2>1, <3>1 DEF IInv, OneDelivery
  <2>3. CASE k = m
    <3>1. Delivering(r, k) /\ message[k].readings = 0
      BY <1>0, <1>1, <2>3 DEF IInv, OneDelivery, Delivering
    <3>2. \A q \in Runs : ~Delivering(q, k)'
      BY <2>1, <3>1 DEF IInv, OneDelivery
    <3>3. message'[k].readings = 1
      BY <1>3, <1>4, <2>3, <3>1, PlanNoneAssumption DEF Message
    <3> QED BY <3>2, <3>3
  <2> QED BY <2>2, <2>3
<1> QED BY <1>6, <1>7, <1>8 DEF IInv, Whole, Covered

LEMMA LookForOrderKeeps ==
  ASSUME IInv, NEW r \in Runs, LookForOrder(r), UNCHANGED <<latest, message>>
  PROVE  IInv'
<1>1. /\ run[r] \in Run /\ run[r].stage = "LOOKING" /\ RunWhole(run[r]) /\ RunCovers(run[r])
      /\ UNCHANGED <<plan, orders, archived, edits, stops>>
  BY DEF IInv, Whole, Covered, MaintenanceTypeOK, GenerationTypeOK, LookForOrder
<1>2. CASE Fail(r)
  BY <1>1, <1>2, GoesKeeps, MessagesTyped, IdleIsRun, IdleCovers DEF Fail
<1>3. ASSUME NEW stage \in {"FOUND", "CREATING"},
             stage = "FOUND" => run[r].at \in orders[run[r].plan],
             Goes(r, [run[r] EXCEPT !.count = @ + 1, !.stage = stage])
      PROVE  IInv'
  <2>0. PICK n, b : n = run[r].count + 1 /\ b = [run[r] EXCEPT !.count = n, !.stage = stage]
    OBVIOUS
  <2>4. n \in Nat
    BY <1>1, <2>0 DEF Run
  <2>1. /\ b \in Run /\ b.stage = stage /\ b.rest = run[r].rest /\ b.mode = run[r].mode
        /\ b.reach = run[r].reach /\ b.touched = run[r].touched /\ b.plan = run[r].plan
        /\ b.at = run[r].at /\ b.every = run[r].every
    BY <1>1, <2>0, <2>4 DEF Run
  <2>5. Goes(r, b)
    BY <1>3, <2>0
  <2>2. RunWhole(b)
    BY <1>1, <1>3, <2>1 DEF RunWhole, Working
  <2>3. RunCovers(b)
    BY <1>1, <2>1 DEF RunCovers, Working, AtWork
  <2> QED BY <1>1, <2>1, <2>2, <2>3, <2>5, GoesKeeps, MessagesTyped
<1> QED BY <1>1, <1>2, <1>3 DEF LookForOrder

---------------------------------------------------------------------------
(* Steps in which a plan moves or is edited.                               *)

LEMMA TouchedRun ==
  ASSUME Whole, NEW q \in Runs, NEW p \in Plans
  PROVE  LET y == Touched(q, p) IN
         /\ y \in Run
         /\ y.stage = run[q].stage /\ y.mode = run[q].mode /\ y.reach = run[q].reach
         /\ y.rest = run[q].rest /\ y.plan = run[q].plan /\ y.at = run[q].at
         /\ y.every = run[q].every /\ y.message = run[q].message
         /\ run[q].touched \subseteq y.touched
         /\ y.stage # "IDLE" => p \in y.touched
<1>1. run[q] \in Run
  BY DEF Whole, MaintenanceTypeOK, GenerationTypeOK
<1>2. run[q].touched \cup {p} \in SUBSET Plans
  BY <1>1 DEF Run
<1> QED BY <1>1, <1>2 DEF Touched, Run

\* The other runs, when plan p is moved or edited.
LEMMA OthersGood ==
  ASSUME IInv, NEW p \in Plans, NEW q \in Runs, NEW y,
         y = run[q] \/ y = Touched(q, p),
         archived' = archived \/ archived' = TRUE,
         \A o \in Plans \ {p} : plan'[o] = plan[o],
         y = Touched(q, p) \/ plan'[p] = plan[p] \/ MovesOn(p),
         \A o \in Plans : orders[o] \subseteq orders'[o]
  PROVE  /\ y \in Run /\ RunWhole(y)' /\ RunCovers(y)'
         /\ y.stage = run[q].stage /\ y.message = run[q].message
<1>1. run[q] \in Run /\ RunWhole(run[q]) /\ RunCovers(run[q])
  BY DEF IInv, Whole, Covered, MaintenanceTypeOK, GenerationTypeOK
<1>2. /\ y \in Run
      /\ y.stage = run[q].stage /\ y.mode = run[q].mode /\ y.reach = run[q].reach
      /\ y.rest = run[q].rest /\ y.plan = run[q].plan /\ y.at = run[q].at
      /\ y.every = run[q].every /\ y.message = run[q].message
      /\ run[q].touched \subseteq y.touched
      /\ y = Touched(q, p) /\ y.stage # "IDLE" => p \in y.touched
  BY <1>1, TouchedRun DEF IInv
<1>3. RunWhole(y)'
  <2>1. y.stage = "FOUND" => y.at \in orders'[y.plan]
    BY <1>1, <1>2 DEF RunWhole, Working
  <2> QED BY <1>1, <1>2, <2>1 DEF RunWhole
<1>4. RunCovers(y)'
  <2>1. CASE y.stage = "IDLE"
    BY <2>1 DEF RunCovers, Working
  <2>2. CASE y.stage # "IDLE"
    <3>1. PICK x : x = run[q]
      OBVIOUS
    <3>2. p \in y.touched \/ plan'[p] = plan[p] \/ MovesOn(p)
      BY <1>2, <2>2
    <3>3. AtWork(y) = AtWork(x)
      BY <1>2, <3>1 DEF AtWork
    <3> QED BY <1>1, <1>2, <3>1, <3>2, <3>3, OthersCover DEF IInv
  <2> QED BY <2>1, <2>2
<1> QED BY <1>2, <1>3, <1>4

\* What is left to see when the other runs are good.
LEMMA RunsKeep ==
  ASSUME IInv,
         MaintenanceTypeOK', PlansWhole', UNCHANGED <<message>>,
         \A q \in Runs : RunWhole(run[q])' /\ RunCovers(run[q])',
         \A q \in Runs, m \in Messages : Delivering(q, m)' => Delivering(q, m)
  PROVE  IInv'
<1>1. OneDelivery'
  BY DEF IInv, OneDelivery
<1> QED BY <1>1 DEF IInv, Whole, Covered

LEMMA WriteKeeps ==
  ASSUME IInv, NEW p \in Plans, NEW row \in MaintenancePlan, row.every \in Frequencies,
         Write(p, row), UNCHANGED <<latest, message>>
  PROVE  IInv'
<1>1. /\ edits' = [edits EXCEPT ![p] = @ + 1] /\ plan' = [plan EXCEPT ![p] = row]
      /\ run' = [q \in Runs |-> Touched(q, p)]
      /\ UNCHANGED <<orders, archived, stops>>
  BY DEF Write
<1>2. ASSUME NEW q \in Runs
      PROVE  /\ run'[q] \in Run /\ RunWhole(run[q])' /\ RunCovers(run[q])'
             /\ run'[q].stage = run[q].stage /\ run'[q].message = run[q].message
  <2>1. PICK y : y = Touched(q, p)
    OBVIOUS
  <2>2. \A o \in Plans \ {p} : plan'[o] = plan[o]
    BY <1>1 DEF IInv, Whole, MaintenanceTypeOK, GenerationTypeOK
  <2>3. \A o \in Plans : orders[o] \subseteq orders'[o]
    BY <1>1
  <2>4. /\ y \in Run /\ RunWhole(y)' /\ RunCovers(y)'
        /\ y.stage = run[q].stage /\ y.message = run[q].message
    BY <1>1, <2>1, <2>2, <2>3, OthersGood
  <2>5. run'[q] = y
    BY <1>1, <2>1
  <2> QED BY <2>4, <2>5 DEF RunWhole, RunCovers, AtWork
<1>3. run' \in [Runs -> Run]
  BY <1>1, <1>2
<1>4. MaintenanceTypeOK' /\ PlansWhole'
  BY <1>1, <1>3 DEF IInv, Whole, MaintenanceTypeOK, GenerationTypeOK, PlansWhole
<1>5. \A q \in Runs, m \in Messages : Delivering(q, m)' => Delivering(q, m)
  BY <1>2 DEF Delivering
<1> QED BY <1>2, <1>4, <1>5, RunsKeep

LEMMA PlanStepKeeps ==
  ASSUME IInv, PlanStep, UNCHANGED <<latest, message>>
  PROVE  IInv'
<1>1. plan \in [Plans -> MaintenancePlan] /\ Points \subseteq Nat
  BY DEF IInv, Whole, MaintenanceTypeOK, GenerationTypeOK, Points
<1>2. ASSUME NEW p \in Plans, NEW every \in Frequencies, NEW mode \in Modes, NEW due \in Points,
             createPlan(p, mode, due, every)
      PROVE  IInv'
  <2>1. [mode |-> mode, active |-> TRUE, due |-> due, every |-> every] \in MaintenancePlan
    BY <1>1 DEF MaintenancePlan
  <2> QED BY <1>2, <2>1, WriteKeeps DEF createPlan
<1>3. ASSUME NEW p \in Plans, NEW every \in Frequencies, NEW active \in BOOLEAN,
             NEW due \in Points \cup {None, plan[p].due}, updatePlan(p, active, due, every)
      PROVE  IInv'
  <2>1. plan[p].mode \in Modes \cup {None} /\ due \in Nat \cup {None}
    BY <1>1 DEF MaintenancePlan
  <2>2. [mode |-> plan[p].mode, active |-> active, due |-> due, every |-> every]
          \in MaintenancePlan
    BY <2>1 DEF MaintenancePlan
  <2> QED BY <1>3, <2>2, WriteKeeps DEF updatePlan
<1>4. CASE archiveAsset
  <2>1. /\ archived' = TRUE /\ edits' = [p \in Plans |-> edits[p] + 1]
        /\ UNCHANGED <<plan, orders, run, stops>>
    BY <1>4 DEF archiveAsset
  <2>2. MaintenanceTypeOK' /\ PlansWhole'
    BY <2>1 DEF IInv, Whole, MaintenanceTypeOK, GenerationTypeOK, PlansWhole
  <2>3. ASSUME NEW q \in Runs PROVE RunWhole(run[q])' /\ RunCovers(run[q])'
    BY <2>1 DEF IInv, Whole, Covered, RunWhole, RunCovers, Listed, AtWork
  <2> QED BY <2>1, <2>2, <2>3, RunsKeep DEF Delivering
<1> QED BY <1>2, <1>3, <1>4 DEF PlanStep

\* A run moves its plan on, by whatever frequency it knows.
LEMMA MoveKeeps ==
  ASSUME IInv, NEW r \in Runs, run[r].stage \in {"FOUND", "CREATING"},
         advancePlanDue(run[r].plan, run[r].at, run[r].at + run[r].every), Onward(r),
         orders' \in [Plans -> SUBSET Nat], \A o \in Plans : orders[o] \subseteq orders'[o],
         UNCHANGED <<archived, edits, stops, latest, message>>
  PROVE  IInv'
<1>1. PICK p, at, next : p = run[r].plan /\ at = run[r].at /\ next = run[r].at + run[r].every
  OBVIOUS
<1>2. /\ run[r] \in Run /\ p \in Plans /\ run[r].every \in Frequencies /\ at \in Nat
      /\ next \in Nat /\ run \in [Runs -> Run] /\ plan \in [Plans -> MaintenancePlan]
  <2>1. /\ run[r] \in Run /\ p \in Plans /\ run[r].every \in Frequencies
        /\ run \in [Runs -> Run] /\ plan \in [Plans -> MaintenancePlan]
    BY <1>1 DEF IInv, Whole, MaintenanceTypeOK, GenerationTypeOK, RunWhole, Working
  <2> QED BY <1>1, <2>1, FrequenciesArePositive DEF Run
<1>3. PICK b \in Run :
        /\ Continues(r, b)
        /\ run' = [q \in Runs |-> IF q = r THEN b ELSE IF Stale(r) THEN Touched(q, p) ELSE run[q]]
  BY <1>1, OnwardContinues DEF IInv, Working
<1>4. plan' = IF StillDue(p, at) THEN [plan EXCEPT ![p].due = next] ELSE plan
  BY <1>1 DEF advancePlanDue
<1>5. plan' \in [Plans -> MaintenancePlan] /\ PlansWhole'
  BY <1>2, <1>4 DEF IInv, Whole, PlansWhole, MaintenancePlan
<1>6. Stale(r) \/ plan'[p] = plan[p] \/ MovesOn(p)
  <2>1. CASE StillDue(p, at) /\ ~Stale(r)
    <3>1. run[r].every = plan[p].every
      BY <1>1, <2>1 DEF Stale
    <3>2. plan[p].due = at
      BY <2>1 DEF StillDue
    <3> QED BY <1>1, <1>2, <1>4, <2>1, <3>1, <3>2 DEF MovesOn, MaintenancePlan
  <2>2. CASE ~StillDue(p, at)
    BY <1>4, <2>2
  <2> QED BY <2>1, <2>2
<1>7. ASSUME NEW q \in Runs
      PROVE  /\ run'[q] \in Run /\ RunWhole(run[q])' /\ RunCovers(run[q])'
             /\ \A m \in Messages : Delivering(q, m)' => Delivering(q, m)
  <2>1. CASE q = r
    <3>1. run'[q] = b /\ b.stage # "SAVING"
      BY <1>3, <2>1 DEF Continues, Successor
    <3>2. RunCovers(b)'
      BY <1>3, OnwardCovers DEF IInv, Covered, Working
    <3>3. RunWhole(b)'
      BY <1>3 DEF Continues, Successor, RunWhole
    <3> QED BY <3>1, <3>2, <3>3 DEF RunWhole, RunCovers, AtWork, Delivering
  <2>2. CASE q # r
    <3>1. PICK y : y = run'[q]
      OBVIOUS
    <3>2. y = IF Stale(r) THEN Touched(q, p) ELSE run[q]
      BY <1>3, <2>2, <3>1
    <3>3. \A o \in Plans \ {p} : plan'[o] = plan[o]
      BY <1>2, <1>4
    <3>4. /\ y \in Run /\ RunWhole(y)' /\ RunCovers(y)'
          /\ y.stage = run[q].stage /\ y.message = run[q].message
      BY <1>2, <1>6, <3>2, <3>3, OthersGood
    <3> QED BY <3>1, <3>4 DEF RunWhole, RunCovers, AtWork, Delivering
  <2> QED BY <2>1, <2>2
<1>8. run' \in [Runs -> Run]
  BY <1>3, <1>7
<1>9. MaintenanceTypeOK'
  BY <1>5, <1>8 DEF IInv, Whole, MaintenanceTypeOK, GenerationTypeOK
<1> QED BY <1>5, <1>7, <1>9, RunsKeep

LEMMA AdvanceExistingKeeps ==
  ASSUME IInv, NEW r \in Runs, AdvanceExisting(r), UNCHANGED <<latest, message>>
  PROVE  IInv'
<1>1. orders' \in [Plans -> SUBSET Nat] /\ orders' = orders
  BY DEF IInv, Whole, MaintenanceTypeOK, GenerationTypeOK, AdvanceExisting
<1> QED BY <1>1, MoveKeeps DEF AdvanceExisting

LEMMA generateOccurrenceKeeps ==
  ASSUME IInv, NEW r \in Runs, generateOccurrence(r), UNCHANGED <<latest, message>>
  PROVE  IInv'
<1> DEFINE p == run[r].plan
           at == run[r].at
<1>1. /\ run[r] \in Run /\ run[r].stage = "CREATING" /\ RunWhole(run[r]) /\ RunCovers(run[r])
      /\ orders \in [Plans -> SUBSET Nat]
      /\ UNCHANGED <<archived, edits, stops>>
  BY DEF IInv, Whole, Covered, MaintenanceTypeOK, GenerationTypeOK, generateOccurrence
<1>2. CASE at \in orders[p] /\ Goes(r, [run[r] EXCEPT !.stage = "FOUND"]) /\ UNCHANGED <<plan, orders>>
  <2> DEFINE b == [run[r] EXCEPT !.stage = "FOUND"]
  <2>1. /\ b \in Run /\ b.stage = "FOUND" /\ b.rest = run[r].rest /\ b.mode = run[r].mode
        /\ b.reach = run[r].reach /\ b.touched = run[r].touched /\ b.plan = run[r].plan
        /\ b.at = run[r].at /\ b.every = run[r].every
    BY <1>1 DEF Run
  <2>2. RunWhole(b)
    BY <1>1, <1>2, <2>1 DEF RunWhole, Working
  <2>3. RunCovers(b)
    BY <1>1, <2>1 DEF RunCovers, Working, AtWork
  <2> QED BY <1>1, <1>2, <2>1, <2>2, <2>3, GoesKeeps, MessagesTyped
<1>3. CASE /\ orders' = [orders EXCEPT ![p] = @ \cup {at}]
           /\ advancePlanDue(p, at, at + run[r].every) /\ Onward(r)
  <2>1. at \in Nat
    BY <1>1 DEF Run
  <2>2. orders' \in [Plans -> SUBSET Nat] /\ \A o \in Plans : orders[o] \subseteq orders'[o]
    BY <1>1, <1>3, <2>1
  <2> QED BY <1>1, <1>3, <2>2, MoveKeeps
<1>4. CASE Fail(r) /\ UNCHANGED <<plan, orders>>
  BY <1>1, <1>4, GoesKeeps, MessagesTyped, IdleIsRun, IdleCovers DEF Fail
<1> QED BY <1>2, <1>3, <1>4 DEF generateOccurrence

LEMMA StepKeeps == IInv /\ [Next]_vars => IInv'
<1> SUFFICES ASSUME IInv, [Next]_vars PROVE IInv'
  OBVIOUS
<1>1. ASSUME PlanStep, UNCHANGED <<latest, message>> PROVE IInv'
  BY <1>1, PlanStepKeeps
<1>2. ASSUME NEW r \in Runs, StopRun(r), UNCHANGED <<latest, message>> PROVE IInv'
  BY <1>2, StopRunKeeps
<1>3. ASSUME NEW r \in Runs,
             \/ \E date \in Dates : StartCalendarRun(r, date)
             \/ \E value \in Values : addMeterReading(r, value)
             \/ \E m \in Messages : ingestMessage(r, m)
      PROVE  IInv'
  BY <1>3, StartCalendarRunKeeps, addMeterReadingKeeps, ingestMessageKeeps
<1>4. ASSUME NEW r \in Runs, RequestStep(r) PROVE IInv'
  BY <1>4, LookForOrderKeeps, AdvanceExistingKeeps, generateOccurrenceKeeps, SaveReadingKeeps,
     ListMeterPlansKeeps, FinishKeeps DEF RequestStep, RunStep
<1>5. CASE UNCHANGED vars
  <2>1. /\ UNCHANGED <<plan, orders, archived, run, edits, stops>>
        /\ UNCHANGED latest /\ UNCHANGED message
    BY <1>5 DEF vars, generationVars
  <2>2. MaintenanceTypeOK' /\ PlansWhole'
    BY <2>1 DEF IInv, Whole, MaintenanceTypeOK, GenerationTypeOK, PlansWhole
  <2>3. ASSUME NEW q \in Runs PROVE RunWhole(run[q])' /\ RunCovers(run[q])'
    BY <2>1 DEF IInv, Whole, Covered, RunWhole, RunCovers, Listed, AtWork, Covers
  <2> QED BY <2>1, <2>2, <2>3, RunsKeep DEF Delivering
<1> QED BY <1>1, <1>2, <1>3, <1>4, <1>5 DEF Next

THEOREM IInvInductive == Spec => []IInv
<1>1. Init => IInv
  <2> SUFFICES ASSUME Init PROVE IInv
    OBVIOUS
  <2>1. MaintenanceTypeOK
    BY IdleIsRun DEF Init, GenerationInit, MaintenanceTypeOK, GenerationTypeOK, NoPlan,
                     MaintenancePlan, Message
  <2>2. PlansWhole
    BY DEF Init, GenerationInit, PlansWhole, NoPlan
  <2>3. ASSUME NEW r \in Runs
        PROVE  RunWhole(run[r]) /\ RunCovers(run[r]) /\ \A m \in Messages : ~Delivering(r, m)
    BY IdleIsRun, IdleCovers DEF Init, GenerationInit, Delivering
  <2>4. OneDelivery
    BY <2>3 DEF Init, OneDelivery
  <2> QED BY <2>1, <2>2, <2>3, <2>4 DEF IInv, Whole, Covered
<1> QED BY <1>1, StepKeeps, PTL DEF Spec

---------------------------------------------------------------------------

\* Plans, runs and messages are well typed in every reachable state.
THEOREM MaintenanceTypeCorrect == Spec => []MaintenanceTypeOK
<1>1. IInv => MaintenanceTypeOK
  BY DEF IInv, Whole
<1> QED BY <1>1, IInvInductive, PTL

\* A message of a device makes one reading, however often and however closely
\* it is delivered, and wherever a process dies.
THEOREM MessagesApplyOnce == Spec => []AppliedOnce
<1>1. IInv => AppliedOnce
  BY DEF IInv, OneDelivery, AppliedOnce
<1> QED BY <1>1, IInvInductive, PTL

\* What a run that ends has listed is generated, by itself or by others, unless
\* somebody edited the plan meanwhile or moved it by a frequency it no longer has.
THEOREM RunsLeaveNothingDue == Spec => []NothingLeftDue
<1>1. IInv => NothingLeftDue
  <2> SUFFICES ASSUME IInv, NEW r \in Runs, run[r].stage = "DONE",
                      NEW p \in Listed(run[r].mode, run[r].reach), p \notin run[r].touched
               PROVE  FALSE
    BY DEF NothingLeftDue
  <2>1. run[r].rest = {} /\ AtWork(run[r]) = {}
    BY DEF IInv, Whole, RunWhole, AtWork, Working
  <2> QED BY <2>1 DEF IInv, Covered, RunCovers
<1> QED BY <1>1, IInvInductive, PTL

---------------------------------------------------------------------------
(* PlanGeneration implements Recurrence.                                   *)

\* A run that moves its plan on passes an occurrence that has its work order.
LEMMA MoveRecurs ==
  ASSUME Whole, NEW r \in Runs, run[r].stage \in Working,
         LET q == run[r].plan IN
           /\ advancePlanDue(q, run[r].at, run[r].at + run[r].every)
           /\ \/ run[r].at \in orders[q] /\ orders' = orders
              \/ /\ StillDue(q, run[r].at)
                 /\ orders' = [orders EXCEPT ![q] = @ \cup {run[r].at}],
         edits' = edits, NEW p \in Plans
  PROVE  [Recurs(p)!Next]_(Recurs(p)!recurrence)
<1>1. PICK q, at, next : q = run[r].plan /\ at = run[r].at /\ next = run[r].at + run[r].every
  OBVIOUS
<1>2. /\ q \in Plans /\ at \in Nat /\ next \in Nat /\ next > at
      /\ plan \in [Plans -> MaintenancePlan] /\ orders \in [Plans -> SUBSET Nat]
  <2>1. /\ run[r] \in Run /\ q \in Plans /\ run[r].every \in Frequencies
        /\ plan \in [Plans -> MaintenancePlan] /\ orders \in [Plans -> SUBSET Nat]
    BY <1>1 DEF Whole, MaintenanceTypeOK, GenerationTypeOK, RunWhole
  <2> QED BY <1>1, <2>1, FrequenciesArePositive DEF Run
<1>3. plan' = IF StillDue(q, at) THEN [plan EXCEPT ![q].due = next] ELSE plan
  BY <1>1 DEF advancePlanDue
<1>4. \/ at \in orders[q] /\ orders' = orders
      \/ StillDue(q, at) /\ orders' = [orders EXCEPT ![q] = @ \cup {at}]
  BY <1>1
<1>5. CASE p # q \/ ~StillDue(q, at)
  <2>1. plan'[p].due = plan[p].due /\ orders'[p] = orders[p] /\ edits'[p] = edits[p]
    BY <1>2, <1>3, <1>4, <1>5
  <2> QED BY <2>1 DEF Recurs!recurrence
<1>6. CASE p = q /\ StillDue(q, at)
  <2>1. plan[p].due = at /\ plan[p].due # None
    BY <1>2, <1>6, PlanNoneAssumption DEF StillDue
  <2>2. orders'[p] = orders[p] \cup {at}
    BY <1>2, <1>4, <1>6
  <2>3. plan'[p].due = next
    BY <1>2, <1>3, <1>6 DEF MaintenancePlan
  <2>4. Recurs(p)!Occur
    BY <1>2, <2>1, <2>2, <2>3 DEF Recurs!Occur
  <2> QED BY <2>4 DEF Recurs!Next
<1> QED BY <1>5, <1>6

LEMMA EditRecurs ==
  ASSUME Whole, PlanStep, NEW p \in Plans
  PROVE  [Recurs(p)!Next]_(Recurs(p)!recurrence)
<1>1. plan \in [Plans -> MaintenancePlan] /\ edits \in [Plans -> Nat] /\ Points \subseteq Nat
  BY DEF Whole, MaintenanceTypeOK, GenerationTypeOK, Points
<1>2. ASSUME NEW q \in Plans, NEW row, row.due \in Nat \cup {None}, Write(q, row)
      PROVE  [Recurs(p)!Next]_(Recurs(p)!recurrence)
  <2>1. CASE p = q
    <3>1. edits'[p] = edits[p] + 1 /\ plan'[p].due \in Nat \cup {None} /\ orders'[p] = orders[p]
      BY <1>1, <1>2, <2>1 DEF Write
    <3>2. Recurs(p)!Edit
      BY <3>1 DEF Recurs!Edit
    <3> QED BY <3>2 DEF Recurs!Next
  <2>2. CASE p # q
    <3>1. edits'[p] = edits[p] /\ plan'[p].due = plan[p].due /\ orders'[p] = orders[p]
      BY <1>1, <1>2, <2>2 DEF Write
    <3> QED BY <3>1 DEF Recurs!recurrence
  <2> QED BY <2>1, <2>2
<1>3. ASSUME NEW q \in Plans, NEW every \in Frequencies, NEW mode \in Modes, NEW due \in Points,
             createPlan(q, mode, due, every)
      PROVE  [Recurs(p)!Next]_(Recurs(p)!recurrence)
  BY <1>1, <1>2, <1>3 DEF createPlan
<1>4. ASSUME NEW q \in Plans, NEW every \in Frequencies, NEW active \in BOOLEAN,
             NEW due \in Points \cup {None, plan[q].due}, updatePlan(q, active, due, every)
      PROVE  [Recurs(p)!Next]_(Recurs(p)!recurrence)
  <2>1. due \in Nat \cup {None}
    BY <1>1 DEF MaintenancePlan
  <2> QED BY <1>2, <1>4, <2>1 DEF updatePlan
<1>5. CASE archiveAsset
  <2>1. edits'[p] = edits[p] + 1 /\ plan'[p].due \in Nat \cup {None} /\ orders'[p] = orders[p]
    BY <1>1, <1>5 DEF archiveAsset, MaintenancePlan
  <2>2. Recurs(p)!Edit
    BY <2>1 DEF Recurs!Edit
  <2> QED BY <2>2 DEF Recurs!Next
<1> QED BY <1>3, <1>4, <1>5 DEF PlanStep

LEMMA StepRecurs ==
  ASSUME IInv, [Next]_vars, NEW p \in Plans
  PROVE  [Recurs(p)!Next]_(Recurs(p)!recurrence)
<1> DEFINE Same == UNCHANGED <<plan, orders, edits>>
<1>1. CASE Same
  BY <1>1 DEF Recurs!recurrence
<1>2. CASE PlanStep
  BY <1>2, EditRecurs DEF IInv
<1>3. ASSUME NEW r \in Runs, AdvanceExisting(r)
      PROVE  [Recurs(p)!Next]_(Recurs(p)!recurrence)
  <2>1. run[r].stage \in Working /\ run[r].at \in orders[run[r].plan]
    BY <1>3 DEF AdvanceExisting, Working, IInv, Whole, RunWhole
  <2> QED BY <1>3, <2>1, MoveRecurs DEF AdvanceExisting, IInv
<1>4. ASSUME NEW r \in Runs, generateOccurrence(r)
      PROVE  [Recurs(p)!Next]_(Recurs(p)!recurrence)
  <2>1. run[r].stage \in Working /\ edits' = edits
    BY <1>4 DEF generateOccurrence, Working
  <2>2. CASE UNCHANGED <<plan, orders>>
    BY <1>1, <2>1, <2>2
  <2>3. CASE /\ StillDue(run[r].plan, run[r].at)
             /\ orders' = [orders EXCEPT ![run[r].plan] = @ \cup {run[r].at}]
             /\ advancePlanDue(run[r].plan, run[r].at, run[r].at + run[r].every)
    BY <2>1, <2>3, MoveRecurs DEF IInv
  <2> QED BY <1>4, <2>2, <2>3 DEF generateOccurrence
<1>5. ASSUME NEW r \in Runs,
             \/ StopRun(r) \/ LookForOrder(r) \/ ListMeterPlans(r) \/ Finish(r)
             \/ \E date \in Dates : StartCalendarRun(r, date)
             \/ \E value \in Values : addMeterReading(r, value)
             \/ \E m \in Messages : ingestMessage(r, m)
             \/ \E backdated \in BOOLEAN : SaveReading(r, backdated)
      PROVE  Same
  BY <1>5 DEF StopRun, LookForOrder, ListMeterPlans, Finish, StartCalendarRun, addMeterReading,
              ingestMessage, SaveReading
<1>6. CASE UNCHANGED vars
  BY <1>1, <1>6 DEF vars, generationVars
<1> QED BY <1>1, <1>2, <1>3, <1>4, <1>5, <1>6 DEF Next, RequestStep, RunStep

\* No occurrence of any plan is skipped or generated out of turn: plan by plan,
\* the schedulers implement Recurrence.
THEOREM PlansAreRecurrences == Spec => PlansRecur
<1>1. Init => \A p \in Plans : Recurs(p)!Init
  <2> SUFFICES ASSUME Init, NEW p \in Plans PROVE Recurs(p)!Init
    OBVIOUS
  <2>1. plan[p].due = None /\ orders[p] = {} /\ edits[p] = 0
    BY DEF Init, GenerationInit, NoPlan
  <2> QED BY <2>1 DEF Recurs!Init
<1>2. IInv /\ [Next]_vars =>
        [\A p \in Plans : [Recurs(p)!Next]_(Recurs(p)!recurrence)]_generationVars
  BY StepRecurs
<1> QED BY <1>1, <1>2, IInvInductive, PTL DEF Spec, PlansRecur

---------------------------------------------------------------------------
(* The tree of the assets: walks up the tree.  A set of codes is closed if *)
(* no step to a parent leaves it; what the validation of a file finds is   *)
(* told of closed sets, and needs no count of steps.                       *)

Height == Cardinality(Codes)

\* A set of numbers has a least one.
LEMMA LeastNumber ==
  ASSUME NEW S \in SUBSET Nat, S # {}
  PROVE  \E n \in S : \A m \in S : n <= m
<1>. DEFINE R == {p \in Nat \X Nat : p[1] < p[2]}
<1>1. IsWellFoundedOn(R, Nat)
  BY NatLessThanWellFounded, Zenon DEF OpToRel
<1>2. \E n \in S : \A m \in S : ~ (<<m, n>> \in R)
  <2>. HIDE DEF R
  <2>. QED
    BY <1>1, WFMin, Zenon
<1>3. \A n, m \in S : <<m, n>> \notin R => n <= m
  OBVIOUS
<1>. QED
  BY <1>2, <1>3

\* Induction over the numbers, as a fact about sets of them.
LEMMA AllNumbers ==
  ASSUME NEW S \in SUBSET Nat, 0 \in S, \A n \in S : n + 1 \in S
  PROVE  S = Nat
<1>1. SUFFICES ASSUME Nat \ S # {} PROVE FALSE
  OBVIOUS
<1>2. PICK n \in Nat \ S : \A m \in Nat \ S : n <= m
  BY <1>1, LeastNumber
<1>3. n # 0 /\ n - 1 \in Nat /\ n - 1 \notin Nat \ S
  BY <1>2
<1>. QED
  BY <1>2, <1>3

\* There are finitely many codes.
LEMMA HeightIsNatural == Height \in Nat
  BY CodesAssumption, FS_CardinalityType DEF Height

\* Parents of some of the codes.
IsParentMap(parent) ==
    /\ DOMAIN parent \subseteq Codes
    /\ \A c \in DOMAIN parent : parent[c] \in Parents

\* Codes that no step to a parent leaves.
Closed(parent, S) == \A c \in S : ParentOf(parent, c) \in S

\* The codes above c are what the recursive definition of Above says: a
\* function with its equation exists.
LEMMA AboveIs ==
  ASSUME NEW parent, NEW c
  PROVE  Above(parent, c) = [n \in 0..Height |->
            IF n = 0 THEN c ELSE ParentOf(parent, Above(parent, c)[n - 1])]
<1>. DEFINE up(n, f) == IF n = 0 THEN c ELSE ParentOf(parent, f[n - 1])
            S == {n \in Nat : \E f : f = [m \in 0..n |-> up(m, f)]}
<1>1. 0 \in S
  <2>1. [m \in 0..0 |-> c] = [m \in 0..0 |-> up(m, [k \in 0..0 |-> c])]
    OBVIOUS
  <2>. QED
    BY <2>1, Zenon
<1>2. ASSUME NEW n \in S PROVE n + 1 \in S
  <2>1. PICK f : f = [m \in 0..n |-> up(m, f)]
    OBVIOUS
  <2>. DEFINE g == [m \in 0..(n + 1) |-> IF m = n + 1 THEN ParentOf(parent, f[n]) ELSE f[m]]
  <2>2. ASSUME NEW m \in 0..(n + 1) PROVE g[m] = up(m, g)
    <3>1. CASE m = n + 1
      <4>1. n \in 0..(n + 1) /\ n # n + 1 /\ m # 0 /\ m - 1 = n
        BY <3>1
      <4>2. g[n] = f[n]
        BY <4>1
      <4>. QED
        BY <3>1, <4>1, <4>2
    <3>2. CASE m # n + 1
      <4>1. m \in 0..n
        BY <3>2
      <4>2. f[m] = up(m, f)
        BY <2>1, <4>1
      <4>3. m # 0 => m - 1 \in 0..(n + 1) /\ m - 1 # n + 1
        BY <4>1
      <4>. QED
        BY <3>2, <4>2, <4>3
    <3>. QED
      BY <3>1, <3>2
  <2>3. g = [m \in 0..(n + 1) |-> up(m, g)]
    BY <2>2
  <2>4. \E h : h = [m \in 0..(n + 1) |-> up(m, h)]
    <3>. HIDE DEF g
    <3>. QED
      BY <2>3, Zenon
  <2>. QED
    BY <2>4
<1>3. S = Nat
  <2>1. S \in SUBSET Nat
    OBVIOUS
  <2>. HIDE DEF S
  <2>. QED
    BY <1>1, <1>2, <2>1, AllNumbers
<1>4. \E f : f = [m \in 0..Height |-> up(m, f)]
  BY <1>3, HeightIsNatural
<1>. DEFINE a == CHOOSE f : f = [m \in 0..Height |-> up(m, f)]
<1>5. a = [m \in 0..Height |-> up(m, a)]
  BY <1>4
<1>6. Above(parent, c) = a
  BY Zenon DEF Above, Height
<1>. QED
  BY <1>5, <1>6

\* The walk up from c starts at c, and every step is one to the parent.
LEMMA AboveSteps ==
  ASSUME NEW parent, NEW c
  PROVE  /\ Above(parent, c)[0] = c
         /\ \A n \in 1..Height : Above(parent, c)[n] = ParentOf(parent, Above(parent, c)[n - 1])
         /\ \A n \in 0..Height : n < Height => Above(parent, c)[n + 1] = ParentOf(parent, Above(parent, c)[n])
<1>. DEFINE up == Above(parent, c)
<1>1. up = [n \in 0..Height |-> IF n = 0 THEN c ELSE ParentOf(parent, up[n - 1])]
  BY AboveIs
<1>. HIDE DEF up
<1>2. \A n \in 0..Height : up[n] = IF n = 0 THEN c ELSE ParentOf(parent, up[n - 1])
  BY <1>1
<1>3. up[0] = c
  BY <1>2, HeightIsNatural
<1>4. ASSUME NEW n \in 1..Height PROVE up[n] = ParentOf(parent, up[n - 1])
  BY <1>2, HeightIsNatural
<1>5. ASSUME NEW n \in 0..Height, n < Height PROVE up[n + 1] = ParentOf(parent, up[n])
  <2>1. n + 1 \in 1..Height /\ (n + 1) - 1 = n
    BY <1>5, HeightIsNatural
  <2>. QED
    BY <1>4, <2>1
<1>. QED
  BY <1>3, <1>4, <1>5 DEF up

\* A walk that comes into a closed set stays there.
LEMMA StaysIn ==
  ASSUME NEW parent, NEW c, NEW S, Closed(parent, S),
         NEW m \in 0..Height, Above(parent, c)[m] \in S
  PROVE  \A n \in m..Height : Above(parent, c)[n] \in S
<1>. DEFINE up == Above(parent, c)
            G == {k \in Nat : m + k <= Height => up[m + k] \in S}
<1>1. 0 \in G
  BY HeightIsNatural
<1>2. ASSUME NEW k \in G PROVE k + 1 \in G
  <2>1. SUFFICES ASSUME m + (k + 1) <= Height PROVE up[m + (k + 1)] \in S
    OBVIOUS
  <2>2. m + k \in 0..Height /\ m + k < Height /\ (m + k) + 1 = m + (k + 1)
    BY <2>1, HeightIsNatural
  <2>3. up[m + k] \in S
    BY <2>2
  <2>4. up[(m + k) + 1] = ParentOf(parent, up[m + k])
    BY <2>2, AboveSteps
  <2>. QED
    BY <2>2, <2>3, <2>4 DEF Closed
<1>3. G = Nat
  <2>1. G \in SUBSET Nat
    OBVIOUS
  <2>. HIDE DEF G
  <2>. QED
    BY <1>1, <1>2, <2>1, AllNumbers
<1>4. ASSUME NEW n \in m..Height PROVE up[n] \in S
  <2>1. n - m \in Nat /\ m + (n - m) = n /\ n <= Height
    BY HeightIsNatural
  <2>2. n - m \in G
    <3>. HIDE DEF G
    <3>. QED
      BY <1>3, <2>1
  <2>. QED
    BY <2>1, <2>2
<1>. QED
  BY <1>4

\* A walk passes codes, and then is above the top.
LEMMA AboveType ==
  ASSUME NEW parent, IsParentMap(parent), NEW c \in Parents
  PROVE  /\ \A n \in 0..Height : Above(parent, c)[n] \in Parents
         /\ Above(parent, c) = [n \in 0..Height |-> Above(parent, c)[n]]
<1>1. Closed(parent, Parents)
  BY DEF Closed, Parents, ParentOf, IsParentMap
<1>2. Above(parent, c)[0] \in Parents
  BY AboveSteps
<1>3. \A n \in 0..Height : Above(parent, c)[n] \in Parents
  BY <1>1, <1>2, StaysIn, HeightIsNatural
<1>4. Above(parent, c) = [n \in 0..Height |-> Above(parent, c)[n]]
  <2>. DEFINE up == Above(parent, c)
  <2>1. up = [n \in 0..Height |-> IF n = 0 THEN c ELSE ParentOf(parent, up[n - 1])]
    BY AboveIs
  <2>. HIDE DEF up
  <2>2. up = [n \in 0..Height |-> up[n]]
    BY <2>1
  <2>. QED
    BY <2>2 DEF up
<1>. QED
  BY <1>3, <1>4

\* Above the top there is nothing.
LEMMA TopEnds ==
  ASSUME NEW parent, IsParentMap(parent), NEW c \in Parents,
         NEW m \in 0..Height, Above(parent, c)[m] = NoParent
  PROVE  \A n \in m..Height : Above(parent, c)[n] = NoParent
<1>1. Closed(parent, {NoParent})
  BY CodesAssumption DEF Closed, ParentOf, IsParentMap
<1>. QED
  BY <1>1, StaysIn

\* A walk that does not end in as many steps as there are codes comes to one
\* of them twice.
LEMMA Repeats ==
  ASSUME NEW parent, IsParentMap(parent), NEW c \in Parents,
         \A n \in 0..Height : Above(parent, c)[n] # NoParent
  PROVE  \E n \in 1..Height : \E m \in 0..(n - 1) : Above(parent, c)[n] = Above(parent, c)[m]
<1>. DEFINE up == Above(parent, c)
<1>1. up \in [0..Height -> Codes]
  <2>1. \A n \in 0..Height : up[n] \in Codes
    BY AboveType DEF Parents
  <2>2. up = [n \in 0..Height |-> up[n]]
    BY AboveType
  <2>. HIDE DEF up
  <2>. QED
    BY <2>1, <2>2
<1>2. IsFiniteSet(0..Height) /\ Cardinality(0..Height) = Height + 1
  BY FS_Interval, HeightIsNatural
<1>3. \E m, n \in 0..Height : m # n /\ up[m] = up[n]
  <2>1. Cardinality(Codes) < Cardinality(0..Height)
    BY <1>2, HeightIsNatural DEF Height
  <2>. HIDE DEF up
  <2>. QED
    BY <1>1, <1>2, <2>1, FS_PigeonHole, CodesAssumption
<1>4. PICK m, n \in 0..Height : m # n /\ up[m] = up[n]
  BY <1>3
<1>5. CASE m < n
  BY <1>4, <1>5, HeightIsNatural
<1>6. CASE n < m
  BY <1>4, <1>6, HeightIsNatural
<1>. QED
  BY <1>4, <1>5, <1>6, HeightIsNatural

\* A walk that comes back to where it was stays on its trail.
LEMMA TrailIsClosed ==
  ASSUME NEW parent, NEW c, NEW n \in 1..Height,
         \E m \in 0..(n - 1) : Above(parent, c)[n] = Above(parent, c)[m],
         NEW T, \A x : x \in T <=> \E l \in 0..(n - 1) : x = Above(parent, c)[l]
  PROVE  Closed(parent, T)
<1>. DEFINE up == Above(parent, c)
<1>1. SUFFICES ASSUME NEW l \in 0..(n - 1)
               PROVE  \E j \in 0..(n - 1) : ParentOf(parent, up[l]) = up[j]
  BY DEF Closed
<1>2. ParentOf(parent, up[l]) = up[l + 1]
  <2>1. l \in 0..Height /\ l < Height
    BY HeightIsNatural
  <2>. QED
    BY <2>1, AboveSteps
<1>3. CASE l = n - 1
  <2>1. l + 1 = n
    BY <1>3
  <2>. QED
    BY <1>2, <2>1
<1>4. CASE l # n - 1
  <2>1. l + 1 \in 0..(n - 1)
    BY <1>4
  <2>. QED
    BY <1>2, <2>1
<1>. QED
  BY <1>3, <1>4

\* As many steps as there are codes are enough: a visit has come to the parent
\* of all it has come to.
LEMMA VisitedIsClosed ==
  ASSUME NEW parent, IsParentMap(parent), NEW c \in Parents
  PROVE  /\ c \in Visited(parent, c)
         /\ Closed(parent, Visited(parent, c))
<1>. DEFINE up == Above(parent, c)
<1>1. Visited(parent, c) = {up[n] : n \in 0..Height}
  BY DEF Visited, Height
<1>2. c \in Visited(parent, c)
  <2>1. up[0] = c
    BY AboveSteps
  <2>. QED
    BY <1>1, <2>1, HeightIsNatural
<1>3. ASSUME NEW n \in 0..Height PROVE ParentOf(parent, up[n]) \in Visited(parent, c)
  <2>1. CASE n < Height
    <3>1. ParentOf(parent, up[n]) = up[n + 1] /\ n + 1 \in 0..Height
      BY <2>1, AboveSteps, HeightIsNatural
    <3>. QED
      BY <1>1, <3>1
  <2>2. CASE \E m \in 0..n : up[m] = NoParent
    <3>1. up[n] = NoParent
      BY <2>2, TopEnds, HeightIsNatural
    <3>2. ParentOf(parent, up[n]) = up[n]
      BY <3>1, CodesAssumption DEF ParentOf, IsParentMap
    <3>. QED
      BY <1>1, <3>2
  <2>3. CASE n = Height /\ \A m \in 0..n : up[m] # NoParent
    <3>1. PICK k \in 1..Height : \E m \in 0..(k - 1) : up[k] = up[m]
      BY <2>3, Repeats
    <3>. DEFINE T == {up[l] : l \in 0..(k - 1)}
    <3>2. Closed(parent, T)
      BY <3>1, TrailIsClosed
    <3>3. up[0] \in T
      BY HeightIsNatural
    <3>4. up[n] \in T
      <4>. HIDE DEF T
      <4>. QED
        BY <3>2, <3>3, StaysIn, HeightIsNatural
    <3>5. T \subseteq Visited(parent, c)
      BY <1>1, HeightIsNatural
    <3>. QED
      BY <3>2, <3>4, <3>5 DEF Closed
  <2>. QED
    BY <2>1, <2>2, <2>3, HeightIsNatural
<1>. QED
  BY <1>1, <1>2, <1>3 DEF Closed

\* A cycle that a row leads into is found, but where the code the visit comes
\* back to and the one before it are no rows.
LEMMA CycleIsReported ==
  ASSUME NEW file, file.rows \in Seq(Codes),
         NEW parent, IsParentMap(parent),
         NEW C \in SUBSET Codes, Closed(parent, C),
         \E i \in DOMAIN file.rows : file.rows[i] \in C,
         ~ASSET_HIERARCHY_CYCLE(file, parent)
  PROVE  \E c \in C : c \notin Named(file) /\ ParentOf(parent, c) \notin Named(file)
<1>. DEFINE row == file.rows
            I == {i \in DOMAIN row : Visited(parent, row[i]) \cap C # {}}
<1>1. DOMAIN row \subseteq Nat /\ \A i \in DOMAIN row : row[i] \in Codes /\ row[i] \in Parents
  BY DEF Parents
<1>2. PICK i \in I : \A j \in I : i <= j
  <2>1. I \in SUBSET Nat
    BY <1>1
  <2>2. I # {}
    BY <1>1, VisitedIsClosed
  <2>. HIDE DEF I
  <2>. QED
    BY <2>1, <2>2, LeastNumber
<1>. DEFINE up == Above(parent, row[i])
            done == UNION {Visited(parent, row[j]) : j \in 1..(i - 1)}
<1>3. PICK entry \in 0..Height : up[entry] \in C
  BY <1>2 DEF Visited, Height
<1>4. ASSUME NEW n \in 0..Height PROVE up[n] # NoParent
  <2>1. CASE n <= entry
    BY <1>1, <1>3, <2>1, TopEnds, CodesAssumption, HeightIsNatural
  <2>2. CASE entry <= n
    BY <1>3, <2>2, StaysIn, CodesAssumption, HeightIsNatural
  <2>. QED
    BY <2>1, <2>2, HeightIsNatural
<1>. DEFINE B == {n \in 1..Height : \E m \in 0..(n - 1) : up[n] = up[m]}
<1>5. PICK n \in B : \A k \in B : n <= k
  <2>1. B \in SUBSET Nat
    OBVIOUS
  <2>2. B # {}
    BY <1>1, <1>4, Repeats
  <2>. HIDE DEF B
  <2>. QED
    BY <2>1, <2>2, LeastNumber
<1>6. \E m \in 0..(n - 1) : up[n] = up[m]
  BY <1>5
<1>7. ASSUME NEW m \in 0..(n - 1), NEW k \in 0..(m - 1) PROVE up[m] # up[k]
  <2>1. m \in 1..Height /\ m < n
    BY HeightIsNatural
  <2>. QED
    BY <1>5, <2>1
<1>8. ASSUME NEW m \in 0..(n - 1), NEW j \in 1..(i - 1), up[m] \in Visited(parent, row[j])
      PROVE  FALSE
  <2>1. j \in DOMAIN row /\ j < i
    BY <1>1, <1>2
  <2>2. Visited(parent, row[j]) \cap C = {}
    BY <1>1, <1>2, <2>1
  <2>3. m \in 0..Height
    BY HeightIsNatural
  <2>4. CASE m <= entry
    <3>1. up[entry] \in Visited(parent, row[j])
      BY <1>1, <1>8, <2>1, <2>3, <2>4, VisitedIsClosed, StaysIn
    <3>. QED
      BY <1>3, <2>2, <3>1
  <2>5. CASE entry <= m
    <3>1. up[m] \in C
      BY <1>3, <2>3, <2>5, StaysIn
    <3>. QED
      BY <1>8, <2>2, <3>1
  <2>. QED
    BY <2>3, <2>4, <2>5
<1>9. Closes(up, n, done)
  <2>. HIDE DEF up
  <2>. QED
    BY <1>6, <1>7, <1>8 DEF Closes
<1>10. {up[n], up[n - 1]} \cap Named(file) = {}
  <2>1. n \in 1..Cardinality(Codes) /\ up[n] # NoParent /\ i \in DOMAIN file.rows
    BY <1>2, <1>4 DEF Height
  <2>2. ~ (up[n] # NoParent /\ Closes(up, n, done) /\ {up[n], up[n - 1]} \cap Named(file) # {})
    BY <2>1, Zenon DEF ASSET_HIERARCHY_CYCLE
  <2>. QED
    BY <1>9, <2>1, <2>2
<1>11. up[n - 1] \in C
  <2>1. \E m \in 0..(n - 1) : up[m] \in C
    <3>. DEFINE T == {up[l] : l \in 0..(n - 1)}
    <3>1. Closed(parent, T)
      <4>1. n \in 1..Height /\ \E m \in 0..(n - 1) : up[n] = up[m]
        BY <1>6
      <4>. QED
        BY <4>1, TrailIsClosed
    <3>2. up[0] \in T
      BY HeightIsNatural
    <3>3. up[entry] \in T
      <4>. HIDE DEF T
      <4>. QED
        BY <3>1, <3>2, StaysIn, HeightIsNatural
    <3>. QED
      BY <1>3, <3>3
  <2>. QED
    BY <2>1, StaysIn, HeightIsNatural
<1>12. ParentOf(parent, up[n - 1]) = up[n]
  BY AboveSteps
<1>. QED
  BY <1>10, <1>11, <1>12

---------------------------------------------------------------------------
(* Files: their validation, the order of their rows, the import, and the   *)
(* export.                                                                 *)

\* What a file that was parsed is.
LEMMA FileType ==
  ASSUME NEW file \in parseAssetCsv
  PROVE  /\ file.rows \in Seq(Codes)
         /\ Named(file) = {file.rows[i] : i \in DOMAIN file.rows}
         /\ Named(file) \subseteq Codes
         /\ DOMAIN file.parent = {} \/ DOMAIN file.parent = Named(file)
         /\ IsParentMap(file.parent)
<1>1. PICK rows \in Rows :
        file \in {[rows |-> rows, parent |-> parent] :
                    parent \in {<< >>} \cup {p \in [ToSet(rows) -> Parents] : \A c \in ToSet(rows) : p[c] # c}}
  BY DEF parseAssetCsv
<1>2. file.rows = rows /\ (file.parent = << >> \/ file.parent \in [ToSet(rows) -> Parents])
  BY <1>1
<1>3. rows \in Seq(Codes)
  <2>1. PICK S \in SUBSET Codes : rows \in SetToSeqs(S)
    BY DEF Rows, SetToAllKPermutations
  <2>2. rows \in [1..Cardinality(S) -> S] /\ Cardinality(S) \in Nat
    BY <2>1, CodesAssumption, FS_Subset, FS_CardinalityType DEF SetToSeqs
  <2>. QED
    BY <2>1, <2>2
<1>4. Named(file) = {file.rows[i] : i \in DOMAIN file.rows}
  BY <1>2 DEF Named, ToSet
<1>5. Named(file) \subseteq Codes
  BY <1>2, <1>3, <1>4
<1>6. DOMAIN << >> = {}
  OBVIOUS
<1>7. DOMAIN file.parent = {} \/ DOMAIN file.parent = Named(file)
  BY <1>2, <1>6 DEF Named
<1>8. IsParentMap(file.parent)
  BY <1>2, <1>5, <1>6, <1>7 DEF IsParentMap, Named
<1>. QED
  BY <1>2, <1>3, <1>4, <1>5, <1>7, <1>8

\* No rows of a file are below each other in a circle.
NoCircle(file) ==
    \A C \in SUBSET Named(file) : Closed(file.parent, C) => C = {}

\* The parents that the validation looks at are of the codes it knows.
LEMMA ParentByCodeType ==
  ASSUME asset \in [Codes -> Asset], NEW file \in parseAssetCsv, NEW active \in SUBSET Codes
  PROVE  /\ IsParentMap(parentByCode(file, active))
         /\ DOMAIN parentByCode(file, active) = active \cup Named(file)
<1>. Named(file) \subseteq Codes /\ \A c \in DOMAIN file.parent : file.parent[c] \in Parents
  BY FileType DEF IsParentMap
<1>. \A c \in Codes : asset[c].parent \in Parents
  BY DEF Asset
<1>. QED
  BY DEF parentByCode, IsParentMap, Parents

\* A file that passes has no circle among its rows.
LEMMA ValidatedHasNoCircle ==
  ASSUME asset \in [Codes -> Asset], NEW file \in parseAssetCsv, NEW active \in SUBSET Codes,
         ~importReferenceErrors(file, active)
  PROVE  NoCircle(file)
<1>1. SUFFICES ASSUME NEW C \in SUBSET Named(file), Closed(file.parent, C), C # {}
               PROVE  FALSE
  BY DEF NoCircle
<1>. DEFINE parent == parentByCode(file, active)
<1>2. C \subseteq Codes
  BY FileType
<1>3. Closed(parent, C)
  <2>1. SUFFICES ASSUME NEW c \in C PROVE ParentOf(parent, c) \in C
    BY DEF Closed
  <2>2. ParentOf(file.parent, c) \in C /\ c \in DOMAIN file.parent
    BY <1>1, <1>2, CodesAssumption DEF Closed, ParentOf
  <2>3. ParentOf(parent, c) = file.parent[c]
    BY <2>2 DEF parentByCode, ParentOf
  <2>. QED
    BY <2>2, <2>3 DEF ParentOf
<1>4. \E i \in DOMAIN file.rows : file.rows[i] \in C
  BY <1>1, FileType
<1>5. ~ASSET_HIERARCHY_CYCLE(file, parent)
  BY DEF importReferenceErrors
<1>6. \E c \in C : c \notin Named(file)
  <2>. HIDE DEF parent
  <2>. QED
    BY <1>2, <1>3, <1>4, <1>5, CycleIsReported, FileType, ParentByCodeType DEF parent
<1>. QED
  BY <1>6

\* A row is sorted after the row of its parent.
LEMMA ParentComesFirst ==
  ASSUME NEW file \in parseAssetCsv, NoCircle(file),
         NEW c \in DOMAIN file.parent, file.parent[c] \in Named(file)
  PROVE  file.parent[c] \in sortRowsParentFirst(file)[c]
<1>. DEFINE p == file.parent[c]
            visit(i) == Above(file.parent, file.rows[i])
            comes(d) == {i \in DOMAIN file.rows : d \in Visited(file.parent, file.rows[i])}
            sorts(d) == {i \in DOMAIN file.rows :
                            /\ d \in Visited(file.parent, file.rows[i])
                            /\ \A j \in 1..(i - 1) : d \notin Visited(file.parent, file.rows[j])}
            later(i, d, e) ==
                \A m, n \in 0..Cardinality(Codes) : visit(i)[m] = e /\ visit(i)[n] = d => m < n
<1>1. /\ c \in Named(file)
      /\ DOMAIN file.rows \subseteq Nat
      /\ \A i \in DOMAIN file.rows : file.rows[i] \in Codes /\ file.rows[i] \in Parents
      /\ \A i \in DOMAIN file.rows : \A j \in 1..(i - 1) : j \in DOMAIN file.rows
      /\ ParentOf(file.parent, c) = p
  BY FileType DEF Parents, ParentOf
<1>2. PICK k \in comes(c) : \A j \in comes(c) : k <= j
  <2>1. comes(c) \in SUBSET Nat
    BY <1>1
  <2>2. comes(c) # {}
    BY <1>1, FileType, VisitedIsClosed
  <2>. HIDE DEF comes
  <2>. QED
    BY <2>1, <2>2, LeastNumber
<1>3. k \in comes(p)
  BY <1>1, FileType, VisitedIsClosed DEF Closed
<1>4. PICK i \in comes(p) : \A j \in comes(p) : i <= j
  <2>1. comes(p) \in SUBSET Nat
    BY <1>1
  <2>2. comes(p) # {}
    BY <1>3
  <2>. HIDE DEF comes
  <2>. QED
    BY <2>1, <2>2, LeastNumber
<1>5. k \in sorts(c) /\ i \in sorts(p) /\ i <= k
  BY <1>1, <1>2, <1>3, <1>4
<1>6. ASSUME NEW m \in 0..Height, NEW n \in 0..Height, visit(k)[m] = c, visit(k)[n] = p, ~(m < n)
      PROVE  FALSE
  <2>. DEFINE T == {visit(k)[l] : l \in n..m}
  <2>1. ASSUME NEW l \in n..m PROVE ParentOf(file.parent, visit(k)[l]) \in T
    <3>1. CASE l = m
      BY <1>1, <1>6, <3>1
    <3>2. CASE l # m
      <4>1. l \in 0..Height /\ l < Height /\ l + 1 \in n..m
        BY <3>2, HeightIsNatural
      <4>2. ParentOf(file.parent, visit(k)[l]) = visit(k)[l + 1]
        BY <4>1, AboveSteps
      <4>. QED
        BY <4>1, <4>2
    <3>. QED
      BY <3>1, <3>2
  <2>2. Closed(file.parent, T)
    BY <2>1 DEF Closed
  <2>3. ASSUME NEW l \in n..m PROVE visit(k)[l] \in Named(file)
    <3>1. CASE l = m
      BY <1>1, <1>6, <3>1
    <3>2. CASE l # m
      <4>1. l \in 0..Height /\ l < Height /\ l + 1 \in 0..Height /\ m \in (l + 1)..Height
        BY <3>2, HeightIsNatural
      <4>2. ParentOf(file.parent, visit(k)[l]) = visit(k)[l + 1]
        BY <4>1, AboveSteps
      <4>3. visit(k)[l + 1] # NoParent
        <5>1. c # NoParent /\ file.rows[k] \in Parents /\ IsParentMap(file.parent)
          BY <1>1, FileType, CodesAssumption
        <5>2. SUFFICES ASSUME visit(k)[l + 1] = NoParent PROVE FALSE
          OBVIOUS
        <5>3. visit(k)[m] = NoParent
          BY <4>1, <5>1, <5>2, TopEnds
        <5>. QED
          BY <1>6, <5>1, <5>3
      <4>. QED
        BY <4>2, <4>3, FileType DEF ParentOf
    <3>. QED
      BY <3>1, <3>2
  <2>4. T \in SUBSET Named(file) /\ T # {}
    BY <1>6, <2>3
  <2>. HIDE DEF T
  <2>. QED
    BY <2>2, <2>4 DEF NoCircle
<1>7. i = k => later(i, p, c)
  <2>1. \A m, n \in 0..Height : visit(k)[m] = c /\ visit(k)[n] = p => m < n
    BY <1>6
  <2>. QED
    BY <2>1 DEF Height
<1>8. i < k \/ (i = k /\ later(i, p, c))
  BY <1>1, <1>5, <1>7
<1>9. \E x \in sorts(p), y \in sorts(c) : x < y \/ (x = y /\ later(x, p, c))
  <2>. HIDE DEF later, sorts
  <2>. QED
    BY <1>5, <1>8
<1>10. sortRowsParentFirst(file)[c] = {d \in Named(file) :
          \E x \in sorts(d), y \in sorts(c) : x < y \/ (x = y /\ later(x, d, c))}
  BY <1>1, Zenon DEF sortRowsParentFirst
<1>. QED
  BY <1>9, <1>10, Zenon

\* What a checked file leaves below what it names.
LEMMA ImportFindsParents ==
  ASSUME NEW file \in parseAssetCsv, NEW read \in Read, NoCircle(file),
         ~PARENT_ASSET_NOT_FOUND(file, DOMAIN read), NEW c \in DOMAIN file.parent
  PROVE  Imported(file, read)[c].parent =
            IF file.parent[c] \in DOMAIN read \ Named(file) THEN read[file.parent[c]] ELSE file.parent[c]
<1>1. c \in Named(file) /\ c \in Codes
  BY FileType
<1>2. file.parent[c] \in DOMAIN read \cup Named(file) \cup {NoParent} /\ NoParent \notin DOMAIN read
  BY CodesAssumption DEF PARENT_ASSET_NOT_FOUND, Read
<1>3. /\ file.parent[c] \in Named(file) => file.parent[c] \in sortRowsParentFirst(file)[c]
      /\ sortRowsParentFirst(file)[c] \subseteq Named(file)
  BY <1>1, ParentComesFirst DEF sortRowsParentFirst
<1>4. Imported(file, read)[c].parent =
        IF file.parent[c] \in sortRowsParentFirst(file)[c] THEN file.parent[c]
        ELSE IF file.parent[c] \in DOMAIN read THEN read[file.parent[c]] ELSE NoParent
  BY <1>1 DEF Imported, ImportRow
<1>. QED
  BY <1>2, <1>3, <1>4

\* An import checked just now holds every active asset under its code.
AsRead == [c \in Active |-> c]

LEMMA AsReadType ==
  Active \subseteq Codes /\ AsRead \in Read /\ DOMAIN AsRead = Active
<1>1. Active \in SUBSET Codes /\ AsRead \in [Active -> Codes]
  BY DEF Active, AsRead
<1>. QED
  BY <1>1 DEF Read, AsRead

\* A cycle is a closed set of codes, and the walk from any of it steps from
\* each of its codes to the parent.
LEMMA CycleIsClosed ==
  ASSUME NEW parent, IsParentMap(parent), NEW c \in Codes, OnCycle(parent, c)
  PROVE  \E C \in SUBSET Codes :
            /\ c \in C
            /\ Closed(parent, C)
            /\ \A x \in C : \E n \in 1..Height :
                  Above(parent, c)[n - 1] = x /\ Above(parent, c)[n] = ParentOf(parent, x)
<1>. DEFINE up == Above(parent, c)
<1>1. PICK p \in 1..Height : up[p] = c
  BY DEF OnCycle, Height
<1>. DEFINE C == {up[k] : k \in 0..(p - 1)}
<1>2. up[0] = c /\ c \in Parents
  BY AboveSteps DEF Parents
<1>3. ASSUME NEW k \in 0..(p - 1) PROVE up[k] \in Codes
  <2>1. k \in 0..Height /\ p \in k..Height
    BY HeightIsNatural
  <2>2. up[k] # NoParent
    BY <1>1, <1>2, <2>1, TopEnds, CodesAssumption
  <2>. QED
    BY <1>2, <2>1, <2>2, AboveType DEF Parents
<1>4. C \in SUBSET Codes
  BY <1>3
<1>5. c \in C
  BY <1>2
<1>6. Closed(parent, C)
  <2>1. \E m \in 0..(p - 1) : up[p] = up[m]
    BY <1>1, <1>2
  <2>. QED
    BY <2>1, TrailIsClosed
<1>7. ASSUME NEW k \in 0..(p - 1)
      PROVE  \E n \in 1..Height : up[n - 1] = up[k] /\ up[n] = ParentOf(parent, up[k])
  <2>1. k \in 0..Height /\ k < Height /\ k + 1 \in 1..Height /\ (k + 1) - 1 = k
    BY HeightIsNatural
  <2>2. up[k + 1] = ParentOf(parent, up[k])
    BY <2>1, AboveSteps
  <2>. QED
    BY <2>1, <2>2
<1>8. \A x \in C : \E n \in 1..Height : up[n - 1] = x /\ up[n] = ParentOf(parent, x)
  BY <1>7
<1>. HIDE DEF C
<1>. QED
  BY <1>4, <1>5, <1>6, <1>8

\* A walk that comes back to a code is on a cycle there.
LEMMA LoopIsCycle ==
  ASSUME NEW parent, IsParentMap(parent), NEW other,
         \A x \in DOMAIN parent : ParentOf(other, x) = ParentOf(parent, x),
         NEW c \in Parents, NEW n \in 1..Height, NEW m \in 0..(n - 1),
         Above(parent, c)[n] = Above(parent, c)[m],
         Above(parent, c)[n] # NoParent
  PROVE  Above(parent, c)[m] \in DOMAIN parent /\ OnCycle(other, Above(parent, c)[m])
<1>. DEFINE up == Above(parent, c)
            w == Above(other, up[m])
            G == {j \in Nat : j <= n - m => w[j] = up[m + j]}
<1>1. ASSUME NEW l \in m..(n - 1) PROVE up[l] \in DOMAIN parent /\ ParentOf(parent, up[l]) = up[l + 1]
  <2>1. l \in 0..Height /\ l < Height /\ l + 1 \in 0..Height /\ n \in (l + 1)..Height
    BY HeightIsNatural
  <2>2. ParentOf(parent, up[l]) = up[l + 1]
    BY <2>1, AboveSteps
  <2>3. up[l + 1] # NoParent
    BY <2>1, TopEnds
  <2>. QED
    BY <2>2, <2>3 DEF ParentOf
<1>2. 0 \in G
  BY AboveSteps
<1>3. ASSUME NEW j \in G PROVE j + 1 \in G
  <2>1. SUFFICES ASSUME j + 1 <= n - m PROVE w[j + 1] = up[m + (j + 1)]
    OBVIOUS
  <2>2. m + j \in m..(n - 1) /\ j \in 0..Height /\ j < Height /\ (m + j) + 1 = m + (j + 1)
    BY <2>1, HeightIsNatural
  <2>3. w[j] = up[m + j]
    BY <2>1
  <2>4. w[j + 1] = ParentOf(other, w[j])
    BY <2>2, AboveSteps
  <2>. QED
    BY <1>1, <2>2, <2>3, <2>4
<1>4. G = Nat
  <2>1. G \in SUBSET Nat
    OBVIOUS
  <2>. HIDE DEF G
  <2>. QED
    BY <1>2, <1>3, <2>1, AllNumbers
<1>5. n - m \in 1..Height /\ n - m \in Nat /\ m + (n - m) = n
  BY HeightIsNatural
<1>6. n - m \in G
  <2>. HIDE DEF G
  <2>. QED
    BY <1>4, <1>5
<1>7. w[n - m] = up[m]
  BY <1>5, <1>6
<1>8. OnCycle(other, up[m])
  BY <1>5, <1>7 DEF OnCycle, Height
<1>9. up[m] \in DOMAIN parent
  BY <1>1
<1>. QED
  BY <1>8, <1>9

\* The parents of the assets are parents of codes.
LEMMA ParentType ==
  ASSUME asset \in [Codes -> Asset]
  PROVE  /\ IsParentMap(Parent)
         /\ \A c \in Codes : ParentOf(Parent, c) = asset[c].parent
  BY DEF Parent, IsParentMap, Asset, ParentOf

\* An export names the active assets, each once, with the parents that the
\* validation finds for them.
LEMMA ExportIsFile ==
  ASSUME asset \in [Codes -> Asset], NEW rows \in SetToSeqs(Active)
  PROVE  /\ Export(rows).rows \in Seq(Codes)
         /\ Named(Export(rows)) = Active
         /\ \A c \in Active : \E i \in DOMAIN rows : rows[i] = c
         /\ \A i \in DOMAIN rows : rows[i] \in Active
         /\ IsParentMap(Export(rows).parent)
         /\ parentByCode(Export(rows), Active) = Export(rows).parent
<1>1. Active \in SUBSET Codes
  BY DEF Active
<1>2. IsFiniteSet(Active) /\ Cardinality(Active) \in Nat
  BY <1>1, CodesAssumption, FS_Subset, FS_CardinalityType
<1>. DEFINE D == 1..Cardinality(Active)
<1>3. rows \in [D -> Active] /\ \A i, j \in D : i # j => rows[i] # rows[j]
  BY DEF SetToSeqs
<1>4. rows \in Seq(Codes)
  BY <1>1, <1>2, <1>3
<1>5. rows \in Injection(D, Active)
  BY <1>3 DEF Injection, IsInjective
<1>6. Cardinality(D) = Cardinality(Active)
  <2>1. CASE Cardinality(Active) = 0
    BY <1>2, <2>1, FS_Interval
  <2>2. CASE Cardinality(Active) # 0
    BY <1>2, <2>2, FS_Interval
  <2>. QED
    BY <2>1, <2>2
<1>7. rows \in Surjection(D, Active)
  <2>. HIDE DEF D
  <2>. QED
    BY <1>2, <1>5, <1>6, FS_Injection
<1>8. \A c \in Active : \E i \in DOMAIN rows : rows[i] = c
  BY <1>3, <1>7 DEF Surjection
<1>9. \A i \in DOMAIN rows : rows[i] \in Active
  BY <1>3
<1>10. Named(Export(rows)) = Active
  BY <1>8, <1>9 DEF Named, ToSet, Export
<1>11. IsParentMap(Export(rows).parent)
  BY <1>1 DEF IsParentMap, Export, Asset
<1>12. parentByCode(Export(rows), Active) = Export(rows).parent
  BY <1>10 DEF parentByCode, Export
<1>13. Export(rows).rows = rows
  BY DEF Export
<1>. QED
  BY <1>4, <1>8, <1>9, <1>10, <1>11, <1>12, <1>13

\* An export is accepted exactly if the active assets hang together as trees.
LEMMA ExportIsAccepted ==
  ASSUME asset \in [Codes -> Asset], NEW rows \in SetToSeqs(Active)
  PROVE  ~importReferenceErrors(Export(rows), Active) <=>
            ArchivedIsEmpty /\ \A c \in Active : ~OnCycle(Parent, c)
<1>. DEFINE file == Export(rows)
            parent == file.parent
<1>1. Active \subseteq Codes /\ DOMAIN parent = Active /\ \A c \in Active : parent[c] = asset[c].parent
  BY DEF Active, Export
<1>2. PARENT_ASSET_NOT_FOUND(file, Active) <=> ~ArchivedIsEmpty
  <2>1. Named(file) = Active
    BY ExportIsFile
  <2>. HIDE DEF file
  <2>. QED
    BY <1>1, <2>1 DEF PARENT_ASSET_NOT_FOUND, ArchivedIsEmpty
<1>3. \A c \in Active : ParentOf(Parent, c) = ParentOf(parent, c) /\ ParentOf(parent, c) = asset[c].parent
  BY <1>1, ParentType DEF ParentOf
<1>4. importReferenceErrors(file, Active) <=> PARENT_ASSET_NOT_FOUND(file, Active) \/ ASSET_HIERARCHY_CYCLE(file, parent)
  BY ExportIsFile, Zenon DEF importReferenceErrors
<1>5. ASSUME ArchivedIsEmpty, ~ASSET_HIERARCHY_CYCLE(file, parent),
             NEW c \in Active, OnCycle(Parent, c)
      PROVE  FALSE
  <2>1. PICK C \in SUBSET Codes : c \in C /\ Closed(Parent, C)
    BY <1>1, <1>5, ParentType, CycleIsClosed
  <2>2. Closed(parent, C \cap Active)
    <3>1. SUFFICES ASSUME NEW x \in C \cap Active PROVE ParentOf(parent, x) \in C \cap Active
      BY DEF Closed
    <3>2. ParentOf(parent, x) \in C
      BY <1>3, <2>1 DEF Closed
    <3>3. ParentOf(parent, x) \in Active \cup {NoParent}
      BY <1>3, <1>5 DEF ArchivedIsEmpty
    <3>. QED
      BY <3>2, <3>3, CodesAssumption
  <2>3. \E i \in DOMAIN file.rows : file.rows[i] \in C \cap Active
    <3>1. file.rows = rows
      BY DEF Export
    <3>. QED
      BY <2>1, <3>1, ExportIsFile
  <2>4. \E x \in C \cap Active : x \notin Named(file)
    <3>1. file.rows \in Seq(Codes) /\ IsParentMap(parent)
      BY ExportIsFile
    <3>. HIDE DEF file
    <3>. QED
      BY <1>5, <2>2, <2>3, <3>1, CycleIsReported
  <2>. QED
    BY <2>4, ExportIsFile
<1>6. ASSUME ASSET_HIERARCHY_CYCLE(file, parent), \A c \in Active : ~OnCycle(Parent, c)
      PROVE  FALSE
  <2>1. PICK i \in DOMAIN file.rows, n \in 1..Height :
          /\ Above(parent, file.rows[i])[n] # NoParent
          /\ \E m \in 0..(n - 1) : Above(parent, file.rows[i])[n] = Above(parent, file.rows[i])[m]
    <3>. HIDE DEF file
    <3>. QED
      BY <1>6 DEF ASSET_HIERARCHY_CYCLE, Closes, Height
  <2>2. file.rows[i] \in Parents
    <3>1. file.rows = rows
      BY DEF Export
    <3>. QED
      BY <1>1, <3>1, ExportIsFile DEF Parents
  <2>3. PICK m \in 0..(n - 1) : Above(parent, file.rows[i])[n] = Above(parent, file.rows[i])[m]
    BY <2>1
  <2>4. /\ Above(parent, file.rows[i])[m] \in DOMAIN parent
        /\ OnCycle(Parent, Above(parent, file.rows[i])[m])
    <3>1. IsParentMap(parent) /\ \A x \in DOMAIN parent : ParentOf(Parent, x) = ParentOf(parent, x)
      BY <1>1, <1>3, ExportIsFile
    <3>. HIDE DEF file
    <3>. QED
      BY <2>1, <2>2, <2>3, <3>1, LoopIsCycle
  <2>. QED
    BY <1>1, <1>6, <2>4
<1>. QED
  BY <1>2, <1>4, <1>5, <1>6

\* The import of an export that names active parents changes nothing.
LEMMA ExportIsWhatThereIs ==
  ASSUME asset \in [Codes -> Asset], NEW rows \in SetToSeqs(Active), ArchivedIsEmpty
  PROVE  Imported(Export(rows), AsRead) = asset
<1>. DEFINE file == Export(rows)
<1>1. Named(file) = Active /\ Active \subseteq Codes
  BY ExportIsFile DEF Active
<1>2. ASSUME NEW c \in Active PROVE ImportRow(file, AsRead, c) = asset[c]
  <2>1. c \in DOMAIN file.parent /\ file.parent[c] = asset[c].parent
    BY DEF Export
  <2>2. asset[c].parent \in Active \cup {NoParent}
    BY <1>2 DEF ArchivedIsEmpty
  <2>3. asset[c].state = "ACTIVE" /\ asset[c] \in Asset
    BY <1>1 DEF Active
  <2>4. asset[c] = [state |-> asset[c].state, parent |-> asset[c].parent]
    BY <2>3 DEF Asset
  <2>5. DOMAIN AsRead = Active /\ \A d \in Active : AsRead[d] = d
    BY DEF AsRead
  <2>. HIDE DEF file
  <2>. QED
    BY <2>1, <2>2, <2>3, <2>4, <2>5 DEF ImportRow
<1>3. \A c \in Codes : Imported(file, AsRead)[c] = asset[c]
  BY <1>1, <1>2 DEF Imported
<1>4. Imported(file, AsRead) = [c \in Codes |-> Imported(file, AsRead)[c]]
  BY Zenon DEF Imported
<1>. QED
  BY <1>3, <1>4

\* The cycles an import closes are those the check had no row to report at.
LEMMA ImportClosesNoOther ==
  ASSUME asset \in [Codes -> Asset], ArchivedIsEmpty,
         NEW file \in parseAssetCsv, ~importReferenceErrors(file, Active),
         NEW next, next = [c \in Codes |-> Imported(file, AsRead)[c].parent],
         NEW c \in Named(file), OnCycle(next, c), ~OnCycle(Parent, c)
  PROVE  \E n \in 1..Height : {Above(next, c)[n - 1], Above(next, c)[n]} \cap Named(file) = {}
<1>. DEFINE parent == parentByCode(file, Active)
            Seen == Active \cup Named(file)
<1>1. /\ Active \subseteq Codes /\ Named(file) \subseteq Codes
      /\ NoCircle(file)
      /\ ~PARENT_ASSET_NOT_FOUND(file, Active)
      /\ ~ASSET_HIERARCHY_CYCLE(file, parent)
  BY FileType, ValidatedHasNoCircle DEF Active, importReferenceErrors
<1>2. \A d \in Codes : d \notin DOMAIN file.parent => next[d] = asset[d].parent
  BY DEF Imported, ImportRow
<1>3. \A d \in DOMAIN file.parent : d \in Codes /\ next[d] = file.parent[d]
  <2>1. AsRead \in Read /\ DOMAIN AsRead = Active /\ \A d \in Active : AsRead[d] = d
    BY AsReadType DEF AsRead
  <2>. QED
    BY <1>1, <2>1, FileType, ImportFindsParents
<1>4. DOMAIN file.parent = Named(file)
  <2>1. SUFFICES ASSUME DOMAIN file.parent = {} PROVE FALSE
    BY FileType
  <2>2. next = Parent
    BY <1>2, <2>1 DEF Parent
  <2>. QED
    BY <2>2
<1>5. IsParentMap(next)
  <2>1. \A d \in Codes : next[d] \in Parents
    BY <1>2, <1>3, FileType DEF Asset, IsParentMap
  <2>. QED
    BY <2>1 DEF IsParentMap
<1>6. ASSUME NEW d \in Seen
      PROVE  ParentOf(next, d) = ParentOf(parent, d) /\ ParentOf(parent, d) \in Seen \cup {NoParent}
  <2>1. ParentOf(next, d) = next[d] /\ ParentOf(parent, d) = parent[d]
    BY <1>1 DEF ParentOf, parentByCode
  <2>2. CASE d \in Named(file)
    <3>1. next[d] = file.parent[d] /\ parent[d] = file.parent[d]
      BY <1>3, <1>4, <2>2 DEF parentByCode
    <3>2. file.parent[d] \in Seen \cup {NoParent}
      BY <1>1, <1>4, <2>2 DEF PARENT_ASSET_NOT_FOUND
    <3>. QED
      BY <2>1, <3>1, <3>2
  <2>3. CASE d \notin Named(file)
    <3>1. d \in Active /\ asset[d].parent \in Active \cup {NoParent}
      BY <2>3 DEF ArchivedIsEmpty
    <3>2. next[d] = asset[d].parent /\ parent[d] = asset[d].parent
      BY <1>1, <1>2, <1>4, <2>3, <3>1 DEF parentByCode
    <3>. QED
      BY <2>1, <3>1, <3>2
  <2>. QED
    BY <2>2, <2>3
<1>7. PICK C \in SUBSET Codes :
        /\ c \in C
        /\ Closed(next, C)
        /\ \A x \in C : \E n \in 1..Height :
              Above(next, c)[n - 1] = x /\ Above(next, c)[n] = ParentOf(next, x)
  BY <1>1, <1>5, CycleIsClosed
<1>8. Closed(parent, C \cap Seen)
  <2>1. SUFFICES ASSUME NEW x \in C \cap Seen PROVE ParentOf(parent, x) \in C \cap Seen
    BY DEF Closed
  <2>2. ParentOf(parent, x) \in C
    BY <1>6, <1>7 DEF Closed
  <2>. QED
    BY <1>6, <2>2, CodesAssumption
<1>9. \E i \in DOMAIN file.rows : file.rows[i] \in C \cap Seen
  BY <1>7, FileType
<1>10. PICK x \in C \cap Seen : x \notin Named(file) /\ ParentOf(parent, x) \notin Named(file)
  <2>1. file.rows \in Seq(Codes) /\ IsParentMap(parent)
    BY <1>1, FileType, ParentByCodeType
  <2>. HIDE DEF parent, Seen
  <2>. QED
    BY <1>1, <1>8, <1>9, <2>1, CycleIsReported
<1>11. PICK n \in 1..Height : Above(next, c)[n - 1] = x /\ Above(next, c)[n] = ParentOf(next, x)
  BY <1>7
<1>. QED
  BY <1>6, <1>10, <1>11

---------------------------------------------------------------------------
(* The requests.                                                           *)

\* What the check of a file established that an import at work still has, and
\* what it has while nothing was written since.
CheckedImport(j) ==
    /\ NoCircle(j.file)
    /\ ~PARENT_ASSET_NOT_FOUND(j.file, DOMAIN j.read)
    /\ ~j.stale => j.read = AsRead /\ ~importReferenceErrors(j.file, Active)

ImportsAreChecked ==
    \A h \in Handlers : job[h].kind = "IMPORT" => CheckedImport(job[h])

AssetIInv == AssetTypeOK /\ ImportsAreChecked

\* What an import at work has read is of its type.
LEMMA ImportJob ==
  ASSUME AssetTypeOK, NEW h \in Handlers, job[h].kind = "IMPORT"
  PROVE  /\ job[h].file \in parseAssetCsv
         /\ job[h].read \in Read
         /\ job[h].stale \in BOOLEAN
  BY DEF AssetTypeOK, Job, NoRequest

\* The import j, after something was written beside it.
WasImport(j, k) ==
    /\ j.kind = "IMPORT"
    /\ k.file = j.file /\ DOMAIN k.read = DOMAIN j.read
    /\ k.stale

\* What a write leaves of the jobs.
LEMMA OutdatedJobs ==
  ASSUME AssetTypeOK, NEW written
  PROVE  /\ Outdated(written) \in [Handlers -> Job]
         /\ \A h \in Handlers : Outdated(written)[h].kind = "IMPORT" =>
                WasImport(job[h], Outdated(written)[h])
         /\ \A h \in Handlers \ written :
                job[h].kind = "IMPORT" => Outdated(written)[h].kind = "IMPORT"
<1>1. ASSUME NEW h \in Handlers
      PROVE  /\ Outdated(written)[h] \in Job
             /\ Outdated(written)[h].kind = "IMPORT" => WasImport(job[h], Outdated(written)[h])
             /\ h \notin written /\ job[h].kind = "IMPORT" => Outdated(written)[h].kind = "IMPORT"
  <2>1. job[h] \in Job
    BY DEF AssetTypeOK
  <2>2. CASE h \in written
    BY <2>2 DEF Outdated, Job, NoRequest
  <2>3. CASE h \notin written /\ job[h].kind = "IMPORT"
    <3>1. job[h] \in [kind: {"IMPORT"}, file: parseAssetCsv, read: Read, stale: BOOLEAN]
      BY <2>1, <2>3 DEF Job, NoRequest
    <3>. DEFINE k == [job[h] EXCEPT !.stale = TRUE]
    <3>2. /\ k \in [kind: {"IMPORT"}, file: parseAssetCsv, read: Read, stale: BOOLEAN]
          /\ k.file = job[h].file /\ k.read = job[h].read /\ k.stale
      BY <3>1
    <3>3. Outdated(written)[h] = k
      BY <2>3 DEF Outdated
    <3>. HIDE DEF k
    <3>. QED
      BY <2>3, <3>2, <3>3 DEF Job, WasImport
  <2>4. CASE h \notin written /\ job[h].kind # "IMPORT"
    BY <2>1, <2>4 DEF Outdated
  <2>. QED
    BY <2>2, <2>3, <2>4
<1>2. Outdated(written) = [h \in Handlers |-> Outdated(written)[h]]
  BY Zenon DEF Outdated
<1>. QED
  BY <1>1, <1>2

\* What holds an asset goes on holding it under its new code.
LEMMA RecodingType ==
  ASSUME NEW c \in Codes, NEW d \in Codes
  PROVE  /\ \A x \in Codes : Recoding(c, d)[x] \in Codes
         /\ \A x \in Parents : Recoding(c, d)[x] \in Parents
         /\ Recoding(c, d)[Undefined] = Undefined
BY CodesAssumption, UndefinedAssumption DEF Recoding, Parents

LEMMA RecodedType ==
  ASSUME NEW rows \in [Codes -> Asset], NEW c \in Codes, NEW d \in Codes
  PROVE  Recoded(rows, Recoding(c, d)) \in [Codes -> Asset]
<1>. DEFINE to == Recoding(c, d)
<1>1. ASSUME NEW x \in Codes
      PROVE  [rows[to[x]] EXCEPT !.parent = to[rows[to[x]].parent]] \in Asset
  <2>1. to[x] \in Codes
    BY RecodingType
  <2>2. rows[to[x]] \in Asset /\ rows[to[x]].parent \in Parents
    BY <2>1 DEF Asset
  <2>3. to[rows[to[x]].parent] \in Parents
    BY <2>2, RecodingType
  <2>. HIDE DEF to
  <2>. QED
    BY <2>2, <2>3 DEF Asset
<1>. HIDE DEF to
<1>2. Recoded(rows, to) \in [Codes -> Asset]
  BY <1>1 DEF Recoded
<1>. QED
  BY <1>2 DEF to

LEMMA FollowingJob ==
  ASSUME NEW j \in Job, NEW c \in Codes, NEW d \in Codes
  PROVE  /\ Following(j, Recoding(c, d)) \in Job
         /\ Following(j, Recoding(c, d)).kind = j.kind
         /\ j.kind = "IMPORT" =>
                /\ Following(j, Recoding(c, d)).file = j.file
                /\ DOMAIN Following(j, Recoding(c, d)).read = DOMAIN j.read
                /\ Following(j, Recoding(c, d)).stale = j.stale
<1>. DEFINE to == Recoding(c, d)
            k == Following(j, to)
<1>1. /\ \A x \in Codes : to[x] \in Codes
      /\ \A x \in Parents : to[x] \in Parents
      /\ to[Undefined] = Undefined
  BY RecodingType
<1>. HIDE DEF to
<1>2. CASE j.kind = "IMPORT"
  <2>1. j \in [kind: {"IMPORT"}, file: parseAssetCsv, read: Read, stale: BOOLEAN]
    BY <1>2 DEF Job, NoRequest
  <2>. DEFINE read == [x \in DOMAIN j.read |-> to[j.read[x]]]
  <2>2. read \in Read /\ DOMAIN read = DOMAIN j.read
    <3>1. PICK active \in SUBSET Codes : j.read \in [active -> Codes]
      BY <2>1 DEF Read
    <3>2. read \in [active -> Codes]
      BY <1>1, <3>1
    <3>. QED
      BY <3>2 DEF Read
  <2>3. k = [j EXCEPT !.read = read]
    BY <1>2 DEF Following
  <2>. HIDE DEF read, k
  <2>4. k \in [kind: {"IMPORT"}, file: parseAssetCsv, read: Read, stale: BOOLEAN]
    BY <2>1, <2>2, <2>3
  <2>5. k.file = j.file /\ k.read = read /\ k.stale = j.stale /\ k.kind = j.kind
    BY <2>1, <2>3
  <2>6. k \in Job
    BY <2>4 DEF Job
  <2>. QED
    BY <2>2, <2>5, <2>6 DEF k, to
<1>3. CASE j.kind = "ARCHIVE"
  <2>1. j \in [kind: {"ARCHIVE"}, asset: Codes]
    BY <1>3 DEF Job, NoRequest
  <2>2. k = [j EXCEPT !.asset = to[j.asset]]
    BY <1>3 DEF Following
  <2>3. k \in [kind: {"ARCHIVE"}, asset: Codes] /\ k.kind = j.kind
    BY <1>1, <2>1, <2>2
  <2>. QED
    BY <1>3, <2>3 DEF Job, k, to
<1>4. CASE j.kind = "UPDATE"
  <2>1. j \in [kind: {"UPDATE"}, asset: Codes, parent: Parents \cup {Undefined},
                code: Codes \cup {Undefined}]
    BY <1>4 DEF Job, NoRequest
  <2>2. k = [j EXCEPT !.asset = to[j.asset], !.parent = to[j.parent]]
    BY <1>4 DEF Following
  <2>3. to[j.asset] \in Codes /\ to[j.parent] \in Parents \cup {Undefined}
    BY <1>1, <2>1
  <2>4. /\ k \in [kind: {"UPDATE"}, asset: Codes, parent: Parents \cup {Undefined},
                   code: Codes \cup {Undefined}]
        /\ k.kind = j.kind
    BY <2>1, <2>2, <2>3
  <2>. QED
    BY <1>4, <2>4 DEF Job, k, to
<1>5. CASE j.kind \notin {"IMPORT", "ARCHIVE", "UPDATE"}
  BY <1>5 DEF Following, to
<1>. QED
  BY <1>2, <1>3, <1>4, <1>5

\* What a file leaves are assets.
LEMMA ImportedType ==
  ASSUME asset \in [Codes -> Asset], NEW file \in parseAssetCsv, NEW read \in Read
  PROVE  Imported(file, read) \in [Codes -> Asset]
<1>1. ASSUME NEW c \in Codes PROVE ImportRow(file, read, c) \in Asset
  <2>1. asset[c].state \in {"NONE", "ACTIVE", "ARCHIVED"} /\ asset[c].parent \in Parents
    BY DEF Asset
  <2>2. c \in DOMAIN file.parent => file.parent[c] \in Parents
    BY FileType DEF IsParentMap
  <2>3. \A p \in DOMAIN read : read[p] \in Codes
    BY DEF Read
  <2>. QED
    BY <2>1, <2>2, <2>3 DEF ImportRow, Asset, Parents
<1>. QED
  BY <1>1 DEF Imported

\* No import is at work at first.
LEMMA AssetInitChecked == AssetInit => AssetIInv
<1>. SUFFICES ASSUME AssetInit PROVE AssetIInv
  OBVIOUS
<1>1. asset \in [Codes -> Asset]
  BY DEF AssetInit, Asset, Parents
<1>2. job \in [Handlers -> Job] /\ \A h \in Handlers : job[h].kind # "IMPORT"
  BY DEF AssetInit, Job, NoRequest
<1>. QED
  BY <1>1, <1>2, RequestsAssumption DEF AssetInit, AssetIInv, AssetTypeOK, ImportsAreChecked

\* A step that writes assets makes the imports at work stale.
LEMMA AssetWriteKeeps ==
  ASSUME AssetIInv, job' \in [Handlers -> Job],
         \A h \in Handlers : job'[h].kind = "IMPORT" => WasImport(job[h], job'[h]),
         asset' \in [Codes -> Asset], requests' \in 0..MaxRequests
  PROVE  AssetIInv'
<1>1. AssetTypeOK'
  BY DEF AssetIInv, AssetTypeOK
<1>2. ASSUME NEW h \in Handlers, job'[h].kind = "IMPORT" PROVE CheckedImport(job[h])'
  <2>1. WasImport(job[h], job'[h])
    BY <1>2
  <2>2. CheckedImport(job[h])
    BY <2>1 DEF AssetIInv, ImportsAreChecked, WasImport
  <2>3. NoCircle(job'[h].file) /\ ~PARENT_ASSET_NOT_FOUND(job'[h].file, DOMAIN job'[h].read)
    BY <2>1, <2>2 DEF CheckedImport, WasImport
  <2>. QED
    BY <2>1, <2>3 DEF CheckedImport, WasImport
<1>. QED
  BY <1>1, <1>2 DEF AssetIInv, ImportsAreChecked

LEMMA AssetWriteOutdates ==
  ASSUME AssetIInv, NEW written, job' = Outdated(written),
         asset' \in [Codes -> Asset], requests' \in 0..MaxRequests
  PROVE  AssetIInv'
BY OutdatedJobs, AssetWriteKeeps DEF AssetIInv

\* A step that writes none sets the job of one handler.
LEMMA AssetReadKeeps ==
  ASSUME AssetIInv, asset' = asset, requests' \in 0..MaxRequests,
         NEW h \in Handlers, NEW j \in Job, job' = [job EXCEPT ![h] = j],
         j.kind = "IMPORT" => CheckedImport(j)
  PROVE  AssetIInv'
<1>1. AssetTypeOK'
  BY DEF AssetIInv, AssetTypeOK
<1>2. Active' = Active
  BY DEF Active
<1>3. AsRead' = AsRead /\ \A f : parentByCode(f, Active)' = parentByCode(f, Active)
  BY <1>2 DEF parentByCode, AsRead
<1>4. ASSUME NEW g \in Handlers, job'[g].kind = "IMPORT" PROVE CheckedImport(job[g])'
  <2>1. CheckedImport(job'[g])
    BY <1>4 DEF AssetIInv, AssetTypeOK, ImportsAreChecked
  <2>. QED
    BY <1>2, <1>3, <2>1 DEF CheckedImport, importReferenceErrors
<1>. QED
  BY <1>1, <1>4 DEF AssetIInv, ImportsAreChecked

\* What the write of an edit leaves.
LEMMA UpdateWrites ==
  ASSUME AssetIInv, NEW h \in Handlers, updateAssetLifecycle(h)
  PROVE  /\ asset' \in [Codes -> Asset]
         /\ job' \in [Handlers -> Job]
         /\ \A g \in Handlers : job'[g].kind = "IMPORT" => WasImport(job[g], job'[g])
         /\ \A g \in Handlers : job[g].kind = "IMPORT" => job'[g].kind = "IMPORT"
<1>1. job[h] \in [kind: {"UPDATE"}, asset: Codes, parent: Parents \cup {Undefined},
                  code: Codes \cup {Undefined}]
  BY DEF updateAssetLifecycle, AssetIInv, AssetTypeOK, Job, NoRequest
<1>. DEFINE c == job[h].asset
            d == IF job[h].code = Undefined THEN c ELSE job[h].code
            moved == IF job[h].parent = Undefined THEN asset
                     ELSE [asset EXCEPT ![c].parent = job[h].parent]
<1>2. c \in Codes /\ d \in Codes
  BY <1>1
<1>3. moved \in [Codes -> Asset]
  <2>1. asset \in [Codes -> Asset] /\ asset[c] \in Asset
    BY <1>2 DEF AssetIInv, AssetTypeOK
  <2>2. ASSUME NEW p \in Parents PROVE [asset EXCEPT ![c].parent = p] \in [Codes -> Asset]
    BY <1>2, <2>1 DEF Asset
  <2>. QED
    BY <1>1, <2>1, <2>2
<1>4. /\ asset' = Recoded(moved, Recoding(c, d))
      /\ job' = [g \in Handlers |-> Following(Outdated({h})[g], Recoding(c, d))]
  BY DEF updateAssetLifecycle
<1>. HIDE DEF c, d, moved
<1>5. asset' \in [Codes -> Asset]
  BY <1>2, <1>3, <1>4, RecodedType
<1>6. /\ Outdated({h}) \in [Handlers -> Job]
      /\ \A g \in Handlers : Outdated({h})[g].kind = "IMPORT" => WasImport(job[g], Outdated({h})[g])
      /\ \A g \in Handlers : job[g].kind = "IMPORT" => Outdated({h})[g].kind = "IMPORT"
  BY <1>1, OutdatedJobs DEF AssetIInv
<1>7. ASSUME NEW g \in Handlers
      PROVE  /\ job'[g] \in Job
             /\ job'[g].kind = Outdated({h})[g].kind
             /\ job'[g].kind = "IMPORT" => WasImport(job[g], job'[g])
  <2>1. job'[g] = Following(Outdated({h})[g], Recoding(c, d)) /\ Outdated({h})[g] \in Job
    BY <1>4, <1>6
  <2>2. /\ job'[g] \in Job
        /\ job'[g].kind = Outdated({h})[g].kind
        /\ Outdated({h})[g].kind = "IMPORT" =>
              /\ job'[g].file = Outdated({h})[g].file
              /\ DOMAIN job'[g].read = DOMAIN Outdated({h})[g].read
              /\ job'[g].stale = Outdated({h})[g].stale
    BY <1>2, <2>1, FollowingJob
  <2>. QED
    BY <1>6, <2>2 DEF WasImport
<1>8. job' \in [Handlers -> Job]
  BY <1>4, <1>7
<1>. QED
  BY <1>5, <1>6, <1>7, <1>8

\* Every request keeps the types and what an import at work was checked for.
LEMMA AssetStepKeeps ==
  ASSUME AssetIInv, [AssetNext]_assetVars
  PROVE  AssetIInv'
<1>. USE RequestsAssumption DEF AssetIInv, AssetTypeOK
<1>1. ASSUME NEW c \in Codes, NEW parent \in Parents, createAsset(c, parent)
      PROVE  AssetIInv'
  <2>1. asset' \in [Codes -> Asset] /\ requests' \in 0..MaxRequests /\ job' = Outdated({})
    BY <1>1 DEF createAsset, Asset
  <2>. QED
    BY <2>1, AssetWriteOutdates
<1>2. ASSUME NEW h \in Handlers, NEW c \in Codes, NEW parent \in Parents \cup {Undefined},
             NEW code \in Codes \cup {Undefined}, assertAssetHierarchyIntegrity(h, c, parent, code)
      PROVE  AssetIInv'
  <2>. DEFINE j == [kind |-> "UPDATE", asset |-> c, parent |-> parent, code |-> code]
  <2>1. j \in Job /\ j.kind # "IMPORT"
    BY DEF Job
  <2>2. asset' = asset /\ requests' \in 0..MaxRequests /\ job' = [job EXCEPT ![h] = j]
    BY <1>2 DEF assertAssetHierarchyIntegrity, Start
  <2>. HIDE DEF j
  <2>. QED
    BY <2>1, <2>2, AssetReadKeeps
<1>3. ASSUME NEW h \in Handlers, updateAssetLifecycle(h)
      PROVE  AssetIInv'
  <2>1. requests' \in 0..MaxRequests
    BY <1>3 DEF updateAssetLifecycle
  <2>. QED
    BY <1>3, <2>1, UpdateWrites, AssetWriteKeeps
<1>4. ASSUME NEW h \in Handlers, NEW c \in Codes, CountActiveChildren(h, c)
      PROVE  AssetIInv'
  <2>. DEFINE j == [kind |-> "ARCHIVE", asset |-> c]
  <2>1. j \in Job /\ j.kind # "IMPORT"
    BY DEF Job
  <2>2. asset' = asset /\ requests' \in 0..MaxRequests /\ job' = [job EXCEPT ![h] = j]
    BY <1>4 DEF CountActiveChildren, Start
  <2>. HIDE DEF j
  <2>. QED
    BY <2>1, <2>2, AssetReadKeeps
<1>5. ASSUME NEW h \in Handlers, CommitArchive(h)
      PROVE  AssetIInv'
  <2>1. asset' \in [Codes -> Asset] /\ requests' \in 0..MaxRequests /\ job' = Outdated({h})
    BY <1>5 DEF CommitArchive, Asset
  <2>. QED
    BY <2>1, AssetWriteOutdates
<1>6. ASSUME NEW h \in Handlers, NEW file \in parseAssetCsv, ValidateImport(h, file)
      PROVE  AssetIInv'
  <2>. DEFINE j == [kind |-> "IMPORT", file |-> file, read |-> AsRead, stale |-> FALSE]
  <2>1. Active \in SUBSET Codes /\ AsRead \in Read /\ DOMAIN AsRead = Active
    BY AsReadType
  <2>2. j \in Job
    BY <2>1 DEF Job
  <2>3. NoCircle(file)
    BY <1>6, <2>1, ValidatedHasNoCircle DEF ValidateImport
  <2>4. CheckedImport(j)
    BY <1>6, <2>1, <2>3 DEF ValidateImport, CheckedImport, importReferenceErrors
  <2>5. asset' = asset /\ requests' \in 0..MaxRequests /\ job' = [job EXCEPT ![h] = j]
    BY <1>6 DEF ValidateImport, Start, AsRead
  <2>. HIDE DEF j
  <2>. QED
    BY <2>2, <2>4, <2>5, AssetReadKeeps
<1>7. ASSUME NEW h \in Handlers, applyImport(h)
      PROVE  AssetIInv'
  <2>1. asset' \in [Codes -> Asset]
    BY <1>7, ImportJob, ImportedType DEF applyImport
  <2>. QED
    BY <1>7, <2>1, AssetWriteOutdates DEF applyImport
<1>8. ASSUME NEW h \in Handlers, Leave(h)
      PROVE  AssetIInv'
  <2>1. NoRequest \in Job /\ NoRequest.kind # "IMPORT"
    BY DEF Job, NoRequest
  <2>. QED
    BY <1>8, <2>1, AssetReadKeeps DEF Leave
<1>9. ASSUME UNCHANGED assetVars PROVE AssetIInv'
  <2>1. Active' = Active
    BY <1>9 DEF assetVars, Active
  <2>2. AsRead' = AsRead /\ \A f : parentByCode(f, Active)' = parentByCode(f, Active)
    BY <1>9, <2>1 DEF assetVars, parentByCode, AsRead
  <2>3. ASSUME NEW h \in Handlers, job'[h].kind = "IMPORT" PROVE CheckedImport(job[h])'
    <3>1. CheckedImport(job[h]) /\ job' = job
      BY <1>9, <2>3 DEF assetVars, ImportsAreChecked
    <3>. QED
      BY <2>1, <2>2, <3>1 DEF CheckedImport, importReferenceErrors
  <2>. QED
    BY <1>9, <2>3 DEF assetVars, ImportsAreChecked
<1>. QED
  BY <1>1, <1>2, <1>3, <1>4, <1>5, <1>6, <1>7, <1>8, <1>9
  DEF AssetNext, EditStep, ImportStep, Handlers

\* The inductive invariant holds throughout.
LEMMA AssetIInvInductive == AssetSpec => []AssetIInv
BY AssetInitChecked, AssetStepKeeps, PTL DEF AssetSpec

\* Assets, jobs and requests are well typed in every reachable state, for any
\* finite set of codes and any number of imports and edits at work.
THEOREM AssetTypeCorrect == AssetSpec => []AssetTypeOK
<1>1. AssetIInv => AssetTypeOK
  BY DEF AssetIInv
<1>. QED
  BY <1>1, AssetIInvInductive, PTL

\* Whatever was created, moved, archived or imported, a site can import its own
\* export, in any order of its rows, exactly if its active assets hang together
\* as trees, and the import changes nothing (importReferenceErrors, applyImport
\* and the GET of app/api/integrations/csv/assets).
THEOREM ExportsComeBack == AssetSpec => []ExportComesBack
<1>1. ASSUME AssetTypeOK PROVE ExportComesBack
  <2>1. SUFFICES ASSUME NEW rows \in SetToSeqs(Active)
                 PROVE  /\ ~importReferenceErrors(Export(rows), Active) <=>
                              ArchivedIsEmpty /\ \A c \in Active : ~OnCycle(Parent, c)
                        /\ ~importReferenceErrors(Export(rows), Active) =>
                              Imported(Export(rows), AsRead) = asset
    BY DEF ExportComesBack, AsRead
  <2>. QED
    BY <1>1, ExportIsAccepted, ExportIsWhatThereIs DEF AssetTypeOK
<1>. QED
  BY <1>1, AssetTypeCorrect, PTL

\* A step that ends an import and changes an asset is the import.
LEMMA ImportsApply ==
  ASSUME AssetIInv, AssetNext, NEW h \in Handlers, Imports(h)
  PROVE  applyImport(h)
<1>. USE DEF Imports
<1>1. ASSUME NEW written, job' = Outdated(written), h \notin written PROVE FALSE
  BY <1>1, OutdatedJobs DEF AssetIInv, NoRequest
<1>2. ASSUME NEW c \in Codes, NEW parent \in Parents, createAsset(c, parent) PROVE FALSE
  <2>1. job' = Outdated({})
    BY <1>2 DEF createAsset
  <2>. QED
    BY <1>1, <2>1
<1>3. ASSUME NEW g \in Handlers, updateAssetLifecycle(g) \/ CommitArchive(g) PROVE FALSE
  <2>1. CASE updateAssetLifecycle(g)
    BY <2>1, UpdateWrites DEF NoRequest
  <2>2. CASE CommitArchive(g)
    <3>1. job' = Outdated({g}) /\ g # h
      BY <2>2 DEF CommitArchive
    <3>. QED
      BY <1>1, <3>1
  <2>. QED
    BY <1>3, <2>1, <2>2
<1>4. ASSUME NEW g \in Handlers, applyImport(g), g # h PROVE FALSE
  <2>1. job' = Outdated({g})
    BY <1>4 DEF applyImport
  <2>. QED
    BY <1>1, <1>4, <2>1
<1>5. asset' # asset
  OBVIOUS
<1>. QED
  BY <1>2, <1>3, <1>4, <1>5
  DEF AssetNext, EditStep, ImportStep, Handlers, Leave, ValidateImport, CountActiveChildren,
      assertAssetHierarchyIntegrity, Start

\* The import of a checked file leaves its rows where they say, and closes no
\* cycle but around two assets that are no rows.
LEMMA ImportKeepsTrees ==
  ASSUME AssetIInv, AssetNext, NEW h \in Handlers
  PROVE  RowsFindTheirParents(h) /\ CyclesAreFound(h)
<1>. DEFINE file == job[h].file
            read == job[h].read
<1>1. SUFFICES ASSUME Imports(h) PROVE RowsFindTheirParents(h) /\ CyclesAreFound(h)
  BY DEF RowsFindTheirParents, CyclesAreFound
<1>2. asset' = Imported(file, read) /\ job[h].kind = "IMPORT"
  BY <1>1, ImportsApply DEF applyImport
<1>3. CheckedImport(job[h]) /\ asset \in [Codes -> Asset] /\ file \in parseAssetCsv /\ read \in Read
  BY <1>2, ImportJob DEF AssetIInv, AssetTypeOK, ImportsAreChecked
<1>4. RowsFindTheirParents(h)
  <2>1. \A c \in DOMAIN file.parent : Imported(file, read)[c].parent = Meant(job[h], file.parent[c])
    BY <1>3, ImportFindsParents DEF CheckedImport, Meant
  <2>. QED
    BY <1>2, <2>1 DEF RowsFindTheirParents
<1>5. CyclesAreFound(h)
  <2>1. SUFFICES ASSUME ~job[h].stale, ArchivedIsEmpty, NEW c \in Named(file),
                        OnCycle(Parent', c), ~OnCycle(Parent, c)
                 PROVE  \E n \in 1..Height :
                           {Above(Parent', c)[n - 1], Above(Parent', c)[n]} \cap Named(file) = {}
    BY DEF CyclesAreFound, Height
  <2>2. read = AsRead /\ ~importReferenceErrors(file, Active)
    BY <1>3, <2>1 DEF CheckedImport
  <2>3. Parent' = [d \in Codes |-> Imported(file, AsRead)[d].parent]
    BY <1>2, <2>2 DEF Parent
  <2>. QED
    BY <1>3, <2>1, <2>2, <2>3, ImportClosesNoOther
<1>. QED
  BY <1>4, <1>5

\* Whatever is written beside an import, changes of codes included, every row ends
\* below the parent it names: its row, or what had the code when the file was
\* checked.  If nothing is written, and no archived asset has active ones below it,
\* the import closes a cycle only around two assets one below the other that the
\* file does not name (visit in importReferenceErrors, sortRowsParentFirst).
THEOREM TreesSurviveImports == AssetSpec => ImportsKeepTheirTrees
<1>1. ASSUME AssetIInv, [AssetNext]_assetVars
      PROVE  [\A h \in Handlers : RowsFindTheirParents(h) /\ CyclesAreFound(h)]_assetVars
  BY <1>1, ImportKeepsTrees
<1>. QED
  BY <1>1, AssetIInvInductive, PTL DEF AssetSpec, ImportsKeepTheirTrees
============================================================================
