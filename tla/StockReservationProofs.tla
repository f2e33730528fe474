----------------------- MODULE StockReservationProofs -----------------------
(***************************************************************************)
(* Proofs about StockReservation, for any number of variants, orders,      *)
(* lines and concurrent requests.                                          *)
(***************************************************************************)
EXTENDS StockReservation, TallyLemmas

-----------------------------------------------------------------------------
(* Types.                                                                  *)

(* The roll-up of child statuses is a status.                              *)
LEMMA RollupType ==
  ASSUME NEW children \in SUBSET RollupStatus
  PROVE  Rollup(children) \in RollupStatus
<1> DEFINE stages == {Stage[s] : s \in children \cap ProgressStatus}
<1>1. ASSUME stages # {}, Cardinality(stages) = 1
      PROVE  \E s \in ProgressStatus : {Stage[s]} = stages
  <2>1. ProgressStatus = {"pending", "processing", "shipped", "delivered", "completed"}
    BY DEF ProgressStatus
  <2>2. IsFiniteSet(ProgressStatus)
    <3>1. IsFiniteSet({"pending"})
      BY FS_Singleton
    <3>2. IsFiniteSet({"pending", "processing"})
      <4>1. {"pending", "processing"} = {"pending"} \cup {"processing"}
        OBVIOUS
      <4>. QED  BY <3>1, <4>1, FS_AddElement
    <3>3. IsFiniteSet({"pending", "processing", "shipped"})
      <4>1. {"pending", "processing", "shipped"} = {"pending", "processing"} \cup {"shipped"}
        OBVIOUS
      <4>. QED  BY <3>2, <4>1, FS_AddElement
    <3>4. IsFiniteSet({"pending", "processing", "shipped", "delivered"})
      <4>1. {"pending", "processing", "shipped", "delivered"}
              = {"pending", "processing", "shipped"} \cup {"delivered"}
        OBVIOUS
      <4>. QED  BY <3>3, <4>1, FS_AddElement
    <3>5. ProgressStatus = {"pending", "processing", "shipped", "delivered"} \cup {"completed"}
      BY <2>1
    <3>. QED  BY <3>4, <3>5, FS_AddElement
  <2>3. IsFiniteSet(stages)
    <3> DEFINE kids == children \cap ProgressStatus
               f == [s \in kids |-> Stage[s]]
    <3>1. IsFiniteSet(kids)
      BY <2>2, FS_Subset
    <3>2. f \in Surjection(kids, stages)
      BY DEF Surjection
    <3>. QED  BY <3>1, <3>2, FS_Surjection
  <2>4. PICK x : stages = {x}
    BY <1>1, <2>3, FS_Singleton
  <2>5. x \in stages
    BY <2>4
  <2>. QED  BY <2>4, <2>5
<1>2. CASE stages = {}
  BY <1>2 DEF Rollup, RollupStatus, ItemStatus, DeadStatus, PartialStatus, ProgressStatus
<1>3. CASE stages # {} /\ Cardinality(stages) = 1
  <2>1. (CHOOSE s \in ProgressStatus : {Stage[s]} = stages) \in ProgressStatus
    BY <1>1, <1>3
  <2> HIDE DEF stages
  <2>2. Rollup(children) \in {"cancelled", "refunded", "partially_refunded",
                              "partially_cancelled", "pending", "partially_shipped",
                              CHOOSE s \in ProgressStatus : {Stage[s]} = stages}
    BY DEF Rollup, stages
  <2>. QED  BY <2>1, <2>2 DEF RollupStatus, ItemStatus, DeadStatus, PartialStatus, ProgressStatus
<1>4. CASE stages # {} /\ Cardinality(stages) # 1
  BY <1>4 DEF Rollup, RollupStatus, ItemStatus, DeadStatus, PartialStatus, ProgressStatus
<1>. QED  BY <1>2, <1>3, <1>4

(* What is left of a line is a natural number.                             *)
LEMMA LeftType ==
  ASSUME TypeOK, NEW l \in Line
  PROVE  Left(l) \in Nat
BY ShopAssumption DEF TypeOK, Left

(* The plans the handlers make are well formed.                            *)
LEMMA PlanTypes ==
  ASSUME TypeOK, NEW c \in Call
  PROVE  /\ StatusPlan(c) \in Plan /\ StatusMoves(c) \in [Line -> Nat]
         /\ FulfilPlan(c) \in Plan
         /\ CancelPlan(c) \in Plan /\ CancelMoves(c) \in [Line -> Nat]
         /\ PaidPlan(c) \in Plan /\ PaidMoves(c) \in [Line -> Nat]
<1> DEFINE o == c.order
<1>1. /\ o \in Order /\ c.to \in ProgressStatus
      /\ c.units \in [Line -> Nat] /\ c.lines \subseteq Line
  BY DEF Call
<1>2. /\ soStatus[o] \in RollupStatus /\ shipments[o] \in Nat /\ updatedAt[o] \in Nat
      /\ NoUnits \in [Line -> Nat]
  BY <1>1 DEF TypeOK, NoUnits
<1>3. Unshipped(o) \in [Line -> Nat]
  BY LeftType DEF Unshipped
<1>4. ASSUME NEW s \in RollupStatus, NEW items \in [Line -> ItemStatus \cup {AsIs}],
             NEW ship \in [Line -> Nat]
      PROVE  PlanFrom(o, s, items, ship) \in Plan
  BY <1>2, <1>4 DEF PlanFrom, Plan
<1>5. ProgressStatus \subseteq ItemStatus /\ ItemStatus \subseteq RollupStatus
  BY DEF ItemStatus, RollupStatus
<1>6. StatusPlan(c) \in Plan /\ StatusMoves(c) \in [Line -> Nat]
  <2>1. SetLive(o, c.to) \in [Line -> ItemStatus \cup {AsIs}]
    BY <1>1, <1>5 DEF SetLive
  <2>2. (IF c.to = "shipped" THEN Unshipped(o) ELSE NoUnits) \in [Line -> Nat]
    BY <1>2, <1>3
  <2>3. StatusPlan(c) \in Plan
    BY <1>1, <1>4, <1>5, <2>1, <2>2 DEF StatusPlan
  <2>. QED  BY <1>2, <1>3, <2>3 DEF StatusMoves
<1>7. FulfilPlan(c) \in Plan
  <2> DEFINE s == IF ShipsEverything(c) THEN "shipped"
                  ELSE IF soStatus[o] = "pending" THEN "processing" ELSE soStatus[o]
             items == [l \in Line |->
                         IF OrderOf[l] # o \/ ~Live(l) THEN AsIs
                         ELSE IF ShipsEverything(c) \/ c.units[l] >= Left(l) THEN "shipped"
                         ELSE IF itemStatus[l] = "pending" THEN "processing" ELSE AsIs]
  <2>1. s \in RollupStatus
    BY <1>2 DEF RollupStatus, ItemStatus, ProgressStatus
  <2>2. items \in [Line -> ItemStatus \cup {AsIs}]
    BY DEF ItemStatus, ProgressStatus
  <2> HIDE DEF s, items
  <2>3. PlanFrom(o, s, items, c.units) \in Plan
    BY <1>1, <1>4, <2>1, <2>2
  <2>. QED  BY <2>3 DEF FulfilPlan, s, items
<1>8. CancelPlan(c) \in Plan /\ CancelMoves(c) \in [Line -> Nat]
  <2> DEFINE kids == {IF l \in c.lines THEN "cancelled" ELSE itemStatus[l] : l \in LinesOf(o)}
             items == [l \in Line |-> IF l \in c.lines THEN "cancelled" ELSE AsIs]
  <2>1. kids \subseteq RollupStatus
    BY DEF TypeOK, LinesOf, RollupStatus, ItemStatus, DeadStatus
  <2>2. Rollup(kids) \in RollupStatus
    BY <2>1, RollupType
  <2>3. items \in [Line -> ItemStatus \cup {AsIs}]
    BY DEF ItemStatus, DeadStatus
  <2>4. CancelMoves(c) \in [Line -> Nat]
    BY ShopAssumption DEF CancelMoves
  <2> HIDE DEF kids, items
  <2>5. PlanFrom(o, Rollup(kids), items, NoUnits) \in Plan
    BY <1>2, <1>4, <2>2, <2>3
  <2>. QED  BY <2>4, <2>5 DEF CancelPlan, kids, items
<1>9. PaidPlan(c) \in Plan /\ PaidMoves(c) \in [Line -> Nat]
  <2>1. "completed" \in RollupStatus \cap ItemStatus
    BY DEF RollupStatus, ItemStatus, ProgressStatus
  <2>2. [l \in Line |-> IF OrderOf[l] = o THEN "completed" ELSE AsIs]
          \in [Line -> ItemStatus \cup {AsIs}]
    BY <2>1
  <2>. QED  BY <1>2, <1>4, <2>1, <2>2, ShopAssumption DEF PaidPlan, PaidMoves
<1>. QED  BY <1>6, <1>7, <1>8, <1>9


(* A call a request makes is a well-formed call.                           *)
LEMMA InitialCalls ==
  ASSUME Init, NEW r \in Request
  PROVE  call[r] \in Call
<1>1. call[r] \in MayCall[r]
  BY DEF Init
<1>. QED  BY <1>1, ShopAssumption

(* Reading an order keeps every variable's type.                           *)
LEMMA ReadTypes ==
  ASSUME TypeOK, NEW r \in Request, NEW s \in Step,
         NEW p \in Plan, NEW m \in [Line -> Nat], ReadOrder(r, s, p, m)
  PROVE  TypeOK'
BY DEF TypeOK, ReadOrder, variantVars, checkoutVars, orderVars

(* Writing a plan keeps the types of the order documents.                  *)
LEMMA WriteTypes ==
  ASSUME TypeOK, NEW r \in Request, WritePlan(r)
  PROVE  /\ soStatus' \in [Order -> RollupStatus]
         /\ itemStatus' \in [Line -> ItemStatus]
         /\ shippedUnits' \in [Line -> Nat]
         /\ shipments' \in [Order -> Nat] /\ updatedAt' \in [Order -> Nat]
<1>1. plan[r] \in Plan
  BY DEF TypeOK
<1>2. /\ plan[r].newStatus \in RollupStatus
      /\ plan[r].items \in [Line -> ItemStatus \cup {AsIs}]
      /\ plan[r].ship \in [Line -> Nat]
  BY <1>1 DEF Plan
<1>3. \A l \in Line : plan[r].items[l] \in ItemStatus \/ plan[r].items[l] = AsIs
  BY <1>2
<1>4. itemStatus' \in [Line -> ItemStatus]
  BY <1>3 DEF WritePlan, TypeOK
<1>5. shippedUnits' \in [Line -> Nat]
  BY <1>2 DEF WritePlan, TypeOK
<1>6. soStatus' \in [Order -> RollupStatus]
  BY <1>2 DEF WritePlan, TypeOK
<1>. QED  BY <1>4, <1>5, <1>6 DEF WritePlan, TypeOK

(* The types hold at first.                                                *)
LEMMA InitTypes == Init => TypeOK
<1>. SUFFICES ASSUME Init PROVE TypeOK
  OBVIOUS
<1>1. call \in [Request -> Call]
  <2>1. \E S : call \in [Request -> S]
    BY DEF Init
  <2>. QED  BY <2>1, InitialCalls
<1>2. NoUnits \in [Line -> Nat]
  BY DEF NoUnits
<1>3. "pending" \in ItemStatus /\ "pending" \in RollupStatus
  BY DEF ItemStatus, RollupStatus, ProgressStatus
<1>4. NoPlan \in Plan
  BY <1>2, <1>3 DEF NoPlan, Plan
<1>5. stock \in [Variant -> Int] /\ committed \in [Variant -> Int]
  BY ShopAssumption DEF Init
<1>. QED  BY <1>1, <1>2, <1>3, <1>4, <1>5 DEF Init, TypeOK, Placement, Step

(* A checkout step keeps every variable's type.                            *)
LEMMA CheckoutTypes ==
  ASSUME TypeOK, CheckoutStep
  PROVE  TypeOK'
<1>1. ASSUME NEW o \in Order, \/ StartCheckout(o) \/ RefuseCheckout(o)
                              \/ FinishUndo(o) \/ InsertOrder(o)
      PROVE  TypeOK'
  <2>1. placement' \in [Order -> Placement]
    BY <1>1 DEF TypeOK, StartCheckout, RefuseCheckout, FinishUndo, InsertOrder, Placement
  <2>. QED  BY <1>1, <2>1 DEF TypeOK, StartCheckout, RefuseCheckout, FinishUndo, InsertOrder,
                   variantVars, orderVars, requestVars
<1>2. ASSUME NEW l \in Line, ReserveLine(l) \/ UndoLine(l)
      PROVE  TypeOK'
  <2>1. VariantOf[l] \in Variant /\ OrderOf[l] \in Order /\ Qty[l] \in Nat
    BY ShopAssumption
  <2>2. committed' \in [Variant -> Int] /\ reserved' \in [Order -> SUBSET Line]
    BY <1>2, <2>1 DEF TypeOK, ReserveLine, UndoLine
  <2>. QED  BY <1>2, <2>2 DEF TypeOK, ReserveLine, UndoLine, orderVars, requestVars
<1>. QED  BY <1>1, <1>2 DEF CheckoutStep

(* Returning from a handler keeps the types of the requests.               *)
LEMMA ReturnTypes ==
  ASSUME TypeOK, NEW r \in Request, Return(r)
  PROVE  /\ pc' \in [Request -> Step] /\ plan' \in [Request -> Plan]
         /\ todo' \in [Request -> [Line -> Nat]]
<1>1. NoUnits \in [Line -> Nat]
  BY DEF NoUnits
<1>2. NoPlan \in Plan
  BY <1>1 DEF NoPlan, Plan, ItemStatus, RollupStatus, ProgressStatus
<1>. QED  BY <1>1, <1>2 DEF Return, TypeOK, Step

(* A request step keeps every variable's type.                             *)
LEMMA RequestTypes ==
  ASSUME TypeOK, NEW r \in Request, RequestStep(r)
  PROVE  TypeOK'
<1> DEFINE c == call[r]
<1>1. c \in Call
  BY DEF TypeOK
<1>2. /\ c.order \in Order /\ c.units \in [Line -> Nat]
      /\ {"claiming", "noting", "moving", "done"} \subseteq Step
  BY <1>1 DEF Call, Step
<1>3. CASE BeginStatus(r)
  <2>1. ReadOrder(r, "claiming", StatusPlan(c), StatusMoves(c))
    BY <1>3 DEF BeginStatus
  <2>. QED  BY <1>1, <1>2, <2>1, PlanTypes, ReadTypes
<1>4. CASE BeginFulfil(r)
  <2>1. ReadOrder(r, "claiming", FulfilPlan(c), c.units)
    BY <1>4 DEF BeginFulfil
  <2>. QED  BY <1>1, <1>2, <2>1, PlanTypes, ReadTypes
<1>5. CASE BeginCancel(r)
  <2>1. ReadOrder(r, "claiming", CancelPlan(c), CancelMoves(c))
    BY <1>5 DEF BeginCancel
  <2>. QED  BY <1>1, <1>2, <2>1, PlanTypes, ReadTypes
<1>6. CASE BeginMarkPaid(r)
  <2>1. ReadOrder(r, "noting", PaidPlan(c), PaidMoves(c))
    BY <1>6 DEF BeginMarkPaid
  <2>. QED  BY <1>1, <1>2, <2>1, PlanTypes, ReadTypes
<1>7. CASE Claim(r)
  <2>1. pc' \in [Request -> Step]
    BY <1>2, <1>7 DEF Claim, TypeOK
  <2>. QED  BY <1>7, <2>1, WriteTypes DEF Claim, TypeOK, variantVars, checkoutVars
<1>8. CASE LoseClaim(r)
  BY <1>8, ReturnTypes DEF LoseClaim, TypeOK, variantVars, checkoutVars, orderVars
<1>9. ASSUME NEW l \in Line, MoveLine(r, l)
      PROVE  TypeOK'
  <2>1. VariantOf[l] \in Variant /\ todo[r][l] \in Nat
    BY ShopAssumption DEF TypeOK
  <2>2. \A n \in Int : Less(n, todo[r][l]) \in Int
    BY <2>1 DEF Less
  <2>3. stock' \in [Variant -> Int] /\ committed' \in [Variant -> Int]
    BY <1>9, <2>1, <2>2 DEF MoveLine, TypeOK
  <2>4. todo' \in [Request -> [Line -> Nat]]
    BY <1>9 DEF MoveLine, TypeOK
  <2>. QED  BY <1>9, <2>3, <2>4 DEF MoveLine, TypeOK, checkoutVars, orderVars
<1>10. CASE WriteTimeline(r)
  <2>1. updatedAt' \in [Order -> Nat]
    BY <1>2, <1>10 DEF WriteTimeline, TypeOK
  <2>. QED  BY <1>10, <2>1, ReturnTypes DEF WriteTimeline, TypeOK, variantVars, checkoutVars
<1>11. CASE NotePayment(r)
  <2>1. updatedAt' \in [Order -> Nat] /\ pc' \in [Request -> Step]
    BY <1>2, <1>11 DEF NotePayment, TypeOK
  <2>. QED  BY <1>11, <2>1 DEF NotePayment, TypeOK, variantVars, checkoutVars
<1>12. CASE CompletePaid(r)
  <2>1. isPaid' \in [Order -> BOOLEAN]
    BY <1>2, <1>12 DEF CompletePaid, TypeOK
  <2>. QED  BY <1>12, <2>1, WriteTypes, ReturnTypes
            DEF CompletePaid, TypeOK, variantVars, checkoutVars
<1>. QED  BY <1>3, <1>4, <1>5, <1>6, <1>7, <1>8, <1>9, <1>10, <1>11, <1>12 DEF RequestStep

(* A stock correction keeps every variable's type.                         *)
LEMMA CorrectionTypes ==
  ASSUME TypeOK, NEW x \in Corrections, CorrectStock(x)
  PROVE  TypeOK'
<1>1. x[1] \in Variant /\ x[2] \in Int
  BY ShopAssumption
<1>2. stock' \in [Variant -> Int]
  BY <1>1 DEF CorrectStock, TypeOK
<1>. QED  BY <1>2 DEF CorrectStock, TypeOK, checkoutVars, orderVars, requestVars

(* Every step keeps every variable's type.                                 *)
LEMMA StepTypes ==
  ASSUME TypeOK, [Next]_vars
  PROVE  TypeOK'
<1>1. CASE Next
  BY <1>1, CheckoutTypes, RequestTypes, CorrectionTypes DEF Next
<1>2. CASE UNCHANGED vars
  BY <1>2 DEF TypeOK, vars, variantVars, checkoutVars, orderVars, requestVars
<1>. QED  BY <1>1, <1>2

(* In every behaviour of the shop every variable keeps its type: a status  *)
(* is always one of the schema's words and no order counter goes negative, *)
(* whatever calls arrive.                                                  *)
THEOREM TypeCorrect == Spec => []TypeOK
<1>1. TypeOK /\ [Next]_vars => TypeOK'
  BY StepTypes
<1>. QED  BY InitTypes, <1>1, PTL DEF Spec

-----------------------------------------------------------------------------
(* Exact reservations.                                                     *)

(* The statuses a sub-order takes, and their places: none ever goes back.  *)
LiveStatus == ProgressStatus \cup {"partially_cancelled"}
SubStatus == LiveStatus \cup {"cancelled"}
Age(s) == IF s = "pending" THEN 0 ELSE IF s = "processing" THEN 1
          ELSE IF s = "partially_cancelled" THEN 2 ELSE IF s = "shipped" THEN 3
          ELSE IF s = "delivered" THEN 4 ELSE IF s = "completed" THEN 5 ELSE 6

CallsAsGiven == (\A r \in Request : call[r] \in MayCall[r]) /\ GoTogether(call)

(* Nothing happens to an order before it is placed.                        *)
Untouched ==
  \A o \in Order : placement[o] # "placed" =>
    /\ soStatus[o] = "pending"
    /\ \A l \in LinesOf(o) : itemStatus[l] = "pending" /\ shippedUnits[l] = 0
    /\ \A r \in Request : call[r].order = o => pc[r] = "idle"

(* Requests only touch lines of their own order.                           *)
OwnLines ==
  \A r \in Request : \A l \in Line : OrderOf[l] # call[r].order =>
    todo[r][l] = 0 /\ plan[r].items[l] = AsIs /\ plan[r].ship[l] = 0

(* Some request has cancelled its part of an order.                        *)
PartGone(o, r) ==
  /\ call[r].kind = "cancel" /\ call[r].order = o /\ call[r].lines # LinesOf(o)
  /\ pc[r] \in {"moving", "done"}
  /\ \A l \in call[r].lines : itemStatus[l] = "cancelled"

(* How the statuses of an order and of its lines go together.              *)
OrderShape(o) ==
  /\ soStatus[o] \in SubStatus
  /\ soStatus[o] = "partially_cancelled" => \E r \in Request : PartGone(o, r)

LineShape(l) ==
  LET s == soStatus[OrderOf[l]] IN
  /\ itemStatus[l] \in ProgressStatus \cup {"cancelled"}
  /\ shippedUnits[l] <= Qty[l]
  /\ s \in FulfilledStatus => itemStatus[l] \in FulfilledStatus \cup {"cancelled"}
  /\ s = "cancelled" => itemStatus[l] = "cancelled"
  /\ itemStatus[l] = "cancelled" =>
       s \notin {"pending", "processing"} /\ shippedUnits[l] = 0
  /\ Cancels(call, l) /\ shippedUnits[l] > 0 =>
       /\ shippedUnits[l] = Qty[l]
       /\ itemStatus[l] \in FulfilledStatus
       /\ (\E r \in Request : SendsBack(call[r]) /\ call[r].order = OrderOf[l])
            => s \in FulfilledStatus

Shapes ==
  /\ \A o \in Order : OrderShape(o)
  /\ \A l \in Line : LineShape(l)

(* A plan that can still be claimed is what the handler would compute from *)
(* the order as it is now.                                                 *)
CurrentStatus(r) ==
  LET c == call[r]
      s == soStatus[c.order]
  IN  /\ AllowedTransition(s, c.to)
      /\ plan[r].newStatus = c.to
      /\ \A l \in LinesOf(c.order) :
           /\ plan[r].items[l] = IF Live(l) THEN c.to ELSE AsIs
           /\ plan[r].ship[l] = IF c.to = "shipped" /\ Live(l) THEN Left(l) ELSE 0
           /\ todo[r][l] = IF c.to \in FulfilledStatus /\ s \notin FulfilledStatus /\ Live(l)
                           THEN Left(l) ELSE 0

CurrentFulfil(r) ==
  LET c == call[r]
      s == soStatus[c.order]
  IN  /\ s \in {"pending", "processing", "partially_cancelled"}
      /\ plan[r].newStatus \in {"shipped", IF s = "pending" THEN "processing" ELSE s}
      /\ plan[r].ship # NoUnits
      /\ \A l \in LinesOf(c.order) :
           /\ todo[r][l] = c.units[l] /\ plan[r].ship[l] = c.units[l]
           /\ c.units[l] > 0 => Live(l) /\ c.units[l] <= Left(l)
           /\ ~Live(l) => plan[r].items[l] = AsIs
           /\ Live(l) /\ plan[r].newStatus = "shipped" => c.units[l] >= Left(l)
           /\ Live(l) => IF c.units[l] >= Left(l) THEN plan[r].items[l] = "shipped"
                         ELSE plan[r].items[l] \in {"processing", AsIs}

CurrentCancel(r) ==
  LET c == call[r] IN
  /\ soStatus[c.order] \notin FulfilledStatus \cup {"cancelled"}
  /\ plan[r].newStatus =
       IF \A l \in LinesOf(c.order) : l \in c.lines \/ itemStatus[l] = "cancelled"
       THEN "cancelled" ELSE "partially_cancelled"
  /\ \A l \in LinesOf(c.order) :
       /\ plan[r].ship[l] = 0
       /\ l \in c.lines => /\ itemStatus[l] \notin FulfilledStatus \cup {"cancelled"}
                           /\ plan[r].items[l] = "cancelled" /\ todo[r][l] = Qty[l]
       /\ l \notin c.lines => plan[r].items[l] = AsIs /\ todo[r][l] = 0

Current(r) ==
  /\ call[r].kind = "status" => CurrentStatus(r)
  /\ call[r].kind = "fulfil" => CurrentFulfil(r)
  /\ call[r].kind = "cancel" => CurrentCancel(r)

Claimable(r) ==
  LET o == call[r].order IN
  /\ plan[r].updatedAt <= updatedAt[o]
  /\ plan[r].shipments <= shipments[o]
  /\ plan[r].status \in SubStatus
  /\ Age(plan[r].status) <= Age(soStatus[o])
  /\ StillAsRead(r) => Current(r)

Plans ==
  \A r \in Request : pc[r] = "claiming" => call[r].kind # "mark_paid" /\ Claimable(r)

(* A payment recorded by hand finds its order as it was placed and leaves  *)
(* it so until its last step: no other call is on that order.              *)
ByHand(r) ==
  LET o == call[r].order IN
  /\ pc[r] # "done" => /\ soStatus[o] = "pending"
                       /\ \A l \in LinesOf(o) : itemStatus[l] = "pending" /\ shippedUnits[l] = 0
  /\ pc[r] \in {"noting", "moving"} =>
       /\ plan[r].status = "pending" /\ plan[r].newStatus = "completed"
       /\ \A l \in LinesOf(o) : /\ plan[r].items[l] = "completed" /\ plan[r].ship[l] = 0
                                /\ todo[r][l] \in {0, Qty[l]}
  /\ pc[r] = "noting" => \A l \in LinesOf(o) : todo[r][l] = Qty[l]

Payments ==
  \A r \in Request : IF call[r].kind = "mark_paid" THEN ByHand(r) ELSE pc[r] # "noting"

Inv ==
  /\ TypeOK /\ CallsAsGiven
  /\ Untouched /\ OwnLines /\ Shapes /\ Plans /\ Payments
  /\ ReservationExact

(* The constants of a line.                                                *)
LEMMA LineFacts ==
  ASSUME NEW l \in Line
  PROVE  /\ OrderOf[l] \in Order /\ VariantOf[l] \in Variant
         /\ Qty[l] \in Nat /\ Qty[l] > 0
BY ShopAssumption

(* What is known of the call a request makes.                              *)
LEMMA CallFacts ==
  ASSUME CallsAsGiven, NEW r \in Request
  PROVE  LET c == call[r] IN
         /\ c \in Call /\ c.order \in Order /\ c.kind \in Kinds
         /\ c.kind = "status" => c.to \in ProgressStatus \ {"pending"}
         /\ c.kind = "fulfil" => /\ c.units \in [Line -> Nat]
                                 /\ \E l \in Line : c.units[l] > 0
                                 /\ \A l \in Line : OrderOf[l] # c.order => c.units[l] = 0
         /\ c.kind = "cancel" => c.lines \subseteq LinesOf(c.order) /\ c.lines # {}
<1>1. call[r] \in MayCall[r]
  BY DEF CallsAsGiven
<1>2. call[r] \in Call
  BY <1>1, ShopAssumption
<1>3. /\ call[r].units \in [Line -> Nat] /\ call[r].to \in ProgressStatus
      /\ call[r].order \in Order /\ call[r].kind \in Kinds
  BY <1>2 DEF Call
<1>4. call[r].kind = "status" => call[r].to # "pending"
  BY <1>1, ShopAssumption
<1>5. call[r].kind = "fulfil" =>
        /\ \E l \in Line : call[r].units[l] > 0
        /\ \A l \in Line : OrderOf[l] # call[r].order => call[r].units[l] = 0
  BY <1>1, <1>3, ShopAssumption
<1>6. call[r].kind = "cancel" => call[r].lines \subseteq LinesOf(call[r].order) /\ call[r].lines # {}
  BY <1>1, ShopAssumption
<1>. QED  BY <1>2, <1>3, <1>4, <1>5, <1>6

(* What going together says of two requests on one order.                  *)
LEMMA TogetherFacts ==
  ASSUME CallsAsGiven, NEW r \in Request, NEW q \in Request, call[r].order = call[q].order
  PROVE  LET c == call[r]
             d == call[q]
         IN  /\ r # q => c.kind # "mark_paid"
             /\ r # q /\ c.kind = "cancel" /\ d.kind = "cancel" =>
                  c.lines \cap d.lines # {} \/ c.lines \cup d.lines = LinesOf(c.order)
             /\ SendsBack(c) /\ d.kind = "cancel" => d.lines = LinesOf(c.order)
             /\ SendsBack(c) /\ d.kind = "fulfil" =>
                  \A l \in LinesOf(c.order) : ~Cancels(call, l)
<1>1. CASE r = q
  BY <1>1 DEF SendsBack
<1>2. CASE r # q
  BY <1>2 DEF CallsAsGiven, GoTogether
<1>. QED  BY <1>1, <1>2

(* A line that may be cancelled is shipped in one piece.                   *)
LEMMA OnePiece ==
  ASSUME CallsAsGiven, NEW r \in Request, call[r].kind = "fulfil", NEW l \in Line,
         Cancels(call, l)
  PROVE  call[r].units[l] \in {0, Qty[l]}
<1>1. PICK q \in Request : call[q].kind = "cancel" /\ l \in call[q].lines
  BY DEF Cancels
<1>2. OrderOf[l] = call[q].order
  BY <1>1, CallFacts DEF LinesOf
<1>3. CASE call[r].order = call[q].order
  BY <1>1, <1>3 DEF CallsAsGiven, GoTogether
<1>4. CASE call[r].order # call[q].order
  BY <1>2, <1>4, CallFacts
<1>. QED  BY <1>3, <1>4

(* Units claimed but not yet moved, per request.                           *)
Flying(l) == [r \in Request |-> IF pc[r] = "moving" /\ call[r].kind # "mark_paid"
                                THEN todo[r][l] ELSE 0]

LEMMA FlyingFacts ==
  TypeOK => \A l \in Line : /\ Flying(l) \in [Request -> Nat]
                           /\ InFlight(l) = Tally(Flying(l)) /\ InFlight(l) \in Nat
<1>. SUFFICES ASSUME TypeOK, NEW l \in Line
              PROVE  /\ Flying(l) \in [Request -> Nat]
                     /\ InFlight(l) = Tally(Flying(l)) /\ InFlight(l) \in Nat
  OBVIOUS
<1>1. Flying(l) \in [Request -> Nat]
  BY DEF Flying, TypeOK
<1>2. InFlight(l) = Tally(Flying(l))
  BY DEF InFlight, Flying
<1>. QED  BY <1>1, <1>2, TallyNat, ShopAssumption

LEMMA FlyingFactsNext ==
  (TypeOK => \A l \in Line : /\ Flying(l) \in [Request -> Nat]
                            /\ InFlight(l) = Tally(Flying(l)) /\ InFlight(l) \in Nat)'
BY FlyingFacts, PTL

(* What a line is booked for is a natural number, now and after a step.    *)
LEMMA BookedFacts == TypeOK => \A l \in Line : Open(l) \in Nat /\ Booked(l) \in Nat
<1>. SUFFICES ASSUME TypeOK, NEW l \in Line
              PROVE  Open(l) \in Nat /\ Booked(l) \in Nat
  OBVIOUS
<1>1. Open(l) \in Nat
  BY LeftType DEF Open
<1>. QED  BY <1>1, FlyingFacts, LineFacts DEF Booked

LEMMA BookedFactsNext == (TypeOK => \A l \in Line : Open(l) \in Nat /\ Booked(l) \in Nat)'
BY BookedFacts, PTL

(* A step that moves no booking and no counter keeps them equal.           *)
LEMMA SameBookings ==
  ASSUME ReservationExact, committed' = committed,
         \A l \in Line : Booked(l)' = Booked(l)
  PROVE  ReservationExact'
<1>1. \A v \in Variant : BookedOf(v)' = BookedOf(v)
  BY DEF BookedOf
<1>. QED  BY <1>1 DEF ReservationExact

(* A line books no more than its variant's counter shows.                  *)
LEMMA BookingCovered ==
  ASSUME TypeOK, ReservationExact, NEW l \in Line
  PROVE  Booked(l) <= committed[VariantOf[l]]
<1> DEFINE v == VariantOf[l]
<1>1. BookedOf(v) \in [Line -> Nat] /\ BookedOf(v)[l] = Booked(l)
  BY BookedFacts DEF BookedOf
<1>2. BookedOf(v)[l] <= Tally(BookedOf(v))
  BY <1>1, TallyBound, ShopAssumption
<1>3. v \in Variant
  BY LineFacts
<1>. QED  BY <1>1, <1>2, <1>3 DEF ReservationExact

(* A step that changes the booking of one line, and its variant's counter  *)
(* by as much, keeps them equal.                                           *)
LEMMA OneBooking ==
  ASSUME TypeOK, TypeOK', ReservationExact,
         NEW l \in Line,
         \A k \in Line \ {l} : Booked(k)' = Booked(k),
         committed' = [committed EXCEPT ![VariantOf[l]] = (@ - Booked(l)) + Booked(l)']
  PROVE  ReservationExact'
<1>1. \A k \in Line : Booked(k) \in Nat /\ Booked(k)' \in Nat
  BY BookedFacts, BookedFactsNext
<1>2. SUFFICES ASSUME NEW v \in Variant
               PROVE  committed'[v] = Tally(BookedOf(v)')
  BY DEF ReservationExact
<1> DEFINE f == BookedOf(v)
           g == [k \in Line |-> IF VariantOf[k] = v THEN Booked(k)' ELSE 0]
<1>3. BookedOf(v)' = g
  BY DEF BookedOf
<1>4. f \in [Line -> Nat] /\ g \in [Line -> Nat]
  BY <1>1 DEF BookedOf
<1>5. \A k \in Line \ {l} : g[k] = f[k]
  BY DEF BookedOf
<1>6. f[l] = (IF VariantOf[l] = v THEN Booked(l) ELSE 0)
      /\ g[l] = (IF VariantOf[l] = v THEN Booked(l)' ELSE 0)
  BY DEF BookedOf
<1>7. committed[v] = Tally(f)
  BY DEF ReservationExact
<1> HIDE DEF f, g
<1>8. Tally(g) = Tally(f) - f[l] + g[l]
  BY <1>4, <1>5, TallyChange, ShopAssumption
<1>9. Tally(f) \in Nat /\ committed \in [Variant -> Int] /\ VariantOf[l] \in Variant
  BY <1>4, TallyNat, ShopAssumption, LineFacts DEF TypeOK
<1>10. CASE VariantOf[l] = v
  <2>1. committed'[v] = (committed[v] - Booked(l)) + Booked(l)'
    BY <1>9, <1>10
  <2>. QED  BY <1>1, <1>3, <1>6, <1>7, <1>8, <1>9, <1>10, <2>1
<1>11. CASE VariantOf[l] # v
  <2>1. committed'[v] = committed[v]
    BY <1>9, <1>11
  <2>. QED  BY <1>3, <1>6, <1>7, <1>8, <1>9, <1>11, <2>1
<1>. QED  BY <1>10, <1>11

(* The place of a status tells the status.                                 *)
LEMMA AgeFacts ==
  /\ \A s \in SubStatus : Age(s) \in Nat
  /\ \A s, t \in SubStatus : Age(s) = Age(t) => s = t
BY DEF Age, SubStatus, LiveStatus, ProgressStatus

(* What a step may do to a request's order so that its plan, if it can     *)
(* still be claimed, stays current: move the order's clock, or its status  *)
(* or number of shipments, whenever it changes what the plan was made of.  *)
OrderMovesOn(o) ==
  /\ updatedAt[o] <= updatedAt'[o]
  /\ updatedAt'[o] = updatedAt[o] =>
       /\ soStatus'[o] = soStatus[o]
       /\ \A l \in LinesOf(o) : itemStatus'[l] = itemStatus[l] /\ shippedUnits'[l] = shippedUnits[l]
  /\ shipments[o] <= shipments'[o]
  /\ Age(soStatus[o]) <= Age(soStatus'[o])
  /\ soStatus'[o] = soStatus[o] /\ shipments'[o] = shipments[o] =>
       \A l \in LinesOf(o) : (Live(l)' <=> Live(l)) /\ shippedUnits'[l] = shippedUnits[l]

LEMMA PlanStaysCurrent ==
  ASSUME TypeOK, TypeOK', CallsAsGiven, Shapes, Shapes', NEW r \in Request,
         call[r].kind # "mark_paid", Claimable(r), OrderMovesOn(call[r].order),
         call' = call, plan'[r] = plan[r], todo'[r] = todo[r]
  PROVE  Claimable(r)'
<1> DEFINE o == call[r].order
<1>1. /\ o \in Order /\ call'[r].order = o /\ call'[r].kind = call[r].kind
      /\ call[r].kind \in {"status", "fulfil", "cancel"}
  BY CallFacts DEF Kinds
<1>2. /\ updatedAt[o] \in Nat /\ updatedAt'[o] \in Nat
      /\ shipments[o] \in Nat /\ shipments'[o] \in Nat
      /\ plan[r] \in Plan
  BY <1>1 DEF TypeOK
<1>3. plan[r].updatedAt \in Nat /\ plan[r].shipments \in Nat
  BY <1>2 DEF Plan
<1>4. soStatus[o] \in SubStatus /\ soStatus'[o] \in SubStatus
  BY <1>1 DEF Shapes, OrderShape
<1>5. /\ plan[r].updatedAt <= updatedAt[o] /\ plan[r].shipments <= shipments[o]
      /\ plan[r].status \in SubStatus /\ Age(plan[r].status) <= Age(soStatus[o])
      /\ StillAsRead(r) => Current(r)
  BY DEF Claimable
<1>6. /\ Age(plan[r].status) \in Nat /\ Age(soStatus[o]) \in Nat /\ Age(soStatus'[o]) \in Nat
  BY <1>4, <1>5, AgeFacts
<1>7. /\ plan[r].updatedAt <= updatedAt'[o] /\ plan[r].shipments <= shipments'[o]
      /\ Age(plan[r].status) <= Age(soStatus'[o])
  BY <1>2, <1>3, <1>5, <1>6 DEF OrderMovesOn
<1>8. ASSUME StillAsRead(r)'
      PROVE  Current(r)'
  <2>1. CASE call[r].kind = "cancel"
    <3>1. updatedAt'[o] = plan[r].updatedAt
      BY <1>1, <1>8, <2>1 DEF StillAsRead
    <3>2. updatedAt'[o] = updatedAt[o] /\ updatedAt[o] = plan[r].updatedAt
      BY <1>2, <1>3, <1>5, <3>1 DEF OrderMovesOn
    <3>3. CurrentCancel(r)
      BY <1>5, <2>1, <3>2 DEF StillAsRead, Current
    <3>4. /\ soStatus'[o] = soStatus[o]
          /\ \A l \in LinesOf(o) : itemStatus'[l] = itemStatus[l]
      BY <3>2 DEF OrderMovesOn
    <3>5. CurrentCancel(r)'
      BY <1>1, <3>3, <3>4 DEF CurrentCancel, LinesOf
    <3>. QED  BY <1>1, <2>1, <3>5 DEF Current
  <2>2. CASE call[r].kind # "cancel"
    <3>1. soStatus'[o] = plan[r].status /\ shipments'[o] = plan[r].shipments
      BY <1>1, <1>8, <2>2 DEF StillAsRead
    <3>2. Age(soStatus[o]) = Age(soStatus'[o]) /\ shipments'[o] = shipments[o]
      BY <1>2, <1>3, <1>5, <1>6, <3>1 DEF OrderMovesOn
    <3>3. soStatus'[o] = soStatus[o]
      BY <1>4, <3>2, AgeFacts
    <3>4. Current(r)
      BY <1>1, <1>5, <2>2, <3>1, <3>2, <3>3 DEF StillAsRead
    <3>5. \A l \in LinesOf(o) : (Live(l)' <=> Live(l)) /\ Left(l)' = Left(l)
      BY <3>2, <3>3 DEF OrderMovesOn, Left
    <3>6. CASE call[r].kind = "status"
      <4>1. CurrentStatus(r)
        BY <3>4, <3>6 DEF Current
      <4>2. CurrentStatus(r)'
        BY <1>1, <3>3, <3>5, <4>1 DEF CurrentStatus, LinesOf
      <4>. QED  BY <1>1, <3>6, <4>2 DEF Current
    <3>7. CASE call[r].kind = "fulfil"
      <4>1. CurrentFulfil(r)
        BY <3>4, <3>7 DEF Current
      <4>2. CurrentFulfil(r)'
        BY <1>1, <3>3, <3>5, <4>1 DEF CurrentFulfil, LinesOf
      <4>. QED  BY <1>1, <3>7, <4>2 DEF Current
    <3>. QED  BY <1>1, <2>2, <3>6, <3>7
  <2>. QED  BY <2>1, <2>2
<1>. QED  BY <1>1, <1>5, <1>7, <1>8 DEF Claimable

(* A step that writes no order leaves their shapes.                        *)
LEMMA ShapesStay ==
  ASSUME Shapes, UNCHANGED <<call, soStatus, itemStatus, shippedUnits>>,
         \A r \in Request : pc[r] \in {"moving", "done"} => pc'[r] \in {"moving", "done"}
  PROVE  Shapes'
<1>1. \A o \in Order : OrderShape(o)'
  BY DEF Shapes, OrderShape, PartGone
<1>2. \A l \in Line : LineShape(l)'
  BY DEF Shapes, LineShape
<1>. QED  BY <1>1, <1>2 DEF Shapes

(* A payment recorded by hand is alone on its order: what other requests   *)
(* do on theirs leaves it alone.                                           *)
LEMMA PaymentsStay ==
  ASSUME CallsAsGiven, Payments, NEW r \in Request, call' = call,
         call[r].kind # "mark_paid" => pc'[r] # "noting",
         call[r].kind = "mark_paid" => ByHand(r)',
         \A q \in Request \ {r} : pc'[q] = pc[q] /\ plan'[q] = plan[q] /\ todo'[q] = todo[q],
         \A o \in Order \ {call[r].order} : soStatus'[o] = soStatus[o],
         \A l \in Line : OrderOf[l] # call[r].order =>
           itemStatus'[l] = itemStatus[l] /\ shippedUnits'[l] = shippedUnits[l]
  PROVE  Payments'
<1>. SUFFICES ASSUME NEW q \in Request \ {r}
              PROVE  IF call[q].kind = "mark_paid" THEN ByHand(q)' ELSE pc'[q] # "noting"
  BY DEF Payments
<1>1. CASE call[q].kind = "mark_paid"
  <2>1. call[q].order # call[r].order /\ call[q].order \in Order
    BY <1>1, TogetherFacts, CallFacts
  <2>2. ByHand(q)
    BY <1>1 DEF Payments
  <2>3. soStatus'[call[q].order] = soStatus[call[q].order]
    BY <2>1
  <2>4. \A l \in LinesOf(call[q].order) : itemStatus'[l] = itemStatus[l] /\ shippedUnits'[l] = shippedUnits[l]
    BY <2>1 DEF LinesOf
  <2>5. ByHand(q)'
    BY <2>2, <2>3, <2>4 DEF ByHand, LinesOf
  <2>. QED  BY <1>1, <2>5
<1>2. CASE call[q].kind # "mark_paid"
  BY <1>2 DEF Payments
<1>. QED  BY <1>1, <1>2

(* Steps that change no order and no request keep all that the invariant   *)
(* says of them.                                                           *)
LEMMA OrdersAlone ==
  ASSUME CallsAsGiven, OwnLines, Shapes, Plans, Payments, UNCHANGED <<orderVars, requestVars>>
  PROVE  CallsAsGiven' /\ OwnLines' /\ Shapes' /\ Plans' /\ Payments'
<1>1. /\ UNCHANGED <<soStatus, shipments, updatedAt, isPaid, itemStatus, shippedUnits>>
      /\ UNCHANGED <<pc, call, plan, todo>>
  BY DEF orderVars, requestVars
<1>2. CallsAsGiven' /\ OwnLines'
  BY <1>1 DEF CallsAsGiven, OwnLines
<1>3. Shapes'
  BY <1>1, ShapesStay
<1>4. \A r \in Request : Claimable(r)' <=> Claimable(r)
  BY <1>1 DEF Claimable, StillAsRead, Current, CurrentStatus, CurrentFulfil, CurrentCancel, Live, Left
<1>5. Plans'
  BY <1>1, <1>4 DEF Plans
<1>6. Payments'
  BY <1>1 DEF Payments, ByHand
<1>. QED  BY <1>2, <1>3, <1>5, <1>6

(* A checkout books each line once, when it reserves it, and the order     *)
(* takes the booking over.                                                 *)
LEMMA CheckoutBookings ==
  ASSUME Inv, CheckoutStep, NEW l \in Line
  PROVE  /\ InFlight(l)' = InFlight(l)
         /\ placement[OrderOf[l]] = "placed" => Booked(l)' = Booked(l)
         /\ placement[OrderOf[l]] # "placed" /\ placement'[OrderOf[l]] = "placed" =>
              l \in reserved[OrderOf[l]] /\ Booked(l)' = Qty[l]
<1> DEFINE o == OrderOf[l]
<1>1. TypeOK /\ Untouched /\ OwnLines
  BY DEF Inv
<1>2. UNCHANGED <<orderVars, requestVars>>
  BY DEF CheckoutStep, StartCheckout, RefuseCheckout, FinishUndo, InsertOrder, ReserveLine, UndoLine
<1>3. /\ UNCHANGED <<soStatus, shipments, updatedAt, isPaid, itemStatus, shippedUnits>>
      /\ UNCHANGED <<pc, call, plan, todo>>
  BY <1>2 DEF orderVars, requestVars
<1>4. Open(l)' = Open(l) /\ InFlight(l)' = InFlight(l)
  BY <1>3 DEF Open, InFlight, MovedAhead, Live, Left
<1>5. o \in Order /\ Qty[l] \in Nat /\ placement \in [Order -> Placement]
  BY <1>1, LineFacts DEF TypeOK
<1>6. placement[o] = "placed" => placement'[o] = "placed"
  BY <1>5 DEF CheckoutStep, StartCheckout, RefuseCheckout, FinishUndo, InsertOrder,
              ReserveLine, UndoLine
<1>7. placement[o] = "placed" => Booked(l)' = Booked(l)
  BY <1>4, <1>6 DEF Booked
<1>8. ASSUME placement[o] # "placed", placement'[o] = "placed"
      PROVE  l \in reserved[o] /\ Booked(l)' = Qty[l]
  <2>1. LinesOf(o) \subseteq reserved[o]
    BY <1>5, <1>8 DEF CheckoutStep, StartCheckout, RefuseCheckout, FinishUndo, InsertOrder,
                      ReserveLine, UndoLine
  <2>2. /\ soStatus[o] = "pending" /\ itemStatus[l] = "pending" /\ shippedUnits[l] = 0
        /\ \A r \in Request : call[r].order = o => pc[r] = "idle"
    BY <1>1, <1>5, <1>8 DEF Untouched, LinesOf
  <2>3. \A r \in Request : Flying(l)[r] = 0
    BY <1>1, <2>2 DEF Flying, OwnLines
  <2>4. InFlight(l) = 0
    BY <1>1, <2>3, FlyingFacts, TallyZero
  <2>5. ~MovedAhead(l)
    BY <2>2 DEF MovedAhead
  <2>6. Open(l) = Qty[l]
    BY <2>2, <2>5, LineFacts DEF Open, Live, Left, DeadStatus, FulfilledStatus
  <2>7. Booked(l)' = Open(l) + InFlight(l)
    BY <1>4, <1>8 DEF Booked
  <2>. QED  BY <1>5, <2>1, <2>4, <2>6, <2>7 DEF LinesOf
<1>. QED  BY <1>4, <1>7, <1>8

(* Checkouts keep the invariant.                                           *)
LEMMA CheckoutKeepsInv ==
  ASSUME Inv, CheckoutStep
  PROVE  Inv'
<1>1. TypeOK /\ CallsAsGiven /\ Untouched /\ OwnLines /\ Shapes /\ Plans /\ Payments /\ ReservationExact
  BY DEF Inv
<1>2. UNCHANGED <<orderVars, requestVars>>
  BY DEF CheckoutStep, StartCheckout, RefuseCheckout, FinishUndo, InsertOrder, ReserveLine, UndoLine
<1>3. /\ UNCHANGED <<soStatus, shipments, updatedAt, isPaid, itemStatus, shippedUnits>>
      /\ UNCHANGED <<pc, call, plan, todo>>
  BY <1>2 DEF orderVars, requestVars
<1>4. TypeOK' /\ CallsAsGiven' /\ OwnLines' /\ Shapes' /\ Plans' /\ Payments'
  BY <1>1, <1>2, CheckoutTypes, OrdersAlone
<1>5. \A o \in Order : placement'[o] # "placed" => placement[o] # "placed"
  BY <1>1 DEF CheckoutStep, StartCheckout, RefuseCheckout, FinishUndo, InsertOrder,
              ReserveLine, UndoLine, TypeOK
<1>6. Untouched'
  BY <1>1, <1>3, <1>5 DEF Untouched
<1>7. ASSUME NEW o \in Order,
             StartCheckout(o) \/ RefuseCheckout(o) \/ FinishUndo(o) \/ InsertOrder(o)
      PROVE  ReservationExact'
  <2>1. committed' = committed /\ reserved' = reserved
    BY <1>7 DEF StartCheckout, RefuseCheckout, FinishUndo, InsertOrder, variantVars
  <2>2. ASSUME NEW l \in Line
        PROVE  Booked(l)' = Booked(l)
    <3>1. CASE placement[OrderOf[l]] = "placed"
      BY <3>1, CheckoutBookings
    <3>2. CASE placement[OrderOf[l]] # "placed" /\ placement'[OrderOf[l]] = "placed"
      <4>1. l \in reserved[OrderOf[l]] /\ Booked(l)' = Qty[l]
        BY <3>2, CheckoutBookings
      <4>. QED  BY <3>2, <4>1 DEF Booked
    <3>3. CASE placement[OrderOf[l]] # "placed" /\ placement'[OrderOf[l]] # "placed"
      BY <2>1, <3>3 DEF Booked
    <3>. QED  BY <3>1, <3>2, <3>3
  <2>. QED  BY <1>1, <2>1, <2>2, SameBookings
<1>8. ASSUME NEW l \in Line, ReserveLine(l) \/ UndoLine(l)
      PROVE  ReservationExact'
  <2> DEFINE v == VariantOf[l]
             o == OrderOf[l]
  <2>1. /\ v \in Variant /\ o \in Order /\ Qty[l] \in Nat
        /\ committed[v] \in Int /\ placement' = placement /\ placement[o] # "placed"
    BY <1>1, <1>8, LineFacts DEF ReserveLine, UndoLine, TypeOK
  <2>2. \A k \in Line \ {l} : k \in reserved'[OrderOf[k]] <=> k \in reserved[OrderOf[k]]
    BY <1>1, <1>8, <2>1, LineFacts DEF ReserveLine, UndoLine, TypeOK
  <2>3. ASSUME NEW k \in Line \ {l}
        PROVE  Booked(k)' = Booked(k)
    <3>1. CASE placement[OrderOf[k]] = "placed"
      BY <3>1, CheckoutBookings
    <3>2. CASE placement[OrderOf[k]] # "placed"
      BY <2>1, <2>2, <3>2 DEF Booked
    <3>. QED  BY <3>1, <3>2
  <2>4. CASE ReserveLine(l)
    <3>1. Booked(l) = 0 /\ Booked(l)' = Qty[l]
      BY <1>1, <2>1, <2>4 DEF ReserveLine, Booked, TypeOK
    <3>2. (committed[v] - Booked(l)) + Booked(l)' = committed[v] + Qty[l]
      BY <2>1, <3>1
    <3>3. committed' = [committed EXCEPT ![v] = (@ - Booked(l)) + Booked(l)']
      BY <2>4, <3>2 DEF ReserveLine
    <3>. QED  BY <1>1, <1>4, <2>3, <3>3, OneBooking
  <2>5. CASE UndoLine(l)
    <3>1. Booked(l) = Qty[l] /\ Booked(l)' = 0
      BY <1>1, <2>1, <2>5 DEF UndoLine, Booked, TypeOK
    <3>2. (committed[v] - Booked(l)) + Booked(l)' = committed[v] - Qty[l]
      BY <2>1, <3>1
    <3>3. committed' = [committed EXCEPT ![v] = (@ - Booked(l)) + Booked(l)']
      BY <2>5, <3>2 DEF UndoLine
    <3>. QED  BY <1>1, <1>4, <2>3, <3>3, OneBooking
  <2>. QED  BY <1>8, <2>4, <2>5
<1>9. ReservationExact'
  BY <1>7, <1>8 DEF CheckoutStep
<1>. QED  BY <1>4, <1>6, <1>9 DEF Inv

(* Requests that are not recording a payment do not change which stock was *)
(* moved ahead of its order.                                               *)
LEMMA AheadStays ==
  ASSUME NEW r \in Request, call' = call,
         call[r].kind = "mark_paid" => pc[r] # "moving" /\ pc'[r] # "moving",
         \A q \in Request \ {r} : pc'[q] = pc[q] /\ plan'[q] = plan[q] /\ todo'[q] = todo[q],
         NEW l \in Line
  PROVE  MovedAhead(l)' <=> MovedAhead(l)
<1>1. ASSUME NEW q \in Request, q # r
      PROVE  /\ pc'[q] = pc[q] /\ plan'[q] = plan[q] /\ todo'[q] = todo[q]
  BY <1>1
<1>. QED  BY <1>1 DEF MovedAhead

(* Reading an order books nothing.                                         *)
LEMMA ReadBookings ==
  ASSUME TypeOK, NEW r \in Request, NEW s \in {"claiming", "noting"}, NEW p, NEW m,
         ReadOrder(r, s, p, m), NEW l \in Line
  PROVE  Booked(l)' = Booked(l)
<1>1. /\ UNCHANGED <<call, placement, reserved>>
      /\ UNCHANGED <<soStatus, itemStatus, shippedUnits>>
      /\ pc[r] = "idle" /\ pc'[r] = s
      /\ \A q \in Request \ {r} : pc'[q] = pc[q] /\ plan'[q] = plan[q] /\ todo'[q] = todo[q]
  BY DEF ReadOrder, checkoutVars, orderVars, TypeOK
<1>2. InFlight(l)' = InFlight(l)
  BY <1>1 DEF InFlight
<1>3. MovedAhead(l)' <=> MovedAhead(l)
  BY <1>1, AheadStays
<1>. QED  BY <1>1, <1>2, <1>3 DEF Booked, Open, Live, Left

(* A handler that reads an order and makes a plan that is current keeps    *)
(* the invariant.                                                          *)
LEMMA ReadKeepsInv ==
  ASSUME Inv, NEW r \in Request, NEW s \in {"claiming", "noting"},
         NEW p \in Plan, NEW m \in [Line -> Nat], ReadOrder(r, s, p, m),
         \A l \in Line : OrderOf[l] # call[r].order => m[l] = 0 /\ p.items[l] = AsIs /\ p.ship[l] = 0,
         p.status = soStatus[call[r].order], p.shipments = shipments[call[r].order],
         p.updatedAt = updatedAt[call[r].order],
         IF call[r].kind = "mark_paid" THEN s = "noting" /\ ByHand(r)' ELSE s = "claiming" /\ Current(r)'
  PROVE  Inv'
<1> DEFINE o == call[r].order
<1>1. TypeOK /\ CallsAsGiven /\ Untouched /\ OwnLines /\ Shapes /\ Plans /\ Payments /\ ReservationExact
  BY DEF Inv
<1>2. /\ UNCHANGED <<call, variantVars, checkoutVars, orderVars, corrected>>
      /\ UNCHANGED <<stock, committed, placement, reserved>>
      /\ UNCHANGED <<soStatus, shipments, updatedAt, isPaid, itemStatus, shippedUnits>>
      /\ pc' = [pc EXCEPT ![r] = s] /\ plan' = [plan EXCEPT ![r] = p]
      /\ todo' = [todo EXCEPT ![r] = m]
      /\ pc[r] = "idle" /\ placement[o] = "placed"
  BY DEF ReadOrder, variantVars, checkoutVars, orderVars
<1>3. TypeOK'
  BY <1>1, ReadTypes DEF Step
<1>4. /\ pc'[r] = s /\ plan'[r] = p /\ todo'[r] = m
      /\ \A q \in Request \ {r} : pc'[q] = pc[q] /\ plan'[q] = plan[q] /\ todo'[q] = todo[q]
  BY <1>1, <1>2 DEF TypeOK
<1>5. CallsAsGiven' /\ Shapes'
  <2>1. CallsAsGiven'
    BY <1>1, <1>2 DEF CallsAsGiven
  <2>2. Shapes'
    BY <1>1, <1>2, <1>4, ShapesStay
  <2>. QED  BY <2>1, <2>2
<1>6. Untouched'
  BY <1>1, <1>2, <1>4 DEF Untouched
<1>7. OwnLines'
  BY <1>1, <1>2, <1>4 DEF OwnLines
<1>8. Payments'
  BY <1>1, <1>2, <1>4, PaymentsStay
<1>9. Plans'
  <2>1. ASSUME NEW q \in Request \ {r}, pc[q] = "claiming"
        PROVE  Claimable(q)'
    <3>1. Claimable(q) /\ call[q].order \in Order /\ call[q].kind # "mark_paid"
      BY <1>1, <2>1, CallFacts DEF Plans
    <3>2. /\ updatedAt[call[q].order] \in Nat /\ shipments[call[q].order] \in Nat
          /\ Age(soStatus[call[q].order]) \in Nat
      BY <1>1, <3>1, AgeFacts DEF TypeOK, Shapes, OrderShape
    <3>3. OrderMovesOn(call[q].order)
      BY <1>2, <3>2 DEF OrderMovesOn, Live
    <3>. QED  BY <1>1, <1>2, <1>3, <1>4, <1>5, <3>1, <3>3, PlanStaysCurrent
  <2>2. ASSUME s = "claiming"
        PROVE  call[r].kind # "mark_paid" /\ Claimable(r)'
    <3>1. o \in Order /\ updatedAt[o] \in Nat /\ shipments[o] \in Nat /\ soStatus[o] \in SubStatus
      BY <1>1, CallFacts DEF TypeOK, Shapes, OrderShape
    <3>2. Age(soStatus[o]) \in Nat
      BY <3>1, AgeFacts
    <3>. QED  BY <1>2, <1>4, <2>2, <3>1, <3>2 DEF Claimable
  <2>. QED  BY <1>1, <1>2, <1>4, <2>1, <2>2 DEF Plans
<1>10. ReservationExact'
  BY <1>1, <1>2, ReadBookings, SameBookings
<1>. QED  BY <1>3, <1>5, <1>6, <1>7, <1>8, <1>9, <1>10 DEF Inv

(* The handlers that read and then claim, and the one that does not claim. *)
LEMMA BeginStatusKeepsInv ==
  ASSUME Inv, NEW r \in Request, BeginStatus(r)
  PROVE  Inv'
<1> DEFINE c == call[r]
           p == StatusPlan(c)
           m == StatusMoves(c)
<1>1. TypeOK /\ CallsAsGiven
  BY DEF Inv
<1>2. /\ c \in Call /\ c.kind = "status" /\ AllowedTransition(soStatus[c.order], c.to)
      /\ ReadOrder(r, "claiming", p, m)
  BY <1>1, CallFacts DEF BeginStatus
<1>3. p \in Plan /\ m \in [Line -> Nat]
  BY <1>1, <1>2, PlanTypes
<1>4. /\ p.status = soStatus[c.order] /\ p.shipments = shipments[c.order]
      /\ p.updatedAt = updatedAt[c.order] /\ p.newStatus = c.to
      /\ p.items = SetLive(c.order, c.to)
      /\ p.ship = IF c.to = "shipped" THEN Unshipped(c.order) ELSE NoUnits
  BY DEF StatusPlan, PlanFrom
<1>5. \A l \in Line : OrderOf[l] # c.order => m[l] = 0 /\ p.items[l] = AsIs /\ p.ship[l] = 0
  BY <1>4 DEF StatusMoves, Unshipped, NoUnits, SetLive
<1>6. Current(r)'
  <2>1. /\ plan'[r] = p /\ todo'[r] = m /\ call' = call
        /\ soStatus' = soStatus /\ itemStatus' = itemStatus /\ shippedUnits' = shippedUnits
    BY <1>1, <1>2 DEF ReadOrder, TypeOK, orderVars
  <2>2. \A l \in LinesOf(c.order) : (Live(l)' <=> Live(l)) /\ Left(l)' = Left(l)
    BY <2>1 DEF Live, Left
  <2>3. \A l \in LinesOf(c.order) :
          /\ p.items[l] = IF Live(l) THEN c.to ELSE AsIs
          /\ p.ship[l] = IF c.to = "shipped" /\ Live(l) THEN Left(l) ELSE 0
          /\ m[l] = IF c.to \in FulfilledStatus /\ soStatus[c.order] \notin FulfilledStatus /\ Live(l)
                    THEN Left(l) ELSE 0
    BY <1>4 DEF StatusMoves, Unshipped, NoUnits, SetLive, LinesOf
  <2> HIDE DEF p, m
  <2>4. CurrentStatus(r)'
    BY <1>2, <1>4, <2>1, <2>2, <2>3 DEF CurrentStatus, LinesOf
  <2>. QED  BY <1>2, <2>1, <2>4 DEF Current
<1> HIDE DEF p, m
<1>. QED  BY <1>2, <1>3, <1>4, <1>5, <1>6, ReadKeepsInv

(* Cancelling some lines of an order of live or cancelled lines cancels    *)
(* the order, or a part of it.                                             *)
LEMMA CancelRollup ==
  ASSUME NEW children \in SUBSET (ProgressStatus \cup {"cancelled"}), "cancelled" \in children
  PROVE  Rollup(children) = IF children = {"cancelled"} THEN "cancelled" ELSE "partially_cancelled"
<1>1. "refunded" \notin children
  BY DEF ProgressStatus
<1>. QED  BY <1>1 DEF Rollup

LEMMA BeginCancelKeepsInv ==
  ASSUME Inv, NEW r \in Request, BeginCancel(r)
  PROVE  Inv'
<1> DEFINE c == call[r]
           p == CancelPlan(c)
           m == CancelMoves(c)
           kids == {IF l \in c.lines THEN "cancelled" ELSE itemStatus[l] : l \in LinesOf(c.order)}
<1>1. TypeOK /\ CallsAsGiven /\ Shapes
  BY DEF Inv
<1>2. /\ c \in Call /\ c.kind = "cancel"
      /\ c.lines \subseteq LinesOf(c.order) /\ c.lines # {}
      /\ \A l \in c.lines : itemStatus[l] \notin FulfilledStatus \cup {"cancelled"}
      /\ ReadOrder(r, "claiming", p, m)
  BY <1>1, CallFacts DEF BeginCancel
<1>3. p \in Plan /\ m \in [Line -> Nat]
  BY <1>1, <1>2, PlanTypes
<1>4. Rollup(kids) = IF \A l \in LinesOf(c.order) : l \in c.lines \/ itemStatus[l] = "cancelled"
                     THEN "cancelled" ELSE "partially_cancelled"
  <2>1. kids \subseteq ProgressStatus \cup {"cancelled"}
    BY <1>1 DEF Shapes, LineShape, LinesOf
  <2>2. "cancelled" \in kids
    BY <1>2
  <2>3. kids = {"cancelled"} <=>
          \A l \in LinesOf(c.order) : l \in c.lines \/ itemStatus[l] = "cancelled"
    BY <2>2
  <2> HIDE DEF kids
  <2>. QED  BY <2>1, <2>2, <2>3, CancelRollup
<1>5. /\ p.status = soStatus[c.order] /\ p.shipments = shipments[c.order]
      /\ p.updatedAt = updatedAt[c.order] /\ p.newStatus = Rollup(kids)
      /\ p.items = [l \in Line |-> IF l \in c.lines THEN "cancelled" ELSE AsIs]
      /\ p.ship = NoUnits
  BY DEF CancelPlan, PlanFrom
<1>6. \A l \in Line : OrderOf[l] # c.order => m[l] = 0 /\ p.items[l] = AsIs /\ p.ship[l] = 0
  BY <1>2, <1>5 DEF CancelMoves, NoUnits, LinesOf
<1>7. soStatus[c.order] \notin FulfilledStatus \cup {"cancelled"}
  <2>1. PICK l \in Line : OrderOf[l] = c.order /\ l \in c.lines
    BY <1>2 DEF LinesOf
  <2>2. LineShape(l) /\ itemStatus[l] \notin FulfilledStatus \cup {"cancelled"}
    BY <1>1, <1>2, <2>1 DEF Shapes
  <2>. QED  BY <2>1, <2>2 DEF LineShape
<1>8. Current(r)'
  <2>1. /\ plan'[r] = p /\ todo'[r] = m /\ call' = call
        /\ soStatus' = soStatus /\ itemStatus' = itemStatus
    BY <1>1, <1>2 DEF ReadOrder, TypeOK, orderVars
  <2>2. \A l \in LinesOf(c.order) :
          /\ p.ship[l] = 0
          /\ l \in c.lines => m[l] = Qty[l] /\ p.items[l] = "cancelled"
          /\ l \notin c.lines => m[l] = 0 /\ p.items[l] = AsIs
    BY <1>5 DEF CancelMoves, NoUnits, LinesOf
  <2> HIDE DEF p, m, kids
  <2>3. CurrentCancel(r)'
    BY <1>2, <1>4, <1>5, <1>7, <2>1, <2>2 DEF CurrentCancel, LinesOf
  <2>. QED  BY <1>2, <2>1, <2>3 DEF Current
<1> HIDE DEF p, m, kids
<1>. QED  BY <1>2, <1>3, <1>5, <1>6, <1>8, ReadKeepsInv

LEMMA BeginFulfilKeepsInv ==
  ASSUME Inv, NEW r \in Request, BeginFulfil(r)
  PROVE  Inv'
<1> DEFINE c == call[r]
           s == soStatus[c.order]
           p == FulfilPlan(c)
<1>1. TypeOK /\ CallsAsGiven /\ Shapes
  BY DEF Inv
<1>2. /\ c \in Call /\ c.kind = "fulfil" /\ c.order \in Order
      /\ c.units \in [Line -> Nat] /\ \E l \in Line : c.units[l] > 0
      /\ \A l \in Line : OrderOf[l] # c.order => c.units[l] = 0
  BY <1>1, CallFacts DEF BeginFulfil
<1>3. /\ s \in Fulfillable
      /\ \A l \in Line : c.units[l] > 0 => Live(l) /\ c.units[l] <= Left(l)
      /\ ReadOrder(r, "claiming", p, c.units)
  BY DEF BeginFulfil
<1>4. p \in Plan
  BY <1>1, <1>2, PlanTypes
<1>5. s \in {"pending", "processing", "partially_cancelled"}
  BY <1>1, <1>2, <1>3 DEF Shapes, OrderShape, SubStatus, LiveStatus, ProgressStatus, Fulfillable,
                          PartialStatus
<1>6. /\ p.status = s /\ p.shipments = shipments[c.order]
      /\ p.updatedAt = updatedAt[c.order] /\ p.ship = c.units
      /\ p.newStatus = IF ShipsEverything(c) THEN "shipped"
                       ELSE IF s = "pending" THEN "processing" ELSE s
      /\ \A l \in Line : p.items[l] =
           IF OrderOf[l] # c.order \/ ~Live(l) THEN AsIs
           ELSE IF ShipsEverything(c) \/ c.units[l] >= Left(l) THEN "shipped"
           ELSE IF itemStatus[l] = "pending" THEN "processing" ELSE AsIs
  BY DEF FulfilPlan, PlanFrom
<1>7. \A l \in Line : OrderOf[l] # c.order =>
        c.units[l] = 0 /\ p.items[l] = AsIs /\ p.ship[l] = 0
  BY <1>2, <1>6
<1>8. p.ship # NoUnits
  BY <1>2, <1>6 DEF NoUnits
<1>9. ASSUME NEW l \in LinesOf(c.order)
      PROVE  /\ c.units[l] > 0 => Live(l) /\ c.units[l] <= Left(l)
             /\ ~Live(l) => p.items[l] = AsIs
             /\ Live(l) /\ p.newStatus = "shipped" => c.units[l] >= Left(l)
             /\ Live(l) => IF c.units[l] >= Left(l) THEN p.items[l] = "shipped"
                           ELSE p.items[l] \in {"processing", AsIs}
  <2>1. l \in Line /\ OrderOf[l] = c.order
    BY DEF LinesOf
  <2>2. p.newStatus = "shipped" => ShipsEverything(c)
    BY <1>5, <1>6
  <2>3. ShipsEverything(c) /\ Live(l) => c.units[l] >= Left(l)
    BY DEF ShipsEverything
  <2> HIDE DEF p
  <2>. QED  BY <1>3, <1>6, <2>1, <2>2, <2>3
<1>10. Current(r)'
  <2>1. /\ plan'[r] = p /\ todo'[r] = c.units /\ call' = call
        /\ soStatus' = soStatus /\ itemStatus' = itemStatus /\ shippedUnits' = shippedUnits
    BY <1>1, <1>3 DEF ReadOrder, TypeOK, orderVars
  <2>2. \A l \in LinesOf(c.order) : (Live(l)' <=> Live(l)) /\ Left(l)' = Left(l)
    BY <2>1 DEF Left, Live
  <2> HIDE DEF p
  <2>3. p.newStatus \in {"shipped", IF s = "pending" THEN "processing" ELSE s}
    BY <1>6
  <2>4. CurrentFulfil(r)'
    BY <1>5, <1>6, <1>8, <1>9, <2>1, <2>2, <2>3 DEF CurrentFulfil, LinesOf
  <2>. QED  BY <1>2, <2>1, <2>4 DEF Current
<1> HIDE DEF p
<1>. QED  BY <1>2, <1>3, <1>4, <1>6, <1>7, <1>10, ReadKeepsInv

LEMMA BeginMarkPaidKeepsInv ==
  ASSUME Inv, NEW r \in Request, BeginMarkPaid(r)
  PROVE  Inv'
<1> DEFINE c == call[r]
           o == c.order
           p == PaidPlan(c)
           m == PaidMoves(c)
<1>1. TypeOK /\ CallsAsGiven /\ Payments
  BY DEF Inv
<1>2. /\ c \in Call /\ c.kind = "mark_paid" /\ pc[r] = "idle"
      /\ ReadOrder(r, "noting", p, m)
  BY <1>1, CallFacts DEF BeginMarkPaid, ReadOrder
<1>3. p \in Plan /\ m \in [Line -> Nat]
  BY <1>1, <1>2, PlanTypes
<1>4. /\ p.status = soStatus[o] /\ p.shipments = shipments[o] /\ p.updatedAt = updatedAt[o]
      /\ p.newStatus = "completed" /\ p.ship = NoUnits
      /\ p.items = [l \in Line |-> IF OrderOf[l] = o THEN "completed" ELSE AsIs]
  BY DEF PaidPlan, PlanFrom
<1>5. \A l \in Line : OrderOf[l] # o => m[l] = 0 /\ p.items[l] = AsIs /\ p.ship[l] = 0
  BY <1>4 DEF PaidMoves, NoUnits
<1>6. soStatus[o] = "pending" /\ \A l \in LinesOf(o) : itemStatus[l] = "pending" /\ shippedUnits[l] = 0
  BY <1>1, <1>2 DEF Payments, ByHand
<1>7. \A l \in LinesOf(o) : p.items[l] = "completed" /\ p.ship[l] = 0 /\ m[l] = Qty[l]
  BY <1>4, <1>6 DEF LinesOf, NoUnits, PaidMoves, FulfilledStatus
<1>8. /\ plan'[r] = p /\ todo'[r] = m /\ pc'[r] = "noting" /\ call' = call
      /\ soStatus' = soStatus /\ itemStatus' = itemStatus /\ shippedUnits' = shippedUnits
  BY <1>1, <1>2 DEF ReadOrder, TypeOK, orderVars
<1> HIDE DEF p, m
<1>9. ByHand(r)'
  BY <1>4, <1>6, <1>7, <1>8 DEF ByHand, LinesOf
<1>. QED  BY <1>2, <1>3, <1>4, <1>5, <1>9, ReadKeepsInv

(* What a forward transition is.                                           *)
LEMMA TransitionFacts ==
  ASSUME NEW s \in SubStatus, NEW t \in ProgressStatus \ {"pending"}, AllowedTransition(s, t)
  PROVE  /\ s # "cancelled"
         /\ t \notin FulfilledStatus => t = "processing" /\ s \notin FulfilledStatus
         /\ (t = "processing" /\ s = "partially_cancelled") \/ Age(s) <= Age(t)
<1>1. s \in LiveStatus
  BY DEF AllowedTransition, SubStatus, DeadStatus
<1>2. SellerStatusRank[s] <= SellerStatusRank[t]
      /\ {s, t} \subseteq RollupStatus \ DeadStatus
  BY DEF AllowedTransition
<1>3. \A q \in {s, t} : SellerStatusRank[q] =
        CASE q = "pending" -> 0
          [] q \in {"processing", "partially_cancelled", "partially_refunded"} -> 1
          [] q \in {"partially_shipped", "shipped"} -> 2
          [] q = "delivered" -> 3
          [] q = "completed" -> 4
  BY <1>2 DEF SellerStatusRank
<1>4. \A q \in {s, t} : SellerStatusRank[q] =
        IF q = "pending" THEN 0 ELSE IF q \in {"processing", "partially_cancelled"} THEN 1
        ELSE IF q = "shipped" THEN 2 ELSE IF q = "delivered" THEN 3 ELSE 4
  BY <1>1, <1>3 DEF LiveStatus, ProgressStatus
<1>. QED  BY <1>1, <1>2, <1>4 DEF Age, LiveStatus, ProgressStatus, FulfilledStatus

(* What the order has open of a line, but for stock moved ahead of it.     *)
OpenUnits(l) ==
  IF ~Live(l) \/ soStatus[OrderOf[l]] \in FulfilledStatus THEN 0 ELSE Left(l)

(* What a claim does to its order: the status does not go back, the order  *)
(* and its lines keep their shape, and what a line loses of its open units *)
(* is what the request has yet to move.                                    *)
ClaimGood(r) ==
  LET o == call[r].order IN
  /\ OrderShape(o)' /\ Age(soStatus[o]) <= Age(soStatus'[o])
  /\ soStatus'[o] = soStatus[o] /\ shipments'[o] = shipments[o] =>
       \A l \in LinesOf(o) : (Live(l)' <=> Live(l)) /\ shippedUnits'[l] = shippedUnits[l]
  /\ \A l \in LinesOf(o) : LineShape(l)' /\ OpenUnits(l)' + todo[r][l] = OpenUnits(l)

(* What the claiming update writes.                                        *)
LEMMA ClaimWrites ==
  ASSUME Inv, NEW r \in Request, Claim(r)
  PROVE  LET o == call[r].order IN
         /\ o \in Order /\ Current(r) /\ call[r].kind \in {"status", "fulfil", "cancel"}
         /\ soStatus[o] \in SubStatus /\ soStatus'[o] = plan[r].newStatus
         /\ shipments'[o] = IF plan[r].ship = NoUnits THEN shipments[o] ELSE shipments[o] + 1
         /\ shipments[o] \in Nat /\ updatedAt[o] \in Nat /\ updatedAt'[o] = updatedAt[o] + 1
         /\ \A q \in Order \ {o} : /\ soStatus'[q] = soStatus[q] /\ shipments'[q] = shipments[q]
                                   /\ updatedAt'[q] = updatedAt[q]
         /\ \A l \in Line :
              /\ itemStatus'[l] = IF plan[r].items[l] = AsIs THEN itemStatus[l] ELSE plan[r].items[l]
              /\ shippedUnits'[l] = shippedUnits[l] + plan[r].ship[l]
              /\ shippedUnits[l] \in Nat /\ plan[r].ship[l] \in Nat
              /\ OrderOf[l] # o => itemStatus'[l] = itemStatus[l] /\ shippedUnits'[l] = shippedUnits[l]
         /\ pc[r] = "claiming" /\ pc'[r] = "moving" /\ UNCHANGED <<call, plan, todo>>
         /\ \A q \in Request \ {r} : pc'[q] = pc[q]
<1>1. TypeOK /\ CallsAsGiven /\ OwnLines /\ Shapes /\ Plans
  BY DEF Inv
<1>2. pc[r] = "claiming" /\ StillAsRead(r) /\ WritePlan(r)
  BY DEF Claim
<1>3. call[r].order \in Order /\ call[r].kind \in {"status", "fulfil", "cancel"}
  BY <1>1, <1>2, CallFacts DEF Plans, Kinds
<1>4. Current(r)
  BY <1>1, <1>2 DEF Plans, Claimable
<1>5. plan[r].ship \in [Line -> Nat]
  BY <1>1 DEF TypeOK, Plan
<1>6. /\ pc'[r] = "moving" /\ UNCHANGED <<call, plan, todo>>
      /\ \A q \in Request \ {r} : pc'[q] = pc[q]
  BY <1>1 DEF Claim, TypeOK
<1>. QED  BY <1>1, <1>2, <1>3, <1>4, <1>5, <1>6 DEF WritePlan, TypeOK, OwnLines, Shapes, OrderShape

(* What a line of a claimed order is like.                                 *)
LEMMA LineNow ==
  ASSUME TypeOK, Shapes, NEW o, NEW l \in LinesOf(o)
  PROVE  /\ l \in Line /\ OrderOf[l] = o /\ LineShape(l)
         /\ Left(l) \in Nat /\ Qty[l] \in Nat /\ Qty[l] > 0 /\ shippedUnits[l] \in Nat
         /\ Left(l) = Qty[l] - shippedUnits[l]
         /\ Live(l) <=> itemStatus[l] # "cancelled"
<1>1. l \in Line /\ OrderOf[l] = o /\ LineShape(l)
  BY DEF LinesOf, Shapes
<1>2. /\ Left(l) \in Nat /\ Qty[l] \in Nat /\ Qty[l] > 0 /\ shippedUnits[l] \in Nat
  BY <1>1, LeftType, LineFacts DEF TypeOK
<1>3. Left(l) = Qty[l] - shippedUnits[l]
  BY <1>1, <1>2 DEF LineShape, Left
<1>4. Live(l) <=> itemStatus[l] # "cancelled"
  BY <1>1 DEF LineShape, Live, DeadStatus, ProgressStatus
<1>. QED  BY <1>1, <1>2, <1>3, <1>4

(* An order a part of which is cancelled is not set back to "processing".  *)
LEMMA PartStays ==
  ASSUME CallsAsGiven, Shapes, NEW r \in Request, SendsBack(call[r])
  PROVE  soStatus[call[r].order] # "partially_cancelled"
<1> DEFINE o == call[r].order
<1>1. SUFFICES ASSUME soStatus[o] = "partially_cancelled"
               PROVE  FALSE
  OBVIOUS
<1>2. o \in Order
  BY CallFacts
<1>3. PICK q \in Request : PartGone(o, q)
  BY <1>1, <1>2 DEF Shapes, OrderShape
<1>. QED  BY <1>3, TogetherFacts DEF PartGone

LEMMA StatusClaim ==
  ASSUME Inv, NEW r \in Request, Claim(r), call[r].kind = "status"
  PROVE  ClaimGood(r)
<1> DEFINE c == call[r]
           o == c.order
           s == soStatus[o]
           t == c.to
<1>1. TypeOK /\ CallsAsGiven /\ Shapes
  BY DEF Inv
<1>2. CurrentStatus(r)
  BY ClaimWrites DEF Current
<1>3. t \in ProgressStatus \ {"pending"} /\ (t = "processing" => SendsBack(c))
  BY <1>1, CallFacts DEF SendsBack
<1>4. s \in SubStatus /\ soStatus'[o] = t /\ AllowedTransition(s, t)
  BY <1>2, ClaimWrites DEF CurrentStatus
<1>5. t = "processing" => s # "partially_cancelled"
  BY <1>1, <1>3, PartStays
<1>6. /\ s # "cancelled" /\ Age(s) <= Age(t)
      /\ t \notin FulfilledStatus => t = "processing" /\ s \notin FulfilledStatus
  BY <1>3, <1>4, <1>5, TransitionFacts
<1>7. OrderShape(o)'
  BY <1>3, <1>4, ClaimWrites DEF OrderShape, SubStatus, LiveStatus, ProgressStatus
<1>8. ASSUME NEW l \in LinesOf(o)
      PROVE  /\ itemStatus'[l] = IF Live(l) THEN t ELSE itemStatus[l]
             /\ Live(l)' <=> Live(l)
             /\ shippedUnits'[l] = shippedUnits[l] + (IF t = "shipped" /\ Live(l) THEN Left(l) ELSE 0)
             /\ todo[r][l] = IF t \in FulfilledStatus /\ s \notin FulfilledStatus /\ Live(l)
                             THEN Left(l) ELSE 0
  <2>1. l \in Line
    BY DEF LinesOf
  <2>2. /\ plan[r].items[l] = (IF Live(l) THEN t ELSE AsIs)
        /\ plan[r].ship[l] = (IF t = "shipped" /\ Live(l) THEN Left(l) ELSE 0)
        /\ todo[r][l] = IF t \in FulfilledStatus /\ s \notin FulfilledStatus /\ Live(l)
                        THEN Left(l) ELSE 0
    BY <1>2 DEF CurrentStatus
  <2>3. t # AsIs
    BY <1>3 DEF ProgressStatus, AsIs
  <2>4. /\ itemStatus'[l] = (IF Live(l) THEN t ELSE itemStatus[l])
        /\ shippedUnits'[l] = shippedUnits[l] + plan[r].ship[l]
    BY <2>1, <2>2, <2>3, ClaimWrites
  <2>5. Live(l)' <=> Live(l)
    BY <1>3, <2>4 DEF Live, DeadStatus, ProgressStatus
  <2>. QED  BY <2>2, <2>4, <2>5
<1>9. ASSUME shipments'[o] = shipments[o], NEW l \in LinesOf(o)
      PROVE  (Live(l)' <=> Live(l)) /\ shippedUnits'[l] = shippedUnits[l]
  <2>1. plan[r].ship = NoUnits /\ l \in Line
    BY <1>9, ClaimWrites DEF LinesOf
  <2>2. shippedUnits'[l] = shippedUnits[l] + 0 /\ shippedUnits[l] \in Nat
    BY <2>1, ClaimWrites DEF NoUnits
  <2>. QED  BY <1>8, <2>2
<1>10. ASSUME NEW l \in LinesOf(o)
       PROVE  LineShape(l)'
  <2>1. /\ l \in Line /\ OrderOf[l] = o /\ LineShape(l)
        /\ Qty[l] \in Nat /\ shippedUnits[l] \in Nat /\ Left(l) = Qty[l] - shippedUnits[l]
        /\ Live(l) <=> itemStatus[l] # "cancelled"
    BY <1>1, LineNow
  <2>2. soStatus'[OrderOf[l]] = t /\ call' = call
    BY <1>4, <2>1, ClaimWrites
  <2>3. CASE Live(l)
    <3>1. itemStatus'[l] = t /\ t \in ProgressStatus /\ t # "cancelled"
      BY <1>3, <1>8, <2>3 DEF ProgressStatus
    <3>2. shippedUnits'[l] = (IF t = "shipped" THEN Qty[l] ELSE shippedUnits[l])
      BY <1>8, <2>1, <2>3
    <3>3. shippedUnits'[l] <= Qty[l]
      BY <2>1, <3>2 DEF LineShape
    <3>4. ASSUME Cancels(call, l), shippedUnits'[l] > 0
          PROVE  shippedUnits'[l] = Qty[l] /\ t \in FulfilledStatus
      <4>1. CASE t \in FulfilledStatus
        BY <2>1, <3>2, <3>4, <4>1 DEF LineShape
      <4>2. CASE t \notin FulfilledStatus
        <5>1. t = "processing" /\ s \notin FulfilledStatus /\ shippedUnits[l] > 0
          BY <1>6, <3>2, <3>4, <4>2
        <5>. QED  BY <1>3, <2>1, <3>4, <5>1 DEF LineShape
      <4>. QED  BY <4>1, <4>2
    <3>. QED  BY <2>2, <3>1, <3>3, <3>4 DEF LineShape
  <2>4. CASE ~Live(l)
    <3>1. itemStatus[l] = "cancelled" /\ itemStatus'[l] = "cancelled"
          /\ shippedUnits[l] = 0 /\ shippedUnits'[l] = 0 /\ s \notin {"pending", "processing"}
      BY <1>8, <2>1, <2>4 DEF LineShape
    <3>2. t \notin {"pending", "processing"}
      BY <1>3, <1>4, <1>5, <1>6, <3>1
         DEF SubStatus, LiveStatus, ProgressStatus, FulfilledStatus
    <3>. QED  BY <2>1, <2>2, <3>1, <3>2 DEF LineShape
  <2>. QED  BY <2>3, <2>4
<1>11. ASSUME NEW l \in LinesOf(o)
       PROVE  OpenUnits(l)' + todo[r][l] = OpenUnits(l)
  <2>1. OrderOf[l] = o /\ Left(l) \in Nat
    BY <1>1, LineNow
  <2>2. OpenUnits(l)' = IF ~Live(l) \/ t \in FulfilledStatus THEN 0 ELSE Left(l)'
    BY <1>4, <1>8, <2>1 DEF OpenUnits
  <2>3. OpenUnits(l) = IF ~Live(l) \/ s \in FulfilledStatus THEN 0 ELSE Left(l)
    BY <2>1 DEF OpenUnits
  <2>4. t \notin FulfilledStatus => Left(l)' = Left(l)
    <3>1. t \notin FulfilledStatus => shippedUnits'[l] = shippedUnits[l] + 0
      BY <1>8 DEF FulfilledStatus
    <3>2. shippedUnits[l] \in Nat
      BY <1>1, LineNow
    <3>. QED  BY <3>1, <3>2 DEF Left
  <2>. QED  BY <1>6, <1>8, <2>1, <2>2, <2>3, <2>4
<1>. QED  BY <1>4, <1>6, <1>7, <1>9, <1>10, <1>11 DEF ClaimGood

LEMMA FulfilClaim ==
  ASSUME Inv, NEW r \in Request, Claim(r), call[r].kind = "fulfil"
  PROVE  ClaimGood(r)
<1> DEFINE c == call[r]
           o == c.order
           s == soStatus[o]
           t == plan[r].newStatus
<1>1. TypeOK /\ CallsAsGiven /\ Shapes
  BY DEF Inv
<1>2. CurrentFulfil(r)
  BY ClaimWrites DEF Current
<1>3. /\ s \in {"pending", "processing", "partially_cancelled"}
      /\ t \in {"shipped", IF s = "pending" THEN "processing" ELSE s}
      /\ o \in Order /\ soStatus'[o] = t /\ plan[r].ship # NoUnits
      /\ shipments'[o] = shipments[o] + 1 /\ shipments[o] \in Nat
  BY <1>2, ClaimWrites DEF CurrentFulfil
<1>4. t \in SubStatus /\ Age(s) <= Age(t)
  BY <1>3 DEF SubStatus, LiveStatus, ProgressStatus, Age
<1>5. ASSUME NEW l \in LinesOf(o)
      PROVE  /\ todo[r][l] = c.units[l] /\ c.units[l] \in Nat
             /\ shippedUnits'[l] = shippedUnits[l] + c.units[l]
             /\ c.units[l] > 0 => Live(l)
             /\ c.units[l] <= Left(l)
             /\ ~Live(l) => itemStatus'[l] = itemStatus[l]
             /\ Live(l) /\ t = "shipped" => c.units[l] = Left(l)
             /\ Live(l) => IF c.units[l] = Left(l) THEN itemStatus'[l] = "shipped"
                           ELSE itemStatus'[l] \in {"processing", itemStatus[l]}
             /\ Live(l)' <=> Live(l)
  <2>1. l \in Line /\ c.units[l] \in Nat
    BY <1>1, CallFacts DEF LinesOf
  <2>2. /\ todo[r][l] = c.units[l] /\ plan[r].ship[l] = c.units[l]
        /\ c.units[l] > 0 => Live(l) /\ c.units[l] <= Left(l)
        /\ ~Live(l) => plan[r].items[l] = AsIs
        /\ Live(l) /\ t = "shipped" => c.units[l] >= Left(l)
        /\ Live(l) => IF c.units[l] >= Left(l) THEN plan[r].items[l] = "shipped"
                      ELSE plan[r].items[l] \in {"processing", AsIs}
    BY <1>2 DEF CurrentFulfil
  <2>3. /\ itemStatus'[l] = IF plan[r].items[l] = AsIs THEN itemStatus[l] ELSE plan[r].items[l]
        /\ shippedUnits'[l] = shippedUnits[l] + plan[r].ship[l]
    BY <2>1, ClaimWrites
  <2>4. Left(l) \in Nat
    BY <1>1, LineNow
  <2>5. c.units[l] <= Left(l)
    BY <2>1, <2>2, <2>4
  <2>6. /\ ~Live(l) => itemStatus'[l] = itemStatus[l]
        /\ Live(l) => IF c.units[l] = Left(l) THEN itemStatus'[l] = "shipped"
                      ELSE itemStatus'[l] \in {"processing", itemStatus[l]}
    BY <2>1, <2>2, <2>3, <2>4, <2>5 DEF AsIs
  <2>7. Live(l)' <=> Live(l)
    BY <2>6 DEF Live, DeadStatus
  <2>. QED  BY <2>1, <2>2, <2>3, <2>4, <2>5, <2>6, <2>7
<1>6. OrderShape(o)'
  <2>1. ASSUME t = "partially_cancelled"
        PROVE  \E q \in Request : PartGone(o, q)'
    <3>1. PICK q \in Request : PartGone(o, q)
      BY <1>1, <1>3, <2>1 DEF Shapes, OrderShape
    <3>2. q # r /\ pc'[q] = pc[q] /\ call' = call
      BY <3>1, ClaimWrites DEF PartGone
    <3>3. ASSUME NEW l \in call[q].lines
          PROVE  itemStatus'[l] = "cancelled"
      <4>1. l \in LinesOf(o) /\ itemStatus[l] = "cancelled"
        BY <1>1, <3>1, CallFacts DEF PartGone
      <4>. QED  BY <1>5, <4>1 DEF Live, DeadStatus
    <3>. QED  BY <3>1, <3>2, <3>3 DEF PartGone, LinesOf
  <2>2. call' = call
    BY ClaimWrites
  <2>. QED  BY <1>3, <1>4, <2>1, <2>2 DEF OrderShape
<1>7. ASSUME NEW l \in LinesOf(o)
      PROVE  LineShape(l)'
  <2>1. /\ l \in Line /\ OrderOf[l] = o /\ LineShape(l) /\ Left(l) \in Nat
        /\ Qty[l] \in Nat /\ Qty[l] > 0 /\ shippedUnits[l] \in Nat /\ Left(l) = Qty[l] - shippedUnits[l]
        /\ Live(l) <=> itemStatus[l] # "cancelled"
    BY <1>1, LineNow
  <2>2. soStatus'[OrderOf[l]] = t /\ call' = call /\ t # "cancelled"
    BY <1>3, <2>1, ClaimWrites
  <2>3. shippedUnits'[l] <= Qty[l]
    BY <1>5, <2>1
  <2>4. CASE Live(l)
    <3>1. itemStatus'[l] \in ProgressStatus /\ itemStatus'[l] # "cancelled"
      BY <1>5, <2>1, <2>4 DEF LineShape, ProgressStatus
    <3>2. t \in FulfilledStatus => itemStatus'[l] = "shipped"
      BY <1>3, <1>5, <2>4 DEF FulfilledStatus
    <3>3. ASSUME Cancels(call, l), shippedUnits'[l] > 0
          PROVE  shippedUnits'[l] = Qty[l] /\ itemStatus'[l] = "shipped"
      <4>1. c.units[l] \in {0, Qty[l]}
        BY <1>1, <2>1, <3>3, OnePiece
      <4>2. CASE c.units[l] = 0
        <5>1. shippedUnits'[l] = shippedUnits[l]
          BY <1>5, <2>1, <4>2
        <5>2. shippedUnits[l] = Qty[l]
          BY <2>1, <3>3, <5>1 DEF LineShape
        <5>3. Left(l) = 0
          BY <2>1, <5>2
        <5>. QED  BY <1>5, <2>4, <4>2, <5>1, <5>2, <5>3
      <4>3. CASE c.units[l] = Qty[l]
        <5>1. shippedUnits[l] = 0 /\ Left(l) = Qty[l]
          BY <1>5, <2>1, <4>3
        <5>. QED  BY <1>5, <2>1, <2>4, <4>3, <5>1
      <4>. QED  BY <4>1, <4>2, <4>3
    <3>4. ASSUME Cancels(call, l), NEW q \in Request, SendsBack(call[q]), call[q].order = o
          PROVE  FALSE
      BY <1>1, <3>4, TogetherFacts
    <3>. QED  BY <2>1, <2>2, <2>3, <3>1, <3>2, <3>3, <3>4 DEF LineShape, FulfilledStatus
  <2>5. CASE ~Live(l)
    <3>1. /\ itemStatus[l] = "cancelled" /\ itemStatus'[l] = "cancelled" /\ c.units[l] = 0
          /\ shippedUnits[l] = 0 /\ s \notin {"pending", "processing"}
      BY <1>5, <2>1, <2>5 DEF LineShape
    <3>2. shippedUnits'[l] = 0
      BY <1>5, <3>1
    <3>3. t \notin {"pending", "processing"}
      BY <1>3, <3>1
    <3>. QED  BY <2>1, <2>2, <3>1, <3>2, <3>3 DEF LineShape
  <2>. QED  BY <2>4, <2>5
<1>8. ASSUME NEW l \in LinesOf(o)
      PROVE  OpenUnits(l)' + todo[r][l] = OpenUnits(l)
  <2>1. OrderOf[l] = o /\ Left(l) \in Nat /\ Qty[l] \in Nat /\ shippedUnits[l] \in Nat
        /\ Left(l) = Qty[l] - shippedUnits[l]
    BY <1>1, LineNow
  <2>2. OpenUnits(l)' = IF ~Live(l) \/ t \in FulfilledStatus THEN 0 ELSE Left(l)'
    BY <1>3, <1>5, <2>1 DEF OpenUnits
  <2>3. OpenUnits(l) = IF Live(l) THEN Left(l) ELSE 0
    BY <1>3, <2>1 DEF OpenUnits, FulfilledStatus
  <2>4. Left(l)' = Left(l) - c.units[l]
    BY <1>5, <2>1 DEF Left
  <2>5. t \in FulfilledStatus => t = "shipped"
    BY <1>3 DEF FulfilledStatus
  <2>. QED  BY <1>5, <2>1, <2>2, <2>3, <2>4, <2>5
<1>9. shipments'[o] # shipments[o]
  BY <1>3
<1>. QED  BY <1>3, <1>4, <1>6, <1>7, <1>8, <1>9 DEF ClaimGood

LEMMA CancelClaim ==
  ASSUME Inv, NEW r \in Request, Claim(r), call[r].kind = "cancel"
  PROVE  ClaimGood(r)
<1> DEFINE c == call[r]
           o == c.order
           s == soStatus[o]
           t == plan[r].newStatus
<1>1. TypeOK /\ CallsAsGiven /\ Shapes
  BY DEF Inv
<1>2. CurrentCancel(r)
  BY ClaimWrites DEF Current
<1>3. /\ s \notin FulfilledStatus \cup {"cancelled"} /\ s \in SubStatus
      /\ o \in Order /\ soStatus'[o] = t /\ t \in {"cancelled", "partially_cancelled"}
      /\ t = "cancelled" <=> \A l \in LinesOf(o) : l \in c.lines \/ itemStatus[l] = "cancelled"
  BY <1>2, ClaimWrites DEF CurrentCancel
<1>4. c.lines \subseteq LinesOf(o) /\ c.lines # {}
  BY <1>1, CallFacts
<1>5. s = "partially_cancelled" => t = "cancelled"
  <2>1. SUFFICES ASSUME s = "partially_cancelled"
                 PROVE  t = "cancelled"
    OBVIOUS
  <2>2. PICK q \in Request : PartGone(o, q)
    BY <1>1, <1>3, <2>1 DEF Shapes, OrderShape
  <2>3. q # r
    BY <2>2, ClaimWrites DEF PartGone
  <2>4. \A l \in c.lines : itemStatus[l] # "cancelled"
    BY <1>2, <1>4 DEF CurrentCancel
  <2>5. c.lines \cup call[q].lines = LinesOf(o)
    BY <1>1, <2>2, <2>3, <2>4, TogetherFacts DEF PartGone
  <2>. QED  BY <1>3, <2>2, <2>5 DEF PartGone
<1>6. Age(s) <= Age(t) /\ t # s
  <2>1. s \in {"pending", "processing", "partially_cancelled"}
    BY <1>3 DEF SubStatus, LiveStatus, ProgressStatus, FulfilledStatus
  <2>. QED  BY <1>3, <1>5, <2>1 DEF Age
<1>7. ASSUME NEW l \in c.lines
      PROVE  /\ itemStatus'[l] = "cancelled" /\ shippedUnits[l] = 0 /\ shippedUnits'[l] = 0
             /\ Live(l) /\ todo[r][l] = Qty[l]
  <2>1. l \in LinesOf(o) /\ l \in Line /\ LineShape(l) /\ shippedUnits[l] \in Nat
        /\ (Live(l) <=> itemStatus[l] # "cancelled")
    BY <1>1, <1>4, LineNow
  <2>2. /\ itemStatus[l] \notin FulfilledStatus \cup {"cancelled"}
        /\ plan[r].items[l] = "cancelled" /\ plan[r].ship[l] = 0 /\ todo[r][l] = Qty[l]
    BY <1>2, <2>1 DEF CurrentCancel
  <2>3. Cancels(call, l)
    BY DEF Cancels
  <2>4. shippedUnits[l] = 0
    BY <2>1, <2>2, <2>3 DEF LineShape
  <2>5. itemStatus'[l] = "cancelled" /\ shippedUnits'[l] = shippedUnits[l] + 0
    BY <2>1, <2>2, ClaimWrites DEF AsIs
  <2>. QED  BY <2>1, <2>2, <2>4, <2>5
<1>8. ASSUME NEW l \in LinesOf(o) \ c.lines
      PROVE  /\ itemStatus'[l] = itemStatus[l] /\ shippedUnits'[l] = shippedUnits[l]
             /\ todo[r][l] = 0
  <2>1. l \in Line /\ shippedUnits[l] \in Nat
    BY <1>1, LineNow
  <2>2. plan[r].items[l] = AsIs /\ plan[r].ship[l] = 0 /\ todo[r][l] = 0
    BY <1>2 DEF CurrentCancel
  <2>3. itemStatus'[l] = itemStatus[l] /\ shippedUnits'[l] = shippedUnits[l] + 0
    BY <2>1, <2>2, ClaimWrites
  <2>. QED  BY <2>1, <2>2, <2>3
<1>9. OrderShape(o)'
  <2>1. ASSUME t = "partially_cancelled"
        PROVE  PartGone(o, r)'
    <3>1. c.lines # LinesOf(o)
      BY <1>3, <2>1
    <3>2. pc'[r] = "moving" /\ call' = call
      BY ClaimWrites
    <3>. QED  BY <1>7, <3>1, <3>2 DEF PartGone, LinesOf
  <2>2. call' = call
    BY ClaimWrites
  <2>. QED  BY <1>3, <2>1, <2>2 DEF OrderShape, SubStatus, LiveStatus
<1>10. ASSUME NEW l \in LinesOf(o)
       PROVE  /\ LineShape(l)'
              /\ OpenUnits(l)' + todo[r][l] = OpenUnits(l)
  <2>1. /\ l \in Line /\ OrderOf[l] = o /\ LineShape(l) /\ Left(l) \in Nat
        /\ Qty[l] \in Nat /\ Qty[l] > 0 /\ shippedUnits[l] \in Nat /\ Left(l) = Qty[l] - shippedUnits[l]
        /\ Live(l) <=> itemStatus[l] # "cancelled"
    BY <1>1, LineNow
  <2>2. soStatus'[OrderOf[l]] = t /\ call' = call /\ t \notin FulfilledStatus
        /\ t \notin {"pending", "processing"}
    BY <1>3, <2>1, ClaimWrites DEF FulfilledStatus
  <2>3. CASE l \in c.lines
    <3>1. LineShape(l)'
      BY <1>7, <2>1, <2>2, <2>3 DEF LineShape
    <3>2. OpenUnits(l)' = 0
      BY <1>7, <2>3 DEF OpenUnits, Live, DeadStatus
    <3>3. OpenUnits(l) = Qty[l]
      BY <1>3, <1>7, <2>1, <2>3 DEF OpenUnits
    <3>. QED  BY <1>7, <2>1, <2>3, <3>1, <3>2, <3>3
  <2>4. CASE l \notin c.lines
    <3>1. itemStatus'[l] = itemStatus[l] /\ shippedUnits'[l] = shippedUnits[l] /\ todo[r][l] = 0
      BY <1>8, <2>4
    <3>2. ASSUME NEW q \in Request, SendsBack(call[q]), call[q].order = o
          PROVE  FALSE
      BY <1>1, <2>4, <3>2, TogetherFacts
    <3>3. t = "cancelled" => itemStatus[l] = "cancelled"
      BY <1>3, <2>4
    <3>4. LineShape(l)'
      BY <2>1, <2>2, <3>1, <3>2, <3>3 DEF LineShape
    <3>5. OpenUnits(l)' = OpenUnits(l)
      BY <1>3, <2>1, <2>2, <3>1 DEF OpenUnits, Live, Left
    <3>6. OpenUnits(l) \in Nat
      BY <2>1 DEF OpenUnits
    <3>. QED  BY <3>1, <3>4, <3>5, <3>6
  <2>. QED  BY <2>3, <2>4
<1>. QED  BY <1>3, <1>6, <1>9, <1>10 DEF ClaimGood

(* No stock is moved ahead of an order on which no payment is recorded by  *)
(* hand.                                                                   *)
LEMMA NotAhead ==
  ASSUME CallsAsGiven, NEW r \in Request, call[r].kind # "mark_paid",
         NEW l \in Line, OrderOf[l] = call[r].order
  PROVE  ~MovedAhead(l)
<1>1. ASSUME NEW q \in Request, call[q].kind = "mark_paid", call[q].order = call[r].order
      PROVE  FALSE
  BY <1>1, TogetherFacts
<1>. QED  BY <1>1 DEF MovedAhead

(* A claim moves bookings from the order to the request, none to another.  *)
LEMMA ClaimBookings ==
  ASSUME Inv, TypeOK', NEW r \in Request, Claim(r), NEW l \in Line
  PROVE  Booked(l)' = Booked(l)
<1> DEFINE o == call[r].order
<1>1. TypeOK /\ CallsAsGiven /\ Untouched /\ OwnLines
  BY DEF Inv
<1>2. ClaimGood(r)
  BY ClaimWrites, StatusClaim, FulfilClaim, CancelClaim
<1>3. /\ o \in Order /\ pc[r] = "claiming" /\ pc'[r] = "moving" /\ call[r].kind # "mark_paid"
      /\ UNCHANGED <<call, plan, todo>> /\ \A q \in Request \ {r} : pc'[q] = pc[q]
  BY ClaimWrites
<1>4. placement' = placement /\ reserved' = reserved
  BY DEF Claim, checkoutVars
<1>5. /\ Flying(l) \in [Request -> Nat] /\ InFlight(l) = Tally(Flying(l)) /\ InFlight(l) \in Nat
      /\ Flying(l)' \in [Request -> Nat] /\ InFlight(l)' = Tally(Flying(l)')
      /\ InFlight(l)' \in Nat
  BY <1>1, FlyingFacts, FlyingFactsNext
<1> DEFINE g == [p \in Request |-> IF pc'[p] = "moving" /\ call'[p].kind # "mark_paid"
                                   THEN todo'[p][l] ELSE 0]
<1>6. Flying(l)' = g
  BY DEF Flying
<1>7. /\ \A p \in Request \ {r} : g[p] = Flying(l)[p]
      /\ Flying(l)[r] = 0 /\ g[r] = todo[r][l] /\ todo[r][l] \in Nat
  BY <1>1, <1>3 DEF Flying, TypeOK
<1>8. Tally(g) = Tally(Flying(l)) - Flying(l)[r] + g[r]
  <2> HIDE DEF g
  <2>. QED  BY <1>5, <1>6, <1>7, TallyChange, ShopAssumption
<1>9. InFlight(l)' = InFlight(l) + todo[r][l]
  BY <1>5, <1>6, <1>7, <1>8
<1>10. MovedAhead(l)' <=> MovedAhead(l)
  BY <1>3, AheadStays
<1>11. CASE OrderOf[l] = o
  <2>1. OpenUnits(l)' + todo[r][l] = OpenUnits(l)
    BY <1>2, <1>11 DEF ClaimGood, LinesOf
  <2>2. Open(l) = OpenUnits(l) /\ Open(l)' = OpenUnits(l)'
    BY <1>1, <1>3, <1>10, <1>11, NotAhead DEF Open, OpenUnits
  <2>3. OpenUnits(l) \in Nat /\ OpenUnits(l)' \in Nat
    BY <1>1, <2>2, BookedFacts, BookedFactsNext
  <2>4. placement[o] = "placed"
    BY <1>1, <1>3 DEF Untouched
  <2>5. Booked(l) = OpenUnits(l) + InFlight(l) /\ Booked(l)' = OpenUnits(l)' + InFlight(l)'
    BY <1>4, <1>11, <2>2, <2>4 DEF Booked
  <2>. QED  BY <1>5, <1>7, <1>9, <2>1, <2>3, <2>5
<1>12. CASE OrderOf[l] # o
  <2>1. todo[r][l] = 0 /\ OrderOf[l] \in Order
    BY <1>1, <1>12, LineFacts DEF OwnLines
  <2>2. InFlight(l)' = InFlight(l)
    BY <1>5, <1>9, <2>1
  <2>3. /\ soStatus'[OrderOf[l]] = soStatus[OrderOf[l]]
        /\ itemStatus'[l] = itemStatus[l] /\ shippedUnits'[l] = shippedUnits[l]
    BY <1>12, <2>1, ClaimWrites
  <2>4. Open(l)' = Open(l)
    BY <1>10, <2>3 DEF Open, Live, Left
  <2>. QED  BY <1>4, <2>2, <2>4 DEF Booked
<1>. QED  BY <1>11, <1>12

(* A claim keeps the invariant.                                            *)
LEMMA ClaimKeepsInv ==
  ASSUME Inv, NEW r \in Request, Claim(r), TypeOK'
  PROVE  Inv'
<1> DEFINE o == call[r].order
<1>1. TypeOK /\ CallsAsGiven /\ Untouched /\ OwnLines /\ Shapes /\ Plans /\ Payments /\ ReservationExact
  BY DEF Inv
<1>2. ClaimGood(r)
  BY ClaimWrites, StatusClaim, FulfilClaim, CancelClaim
<1>3. /\ o \in Order /\ pc[r] = "claiming" /\ pc'[r] = "moving" /\ call[r].kind # "mark_paid"
      /\ UNCHANGED <<call, plan, todo>> /\ \A q \in Request \ {r} : pc'[q] = pc[q]
  BY ClaimWrites
<1>4. UNCHANGED <<stock, committed, placement, reserved, corrected>>
  BY DEF Claim, variantVars, checkoutVars
<1>5. placement[o] = "placed"
  BY <1>1, <1>3 DEF Untouched
<1>6. CallsAsGiven' /\ OwnLines'
  BY <1>1, <1>3 DEF CallsAsGiven, OwnLines
<1>7. ASSUME NEW q \in Order \ {o}
      PROVE  /\ soStatus'[q] = soStatus[q] /\ shipments'[q] = shipments[q]
             /\ updatedAt'[q] = updatedAt[q]
             /\ \A l \in LinesOf(q) : /\ itemStatus'[l] = itemStatus[l]
                                      /\ shippedUnits'[l] = shippedUnits[l]
  BY ClaimWrites DEF LinesOf
<1>8. Untouched'
  <2>1. ASSUME NEW q \in Order, placement'[q] # "placed"
        PROVE  /\ soStatus'[q] = "pending"
               /\ \A l \in LinesOf(q) : itemStatus'[l] = "pending" /\ shippedUnits'[l] = 0
               /\ \A p \in Request : call'[p].order = q => pc'[p] = "idle"
    <3>1. q # o /\ placement[q] # "placed"
      BY <1>4, <1>5, <2>1
    <3>2. /\ soStatus[q] = "pending"
          /\ \A l \in LinesOf(q) : itemStatus[l] = "pending" /\ shippedUnits[l] = 0
          /\ \A p \in Request : call[p].order = q => pc[p] = "idle"
      BY <1>1, <3>1 DEF Untouched
    <3>. QED  BY <1>3, <1>7, <3>1, <3>2
  <2>. QED  BY <2>1 DEF Untouched, LinesOf
<1>9. Shapes'
  <2>1. ASSUME NEW q \in Order
        PROVE  OrderShape(q)'
    <3>1. CASE q = o
      BY <1>2, <1>3, <3>1 DEF ClaimGood
    <3>2. CASE q # o
      <4>1. OrderShape(q) /\ soStatus'[q] = soStatus[q]
        BY <1>1, <1>7, <3>2 DEF Shapes
      <4>2. ASSUME NEW p \in Request, PartGone(q, p)
            PROVE  PartGone(q, p)'
        <5>1. p # r /\ pc'[p] = pc[p]
          BY <1>3, <4>2 DEF PartGone
        <5>2. \A l \in call[p].lines : itemStatus'[l] = itemStatus[l]
          BY <1>1, <1>7, <3>2, <4>2, CallFacts DEF PartGone
        <5>. QED  BY <1>3, <4>2, <5>1, <5>2 DEF PartGone, LinesOf
      <4>. QED  BY <4>1, <4>2 DEF OrderShape
    <3>. QED  BY <3>1, <3>2
  <2>2. ASSUME NEW l \in Line
        PROVE  LineShape(l)'
    <3>1. CASE OrderOf[l] = o
      BY <1>2, <3>1 DEF ClaimGood, LinesOf
    <3>2. CASE OrderOf[l] # o
      <4>1. OrderOf[l] \in Order /\ l \in LinesOf(OrderOf[l])
        BY LineFacts DEF LinesOf
      <4>2. /\ soStatus'[OrderOf[l]] = soStatus[OrderOf[l]]
            /\ itemStatus'[l] = itemStatus[l] /\ shippedUnits'[l] = shippedUnits[l]
        BY <1>7, <3>2, <4>1
      <4>. QED  BY <1>1, <1>3, <4>2 DEF Shapes, LineShape
    <3>. QED  BY <3>1, <3>2
  <2>. QED  BY <2>1, <2>2 DEF Shapes
<1>10. ASSUME NEW q \in Order
       PROVE  OrderMovesOn(q)
  <2>1. CASE q = o
    <3>1. /\ updatedAt[o] \in Nat /\ updatedAt'[o] = updatedAt[o] + 1
          /\ shipments[o] \in Nat /\ shipments'[o] \in {shipments[o], shipments[o] + 1}
      BY ClaimWrites
    <3>. QED  BY <1>2, <2>1, <3>1 DEF OrderMovesOn, ClaimGood
  <2>2. CASE q # o
    <3>1. soStatus[q] \in SubStatus /\ shipments[q] \in Nat /\ updatedAt[q] \in Nat
      BY <1>1 DEF Shapes, OrderShape, TypeOK
    <3>. QED  BY <1>7, <2>2, <3>1, AgeFacts DEF OrderMovesOn, Live
  <2>. QED  BY <2>1, <2>2
<1>11. Plans'
  <2>1. ASSUME NEW p \in Request, pc'[p] = "claiming"
        PROVE  call'[p].kind # "mark_paid" /\ Claimable(p)'
    <3>1. p # r /\ pc[p] = "claiming" /\ call[p].order \in Order
      BY <1>1, <1>3, <2>1, CallFacts
    <3>2. call[p].kind # "mark_paid" /\ Claimable(p)
      BY <1>1, <3>1 DEF Plans
    <3>. QED  BY <1>1, <1>3, <1>9, <1>10, <3>1, <3>2, PlanStaysCurrent
  <2>. QED  BY <2>1 DEF Plans
<1>12. Payments'
  <2>1. \A l \in Line : OrderOf[l] # o => itemStatus'[l] = itemStatus[l] /\ shippedUnits'[l] = shippedUnits[l]
    BY ClaimWrites
  <2>. QED  BY <1>1, <1>3, <1>7, <2>1, PaymentsStay
<1>13. ReservationExact'
  BY <1>1, <1>4, ClaimBookings, SameBookings
<1>. QED  BY <1>6, <1>8, <1>9, <1>11, <1>12, <1>13 DEF Inv

(* What a request does once it has claimed, or lost, its order disturbs    *)
(* neither the other requests nor what the order says of its lines.        *)
LEMMA WindingDown ==
  ASSUME Inv, TypeOK', NEW r \in Request, pc[r] # "idle",
         UNCHANGED <<placement, call, soStatus, shipments, itemStatus, shippedUnits>>,
         pc'[r] \in {"moving", "done"},
         \A q \in Request \ {r} : pc'[q] = pc[q] /\ plan'[q] = plan[q] /\ todo'[q] = todo[q],
         \A l \in Line : OrderOf[l] # call[r].order =>
           todo'[r][l] = 0 /\ plan'[r].items[l] = AsIs /\ plan'[r].ship[l] = 0,
         call[r].kind = "mark_paid" => ByHand(r)',
         \A o \in Order : updatedAt[o] <= updatedAt'[o]
  PROVE  CallsAsGiven' /\ Untouched' /\ OwnLines' /\ Shapes' /\ Plans' /\ Payments'
<1>1. TypeOK /\ CallsAsGiven /\ Untouched /\ OwnLines /\ Shapes /\ Plans /\ Payments
  BY DEF Inv
<1>2. CallsAsGiven'
  BY <1>1 DEF CallsAsGiven
<1>3. Shapes'
  <2>1. \A q \in Request : pc[q] \in {"moving", "done"} => pc'[q] \in {"moving", "done"}
    OBVIOUS
  <2>. QED  BY <1>1, <2>1, ShapesStay
<1>4. Untouched'
  BY <1>1 DEF Untouched
<1>5. OwnLines'
  BY <1>1 DEF OwnLines
<1>6. \A o \in Order : OrderMovesOn(o)
  <2>1. \A o \in Order : shipments[o] \in Nat /\ Age(soStatus[o]) \in Nat
    BY <1>1, AgeFacts DEF TypeOK, Shapes, OrderShape
  <2>. QED  BY <2>1 DEF OrderMovesOn, Live
<1>7. ASSUME NEW q \in Request \ {r}, pc[q] = "claiming"
      PROVE  call[q].kind # "mark_paid" /\ Claimable(q)'
  <2>1. Claimable(q) /\ call[q].order \in Order /\ call[q].kind # "mark_paid"
    BY <1>1, <1>7, CallFacts DEF Plans
  <2>. QED  BY <1>1, <1>3, <1>6, <2>1, PlanStaysCurrent
<1>8. Plans'
  BY <1>7 DEF Plans
<1>9. Payments'
  BY <1>1, PaymentsStay
<1>. QED  BY <1>2, <1>3, <1>4, <1>5, <1>8, <1>9

(* A lost claim, and the last write of a handler that has moved its stock. *)
LEMMA ReturnStep ==
  ASSUME Inv, NEW r \in Request, LoseClaim(r) \/ WriteTimeline(r)
  PROVE  /\ UNCHANGED <<placement, call, soStatus, shipments, itemStatus, shippedUnits>>
         /\ UNCHANGED <<stock, committed, reserved, corrected>>
         /\ pc[r] \in {"claiming", "moving"} /\ call[r].kind # "mark_paid"
         /\ pc[r] = "moving" => todo[r] = NoUnits
         /\ pc'[r] = "done" /\ todo'[r] = NoUnits /\ plan'[r] = NoPlan
         /\ \A q \in Request \ {r} : pc'[q] = pc[q] /\ plan'[q] = plan[q] /\ todo'[q] = todo[q]
<1>1. TypeOK /\ Plans
  BY DEF Inv
<1>2. /\ UNCHANGED <<placement, call, soStatus, shipments, itemStatus, shippedUnits>>
      /\ UNCHANGED <<stock, committed, reserved, corrected>>
      /\ pc[r] \in {"claiming", "moving"} /\ Return(r)
      /\ pc[r] = "moving" => todo[r] = NoUnits /\ call[r].kind # "mark_paid"
  BY DEF LoseClaim, WriteTimeline, variantVars, checkoutVars, orderVars
<1>3. call[r].kind # "mark_paid"
  BY <1>1, <1>2 DEF Plans
<1>4. /\ pc'[r] = "done" /\ todo'[r] = NoUnits /\ plan'[r] = NoPlan
      /\ \A q \in Request \ {r} : pc'[q] = pc[q] /\ plan'[q] = plan[q] /\ todo'[q] = todo[q]
  BY <1>1, <1>2 DEF Return, TypeOK
<1>. QED  BY <1>2, <1>3, <1>4

LEMMA ReturnBookings ==
  ASSUME Inv, NEW r \in Request, LoseClaim(r) \/ WriteTimeline(r), NEW l \in Line
  PROVE  Booked(l)' = Booked(l)
<1>1. /\ UNCHANGED <<placement, call, soStatus, shipments, itemStatus, shippedUnits>>
      /\ reserved' = reserved
      /\ pc[r] \in {"claiming", "moving"} /\ call[r].kind # "mark_paid"
      /\ pc[r] = "moving" => todo[r] = NoUnits
      /\ pc'[r] = "done" /\ todo'[r] = NoUnits
      /\ \A q \in Request \ {r} : pc'[q] = pc[q] /\ plan'[q] = plan[q] /\ todo'[q] = todo[q]
  BY ReturnStep
<1>2. InFlight(l)' = InFlight(l)
  BY <1>1 DEF InFlight, NoUnits
<1>3. MovedAhead(l)' <=> MovedAhead(l)
  BY <1>1, AheadStays
<1>. QED  BY <1>1, <1>2, <1>3 DEF Booked, Open, Live, Left

LEMMA ReturnKeepsInv ==
  ASSUME Inv, TypeOK', NEW r \in Request, LoseClaim(r) \/ WriteTimeline(r)
  PROVE  Inv'
<1>1. TypeOK /\ ReservationExact
  BY DEF Inv
<1>2. /\ UNCHANGED <<placement, call, soStatus, shipments, itemStatus, shippedUnits>>
      /\ committed' = committed
      /\ pc[r] \in {"claiming", "moving"} /\ call[r].kind # "mark_paid"
      /\ pc'[r] = "done" /\ todo'[r] = NoUnits /\ plan'[r] = NoPlan
      /\ \A q \in Request \ {r} : pc'[q] = pc[q] /\ plan'[q] = plan[q] /\ todo'[q] = todo[q]
  BY ReturnStep
<1>3. \A o \in Order : updatedAt[o] <= updatedAt'[o]
  <2>1. updatedAt \in [Order -> Nat]
    BY <1>1 DEF TypeOK
  <2>2. updatedAt' = updatedAt \/ updatedAt' = [updatedAt EXCEPT ![call[r].order] = @ + 1]
    BY DEF LoseClaim, WriteTimeline, orderVars
  <2>3. ASSUME NEW o \in Order
        PROVE  updatedAt'[o] = updatedAt[o] \/ updatedAt'[o] = updatedAt[o] + 1
    BY <2>1, <2>2
  <2>. QED  BY <2>1, <2>3
<1>4. \A l \in Line : todo'[r][l] = 0 /\ plan'[r].items[l] = AsIs /\ plan'[r].ship[l] = 0
  BY <1>2 DEF NoPlan, NoUnits
<1>5. CallsAsGiven' /\ Untouched' /\ OwnLines' /\ Shapes' /\ Plans' /\ Payments'
  BY <1>2, <1>3, <1>4, WindingDown
<1>6. ReservationExact'
  BY <1>1, <1>2, ReturnBookings, SameBookings
<1>. QED  BY <1>5, <1>6 DEF Inv

(* The payment is noted in the timeline; its stock is yet to be moved.     *)
LEMMA NoteStep ==
  ASSUME Inv, NEW r \in Request, NotePayment(r)
  PROVE  /\ UNCHANGED <<placement, reserved, call, plan, todo>>
         /\ UNCHANGED <<soStatus, shipments, itemStatus, shippedUnits>>
         /\ UNCHANGED <<stock, committed, corrected>>
         /\ pc[r] = "noting" /\ pc'[r] = "moving" /\ call[r].kind = "mark_paid" /\ ByHand(r)
         /\ \A q \in Request \ {r} : pc'[q] = pc[q]
<1>1. TypeOK /\ Payments
  BY DEF Inv
<1>2. /\ UNCHANGED <<placement, reserved, call, plan, todo>>
      /\ UNCHANGED <<soStatus, shipments, itemStatus, shippedUnits>>
      /\ UNCHANGED <<stock, committed, corrected>>
      /\ pc[r] = "noting" /\ pc' = [pc EXCEPT ![r] = "moving"]
  BY DEF NotePayment, variantVars, checkoutVars
<1>. QED  BY <1>1, <1>2 DEF Payments, TypeOK

LEMMA NoteBookings ==
  ASSUME Inv, NEW r \in Request, NotePayment(r), NEW l \in Line
  PROVE  Booked(l)' = Booked(l)
<1>1. /\ UNCHANGED <<placement, reserved, call, plan, todo>>
      /\ UNCHANGED <<soStatus, shipments, itemStatus, shippedUnits>>
      /\ pc[r] = "noting" /\ pc'[r] = "moving" /\ call[r].kind = "mark_paid" /\ ByHand(r)
      /\ \A q \in Request \ {r} : pc'[q] = pc[q]
  BY NoteStep
<1>2. InFlight(l)' = InFlight(l)
  BY <1>1 DEF InFlight
<1>3. OrderOf[l] = call[r].order => todo[r][l] # 0
  BY <1>1, LineFacts DEF ByHand, LinesOf
<1>4. MovedAhead(l)' <=> MovedAhead(l)
  <2>1. ASSUME NEW q \in Request, q # r
        PROVE  pc'[q] = pc[q]
    BY <1>1, <2>1
  <2>. QED  BY <1>1, <1>3, <2>1 DEF MovedAhead
<1>. QED  BY <1>1, <1>2, <1>4 DEF Booked, Open, Live, Left

LEMMA NoteKeepsInv ==
  ASSUME Inv, TypeOK', NEW r \in Request, NotePayment(r)
  PROVE  Inv'
<1>1. TypeOK /\ OwnLines /\ ReservationExact
  BY DEF Inv
<1>2. /\ UNCHANGED <<placement, reserved, call, plan, todo>>
      /\ UNCHANGED <<soStatus, shipments, itemStatus, shippedUnits>>
      /\ committed' = committed
      /\ pc[r] = "noting" /\ pc'[r] = "moving" /\ call[r].kind = "mark_paid" /\ ByHand(r)
      /\ \A q \in Request \ {r} : pc'[q] = pc[q]
  BY NoteStep
<1>3. \A o \in Order : updatedAt[o] <= updatedAt'[o]
  <2>1. updatedAt \in [Order -> Nat]
    BY <1>1 DEF TypeOK
  <2>2. updatedAt' = [updatedAt EXCEPT ![call[r].order] = @ + 1]
    BY DEF NotePayment
  <2>3. ASSUME NEW o \in Order
        PROVE  updatedAt'[o] = updatedAt[o] \/ updatedAt'[o] = updatedAt[o] + 1
    BY <2>1, <2>2
  <2>. QED  BY <2>1, <2>3
<1>4. ByHand(r)'
  BY <1>2 DEF ByHand, LinesOf
<1>5. CallsAsGiven' /\ Untouched' /\ OwnLines' /\ Shapes' /\ Plans' /\ Payments'
  BY <1>1, <1>2, <1>3, <1>4, WindingDown DEF OwnLines
<1>6. ReservationExact'
  BY <1>1, <1>2, NoteBookings, SameBookings
<1>. QED  BY <1>5, <1>6 DEF Inv


(* Moving the stock of one line.                                           *)
LEMMA MoveStep ==
  ASSUME Inv, NEW r \in Request, NEW l \in Line, MoveLine(r, l)
  PROVE  /\ pc[r] = "moving" /\ todo[r][l] > 0 /\ todo[r][l] \in Nat /\ todo'[r][l] = 0
         /\ \A p \in Request, k \in Line : <<p, k>> # <<r, l>> => todo'[p][k] = todo[p][k]
         /\ UNCHANGED <<pc, call, plan, placement, reserved, corrected>>
         /\ UNCHANGED <<soStatus, shipments, updatedAt, isPaid, itemStatus, shippedUnits>>
         /\ OrderOf[l] = call[r].order /\ call[r].order \in Order
         /\ placement[OrderOf[l]] = "placed"
<1>1. TypeOK /\ CallsAsGiven /\ Untouched /\ OwnLines
  BY DEF Inv
<1>2. /\ pc[r] = "moving" /\ todo[r][l] > 0
      /\ todo' = [todo EXCEPT ![r] = [@ EXCEPT ![l] = 0]]
      /\ UNCHANGED <<pc, call, plan, placement, reserved, corrected>>
      /\ UNCHANGED <<soStatus, shipments, updatedAt, isPaid, itemStatus, shippedUnits>>
  BY DEF MoveLine, checkoutVars, orderVars
<1>3. /\ todo[r][l] \in Nat /\ todo'[r][l] = 0
      /\ \A p \in Request, k \in Line : <<p, k>> # <<r, l>> => todo'[p][k] = todo[p][k]
  BY <1>1, <1>2 DEF TypeOK
<1>4. OrderOf[l] = call[r].order /\ call[r].order \in Order
  BY <1>1, <1>2, CallFacts DEF OwnLines
<1>5. placement[OrderOf[l]] = "placed"
  BY <1>1, <1>2, <1>4 DEF Untouched
<1>. QED  BY <1>2, <1>3, <1>4, <1>5

(* Units claimed for a line that a request moves are in flight no more; a  *)
(* payment recorded by hand moves them before the order shows it.          *)
LEMMA ClaimedMove ==
  ASSUME Inv, TypeOK', NEW r \in Request, NEW l \in Line, MoveLine(r, l),
         call[r].kind # "mark_paid"
  PROVE  /\ InFlight(l)' + todo[r][l] = InFlight(l)
         /\ Open(l)' = Open(l)
<1> DEFINE q == todo[r][l]
           g == [p \in Request |-> IF pc'[p] = "moving" /\ call'[p].kind # "mark_paid"
                                   THEN todo'[p][l] ELSE 0]
<1>1. TypeOK /\ CallsAsGiven
  BY DEF Inv
<1>2. /\ pc[r] = "moving" /\ q \in Nat /\ todo'[r][l] = 0
      /\ \A p \in Request, k \in Line : <<p, k>> # <<r, l>> => todo'[p][k] = todo[p][k]
      /\ UNCHANGED <<pc, call, plan>>
      /\ UNCHANGED <<soStatus, itemStatus, shippedUnits>>
      /\ OrderOf[l] = call[r].order
  BY MoveStep
<1>3. /\ Flying(l) \in [Request -> Nat] /\ Flying(l)' \in [Request -> Nat]
      /\ InFlight(l) = Tally(Flying(l)) /\ InFlight(l)' = Tally(Flying(l)')
      /\ InFlight(l) \in Nat
  BY <1>1, FlyingFacts, FlyingFactsNext
<1>4. Flying(l)' = g
  BY DEF Flying
<1>5. Flying(l)[r] = q /\ g[r] = 0 /\ \A p \in Request \ {r} : g[p] = Flying(l)[p]
  BY <1>2 DEF Flying
<1>6. Tally(g) = Tally(Flying(l)) - Flying(l)[r] + g[r]
  <2>1. g \in [Request -> Nat] /\ Flying(l) \in [Request -> Nat]
    BY <1>3, <1>4
  <2> HIDE DEF g
  <2>. QED  BY <1>5, <2>1, TallyChange, ShopAssumption
<1>7. InFlight(l)' + q = InFlight(l)
  BY <1>2, <1>3, <1>4, <1>5, <1>6
<1>8. ~MovedAhead(l)
  BY <1>1, <1>2, NotAhead
<1>9. ~MovedAhead(l)'
  <2>1. \A p \in Request : call[p].order = call[r].order => call[p].kind # "mark_paid"
    BY <1>1, TogetherFacts
  <2>. QED  BY <1>2, <2>1 DEF MovedAhead
<1>10. Open(l)' = Open(l)
  BY <1>2, <1>8, <1>9 DEF Open, Live, Left
<1>. QED  BY <1>7, <1>10

LEMMA PaidMove ==
  ASSUME Inv, TypeOK', NEW r \in Request, NEW l \in Line, MoveLine(r, l),
         call[r].kind = "mark_paid"
  PROVE  /\ InFlight(l)' = InFlight(l)
         /\ Open(l)' + todo[r][l] = Open(l)
<1>1. TypeOK /\ CallsAsGiven /\ ByHand(r)
  BY DEF Inv, Payments
<1>2. /\ pc[r] = "moving" /\ todo[r][l] \in Nat /\ todo[r][l] > 0 /\ todo'[r][l] = 0
      /\ \A p \in Request, k \in Line : <<p, k>> # <<r, l>> => todo'[p][k] = todo[p][k]
      /\ UNCHANGED <<pc, call, plan>>
      /\ UNCHANGED <<soStatus, itemStatus, shippedUnits>>
      /\ OrderOf[l] = call[r].order
  BY MoveStep
<1>3. Flying(l)' = Flying(l)
  <2>1. \A p \in Request \ {r} : todo'[p][l] = todo[p][l]
    BY <1>2
  <2>. QED  BY <1>2, <2>1 DEF Flying
<1>4. InFlight(l)' = InFlight(l)
  BY <1>1, <1>3, FlyingFacts, FlyingFactsNext
<1>5. /\ soStatus[OrderOf[l]] = "pending" /\ itemStatus[l] = "pending" /\ shippedUnits[l] = 0
      /\ plan[r].status = "pending" /\ todo[r][l] = Qty[l]
  BY <1>1, <1>2 DEF ByHand, LinesOf
<1>6. ~MovedAhead(l)
  <2>1. ASSUME NEW p \in Request, call[p].kind = "mark_paid", call[p].order = call[r].order
        PROVE  p = r
    BY <1>1, <2>1, TogetherFacts
  <2>. QED  BY <1>2, <2>1 DEF MovedAhead
<1>7. MovedAhead(l)'
  <2>1. "pending" \notin FulfilledStatus
    BY DEF FulfilledStatus
  <2>. QED  BY <1>2, <1>5, <2>1 DEF MovedAhead
<1>8. Open(l) = Qty[l]
  BY <1>5, <1>6, LineFacts DEF Open, Live, Left, DeadStatus, FulfilledStatus
<1>9. Open(l)' = 0
  BY <1>7 DEF Open
<1>. QED  BY <1>2, <1>4, <1>5, <1>8, <1>9

(* The floor at zero is never what stops a move: the counter covers        *)
(* everything that is booked.                                              *)
LEMMA MoveBooking ==
  ASSUME Inv, TypeOK', NEW r \in Request, NEW l \in Line, MoveLine(r, l)
  PROVE  /\ todo[r][l] \in Nat /\ committed[VariantOf[l]] >= todo[r][l]
         /\ Booked(l)' = Booked(l) - todo[r][l]
         /\ \A k \in Line \ {l} : Booked(k)' = Booked(k)
<1>1. TypeOK /\ CallsAsGiven /\ ReservationExact
  BY DEF Inv
<1>2. /\ pc[r] = "moving" /\ todo[r][l] \in Nat
      /\ \A p \in Request, k \in Line : <<p, k>> # <<r, l>> => todo'[p][k] = todo[p][k]
      /\ UNCHANGED <<pc, call, plan, placement, reserved>>
      /\ UNCHANGED <<soStatus, itemStatus, shippedUnits>>
      /\ placement[OrderOf[l]] = "placed"
  BY MoveStep
<1>3. /\ Open(l) \in Nat /\ Open(l)' \in Nat /\ InFlight(l) \in Nat /\ InFlight(l)' \in Nat
      /\ Booked(l) \in Nat /\ Booked(l)' \in Nat
  BY <1>1, BookedFacts, BookedFactsNext, FlyingFacts, FlyingFactsNext
<1>4. Booked(l) = Open(l) + InFlight(l) /\ Booked(l)' = Open(l)' + InFlight(l)'
  BY <1>2 DEF Booked
<1>5. Booked(l)' + todo[r][l] = Booked(l)
  <2>1. CASE call[r].kind = "mark_paid"
    BY <1>2, <1>3, <1>4, <2>1, PaidMove
  <2>2. CASE call[r].kind # "mark_paid"
    BY <1>2, <1>3, <1>4, <2>2, ClaimedMove
  <2>. QED  BY <2>1, <2>2
<1>6. Booked(l) <= committed[VariantOf[l]] /\ committed[VariantOf[l]] \in Int
  BY <1>1, BookingCovered, LineFacts DEF TypeOK
<1>7. ASSUME NEW k \in Line \ {l}
      PROVE  Booked(k)' = Booked(k)
  <2>1. \A p \in Request : todo'[p][k] = todo[p][k]
    BY <1>2
  <2>2. InFlight(k)' = InFlight(k) /\ (MovedAhead(k)' <=> MovedAhead(k))
    BY <1>2, <2>1 DEF InFlight, MovedAhead
  <2>. QED  BY <1>2, <2>2 DEF Booked, Open, Live, Left
<1>. QED  BY <1>2, <1>3, <1>5, <1>6, <1>7

LEMMA MoveKeepsInv ==
  ASSUME Inv, TypeOK', NEW r \in Request, NEW l \in Line, MoveLine(r, l)
  PROVE  Inv'
<1> DEFINE v == VariantOf[l]
           q == todo[r][l]
<1>1. TypeOK /\ CallsAsGiven /\ OwnLines /\ Payments /\ ReservationExact
  BY DEF Inv
<1>2. /\ pc[r] = "moving" /\ todo'[r][l] = 0
      /\ \A p \in Request, k \in Line : <<p, k>> # <<r, l>> => todo'[p][k] = todo[p][k]
      /\ UNCHANGED <<pc, call, plan, placement, reserved>>
      /\ UNCHANGED <<soStatus, shipments, updatedAt, isPaid, itemStatus, shippedUnits>>
  BY MoveStep
<1>3. \A k \in Line : OrderOf[k] # call[r].order =>
        todo'[r][k] = 0 /\ plan'[r].items[k] = AsIs /\ plan'[r].ship[k] = 0
  BY <1>1, <1>2 DEF OwnLines
<1>4. \A p \in Request \ {r} : pc'[p] = pc[p] /\ plan'[p] = plan[p] /\ todo'[p] = todo[p]
  BY <1>1, <1>2 DEF MoveLine, TypeOK
<1>5. \A o \in Order : updatedAt[o] <= updatedAt'[o]
  BY <1>1, <1>2 DEF TypeOK
<1>6. call[r].kind = "mark_paid" => ByHand(r)'
  <2>. SUFFICES ASSUME call[r].kind = "mark_paid"
                PROVE  ByHand(r)'
    OBVIOUS
  <2>1. ByHand(r)
    BY <1>1 DEF Payments
  <2>2. \A k \in LinesOf(call[r].order) : todo'[r][k] \in {0, todo[r][k]}
    BY <1>2 DEF LinesOf
  <2>. QED  BY <1>2, <2>1, <2>2 DEF ByHand, LinesOf
<1>7. CallsAsGiven' /\ Untouched' /\ OwnLines' /\ Shapes' /\ Plans' /\ Payments'
  BY <1>2, <1>3, <1>4, <1>5, <1>6, WindingDown
<1>8. /\ q \in Nat /\ committed[v] >= q /\ Booked(l)' = Booked(l) - q
      /\ \A k \in Line \ {l} : Booked(k)' = Booked(k)
  BY MoveBooking
<1>9. committed[v] \in Int /\ v \in Variant /\ Booked(l) \in Nat
  BY <1>1, LineFacts, BookedFacts DEF TypeOK
<1>10. Less(committed[v], q) = (committed[v] - Booked(l)) + Booked(l)'
  BY <1>8, <1>9 DEF Less
<1>11. committed' = [committed EXCEPT ![v] = (@ - Booked(l)) + Booked(l)']
  BY <1>10 DEF MoveLine
<1>12. ReservationExact'
  BY <1>1, <1>8, <1>11, OneBooking
<1>. QED  BY <1>7, <1>12 DEF Inv

(* The last write of a payment recorded by hand.                           *)
LEMMA CompleteStep ==
  ASSUME Inv, NEW r \in Request, CompletePaid(r)
  PROVE  LET o == call[r].order IN
         /\ o \in Order /\ placement[o] = "placed" /\ call[r].kind = "mark_paid" /\ ByHand(r)
         /\ pc[r] = "moving" /\ todo[r] = NoUnits /\ soStatus[o] = "pending"
         /\ pc'[r] = "done" /\ todo'[r] = NoUnits /\ plan'[r] = NoPlan
         /\ \A q \in Request \ {r} : /\ pc'[q] = pc[q] /\ plan'[q] = plan[q] /\ todo'[q] = todo[q]
                                     /\ call[q].order # o
         /\ UNCHANGED <<call, placement, reserved, stock, committed, corrected>>
         /\ soStatus'[o] = "completed"
         /\ \A p \in Order \ {o} : /\ soStatus'[p] = soStatus[p] /\ shipments'[p] = shipments[p]
                                   /\ updatedAt'[p] = updatedAt[p]
         /\ \A l \in Line : IF OrderOf[l] = o
                            THEN /\ itemStatus[l] = "pending" /\ shippedUnits[l] = 0
                                 /\ itemStatus'[l] = "completed" /\ shippedUnits'[l] = 0
                            ELSE itemStatus'[l] = itemStatus[l] /\ shippedUnits'[l] = shippedUnits[l]
<1> DEFINE o == call[r].order
<1>1. TypeOK /\ CallsAsGiven /\ Untouched /\ OwnLines /\ Payments
  BY DEF Inv
<1>2. /\ pc[r] = "moving" /\ todo[r] = NoUnits /\ call[r].kind = "mark_paid"
      /\ WritePlan(r) /\ Return(r)
      /\ UNCHANGED <<call, placement, reserved, stock, committed, corrected>>
  BY DEF CompletePaid, variantVars, checkoutVars
<1>3. o \in Order /\ placement[o] = "placed"
  <2>1. o \in Order
    BY <1>1, CallFacts
  <2>. QED  BY <1>1, <1>2, <2>1 DEF Untouched
<1>4. ByHand(r)
  BY <1>1, <1>2 DEF Payments
<1>5. /\ soStatus[o] = "pending" /\ plan[r].newStatus = "completed"
      /\ \A l \in LinesOf(o) : /\ itemStatus[l] = "pending" /\ shippedUnits[l] = 0
                               /\ plan[r].items[l] = "completed" /\ plan[r].ship[l] = 0
  BY <1>2, <1>4 DEF ByHand
<1>6. /\ pc'[r] = "done" /\ todo'[r] = NoUnits /\ plan'[r] = NoPlan
      /\ \A q \in Request \ {r} : pc'[q] = pc[q] /\ plan'[q] = plan[q] /\ todo'[q] = todo[q]
  BY <1>1, <1>2 DEF Return, TypeOK
<1>7. \A q \in Request \ {r} : call[q].order # o
  BY <1>1, <1>2, TogetherFacts
<1>8. /\ soStatus'[o] = "completed"
      /\ \A p \in Order \ {o} : /\ soStatus'[p] = soStatus[p] /\ shipments'[p] = shipments[p]
                                /\ updatedAt'[p] = updatedAt[p]
  BY <1>1, <1>2, <1>3, <1>5 DEF WritePlan, TypeOK
<1>9. ASSUME NEW l \in Line
      PROVE  IF OrderOf[l] = o
             THEN /\ itemStatus[l] = "pending" /\ shippedUnits[l] = 0
                  /\ itemStatus'[l] = "completed" /\ shippedUnits'[l] = 0
             ELSE itemStatus'[l] = itemStatus[l] /\ shippedUnits'[l] = shippedUnits[l]
  <2>1. /\ itemStatus'[l] = IF plan[r].items[l] = AsIs THEN itemStatus[l] ELSE plan[r].items[l]
        /\ shippedUnits'[l] = shippedUnits[l] + plan[r].ship[l] /\ shippedUnits[l] \in Nat
    BY <1>1, <1>2 DEF WritePlan, TypeOK
  <2>2. CASE OrderOf[l] = o
    BY <1>5, <2>1, <2>2 DEF LinesOf, AsIs
  <2>3. CASE OrderOf[l] # o
    <3>1. plan[r].items[l] = AsIs /\ plan[r].ship[l] = 0
      BY <1>1, <2>3 DEF OwnLines
    <3>. QED  BY <2>1, <2>3, <3>1
  <2>. QED  BY <2>2, <2>3
<1>. QED  BY <1>2, <1>3, <1>4, <1>5, <1>6, <1>7, <1>8, <1>9

(* It shows what was moved ahead of it.                                    *)
LEMMA CompleteBookings ==
  ASSUME Inv, NEW r \in Request, CompletePaid(r), NEW l \in Line
  PROVE  Booked(l)' = Booked(l)
<1> DEFINE o == call[r].order
<1>1. /\ call[r].kind = "mark_paid" /\ ByHand(r) /\ pc[r] = "moving" /\ pc'[r] = "done"
      /\ todo[r] = NoUnits /\ call' = call /\ placement' = placement /\ reserved' = reserved
      /\ \A q \in Request \ {r} : pc'[q] = pc[q] /\ plan'[q] = plan[q] /\ todo'[q] = todo[q]
      /\ soStatus'[o] = "completed"
  BY CompleteStep
<1>2. InFlight(l)' = InFlight(l)
  BY <1>1 DEF InFlight
<1>3. CASE OrderOf[l] = o
  <2>1. plan[r].status = "pending" /\ todo[r][l] = 0
    BY <1>1 DEF ByHand, NoUnits
  <2>2. MovedAhead(l)
    BY <1>1, <1>3, <2>1 DEF MovedAhead, FulfilledStatus
  <2>3. Open(l) = 0 /\ Open(l)' = 0
    BY <1>1, <1>3, <2>2 DEF Open, FulfilledStatus
  <2>. QED  BY <1>1, <1>2, <2>3 DEF Booked
<1>4. CASE OrderOf[l] # o
  <2>1. ASSUME NEW q \in Request, q # r
        PROVE  pc'[q] = pc[q] /\ plan'[q] = plan[q] /\ todo'[q] = todo[q]
    BY <1>1, <2>1
  <2>2. MovedAhead(l)' <=> MovedAhead(l)
    BY <1>1, <1>4, <2>1 DEF MovedAhead
  <2>3. /\ soStatus'[OrderOf[l]] = soStatus[OrderOf[l]]
        /\ itemStatus'[l] = itemStatus[l] /\ shippedUnits'[l] = shippedUnits[l]
    BY <1>4, CompleteStep, LineFacts
  <2>4. Open(l)' = Open(l)
    BY <2>2, <2>3 DEF Open, Live, Left
  <2>. QED  BY <1>1, <1>2, <2>4 DEF Booked
<1>. QED  BY <1>3, <1>4

LEMMA CompleteKeepsInv ==
  ASSUME Inv, TypeOK', NEW r \in Request, CompletePaid(r)
  PROVE  Inv'
<1> DEFINE o == call[r].order
<1>1. TypeOK /\ CallsAsGiven /\ Untouched /\ OwnLines /\ Shapes /\ Plans /\ Payments /\ ReservationExact
  BY DEF Inv
<1>2. /\ o \in Order /\ placement[o] = "placed" /\ call[r].kind = "mark_paid"
      /\ pc'[r] = "done" /\ todo'[r] = NoUnits /\ plan'[r] = NoPlan
      /\ call' = call /\ placement' = placement /\ committed' = committed
      /\ soStatus'[o] = "completed"
  BY CompleteStep
<1>3. ASSUME NEW q \in Request \ {r}
      PROVE  /\ pc'[q] = pc[q] /\ plan'[q] = plan[q] /\ todo'[q] = todo[q]
             /\ call[q].order # o
  BY CompleteStep
<1>4. ASSUME NEW p \in Order \ {o}
      PROVE  /\ soStatus'[p] = soStatus[p] /\ shipments'[p] = shipments[p]
             /\ updatedAt'[p] = updatedAt[p]
             /\ \A l \in LinesOf(p) : itemStatus'[l] = itemStatus[l] /\ shippedUnits'[l] = shippedUnits[l]
  BY CompleteStep DEF LinesOf
<1>5. CallsAsGiven' /\ OwnLines'
  <2>1. CallsAsGiven'
    BY <1>1, <1>2 DEF CallsAsGiven
  <2>2. OwnLines'
    BY <1>1, <1>2, <1>3 DEF OwnLines, NoUnits, NoPlan
  <2>. QED  BY <2>1, <2>2
<1>6. Untouched'
  <2>1. ASSUME NEW p \in Order, placement'[p] # "placed"
        PROVE  /\ soStatus'[p] = "pending"
               /\ \A l \in LinesOf(p) : itemStatus'[l] = "pending" /\ shippedUnits'[l] = 0
               /\ \A q \in Request : call'[q].order = p => pc'[q] = "idle"
    <3>1. p # o /\ placement[p] # "placed"
      BY <1>2, <2>1
    <3>2. /\ soStatus[p] = "pending"
          /\ \A l \in LinesOf(p) : itemStatus[l] = "pending" /\ shippedUnits[l] = 0
          /\ \A q \in Request : call[q].order = p => pc[q] = "idle"
      BY <1>1, <3>1 DEF Untouched
    <3>. QED  BY <1>2, <1>3, <1>4, <3>1, <3>2
  <2>. QED  BY <2>1 DEF Untouched, LinesOf
<1>7. Shapes'
  <2>1. ASSUME NEW p \in Order
        PROVE  OrderShape(p)'
    <3>1. CASE p = o
      BY <1>2, <3>1 DEF OrderShape, SubStatus, LiveStatus, ProgressStatus
    <3>2. CASE p # o
      <4>1. OrderShape(p) /\ soStatus'[p] = soStatus[p]
        BY <1>1, <1>4, <3>2 DEF Shapes
      <4>2. ASSUME NEW q \in Request, PartGone(p, q)
            PROVE  PartGone(p, q)'
        <5>1. q # r /\ pc'[q] = pc[q]
          BY <1>2, <1>3, <4>2 DEF PartGone
        <5>2. \A l \in call[q].lines : itemStatus'[l] = itemStatus[l]
          BY <1>1, <1>4, <3>2, <4>2, CallFacts DEF PartGone
        <5>. QED  BY <1>2, <4>2, <5>1, <5>2 DEF PartGone, LinesOf
      <4>. QED  BY <4>1, <4>2 DEF OrderShape
    <3>. QED  BY <3>1, <3>2
  <2>2. ASSUME NEW l \in Line
        PROVE  LineShape(l)'
    <3>1. CASE OrderOf[l] = o
      <4>1. itemStatus'[l] = "completed" /\ shippedUnits'[l] = 0
        BY <3>1, CompleteStep
      <4>. QED  BY <1>2, <3>1, <4>1, LineFacts DEF LineShape, ProgressStatus, FulfilledStatus
    <3>2. CASE OrderOf[l] # o
      <4>1. OrderOf[l] \in Order /\ l \in LinesOf(OrderOf[l])
        BY LineFacts DEF LinesOf
      <4>2. /\ soStatus'[OrderOf[l]] = soStatus[OrderOf[l]]
            /\ itemStatus'[l] = itemStatus[l] /\ shippedUnits'[l] = shippedUnits[l]
        BY <1>4, <3>2, <4>1
      <4>. QED  BY <1>1, <1>2, <4>2 DEF Shapes, LineShape
    <3>. QED  BY <3>1, <3>2
  <2>. QED  BY <2>1, <2>2 DEF Shapes
<1>8. Plans'
  <2>1. ASSUME NEW q \in Request, pc'[q] = "claiming"
        PROVE  call'[q].kind # "mark_paid" /\ Claimable(q)'
    <3>1. q # r
      BY <1>2, <2>1
    <3>2. pc[q] = "claiming" /\ call[q].order \in Order \ {o}
      BY <1>1, <1>3, <2>1, <3>1, CallFacts
    <3>3. call[q].kind # "mark_paid" /\ Claimable(q)
      BY <1>1, <3>2 DEF Plans
    <3>4. OrderMovesOn(call[q].order)
      <4>1. /\ soStatus[call[q].order] \in SubStatus /\ shipments[call[q].order] \in Nat
            /\ updatedAt[call[q].order] \in Nat
        BY <1>1, <3>2 DEF Shapes, OrderShape, TypeOK
      <4>. QED  BY <1>4, <3>2, <4>1, AgeFacts DEF OrderMovesOn, Live
    <3>. QED  BY <1>1, <1>2, <1>3, <1>7, <3>1, <3>3, <3>4, PlanStaysCurrent
  <2>. QED  BY <2>1 DEF Plans
<1>9. Payments'
  <2>1. ByHand(r)'
    BY <1>2 DEF ByHand
  <2>2. \A l \in Line : OrderOf[l] # o => itemStatus'[l] = itemStatus[l] /\ shippedUnits'[l] = shippedUnits[l]
    BY CompleteStep
  <2>. QED  BY <1>1, <1>2, <1>3, <1>4, <2>1, <2>2, PaymentsStay
<1>10. ReservationExact'
  BY <1>1, <1>2, CompleteBookings, SameBookings
<1>. QED  BY <1>5, <1>6, <1>7, <1>8, <1>9, <1>10 DEF Inv

(* A seller's stock correction touches neither orders nor reservations.    *)
LEMMA StillBookings ==
  ASSUME UNCHANGED <<orderVars, requestVars>>, UNCHANGED <<placement, reserved>>, NEW l \in Line
  PROVE  Booked(l)' = Booked(l)
BY DEF Booked, Open, InFlight, MovedAhead, Live, Left, orderVars, requestVars

LEMMA StillKeepsInv ==
  ASSUME Inv, TypeOK', UNCHANGED <<orderVars, requestVars>>,
         UNCHANGED <<committed, placement, reserved>>
  PROVE  Inv'
<1>1. TypeOK /\ CallsAsGiven /\ Untouched /\ OwnLines /\ Shapes /\ Plans /\ Payments /\ ReservationExact
  BY DEF Inv
<1>2. CallsAsGiven' /\ OwnLines' /\ Shapes' /\ Plans' /\ Payments'
  BY <1>1, OrdersAlone
<1>3. Untouched'
  BY <1>1 DEF Untouched, orderVars, requestVars
<1>4. ReservationExact'
  BY <1>1, StillBookings, SameBookings
<1>. QED  BY <1>2, <1>3, <1>4 DEF Inv

LEMMA InitInv == Init /\ GoTogether(call) => Inv
<1>. SUFFICES ASSUME Init, GoTogether(call)
              PROVE  Inv
  OBVIOUS
<1>1. TypeOK
  BY InitTypes
<1>2. CallsAsGiven
  BY DEF Init, CallsAsGiven
<1>3. Untouched
  BY DEF Init, Untouched, LinesOf, NoUnits
<1>4. OwnLines
  BY DEF Init, OwnLines, NoUnits, NoPlan
<1>5. Shapes
  <2>1. "pending" \in SubStatus /\ "pending" \in ProgressStatus /\ "pending" \notin FulfilledStatus
    BY DEF SubStatus, LiveStatus, ProgressStatus, FulfilledStatus
  <2>2. ASSUME NEW l \in Line
        PROVE  LineShape(l)
    <3>1. /\ soStatus[OrderOf[l]] = "pending" /\ itemStatus[l] = "pending" /\ shippedUnits[l] = 0
          /\ Qty[l] \in Nat
      BY LineFacts DEF Init, NoUnits
    <3>. QED  BY <2>1, <3>1 DEF LineShape
  <2>3. \A o \in Order : OrderShape(o)
    BY <2>1 DEF Init, OrderShape
  <2>. QED  BY <2>2, <2>3 DEF Shapes
<1>6. Plans
  BY DEF Init, Plans
<1>7. Payments
  BY <1>2, CallFacts DEF Init, Payments, ByHand, LinesOf, NoUnits
<1>8. ASSUME NEW v \in Variant
      PROVE  committed[v] = Tally(BookedOf(v))
  <2>1. ASSUME NEW l \in Line
        PROVE  Booked(l) = 0
    BY LineFacts DEF Init, Booked
  <2>2. BookedOf(v) \in [Line -> Nat] /\ \A l \in Line : BookedOf(v)[l] = 0
    BY <2>1 DEF BookedOf
  <2>3. Tally(BookedOf(v)) = 0
    BY <2>2, TallyZero
  <2>. QED  BY <2>3 DEF Init
<1>. QED  BY <1>1, <1>2, <1>3, <1>4, <1>5, <1>6, <1>7, <1>8 DEF Inv, ReservationExact

(* Every step keeps the invariant.                                         *)
LEMMA StepKeepsInv == Inv /\ [Next]_vars => Inv'
<1>. SUFFICES ASSUME Inv, [Next]_vars
              PROVE  Inv'
  OBVIOUS
<1>1. TypeOK'
  BY StepTypes DEF Inv
<1>2. CASE CheckoutStep
  BY <1>2, CheckoutKeepsInv
<1>3. ASSUME NEW r \in Request, RequestStep(r)
      PROVE  Inv'
  <2>1. CASE BeginStatus(r)
    BY <2>1, BeginStatusKeepsInv
  <2>2. CASE BeginFulfil(r)
    BY <2>2, BeginFulfilKeepsInv
  <2>3. CASE BeginCancel(r)
    BY <2>3, BeginCancelKeepsInv
  <2>4. CASE BeginMarkPaid(r)
    BY <2>4, BeginMarkPaidKeepsInv
  <2>5. CASE Claim(r)
    BY <1>1, <2>5, ClaimKeepsInv
  <2>6. CASE LoseClaim(r) \/ WriteTimeline(r)
    BY <1>1, <2>6, ReturnKeepsInv
  <2>7. ASSUME NEW l \in Line, MoveLine(r, l)
        PROVE  Inv'
    BY <1>1, <2>7, MoveKeepsInv
  <2>8. CASE NotePayment(r)
    BY <1>1, <2>8, NoteKeepsInv
  <2>9. CASE CompletePaid(r)
    BY <1>1, <2>9, CompleteKeepsInv
  <2>. QED  BY <1>3, <2>1, <2>2, <2>3, <2>4, <2>5, <2>6, <2>7, <2>8, <2>9 DEF RequestStep
<1>4. ASSUME NEW x \in Corrections, CorrectStock(x)
      PROVE  Inv'
  BY <1>1, <1>4, StillKeepsInv DEF CorrectStock, checkoutVars
<1>5. CASE UNCHANGED vars
  BY <1>1, <1>5, StillKeepsInv DEF vars, variantVars, checkoutVars
<1>. QED  BY <1>2, <1>3, <1>4, <1>5 DEF Next

(* However many buyers check out, and whichever calls that go together     *)
(* ship, cancel or record as paid all or parts of their orders at the same *)
(* time, and wherever any of them stops, `committedStock` is the sum of    *)
(* what open orders and checkouts in progress still hold: the claims on    *)
(* the order document alone keep a counter in another document exact.      *)
THEOREM ReservationsExact == GoTogether(call) /\ Spec => []ReservationExact
<1>1. Inv => ReservationExact
  BY DEF Inv
<1>. QED  BY InitInv, StepKeepsInv, <1>1, PTL DEF Spec

-----------------------------------------------------------------------------
(* Nothing is oversold.                                                    *)

(* The counters alone: what is reserved is on the shelf.                   *)
Covered == \A v \in Variant \ Backorder : committed[v] <= stock[v]

(* The guard is part of the reserving update, and a shipment takes as much *)
(* off both counters; since the reservation is exact the counter is never  *)
(* negative, and the floor at zero keeps it below what is on hand.         *)
LEMMA StepKeepsCovered == Inv /\ Covered /\ [Next]_vars => Covered'
<1>. SUFFICES ASSUME Inv, Covered, [Next]_vars, NEW v \in Variant \ Backorder
              PROVE  committed'[v] <= stock'[v]
  BY DEF Covered
<1>1. /\ stock \in [Variant -> Int] /\ committed \in [Variant -> Int]
      /\ stock[v] \in Int /\ committed[v] \in Nat /\ committed[v] <= stock[v]
  <2>1. BookedOf(v) \in [Line -> Nat]
    BY BookedFacts DEF BookedOf, Inv
  <2>2. committed[v] \in Nat
    BY <2>1, TallyNat, ShopAssumption DEF Inv, ReservationExact
  <2>. QED  BY <2>2 DEF Inv, TypeOK, Covered
<1>2. CASE UNCHANGED <<stock, committed>>
  BY <1>1, <1>2
<1>3. ASSUME NEW l \in Line, ReserveLine(l)
      PROVE  committed'[v] <= stock'[v]
  <2>1. CASE VariantOf[l] = v
    <3>1. stock[v] - committed[v] >= Qty[l] /\ Qty[l] \in Nat
      BY <1>3, <2>1, LineFacts DEF ReserveLine, CanReserve
    <3>2. committed'[v] = committed[v] + Qty[l] /\ stock'[v] = stock[v]
      BY <1>1, <1>3, <2>1 DEF ReserveLine
    <3>. QED  BY <1>1, <3>1, <3>2
  <2>2. CASE VariantOf[l] # v
    BY <1>1, <1>3, <2>2 DEF ReserveLine
  <2>. QED  BY <2>1, <2>2
<1>4. ASSUME NEW l \in Line, UndoLine(l)
      PROVE  committed'[v] <= stock'[v]
  <2>1. committed'[v] \in {committed[v], committed[v] - Qty[l]} /\ stock'[v] = stock[v]
    BY <1>1, <1>4 DEF UndoLine, variantVars
  <2>. QED  BY <1>1, <2>1, LineFacts
<1>5. ASSUME NEW r \in Request, NEW l \in Line, MoveLine(r, l)
      PROVE  committed'[v] <= stock'[v]
  <2>1. todo[r][l] \in Nat
    BY DEF Inv, TypeOK
  <2>2. CASE VariantOf[l] # v
    BY <1>1, <1>5, <2>2 DEF MoveLine
  <2>3. CASE VariantOf[l] = v
    <3>1. committed'[v] = Less(committed[v], todo[r][l])
      BY <1>1, <1>5, <2>3 DEF MoveLine
    <3>2. stock'[v] \in {stock[v], Less(stock[v], todo[r][l])}
      BY <1>1, <1>5, <2>3 DEF MoveLine
    <3>. QED  BY <1>1, <2>1, <3>1, <3>2 DEF Less
  <2>. QED  BY <2>2, <2>3
<1>6. ASSUME NEW x \in Corrections, CorrectStock(x)
      PROVE  committed'[v] <= stock'[v]
  <2>1. x[1] \in Variant /\ x[2] \in Int
    BY ShopAssumption
  <2>2. /\ committed' = committed /\ stock[x[1]] + x[2] >= committed[x[1]]
        /\ stock' = [stock EXCEPT ![x[1]] = @ + x[2]]
    BY <1>6 DEF CorrectStock
  <2>. QED  BY <1>1, <2>1, <2>2
<1>7. CASE UNCHANGED vars
  BY <1>2, <1>7 DEF vars, variantVars
<1>8. CASE CheckoutStep
  BY <1>2, <1>3, <1>4, <1>8 DEF CheckoutStep, StartCheckout, RefuseCheckout, FinishUndo,
                                InsertOrder, variantVars
<1>9. ASSUME NEW r \in Request, RequestStep(r)
      PROVE  committed'[v] <= stock'[v]
  BY <1>2, <1>5, <1>9 DEF RequestStep, BeginStatus, BeginFulfil, BeginCancel, BeginMarkPaid,
                          ReadOrder, Claim, LoseClaim, WriteTimeline, NotePayment, CompletePaid,
                          variantVars
<1>. QED  BY <1>6, <1>7, <1>8, <1>9 DEF Next

LEMMA InitCovered == Init => Covered
BY ShopAssumption DEF Init, Covered

(* Every unit promised to a buyer is on the shelf until it is shipped or   *)
(* its order is cancelled: concurrent checkouts, shipments, cancellations  *)
(* and stock corrections never sell a unit twice.                          *)
THEOREM NothingOversold == GoTogether(call) /\ Spec => []NoOversell
<1>1. Init /\ GoTogether(call) => Inv /\ Covered
  BY InitInv, InitCovered
<1>2. Inv /\ Covered /\ [Next]_vars => Inv' /\ Covered'
  BY StepKeepsInv, StepKeepsCovered
<1>3. Inv /\ Covered => NoOversell
  BY DEF Inv, ReservationExact, Covered, NoOversell
<1>. QED  BY <1>1, <1>2, <1>3, PTL DEF Spec


-----------------------------------------------------------------------------
(* Shipments and cancellations of the same lines.                          *)

LEMMA ShapesHold == GoTogether(call) /\ Spec => []Shapes
<1>1. Inv => Shapes
  BY DEF Inv
<1>. QED  BY InitInv, StepKeepsInv, <1>1, PTL DEF Spec

(* Whatever calls ship a line at the same time, by status or by shipment,  *)
(* in one piece or in several, no unit is on two shipments: the claim that *)
(* loses ships nothing.                                                    *)
THEOREM NothingShippedTwice == GoTogether(call) /\ Spec => []NeverOverShipped
<1>1. Shapes => NeverOverShipped
  BY DEF Shapes, LineShape, NeverOverShipped
<1>. QED  BY <1>1, ShapesHold, PTL

(* A cancellation and a shipment of the same line never both happen, so    *)
(* the units a cancellation gives back are all still on the shelf.         *)
THEOREM CancelledStaysHome == GoTogether(call) /\ Spec => []CancelledNeverShipped
<1>1. Shapes => CancelledNeverShipped
  BY DEF Shapes, LineShape, CancelledNeverShipped
<1>. QED  BY <1>1, ShapesHold, PTL

-----------------------------------------------------------------------------
(* The shelf.                                                              *)

(* A line's units that left with its order: those it is no longer booked   *)
(* for.                                                                    *)
Sold(l) == placement[OrderOf[l]] = "placed" /\ itemStatus[l] # "cancelled"
Gone(l) == IF Sold(l) THEN Qty[l] - Booked(l) ELSE 0
GoneOf(v) == [l \in Line |-> IF VariantOf[l] = v THEN Gone(l) ELSE 0]

(* What a claim has yet to move of a cancelled line was cancelled by it.   *)
MovingKinds ==
  \A r \in Request, l \in Line : pc[r] = "moving" /\ todo[r][l] > 0 =>
    (call[r].kind = "cancel" <=> itemStatus[l] = "cancelled")

ShelfGone ==
  \A v \in Variant \ Backorder :
    stock[v] + Tally(GoneOf(v)) = InitialStock[v] + Entered(v, 1) - Entered(v, -1)

ShelfInv ==
  /\ IsFiniteSet(corrected)
  /\ \A l \in Line : Gone(l) \in Nat
  /\ MovingKinds
  /\ ShelfGone

LEMMA DepartedIsGone == Inv => \A l \in Line : Departed(l) = Gone(l)
<1>. SUFFICES ASSUME Inv, NEW l \in Line
              PROVE  Departed(l) = Gone(l)
  OBVIOUS
<1> DEFINE o == OrderOf[l]
<1>1. InFlight(l) \in Nat
  BY FlyingFacts DEF Inv
<1>2. LineShape(l) /\ shippedUnits[l] \in Nat /\ Qty[l] \in Nat
  BY LineFacts DEF Inv, Shapes, TypeOK
<1>3. CASE placement[o] # "placed"
  BY <1>3 DEF Departed, Gone, Sold
<1>4. CASE placement[o] = "placed" /\ itemStatus[l] = "cancelled"
  <2>1. ~Live(l) /\ shippedUnits[l] = 0
    BY <1>2, <1>4 DEF LineShape, Live, DeadStatus
  <2>2. ~MovedAhead(l)
    <3>1. ASSUME NEW r \in Request, pc[r] = "moving", call[r].kind = "mark_paid", call[r].order = o
          PROVE  FALSE
      <4>1. ByHand(r)
        BY <3>1 DEF Inv, Payments
      <4>2. itemStatus[l] = "pending"
        BY <3>1, <4>1 DEF ByHand, LinesOf
      <4>. QED  BY <1>4, <4>2
    <3>. QED  BY <3>1 DEF MovedAhead
  <2>. QED  BY <1>4, <2>1, <2>2 DEF Departed, Gone, Sold
<1>5. CASE Sold(l)
  <2>1. Live(l) /\ shippedUnits[l] <= Qty[l]
    BY <1>2, <1>5 DEF LineShape, Sold, Live, DeadStatus, ProgressStatus
  <2>2. Gone(l) = Qty[l] - (Open(l) + InFlight(l))
    BY <1>5 DEF Gone, Booked, Sold
  <2>3. CASE soStatus[o] \in FulfilledStatus \/ MovedAhead(l)
    <3>1. Open(l) = 0
      BY <2>3 DEF Open
    <3>2. Departed(l) = Qty[l] - InFlight(l)
      BY <1>5, <2>1, <2>3 DEF Departed, Sold
    <3>. QED  BY <1>1, <1>2, <2>2, <3>1, <3>2
  <2>4. CASE ~(soStatus[o] \in FulfilledStatus \/ MovedAhead(l))
    <3>1. Open(l) = Qty[l] - shippedUnits[l]
      BY <1>2, <2>1, <2>4 DEF Open, Left
    <3>2. Departed(l) = shippedUnits[l] - InFlight(l)
      BY <1>5, <2>1, <2>4 DEF Departed, Sold
    <3>. QED  BY <1>1, <1>2, <2>2, <3>1, <3>2
  <2>. QED  BY <2>3, <2>4
<1>. QED  BY <1>3, <1>4, <1>5 DEF Sold

(* Most steps leave the shelf alone.                                       *)
LEMMA QuietShelf ==
  ASSUME ShelfInv, UNCHANGED <<stock, corrected>>, \A l \in Line : Gone(l)' = Gone(l), MovingKinds'
  PROVE  ShelfInv'
<1>1. IsFiniteSet(corrected') /\ \A l \in Line : Gone(l)' \in Nat
  BY DEF ShelfInv
<1>2. ShelfGone'
  <2>1. ASSUME NEW v \in Variant \ Backorder
        PROVE  GoneOf(v)' = GoneOf(v) /\ Entered(v, 1)' = Entered(v, 1) /\ Entered(v, -1)' = Entered(v, -1)
    BY DEF GoneOf, Entered
  <2>. QED  BY <2>1 DEF ShelfInv, ShelfGone
<1>. QED  BY <1>1, <1>2 DEF ShelfInv

LEMMA SameKinds ==
  ASSUME MovingKinds, UNCHANGED <<call, itemStatus>>,
         \A r \in Request, l \in Line : pc'[r] = "moving" /\ todo'[r][l] > 0 =>
                                          pc[r] = "moving" /\ todo[r][l] > 0
  PROVE  MovingKinds'
BY DEF MovingKinds

LEMMA CheckoutShelf ==
  ASSUME Inv, ShelfInv, CheckoutStep
  PROVE  ShelfInv'
<1>1. UNCHANGED <<itemStatus, pc, call, todo, stock, corrected>>
  BY DEF CheckoutStep, StartCheckout, RefuseCheckout, FinishUndo, InsertOrder, ReserveLine, UndoLine,
         variantVars, orderVars, requestVars
<1>2. ASSUME NEW l \in Line
      PROVE  Gone(l)' = Gone(l)
  <2>1. OrderOf[l] \in Order /\ Qty[l] \in Nat /\ placement \in [Order -> Placement]
    BY LineFacts DEF Inv, TypeOK
  <2>2. CASE placement[OrderOf[l]] = "placed"
    <3>1. placement'[OrderOf[l]] = "placed"
      BY <2>1, <2>2 DEF CheckoutStep, StartCheckout, RefuseCheckout, FinishUndo, InsertOrder,
                        ReserveLine, UndoLine
    <3>2. Booked(l)' = Booked(l)
      BY <2>2, CheckoutBookings
    <3>. QED  BY <1>1, <2>2, <3>1, <3>2 DEF Gone, Sold
  <2>3. CASE placement[OrderOf[l]] # "placed" /\ placement'[OrderOf[l]] = "placed"
    <3>1. Booked(l)' = Qty[l]
      BY <2>3, CheckoutBookings
    <3>. QED  BY <2>1, <2>3, <3>1 DEF Gone, Sold
  <2>4. CASE placement[OrderOf[l]] # "placed" /\ placement'[OrderOf[l]] # "placed"
    BY <2>4 DEF Gone, Sold
  <2>. QED  BY <2>2, <2>3, <2>4
<1>3. MovingKinds'
  BY <1>1, SameKinds DEF ShelfInv
<1>. QED  BY <1>1, <1>2, <1>3, QuietShelf

(* Reading an order.                                                       *)
LEMMA ReadShelf ==
  ASSUME Inv, ShelfInv, NEW r \in Request, NEW s \in {"claiming", "noting"}, NEW p, NEW m,
         ReadOrder(r, s, p, m)
  PROVE  ShelfInv'
<1>1. /\ UNCHANGED <<itemStatus, placement, call, stock, corrected>>
      /\ pc'[r] # "moving" /\ \A q \in Request \ {r} : pc'[q] = pc[q] /\ todo'[q] = todo[q]
  BY DEF ReadOrder, variantVars, checkoutVars, orderVars, Inv, TypeOK
<1>2. ASSUME NEW l \in Line
      PROVE  Gone(l)' = Gone(l)
  <2>1. Booked(l)' = Booked(l)
    BY ReadBookings DEF Inv
  <2>. QED  BY <1>1, <2>1 DEF Gone, Sold
<1>3. MovingKinds'
  BY <1>1, SameKinds DEF ShelfInv
<1>. QED  BY <1>1, <1>2, <1>3, QuietShelf

(* Losing the claim and returning.                                         *)
LEMMA ReturnShelf ==
  ASSUME Inv, ShelfInv, NEW r \in Request, LoseClaim(r) \/ WriteTimeline(r)
  PROVE  ShelfInv'
<1>1. /\ UNCHANGED <<itemStatus, placement, call, stock, corrected>>
      /\ pc'[r] # "moving" /\ \A q \in Request \ {r} : pc'[q] = pc[q] /\ todo'[q] = todo[q]
  BY ReturnStep
<1>2. ASSUME NEW l \in Line
      PROVE  Gone(l)' = Gone(l)
  <2>1. Booked(l)' = Booked(l)
    BY ReturnBookings
  <2>. QED  BY <1>1, <2>1 DEF Gone, Sold
<1>3. MovingKinds'
  BY <1>1, SameKinds DEF ShelfInv
<1>. QED  BY <1>1, <1>2, <1>3, QuietShelf

(* Noting a payment: its order was never cancelled.                        *)
LEMMA NoteShelf ==
  ASSUME Inv, ShelfInv, NEW r \in Request, NotePayment(r)
  PROVE  ShelfInv'
<1>1. /\ UNCHANGED <<itemStatus, placement, call, todo, stock, corrected>>
      /\ pc[r] = "noting" /\ call[r].kind = "mark_paid" /\ ByHand(r)
      /\ \A q \in Request \ {r} : pc'[q] = pc[q]
  BY NoteStep
<1>2. ASSUME NEW l \in Line
      PROVE  Gone(l)' = Gone(l)
  <2>1. Booked(l)' = Booked(l)
    BY NoteBookings
  <2>. QED  BY <1>1, <2>1 DEF Gone, Sold
<1>3. ASSUME NEW l \in Line, todo[r][l] > 0
      PROVE  itemStatus[l] # "cancelled"
  <2>1. OrderOf[l] = call[r].order
    BY <1>3 DEF Inv, OwnLines
  <2>. QED  BY <1>1, <2>1 DEF ByHand, LinesOf
<1>4. MovingKinds'
  BY <1>1, <1>3 DEF ShelfInv, MovingKinds
<1>. QED  BY <1>1, <1>2, <1>4, QuietShelf

(* The last write of a payment: its order was moved ahead of it.           *)
LEMMA CompleteShelf ==
  ASSUME Inv, ShelfInv, NEW r \in Request, CompletePaid(r)
  PROVE  ShelfInv'
<1> DEFINE o == call[r].order
<1>1. /\ UNCHANGED <<placement, call, stock, corrected>> /\ pc'[r] = "done"
      /\ \A q \in Request \ {r} : pc'[q] = pc[q] /\ todo'[q] = todo[q] /\ call[q].order # o
      /\ \A l \in Line : IF OrderOf[l] = o
                         THEN itemStatus[l] = "pending" /\ itemStatus'[l] = "completed"
                         ELSE itemStatus'[l] = itemStatus[l]
  BY CompleteStep
<1>2. ASSUME NEW l \in Line
      PROVE  Gone(l)' = Gone(l)
  <2>1. Booked(l)' = Booked(l)
    BY CompleteBookings
  <2>2. Sold(l)' <=> Sold(l)
    BY <1>1 DEF Sold
  <2>. QED  BY <2>1, <2>2 DEF Gone
<1>3. ASSUME NEW q \in Request, NEW l \in Line, pc'[q] = "moving", todo'[q][l] > 0
      PROVE  call'[q].kind = "cancel" <=> itemStatus'[l] = "cancelled"
  <2>1. q # r /\ pc[q] = "moving" /\ todo[q][l] > 0 /\ call[q].order # o
    BY <1>1, <1>3
  <2>2. OrderOf[l] # o
    BY <2>1 DEF Inv, OwnLines
  <2>. QED  BY <1>1, <2>1, <2>2 DEF ShelfInv, MovingKinds
<1>4. MovingKinds'
  BY <1>3 DEF MovingKinds
<1>. QED  BY <1>1, <1>2, <1>4, QuietShelf

(* What a claim does to the lines of its order.                            *)
LEMMA ClaimLines ==
  ASSUME Inv, NEW r \in Request, Claim(r), NEW l \in Line, OrderOf[l] = call[r].order
  PROVE  LET cancels == call[r].kind = "cancel" /\ l \in call[r].lines IN
         /\ itemStatus'[l] = "cancelled" <=> itemStatus[l] = "cancelled" \/ cancels
         /\ todo[r][l] > 0 => /\ itemStatus[l] # "cancelled"
                              /\ call[r].kind = "cancel" => cancels
         /\ cancels => itemStatus[l] # "cancelled" /\ Open(l) = Qty[l]
<1> DEFINE c == call[r]
           o == c.order
           cancels == c.kind = "cancel" /\ l \in c.lines
<1>1. TypeOK /\ CallsAsGiven /\ Shapes
  BY DEF Inv
<1>2. /\ Current(r) /\ c.kind \in {"status", "fulfil", "cancel"}
      /\ itemStatus'[l] = IF plan[r].items[l] = AsIs THEN itemStatus[l] ELSE plan[r].items[l]
      /\ l \in LinesOf(o)
  BY ClaimWrites DEF LinesOf
<1>3. LineShape(l) /\ Qty[l] \in Nat /\ shippedUnits[l] \in Nat
  BY <1>1, LineFacts DEF Shapes, TypeOK
<1>4. itemStatus[l] = "cancelled" <=> ~Live(l)
  BY <1>3 DEF LineShape, Live, DeadStatus, ProgressStatus
<1>5. CASE c.kind = "status"
  <2>1. /\ plan[r].items[l] = IF Live(l) THEN c.to ELSE AsIs
        /\ ~Live(l) => todo[r][l] = 0
    BY <1>2, <1>5 DEF Current, CurrentStatus
  <2>2. c.to \in ProgressStatus
    BY <1>1, <1>5, CallFacts
  <2>3. c.to # AsIs /\ c.to # "cancelled"
    BY <2>2 DEF ProgressStatus, AsIs
  <2>. QED  BY <1>2, <1>4, <1>5, <2>1, <2>3
<1>6. CASE c.kind = "fulfil"
  <2>1. /\ ~Live(l) => plan[r].items[l] = AsIs
        /\ Live(l) => plan[r].items[l] \in {"shipped", "processing", AsIs}
        /\ todo[r][l] > 0 => Live(l)
    BY <1>2, <1>6 DEF Current, CurrentFulfil
  <2>. QED  BY <1>2, <1>4, <1>6, <2>1
<1>7. CASE c.kind = "cancel"
  <2>1. /\ soStatus[o] \notin FulfilledStatus \cup {"cancelled"}
        /\ l \in c.lines => /\ itemStatus[l] \notin FulfilledStatus \cup {"cancelled"}
                            /\ plan[r].items[l] = "cancelled"
        /\ l \notin c.lines => plan[r].items[l] = AsIs /\ todo[r][l] = 0
    BY <1>2, <1>7 DEF Current, CurrentCancel
  <2>2. ASSUME cancels
        PROVE  Open(l) = Qty[l]
    <3>1. Cancels(call, l)
      BY <2>2 DEF Cancels
    <3>2. shippedUnits[l] = 0
      BY <1>3, <2>1, <2>2, <3>1 DEF LineShape
    <3>3. ~MovedAhead(l)
      BY <1>1, <1>7, NotAhead
    <3>. QED  BY <1>3, <1>4, <2>1, <2>2, <3>2, <3>3, LineFacts DEF Open, Left
  <2>3. "cancelled" # AsIs
    BY DEF AsIs
  <2>. QED  BY <1>2, <1>7, <2>1, <2>2, <2>3
<1>. QED  BY <1>2, <1>5, <1>6, <1>7

(* A claim: what the order has open goes to the request that moves it.     *)
LEMMA ClaimShelf ==
  ASSUME Inv, TypeOK', ShelfInv, NEW r \in Request, Claim(r)
  PROVE  ShelfInv'
<1> DEFINE o == call[r].order
           Cancelled(l) == call[r].kind = "cancel" /\ l \in call[r].lines
<1>1. TypeOK /\ CallsAsGiven /\ Untouched /\ OwnLines
  BY DEF Inv
<1>2. /\ UNCHANGED <<call, todo, placement, stock, corrected>>
      /\ o \in Order /\ pc[r] = "claiming" /\ pc'[r] = "moving"
      /\ \A q \in Request \ {r} : pc'[q] = pc[q]
  BY ClaimWrites DEF Claim, variantVars, checkoutVars
<1>3. placement[o] = "placed"
  BY <1>1, <1>2 DEF Untouched
<1>4. ASSUME NEW l \in Line, OrderOf[l] # o
      PROVE  itemStatus'[l] = itemStatus[l] /\ todo[r][l] = 0 /\ ~Cancelled(l)
  <2>1. ~Cancelled(l)
    BY <1>1, <1>4, CallFacts DEF LinesOf
  <2>. QED  BY <1>1, <1>4, <2>1, ClaimWrites DEF OwnLines
<1>5. ASSUME NEW l \in Line, Cancelled(l)
      PROVE  Gone(l) = 0 /\ InFlight(l) = 0
  <2>1. OrderOf[l] = o
    BY <1>4, <1>5
  <2>2. itemStatus[l] # "cancelled" /\ Open(l) = Qty[l]
    BY <1>5, <2>1, ClaimLines
  <2>3. Gone(l) = Qty[l] - (Open(l) + InFlight(l))
    BY <1>3, <2>1, <2>2 DEF Gone, Sold, Booked
  <2>4. Gone(l) \in Nat /\ InFlight(l) \in Nat /\ Qty[l] \in Nat
    BY <1>1, FlyingFacts, LineFacts DEF ShelfInv
  <2>. QED  BY <2>2, <2>3, <2>4
<1>6. ASSUME NEW l \in Line
      PROVE  itemStatus'[l] = "cancelled" <=> itemStatus[l] = "cancelled" \/ Cancelled(l)
  <2>1. CASE OrderOf[l] = o
    BY <2>1, ClaimLines
  <2>2. CASE OrderOf[l] # o
    BY <1>4, <2>2
  <2>. QED  BY <2>1, <2>2
<1>7. ASSUME NEW l \in Line
      PROVE  Gone(l)' = Gone(l)
  <2>1. Booked(l)' = Booked(l)
    BY ClaimBookings
  <2>2. CASE Cancelled(l)
    <3>1. Gone(l)' = 0
      BY <1>6, <2>2 DEF Gone, Sold
    <3>. QED  BY <1>5, <2>2, <3>1
  <2>3. CASE ~Cancelled(l)
    <3>1. Sold(l)' <=> Sold(l)
      BY <1>2, <1>6, <2>3 DEF Sold
    <3>. QED  BY <2>1, <3>1 DEF Gone
  <2>. QED  BY <2>2, <2>3
<1>8. ASSUME NEW p \in Request, NEW l \in Line, pc'[p] = "moving", todo'[p][l] > 0
      PROVE  call'[p].kind = "cancel" <=> itemStatus'[l] = "cancelled"
  <2>1. call' = call /\ todo[p][l] > 0 /\ todo[p][l] \in Nat /\ OrderOf[l] = call[p].order
    BY <1>1, <1>2, <1>8 DEF TypeOK, OwnLines
  <2>2. CASE p = r
    <3>1. OrderOf[l] = o
      BY <2>1, <2>2
    <3>2. itemStatus[l] # "cancelled" /\ (call[r].kind = "cancel" => Cancelled(l))
      BY <2>1, <2>2, <3>1, ClaimLines
    <3>. QED  BY <1>6, <2>1, <2>2, <3>2
  <2>3. CASE p # r
    <3>1. pc[p] = "moving"
      BY <1>2, <1>8, <2>3
    <3>2. call[p].kind = "cancel" <=> itemStatus[l] = "cancelled"
      BY <2>1, <3>1 DEF ShelfInv, MovingKinds
    <3>3. ~Cancelled(l)
      <4>1. SUFFICES ASSUME Cancelled(l)
                     PROVE  FALSE
        OBVIOUS
      <4>2. OrderOf[l] = o
        BY <1>4, <4>1
      <4>3. call[p].kind # "mark_paid"
        BY <1>1, <2>1, <2>3, <4>2, TogetherFacts
      <4>4. /\ Flying(l) \in [Request -> Nat] /\ InFlight(l) = Tally(Flying(l))
            /\ Flying(l)[p] = todo[p][l]
        BY <1>1, <3>1, <4>3, FlyingFacts DEF Flying
      <4>5. Flying(l)[p] <= Tally(Flying(l))
        BY <4>4, TallyBound, ShopAssumption
      <4>6. InFlight(l) = 0
        BY <1>5, <4>1
      <4>. QED  BY <2>1, <4>4, <4>5, <4>6
    <3>. QED  BY <1>6, <2>1, <3>2, <3>3
  <2>. QED  BY <2>2, <2>3
<1>9. MovingKinds'
  BY <1>8 DEF MovingKinds
<1>. QED  BY <1>2, <1>7, <1>9, QuietShelf

(* A move takes off the shelf what the claim, or the payment, left to it.  *)
LEMMA MoveShelf ==
  ASSUME Inv, TypeOK', Covered, ShelfInv, NEW r \in Request, NEW l \in Line, MoveLine(r, l)
  PROVE  ShelfInv'
<1> DEFINE v == VariantOf[l]
           q == todo[r][l]
<1>1. /\ pc[r] = "moving" /\ q > 0 /\ q \in Nat /\ todo'[r][l] = 0
      /\ \A p \in Request, k \in Line : <<p, k>> # <<r, l>> => todo'[p][k] = todo[p][k]
      /\ UNCHANGED <<pc, call, placement, corrected, itemStatus>>
      /\ placement[OrderOf[l]] = "placed"
  BY MoveStep
<1>2. /\ committed[v] >= q /\ Booked(l)' = Booked(l) - q
      /\ \A k \in Line \ {l} : Booked(k)' = Booked(k)
  BY MoveBooking
<1>3. v \in Variant /\ Qty[l] \in Nat /\ stock \in [Variant -> Int] /\ committed[v] \in Int
  BY LineFacts DEF Inv, TypeOK
<1>4. /\ \A k \in Line : Gone(k) \in Nat
      /\ MovingKinds
  BY DEF ShelfInv
<1>5. \A p \in Request, k \in Line : todo'[p][k] > 0 => todo[p][k] > 0
  BY <1>1
<1>6. MovingKinds'
  BY <1>1, <1>4, <1>5, SameKinds
<1>7. ASSUME NEW k \in Line \ {l}
      PROVE  Gone(k)' = Gone(k)
  <2>1. Booked(k)' = Booked(k)
    BY <1>2
  <2>2. Sold(k)' <=> Sold(k)
    BY <1>1 DEF Sold
  <2>. QED  BY <2>1, <2>2 DEF Gone
<1>8. call[r].kind = "cancel" <=> itemStatus[l] = "cancelled"
  BY <1>1, <1>4 DEF MovingKinds
<1>9. CASE call[r].kind = "cancel"
  <2>1. stock' = stock /\ Gone(l)' = Gone(l)
    BY <1>1, <1>8, <1>9 DEF MoveLine, Gone, Sold
  <2>2. \A k \in Line : Gone(k)' = Gone(k)
    BY <1>7, <2>1
  <2>. QED  BY <1>1, <1>6, <2>1, <2>2, QuietShelf
<1>10. CASE call[r].kind # "cancel"
  <2>1. stock' = [stock EXCEPT ![v] = Less(@, q)]
    BY <1>10 DEF MoveLine
  <2>2. Sold(l) /\ Sold(l)'
    BY <1>1, <1>8, <1>10 DEF Sold
  <2>3. Gone(l)' = Gone(l) + q
    <3>1. Booked(l) \in Nat
      BY BookedFacts DEF Inv
    <3>2. Gone(l) = Qty[l] - Booked(l) /\ Gone(l)' = Qty[l] - Booked(l)'
      BY <2>2 DEF Gone
    <3>. QED  BY <1>1, <1>2, <1>3, <3>1, <3>2
  <2>4. \A k \in Line : Gone(k)' \in Nat
    BY <1>1, <1>4, <1>7, <2>3
  <2>5. \A w \in Variant : /\ GoneOf(w) \in [Line -> Nat] /\ GoneOf(w)' \in [Line -> Nat]
                           /\ Entered(w, 1)' = Entered(w, 1) /\ Entered(w, -1)' = Entered(w, -1)
    BY <1>1, <1>4, <2>4 DEF GoneOf, Entered
  <2>6. ASSUME NEW w \in Variant \ Backorder
        PROVE  stock'[w] + Tally(GoneOf(w)') = stock[w] + Tally(GoneOf(w))
    <3>1. Tally(GoneOf(w)) \in Nat /\ stock[w] \in Int
      BY <1>3, <2>5, TallyNat, ShopAssumption
    <3>2. CASE w = v
      <4>1. stock'[w] = stock[w] - q
        <5>1. committed[v] <= stock[v]
          BY <3>2 DEF Covered
        <5>2. Less(stock[v], q) = stock[v] - q
          BY <1>1, <1>2, <1>3, <5>1 DEF Less
        <5>. QED  BY <1>3, <2>1, <3>2, <5>2
      <4> DEFINE f == GoneOf(w)
                 g == [k \in Line |-> IF VariantOf[k] = w THEN Gone(k)' ELSE 0]
      <4>2. GoneOf(w)' = g
        BY DEF GoneOf
      <4>3. f \in [Line -> Nat] /\ g \in [Line -> Nat]
        BY <2>4, <2>5
      <4>4. /\ f[l] = Gone(l) /\ g[l] = Gone(l) + q
            /\ \A k \in Line \ {l} : g[k] = f[k]
        BY <1>7, <2>3, <3>2 DEF GoneOf
      <4>5. Tally(f) \in Nat
        BY <3>1
      <4>6. Tally(g) = Tally(f) - f[l] + g[l]
        <5> HIDE DEF f, g
        <5>. QED  BY <4>3, <4>4, TallyChange, ShopAssumption
      <4>7. Tally(g) = Tally(f) + q
        <5> HIDE DEF f, g
        <5>. QED  BY <1>1, <1>4, <4>4, <4>5, <4>6
      <4>. QED  BY <1>1, <3>1, <4>1, <4>2, <4>7
    <3>3. CASE w # v
      <4>1. stock'[w] = stock[w]
        BY <1>3, <2>1, <3>3
      <4>2. GoneOf(w)' = GoneOf(w)
        BY <1>7, <3>3 DEF GoneOf
      <4>. QED  BY <4>1, <4>2
    <3>. QED  BY <3>2, <3>3
  <2>7. ShelfGone'
    <3>1. ASSUME NEW w \in Variant \ Backorder
          PROVE  stock'[w] + Tally(GoneOf(w)') = InitialStock[w] + Entered(w, 1)' - Entered(w, -1)'
      BY <2>5, <2>6 DEF ShelfInv, ShelfGone
    <3>. QED  BY <3>1 DEF ShelfGone
  <2>. QED  BY <1>1, <1>6, <2>4, <2>7 DEF ShelfInv
<1>. QED  BY <1>9, <1>10

(* One more term.                                                          *)
LEMMA TallyGrows ==
  ASSUME NEW S, IsFiniteSet(S), NEW x, x \notin S, NEW f \in [S -> Nat],
         NEW g \in [S \cup {x} -> Nat], \A y \in S : g[y] = f[y]
  PROVE  Tally(g) = Tally(f) + g[x] /\ Tally(f) \in Nat
<1> DEFINE h == [y \in S \cup {x} |-> IF y \in S THEN f[y] ELSE 0]
<1>1. h \in [S \cup {x} -> Nat] /\ h[x] = 0 /\ \A y \in (S \cup {x}) \ {x} : g[y] = h[y]
  OBVIOUS
<1>2. Tokens(h) = Tokens(f)
  <2>1. \A t : t \in Tokens(h) <=> t \in Tokens(f)
    <3>1. ASSUME NEW t, NEW y \in S \cup {x}, NEW i \in Nat, t = <<y, i>>, 1 <= i, i <= h[y]
          PROVE  y \in S /\ i <= f[y]
      BY <3>1
    <3>2. \A t : t \in Tokens(h) => t \in Tokens(f)
      <4> HIDE DEF h
      <4>. QED  BY <1>1, <3>1, TokenMembers
    <3>3. \A y \in S : h[y] = f[y]
      OBVIOUS
    <3>4. \A t : t \in Tokens(f) => t \in Tokens(h)
      <4> HIDE DEF h
      <4>. QED  BY <1>1, <3>3, TokenMembers
    <3>. QED  BY <3>2, <3>4
  <2>. QED  BY <2>1
<1>3. IsFiniteSet(S \cup {x})
  BY FS_AddElement
<1>4. Tally(f) \in Nat
  BY TallyNat
<1> HIDE DEF h
<1>5. Tally(g) = Tally(h) - h[x] + g[x]
  BY <1>1, <1>3, TallyChange
<1>6. Tally(h) = Tally(f)
  BY <1>2 DEF Tally
<1>. QED  BY <1>1, <1>4, <1>5, <1>6


(* A seller's stock correction is entered once.                            *)
LEMMA CorrectionShelf ==
  ASSUME Inv, ShelfInv, NEW x \in Corrections, CorrectStock(x)
  PROVE  ShelfInv'
<1>1. /\ x \notin corrected /\ corrected' = corrected \cup {x} /\ IsFiniteSet(corrected)
      /\ stock' = [stock EXCEPT ![x[1]] = @ + x[2]]
      /\ UNCHANGED <<orderVars, requestVars>> /\ UNCHANGED <<placement, reserved>>
      /\ UNCHANGED <<itemStatus, pc, call, todo>>
  BY DEF CorrectStock, ShelfInv, checkoutVars, orderVars, requestVars
<1>2. x[1] \in Variant /\ x[2] \in Int /\ stock \in [Variant -> Int]
      /\ \A y \in corrected \cup {x} : y[2] \in Int
  BY ShopAssumption DEF Inv, TypeOK
<1>3. ASSUME NEW l \in Line
      PROVE  Gone(l)' = Gone(l)
  <2>1. Booked(l)' = Booked(l)
    BY <1>1, StillBookings
  <2>. QED  BY <1>1, <2>1 DEF Gone, Sold
<1>4. MovingKinds'
  BY <1>1 DEF ShelfInv, MovingKinds
<1>5. IsFiniteSet(corrected')
  BY <1>1, FS_AddElement
<1>6. ASSUME NEW v \in Variant, NEW sign \in {1, -1}
      PROVE  /\ Entered(v, sign) \in Nat
             /\ Entered(v, sign)' = Entered(v, sign) +
                  (IF x[1] = v /\ sign * x[2] > 0 THEN sign * x[2] ELSE 0)
  <2> DEFINE f == [y \in corrected |-> IF y[1] = v /\ sign * y[2] > 0 THEN sign * y[2] ELSE 0]
             g == [y \in corrected \cup {x} |-> IF y[1] = v /\ sign * y[2] > 0 THEN sign * y[2] ELSE 0]
  <2>1. \A y \in corrected \cup {x} : sign * y[2] \in Int
    BY <1>2
  <2>2. f \in [corrected -> Nat] /\ g \in [corrected \cup {x} -> Nat] /\ \A y \in corrected : g[y] = f[y]
    BY <2>1
  <2>3. g[x] = IF x[1] = v /\ sign * x[2] > 0 THEN sign * x[2] ELSE 0
    OBVIOUS
  <2>4. Entered(v, sign) = Tally(f) /\ Entered(v, sign)' = Tally(g)
    BY <1>1 DEF Entered
  <2> HIDE DEF f, g
  <2>5. Tally(g) = Tally(f) + g[x] /\ Tally(f) \in Nat
    <3>1. IsFiniteSet(corrected) /\ x \notin corrected
      BY <1>1
    <3>2. f \in [corrected -> Nat] /\ g \in [corrected \cup {x} -> Nat] /\ \A y \in corrected : g[y] = f[y]
      BY <2>2
    <3>. QED  BY ONLY <3>1, <3>2, TallyGrows, SMTT(30)
  <2>. QED  BY <2>3, <2>4, <2>5
<1>7. ShelfGone'
  <2>1. ASSUME NEW v \in Variant \ Backorder
        PROVE  stock'[v] + Tally(GoneOf(v)') = InitialStock[v] + Entered(v, 1)' - Entered(v, -1)'
    <3>1. GoneOf(v)' = GoneOf(v)
      BY <1>3 DEF GoneOf
    <3>2. stock[v] + Tally(GoneOf(v)) = InitialStock[v] + Entered(v, 1) - Entered(v, -1)
      BY DEF ShelfInv, ShelfGone
    <3>3. /\ stock[v] \in Int /\ InitialStock[v] \in Int
          /\ Tally(GoneOf(v)) \in Nat
      <4>1. GoneOf(v) \in [Line -> Nat]
        BY DEF GoneOf, ShelfInv
      <4>. QED  BY <1>2, <4>1, TallyNat, ShopAssumption
    <3>4. /\ Entered(v, 1) \in Nat /\ Entered(v, -1) \in Nat
          /\ Entered(v, 1)' = Entered(v, 1) + (IF x[1] = v /\ x[2] > 0 THEN x[2] ELSE 0)
          /\ Entered(v, -1)' = Entered(v, -1) + (IF x[1] = v /\ -x[2] > 0 THEN -x[2] ELSE 0)
      <4>1. 1 * x[2] = x[2] /\ (-1) * x[2] = -x[2]
        BY <1>2
      <4>2. /\ Entered(v, 1) \in Nat
            /\ Entered(v, 1)' = Entered(v, 1) + (IF x[1] = v /\ 1 * x[2] > 0 THEN 1 * x[2] ELSE 0)
        BY <1>6
      <4>3. /\ Entered(v, -1) \in Nat
            /\ Entered(v, -1)' = Entered(v, -1)
                                 + (IF x[1] = v /\ (-1) * x[2] > 0 THEN (-1) * x[2] ELSE 0)
        BY <1>6
      <4>. QED  BY <4>1, <4>2, <4>3
    <3>5. stock'[v] = IF x[1] = v THEN stock[v] + x[2] ELSE stock[v]
      BY <1>1, <1>2
    <3>. QED  BY <1>2, <3>1, <3>2, <3>3, <3>4, <3>5
  <2>. QED  BY <2>1 DEF ShelfGone
<1>8. \A l \in Line : Gone(l)' \in Nat
  BY <1>3 DEF ShelfInv
<1>. QED  BY <1>4, <1>5, <1>7, <1>8 DEF ShelfInv


LEMMA InitShelf == Init => ShelfInv
<1>. SUFFICES ASSUME Init
              PROVE  ShelfInv
  OBVIOUS
<1>1. /\ corrected = {} /\ stock = InitialStock /\ placement = [o \in Order |-> "new"]
      /\ pc = [r \in Request |-> "idle"]
  BY DEF Init
<1>2. IsFiniteSet(corrected)
  BY <1>1, FS_EmptySet
<1>3. \A l \in Line : Gone(l) = 0
  BY <1>1, LineFacts DEF Gone, Sold
<1>4. MovingKinds
  BY <1>1 DEF MovingKinds
<1>5. ASSUME NEW v \in Variant, NEW sign \in {1, -1}
      PROVE  Entered(v, sign) = 0
  <2> DEFINE f == [x \in corrected |-> IF x[1] = v /\ sign * x[2] > 0 THEN sign * x[2] ELSE 0]
  <2>1. f \in [corrected -> Nat] /\ \A x \in corrected : f[x] = 0
    BY <1>1
  <2>2. Entered(v, sign) = Tally(f)
    BY DEF Entered
  <2> HIDE DEF f
  <2>. QED  BY ONLY <1>2, <2>1, <2>2, TallyZero, SMTT(30)
<1>6. ShelfGone
  <2>1. ASSUME NEW v \in Variant \ Backorder
        PROVE  stock[v] + Tally(GoneOf(v)) = InitialStock[v] + Entered(v, 1) - Entered(v, -1)
    <3>1. GoneOf(v) \in [Line -> Nat] /\ \A l \in Line : GoneOf(v)[l] = 0
      BY <1>3 DEF GoneOf
    <3>2. Tally(GoneOf(v)) = 0
      BY <3>1, TallyZero, ShopAssumption
    <3>3. Entered(v, 1) = 0 /\ Entered(v, -1) = 0 /\ InitialStock[v] \in Int
      BY <1>5, ShopAssumption
    <3>. QED  BY <1>1, <3>2, <3>3
  <2>. QED  BY <2>1 DEF ShelfGone
<1>. QED  BY <1>2, <1>3, <1>4, <1>6 DEF ShelfInv


LEMMA StepKeepsShelf ==
  ASSUME Inv, Covered, ShelfInv, [Next]_vars
  PROVE  ShelfInv'
<1>1. TypeOK'
  BY StepTypes DEF Inv
<1>2. CASE CheckoutStep
  BY <1>2, CheckoutShelf
<1>3. ASSUME NEW r \in Request, RequestStep(r)
      PROVE  ShelfInv'
  <2>1. CASE BeginStatus(r) \/ BeginFulfil(r) \/ BeginCancel(r) \/ BeginMarkPaid(r)
    <3>1. \E s \in {"claiming", "noting"} : \E p, m : ReadOrder(r, s, p, m)
      BY <2>1 DEF BeginStatus, BeginFulfil, BeginCancel, BeginMarkPaid
    <3>. QED  BY <3>1, ReadShelf
  <2>2. CASE Claim(r)
    BY <1>1, <2>2, ClaimShelf
  <2>3. CASE LoseClaim(r) \/ WriteTimeline(r)
    BY <2>3, ReturnShelf
  <2>4. ASSUME NEW l \in Line, MoveLine(r, l)
        PROVE  ShelfInv'
    BY <1>1, <2>4, MoveShelf
  <2>5. CASE NotePayment(r)
    BY <2>5, NoteShelf
  <2>6. CASE CompletePaid(r)
    BY <2>6, CompleteShelf
  <2>. QED  BY <1>3, <2>1, <2>2, <2>3, <2>4, <2>5, <2>6 DEF RequestStep
<1>4. ASSUME NEW x \in Corrections, CorrectStock(x)
      PROVE  ShelfInv'
  BY <1>4, CorrectionShelf
<1>5. CASE UNCHANGED vars
  <2>1. /\ UNCHANGED <<orderVars, requestVars>> /\ UNCHANGED <<placement, reserved>>
        /\ UNCHANGED <<stock, corrected, itemStatus, pc, call, todo>>
    BY <1>5 DEF vars, variantVars, checkoutVars, orderVars, requestVars
  <2>2. ASSUME NEW l \in Line
        PROVE  Gone(l)' = Gone(l)
    <3>1. Booked(l)' = Booked(l)
      BY <2>1, StillBookings
    <3>. QED  BY <2>1, <3>1 DEF Gone, Sold
  <2>3. MovingKinds'
    BY <2>1, SameKinds DEF ShelfInv
  <2>. QED  BY <2>1, <2>2, <2>3, QuietShelf
<1>. QED  BY <1>2, <1>3, <1>4, <1>5 DEF Next

(* On-hand stock is the opening stock and the corrections less the units   *)
(* that left with orders, whichever calls race for the order that ships    *)
(* them, however many parts it is shipped or cancelled in, and whatever    *)
(* corrections the seller enters meanwhile.                                *)
THEOREM ShelfIsExact == GoTogether(call) /\ Spec => []ShelfExact
<1>1. Init /\ GoTogether(call) => Inv /\ Covered /\ ShelfInv
  BY InitInv, InitCovered, InitShelf
<1>2. Inv /\ Covered /\ ShelfInv /\ [Next]_vars => Inv' /\ Covered' /\ ShelfInv'
  BY StepKeepsInv, StepKeepsCovered, StepKeepsShelf
<1>3. Inv /\ ShelfInv => ShelfExact
  <2>. SUFFICES ASSUME Inv, ShelfInv, NEW v \in Variant \ Backorder
                PROVE  stock[v] + Tally([l \in Line |-> IF VariantOf[l] = v THEN Departed(l) ELSE 0])
                         = InitialStock[v] + Entered(v, 1) - Entered(v, -1)
    BY DEF ShelfExact
  <2>1. [l \in Line |-> IF VariantOf[l] = v THEN Departed(l) ELSE 0] = GoneOf(v)
    BY DepartedIsGone DEF GoneOf
  <2>. QED  BY <2>1 DEF ShelfInv, ShelfGone
<1>. QED  BY <1>1, <1>2, <1>3, PTL DEF Spec
=============================================================================
