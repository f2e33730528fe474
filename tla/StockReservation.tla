-------------------------- MODULE StockReservation --------------------------
(***************************************************************************)
(* How units on the shelf are reserved at checkout, leave the shelf when   *)
(* a seller ships, and are given back when an order is cancelled.          *)
(*                                                                         *)
(* A variant document keeps `stock` (on hand) and `committedStock`         *)
(* (reserved by open orders).  An order document keeps the sub-order's     *)
(* status, its items and its shipments.  No handler locks anything: each   *)
(* reads the order once, decides, claims the order with a conditional      *)
(* update that names what it read, and only then moves stock, one variant  *)
(* document at a time.  Every access to the store is one action here, so   *)
(* requests interleave between any two of them, and a request that never   *)
(* takes its next step is one whose process died there.                    *)
(*                                                                         *)
(* One store, one sub-order per order; physical lines of variants with     *)
(* counted stock; orders are unpaid when placed (cash on delivery).        *)
(***************************************************************************)
EXTENDS Tally, OrderStatus

CONSTANTS
  Variant,        \* product variants with counted stock
  Backorder,      \* those of them that are sold without regard to stock
  Order,          \* orders, one per checkout
  Line,           \* order lines
  Request,        \* concurrent calls of the orders service
  OrderOf, VariantOf, Qty,  \* of a line
  InitialStock,   \* units on the shelf at first, per variant
  MayCall,        \* the calls a request may turn out to be
  Corrections     \* the stock corrections a seller may enter

Kinds == {"status", "fulfil", "cancel", "mark_paid"}
LinesOf(o) == {l \in Line : OrderOf[l] = o}

(* A call: `to` is for "status", `units` (a set of lines with quantities,  *)
(* 0 where not asked) for "fulfil", `lines` for "cancel".                  *)
Call == [kind : Kinds, order : Order, to : ProgressStatus,
         units : [Line -> Nat], lines : SUBSET Line]

ASSUME ShopAssumption ==
  /\ IsFiniteSet(Line) /\ IsFiniteSet(Request)
  /\ Backorder \subseteq Variant
  /\ OrderOf \in [Line -> Order]
  /\ VariantOf \in [Line -> Variant]
  /\ Qty \in [Line -> Nat \ {0}]
  /\ InitialStock \in [Variant -> Nat]
  /\ MayCall \in [Request -> SUBSET Call]
  /\ \A r \in Request : \A c \in MayCall[r] :
       /\ c.kind = "status" => c.to # "pending"
       /\ c.kind = "fulfil" => \A l \in Line : c.units[l] > 0 => OrderOf[l] = c.order
       /\ c.kind = "fulfil" => \E l \in Line : c.units[l] > 0
       /\ c.kind = "cancel" => c.lines # {} /\ c.lines \subseteq LinesOf(c.order)
  /\ Corrections \subseteq Variant \X Int

VARIABLES
  stock, committed,             \* the variant documents
  placement, reserved,          \* the checkout's progress, the lines it holds
  soStatus, shipments, updatedAt, isPaid,  \* the order documents
  itemStatus, shippedUnits,     \* their lines: status, units on a shipment
  pc, call, plan, todo,         \* the requests' progress and local variables
  corrected                     \* corrections already entered

variantVars == <<stock, committed>>
checkoutVars == <<placement, reserved>>
orderVars == <<soStatus, shipments, updatedAt, isPaid, itemStatus, shippedUnits>>
requestVars == <<pc, call, plan, todo>>
vars == <<variantVars, checkoutVars, orderVars, requestVars, corrected>>

NoUnits == [l \in Line |-> 0]
AsIs == "as_is"
NoPlan == [status |-> "pending", shipments |-> 0, updatedAt |-> 0,
           newStatus |-> "pending", items |-> [l \in Line |-> AsIs], ship |-> NoUnits]
Plan == [status : RollupStatus, shipments : Nat, updatedAt : Nat,
         newStatus : RollupStatus, items : [Line -> ItemStatus \cup {AsIs}],
         ship : [Line -> Nat]]

Placement == {"new", "reserving", "undoing", "refused", "placed"}
Step == {"idle", "claiming", "noting", "moving", "done"}

Init ==
  /\ stock = InitialStock
  /\ committed = [v \in Variant |-> 0]
  /\ placement = [o \in Order |-> "new"]
  /\ reserved = [o \in Order |-> {}]
  /\ soStatus = [o \in Order |-> "pending"]
  /\ shipments = [o \in Order |-> 0]
  /\ updatedAt = [o \in Order |-> 0]
  /\ isPaid = [o \in Order |-> FALSE]
  /\ itemStatus = [l \in Line |-> "pending"]
  /\ shippedUnits = NoUnits
  /\ pc = [r \in Request |-> "idle"]
  /\ call \in [Request -> UNION {MayCall[r] : r \in Request}]
  /\ \A r \in Request : call[r] \in MayCall[r]
  /\ plan = [r \in Request |-> NoPlan]
  /\ todo = [r \in Request |-> NoUnits]
  /\ corrected = {}

-----------------------------------------------------------------------------
(* Checkout: createOrderUnclaimed.                                         *)

(* The duplicate-order read finds nothing, the reservation loop starts.    *)
StartCheckout(o) ==
  /\ placement[o] = "new"
  /\ placement' = [placement EXCEPT ![o] = "reserving"]
  /\ UNCHANGED <<reserved, variantVars, orderVars, requestVars, corrected>>

(* Mutant of CanReserve: reserved units are on sale again.                 *)
OnTheShelf(l) ==
  VariantOf[l] \in Backorder \/ stock[VariantOf[l]] >= Qty[l]

(* AVAILABLE_STOCK_EXPR >= quantity, evaluated inside the update.          *)
CanReserve(l) ==
  \/ VariantOf[l] \in Backorder
  \/ stock[VariantOf[l]] - committed[VariantOf[l]] >= Qty[l]

ReserveLine(l) ==
  /\ placement[OrderOf[l]] = "reserving"
  /\ l \notin reserved[OrderOf[l]]
  /\ CanReserve(l)
  /\ committed' = [committed EXCEPT ![VariantOf[l]] = @ + Qty[l]]
  /\ reserved' = [reserved EXCEPT ![OrderOf[l]] = @ \cup {l}]
  /\ UNCHANGED <<stock, placement, orderVars, requestVars, corrected>>

(* A line that cannot be reserved, or an insert that fails, makes the      *)
(* checkout give back what it holds.                                       *)
RefuseCheckout(o) ==
  /\ placement[o] = "reserving"
  /\ \/ \E l \in LinesOf(o) \ reserved[o] : ~CanReserve(l)
     \/ LinesOf(o) \subseteq reserved[o]
  /\ placement' = [placement EXCEPT ![o] = "undoing"]
  /\ UNCHANGED <<reserved, variantVars, orderVars, requestVars, corrected>>

(* One $inc of -quantity, with no floor.                                   *)
UndoLine(l) ==
  /\ placement[OrderOf[l]] = "undoing"
  /\ l \in reserved[OrderOf[l]]
  /\ committed' = [committed EXCEPT ![VariantOf[l]] = @ - Qty[l]]
  /\ reserved' = [reserved EXCEPT ![OrderOf[l]] = @ \ {l}]
  /\ UNCHANGED <<stock, placement, orderVars, requestVars, corrected>>

FinishUndo(o) ==
  /\ placement[o] = "undoing"
  /\ reserved[o] = {}
  /\ placement' = [placement EXCEPT ![o] = "refused"]
  /\ UNCHANGED <<reserved, variantVars, orderVars, requestVars, corrected>>

InsertOrder(o) ==
  /\ placement[o] = "reserving"
  /\ LinesOf(o) \subseteq reserved[o]
  /\ placement' = [placement EXCEPT ![o] = "placed"]
  /\ UNCHANGED <<reserved, variantVars, orderVars, requestVars, corrected>>

-----------------------------------------------------------------------------
(* The order handlers.  What each of them computes from the order it read. *)

Live(l) == itemStatus[l] \notin DeadStatus
Left(l) == IF Qty[l] > shippedUnits[l] THEN Qty[l] - shippedUnits[l] ELSE 0
OrderStatus(o) == Rollup({soStatus[o]})

(* unshippedLines: what is still to be shipped of the live lines.          *)
Unshipped(o) == [l \in Line |-> IF OrderOf[l] = o /\ Live(l) THEN Left(l) ELSE 0]

SetLive(o, s) == [l \in Line |-> IF OrderOf[l] = o /\ Live(l) THEN s ELSE AsIs]

(* validateFulfilRequest: would this shipment leave nothing to ship?       *)
ShipsEverything(c) == \A l \in LinesOf(c.order) : Live(l) => c.units[l] >= Left(l)

PlanFrom(o, newStatus, items, ship) ==
  [status |-> soStatus[o], shipments |-> shipments[o], updatedAt |-> updatedAt[o],
   newStatus |-> newStatus, items |-> items, ship |-> ship]

StatusPlan(c) ==
  PlanFrom(c.order, c.to, SetLive(c.order, c.to),
           IF c.to = "shipped" THEN Unshipped(c.order) ELSE NoUnits)

(* Mutant of StatusMoves: every fulfilled status moves the stock.          *)
MoveAgain(c) == IF c.to \in FulfilledStatus THEN Unshipped(c.order) ELSE NoUnits

(* Stock moves on the first transition into a fulfilled status only.       *)
StatusMoves(c) ==
  IF c.to \in FulfilledStatus /\ soStatus[c.order] \notin FulfilledStatus
  THEN Unshipped(c.order) ELSE NoUnits

FulfilPlan(c) ==
  LET o == c.order
      all == ShipsEverything(c)
  IN  PlanFrom(o,
        IF all THEN "shipped" ELSE IF soStatus[o] = "pending" THEN "processing" ELSE soStatus[o],
        [l \in Line |->
           IF OrderOf[l] # o \/ ~Live(l) THEN AsIs
           ELSE IF all \/ c.units[l] >= Left(l) THEN "shipped"
           ELSE IF itemStatus[l] = "pending" THEN "processing" ELSE AsIs],
        c.units)

CancelPlan(c) ==
  PlanFrom(c.order,
           Rollup({IF l \in c.lines THEN "cancelled" ELSE itemStatus[l] : l \in LinesOf(c.order)}),
           [l \in Line |-> IF l \in c.lines THEN "cancelled" ELSE AsIs],
           NoUnits)

(* A cancelled line releases its whole quantity, shipped units included.   *)
CancelMoves(c) == [l \in Line |-> IF l \in c.lines THEN Qty[l] ELSE 0]

PaidPlan(c) ==
  PlanFrom(c.order, "completed",
           [l \in Line |-> IF OrderOf[l] = c.order THEN "completed" ELSE AsIs], NoUnits)

(* fulfilStockForSellerOrders: every line in full, whatever its status.    *)
PaidMoves(c) ==
  [l \in Line |-> IF OrderOf[l] = c.order /\ soStatus[c.order] \notin FulfilledStatus
                  THEN Qty[l] ELSE 0]

-----------------------------------------------------------------------------
(* The order handlers, one store access at a time.                         *)

ReadOrder(r, step, newPlan, moves) ==
  /\ pc[r] = "idle"
  /\ placement[call[r].order] = "placed"
  /\ pc' = [pc EXCEPT ![r] = step]
  /\ plan' = [plan EXCEPT ![r] = newPlan]
  /\ todo' = [todo EXCEPT ![r] = moves]
  /\ UNCHANGED <<call, variantVars, checkoutVars, orderVars, corrected>>

BeginStatus(r) ==
  LET c == call[r] IN
  /\ c.kind = "status"
  /\ AllowedTransition(soStatus[c.order], c.to)
  /\ ReadOrder(r, "claiming", StatusPlan(c), StatusMoves(c))

Fulfillable == {"pending", "processing"} \cup PartialStatus

(* Mutant of BeginFulfil: what was shipped already is not looked at.       *)
FulfilAgain(r) ==
  LET c == call[r] IN
  /\ c.kind = "fulfil"
  /\ soStatus[c.order] \in Fulfillable
  /\ \A l \in Line : c.units[l] > 0 => Live(l)
  /\ ReadOrder(r, "claiming", FulfilPlan(c), c.units)

BeginFulfil(r) ==
  LET c == call[r] IN
  /\ c.kind = "fulfil"
  /\ soStatus[c.order] \in Fulfillable
  /\ \A l \in Line : c.units[l] > 0 => Live(l) /\ c.units[l] <= Left(l)
  /\ ReadOrder(r, "claiming", FulfilPlan(c), c.units)

(* Mutant of BeginCancel: shipped items can be cancelled.                  *)
CancelShipped(r) ==
  LET c == call[r] IN
  /\ c.kind = "cancel"
  /\ ~isPaid[c.order]
  /\ OrderStatus(c.order) \notin {"completed", "cancelled"}
  /\ \A l \in c.lines : itemStatus[l] # "cancelled"
  /\ ReadOrder(r, "claiming", CancelPlan(c), CancelMoves(c))

BeginCancel(r) ==
  LET c == call[r] IN
  /\ c.kind = "cancel"
  /\ ~isPaid[c.order]
  /\ OrderStatus(c.order) \notin {"completed", "cancelled"}
  /\ \A l \in c.lines : itemStatus[l] \notin FulfilledStatus \cup {"cancelled"}
  /\ ReadOrder(r, "claiming", CancelPlan(c), CancelMoves(c))

BeginMarkPaid(r) ==
  LET c == call[r] IN
  /\ c.kind = "mark_paid"
  /\ ~isPaid[c.order]
  /\ {soStatus[c.order], OrderStatus(c.order)} \cap DeadStatus = {}
  /\ ReadOrder(r, "noting", PaidPlan(c), PaidMoves(c))

(* Mutant of StillAsRead: the claiming update has no condition.            *)
ClaimBlindly(r) == TRUE

(* The condition in the claiming update: a cancellation names `updatedAt`, *)
(* the others name the sub-order's status and its number of shipments.     *)
StillAsRead(r) ==
  LET o == call[r].order IN
  IF call[r].kind = "cancel"
  THEN updatedAt[o] = plan[r].updatedAt
  ELSE soStatus[o] = plan[r].status /\ shipments[o] = plan[r].shipments

(* Mutant of WritePlan: items the handler left alone are written too.      *)
WriteEveryItem(r) ==
  LET o == call[r].order IN
  /\ soStatus' = [soStatus EXCEPT ![o] = plan[r].newStatus]
  /\ itemStatus' = plan[r].items
  /\ shippedUnits' = [l \in Line |-> shippedUnits[l] + plan[r].ship[l]]
  /\ shipments' = [shipments EXCEPT ![o] = IF plan[r].ship = NoUnits THEN @ ELSE @ + 1]
  /\ updatedAt' = [updatedAt EXCEPT ![o] = @ + 1]

WritePlan(r) ==
  LET o == call[r].order IN
  /\ soStatus' = [soStatus EXCEPT ![o] = plan[r].newStatus]
  /\ itemStatus' = [l \in Line |-> IF plan[r].items[l] = AsIs THEN itemStatus[l]
                                                             ELSE plan[r].items[l]]
  /\ shippedUnits' = [l \in Line |-> shippedUnits[l] + plan[r].ship[l]]
  /\ shipments' = [shipments EXCEPT ![o] = IF plan[r].ship = NoUnits THEN @ ELSE @ + 1]
  /\ updatedAt' = [updatedAt EXCEPT ![o] = @ + 1]

Claim(r) ==
  /\ pc[r] = "claiming"
  /\ StillAsRead(r)
  /\ WritePlan(r)
  /\ pc' = [pc EXCEPT ![r] = "moving"]
  /\ UNCHANGED <<isPaid, call, plan, todo, variantVars, checkoutVars, corrected>>

(* The handler returns and its local variables are gone.                   *)
Return(r) ==
  /\ pc' = [pc EXCEPT ![r] = "done"]
  /\ plan' = [plan EXCEPT ![r] = NoPlan]
  /\ todo' = [todo EXCEPT ![r] = NoUnits]

(* Somebody else changed the order: the caller is told to try again.       *)
LoseClaim(r) ==
  /\ pc[r] = "claiming"
  /\ ~StillAsRead(r)
  /\ Return(r)
  /\ UNCHANGED <<call, variantVars, checkoutVars, orderVars, corrected>>

Less(n, q) == IF n > q THEN n - q ELSE 0

(* One variant document: a shipment takes units off the shelf and out of   *)
(* the reservation, a cancellation out of the reservation; neither goes    *)
(* below zero.                                                             *)
MoveLine(r, l) ==
  LET v == VariantOf[l]
      q == todo[r][l]
  IN
  /\ pc[r] = "moving"
  /\ q > 0
  /\ stock' = IF call[r].kind = "cancel" THEN stock
              ELSE [stock EXCEPT ![v] = Less(@, q)]
  /\ committed' = [committed EXCEPT ![v] = Less(@, q)]
  /\ todo' = [todo EXCEPT ![r] = [@ EXCEPT ![l] = 0]]
  /\ UNCHANGED <<pc, call, plan, checkoutVars, orderVars, corrected>>

(* pushTimeline: a write to the order document like any other.             *)
WriteTimeline(r) ==
  /\ pc[r] = "moving"
  /\ todo[r] = NoUnits
  /\ call[r].kind # "mark_paid"
  /\ updatedAt' = [updatedAt EXCEPT ![call[r].order] = @ + 1]
  /\ Return(r)
  /\ UNCHANGED <<soStatus, shipments, isPaid, itemStatus, shippedUnits,
                 call, variantVars, checkoutVars, corrected>>

(* finalizeOrderPayment: the timeline first, then the stock, and the order *)
(* last, with no condition on what it is by then.                          *)
NotePayment(r) ==
  /\ pc[r] = "noting"
  /\ updatedAt' = [updatedAt EXCEPT ![call[r].order] = @ + 1]
  /\ pc' = [pc EXCEPT ![r] = "moving"]
  /\ UNCHANGED <<soStatus, shipments, isPaid, itemStatus, shippedUnits,
                 call, plan, todo, variantVars, checkoutVars, corrected>>

CompletePaid(r) ==
  /\ pc[r] = "moving"
  /\ todo[r] = NoUnits
  /\ call[r].kind = "mark_paid"
  /\ WritePlan(r)
  /\ isPaid' = [isPaid EXCEPT ![call[r].order] = TRUE]
  /\ Return(r)
  /\ UNCHANGED <<call, variantVars, checkoutVars, corrected>>

-----------------------------------------------------------------------------
(* A seller's stock correction, one guarded update; each is entered once.  *)
CorrectStock(x) ==
  LET v == x[1] IN
  /\ x \notin corrected
  /\ stock[v] + x[2] >= committed[v]
  /\ stock' = [stock EXCEPT ![v] = @ + x[2]]
  /\ corrected' = corrected \cup {x}
  /\ UNCHANGED <<committed, checkoutVars, orderVars, requestVars>>

CheckoutStep ==
  \/ \E o \in Order : \/ StartCheckout(o)
                      \/ RefuseCheckout(o)
                      \/ FinishUndo(o)
                      \/ InsertOrder(o)
  \/ \E l \in Line : \/ ReserveLine(l)
                     \/ UndoLine(l)

RequestStep(r) ==
  \/ BeginStatus(r)
  \/ BeginFulfil(r)
  \/ BeginCancel(r)
  \/ BeginMarkPaid(r)
  \/ Claim(r)
  \/ LoseClaim(r)
  \/ \E l \in Line : MoveLine(r, l)
  \/ WriteTimeline(r)
  \/ NotePayment(r)
  \/ CompletePaid(r)

Next ==
  \/ CheckoutStep
  \/ \E r \in Request : RequestStep(r)
  \/ \E x \in Corrections : CorrectStock(x)

Spec == Init /\ [][Next]_vars

-----------------------------------------------------------------------------
(* Which calls on one order the claims above can keep apart.               *)

Cancels(calls, l) == \E r \in Request : calls[r].kind = "cancel" /\ l \in calls[r].lines
SendsBack(c) == c.kind = "status" /\ c.to = "processing"

(* Calls of different requests on the same order go together if none       *)
(* records a payment by hand; a line that may be cancelled is shipped in   *)
(* one piece; two cancellations share a line or leave none; and an order   *)
(* that may be set back to "processing" is cancelled as a whole, if at     *)
(* all, and if so its shipments are not entered one by one.  A call that   *)
(* is the only one on its order always does.                               *)
GoTogether(calls) ==
  \A r, q \in Request : r # q /\ calls[r].order = calls[q].order =>
    LET c == calls[r]
        d == calls[q]
    IN  /\ c.kind # "mark_paid"
        /\ c.kind = "fulfil" =>
             \A l \in Line : Cancels(calls, l) => c.units[l] \in {0, Qty[l]}
        /\ c.kind = "cancel" /\ d.kind = "cancel" =>
             c.lines \cap d.lines # {} \/ c.lines \cup d.lines = LinesOf(c.order)
        /\ SendsBack(c) /\ d.kind = "cancel" => d.lines = LinesOf(c.order)
        /\ SendsBack(c) /\ d.kind = "fulfil" =>
             \A l \in LinesOf(c.order) : ~Cancels(calls, l)

-----------------------------------------------------------------------------
(* Properties.                                                             *)

(* Every variable keeps its type.                                          *)
TypeOK ==
  /\ stock \in [Variant -> Int] /\ committed \in [Variant -> Int]
  /\ placement \in [Order -> Placement]
  /\ reserved \in [Order -> SUBSET Line]
  /\ soStatus \in [Order -> RollupStatus]
  /\ shipments \in [Order -> Nat] /\ updatedAt \in [Order -> Nat]
  /\ isPaid \in [Order -> BOOLEAN]
  /\ itemStatus \in [Line -> ItemStatus]
  /\ shippedUnits \in [Line -> Nat]
  /\ pc \in [Request -> Step]
  /\ call \in [Request -> Call]
  /\ plan \in [Request -> Plan]
  /\ todo \in [Request -> [Line -> Nat]]
  /\ corrected \subseteq Corrections

(* Units of a line whose order no longer shows them but whose stock        *)
(* documents still do: claimed by a request that has yet to move them.     *)
InFlight(l) == Tally([r \in Request |-> IF pc[r] = "moving" /\ call[r].kind # "mark_paid"
                                        THEN todo[r][l] ELSE 0])

(* A payment being recorded moves the stock before it writes the order.    *)
MovedAhead(l) ==
  \E r \in Request : /\ pc[r] = "moving" /\ call[r].kind = "mark_paid"
                     /\ call[r].order = OrderOf[l] /\ plan[r].status \notin FulfilledStatus
                     /\ todo[r][l] = 0

(* What the order document says is still to be shipped.                    *)
Open(l) ==
  IF ~Live(l) \/ soStatus[OrderOf[l]] \in FulfilledStatus \/ MovedAhead(l)
  THEN 0 ELSE Left(l)

(* The units a line entitles to a reservation.                             *)
Booked(l) ==
  IF placement[OrderOf[l]] = "placed" THEN Open(l) + InFlight(l)
  ELSE IF l \in reserved[OrderOf[l]] THEN Qty[l] ELSE 0

BookedOf(v) == [l \in Line |-> IF VariantOf[l] = v THEN Booked(l) ELSE 0]

(* `committedStock` is exactly what the open orders and the checkouts in   *)
(* progress still need: no reservation leaks, none is released twice, at   *)
(* any point between any two store accesses of any requests.               *)
ReservationExact == \A v \in Variant : committed[v] = Tally(BookedOf(v))

(* Every unit promised to a buyer of a variant that is not on back-order   *)
(* is on the shelf, whatever checkouts, shipments, cancellations and       *)
(* stock corrections run at the same time.                                 *)
NoOversell == \A v \in Variant \ Backorder : Tally(BookedOf(v)) <= stock[v]

(* Units of a line that have left the shop.                                *)
Departed(l) ==
  LET o == OrderOf[l] IN
  IF placement[o] # "placed" THEN 0
  ELSE IF MovedAhead(l) \/ (Live(l) /\ soStatus[o] \in FulfilledStatus)
       THEN Qty[l] - InFlight(l)
  ELSE IF Live(l) THEN shippedUnits[l] - InFlight(l)
  ELSE shippedUnits[l]

Entered(v, sign) ==
  Tally([x \in corrected |-> IF x[1] = v /\ sign * x[2] > 0 THEN sign * x[2] ELSE 0])

(* On-hand stock is the opening stock and the corrections less the units   *)
(* that left with orders: a shipment takes each unit off the shelf once    *)
(* whichever handler ships it, and a lost race takes none.                 *)
ShelfExact ==
  \A v \in Variant \ Backorder :
    stock[v] + Tally([l \in Line |-> IF VariantOf[l] = v THEN Departed(l) ELSE 0])
      = InitialStock[v] + Entered(v, 1) - Entered(v, -1)

(* Shipments never cover more units of a line than were ordered.           *)
NeverOverShipped == \A l \in Line : shippedUnits[l] <= Qty[l]

(* Only units that never left are given back: a cancelled item was never   *)
(* on a shipment.                                                          *)
CancelledNeverShipped ==
  \A l \in Line : itemStatus[l] = "cancelled" => shippedUnits[l] = 0
=============================================================================
