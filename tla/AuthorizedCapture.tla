------------------------- MODULE AuthorizedCapture -------------------------
(***************************************************************************)
(* A checkout of a store that captures by hand.  The card is authorized,   *)
(* the orders are placed unpaid, and the money is captured later: by the   *)
(* seller, in full or in part, or when the first goods are shipped.  An    *)
(* authorization that is not captured expires.                             *)
(*                                                                         *)
(* Calls to Stripe, reads and writes of documents are actions.  An event   *)
(* is handled once at a time (its id is unique in the event collection)    *)
(* and delivered again when its handler failed.                            *)
(***************************************************************************)
EXTENDS Tally

CONSTANTS
  Order,          \* the orders of the checkout, physical and digital
  Total,          \* the amount of each
  Units,          \* the units of stock each reserves
  Call,           \* requests of the seller
  About, Part,    \* the order a request is about; the amount to capture, 0: all
  Ships,          \* requests that ship the order
  Failures        \* writes that fail

ASSUME CaptureAssumption ==
  /\ IsFiniteSet(Order) /\ Order # {}
  /\ Total \in [Order -> Nat \ {0}] /\ Units \in [Order -> Nat]
  /\ About \in [Call -> Order] /\ Part \in [Call -> Nat]
  /\ Ships \subseteq {c \in Call : Part[c] = 0}
  /\ Call \cap {"authorize", "succeed", "cancel"} = {}
  /\ Failures \in Nat

Event == {"authorize", "succeed", "cancel"}
Handler == Event \cup Call

VARIABLES
  intent, captured,    \* Stripe: the payment intent, and the amount it captured
  events,              \* events to be delivered
  txn, linked,         \* the transaction's status, and whether it names its orders
  payment, amount,     \* of an order: its payment status and its total
  cancelled, voided,   \* orders cancelled by hand, and with their authorization
  shipped,             \* orders that were shipped
  cancelling,          \* orders a cancellation has read, unchanged since
  committed,           \* reserved stock
  pc, todo, write,     \* handlers: where they are, orders to save, new totals (0: as it is)
  failures, broken     \* writes that failed; whether one broke off a handler for good

stripeVars == <<intent, captured, events>>
txnVars == <<txn, linked>>
orderVars == <<payment, amount, cancelled, voided, shipped, cancelling, committed>>
handlerVars == <<pc, todo, write>>
faultVars == <<failures, broken>>
vars == <<stripeVars, txnVars, orderVars, handlerVars, faultVars>>

Init ==
  /\ intent = "open" /\ captured = 0 /\ events = {}
  /\ txn = "pending" /\ linked = FALSE
  /\ payment = [o \in Order |-> "none"]
  /\ amount = Total
  /\ cancelled = {} /\ voided = {} /\ shipped = {} /\ cancelling = {}
  /\ committed = 0
  /\ pc = [h \in Handler |-> "idle"]
  /\ todo = [h \in Handler |-> {}]
  /\ write = [h \in Handler |-> [o \in Order |-> 0]]
  /\ failures = 0 /\ broken = FALSE

Goto(h, step) == pc' = [pc EXCEPT ![h] = step]

-----------------------------------------------------------------------------
(* Stripe.                                                                 *)

Authorize ==
  /\ intent = "open"
  /\ intent' = "capturable"
  /\ events' = events \cup {"authorize"}
  /\ UNCHANGED <<captured, txnVars, orderVars, handlerVars, faultVars>>

(* The authorization expires, or is voided on Stripe's own page.           *)
Expire ==
  /\ intent = "capturable"
  /\ intent' = "canceled"
  /\ events' = events \cup {"cancel"}
  /\ UNCHANGED <<captured, txnVars, orderVars, handlerVars, faultVars>>

Deliver(e) == e \in events /\ pc[e] = "idle" /\ events' = events \ {e}

(* A handler that fails before it kept anything has its event delivered    *)
(* again.                                                                  *)
Fail(e) ==
  /\ failures < Failures /\ failures' = failures + 1
  /\ events' = events \cup {e}
  /\ Goto(e, "idle")
  /\ UNCHANGED broken

(* A handler that fails, or whose process ends, once the transaction says  *)
(* it is done is not made up for: delivered again, its event finds nothing *)
(* to do.                                                                  *)
BreakOff(h) ==
  /\ pc[h] \in {"placing", "linking", "completing", "finding", "saving", "voiding"}
  /\ failures < Failures /\ failures' = failures + 1
  /\ broken' = TRUE
  /\ events' = events \cup ({h} \cap Event)
  /\ todo' = [todo EXCEPT ![h] = {}]
  /\ Goto(h, "idle")
  /\ UNCHANGED <<intent, captured, txnVars, orderVars, write>>

-----------------------------------------------------------------------------
(* authorizePaymentIntent.                                                 *)

ClaimAuthorization ==
  /\ Deliver("authorize")
  /\ IF txn = "pending"
     THEN txn' = "authorized" /\ Goto("authorize", "placing")
     ELSE UNCHANGED <<txn, pc>>
  /\ UNCHANGED <<intent, captured, linked, orderVars, todo, write, faultVars>>

PlaceOrders ==
  /\ pc["authorize"] = "placing"
  /\ payment' = [o \in Order |-> "authorized"]
  /\ committed' = committed + Tally(Units)
  /\ Goto("authorize", "linking")
  /\ UNCHANGED <<stripeVars, txnVars, amount, cancelled, voided, shipped, cancelling, todo, write, faultVars>>

FailPlacing ==
  /\ pc["authorize"] = "placing"
  /\ txn' = "pending"
  /\ Fail("authorize")
  /\ UNCHANGED <<intent, captured, linked, orderVars, todo, write>>

(* The goods are gone: the authorization is released, which fails when it  *)
(* is released already.                                                    *)
ReleaseSoldOut ==
  /\ pc["authorize"] = "placing"
  /\ intent = "capturable"
  /\ intent' = "canceled"
  /\ events' = events \cup {"cancel"}
  /\ Goto("authorize", "releasing")
  /\ UNCHANGED <<captured, txnVars, orderVars, todo, write, faultVars>>

NoteReleased ==
  /\ pc["authorize"] = "releasing"
  /\ txn' = "refunded"
  /\ Goto("authorize", "idle")
  /\ UNCHANGED <<stripeVars, linked, orderVars, todo, write, faultVars>>

LinkOrders ==
  /\ pc["authorize"] = "linking"
  /\ linked' = TRUE
  /\ Goto("authorize", "idle")
  /\ UNCHANGED <<stripeVars, txn, orderVars, todo, write, faultVars>>

-----------------------------------------------------------------------------
(* markOrdersCaptured.                                                     *)

Rounded(a, b) == (2 * a + b) \div (2 * b)

(* The orders not yet paid are read.  When less than their sum was         *)
(* captured each is to be scaled down by the same ratio.                   *)
FindUnpaid(h, total) ==
  LET unpaid == {o \in Order : payment[o] # "paid"}
      original == Tally([o \in unpaid |-> amount[o]])
      scaled(o) == IF o \in unpaid /\ total < original THEN Rounded(amount[o] * total, original) ELSE 0 IN
  /\ pc[h] = "finding"
  /\ todo' = [todo EXCEPT ![h] = unpaid]
  /\ write' = [write EXCEPT ![h] = [o \in Order |-> scaled(o)]]
  /\ Goto(h, "saving")
  /\ UNCHANGED <<stripeVars, txnVars, orderVars, faultVars>>

(* Mutant of SaveCaptured: the write leaves the time of the last change.   *)
SaveQuietly(h, o) ==
  /\ pc[h] = "saving" /\ o \in todo[h]
  /\ todo' = [todo EXCEPT ![h] = @ \ {o}]
  /\ payment' = [payment EXCEPT ![o] = "paid"]
  /\ amount' = [amount EXCEPT ![o] = IF write[h][o] > 0 THEN write[h][o] ELSE @]
  /\ UNCHANGED <<stripeVars, txnVars, cancelled, voided, shipped, cancelling, committed, pc, write, faultVars>>

(* The save writes what the handler changed of the document, and with it   *)
(* the time of the last change, which a cancellation compares.             *)
SaveCaptured(h, o) ==
  /\ pc[h] = "saving" /\ o \in todo[h]
  /\ todo' = [todo EXCEPT ![h] = @ \ {o}]
  /\ payment' = [payment EXCEPT ![o] = "paid"]
  /\ amount' = [amount EXCEPT ![o] = IF write[h][o] > 0 THEN write[h][o] ELSE @]
  /\ cancelling' = cancelling \ {o}
  /\ UNCHANGED <<stripeVars, txnVars, cancelled, voided, shipped, committed, pc, write, faultVars>>

EndSaving(h) ==
  /\ pc[h] = "saving" /\ todo[h] = {}
  /\ Goto(h, IF h \in Ships THEN "shipping" ELSE "idle")
  /\ UNCHANGED <<stripeVars, txnVars, orderVars, todo, write, faultVars>>

-----------------------------------------------------------------------------
(* captureOrderPayment, and the shipping that waits for it.                *)

Open(o) == o \notin cancelled \cup voided \cup shipped

(* Mutant of BeginCapture: goods are shipped before the money is captured. *)
BeginShipping(c) ==
  LET o == About[c] IN
  /\ pc[c] = "idle"
  /\ \/ c \notin Ships /\ payment[o] = "authorized" /\ txn = "authorized" /\ linked
        /\ Part[c] <= Tally(amount)
        /\ Goto(c, "capturing")
     \/ c \in Ships /\ payment[o] \in {"authorized", "paid"} /\ Open(o) /\ Goto(c, "shipping")
  /\ UNCHANGED <<stripeVars, txnVars, orderVars, todo, write, faultVars>>

(* The order waits for its money and its transaction is authorized; an     *)
(* order that was paid before ships at once.  Whether the order was        *)
(* cancelled is asked by shipping, not by capturing.                       *)
BeginCapture(c) ==
  LET o == About[c] IN
  /\ pc[c] = "idle"
  /\ c \in Ships => Open(o)
  /\ \/ payment[o] = "authorized" /\ txn = "authorized" /\ linked
        /\ Part[c] <= Tally(amount)
        /\ Goto(c, "capturing")
     \/ c \in Ships /\ payment[o] = "paid" /\ Goto(c, "shipping")
  /\ UNCHANGED <<stripeVars, txnVars, orderVars, todo, write, faultVars>>

Captures(c) == IF Part[c] = 0 THEN Tally(Total) ELSE Part[c]

(* Stripe captures once; the answer may be lost.                           *)
Capture(c) ==
  /\ pc[c] = "capturing"
  /\ IF intent = "capturable"
     THEN /\ intent' = "captured" /\ captured' = Captures(c)
          /\ events' = events \cup {"succeed"}
          /\ \/ Goto(c, "completing")
             \/ Goto(c, "idle")
     ELSE UNCHANGED stripeVars /\ Goto(c, "idle")
  /\ UNCHANGED <<txnVars, orderVars, todo, write, faultVars>>

CompleteRow(c) ==
  /\ pc[c] = "completing"
  /\ txn' = "completed"
  /\ Goto(c, "finding")
  /\ UNCHANGED <<stripeVars, linked, orderVars, todo, write, faultVars>>

(* A cancellation since then is seen by the conditional write.             *)
Ship(c) ==
  LET o == About[c] IN
  /\ pc[c] = "shipping"
  /\ IF Open(o)
     THEN /\ shipped' = shipped \cup {o} /\ cancelling' = cancelling \ {o}
          /\ committed' = committed - Units[o]
     ELSE UNCHANGED <<shipped, cancelling, committed>>
  /\ Goto(c, "idle")
  /\ UNCHANGED <<stripeVars, txnVars, payment, amount, cancelled, voided, todo, write, faultVars>>

-----------------------------------------------------------------------------
(* The events of a capture and of a cancelled authorization.               *)

(* Mutant of ClaimCapture: a transaction that is authorized is not looked  *)
(* for.                                                                    *)
ClaimPending ==
  /\ Deliver("succeed")
  /\ IF txn = "pending"
     THEN txn' = "completed" /\ Goto("succeed", "finding")
     ELSE UNCHANGED <<txn, pc>>
  /\ UNCHANGED <<intent, captured, linked, orderVars, todo, write, faultVars>>

(* finalizePaymentIntent for orders that exist.                            *)
ClaimCapture ==
  /\ Deliver("succeed")
  /\ IF txn \in {"pending", "authorized"}
     THEN txn' = "completed" /\ Goto("succeed", "finding")
     ELSE UNCHANGED <<txn, pc>>
  /\ UNCHANGED <<intent, captured, linked, orderVars, todo, write, faultVars>>

(* Mutant of ClaimCancel: the transaction takes Stripe's word for it.      *)
ClaimCancelVerbatim ==
  /\ Deliver("cancel")
  /\ txn' = IF txn = "authorized" THEN "canceled" ELSE txn
  /\ UNCHANGED <<intent, captured, linked, orderVars, handlerVars, faultVars>>

(* handleAuthorizationCanceled.                                            *)
ClaimCancel ==
  /\ Deliver("cancel")
  /\ IF txn = "authorized"
     THEN /\ txn' = "failed"
          /\ IF linked
             THEN /\ todo' = [todo EXCEPT !["cancel"] = {o \in Order : payment[o] = "authorized"}]
                  /\ Goto("cancel", "voiding")
             ELSE UNCHANGED <<todo, pc>>
     ELSE UNCHANGED <<txn, todo, pc>>
  /\ UNCHANGED <<intent, captured, linked, orderVars, write, faultVars>>

(* Mutant of VoidOrder: only the status is written.                        *)
VoidStatus(o) ==
  /\ pc["cancel"] = "voiding" /\ o \in todo["cancel"]
  /\ todo' = [todo EXCEPT !["cancel"] = @ \ {o}]
  /\ payment' = [payment EXCEPT ![o] = "failed"]
  /\ voided' = voided \cup {o} /\ cancelling' = cancelling \ {o}
  /\ UNCHANGED <<stripeVars, txnVars, amount, cancelled, shipped, committed, pc, write, faultVars>>

(* Every line's reservation is released, whatever became of the order.     *)
VoidOrder(o) ==
  /\ pc["cancel"] = "voiding" /\ o \in todo["cancel"]
  /\ todo' = [todo EXCEPT !["cancel"] = @ \ {o}]
  /\ payment' = [payment EXCEPT ![o] = "failed"]
  /\ voided' = voided \cup {o} /\ cancelling' = cancelling \ {o}
  /\ committed' = committed - Units[o]
  /\ UNCHANGED <<stripeVars, txnVars, amount, cancelled, shipped, pc, write, faultVars>>

EndVoiding ==
  /\ pc["cancel"] = "voiding" /\ todo["cancel"] = {}
  /\ Goto("cancel", "idle")
  /\ UNCHANGED <<stripeVars, txnVars, orderVars, todo, write, faultVars>>

-----------------------------------------------------------------------------
(* executeCancellation of an unpaid order, by the buyer or the seller; the *)
(* payment is left alone.  (One of a paid order is refused, see            *)
(* RefundBudget.)                                                          *)

ReadToCancel(o) ==
  /\ payment[o] = "authorized" /\ Open(o) /\ o \notin cancelling
  /\ cancelling' = cancelling \cup {o}
  /\ UNCHANGED <<stripeVars, txnVars, payment, amount, cancelled, voided, shipped, committed, handlerVars, faultVars>>

CancelOrder(o) ==
  /\ o \in cancelling
  /\ cancelling' = cancelling \ {o}
  /\ cancelled' = cancelled \cup {o}
  /\ committed' = IF committed > Units[o] THEN committed - Units[o] ELSE 0
  /\ UNCHANGED <<stripeVars, txnVars, payment, amount, voided, shipped, handlerVars, faultVars>>

-----------------------------------------------------------------------------
AuthorizeStep ==
  \/ ClaimAuthorization \/ PlaceOrders \/ FailPlacing
  \/ ReleaseSoldOut \/ NoteReleased \/ LinkOrders
MarkStep(h) == (\E o \in Order : SaveCaptured(h, o)) \/ EndSaving(h)
CallStep(c) == Capture(c) \/ CompleteRow(c) \/ FindUnpaid(c, Captures(c)) \/ MarkStep(c) \/ Ship(c)
SucceedStep == ClaimCapture \/ FindUnpaid("succeed", Tally(amount)) \/ MarkStep("succeed")
CancelStep == ClaimCancel \/ (\E o \in Order : VoidOrder(o)) \/ EndVoiding

Next ==
  \/ Authorize \/ Expire
  \/ AuthorizeStep \/ SucceedStep \/ CancelStep
  \/ \E h \in Handler : BreakOff(h)
  \/ \E c \in Call : BeginCapture(c) \/ CallStep(c)
  \/ \E o \in Order : ReadToCancel(o) \/ CancelOrder(o)

Spec == Init /\ [][Next]_vars

(* Events are delivered and calls that have begun go on; nobody has to     *)
(* begin one.                                                              *)
FairSpec ==
  /\ Spec
  /\ WF_vars(AuthorizeStep) /\ WF_vars(SucceedStep) /\ WF_vars(CancelStep)
  /\ \A c \in Call : WF_vars(CallStep(c))

-----------------------------------------------------------------------------
(* Properties.                                                             *)

Steps == {"idle", "placing", "linking", "releasing", "capturing", "completing", "finding",
          "saving", "shipping", "voiding"}

(* Every variable keeps its type.                                          *)
TypeOK ==
  /\ intent \in {"open", "capturable", "captured", "canceled"} /\ captured \in Nat
  /\ events \subseteq Event
  /\ txn \in {"pending", "authorized", "completed", "failed", "refunded"} /\ linked \in BOOLEAN
  /\ payment \in [Order -> {"none", "authorized", "paid", "failed"}]
  /\ amount \in [Order -> Nat]
  /\ \A orders \in {cancelled, voided, shipped, cancelling} : orders \subseteq Order
  /\ committed \in Int
  /\ pc \in [Handler -> Steps]
  /\ todo \in [Handler -> SUBSET Order]
  /\ write \in [Handler -> [Order -> Nat]]
  /\ failures \in 0 .. Failures /\ broken \in BOOLEAN

(* What the orders say of the money is what became of it: nothing is paid  *)
(* or shipped unless the money was captured, nothing is given up for an    *)
(* expired authorization that was captured after all.                      *)
PaymentsAgree ==
  \A o \in Order :
    /\ payment[o] = "paid" => intent = "captured"
    /\ payment[o] = "failed" => intent = "canceled" /\ o \in voided
    /\ o \in shipped => payment[o] = "paid"

(* Reserved stock never stays behind: it is at most what the orders that   *)
(* are still to be shipped need, and exactly that unless an order was      *)
(* cancelled twice, by hand and with its authorization.                    *)
Needed == Tally([o \in Order |-> IF payment[o] # "none" /\ Open(o) THEN Units[o] ELSE 0])
ReservationReleased ==
  /\ committed <= Needed
  /\ cancelled \cap voided = {} => committed = Needed

(* The handlers together keep the promise of one that does a thing at a    *)
(* time: the card is charged once, for placed orders and at most their     *)
(* total; payment, loss and shipment are final, a shipment follows its     *)
(* payment, and a cancellation never lands on an order that changed since. *)
Having(status) == {o \in Order : payment[o] = status}
OneHold ==
  INSTANCE CardHold WITH
    Total <- Tally(Total), hold <- intent, charged <- captured, sent <- shipped,
    due <- Having("authorized"), paid <- Having("paid"), lost <- Having("failed")
HoldSpec == OneHold!Spec

(* Captured money is never forgotten: until the orders are paid the event  *)
(* is still to come or somebody is at work on them, unless a write failed  *)
(* in the midst.  A handler that finds the transaction completed may rely  *)
(* on it, and so may Stripe when its event was acknowledged.               *)
AllPaid == \A o \in Order : payment[o] = "paid"
AtWork(h) == pc[h] \in {"completing", "finding", "saving"}
CaptureInHand ==
  intent = "captured" /\ ~broken =>
    AllPaid \/ "succeed" \in events \/ \E h \in Handler : AtWork(h)

(* Captured money makes the orders paid in the end, also when Stripe's     *)
(* answer to the capture was lost, unless a write failed in the midst.     *)
CapturedIsPaid ==
  intent = "captured" ~> broken \/ AllPaid

(* "It must never credit them for money that was authorized but never      *)
(* actually captured" (payment.service.ts): orders that are paid amount to *)
(* what was captured, but for the rounding of each.  They do not: the      *)
(* event of a partial capture, handled before the request goes on, pays    *)
(* the orders in full.                                                     *)
CreditsWhatIsCaptured ==
  (\A o \in Order : payment[o] = "paid") => Tally(amount) <= captured + Cardinality(Order)
=============================================================================
