----------------------- MODULE AuthorizedCaptureProofs -----------------------
(***************************************************************************)
(* Orders say what became of the money, and no reservation stays behind,   *)
(* for any number of orders, requests and failures.                        *)
(***************************************************************************)
EXTENDS AuthorizedCapture, TallyLemmas, TLAPS

(* Where each handler may be.                                              *)
StepsOf(h) ==
  CASE h = "authorize" -> {"idle", "placing", "linking", "releasing"}
    [] h = "succeed" -> {"idle", "finding", "saving"}
    [] h = "cancel" -> {"idle", "voiding"}
    [] OTHER -> {"idle", "capturing", "completing", "finding", "saving", "shipping"}
HandlerInv(h) == pc[h] \in StepsOf(h)

(* Orders are placed all at once, before anybody can capture or void.      *)
Placed == \A o \in Order : payment[o] # "none"
Unplaced == \A o \in Order : payment[o] = "none"
PlacingInv ==
  /\ Placed \/ Unplaced
  /\ txn = "pending" \/ pc["authorize"] = "placing" => Unplaced
  /\ pc["authorize"] = "placing" => txn # "pending"
  /\ intent = "captured" => Placed
  /\ \A c \in Call : pc[c] # "idle" => Placed

(* What a handler has begun tells what Stripe did; it keeps in mind every  *)
(* order that is not paid yet.                                             *)
CaptureInv(h) ==
  /\ pc[h] \in {"completing", "finding", "saving"} => intent = "captured"
  /\ pc[h] = "saving" => \A o \in Order \ todo[h] : payment[o] = "paid"
  /\ pc[h] = "shipping" => payment[About[h]] = "paid"
StripeInv ==
  /\ "succeed" \in events => intent = "captured"
  /\ "cancel" \in events \/ pc["cancel"] = "voiding" => intent = "canceled"
  /\ \A o \in todo["cancel"] : pc["cancel"] = "voiding" /\ payment[o] = "authorized"

(* What became of an order.                                                *)
OrderInv(o) ==
  /\ payment[o] = "paid" => intent = "captured"
  /\ payment[o] = "failed" <=> o \in voided
  /\ payment[o] = "failed" => intent = "canceled"
  /\ o \in shipped => payment[o] = "paid"
  /\ o \in cancelled \cup cancelling => payment[o] # "none"
  /\ o \in cancelling => Open(o)

(* The units an order still holds.                                         *)
Held == [o \in Order |-> IF payment[o] # "none" /\ Open(o) THEN Units[o] ELSE 0]

Inv ==
  /\ TypeOK
  /\ \A h \in Handler : HandlerInv(h)
  /\ PlacingInv
  /\ \A h \in Handler : CaptureInv(h)
  /\ StripeInv
  /\ \A o \in Order : OrderInv(o)
  /\ ReservationReleased

-----------------------------------------------------------------------------
(* The steps, by what they change.                                         *)

Marker == Call \cup {"succeed"}

(* Stripe and its events; the transaction; where a handler is.             *)
StripeStep == Authorize \/ Expire \/ ReleaseSoldOut \/ (\E c \in Call : Capture(c))
ClaimStep ==
  \/ ClaimAuthorization \/ ClaimCapture \/ ClaimCancel \/ FailPlacing \/ NoteReleased
  \/ LinkOrders \/ (\E c \in Call : CompleteRow(c))
WalkStep ==
  \/ EndVoiding \/ (\E h \in Marker : EndSaving(h)) \/ (\E c \in Call : BeginCapture(c))
  \/ (\E h \in Handler : BreakOff(h)) \/ (\E h \in Marker, n \in Nat : FindUnpaid(h, n))
(* The documents of the orders.                                            *)
OrderStep ==
  \/ PlaceOrders
  \/ \E h \in Marker, o \in Order : SaveCaptured(h, o)
  \/ \E o \in Order : VoidOrder(o) \/ ReadToCancel(o) \/ CancelOrder(o)
  \/ \E c \in Call : Ship(c)

LEMMA Names ==
  /\ Call \subseteq Marker /\ Marker \subseteq Handler /\ "succeed" \in Marker
  /\ {"authorize", "succeed", "cancel"} \subseteq Handler
  /\ "authorize" \notin Marker /\ "cancel" \notin Marker
  /\ \A c \in Call : c \notin {"authorize", "succeed", "cancel"}
BY CaptureAssumption DEF Marker, Handler, Event

LEMMA Sums ==
  ASSUME TypeOK
  PROVE  /\ Tally(Total) \in Nat /\ Tally(Units) \in Nat /\ Tally(amount) \in Nat
         /\ \A c \in Call : Captures(c) \in Nat
<1>1. Tally(Total) \in Nat /\ Tally(Units) \in Nat /\ Tally(amount) \in Nat
  <2>1. Total \in [Order -> Nat] /\ Units \in [Order -> Nat] /\ IsFiniteSet(Order)
    BY CaptureAssumption
  <2>2. amount \in [Order -> Nat]
    BY DEF TypeOK
  <2>. QED  BY <2>1, <2>2, TallyNat
<1>. QED  BY <1>1, CaptureAssumption DEF Captures

LEMMA StepKinds ==
  ASSUME TypeOK, Next
  PROVE  StripeStep \/ ClaimStep \/ WalkStep \/ OrderStep
BY Names, Sums DEF Next, AuthorizeStep, SucceedStep, CancelStep, CallStep, MarkStep,
   StripeStep, ClaimStep, WalkStep, OrderStep

-----------------------------------------------------------------------------
(* Types.                                                                  *)

(* An order is scaled down to a natural number.                            *)
LEMMA RoundedType ==
  ASSUME NEW a \in Nat, NEW b \in Nat, b > 0
  PROVE  Rounded(a, b) \in Nat
<1> DEFINE m == 2 * a + b
           n == 2 * b
<1>1. m \in Nat /\ n \in Nat /\ n > 0
  OBVIOUS
<1> HIDE DEF m, n
<1>2. m \div n \in Nat
  BY <1>1
<1>. QED  BY <1>2 DEF Rounded, m, n

LEMMA ProductType ==
  ASSUME NEW a \in Nat, NEW b \in Nat
  PROVE  a * b \in Nat
OBVIOUS

LEMMA FindTypes ==
  ASSUME TypeOK, NEW h \in Marker, NEW n \in Nat, FindUnpaid(h, n)
  PROVE  TypeOK'
<1> DEFINE unpaid == {o \in Order : payment[o] # "paid"}
           sums == [o \in unpaid |-> amount[o]]
           original == Tally(sums)
           scaled(o) == IF o \in unpaid /\ n < original THEN Rounded(amount[o] * n, original) ELSE 0
<1>1. original \in Nat
  <2>1. IsFiniteSet(unpaid) /\ sums \in [unpaid -> Nat]
    BY CaptureAssumption, FS_Subset DEF TypeOK
  <2>. QED  BY <2>1, TallyNat
<1>2. ASSUME NEW o \in Order
      PROVE  scaled(o) \in Nat
  <2>1. amount[o] * n \in Nat
    BY ProductType DEF TypeOK
  <2> HIDE DEF original
  <2>. QED  BY <1>1, <2>1, RoundedType
<1>3. write' = [write EXCEPT ![h] = [o \in Order |-> scaled(o)]]
  BY DEF FindUnpaid
<1>4. write' \in [Handler -> [Order -> Nat]]
  <2> HIDE DEF scaled
  <2>. QED  BY <1>2, <1>3 DEF TypeOK
<1>5. todo' \in [Handler -> SUBSET Order] /\ pc' \in [Handler -> Steps]
  BY DEF FindUnpaid, TypeOK, Goto, Steps
<1>. QED  BY <1>4, <1>5 DEF FindUnpaid, TypeOK, stripeVars, txnVars, orderVars, faultVars

LEMMA Types ==
  ASSUME TypeOK, Next
  PROVE  TypeOK'
<1> USE DEF stripeVars, txnVars, orderVars, handlerVars, faultVars, Goto, Deliver, Event, Steps
<1>1. CASE StripeStep
  <2>1. CASE Authorize \/ Expire \/ ReleaseSoldOut
    BY <2>1 DEF Authorize, Expire, ReleaseSoldOut, TypeOK
  <2>2. ASSUME NEW c \in Call, Capture(c)
        PROVE  TypeOK'
    BY <2>2, Sums DEF Capture, TypeOK
  <2>. QED  BY <1>1, <2>1, <2>2 DEF StripeStep
<1>2. CASE ClaimStep
  <2>1. CASE ClaimAuthorization
    BY <2>1 DEF ClaimAuthorization, TypeOK
  <2>2. CASE ClaimCapture
    BY <2>2 DEF ClaimCapture, TypeOK
  <2>3. CASE ClaimCancel
    <3>1. /\ todo' \in [Handler -> SUBSET Order] /\ pc' \in [Handler -> Steps]
          /\ txn' \in {"pending", "authorized", "completed", "failed", "refunded"}
          /\ events' \subseteq Event
      BY <2>3 DEF ClaimCancel, TypeOK
    <3>. QED  BY <2>3, <3>1 DEF ClaimCancel, TypeOK
  <2>4. CASE FailPlacing
    <3>1. failures' \in 0 .. Failures
      BY <2>4, CaptureAssumption DEF FailPlacing, Fail, TypeOK
    <3>2. pc' \in [Handler -> Steps] /\ events' \subseteq Event
      BY <2>4 DEF FailPlacing, Fail, TypeOK
    <3>. QED  BY <2>4, <3>1, <3>2 DEF FailPlacing, Fail, TypeOK
  <2>5. CASE NoteReleased \/ LinkOrders
    BY <2>5 DEF NoteReleased, LinkOrders, TypeOK
  <2>6. ASSUME NEW c \in Call, CompleteRow(c)
        PROVE  TypeOK'
    BY <2>6 DEF CompleteRow, TypeOK
  <2>. QED  BY <1>2, <2>1, <2>2, <2>3, <2>4, <2>5, <2>6 DEF ClaimStep
<1>3. CASE WalkStep
  <2>1. CASE EndVoiding
    BY <2>1 DEF EndVoiding, TypeOK
  <2>2. ASSUME NEW h \in Marker, EndSaving(h)
        PROVE  TypeOK'
    BY <2>2 DEF EndSaving, TypeOK
  <2>3. ASSUME NEW c \in Call, BeginCapture(c)
        PROVE  TypeOK'
    <3>1. pc' \in [Handler -> Steps] /\ UNCHANGED <<stripeVars, txnVars, orderVars, todo, write, faultVars>>
      BY <2>3 DEF BeginCapture, TypeOK
    <3>. QED  BY <3>1 DEF TypeOK
  <2>4. ASSUME NEW h \in Handler, BreakOff(h)
        PROVE  TypeOK'
    <3>1. failures' \in 0 .. Failures
      BY <2>4, CaptureAssumption DEF BreakOff, TypeOK
    <3>2. /\ pc' \in [Handler -> Steps] /\ todo' \in [Handler -> SUBSET Order]
          /\ events' \subseteq Event /\ broken' \in BOOLEAN
      BY <2>4 DEF BreakOff, TypeOK
    <3>. QED  BY <2>4, <3>1, <3>2 DEF BreakOff, TypeOK
  <2>5. ASSUME NEW h \in Marker, NEW n \in Nat, FindUnpaid(h, n)
        PROVE  TypeOK'
    BY <2>5, FindTypes
  <2>. QED  BY <1>3, <2>1, <2>2, <2>3, <2>4, <2>5 DEF WalkStep
<1>4. CASE OrderStep
  <2>1. CASE PlaceOrders
    <3>1. committed' \in Int
      BY <2>1, Sums DEF PlaceOrders, TypeOK
    <3>2. /\ payment' \in [Order -> {"none", "authorized", "paid", "failed"}]
          /\ pc' \in [Handler -> Steps]
      BY <2>1 DEF PlaceOrders, TypeOK
    <3>. QED  BY <2>1, <3>1, <3>2 DEF PlaceOrders, TypeOK
  <2>2. ASSUME NEW h \in Marker, NEW o \in Order, SaveCaptured(h, o)
        PROVE  TypeOK'
    <3>1. write[h][o] \in Nat
      BY Names DEF TypeOK
    <3>2. amount' \in [Order -> Nat]
      BY <2>2, <3>1 DEF SaveCaptured, TypeOK
    <3>3. todo' \in [Handler -> SUBSET Order]
      BY <2>2 DEF SaveCaptured, TypeOK
    <3>. QED  BY <2>2, <3>2, <3>3 DEF SaveCaptured, TypeOK
  <2>3. ASSUME NEW o \in Order, VoidOrder(o)
        PROVE  TypeOK'
    <3>1. committed' \in Int
      BY <2>3, CaptureAssumption DEF VoidOrder, TypeOK
    <3>2. /\ payment' \in [Order -> {"none", "authorized", "paid", "failed"}]
          /\ todo' \in [Handler -> SUBSET Order]
          /\ voided' \subseteq Order /\ cancelling' \subseteq Order
      BY <2>3 DEF VoidOrder, TypeOK
    <3>. QED  BY <2>3, <3>1, <3>2 DEF VoidOrder, TypeOK
  <2>4. ASSUME NEW o \in Order, ReadToCancel(o)
        PROVE  TypeOK'
    BY <2>4 DEF ReadToCancel, TypeOK
  <2>5. ASSUME NEW o \in Order, CancelOrder(o)
        PROVE  TypeOK'
    BY <2>5, CaptureAssumption DEF CancelOrder, TypeOK
  <2>6. ASSUME NEW c \in Call, Ship(c)
        PROVE  TypeOK'
    <3>1. About[c] \in Order /\ Units[About[c]] \in Nat
      BY CaptureAssumption
    <3>2. committed' \in Int
      BY <2>6, <3>1 DEF Ship, TypeOK
    <3>3. shipped' \subseteq Order /\ cancelling' \subseteq Order /\ pc' \in [Handler -> Steps]
      BY <2>6, <3>1 DEF Ship, TypeOK
    <3>. QED  BY <2>6, <3>2, <3>3 DEF Ship, TypeOK
  <2>. QED  BY <1>4, <2>1, <2>2, <2>3, <2>4, <2>5, <2>6 DEF OrderStep
<1>. QED  BY <1>1, <1>2, <1>3, <1>4, StepKinds

-----------------------------------------------------------------------------
(* Where the handlers are.                                                 *)

LEMMA Handlers ==
  ASSUME TypeOK, \A h \in Handler : HandlerInv(h), Next
  PROVE  \A h \in Handler : HandlerInv(h)'
<1> USE DEF HandlerInv, StepsOf, Goto, TypeOK
<1> USE Names
<1>1. CASE StripeStep
  BY <1>1 DEF StripeStep, Authorize, Expire, ReleaseSoldOut, Capture, handlerVars
<1>2. CASE ClaimStep
  BY <1>2 DEF ClaimStep, ClaimAuthorization, ClaimCapture, ClaimCancel, FailPlacing, Fail,
     NoteReleased, LinkOrders, CompleteRow, handlerVars
<1>3. CASE WalkStep
  <2>1. CASE EndVoiding
    BY <2>1 DEF EndVoiding
  <2>2. ASSUME NEW h \in Marker, EndSaving(h)
        PROVE  \A k \in Handler : HandlerInv(k)'
    <3>1. h \in Ships => h \in Call
      BY CaptureAssumption
    <3>. QED  BY <2>2, <3>1 DEF EndSaving, Marker
  <2>3. ASSUME NEW c \in Call, BeginCapture(c)
        PROVE  \A k \in Handler : HandlerInv(k)'
    <3>1. c \in Handler /\ c \notin {"authorize", "succeed", "cancel"}
      OBVIOUS
    <3>2. \E s \in {"capturing", "shipping"} : pc' = [pc EXCEPT ![c] = s]
      BY <2>3 DEF BeginCapture
    <3>. QED  BY <3>1, <3>2
  <2>4. ASSUME NEW h \in Handler, BreakOff(h)
        PROVE  \A k \in Handler : HandlerInv(k)'
    BY <2>4 DEF BreakOff
  <2>5. ASSUME NEW h \in Marker, NEW n \in Nat, FindUnpaid(h, n)
        PROVE  \A k \in Handler : HandlerInv(k)'
    <3>1. pc' = [pc EXCEPT ![h] = "saving"]
      BY <2>5 DEF FindUnpaid
    <3>. QED  BY <3>1 DEF Marker
  <2>. QED  BY <1>3, <2>1, <2>2, <2>3, <2>4, <2>5 DEF WalkStep
<1>4. CASE OrderStep
  BY <1>4 DEF OrderStep, PlaceOrders, SaveCaptured, VoidOrder, ReadToCancel, CancelOrder, Ship,
     handlerVars
<1>. QED  BY <1>1, <1>2, <1>3, <1>4, StepKinds

(* The statuses of the orders change only so.                              *)
LEMMA Payments ==
  ASSUME Inv, Next, NEW o \in Order
  PROVE  \/ payment'[o] = payment[o]
         \/ PlaceOrders /\ payment[o] = "none" /\ payment'[o] = "authorized"
         \/ intent = "captured" /\ payment'[o] = "paid"
         \/ /\ intent = "canceled" /\ payment[o] = "authorized" /\ payment'[o] = "failed"
            /\ o \in todo["cancel"] \ todo'["cancel"]
<1> USE DEF Inv, TypeOK
<1>1. CASE StripeStep
  BY <1>1 DEF StripeStep, Authorize, Expire, ReleaseSoldOut, Capture, orderVars
<1>2. CASE ClaimStep
  BY <1>2 DEF ClaimStep, ClaimAuthorization, ClaimCapture, ClaimCancel, FailPlacing,
     NoteReleased, LinkOrders, CompleteRow, orderVars
<1>3. CASE WalkStep
  BY <1>3 DEF WalkStep, EndVoiding, EndSaving, BeginCapture, BreakOff, FindUnpaid, orderVars
<1>4. CASE PlaceOrders
  BY <1>4 DEF PlaceOrders, PlacingInv, Unplaced
<1>5. ASSUME NEW h \in Marker, NEW p \in Order, SaveCaptured(h, p)
      PROVE  payment'[o] = payment[o] \/ (intent = "captured" /\ payment'[o] = "paid")
  BY <1>5, Names DEF SaveCaptured, CaptureInv
<1>6. ASSUME NEW p \in Order, VoidOrder(p)
      PROVE  \/ payment'[o] = payment[o]
             \/ /\ intent = "canceled" /\ payment[o] = "authorized" /\ payment'[o] = "failed"
                /\ o \in todo["cancel"] \ todo'["cancel"]
  BY <1>6, Names DEF VoidOrder, StripeInv
<1>7. ASSUME NEW p \in Order, ReadToCancel(p) \/ CancelOrder(p)
      PROVE  payment' = payment
  BY <1>7 DEF ReadToCancel, CancelOrder
<1>8. ASSUME NEW c \in Call, Ship(c)
      PROVE  payment' = payment
  BY <1>8 DEF Ship
<1>. QED  BY <1>1, <1>2, <1>3, <1>4, <1>5, <1>6, <1>7, <1>8, StepKinds DEF OrderStep

(* Stripe decides once.                                                    *)
LEMMA Intents ==
  ASSUME Inv, Next
  PROVE  /\ intent \in {"captured", "canceled"} => intent' = intent
         /\ intent' = "captured" /\ intent # "captured" => \E c \in Call : pc[c] = "capturing"
<1> USE DEF Inv, TypeOK
<1>1. CASE StripeStep
  BY <1>1 DEF StripeStep, Authorize, Expire, ReleaseSoldOut, Capture, stripeVars
<1>2. CASE ClaimStep
  BY <1>2 DEF ClaimStep, ClaimAuthorization, ClaimCapture, ClaimCancel, FailPlacing,
     NoteReleased, LinkOrders, CompleteRow, stripeVars
<1>3. CASE WalkStep
  BY <1>3 DEF WalkStep, EndVoiding, EndSaving, BeginCapture, BreakOff, FindUnpaid, stripeVars
<1>4. CASE OrderStep
  BY <1>4 DEF OrderStep, PlaceOrders, SaveCaptured, VoidOrder, ReadToCancel, CancelOrder, Ship,
     stripeVars
<1>. QED  BY <1>1, <1>2, <1>3, <1>4, StepKinds

-----------------------------------------------------------------------------
(* Orders are placed before their money can be captured.                   *)

LEMMA Claims ==
  ASSUME Inv, Next
  PROVE  /\ txn' = "pending" => txn = "pending" \/ pc["authorize"] = "placing"
         /\ pc'["authorize"] = "placing" => /\ txn' # "pending"
                                            /\ txn = "pending" \/ pc["authorize"] = "placing"
         /\ \A c \in Call : pc[c] = "idle" /\ pc'[c] # "idle" => payment[About[c]] # "none"
<1> USE Names DEF Inv, TypeOK, Goto, PlacingInv
<1>1. CASE StripeStep
  <2>1. txn' = txn /\ \A k \in Handler : pc'[k] # pc[k] => pc[k] # "idle" /\ pc'[k] # "placing"
    BY <1>1 DEF StripeStep, Authorize, Expire, ReleaseSoldOut, Capture, handlerVars, txnVars
  <2>. QED  BY <2>1
<1>2. CASE ClaimStep
  <2>1. CASE ClaimAuthorization \/ FailPlacing \/ NoteReleased \/ LinkOrders
    BY <2>1 DEF ClaimAuthorization, FailPlacing, Fail, NoteReleased, LinkOrders
  <2>2. CASE ClaimCapture
    BY <2>2 DEF ClaimCapture
  <2>3. CASE ClaimCancel
    BY <2>3 DEF ClaimCancel
  <2>4. ASSUME NEW c \in Call, CompleteRow(c)
        PROVE  txn' # "pending" /\ \A k \in Handler : pc'[k] # pc[k] => pc[k] # "idle" /\ pc'[k] # "placing"
    BY <2>4 DEF CompleteRow
  <2>. QED  BY <1>2, <2>1, <2>2, <2>3, <2>4 DEF ClaimStep
<1>3. CASE WalkStep
  <2>1. ASSUME NEW h \in Handler, EndVoiding \/ BreakOff(h) \/ EndSaving(h)
        PROVE  /\ txn' = txn
               /\ \A k \in Handler : pc'[k] # pc[k] => pc[k] # "idle" /\ pc'[k] # "placing"
    BY <2>1 DEF EndVoiding, BreakOff, EndSaving, txnVars
  <2>2. ASSUME NEW c \in Call, BeginCapture(c)
        PROVE  /\ txn' = txn /\ payment[About[c]] # "none"
               /\ \A k \in Handler : pc'[k] # pc[k] => k = c
    BY <2>2 DEF BeginCapture, txnVars
  <2>3. ASSUME NEW h \in Marker, NEW n \in Nat, FindUnpaid(h, n)
        PROVE  /\ txn' = txn
               /\ \A k \in Handler : pc'[k] # pc[k] => pc[k] # "idle" /\ pc'[k] # "placing"
    <3>1. pc[h] = "finding" /\ pc' = [pc EXCEPT ![h] = "saving"] /\ txn' = txn
      BY <2>3 DEF FindUnpaid, txnVars
    <3>. QED  BY <3>1
  <2>. QED  BY <1>3, <2>1, <2>2, <2>3 DEF WalkStep
<1>4. CASE OrderStep
  BY <1>4 DEF OrderStep, PlaceOrders, SaveCaptured, VoidOrder, ReadToCancel, CancelOrder, Ship,
     txnVars, handlerVars
<1>. QED  BY <1>1, <1>2, <1>3, <1>4, StepKinds

LEMMA Placings ==
  ASSUME Inv, Next
  PROVE  PlacingInv'
<1>0. PICK p : p \in Order
  BY CaptureAssumption
<1>1. Placed => Placed'
  BY Payments DEF Placed
<1>2. Unplaced /\ ~PlaceOrders => Unplaced'
  BY <1>0, Payments DEF Unplaced, Inv, PlacingInv, Placed
<1>3. PlaceOrders => Placed' /\ txn' # "pending" /\ pc'["authorize"] # "placing"
  BY Names DEF PlaceOrders, Placed, Inv, TypeOK, PlacingInv, Goto, txnVars
<1>4. Placed' \/ Unplaced'
  BY <1>1, <1>2, <1>3 DEF Inv, PlacingInv
<1>5. /\ txn' = "pending" \/ pc'["authorize"] = "placing" => Unplaced'
      /\ pc'["authorize"] = "placing" => txn' # "pending"
  BY <1>2, <1>3, Claims DEF Inv, PlacingInv
<1>6. intent' = "captured" => Placed'
  BY <1>1, Intents DEF Inv, PlacingInv
<1>7. ASSUME NEW c \in Call, pc'[c] # "idle"
      PROVE  Placed'
  <2>1. About[c] \in Order
    BY CaptureAssumption
  <2>2. CASE pc[c] = "idle"
    BY <1>1, <1>7, <2>1, <2>2, Claims DEF Inv, PlacingInv, Unplaced
  <2>. QED  BY <1>1, <2>2 DEF Inv, PlacingInv
<1>. QED  BY <1>4, <1>5, <1>6, <1>7 DEF PlacingInv, Placed, Unplaced

-----------------------------------------------------------------------------
(* What the handlers know.                                                 *)

LEMMA PaidStays ==
  ASSUME Inv, Next, NEW o \in Order, payment[o] = "paid"
  PROVE  payment'[o] = "paid"
BY Payments

LEMMA Knowledge ==
  ASSUME Inv, Next, NEW h \in Handler
  PROVE  CaptureInv(h)'
<1> USE Names DEF Goto
<1>0. /\ pc \in [Handler -> Steps] /\ todo \in [Handler -> SUBSET Order]
      /\ CaptureInv(h) /\ HandlerInv(h) /\ StripeInv
  BY DEF Inv, TypeOK
<1>1. intent = "captured" => intent' = "captured"
  BY Intents
<1>2. \A o \in Order : payment[o] = "paid" => payment'[o] = "paid"
  BY PaidStays
<1>3. h \in Call => About[h] \in Order
  BY CaptureAssumption
<1>4. pc[h] = "shipping" => h \in Call
  BY <1>0 DEF HandlerInv, StepsOf, Handler, Event
<1>5. ASSUME pc'[h] = pc[h], todo'[h] = todo[h]
      PROVE  CaptureInv(h)'
  BY <1>0, <1>1, <1>2, <1>3, <1>4, <1>5 DEF CaptureInv
<1>6. CASE StripeStep
  <2>1. CASE Authorize \/ Expire \/ ReleaseSoldOut
    <3>1. (pc'[h] = pc[h] /\ todo'[h] = todo[h]) \/ pc'[h] = "releasing"
      BY <1>0, <2>1 DEF Authorize, Expire, ReleaseSoldOut, handlerVars
    <3>. QED  BY <1>5, <3>1 DEF CaptureInv
  <2>2. ASSUME NEW c \in Call, Capture(c)
        PROVE  CaptureInv(h)'
    <3>1. /\ todo' = todo
          /\ \/ pc'[h] = pc[h]
             \/ pc'[h] = "idle"
             \/ pc'[h] = "completing" /\ intent' = "captured"
      BY <1>0, <2>2 DEF Capture
    <3>. QED  BY <1>5, <3>1 DEF CaptureInv
  <2>. QED  BY <1>6, <2>1, <2>2 DEF StripeStep
<1>7. CASE ClaimStep
  <2>1. CASE ClaimAuthorization \/ FailPlacing \/ NoteReleased \/ LinkOrders
    <3>1. /\ todo' = todo
          /\ \/ pc'[h] = pc[h]
             \/ pc'[h] \in {"idle", "placing"}
      BY <1>0, <2>1 DEF ClaimAuthorization, FailPlacing, Fail, NoteReleased, LinkOrders
    <3>. QED  BY <1>5, <3>1 DEF CaptureInv
  <2>2. CASE ClaimCapture
    <3>1. /\ todo' = todo
          /\ \/ pc'[h] = pc[h]
             \/ pc'[h] = "finding" /\ intent' = "captured"
      BY <1>0, <2>2 DEF ClaimCapture, Deliver, StripeInv
    <3>. QED  BY <1>5, <3>1 DEF CaptureInv
  <2>3. CASE ClaimCancel
    <3>1. \/ pc'[h] = pc[h] /\ todo'[h] = todo[h]
          \/ pc'[h] = "voiding"
      BY <1>0, <2>3 DEF ClaimCancel
    <3>. QED  BY <1>5, <3>1 DEF CaptureInv
  <2>4. ASSUME NEW c \in Call, CompleteRow(c)
        PROVE  CaptureInv(h)'
    <3>1. /\ todo' = todo
          /\ \/ pc'[h] = pc[h]
             \/ pc'[h] = "finding" /\ pc[h] = "completing"
      BY <1>0, <2>4 DEF CompleteRow
    <3>. QED  BY <1>0, <1>1, <1>5, <3>1 DEF CaptureInv
  <2>. QED  BY <1>7, <2>1, <2>2, <2>3, <2>4 DEF ClaimStep
<1>8. CASE WalkStep
  <2>1. ASSUME NEW k \in Handler, EndVoiding \/ BreakOff(k)
        PROVE  CaptureInv(h)'
    <3>1. \/ pc'[h] = pc[h] /\ todo'[h] = todo[h]
          \/ pc'[h] = "idle"
      BY <1>0, <2>1 DEF EndVoiding, BreakOff
    <3>. QED  BY <1>5, <3>1 DEF CaptureInv
  <2>2. ASSUME NEW k \in Marker, EndSaving(k)
        PROVE  CaptureInv(h)'
    <3>1. k \in Ships => k \in Call
      BY CaptureAssumption
    <3>2. CASE h = k
      <4>1. pc[h] = "saving" /\ todo[h] = {} /\ pc'[h] \in {"idle", "shipping"}
        BY <1>0, <2>2, <3>2 DEF EndSaving
      <4>2. pc'[h] = "shipping" => h \in Call
        BY <1>0, <2>2, <3>1, <3>2 DEF EndSaving
      <4>. QED  BY <1>0, <1>2, <1>3, <4>1, <4>2 DEF CaptureInv
    <3>3. CASE h # k
      BY <1>0, <1>5, <2>2, <3>3 DEF EndSaving
    <3>. QED  BY <3>2, <3>3
  <2>3. ASSUME NEW c \in Call, BeginCapture(c)
        PROVE  CaptureInv(h)'
    <3>1. /\ todo' = todo
          /\ \/ pc'[h] = pc[h]
             \/ pc'[h] = "capturing"
             \/ h \in Call /\ pc'[h] = "shipping" /\ payment[About[h]] = "paid"
      BY <1>0, <2>3 DEF BeginCapture
    <3>. QED  BY <1>2, <1>3, <1>5, <3>1 DEF CaptureInv
  <2>4. ASSUME NEW k \in Marker, NEW n \in Nat, FindUnpaid(k, n)
        PROVE  CaptureInv(h)'
    <3>1. /\ todo' = [todo EXCEPT ![k] = {o \in Order : payment[o] # "paid"}]
          /\ pc[k] = "finding" /\ pc' = [pc EXCEPT ![k] = "saving"]
      BY <2>4 DEF FindUnpaid
    <3>2. CASE h = k
      <4>1. \A o \in Order \ todo'[h] : payment[o] = "paid"
        BY <1>0, <3>1, <3>2
      <4>. QED  BY <1>0, <1>1, <1>2, <3>1, <3>2, <4>1 DEF CaptureInv
    <3>3. CASE h # k
      BY <1>0, <1>5, <3>1, <3>3
    <3>. QED  BY <3>2, <3>3
  <2>. QED  BY <1>8, <2>1, <2>2, <2>3, <2>4 DEF WalkStep
<1>9. CASE OrderStep
  <2>1. CASE PlaceOrders
    <3>1. /\ todo' = todo
          /\ \/ pc'[h] = pc[h]
             \/ pc'[h] = "linking"
      BY <1>0, <2>1 DEF PlaceOrders
    <3>. QED  BY <1>5, <3>1 DEF CaptureInv
  <2>2. ASSUME NEW k \in Marker, NEW o \in Order, SaveCaptured(k, o)
        PROVE  CaptureInv(h)'
    <3>1. pc' = pc /\ todo' = [todo EXCEPT ![k] = @ \ {o}] /\ payment'[o] = "paid"
      BY <2>2 DEF SaveCaptured, Inv, TypeOK
    <3>2. \A p \in Order \ todo'[h] : p = o \/ p \in Order \ todo[h]
      BY <1>0, <3>1
    <3>. QED  BY <1>0, <1>1, <1>2, <1>3, <1>4, <3>1, <3>2 DEF CaptureInv
  <2>3. ASSUME NEW o \in Order, VoidOrder(o) \/ ReadToCancel(o) \/ CancelOrder(o)
        PROVE  CaptureInv(h)'
    <3>1. pc' = pc /\ (todo'[h] = todo[h] \/ h = "cancel")
      BY <1>0, <2>3 DEF VoidOrder, ReadToCancel, CancelOrder, handlerVars
    <3>2. h = "cancel" => pc[h] \in {"idle", "voiding"}
      BY <1>0 DEF HandlerInv, StepsOf
    <3>. QED  BY <1>5, <3>1, <3>2 DEF CaptureInv
  <2>4. ASSUME NEW c \in Call, Ship(c)
        PROVE  CaptureInv(h)'
    <3>1. /\ todo' = todo
          /\ \/ pc'[h] = pc[h]
             \/ pc'[h] = "idle"
      BY <1>0, <2>4 DEF Ship
    <3>. QED  BY <1>5, <3>1 DEF CaptureInv
  <2>. QED  BY <1>9, <2>1, <2>2, <2>3, <2>4 DEF OrderStep
<1>. QED  BY <1>6, <1>7, <1>8, <1>9, StepKinds DEF Inv

LEMMA Events ==
  ASSUME Inv, Next
  PROVE  StripeInv'
<1> USE Names DEF Goto, Inv, TypeOK, StripeInv
<1>0. \A i \in {"captured", "canceled"} : intent = i => intent' = i
  BY Intents
<1>1. "succeed" \in events' => intent' = "captured"
  <2>1. "succeed" \in events' => "succeed" \in events \/ intent' = "captured"
    <3>1. CASE StripeStep
      BY <3>1 DEF StripeStep, Authorize, Expire, ReleaseSoldOut, Capture, stripeVars
    <3>2. CASE ClaimStep
      BY <3>2 DEF ClaimStep, ClaimAuthorization, ClaimCapture, ClaimCancel, FailPlacing, Fail,
         NoteReleased, LinkOrders, CompleteRow, stripeVars, Deliver
    <3>3. ASSUME NEW h \in Handler, BreakOff(h)
          PROVE  "succeed" \in events' => "succeed" \in events \/ intent' = "captured"
      BY <1>0, <3>3 DEF BreakOff, HandlerInv, StepsOf, CaptureInv
    <3>4. CASE WalkStep /\ ~(\E h \in Handler : BreakOff(h))
      BY <3>4 DEF WalkStep, EndVoiding, EndSaving, BeginCapture, FindUnpaid, stripeVars
    <3>5. CASE OrderStep
      BY <3>5 DEF OrderStep, PlaceOrders, SaveCaptured, VoidOrder, ReadToCancel, CancelOrder, Ship,
         stripeVars
    <3>. QED  BY <3>1, <3>2, <3>3, <3>4, <3>5, StepKinds
  <2>. QED  BY <1>0, <2>1
<1>2. "cancel" \in events' => intent' = "canceled"
  <2>1. "cancel" \in events' => "cancel" \in events \/ intent' = "canceled"
    <3>1. CASE StripeStep
      BY <3>1 DEF StripeStep, Authorize, Expire, ReleaseSoldOut, Capture, stripeVars
    <3>2. CASE ClaimStep
      BY <3>2 DEF ClaimStep, ClaimAuthorization, ClaimCapture, ClaimCancel, FailPlacing, Fail,
         NoteReleased, LinkOrders, CompleteRow, stripeVars, Deliver
    <3>3. ASSUME NEW h \in Handler, BreakOff(h)
          PROVE  "cancel" \in events' => "cancel" \in events \/ intent' = "canceled"
      BY <1>0, <3>3 DEF BreakOff, HandlerInv, StepsOf, CaptureInv
    <3>4. CASE WalkStep /\ ~(\E h \in Handler : BreakOff(h))
      BY <3>4 DEF WalkStep, EndVoiding, EndSaving, BeginCapture, FindUnpaid, stripeVars
    <3>5. CASE OrderStep
      BY <3>5 DEF OrderStep, PlaceOrders, SaveCaptured, VoidOrder, ReadToCancel, CancelOrder, Ship,
         stripeVars
    <3>. QED  BY <3>1, <3>2, <3>3, <3>4, <3>5, StepKinds
  <2>. QED  BY <1>0, <2>1
<1>3. \/ pc'["cancel"] = pc["cancel"] /\ todo'["cancel"] \subseteq todo["cancel"]
      \/ pc'["cancel"] = "idle" /\ todo'["cancel"] = {}
      \/ /\ pc'["cancel"] = "voiding" /\ intent = "canceled"
         /\ \A o \in todo'["cancel"] : payment'[o] = "authorized"
  <2>1. CASE StripeStep
    BY <2>1 DEF StripeStep, Authorize, Expire, ReleaseSoldOut, Capture, handlerVars
  <2>2. CASE ClaimCancel
    BY <2>2 DEF ClaimCancel, Deliver, orderVars
  <2>3. CASE ClaimStep /\ ~ClaimCancel
    BY <2>3 DEF ClaimStep, ClaimAuthorization, ClaimCapture, FailPlacing, Fail,
       NoteReleased, LinkOrders, CompleteRow
  <2>4. CASE EndVoiding
    BY <2>4 DEF EndVoiding
  <2>5. ASSUME NEW h \in Handler, BreakOff(h)
        PROVE  \/ pc'["cancel"] = pc["cancel"] /\ todo'["cancel"] = todo["cancel"]
               \/ pc'["cancel"] = "idle" /\ todo'["cancel"] = {}
    BY <2>5 DEF BreakOff
  <2>6. ASSUME NEW h \in Marker, NEW n \in Nat, FindUnpaid(h, n)
        PROVE  pc'["cancel"] = pc["cancel"] /\ todo'["cancel"] = todo["cancel"]
    <3>1. h # "cancel" /\ pc' = [pc EXCEPT ![h] = "saving"]
          /\ todo' = [todo EXCEPT ![h] = {o \in Order : payment[o] # "paid"}]
      BY <2>6 DEF FindUnpaid
    <3>. QED  BY <3>1
  <2>7. ASSUME NEW h \in Handler \ {"cancel"}, BeginCapture(h) \/ EndSaving(h)
        PROVE  pc'["cancel"] = pc["cancel"] /\ todo'["cancel"] = todo["cancel"]
    BY <2>7 DEF BeginCapture, EndSaving
  <2>8. CASE OrderStep
    BY <2>8 DEF OrderStep, PlaceOrders, SaveCaptured, VoidOrder, ReadToCancel, CancelOrder, Ship,
       handlerVars
  <2>. QED  BY <2>1, <2>2, <2>3, <2>4, <2>5, <2>6, <2>7, <2>8, StepKinds DEF WalkStep
<1>4. ASSUME NEW o \in todo["cancel"]
      PROVE  payment'[o] = "authorized" \/ o \notin todo'["cancel"]
  BY <1>4, Payments
<1>. QED  BY <1>0, <1>1, <1>2, <1>3, <1>4

-----------------------------------------------------------------------------
(* What became of the orders.                                              *)

LEMMA Orders ==
  ASSUME Inv, Next, NEW o \in Order
  PROVE  OrderInv(o)'
<1> USE Names DEF Goto, OrderInv, Open
<1>0. OrderInv(o) /\ TypeOK /\ PlacingInv
  BY DEF Inv
<1>1. \A i \in {"captured", "canceled"} : intent = i => intent' = i
  BY Intents
<1>2. CASE StripeStep \/ ClaimStep \/ WalkStep
  <2>1. UNCHANGED orderVars
    BY <1>2 DEF StripeStep, Authorize, Expire, ReleaseSoldOut, Capture, ClaimStep,
       ClaimAuthorization, ClaimCapture, ClaimCancel, FailPlacing, NoteReleased, LinkOrders,
       CompleteRow, WalkStep, EndVoiding, EndSaving, BeginCapture, BreakOff, FindUnpaid, orderVars
  <2>. QED  BY <1>0, <1>1, <2>1 DEF orderVars
<1>3. CASE PlaceOrders
  <2>1. payment[o] = "none" /\ payment'[o] = "authorized"
    BY <1>0, <1>3 DEF PlaceOrders, PlacingInv, Unplaced
  <2>. QED  BY <1>0, <1>3, <2>1 DEF PlaceOrders
<1>4. ASSUME NEW h \in Marker, NEW p \in Order, SaveCaptured(h, p)
      PROVE  OrderInv(o)'
  <2>1. intent = "captured"
    BY <1>4 DEF SaveCaptured, Inv, CaptureInv
  <2>2. CASE p = o
    BY <1>0, <1>1, <1>4, <2>1, <2>2 DEF SaveCaptured, TypeOK
  <2>3. CASE p # o
    BY <1>0, <1>1, <1>4, <2>1, <2>3 DEF SaveCaptured, TypeOK
  <2>. QED  BY <2>2, <2>3
<1>5. ASSUME NEW p \in Order, VoidOrder(p)
      PROVE  OrderInv(o)'
  <2>1. intent = "canceled" /\ payment[p] = "authorized"
    BY <1>5 DEF VoidOrder, Inv, StripeInv
  <2>2. CASE p = o
    BY <1>0, <1>1, <1>5, <2>1, <2>2 DEF VoidOrder, TypeOK
  <2>3. CASE p # o
    BY <1>0, <1>1, <1>5, <2>3 DEF VoidOrder, TypeOK
  <2>. QED  BY <2>2, <2>3
<1>6. ASSUME NEW p \in Order, ReadToCancel(p) \/ CancelOrder(p)
      PROVE  OrderInv(o)'
  BY <1>0, <1>1, <1>6 DEF ReadToCancel, CancelOrder, stripeVars
<1>7. ASSUME NEW c \in Call, Ship(c)
      PROVE  OrderInv(o)'
  <2>1. payment[About[c]] = "paid"
    BY <1>7 DEF Ship, Inv, CaptureInv
  <2>. QED  BY <1>0, <1>1, <1>7, <2>1 DEF Ship, stripeVars
<1>. QED  BY <1>2, <1>3, <1>4, <1>5, <1>6, <1>7, StepKinds DEF Inv, OrderStep

-----------------------------------------------------------------------------
(* Reservations.                                                           *)

LEMMA HeldType ==
  ASSUME TypeOK
  PROVE  /\ Held \in [Order -> Nat] /\ Needed = Tally(Held) /\ Needed \in Nat
         /\ \A o \in Order : Held[o] <= Needed
<1>1. Held \in [Order -> Nat]
  BY CaptureAssumption DEF Held
<1>2. Needed = Tally(Held)
  BY DEF Needed, Held
<1>. QED  BY <1>1, <1>2, CaptureAssumption, TallyNat, TallyBound

(* A step that touches one order changes what is needed by that order's.   *)
LEMMA HeldMoves ==
  ASSUME TypeOK, TypeOK', NEW o \in Order,
         \A p \in Order \ {o} : Held'[p] = Held[p]
  PROVE  Needed' = Needed - Held[o] + Held'[o]
<1>1. Held \in [Order -> Nat] /\ Needed = Tally(Held)
  BY HeldType
<1>2. Held' \in [Order -> Nat] /\ Needed' = Tally(Held')
  BY CaptureAssumption DEF Held, Needed
<1>. QED  BY <1>1, <1>2, CaptureAssumption, TallyChange

LEMMA Reservations ==
  ASSUME Inv, TypeOK', Next
  PROVE  ReservationReleased'
<1> USE Names DEF Goto, Open
<1>0. TypeOK /\ ReservationReleased /\ PlacingInv /\ committed \in Int
  BY DEF Inv, TypeOK
<1>1. Needed \in Nat /\ Held \in [Order -> Nat] /\ \A o \in Order : Held[o] <= Needed
  BY <1>0, HeldType
<1>2. CASE StripeStep \/ ClaimStep \/ WalkStep
  <2>1. UNCHANGED orderVars
    BY <1>2 DEF StripeStep, Authorize, Expire, ReleaseSoldOut, Capture, ClaimStep,
       ClaimAuthorization, ClaimCapture, ClaimCancel, FailPlacing, NoteReleased, LinkOrders,
       CompleteRow, WalkStep, EndVoiding, EndSaving, BeginCapture, BreakOff, FindUnpaid, orderVars
  <2>. QED  BY <1>0, <2>1 DEF orderVars, ReservationReleased, Needed
<1>3. CASE PlaceOrders
  <2>1. \A o \in Order : payment[o] = "none" /\ o \notin cancelled \cup voided \cup shipped
    <3>1. \A o \in Order : payment[o] = "none" /\ OrderInv(o)
      BY <1>0, <1>3 DEF PlaceOrders, PlacingInv, Unplaced, Inv
    <3>. QED  BY <3>1 DEF OrderInv
  <2>2. Held' = Units
    <3>1. \A o \in Order : Held'[o] = Units[o]
      BY <1>3, <2>1 DEF PlaceOrders, Held
    <3>. QED  BY <3>1, CaptureAssumption DEF Held
  <2>3. Needed' = Tally(Units)
    BY <2>2 DEF Needed, Held
  <2>4. Needed = 0
    <3>1. \A o \in Order : Held[o] = 0
      BY <2>1 DEF Held
    <3>. QED  BY <1>0, <1>1, <3>1, HeldType, TallyZero
  <2>5. cancelled \cap voided = {}
    BY <2>1 DEF Inv, TypeOK
  <2>6. committed = 0 /\ committed' = committed + Tally(Units)
    BY <1>0, <1>3, <2>4, <2>5 DEF PlaceOrders, ReservationReleased
  <2>. QED  BY <1>0, <2>3, <2>6, Sums DEF ReservationReleased
<1>4. ASSUME NEW h \in Marker, NEW o \in Order, SaveCaptured(h, o)
      PROVE  ReservationReleased'
  <2>1. payment[o] # "none"
    BY <1>4 DEF SaveCaptured, Inv, CaptureInv, PlacingInv, Placed
  <2>2. \A p \in Order : Held'[p] = Held[p]
    BY <1>4, <2>1 DEF SaveCaptured, Held, Inv, TypeOK
  <2>3. Needed' = Needed
    BY <1>0, <1>1, <2>2, HeldMoves
  <2>. QED  BY <1>0, <1>4, <2>3 DEF SaveCaptured, ReservationReleased
<1>5. ASSUME NEW o \in Order, VoidOrder(o)
      PROVE  ReservationReleased'
  <2>1. payment[o] = "authorized" /\ o \notin voided /\ o \notin shipped
    BY <1>5 DEF VoidOrder, Inv, StripeInv, OrderInv
  <2>2. \A p \in Order \ {o} : Held'[p] = Held[p]
    BY <1>5 DEF VoidOrder, Held, Inv, TypeOK
  <2>3. Held'[o] = 0 /\ Held[o] = (IF o \in cancelled THEN 0 ELSE Units[o])
    BY <1>5, <2>1 DEF VoidOrder, Held
  <2>4. Needed' = Needed - Held[o]
    BY <1>0, <1>1, <2>2, <2>3, HeldMoves
  <2>5. committed' = committed - Units[o] /\ Units[o] \in Nat
    BY <1>5, CaptureAssumption DEF VoidOrder
  <2>6. voided' = voided \cup {o} /\ cancelled' = cancelled
    BY <1>5 DEF VoidOrder
  <2>. QED  BY <1>0, <1>1, <2>3, <2>4, <2>5, <2>6 DEF ReservationReleased
<1>6. ASSUME NEW o \in Order, ReadToCancel(o)
      PROVE  ReservationReleased'
  BY <1>0, <1>6 DEF ReadToCancel, ReservationReleased, Needed
<1>7. ASSUME NEW o \in Order, CancelOrder(o)
      PROVE  ReservationReleased'
  <2>1. payment[o] # "none" /\ Open(o)
    BY <1>7 DEF CancelOrder, Inv, OrderInv
  <2>2. \A p \in Order \ {o} : Held'[p] = Held[p]
    BY <1>7 DEF CancelOrder, Held, Inv, TypeOK
  <2>3. Held'[o] = 0 /\ Held[o] = Units[o]
    BY <1>7, <2>1 DEF CancelOrder, Held
  <2>4. Needed' = Needed - Units[o] /\ Units[o] \in Nat /\ Units[o] <= Needed
    BY <1>0, <1>1, <2>2, <2>3, HeldMoves, CaptureAssumption
  <2>5. /\ committed' = IF committed > Units[o] THEN committed - Units[o] ELSE 0
        /\ cancelled' = cancelled \cup {o} /\ voided' = voided
    BY <1>7 DEF CancelOrder
  <2>. QED  BY <1>0, <1>1, <2>4, <2>5 DEF ReservationReleased
<1>8. ASSUME NEW c \in Call, Ship(c)
      PROVE  ReservationReleased'
  <2> DEFINE o == About[c]
  <2>1. o \in Order /\ payment[o] = "paid" /\ Units[o] \in Nat
    BY <1>8, CaptureAssumption DEF Ship, Inv, CaptureInv
  <2>2. CASE ~Open(o)
    <3>1. UNCHANGED <<payment, cancelled, voided, shipped, committed>>
      BY <1>8, <2>2 DEF Ship
    <3>. QED  BY <1>0, <3>1 DEF ReservationReleased, Needed
  <2>3. CASE Open(o)
    <3>1. /\ shipped' = shipped \cup {o} /\ committed' = committed - Units[o]
          /\ UNCHANGED <<payment, cancelled, voided>>
      BY <1>8, <2>3 DEF Ship
    <3>2. \A p \in Order \ {o} : Held'[p] = Held[p]
      BY <3>1 DEF Held
    <3>3. Held'[o] = 0 /\ Held[o] = Units[o]
      BY <2>1, <2>3, <3>1 DEF Held
    <3>4. Needed' = Needed - Units[o]
      BY <1>0, <1>1, <2>1, <3>2, <3>3, HeldMoves
    <3>. QED  BY <1>0, <1>1, <2>1, <3>1, <3>4 DEF ReservationReleased
  <2>. QED  BY <2>2, <2>3
<1>. QED  BY <1>2, <1>3, <1>4, <1>5, <1>6, <1>7, <1>8, StepKinds DEF Inv, OrderStep

-----------------------------------------------------------------------------
(* The theorems.                                                           *)

LEMMA InitInv == Init => Inv
<1>. SUFFICES ASSUME Init PROVE Inv
  OBVIOUS
<1>1. TypeOK
  <2>1. failures \in 0 .. Failures /\ captured \in Nat /\ committed \in Int
    BY CaptureAssumption DEF Init
  <2>2. linked \in BOOLEAN /\ broken \in BOOLEAN
    BY Zenon DEF Init
  <2>3. amount \in [Order -> Nat] /\ write \in [Handler -> [Order -> Nat]]
    BY CaptureAssumption DEF Init
  <2>4. /\ intent \in {"open", "capturable", "captured", "canceled"} /\ events \subseteq Event
        /\ txn \in {"pending", "authorized", "completed", "failed", "refunded"}
        /\ payment \in [Order -> {"none", "authorized", "paid", "failed"}]
        /\ \A orders \in {cancelled, voided, shipped, cancelling} : orders \subseteq Order
        /\ pc \in [Handler -> Steps] /\ todo \in [Handler -> SUBSET Order]
    BY DEF Init, Steps
  <2>. QED  BY <2>1, <2>2, <2>3, <2>4 DEF TypeOK
<1>2. /\ \A h \in Handler : HandlerInv(h) /\ CaptureInv(h)
      /\ PlacingInv /\ StripeInv /\ \A o \in Order : OrderInv(o)
  BY Names DEF Init, HandlerInv, StepsOf, CaptureInv, PlacingInv, Unplaced, StripeInv, OrderInv, Handler
<1>3. Needed = 0
  <2>1. Held \in [Order -> Nat] /\ \A o \in Order : Held[o] = 0
    BY <1>1, HeldType DEF Init, Held
  <2>. QED  BY <1>1, <2>1, HeldType, TallyZero
<1>4. ReservationReleased
  BY <1>3 DEF Init, ReservationReleased
<1>. QED  BY <1>1, <1>2, <1>4 DEF Inv

LEMMA Invariance == Spec => []Inv
<1>1. Inv /\ [Next]_vars => Inv'
  <2> SUFFICES ASSUME Inv, [Next]_vars PROVE Inv'
    OBVIOUS
  <2>1. CASE Next
    <3>1. TypeOK' /\ \A h \in Handler : HandlerInv(h)'
      BY <2>1, Types, Handlers DEF Inv
    <3>2. PlacingInv' /\ StripeInv'
      BY <2>1, Placings, Events
    <3>3. \A h \in Handler : CaptureInv(h)'
      BY <2>1, Knowledge
    <3>4. (\A o \in Order : OrderInv(o)') /\ ReservationReleased'
      BY <2>1, <3>1, Orders, Reservations
    <3>. QED  BY <3>1, <3>2, <3>3, <3>4 DEF Inv
  <2>2. CASE UNCHANGED vars
    BY <2>2 DEF vars, stripeVars, txnVars, orderVars, handlerVars, faultVars, Inv, TypeOK,
       HandlerInv, PlacingInv, Placed, Unplaced, CaptureInv, StripeInv, OrderInv, Open,
       ReservationReleased, Needed
  <2>. QED  BY <2>1, <2>2
<1>. QED  BY <1>1, InitInv, PTL DEF Spec

(* Every variable keeps its type.                                          *)
THEOREM TypeCorrect == Spec => []TypeOK
<1>1. Inv => TypeOK
  BY DEF Inv
<1>. QED  BY <1>1, Invariance, PTL

(* Orders are paid, shipped and given up for what Stripe did with the      *)
(* money (markOrdersCaptured, handleAuthorizationCanceled, the capture     *)
(* that shipping waits for), however events and requests cross.            *)
THEOREM PaymentsFollowMoney == Spec => []PaymentsAgree
<1>1. Inv => PaymentsAgree
  BY DEF Inv, OrderInv, PaymentsAgree
<1>. QED  BY <1>1, Invariance, PTL

(* Shipping, voiding and cancelling release every reservation, and once    *)
(* unless an order was cancelled in both ways.                             *)
THEOREM ReservationsReleased == Spec => []ReservationReleased
<1>1. Inv => ReservationReleased
  BY DEF Inv
<1>. QED  BY <1>1, Invariance, PTL

-----------------------------------------------------------------------------
(* One hold on a card.                                                     *)

(* Nothing is handled before the card was authorized; the prices stand and *)
(* what is to be captured fits in them until it is; and what a cancellation *)
(* has read and still stands waits for its money.                          *)
Opened == "authorize" \in events \/ pc["authorize"] # "idle" => intent # "open"
Priced ==
  intent # "captured" =>
    amount = Total /\ \A c \in Call : pc[c] = "capturing" => Part[c] <= Tally(Total)
Waiting == \A o \in cancelling : payment[o] = "authorized"
HoldInv == Opened /\ Priced /\ Waiting

LEMMA Openings ==
  ASSUME Inv, Opened, Next
  PROVE  Opened'
<1> USE Names DEF Goto, Inv, TypeOK, Opened
<1>0. intent # "open" => intent' # "open"
  <2>1. CASE StripeStep
    BY <2>1 DEF StripeStep, Authorize, Expire, ReleaseSoldOut, Capture, stripeVars
  <2>2. CASE ClaimStep
    BY <2>2 DEF ClaimStep, ClaimAuthorization, ClaimCapture, ClaimCancel, FailPlacing, NoteReleased,
       LinkOrders, CompleteRow, stripeVars
  <2>3. CASE WalkStep
    BY <2>3 DEF WalkStep, EndVoiding, EndSaving, BeginCapture, BreakOff, FindUnpaid, stripeVars
  <2>4. CASE OrderStep
    BY <2>4 DEF OrderStep, PlaceOrders, SaveCaptured, VoidOrder, ReadToCancel, CancelOrder, Ship,
       stripeVars
  <2>. QED  BY <2>1, <2>2, <2>3, <2>4, StepKinds
<1>1. CASE StripeStep
  BY <1>1 DEF StripeStep, Authorize, Expire, ReleaseSoldOut, Capture, handlerVars, stripeVars
<1>2. CASE ClaimStep
  BY <1>0, <1>2 DEF ClaimStep, ClaimAuthorization, ClaimCapture, ClaimCancel, FailPlacing, Fail,
     NoteReleased, LinkOrders, CompleteRow, stripeVars, Deliver
<1>3. CASE EndVoiding \/ (\E h \in Marker : EndSaving(h)) \/ (\E c \in Call : BeginCapture(c))
  BY <1>0, <1>3 DEF EndVoiding, EndSaving, BeginCapture, stripeVars
<1>4. ASSUME NEW h \in Marker, NEW n \in Nat, FindUnpaid(h, n)
      PROVE  Opened'
  <2>1. pc' = [pc EXCEPT ![h] = "saving"] /\ events' = events
    BY <1>4 DEF FindUnpaid, stripeVars
  <2>. QED  BY <1>0, <2>1
<1>5. ASSUME NEW h \in Handler, BreakOff(h)
      PROVE  Opened'
  BY <1>0, <1>5 DEF BreakOff
<1>6. CASE OrderStep
  BY <1>0, <1>6 DEF OrderStep, PlaceOrders, SaveCaptured, VoidOrder, ReadToCancel, CancelOrder, Ship,
     stripeVars, handlerVars
<1>. QED  BY <1>1, <1>2, <1>3, <1>4, <1>5, <1>6, StepKinds DEF WalkStep

LEMMA Pricings ==
  ASSUME Inv, Priced, Next
  PROVE  Priced'
<1> SUFFICES ASSUME intent' # "captured"
             PROVE  amount' = Total /\ \A c \in Call : pc'[c] = "capturing" => Part[c] <= Tally(Total)
  BY DEF Priced
<1>0. /\ pc \in [Handler -> Steps] /\ \A h \in Marker : CaptureInv(h)
      /\ intent # "captured" /\ amount = Total
      /\ \A c \in Call : pc[c] = "capturing" => Part[c] <= Tally(Total)
  BY Intents, Names DEF Inv, TypeOK, Priced
<1>1. amount' = Total
  <2>1. CASE StripeStep \/ ClaimStep \/ WalkStep
    BY <1>0, <2>1 DEF StripeStep, Authorize, Expire, ReleaseSoldOut, Capture, ClaimStep,
       ClaimAuthorization, ClaimCapture, ClaimCancel, FailPlacing, NoteReleased, LinkOrders,
       CompleteRow, WalkStep, EndVoiding, EndSaving, BeginCapture, BreakOff, FindUnpaid, orderVars
  <2>2. ASSUME NEW h \in Marker, NEW o \in Order, SaveCaptured(h, o)
        PROVE  FALSE
    BY <1>0, <2>2 DEF SaveCaptured, CaptureInv
  <2>3. CASE OrderStep /\ ~(\E h \in Marker, o \in Order : SaveCaptured(h, o))
    BY <1>0, <2>3 DEF OrderStep, PlaceOrders, VoidOrder, ReadToCancel, CancelOrder, Ship
  <2>. QED  BY <2>1, <2>2, <2>3, StepKinds DEF Inv
<1>2. ASSUME NEW c \in Call, pc'[c] = "capturing"
      PROVE  Part[c] <= Tally(Total)
  <2>1. c \in Handler /\ c \in Marker /\ c \notin {"authorize", "succeed", "cancel"}
    BY Names
  <2>2. pc[c] = "capturing" \/ BeginCapture(c)
    <3>1. CASE StripeStep \/ ClaimStep
      BY <1>0, <1>2, <2>1, <3>1 DEF StripeStep, Authorize, Expire, ReleaseSoldOut, Capture, ClaimStep,
         ClaimAuthorization, ClaimCapture, ClaimCancel, FailPlacing, Fail, NoteReleased, LinkOrders,
         CompleteRow, handlerVars, Goto
    <3>2. ASSUME NEW h \in Marker, NEW n \in Nat, FindUnpaid(h, n)
          PROVE  pc[c] = "capturing"
      <4>1. pc' = [pc EXCEPT ![h] = "saving"]
        BY <3>2 DEF FindUnpaid, Goto
      <4>. QED  BY <1>0, <1>2, <2>1, <4>1
    <3>3. CASE \/ EndVoiding \/ (\E h \in Marker : EndSaving(h)) \/ (\E d \in Call : BeginCapture(d))
               \/ (\E h \in Handler : BreakOff(h))
      BY <1>0, <1>2, <2>1, <3>3 DEF EndVoiding, EndSaving, BeginCapture, BreakOff, Goto
    <3>4. CASE OrderStep
      BY <1>0, <1>2, <2>1, <3>4 DEF OrderStep, PlaceOrders, SaveCaptured, VoidOrder, ReadToCancel,
         CancelOrder, Ship, handlerVars, Goto
    <3>. QED  BY <3>1, <3>2, <3>3, <3>4, StepKinds DEF WalkStep, Inv
  <2>3. BeginCapture(c) => Part[c] <= Tally(Total) \/ pc'[c] = "shipping"
    BY <1>0, <2>1 DEF BeginCapture, Goto
  <2>. QED  BY <1>0, <1>2, <2>2, <2>3
<1>. QED  BY <1>1, <1>2

LEMMA Waits ==
  ASSUME Inv, Waiting, Next
  PROVE  Waiting'
<1> SUFFICES ASSUME NEW o \in cancelling'
             PROVE  payment'[o] = "authorized"
  BY DEF Waiting
<1>0. cancelling \subseteq Order /\ payment \in [Order -> {"none", "authorized", "paid", "failed"}]
  BY DEF Inv, TypeOK
<1>1. CASE StripeStep \/ ClaimStep \/ WalkStep
  <2>1. UNCHANGED orderVars
    BY <1>1 DEF StripeStep, Authorize, Expire, ReleaseSoldOut, Capture, ClaimStep,
       ClaimAuthorization, ClaimCapture, ClaimCancel, FailPlacing, NoteReleased, LinkOrders,
       CompleteRow, WalkStep, EndVoiding, EndSaving, BeginCapture, BreakOff, FindUnpaid, orderVars
  <2>. QED  BY <2>1 DEF orderVars, Waiting
<1>2. CASE PlaceOrders
  BY <1>0, <1>2 DEF PlaceOrders
<1>3. ASSUME NEW h \in Marker, NEW p \in Order, SaveCaptured(h, p)
      PROVE  payment'[o] = "authorized"
  BY <1>0, <1>3 DEF SaveCaptured, Waiting
<1>4. ASSUME NEW p \in Order, VoidOrder(p) \/ ReadToCancel(p) \/ CancelOrder(p)
      PROVE  payment'[o] = "authorized"
  BY <1>0, <1>4 DEF VoidOrder, ReadToCancel, CancelOrder, Waiting
<1>5. ASSUME NEW c \in Call, Ship(c)
      PROVE  payment'[o] = "authorized"
  BY <1>0, <1>5 DEF Ship, Waiting
<1>. QED  BY <1>1, <1>2, <1>3, <1>4, <1>5, StepKinds DEF Inv, OrderStep

LEMMA HoldInvariance == Spec => [](Inv /\ HoldInv)
<1>1. Init => HoldInv
  BY Names DEF Init, HoldInv, Opened, Priced, Waiting
<1>2. Inv /\ HoldInv /\ [Next]_vars => HoldInv'
  <2> SUFFICES ASSUME Inv, HoldInv, [Next]_vars PROVE HoldInv'
    OBVIOUS
  <2>1. CASE Next
    BY <2>1, Openings, Pricings, Waits DEF HoldInv
  <2>2. CASE UNCHANGED vars
    BY <2>2 DEF vars, stripeVars, txnVars, orderVars, handlerVars, HoldInv, Opened, Priced, Waiting
  <2>. QED  BY <2>1, <2>2
<1>. QED  BY <1>1, <1>2, Invariance, PTL DEF Spec

(* The total of a checkout is more than nothing.                           *)
LEMMA ChargeFits ==
  ASSUME Inv, HoldInv, NEW c \in Call, pc[c] = "capturing", intent = "capturable"
  PROVE  Captures(c) \in 1 .. Tally(Total)
<1>1. Tally(Total) \in Nat /\ Part[c] \in Nat /\ Part[c] <= Tally(Total)
  BY Sums, CaptureAssumption DEF Inv, HoldInv, Priced
<1>2. Tally(Total) > 0
  <2>1. PICK o : o \in Order
    BY CaptureAssumption
  <2>2. Total \in [Order -> Nat] /\ IsFiniteSet(Order) /\ Total[o] > 0
    BY <2>1, CaptureAssumption
  <2>3. Total[o] <= Tally(Total)
    BY <2>1, <2>2, TallyBound
  <2>. QED  BY <1>1, <2>1, <2>2, <2>3
<1>. QED  BY <1>1, <1>2 DEF Captures

LEMMA HoldInit == Init => OneHold!Init
BY DEF Init, OneHold!Init, Having

(* Stripe decides on the hold.                                             *)
LEMMA HoldDecides ==
  ASSUME Inv, HoldInv, StripeStep
  PROVE  OneHold!Next \/ UNCHANGED OneHold!vars
<1> DEFINE Seen == <<Having("authorized"), Having("paid"), Having("failed"), cancelled, shipped>>
<1>1. CASE Authorize
  <2>1. UNCHANGED Seen
    BY <1>1 DEF Authorize, orderVars, Having
  <2>. QED  BY <1>1, <2>1 DEF Authorize, OneHold!Next, OneHold!Authorize
<1>2. CASE Expire \/ ReleaseSoldOut
  <2>1. UNCHANGED Seen
    BY <1>2 DEF Expire, ReleaseSoldOut, orderVars, Having
  <2>. QED  BY <1>2, <2>1 DEF Expire, ReleaseSoldOut, OneHold!Next, OneHold!Release
<1>3. ASSUME NEW c \in Call, Capture(c)
      PROVE  OneHold!Next \/ UNCHANGED OneHold!vars
  <2>1. UNCHANGED Seen
    BY <1>3 DEF Capture, orderVars, Having
  <2>2. CASE intent = "capturable"
    <3>1. Having("authorized") = Order
      <4>1. Placed
        BY <1>3, Names DEF Capture, Inv, PlacingInv
      <4>2. \A o \in Order : payment[o] \in {"none", "authorized", "paid", "failed"}
        BY DEF Inv, TypeOK
      <4>. QED  BY <2>2, <4>1, <4>2 DEF Inv, OrderInv, Placed, Having
    <3>2. PICK n \in 1 .. Tally(Total) : n = Captures(c)
      BY <1>3, <2>2, ChargeFits DEF Capture
    <3>3. intent' = "captured" /\ captured' = n
      BY <1>3, <2>2, <3>2 DEF Capture
    <3>4. OneHold!Charge(n)
      BY <2>1, <2>2, <3>1, <3>3 DEF OneHold!Charge
    <3>5. \E m \in 1 .. Tally(Total) : OneHold!Charge(m)
      BY <3>4
    <3>. QED  BY <3>5 DEF OneHold!Next
  <2>3. CASE intent # "capturable"
    BY <1>3, <2>1, <2>3 DEF Capture, stripeVars, OneHold!vars
  <2>. QED  BY <2>2, <2>3
<1>. QED  BY <1>1, <1>2, <1>3 DEF StripeStep

(* Orders are placed, paid or given up.                                    *)
LEMMA HoldPlaces ==
  ASSUME Inv, HoldInv, PlaceOrders
  PROVE  OneHold!Place
<1>1. /\ pc["authorize"] = "placing" /\ payment' = [o \in Order |-> "authorized"]
      /\ intent' = intent /\ captured' = captured /\ cancelled' = cancelled /\ shipped' = shipped
  BY DEF PlaceOrders, stripeVars
<1>2. Unplaced /\ intent # "captured" /\ intent # "open"
  BY <1>1, CaptureAssumption DEF Inv, PlacingInv, Placed, Unplaced, HoldInv, Opened
<1>3. intent \in {"capturable", "canceled"}
  BY <1>2 DEF Inv, TypeOK
<1>4. \A s \in {"authorized", "paid", "failed"} : Having(s) = {}
  BY <1>2 DEF Unplaced, Having
<1>5. Having("authorized")' = Order /\ Having("paid")' = {} /\ Having("failed")' = {}
  BY <1>1 DEF Having
<1>. QED  BY <1>1, <1>3, <1>4, <1>5 DEF OneHold!Place

LEMMA HoldPays ==
  ASSUME Inv, NEW h \in Marker, NEW o \in Order, SaveCaptured(h, o)
  PROVE  OneHold!Pay(o) \/ UNCHANGED OneHold!vars
<1>1. /\ payment \in [Order -> {"none", "authorized", "paid", "failed"}]
      /\ payment' = [payment EXCEPT ![o] = "paid"]
      /\ intent' = intent /\ captured' = captured /\ cancelled' = cancelled /\ shipped' = shipped
  BY DEF SaveCaptured, stripeVars, Inv, TypeOK
<1>2. intent = "captured"
  BY Names DEF SaveCaptured, Inv, CaptureInv
<1>3. payment[o] \in {"authorized", "paid"}
  BY <1>1, <1>2 DEF Inv, PlacingInv, Placed, OrderInv
<1>4. CASE payment[o] = "authorized"
  <2>1. o \in Having("authorized")
    BY <1>4 DEF Having
  <2>2. /\ Having("authorized")' = Having("authorized") \ {o}
        /\ Having("paid")' = Having("paid") \cup {o} /\ Having("failed")' = Having("failed")
    BY <1>1, <1>4 DEF Having
  <2>. QED  BY <1>1, <1>2, <2>1, <2>2 DEF OneHold!Pay
<1>5. CASE payment[o] = "paid"
  <2>1. payment' = payment
    BY <1>1, <1>5
  <2>. QED  BY <1>1, <2>1 DEF OneHold!vars, Having
<1>. QED  BY <1>3, <1>4, <1>5

LEMMA HoldGivesUp ==
  ASSUME Inv, NEW o \in Order, VoidOrder(o)
  PROVE  OneHold!GiveUp(o)
<1>1. /\ payment \in [Order -> {"none", "authorized", "paid", "failed"}]
      /\ payment' = [payment EXCEPT ![o] = "failed"]
      /\ intent' = intent /\ captured' = captured /\ cancelled' = cancelled /\ shipped' = shipped
  BY DEF VoidOrder, stripeVars, Inv, TypeOK
<1>2. intent = "canceled" /\ payment[o] = "authorized"
  BY DEF VoidOrder, Inv, StripeInv
<1>3. o \in Having("authorized")
  BY <1>2 DEF Having
<1>4. /\ Having("authorized")' = Having("authorized") \ {o}
      /\ Having("failed")' = Having("failed") \cup {o} /\ Having("paid")' = Having("paid")
  BY <1>1, <1>2 DEF Having
<1>. QED  BY <1>1, <1>2, <1>3, <1>4 DEF OneHold!GiveUp

(* Orders are cancelled or sent, never both.                               *)
LEMMA HoldCancels ==
  ASSUME Inv, HoldInv, NEW o \in Order, CancelOrder(o)
  PROVE  OneHold!Cancel(o)
<1>1. /\ o \in cancelling /\ cancelled' = cancelled \cup {o} /\ payment' = payment
      /\ intent' = intent /\ captured' = captured /\ shipped' = shipped
  BY DEF CancelOrder, stripeVars
<1>2. payment[o] = "authorized" /\ o \notin cancelled
  BY <1>1 DEF HoldInv, Waiting, Inv, OrderInv, Open
<1>3. o \in Having("authorized") \ cancelled
  BY <1>2 DEF Having
<1>4. UNCHANGED <<Having("authorized"), Having("paid"), Having("failed")>>
  BY <1>1 DEF Having
<1>. QED  BY <1>1, <1>3, <1>4 DEF OneHold!Cancel

LEMMA HoldSends ==
  ASSUME Inv, NEW c \in Call, Ship(c)
  PROVE  OneHold!Send(About[c]) \/ UNCHANGED OneHold!vars
<1>1. /\ pc[c] = "shipping" /\ payment' = payment /\ cancelled' = cancelled
      /\ intent' = intent /\ captured' = captured
      /\ \/ Open(About[c]) /\ shipped' = shipped \cup {About[c]}
         \/ shipped' = shipped
  BY DEF Ship, stripeVars
<1>2. About[c] \in Order /\ payment[About[c]] = "paid"
  BY <1>1, Names, CaptureAssumption DEF Inv, CaptureInv
<1>3. UNCHANGED <<Having("authorized"), Having("paid"), Having("failed")>>
  BY <1>1 DEF Having
<1>4. About[c] \in Having("paid")
  BY <1>2 DEF Having
<1>. QED  BY <1>1, <1>3, <1>4 DEF OneHold!Send, OneHold!vars, Open

LEMMA HoldStep == Inv /\ HoldInv /\ [Next]_vars => [OneHold!Next]_OneHold!vars
<1> SUFFICES ASSUME Inv, HoldInv, [Next]_vars PROVE OneHold!Next \/ UNCHANGED OneHold!vars
  OBVIOUS
<1>1. CASE StripeStep
  BY <1>1, HoldDecides
<1>2. CASE ClaimStep \/ WalkStep \/ (\E o \in Order : ReadToCancel(o)) \/ UNCHANGED vars
  <2>1. /\ UNCHANGED <<intent, captured>>
        /\ UNCHANGED <<payment, cancelled, shipped>>
    BY <1>2 DEF ClaimStep, ClaimAuthorization, ClaimCapture, ClaimCancel, FailPlacing, NoteReleased,
       LinkOrders, CompleteRow, WalkStep, EndVoiding, EndSaving, BeginCapture, BreakOff, FindUnpaid,
       ReadToCancel, vars, stripeVars, orderVars
  <2>. QED  BY <2>1 DEF OneHold!vars, Having
<1>3. CASE PlaceOrders
  BY <1>3, HoldPlaces DEF OneHold!Next
<1>4. ASSUME NEW h \in Marker, NEW o \in Order, SaveCaptured(h, o)
      PROVE  OneHold!Next \/ UNCHANGED OneHold!vars
  BY <1>4, HoldPays DEF OneHold!Next
<1>5. ASSUME NEW o \in Order, VoidOrder(o) \/ CancelOrder(o)
      PROVE  OneHold!Next
  BY <1>5, HoldGivesUp, HoldCancels DEF OneHold!Next
<1>6. ASSUME NEW c \in Call, Ship(c)
      PROVE  OneHold!Next \/ UNCHANGED OneHold!vars
  <2>1. About[c] \in Order
    BY CaptureAssumption
  <2>. QED  BY <1>6, <2>1, HoldSends DEF OneHold!Next
<1>. QED  BY <1>1, <1>2, <1>3, <1>4, <1>5, <1>6, StepKinds DEF Inv, OrderStep

(* Whatever order events, requests, failures and cancellations come in,    *)
(* every step is one of a card that is charged once and at most its total, *)
(* of an order paid, given up, cancelled or sent in its turn and for good, *)
(* or one neither the buyer nor the seller sees.                           *)
THEOREM OneHoldKept == Spec => HoldSpec
BY HoldInvariance, HoldInit, HoldStep, PTL DEF Spec, HoldSpec, OneHold!Spec

-----------------------------------------------------------------------------
(* Captured money is not forgotten.                                        *)

(* A transaction that failed or was refunded is of a hold that is gone; of *)
(* one that is completed the orders are paid or somebody is at work.       *)
Settled ==
  /\ txn \in {"failed", "refunded"} \/ pc["authorize"] = "releasing" => intent = "canceled"
  /\ txn = "completed" /\ ~broken => AllPaid \/ \E h \in Handler : AtWork(h)
WorkInv == Settled /\ CaptureInHand

LEMMA PaidForGood ==
  ASSUME Inv, Next, AllPaid
  PROVE  AllPaid'
BY PaidStays DEF AllPaid

(* Work ends with the orders paid, or is broken off.                       *)
LEMMA WorkGoesOn ==
  ASSUME Inv, Next, NEW h \in Handler, AtWork(h)
  PROVE  AtWork(h)' \/ AllPaid' \/ broken'
<1> USE Names DEF Goto
<1>0. /\ pc \in [Handler -> Steps] /\ CaptureInv(h) /\ HandlerInv(h)
      /\ pc[h] \in {"completing", "finding", "saving"} /\ h \notin {"authorize", "cancel"}
  BY DEF Inv, TypeOK, AtWork, HandlerInv, StepsOf
<1>1. pc'[h] = pc[h] => AtWork(h)'
  BY <1>0 DEF AtWork
<1>2. CASE StripeStep \/ OrderStep
  BY <1>0, <1>1, <1>2 DEF StripeStep, Authorize, Expire, ReleaseSoldOut, Capture, OrderStep, PlaceOrders,
     SaveCaptured, VoidOrder, ReadToCancel, CancelOrder, Ship, handlerVars
<1>3. CASE ClaimStep
  <2>1. ASSUME NEW c \in Call, CompleteRow(c)
        PROVE  AtWork(h)'
    BY <1>0, <2>1 DEF CompleteRow, AtWork
  <2>2. CASE ClaimStep /\ ~(\E c \in Call : CompleteRow(c))
    <3>1. pc'[h] = pc[h] \/ pc'[h] = "finding"
      BY <1>0, <2>2 DEF ClaimStep, ClaimAuthorization, ClaimCapture, ClaimCancel, FailPlacing, Fail,
         NoteReleased, LinkOrders
    <3>. QED  BY <1>1, <3>1 DEF AtWork
  <2>. QED  BY <1>3, <2>1, <2>2
<1>4. CASE EndVoiding \/ (\E c \in Call : BeginCapture(c))
  <2>1. pc'[h] = pc[h]
    BY <1>0, <1>4 DEF EndVoiding, BeginCapture
  <2>. QED  BY <1>1, <2>1
<1>5. ASSUME NEW k \in Marker, EndSaving(k)
      PROVE  AtWork(h)' \/ AllPaid'
  <2>1. CASE k = h
    <3>1. AllPaid
      BY <1>0, <1>5, <2>1 DEF EndSaving, CaptureInv, AllPaid
    <3>. QED  BY <3>1, PaidForGood
  <2>2. CASE k # h
    <3>1. pc'[h] = pc[h]
      BY <1>0, <1>5, <2>2 DEF EndSaving
    <3>. QED  BY <1>1, <3>1
  <2>. QED  BY <2>1, <2>2
<1>6. ASSUME NEW k \in Handler, BreakOff(k)
      PROVE  broken'
  BY <1>6 DEF BreakOff
<1>7. ASSUME NEW k \in Marker, NEW n \in Nat, FindUnpaid(k, n)
      PROVE  AtWork(h)'
  <2>1. pc' = [pc EXCEPT ![k] = "saving"]
    BY <1>7 DEF FindUnpaid
  <2>. QED  BY <1>0, <2>1 DEF AtWork
<1>. QED  BY <1>2, <1>3, <1>4, <1>5, <1>6, <1>7, StepKinds DEF Inv, WalkStep

LEMMA BrokenStays ==
  ASSUME Inv, Next, broken
  PROVE  broken'
<1>1. CASE StripeStep \/ OrderStep
  BY <1>1 DEF StripeStep, Authorize, Expire, ReleaseSoldOut, Capture, OrderStep, PlaceOrders,
     SaveCaptured, VoidOrder, ReadToCancel, CancelOrder, Ship, faultVars
<1>2. CASE ClaimStep
  BY <1>2 DEF ClaimStep, ClaimAuthorization, ClaimCapture, ClaimCancel, FailPlacing, Fail,
     NoteReleased, LinkOrders, CompleteRow, faultVars
<1>3. CASE WalkStep
  BY <1>3 DEF WalkStep, EndVoiding, EndSaving, BeginCapture, BreakOff, FindUnpaid, faultVars
<1>. QED  BY <1>1, <1>2, <1>3, StepKinds DEF Inv

(* The transaction is completed by one who goes on to the orders, and      *)
(* given up only with the hold.                                            *)
LEMMA Rows ==
  ASSUME Inv, Settled, Next
  PROVE  /\ txn' \in {"failed", "refunded"} \/ pc'["authorize"] = "releasing" => intent' = "canceled"
         /\ txn' = "completed" => txn = "completed" \/ \E h \in Handler : AtWork(h)'
<1> USE Names DEF Goto
<1>0. /\ pc \in [Handler -> Steps] /\ StripeInv
      /\ txn \in {"failed", "refunded"} \/ pc["authorize"] = "releasing" => intent = "canceled"
      /\ intent = "canceled" => intent' = "canceled"
  BY Intents DEF Inv, TypeOK, Settled
<1>1. CASE StripeStep \/ OrderStep
  BY <1>0, <1>1 DEF StripeStep, Authorize, Expire, ReleaseSoldOut, Capture, OrderStep, PlaceOrders,
     SaveCaptured, VoidOrder, ReadToCancel, CancelOrder, Ship, handlerVars, txnVars
<1>2. CASE ClaimStep
  <2>1. CASE ClaimAuthorization \/ FailPlacing \/ NoteReleased \/ LinkOrders
    BY <1>0, <2>1 DEF ClaimAuthorization, FailPlacing, Fail, NoteReleased, LinkOrders
  <2>2. CASE ClaimCancel
    BY <1>0, <2>2 DEF ClaimCancel, Deliver, StripeInv
  <2>3. CASE ClaimCapture
    BY <1>0, <2>3 DEF ClaimCapture, AtWork
  <2>4. ASSUME NEW c \in Call, CompleteRow(c)
        PROVE  /\ txn' = "completed" /\ pc'["authorize"] = pc["authorize"]
               /\ c \in Handler /\ AtWork(c)'
    BY <1>0, <2>4 DEF CompleteRow, AtWork
  <2>. QED  BY <1>0, <1>2, <2>1, <2>2, <2>3, <2>4 DEF ClaimStep
<1>3. CASE EndVoiding \/ (\E h \in Marker : EndSaving(h)) \/ (\E c \in Call : BeginCapture(c))
  BY <1>0, <1>3 DEF EndVoiding, EndSaving, BeginCapture, txnVars
<1>4. ASSUME NEW h \in Marker, NEW n \in Nat, FindUnpaid(h, n)
      PROVE  txn' = txn /\ pc'["authorize"] = pc["authorize"]
  <2>1. pc' = [pc EXCEPT ![h] = "saving"] /\ txn' = txn
    BY <1>4 DEF FindUnpaid, txnVars
  <2>. QED  BY <1>0, <2>1
<1>5. ASSUME NEW h \in Handler, BreakOff(h)
      PROVE  txn' = txn /\ pc'["authorize"] \in {pc["authorize"], "idle"}
  BY <1>0, <1>5 DEF BreakOff, txnVars
<1>. QED  BY <1>0, <1>1, <1>2, <1>3, <1>4, <1>5, StepKinds DEF Inv, WalkStep

(* A capture is announced, and the event kept until it is handled.         *)
LEMMA Announcements ==
  ASSUME Inv, Next
  PROVE  /\ "succeed" \in events => "succeed" \in events' \/ ClaimCapture
         /\ intent' = "captured" => intent = "captured" \/ "succeed" \in events'
<1>0. events \subseteq Event
  BY DEF Inv, TypeOK
<1>1. CASE StripeStep
  BY <1>0, <1>1 DEF StripeStep, Authorize, Expire, ReleaseSoldOut, Capture, stripeVars
<1>2. CASE ClaimStep
  BY <1>0, <1>2 DEF ClaimStep, ClaimAuthorization, ClaimCancel, FailPlacing, Fail,
     NoteReleased, LinkOrders, CompleteRow, ClaimCapture, stripeVars, Deliver
<1>3. CASE WalkStep
  BY <1>0, <1>3 DEF WalkStep, EndVoiding, EndSaving, BeginCapture, BreakOff, FindUnpaid, stripeVars
<1>4. CASE OrderStep
  BY <1>0, <1>4 DEF OrderStep, PlaceOrders, SaveCaptured, VoidOrder, ReadToCancel, CancelOrder, Ship,
     stripeVars
<1>. QED  BY <1>1, <1>2, <1>3, <1>4, StepKinds DEF Inv

LEMMA WorkInvariance == Spec => [](Inv /\ WorkInv)
<1>1. Init => WorkInv
  BY Names DEF Init, WorkInv, Settled, CaptureInHand
<1>2. Inv /\ WorkInv /\ [Next]_vars => WorkInv'
  <2> SUFFICES ASSUME Inv, WorkInv, [Next]_vars PROVE WorkInv'
    OBVIOUS
  <2>1. CASE Next
    <3> USE <2>1
    <3>1. AllPaid \/ (\E h \in Handler : AtWork(h)) =>
            broken' \/ AllPaid' \/ \E h \in Handler : AtWork(h)'
      BY PaidForGood, WorkGoesOn
    <3>2. broken => broken'
      BY BrokenStays
    <3>3. Settled'
      BY <3>1, <3>2, Rows DEF WorkInv, Settled
    <3>4. CaptureInHand'
      <4>1. SUFFICES ASSUME intent' = "captured", ~broken', "succeed" \notin events'
                     PROVE  AllPaid' \/ \E h \in Handler : AtWork(h)'
        BY DEF CaptureInHand
      <4>2. intent = "captured" /\ ~broken
        BY <3>2, <4>1, Announcements
      <4>3. CASE "succeed" \notin events
        BY <3>1, <4>1, <4>2, <4>3 DEF WorkInv, CaptureInHand
      <4>4. CASE ClaimCapture /\ txn \in {"pending", "authorized"}
        BY <4>4, Names DEF ClaimCapture, AtWork, Goto, Inv, TypeOK
      <4>5. CASE txn \notin {"pending", "authorized"}
        <5>1. txn = "completed"
          BY <4>2, <4>5 DEF Inv, TypeOK, WorkInv, Settled
        <5>. QED  BY <3>1, <4>1, <4>2, <5>1 DEF WorkInv, Settled
      <4>. QED  BY <4>1, <4>3, <4>4, <4>5, Announcements
    <3>. QED  BY <3>3, <3>4 DEF WorkInv
  <2>2. CASE UNCHANGED vars
    BY <2>2 DEF vars, stripeVars, txnVars, orderVars, handlerVars, faultVars, WorkInv, Settled,
       CaptureInHand, AllPaid, AtWork
  <2>. QED  BY <2>1, <2>2
<1>. QED  BY <1>1, <1>2, Invariance, PTL DEF Spec

(* As long as no write fails in the midst, captured money has somebody who *)
(* will make the orders paid: the event that Stripe is still to deliver,   *)
(* or a handler on its way (finalizePaymentIntent, captureOrderPayment,    *)
(* markOrdersCaptured), also when the answer to the capture was lost.      *)
THEOREM NothingForgotten == Spec => []CaptureInHand
<1>1. WorkInv => CaptureInHand
  BY DEF WorkInv
<1>. QED  BY <1>1, WorkInvariance, PTL
=============================================================================
