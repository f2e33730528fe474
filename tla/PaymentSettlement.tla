-------------------------- MODULE PaymentSettlement --------------------------
(***************************************************************************)
(* One checkout paid by card, or on delivery: the buyer's payment succeeds *)
(* at the provider, and the webhook, the buyer's polling page or the cash  *)
(* on delivery button turn the checkout into its orders.  They race; a     *)
(* webhook is delivered until it is acknowledged, possibly several times   *)
(* at once; the buyer may start to pay again; stock runs out meanwhile and *)
(* comes back; writes and refunds fail, and the answer to a refund may be  *)
(* lost; a handler may die anywhere.                                       *)
(*                                                                         *)
(* Every access to the database and the provider is one action.  A payment *)
(* intent is identified by its amount, because the idempotency key it is   *)
(* created with is the checkout and the amount.  The stock of a checkout   *)
(* is one unit here; StockReservation takes it apart line by line.         *)
(***************************************************************************)
EXTENDS Naturals, Sequences, FiniteSets

CONSTANTS
  Worker,     \* handlers that run at the same time
  Total,      \* what the checkout may add up to
  Cash,       \* what pays for an order on delivery
  Units,      \* units on sale at first, and the most other people leave on sale
  Turns,      \* declines, edits, clicks to pay, failures, deaths, returned units in all
  MaxRows     \* payment transactions of the checkout

ASSUME SettlementAssumption ==
  /\ IsFiniteSet(Worker)
  /\ IsFiniteSet(Total) /\ Cash \notin Total
  /\ {Units, Turns} \subseteq Nat
  /\ MaxRows \in Nat \ {0}

VARIABLES
  checkout, total, claimed, \* status, totalAmount, orderPlacementClaimedAt
  cart,                     \* the orders it takes: "physical", "digital" items
  stock, committed,         \* units on sale; units reserved for this checkout
  orders,                   \* placed for it
  rows,                     \* its card transactions
  intent,                   \* the provider's payment intents
  refund,                   \* the transaction its money went back for, 0 when it did not
  unheard,                  \* payments that went back while the handler was told of a failure
  due, handled,             \* events not acknowledged; event ids recorded
  pc, job,                  \* of a handler
  turns, crashes           \* turns of fate so far, and the deaths among them

checkoutVars == <<checkout, total, claimed, cart>>
stockVars == <<stock, committed>>
eventVars == <<due, handled>>
providerVars == <<intent, refund, unheard>>
bounds == <<turns, crashes>>
vars == <<checkoutVars, stockVars, orders, rows, providerVars, eventVars, pc, job, bounds>>

Part == {"physical", "digital"}
Event == Total \X {"succeeded", "failed"}
Via == {"none", "webhook", "poll", "cod", "initiate"}
Point == {"idle", "declining", "screening", "polling", "asking", "claiming", "checking", "switching",
          "entering", "waiting", "looking", "reserving", "inserting", "redeeming", "unclaiming",
          "recording", "completing", "refunding", "noting", "cancelling", "reverting", "forgetting",
          "searching", "comparing", "retiring", "creating", "reopening"}
NoJob == [via |-> "none", by |-> Cash, row |-> 0, total |-> Cash, todo |-> {}, got |-> {}, soldOut |-> FALSE]

Init ==
  /\ checkout = "open" /\ total \in Total /\ claimed = FALSE
  /\ cart \in {{"physical"}, {"physical", "digital"}}
  /\ stock = Units /\ committed = 0
  /\ orders = <<>>
  /\ rows = <<[intent |-> total, status |-> "pending", orders |-> {}]>>
  /\ intent = [i \in Total |-> IF i = total THEN "open" ELSE "none"]
  /\ refund = [i \in Total |-> 0] /\ unheard = {}
  /\ due = {} /\ handled = {}
  /\ pc = [w \in Worker |-> "idle"] /\ job = [w \in Worker |-> NoJob]
  /\ turns = 0 /\ crashes = 0

Goto(w, p) == pc' = [pc EXCEPT ![w] = p]
Start(w, p, via, by) ==
  /\ Goto(w, p)
  /\ job' = [job EXCEPT ![w] = [NoJob EXCEPT !.via = via, !.by = by]]
Stop(w) == Goto(w, "idle") /\ job' = [job EXCEPT ![w] = NoJob]

OrderedParts == {orders[k].part : k \in DOMAIN orders}
RowsOf(i) == {k \in DOMAIN rows : rows[k].intent = i}
Pending == {k \in DOMAIN rows : rows[k].status = "pending"}

-----------------------------------------------------------------------------
(* The buyer, the provider and other buyers.                               *)

(* A declined card leaves the intent open: another card may succeed.       *)
Decline(i) ==
  /\ intent[i] = "open"
  /\ turns < Turns /\ turns' = turns + 1
  /\ due' = due \cup {<<i, "failed">>}
  /\ UNCHANGED <<checkoutVars, stockVars, orders, rows, providerVars, handled, pc, job,
                 crashes>>

Pay(i) ==
  /\ intent[i] = "open"
  /\ intent' = [intent EXCEPT ![i] = "succeeded"]
  /\ due' = due \cup {<<i, "succeeded">>}
  /\ UNCHANGED <<checkoutVars, stockVars, orders, rows, refund, unheard, handled, pc, job, bounds>>

(* A coupon, gift card, credit or shipping change, at any time before the  *)
(* checkout is completed.                                                  *)
EditCheckout ==
  /\ checkout = "open"
  /\ turns < Turns
  /\ \E t \in Total \ {total} : total' = t
  /\ turns' = turns + 1
  /\ UNCHANGED <<checkout, claimed, cart, stockVars, orders, rows, providerVars, eventVars, pc, job, crashes>>

(* Other customers and the sellers: units are bought, and units that were  *)
(* bought come back with a cancellation, a correction or a delivery.       *)
OthersBuy ==
  /\ stock > 0
  /\ stock' = stock - 1
  /\ UNCHANGED <<checkoutVars, committed, orders, rows, providerVars, eventVars, pc, job, bounds>>

OthersReturn ==
  /\ stock < Units
  /\ turns < Turns /\ turns' = turns + 1
  /\ stock' = stock + 1
  /\ UNCHANGED <<checkoutVars, committed, orders, rows, providerVars, eventVars, pc, job, crashes>>

-----------------------------------------------------------------------------
(* stripeWebhook.                                                          *)

(* An event already recorded is acknowledged at once, whether its first    *)
(* delivery was handled, is being handled or died.                         *)
Deliver(w, e) ==
  /\ pc[w] = "idle"
  /\ e \in due
  /\ IF e \in handled
     THEN due' = due \ {e} /\ UNCHANGED <<handled, pc, job>>
     ELSE /\ handled' = handled \cup {e}
          /\ Start(w, IF e[2] = "succeeded" THEN "claiming" ELSE "declining", "webhook", e[1])
          /\ UNCHANGED due
  /\ UNCHANGED <<checkoutVars, stockVars, orders, rows, providerVars, bounds>>

FailRow(w) ==
  LET pending == {k \in RowsOf(job[w].by) : rows[k].status = "pending"} IN
  /\ pc[w] = "declining"
  /\ IF pending = {} THEN UNCHANGED rows
     ELSE \E k \in pending : rows' = [rows EXCEPT ![k].status = "failed"]
  /\ due' = due \ {<<job[w].by, "failed">>}
  /\ Stop(w)
  /\ UNCHANGED <<checkoutVars, stockVars, orders, providerVars, handled, bounds>>

(* The failed delivery is forgotten so that the next one is not taken for  *)
(* a duplicate.                                                            *)
ForgetEvent(w) ==
  /\ pc[w] = "forgetting"
  /\ handled' = handled \ {<<job[w].by, "succeeded">>}
  /\ Stop(w)
  /\ UNCHANGED <<checkoutVars, stockVars, orders, rows, providerVars, due, bounds>>

-----------------------------------------------------------------------------
(* getPaymentStatus.                                                       *)

(* A completed checkout, or one whose payment went back, is reported as     *)
(* such; else a pending transaction is looked up at the provider, where a   *)
(* payment that went back still reads as one that succeeded.               *)
Poll(w) ==
  /\ pc[w] = "idle"
  /\ checkout # "completed"
  /\ Start(w, "screening", "poll", Cash)
  /\ UNCHANGED <<checkoutVars, stockVars, orders, rows, providerVars, eventVars, bounds>>

LookForRefund(w) ==
  /\ pc[w] = "screening"
  /\ IF \E k \in DOMAIN rows : rows[k].status = "refunded"
     THEN Stop(w)
     ELSE Goto(w, "polling") /\ UNCHANGED job
  /\ UNCHANGED <<checkoutVars, stockVars, orders, rows, providerVars, eventVars, bounds>>

FindPending(w) ==
  /\ pc[w] = "polling"
  /\ \/ Pending = {} /\ Stop(w)
     \/ \E k \in Pending : job' = [job EXCEPT ![w].by = rows[k].intent] /\ Goto(w, "asking")
  /\ UNCHANGED <<checkoutVars, stockVars, orders, rows, providerVars, eventVars, bounds>>

(* Mutant of AskProvider: the provider is not asked whether the payment    *)
(* succeeded.                                                              *)
TrustRow(w) ==
  /\ pc[w] = "asking"
  /\ Goto(w, "claiming") /\ UNCHANGED job
  /\ UNCHANGED <<checkoutVars, stockVars, orders, rows, providerVars, eventVars, bounds>>

AskProvider(w) ==
  /\ pc[w] = "asking"
  /\ IF intent[job[w].by] = "succeeded" THEN Goto(w, "claiming") /\ UNCHANGED job ELSE Stop(w)
  /\ UNCHANGED <<checkoutVars, stockVars, orders, rows, providerVars, eventVars, bounds>>

-----------------------------------------------------------------------------
(* initiatePayment.                                                        *)

(* The checkout is read, with what it adds up to, and the stock of its     *)
(* items.                                                                  *)
BeginInitiate(w) ==
  /\ pc[w] = "idle"
  /\ checkout = "open"
  /\ stock > 0
  /\ turns < Turns /\ turns' = turns + 1
  /\ Goto(w, "searching")
  /\ job' = [job EXCEPT ![w] = [NoJob EXCEPT !.via = "initiate", !.total = total]]
  /\ UNCHANGED <<checkoutVars, stockVars, orders, rows, providerVars, eventVars, crashes>>

FindAttempt(w) ==
  /\ pc[w] = "searching"
  /\ \/ Pending = {} /\ Goto(w, "creating") /\ UNCHANGED job
     \/ \E k \in Pending : job' = [job EXCEPT ![w].row = k] /\ Goto(w, "comparing")
  /\ UNCHANGED <<checkoutVars, stockVars, orders, rows, providerVars, eventVars, bounds>>

(* An intent that is open for the same amount is used again; one that is   *)
(* open for another is cancelled when the provider does as asked; when it  *)
(* is neither, or the provider does not answer, the attempt is given up.   *)
CompareAttempt(w) ==
  LET i == rows[job[w].row].intent IN
  /\ pc[w] = "comparing"
  /\ \/ intent[i] = "open" /\ i = job[w].total /\ Stop(w) /\ UNCHANGED <<intent, turns>>
     \/ /\ ~(intent[i] = "open" /\ i = job[w].total)
        /\ intent' \in {intent} \cup
                       (IF intent[i] = "open" THEN {[intent EXCEPT ![i] = "canceled"]} ELSE {})
        /\ Goto(w, "retiring")
        /\ UNCHANGED <<job, turns>>
     \/ /\ turns < Turns /\ turns' = turns + 1
        /\ Goto(w, "retiring")
        /\ UNCHANGED <<intent, job>>
  /\ UNCHANGED <<checkoutVars, stockVars, orders, rows, refund, unheard, eventVars, crashes>>

(* Whatever became of the transaction since it was read, it is failed.     *)
RetireRow(w) ==
  /\ pc[w] = "retiring"
  /\ rows' = [rows EXCEPT ![job[w].row].status = "failed"]
  /\ Goto(w, "creating")
  /\ UNCHANGED <<checkoutVars, stockVars, orders, providerVars, eventVars, job, bounds>>

(* An intent for an amount that was asked for before is the same intent,   *)
(* whatever became of it.  Nobody can pay it before its transaction is     *)
(* stored, because nobody was told its secret: both are one step.  The     *)
(* provider may refuse.                                                    *)
CreateIntent(w) ==
  /\ pc[w] = "creating"
  /\ \/ /\ Len(rows) < MaxRows
        /\ intent' = [intent EXCEPT ![job[w].total] = IF @ = "none" THEN "open" ELSE @]
        /\ rows' = Append(rows, [intent |-> job[w].total, status |-> "pending", orders |-> {}])
        /\ Goto(w, "reopening")
        /\ UNCHANGED job
     \/ Stop(w) /\ UNCHANGED <<intent, rows>>
  /\ UNCHANGED <<checkoutVars, stockVars, orders, refund, unheard, eventVars, bounds>>

(* Whatever the checkout became since it was read, it is open again.       *)
ReopenCheckout(w) ==
  /\ pc[w] = "reopening"
  /\ checkout' = "open"
  /\ Stop(w)
  /\ UNCHANGED <<total, claimed, cart, stockVars, orders, rows, providerVars, eventVars, bounds>>

-----------------------------------------------------------------------------
(* finalizePaymentIntent.                                                  *)

(* The result goes back to the provider as an acknowledgement.             *)
Return(w) ==
  /\ due' = IF job[w].via = "webhook" THEN due \ {<<job[w].by, "succeeded">>} ELSE due
  /\ Stop(w)
  /\ UNCHANGED handled

ClaimRow(w) ==
  LET pending == {k \in RowsOf(job[w].by) : rows[k].status = "pending"} IN
  /\ pc[w] = "claiming"
  /\ \/ \E k \in pending :
          /\ rows' = [rows EXCEPT ![k].status = "completed"]
          /\ job' = [job EXCEPT ![w].row = k]
          /\ Goto(w, "checking")
          /\ UNCHANGED eventVars
     \/ pending = {} /\ Return(w) /\ UNCHANGED rows
  /\ UNCHANGED <<checkoutVars, stockVars, orders, providerVars, bounds>>

(* The amount that is compared with the intent's is the transaction's own. *)
CheckCheckout(w) ==
  /\ pc[w] = "checking"
  /\ IF checkout = "completed"
     THEN Return(w)
     ELSE /\ job' = [job EXCEPT ![w].total = total]
          /\ Goto(w, "entering")
          /\ UNCHANGED eventVars
  /\ UNCHANGED <<checkoutVars, stockVars, orders, rows, providerVars, bounds>>

RecordOrders(w) ==
  /\ pc[w] = "recording"
  /\ rows' = [rows EXCEPT ![job[w].row].orders = job[w].got]
  /\ Goto(w, "completing")
  /\ UNCHANGED <<checkoutVars, stockVars, orders, providerVars, eventVars, job, bounds>>

CompleteCheckout(w) ==
  /\ pc[w] = "completing"
  /\ checkout' = "completed"
  /\ Return(w)
  /\ UNCHANGED <<total, claimed, cart, stockVars, orders, rows, providerVars, bounds>>

(* Mutant of RevertRow: the transaction stays completed.                   *)
LeaveRow(w) ==
  /\ pc[w] = "reverting"
  /\ IF job[w].via = "webhook" THEN Goto(w, "forgetting") /\ UNCHANGED job ELSE Stop(w)
  /\ UNCHANGED <<checkoutVars, stockVars, orders, rows, providerVars, eventVars, bounds>>

(* The order could not be placed, for now.                                 *)
RevertRow(w) ==
  /\ pc[w] = "reverting"
  /\ rows' = [rows EXCEPT ![job[w].row].status = "pending"]
  /\ IF job[w].via = "webhook" THEN Goto(w, "forgetting") /\ UNCHANGED job ELSE Stop(w)
  /\ UNCHANGED <<checkoutVars, stockVars, orders, providerVars, eventVars, bounds>>

-----------------------------------------------------------------------------
(* autoRefundUnfulfillable.                                                *)

(* The key of the refund is the transaction's: asked for again for the     *)
(* same transaction it moves nothing, for another the provider refuses.    *)
RefundBuyer(w) ==
  /\ pc[w] = "refunding"
  /\ refund[job[w].by] \in {0, job[w].row}
  /\ refund' = [refund EXCEPT ![job[w].by] = job[w].row]
  /\ Goto(w, "noting")
  /\ UNCHANGED <<checkoutVars, stockVars, orders, rows, intent, unheard, eventVars, job, bounds>>

FailRefund(w) ==
  /\ pc[w] = "refunding"
  /\ \/ turns < Turns /\ turns' = turns + 1
     \/ refund[job[w].by] \notin {0, job[w].row} /\ UNCHANGED turns
  /\ Goto(w, "reverting")
  /\ UNCHANGED <<checkoutVars, stockVars, orders, rows, providerVars, eventVars, job, crashes>>

(* The money goes back, and the answer is lost.                            *)
LoseRefund(w) ==
  /\ pc[w] = "refunding"
  /\ turns < Turns /\ turns' = turns + 1
  /\ refund[job[w].by] \in {0, job[w].row}
  /\ refund' = [refund EXCEPT ![job[w].by] = job[w].row]
  /\ unheard' = unheard \cup {job[w].by}
  /\ Goto(w, "reverting")
  /\ UNCHANGED <<checkoutVars, stockVars, orders, rows, intent, eventVars, job, crashes>>

NoteRefund(w) ==
  /\ pc[w] = "noting"
  /\ rows' = [rows EXCEPT ![job[w].row].status = "refunded"]
  /\ Goto(w, "cancelling")
  /\ UNCHANGED <<checkoutVars, stockVars, orders, providerVars, eventVars, job, bounds>>

CancelCheckout(w) ==
  /\ pc[w] = "cancelling"
  /\ checkout' = "cancelled"
  /\ Return(w)
  /\ UNCHANGED <<total, claimed, cart, stockVars, orders, rows, providerVars, bounds>>

-----------------------------------------------------------------------------
(* codPayment.                                                             *)

BeginCod(w) ==
  /\ pc[w] = "idle"
  /\ cart = {"physical"}
  /\ checkout = "open"
  /\ stock > 0
  /\ turns < Turns /\ turns' = turns + 1
  /\ Goto(w, "switching")
  /\ job' = [job EXCEPT ![w] = [NoJob EXCEPT !.via = "cod", !.total = total]]
  /\ UNCHANGED <<checkoutVars, stockVars, orders, rows, providerVars, eventVars, crashes>>

(* Whatever the checkout became since it was read, it is open again.       *)
SwitchToCod(w) ==
  /\ pc[w] = "switching"
  /\ checkout' = "open"
  /\ Goto(w, "entering")
  /\ UNCHANGED <<total, claimed, cart, stockVars, orders, rows, providerVars, eventVars, job, bounds>>

-----------------------------------------------------------------------------
(* createOrder and createOrderUnclaimed.                                   *)

Placed(w) == IF job[w].via = "cod" THEN "completing" ELSE "recording"

EnterPlacement(w) ==
  /\ pc[w] = "entering"
  /\ claimed' = TRUE
  /\ Goto(w, IF claimed THEN "waiting" ELSE "looking")
  /\ UNCHANGED <<checkout, total, cart, stockVars, orders, rows, providerVars, eventVars, job, bounds>>

(* The loser of the claim takes the winner's orders, or gives up.          *)
AwaitWinner(w) ==
  /\ pc[w] = "waiting"
  /\ orders # <<>>
  /\ job' = [job EXCEPT ![w].got = OrderedParts]
  /\ Goto(w, Placed(w))
  /\ UNCHANGED <<checkoutVars, stockVars, orders, rows, providerVars, eventVars, bounds>>

GiveUp(w) ==
  /\ pc[w] = "waiting"
  /\ orders = <<>>
  /\ IF job[w].via = "cod" THEN Stop(w) ELSE Goto(w, "reverting") /\ UNCHANGED job
  /\ UNCHANGED <<checkoutVars, stockVars, orders, rows, providerVars, eventVars, bounds>>

(* Mutant of LookForOrders: no look for the orders of an earlier attempt.  *)
LookAway(w) ==
  /\ pc[w] = "looking"
  /\ Goto(w, "reserving")
  /\ UNCHANGED <<checkoutVars, stockVars, orders, rows, providerVars, eventVars, job, bounds>>

LookForOrders(w) ==
  /\ pc[w] = "looking"
  /\ IF orders # <<>>
     THEN job' = [job EXCEPT ![w].got = OrderedParts] /\ Goto(w, Placed(w))
     ELSE Goto(w, "reserving") /\ UNCHANGED job
  /\ UNCHANGED <<checkoutVars, stockVars, orders, rows, providerVars, eventVars, bounds>>

(* Mutant of Reserve: the update has no condition on what is available.    *)
ReserveBlindly(w) ==
  /\ pc[w] = "reserving"
  /\ stock' = stock - 1 /\ committed' = committed + 1
  /\ job' = [job EXCEPT ![w].todo = cart]
  /\ Goto(w, "inserting")
  /\ UNCHANGED <<checkoutVars, orders, rows, providerVars, eventVars, bounds>>

Reserve(w) ==
  /\ pc[w] = "reserving"
  /\ IF stock > 0
     THEN /\ stock' = stock - 1 /\ committed' = committed + 1
          /\ job' = [job EXCEPT ![w].todo = cart]
          /\ Goto(w, "inserting")
     ELSE /\ UNCHANGED stockVars
          /\ job' = [job EXCEPT ![w].soldOut = TRUE]
          /\ Goto(w, "unclaiming")
  /\ UNCHANGED <<checkoutVars, orders, rows, providerVars, eventVars, bounds>>

(* The order of the physical items is inserted first.                      *)
NextPart(w) == IF "physical" \in job[w].todo THEN "physical" ELSE "digital"

InsertOrder(w) ==
  LET part == NextPart(w) IN
  /\ pc[w] = "inserting"
  /\ orders' = Append(orders, [part |-> part, by |-> job[w].by, row |-> job[w].row,
                              total |-> job[w].total])
  /\ job' = [job EXCEPT ![w].todo = @ \ {part}, ![w].got = @ \cup {part}]
  /\ Goto(w, IF job[w].todo = {part} THEN "redeeming" ELSE "inserting")
  /\ UNCHANGED <<checkoutVars, stockVars, rows, providerVars, eventVars, bounds>>

(* Mutant of FailInsert: the stock goes back whichever insert failed.      *)
GiveBackAlways(w) ==
  /\ pc[w] = "inserting"
  /\ turns < Turns /\ turns' = turns + 1
  /\ stock' = stock + 1 /\ committed' = committed - 1
  /\ Goto(w, "unclaiming")
  /\ UNCHANGED <<checkoutVars, orders, rows, providerVars, eventVars, job, crashes>>

(* Only the order of the physical items gives its stock back.              *)
FailInsert(w) ==
  /\ pc[w] = "inserting"
  /\ turns < Turns /\ turns' = turns + 1
  /\ IF NextPart(w) = "physical"
     THEN stock' = stock + 1 /\ committed' = committed - 1
     ELSE UNCHANGED stockVars
  /\ Goto(w, "unclaiming")
  /\ UNCHANGED <<checkoutVars, orders, rows, providerVars, eventVars, job, crashes>>

(* The coupon, gift card and credit the orders were discounted by are      *)
(* taken.  When that fails the orders stay, and a retry does not redeem.   *)
Redeem(w) ==
  /\ pc[w] = "redeeming"
  /\ Goto(w, Placed(w))
  /\ UNCHANGED <<checkoutVars, stockVars, orders, rows, providerVars, eventVars, job, bounds>>

FailRedeem(w) ==
  /\ pc[w] = "redeeming"
  /\ turns < Turns /\ turns' = turns + 1
  /\ Goto(w, "unclaiming")
  /\ UNCHANGED <<checkoutVars, stockVars, orders, rows, providerVars, eventVars, job, crashes>>

(* Mutant of Unclaim: every failure is taken for sold-out stock.           *)
RefundAnyway(w) ==
  /\ pc[w] = "unclaiming"
  /\ claimed' = FALSE
  /\ IF job[w].via = "cod" THEN Stop(w) ELSE Goto(w, "refunding") /\ UNCHANGED job
  /\ UNCHANGED <<checkout, total, cart, stockVars, orders, rows, providerVars, eventVars, bounds>>

Unclaim(w) ==
  /\ pc[w] = "unclaiming"
  /\ claimed' = FALSE
  /\ IF job[w].via = "cod" THEN Stop(w)
     ELSE Goto(w, IF job[w].soldOut THEN "refunding" ELSE "reverting") /\ UNCHANGED job
  /\ UNCHANGED <<checkout, total, cart, stockVars, orders, rows, providerVars, eventVars, bounds>>

(* Two minutes later, longer than a placement takes.                       *)
Placing == {"looking", "reserving", "inserting", "redeeming", "unclaiming"}
ExpireClaim ==
  /\ claimed
  /\ \A w \in Worker : pc[w] \notin Placing
  /\ claimed' = FALSE
  /\ UNCHANGED <<checkout, total, cart, stockVars, orders, rows, providerVars, eventVars, pc, job, bounds>>

(* A handler's process dies.                                               *)
Crash(w) ==
  /\ pc[w] # "idle"
  /\ turns < Turns /\ turns' = turns + 1 /\ crashes' = crashes + 1
  /\ Stop(w)
  /\ UNCHANGED <<checkoutVars, stockVars, orders, rows, providerVars, eventVars>>

-----------------------------------------------------------------------------
Outside ==
  \/ \E i \in Total : Decline(i) \/ Pay(i)
  \/ EditCheckout
  \/ OthersBuy
  \/ OthersReturn
  \/ ExpireClaim

Polling(w) ==
  \/ LookForRefund(w)
  \/ FindPending(w)
  \/ AskProvider(w)

Initiating(w) ==
  \/ FindAttempt(w)
  \/ CompareAttempt(w)
  \/ RetireRow(w)
  \/ CreateIntent(w)
  \/ ReopenCheckout(w)

Work(w) ==
  \/ FailRow(w)
  \/ ForgetEvent(w)
  \/ ClaimRow(w)
  \/ CheckCheckout(w)
  \/ RecordOrders(w)
  \/ CompleteCheckout(w)
  \/ RevertRow(w)
  \/ RefundBuyer(w)
  \/ FailRefund(w)
  \/ LoseRefund(w)
  \/ NoteRefund(w)
  \/ CancelCheckout(w)
  \/ SwitchToCod(w)
  \/ EnterPlacement(w)
  \/ AwaitWinner(w)
  \/ GiveUp(w)
  \/ LookForOrders(w)
  \/ Reserve(w)
  \/ InsertOrder(w)
  \/ FailInsert(w)
  \/ Redeem(w)
  \/ FailRedeem(w)
  \/ Unclaim(w)

Next ==
  \/ Outside
  \/ \E w \in Worker :
       \/ \E e \in Event : Deliver(w, e)
       \/ Poll(w)
       \/ BeginInitiate(w)
       \/ BeginCod(w)
       \/ Polling(w)
       \/ Initiating(w)
       \/ Work(w)
       \/ Crash(w)

Spec == Init /\ [][Next]_vars

-----------------------------------------------------------------------------
(* Properties.                                                             *)

(* Every variable keeps its type.                                          *)
TypeOK ==
  /\ checkout \in {"open", "completed", "cancelled"} /\ total \in Total /\ claimed \in BOOLEAN
  /\ cart \subseteq Part
  /\ stock \in Nat /\ committed \in Nat
  /\ orders \in Seq([part : Part, by : Total \cup {Cash}, row : 0 .. MaxRows, total : Total])
  /\ rows \in Seq([intent : Total, orders : SUBSET Part,
                   status : {"pending", "completed", "failed", "refunded"}])
  /\ intent \in [Total -> {"none", "open", "succeeded", "canceled"}]
  /\ refund \in [Total -> 0 .. MaxRows] /\ unheard \subseteq Total
  /\ due \subseteq Event /\ handled \subseteq Event
  /\ pc \in [Worker -> Point]
  /\ job \in [Worker -> [via : Via, by : Total \cup {Cash}, row : 0 .. MaxRows,
                         total : Total \cup {Cash}, todo : SUBSET Part, got : SUBSET Part,
                         soldOut : BOOLEAN]]
  /\ turns \in 0 .. Turns /\ crashes \in Nat

(* Each order of a checkout is placed once at most, however many           *)
(* payments, deliveries, polls and clicks there are, and whoever dies.     *)
OrderedOnce ==
  \A j, k \in DOMAIN orders : orders[j].part = orders[k].part => j = k

(* A transaction ends in an order or in a refund, never in both, unless    *)
(* the answer to the refund was lost: then the transaction is taken up     *)
(* again, and stock that came back makes it an order.  A payment is both   *)
(* ordered and refunded only so, or when it has a second transaction.      *)
OrderOrRefund ==
  \A k \in DOMAIN orders :
    orders[k].by # Cash /\ refund[orders[k].by] = orders[k].row => orders[k].by \in unheard

(* The checkout holds the stock of its order or of a placement under way;  *)
(* what else it holds, a handler took that died.                           *)
HoldsItsOrder ==
  LET ordered == Cardinality({k \in DOMAIN orders : orders[k].part = "physical"})
      placing == Cardinality({w \in Worker : pc[w] = "inserting" /\ "physical" \in job[w].todo})
  IN  ordered + placing <= committed /\ committed <= ordered + placing + crashes

(* The handlers together keep the promise of a single clerk: whatever they *)
(* race for, lose or repeat, the orders are placed for one payment that    *)
(* succeeded, through one transaction and at one total, each once; money   *)
(* goes back once, and not through the transaction of the orders.          *)
Clerk ==
  INSTANCE Settlement WITH
    Payment <- Total, Amount <- Total, Attempt <- 1 .. MaxRows,
    paid <- {i \in Total : intent[i] = "succeeded"},
    back <- refund,
    deals <- {[by |-> orders[k].by, attempt |-> orders[k].row, total |-> orders[k].total] :
                k \in DOMAIN orders},
    placed <- OrderedParts
SettlementSpec == Clerk!Spec

(* Nobody answers for a payment that was kept when no handler is at it,    *)
(* none of its transactions is pending for a new delivery or the page to   *)
(* find, and they were not all given up.  Until there is an order, each    *)
(* handler that died costs one payment at most: every other way out of the *)
(* finalizing, be it an answer, an error or a refund, hands the payment on.*)
AtPayment(w, i) ==
  /\ job[w].by = i
  /\ pc[w] \in {"checking", "entering", "waiting", "looking", "reserving", "inserting", "redeeming",
               "unclaiming", "recording", "completing", "refunding", "noting", "reverting"}
Lost(i) ==
  /\ intent[i] = "succeeded" /\ refund[i] = 0
  /\ \A w \in Worker : ~AtPayment(w, i)
  /\ \A k \in RowsOf(i) : rows[k].status # "pending"
  /\ RowsOf(i) = {} \/ \E k \in RowsOf(i) : rows[k].status # "failed"
PaidIsInHand == orders = <<>> => Cardinality({i \in Total : Lost(i)}) <= crashes

=============================================================================
