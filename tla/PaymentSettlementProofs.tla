---------------------- MODULE PaymentSettlementProofs ----------------------
(***************************************************************************)
(* A checkout is ordered once, and no transaction of it ends in an order   *)
(* and a refund unless the answer to the refund was lost, for any number   *)
(* of handlers, payments, deliveries and clicks and whatever other people  *)
(* do to the stock; the handlers keep the promise of Settlement.           *)
(***************************************************************************)
EXTENDS PaymentSettlement, FiniteSetTheorems, SequenceTheorems, TLAPS

(* The claim lets one handler place at a time: it may only grow old when   *)
(* nobody places.                                                          *)
Alone ==
  \A w \in Worker : pc[w] \in Placing =>
    claimed /\ \A v \in Worker \ {w} : pc[v] \notin Placing

(* Where a handler has a payment in hand, unless it is on delivery.        *)
Taken == {"checking", "entering", "waiting", "looking", "reserving", "inserting", "redeeming",
          "unclaiming", "recording", "completing", "refunding", "noting", "reverting"}
Carded == Taken \cup {"asking", "claiming", "switching"}

(* A placement starts from a checkout without orders, and has the orders   *)
(* it still has to insert in hand.  Only a card payment is refunded.       *)
Priced == {"switching", "entering", "looking", "reserving", "inserting",
           "searching", "comparing", "retiring", "creating"}
Placement(w) ==
  /\ pc[w] \in Priced => job[w].total \in Total
  /\ pc[w] = "reserving" => orders = <<>>
  /\ pc[w] = "inserting" => job[w].todo # {} /\ job[w].todo \cap OrderedParts = {}
  /\ pc[w] \in Carded => job[w].via = "cod" \/ job[w].by \in Total
  /\ pc[w] = "refunding" => job[w].via # "cod"

Bounded == Len(rows) <= MaxRows /\ crashes \in Nat /\ "physical" \in cart

Inv ==
  /\ TypeOK
  /\ Bounded
  /\ Alone
  /\ \A w \in Worker : Placement(w)
  /\ OrderedOnce
  /\ HoldsItsOrder

-----------------------------------------------------------------------------
(* Types.                                                                  *)

Job == [via : Via, by : Total \cup {Cash}, row : 0 .. MaxRows, total : Total \cup {Cash},
        todo : SUBSET Part, got : SUBSET Part, soldOut : BOOLEAN]
Row == [intent : Total, orders : SUBSET Part,
        status : {"pending", "completed", "failed", "refunded"}]
Order == [part : Part, by : Total \cup {Cash}, row : 0 .. MaxRows, total : Total]

LEMMA NoJobType == NoJob \in Job
BY SettlementAssumption DEF NoJob, Job, Via, Part

(* What a step of a handler does that leaves the stock and the orders      *)
(* alone: where it goes, and with what.                                    *)
Keeps(w, p, j) ==
  /\ pc' = [pc EXCEPT ![w] = p] /\ p \in Point /\ p # "inserting"
  /\ job' = [job EXCEPT ![w] = j] /\ j \in Job
  /\ p \in Placing => claimed' /\ (pc[w] \in Placing \/ ~claimed)
  /\ claimed' # claimed => p \in Placing \/ pc[w] \in Placing
  /\ p \in Priced => j.total \in Total
  /\ p = "reserving" => orders = <<>>
  /\ p \in Carded => j.via = "cod" \/ j.by \in Total
  /\ p = "refunding" => j.via # "cod"
  /\ UNCHANGED <<cart, stock, committed, orders>>
  /\ crashes' \in Nat /\ crashes' >= crashes /\ (pc[w] = "inserting" => crashes' = crashes + 1)

(* The steps of a handler that stops: an answer, a death.                  *)
LEMMA StopKeeps ==
  ASSUME Inv, NEW w \in Worker, Stop(w), UNCHANGED <<claimed, cart, stock, committed, orders>>,
         (UNCHANGED crashes /\ pc[w] # "inserting") \/ crashes' = crashes + 1
  PROVE  Keeps(w, "idle", NoJob)
<1>1. "idle" \in Point /\ "idle" \notin Placing /\ "idle" \notin Priced /\ "idle" \notin Carded
  BY DEF Point, Placing, Priced, Carded, Taken
<1>2. crashes \in Nat
  BY DEF Inv, Bounded
<1>3. crashes' \in Nat /\ crashes' >= crashes /\ (pc[w] = "inserting" => crashes' = crashes + 1)
  BY <1>2
<1>. QED  BY <1>1, <1>3, NoJobType DEF Keeps, Stop, Goto

LEMMA GotoKeeps ==
  ASSUME Inv, NEW w \in Worker, NEW p \in Point, Goto(w, p), p # "inserting", p # "reserving",
         pc[w] # "inserting",
         p \in Placing => pc[w] \in Placing, p \in Priced => pc[w] \in Priced,
         p \in Carded => pc[w] \in Carded, p # "refunding",
         UNCHANGED <<claimed, cart, stock, committed, orders, job, crashes>>
  PROVE  Keeps(w, p, job[w])
<1>1. job' = [job EXCEPT ![w] = job[w]] /\ job[w] \in Job
  BY DEF Inv, TypeOK, Job
<1>2. crashes' \in Nat /\ crashes' >= crashes
  BY DEF Inv, Bounded
<1>3. p \in Placing => claimed' /\ (pc[w] \in Placing \/ ~claimed)
  BY DEF Inv, Alone
<1>4. p \in Priced => job[w].total \in Total
  BY DEF Inv, Placement
<1>5. p \in Carded => job[w].via = "cod" \/ job[w].by \in Total
  BY DEF Inv, Placement
<1>. QED  BY <1>1, <1>2, <1>3, <1>4, <1>5 DEF Keeps, Goto

(* The steps that give a handler a job, or another one.                    *)
LEMMA StartKeeps ==
  ASSUME Inv, NEW w \in Worker, NEW j \in Job,
         NEW p \in {"claiming", "declining", "screening", "asking", "switching", "searching", "comparing"},
         pc[w] # "inserting", pc[w] \notin Placing,
         pc' = [pc EXCEPT ![w] = p], job' = [job EXCEPT ![w] = j],
         p \in {"switching", "searching", "comparing"} => j.total \in Total,
         p \in {"claiming", "asking"} => j.by \in Total, p = "switching" => j.via = "cod",
         UNCHANGED <<claimed, cart, stock, committed, orders, crashes>>
  PROVE  Keeps(w, p, j)
<1>1. p \in Point /\ p \notin Placing /\ p # "inserting" /\ p # "reserving"
  BY DEF Point, Placing
<1>2. p \in Priced => j.total \in Total
  BY DEF Priced
<1>3. crashes' \in Nat /\ crashes' >= crashes
  BY DEF Inv, Bounded
<1>4. p \in Carded => j.via = "cod" \/ j.by \in Total
  BY DEF Carded, Taken
<1>. QED  BY <1>1, <1>2, <1>3, <1>4 DEF Keeps

Begins(w) ==
  \/ \E e \in Event : Deliver(w, e) /\ e \notin handled
  \/ Poll(w) \/ BeginInitiate(w) \/ BeginCod(w)

LEMMA Beginnings ==
  ASSUME Inv, NEW w \in Worker, Begins(w)
  PROVE  \E p, j : Keeps(w, p, j)
<1>1. ASSUME NEW e \in Event, Deliver(w, e), e \notin handled
      PROVE  \E p, j : Keeps(w, p, j)
  <2>. DEFINE p == IF e[2] = "succeeded" THEN "claiming" ELSE "declining"
              j == [NoJob EXCEPT !.via = "webhook", !.by = e[1]]
  <2>1. e[1] \in Total
    BY DEF Event
  <2>2. j \in Job /\ j.by \in Total
    BY <2>1, NoJobType DEF Job, NoJob, Via
  <2>3. /\ pc[w] = "idle" /\ pc' = [pc EXCEPT ![w] = p] /\ job' = [job EXCEPT ![w] = j]
        /\ UNCHANGED <<claimed, cart, stock, committed, orders, crashes>>
    BY <1>1 DEF Deliver, Start, Goto, checkoutVars, stockVars, bounds
  <2>4. Keeps(w, p, j)
    <3>. HIDE DEF j
    <3>. QED  BY <2>2, <2>3, StartKeeps DEF Placing
  <2>. QED  BY <2>4
<1>2. CASE Poll(w)
  <2>. DEFINE j == [NoJob EXCEPT !.via = "poll", !.by = Cash]
  <2>1. j \in Job
    BY NoJobType DEF Job, NoJob, Via
  <2>2. /\ pc[w] = "idle" /\ pc' = [pc EXCEPT ![w] = "screening"] /\ job' = [job EXCEPT ![w] = j]
        /\ UNCHANGED <<claimed, cart, stock, committed, orders, crashes>>
    BY <1>2 DEF Poll, Start, Goto, checkoutVars, stockVars, bounds
  <2>3. Keeps(w, "screening", j)
    <3>. HIDE DEF j
    <3>. QED  BY <2>1, <2>2, StartKeeps DEF Placing
  <2>. QED  BY <2>3
<1>3. ASSUME NEW p \in {"switching", "searching"}, NEW via \in {"cod", "initiate"},
             p = "switching" => via = "cod",
             pc[w] = "idle", Goto(w, p), job' = [job EXCEPT ![w] = [NoJob EXCEPT !.via = via, !.total = total]],
             UNCHANGED <<claimed, cart, stock, committed, orders, crashes>>
      PROVE  \E q, j : Keeps(w, q, j)
  <2>. DEFINE j == [NoJob EXCEPT !.via = via, !.total = total]
  <2>1. total \in Total
    BY DEF Inv, TypeOK
  <2>2. j \in Job /\ j.total \in Total /\ j.via = via
    BY <2>1, NoJobType DEF Job, NoJob, Via
  <2>3. job' = [job EXCEPT ![w] = j]
    BY <1>3
  <2>4. Keeps(w, p, j)
    <3>. HIDE DEF j
    <3>. QED  BY <1>3, <2>2, <2>3, StartKeeps DEF Placing, Goto
  <2>. QED  BY <2>4
<1>4. CASE BeginCod(w)
  <2>1. /\ pc[w] = "idle" /\ Goto(w, "switching")
        /\ job' = [job EXCEPT ![w] = [NoJob EXCEPT !.via = "cod", !.total = total]]
        /\ UNCHANGED <<claimed, cart, stock, committed, orders, crashes>>
    BY <1>4 DEF BeginCod, checkoutVars, stockVars
  <2>. QED  BY <1>3, <2>1
<1>5. CASE BeginInitiate(w)
  <2>1. /\ pc[w] = "idle" /\ Goto(w, "searching")
        /\ job' = [job EXCEPT ![w] = [NoJob EXCEPT !.via = "initiate", !.total = total]]
        /\ UNCHANGED <<claimed, cart, stock, committed, orders, crashes>>
    BY <1>5 DEF BeginInitiate, checkoutVars, stockVars
  <2>. QED  BY <1>3, <2>1
<1>. QED  BY <1>1, <1>2, <1>4, <1>5 DEF Begins

(* The page asks, the buyer starts to pay again: up to the claim of a      *)
(* transaction, or a new one.                                              *)
Asides(w) == Polling(w) \/ Initiating(w)

LEMMA AsidesKeep ==
  ASSUME Inv, NEW w \in Worker, Asides(w)
  PROVE  \E p, j : Keeps(w, p, j)
<1>. DEFINE Quiet == /\ UNCHANGED <<claimed, cart, stock, committed, orders, crashes>>
                     /\ pc[w] \in {"screening", "polling", "asking", "searching", "comparing",
                                   "retiring", "creating", "reopening"}
<1>1. Quiet
  BY DEF Asides, Polling, Initiating, LookForRefund, FindPending, AskProvider, FindAttempt,
         CompareAttempt, RetireRow, CreateIntent, ReopenCheckout, checkoutVars, stockVars, bounds
<1>2. pc[w] # "inserting" /\ pc[w] \notin Placing
  BY <1>1 DEF Placing
<1>3. CASE Stop(w)
  BY <1>1, <1>2, <1>3, StopKeeps
<1>4. ASSUME NEW p \in {"polling", "claiming", "reopening"}, Goto(w, p), UNCHANGED job,
             p = "claiming" => pc[w] = "asking"
      PROVE  \E q, j : Keeps(w, q, j)
  BY <1>1, <1>2, <1>4, GotoKeeps DEF Point, Placing, Priced, Carded, Taken
<1>5. ASSUME NEW p \in {"retiring", "creating"}, Goto(w, p), UNCHANGED job, pc[w] \in Priced
      PROVE  \E q, j : Keeps(w, q, j)
  BY <1>1, <1>2, <1>5, GotoKeeps DEF Point, Placing, Priced, Carded, Taken
<1>6. ASSUME NEW k \in DOMAIN rows, job' = [job EXCEPT ![w].by = rows[k].intent], Goto(w, "asking")
      PROVE  \E p, j : Keeps(w, p, j)
  <2>. DEFINE j == [job[w] EXCEPT !.by = rows[k].intent]
  <2>1. rows[k].intent \in Total
    <3>1. rows \in Seq(Row) /\ k \in 1 .. Len(rows)
      BY LenProperties DEF Inv, TypeOK, Row
    <3>2. rows[k] \in Row
      BY <3>1, ElementOfSeq
    <3>. QED  BY <3>2 DEF Row
  <2>2. job \in [Worker -> Job] /\ job[w] \in Job
    BY DEF Inv, TypeOK, Job
  <2>3. j \in Job /\ job' = [job EXCEPT ![w] = j] /\ j.by \in Total
    BY <1>6, <2>1, <2>2 DEF Job
  <2>4. Keeps(w, "asking", j)
    <3>. HIDE DEF j
    <3>. QED  BY <1>1, <1>2, <1>6, <2>3, StartKeeps DEF Goto
  <2>. QED  BY <2>4
<1>7. ASSUME NEW k \in DOMAIN rows, job' = [job EXCEPT ![w].row = k], Goto(w, "comparing"),
             pc[w] = "searching"
      PROVE  \E p, j : Keeps(w, p, j)
  <2>. DEFINE j == [job[w] EXCEPT !.row = k]
  <2>1. k \in 0 .. MaxRows
    BY LenProperties, SettlementAssumption DEF Inv, TypeOK, Bounded
  <2>2. job \in [Worker -> Job] /\ job[w] \in Job /\ job[w].total \in Total
    BY <1>7 DEF Inv, TypeOK, Job, Placement, Priced
  <2>3. j \in Job /\ job' = [job EXCEPT ![w] = j] /\ j.total \in Total
    BY <1>7, <2>1, <2>2 DEF Job
  <2>4. Keeps(w, "comparing", j)
    <3>. HIDE DEF j
    <3>. QED  BY <1>1, <1>2, <1>7, <2>3, StartKeeps DEF Goto
  <2>. QED  BY <2>4
<1>8. CASE Polling(w)
  <2>1. \/ Stop(w)
        \/ \E p \in {"polling", "claiming"} :
             Goto(w, p) /\ UNCHANGED job /\ (p = "claiming" => pc[w] = "asking")
        \/ \E k \in DOMAIN rows : job' = [job EXCEPT ![w].by = rows[k].intent] /\ Goto(w, "asking")
    BY <1>8 DEF Polling, LookForRefund, FindPending, AskProvider, Pending
  <2>. QED  BY <1>3, <1>4, <1>6, <2>1
<1>9. CASE Initiating(w)
  <2>1. \/ Stop(w)
        \/ Goto(w, "reopening") /\ UNCHANGED job
        \/ \E p \in {"retiring", "creating"} : Goto(w, p) /\ UNCHANGED job /\ pc[w] \in Priced
        \/ \E k \in DOMAIN rows :
             job' = [job EXCEPT ![w].row = k] /\ Goto(w, "comparing") /\ pc[w] = "searching"
    BY <1>9 DEF Initiating, FindAttempt, CompareAttempt, RetireRow, CreateIntent, ReopenCheckout,
                Pending, Priced
  <2>. QED  BY <1>3, <1>4, <1>5, <1>7, <2>1
<1>. QED  BY <1>8, <1>9 DEF Asides

(* The steps that answer, give up or die.                                  *)
LEMMA Endings ==
  ASSUME Inv, NEW w \in Worker,
         \/ FailRow(w) \/ ForgetEvent(w) \/ CompleteCheckout(w) \/ CancelCheckout(w) \/ Crash(w)
         \/ (Stop(w) /\ (ClaimRow(w) \/ CheckCheckout(w) \/ RevertRow(w) \/ GiveUp(w)))
  PROVE  Keeps(w, "idle", NoJob)
<1>1. Stop(w) /\ UNCHANGED <<claimed, cart, stock, committed, orders>>
  BY DEF FailRow, ForgetEvent, CompleteCheckout, CancelCheckout, Crash, ClaimRow, CheckCheckout,
         RevertRow, GiveUp, Return, checkoutVars, stockVars
<1>2. (UNCHANGED crashes /\ pc[w] # "inserting") \/ crashes' = crashes + 1
  BY DEF FailRow, ForgetEvent, CompleteCheckout, CancelCheckout, Crash, ClaimRow, CheckCheckout,
         RevertRow, GiveUp, bounds
<1>. QED  BY <1>1, <1>2, StopKeeps

(* The steps that go on with the job as it is.                             *)
LEMMA Advances ==
  ASSUME Inv, NEW w \in Worker,
         \/ RecordOrders(w) \/ RefundBuyer(w) \/ FailRefund(w) \/ LoseRefund(w) \/ NoteRefund(w)
         \/ SwitchToCod(w) \/ Redeem(w) \/ FailRedeem(w)
         \/ (~Stop(w) /\ (RevertRow(w) \/ GiveUp(w)))
  PROVE  \E p, j : Keeps(w, p, j)
<1>. DEFINE Same == UNCHANGED <<claimed, cart, stock, committed, orders, job, crashes>>
<1>2. CASE RecordOrders(w) \/ RefundBuyer(w) \/ NoteRefund(w) \/ FailRefund(w) \/ LoseRefund(w)
           \/ (~Stop(w) /\ (RevertRow(w) \/ GiveUp(w)))
  <2>1. \E p \in {"completing", "noting", "cancelling", "reverting", "forgetting"} : Goto(w, p)
    BY <1>2 DEF RecordOrders, RefundBuyer, NoteRefund, FailRefund, LoseRefund, RevertRow, GiveUp
  <2>2. Same /\ pc[w] # "inserting" /\ pc[w] \in Carded
    BY <1>2 DEF RecordOrders, RefundBuyer, NoteRefund, FailRefund, LoseRefund, RevertRow, GiveUp,
                checkoutVars, stockVars, bounds, Carded, Taken
  <2>. QED  BY <2>1, <2>2, GotoKeeps DEF Point, Placing, Priced, Carded, Taken
<1>3. CASE SwitchToCod(w)
  <2>1. Goto(w, "entering") /\ Same /\ pc[w] = "switching"
    BY <1>3 DEF SwitchToCod, checkoutVars, stockVars, bounds
  <2>. QED  BY <2>1, GotoKeeps DEF Point, Placing, Priced, Carded, Taken
<1>4. CASE Redeem(w) \/ FailRedeem(w)
  <2>1. \E p \in {"completing", "recording", "unclaiming"} : Goto(w, p)
    BY <1>4 DEF Redeem, FailRedeem, Placed
  <2>2. Same /\ pc[w] = "redeeming"
    BY <1>4 DEF Redeem, FailRedeem, checkoutVars, stockVars, bounds
  <2>. QED  BY <2>1, <2>2, GotoKeeps DEF Point, Placing, Priced, Carded, Taken
<1>. QED  BY <1>2, <1>3, <1>4

(* The steps that take the claim, give it back or change the job.          *)
LEMMA Claims ==
  ASSUME Inv, NEW w \in Worker,
         \/ EnterPlacement(w) \/ AwaitWinner(w) \/ LookForOrders(w) \/ Unclaim(w)
         \/ (~Stop(w) /\ (ClaimRow(w) \/ CheckCheckout(w)))
  PROVE  \E p, j : Keeps(w, p, j)
<1>1. /\ crashes \in Nat /\ job \in [Worker -> Job] /\ job[w] \in Job /\ total \in Total
      /\ job' = [job EXCEPT ![w] = job[w]] <=> job' = job
  BY DEF Inv, Bounded, TypeOK, Job
<1>0. pc[w] \in Carded => job[w].via = "cod" \/ job[w].by \in Total
  BY DEF Inv, Placement
<1>2. CASE EnterPlacement(w)
  <2>. DEFINE p == IF claimed THEN "waiting" ELSE "looking"
  <2>1. /\ pc[w] = "entering" /\ pc' = [pc EXCEPT ![w] = p] /\ UNCHANGED job
        /\ claimed' = TRUE
        /\ UNCHANGED <<cart, stock, committed, orders, crashes>>
    BY <1>2 DEF EnterPlacement, Goto, stockVars, bounds
  <2>2. /\ p \in Point /\ p \notin {"inserting", "reserving", "refunding"} /\ pc[w] \in Carded
        /\ p \in Placing => ~claimed
    BY <2>1 DEF Point, Placing, Carded, Taken
  <2>3. claimed' # claimed => p \in Placing
    BY <2>1 DEF Placing, Inv, TypeOK
  <2>4. job[w].total \in Total
    BY <2>1 DEF Inv, Placement, Priced
  <2>5. crashes' \in Nat /\ crashes' >= crashes
    BY <1>1, <2>1
  <2>6. Keeps(w, p, job[w])
    <3>. HIDE DEF p
    <3>. QED  BY <1>0, <1>1, <2>1, <2>2, <2>3, <2>4, <2>5 DEF Keeps
  <2>. QED  BY <2>6
<1>3. CASE AwaitWinner(w) \/ (LookForOrders(w) /\ orders # <<>>)
  <2>. DEFINE j == [job[w] EXCEPT !.got = OrderedParts]
  <2>1. \E p \in {"completing", "recording"} : Goto(w, p)
    BY <1>3 DEF AwaitWinner, LookForOrders, Placed
  <2>2. /\ pc[w] \in {"waiting", "looking"} /\ job' = [job EXCEPT ![w] = j]
        /\ UNCHANGED <<claimed, cart, stock, committed, orders, crashes>>
    BY <1>1, <1>3 DEF AwaitWinner, LookForOrders, checkoutVars, stockVars, bounds
  <2>3. OrderedParts \subseteq Part
    <3>1. orders \in Seq(Order)
      BY DEF Inv, TypeOK, Order
    <3>2. \A k \in DOMAIN orders : orders[k] \in Order
      BY <3>1, ElementOfSeq, LenProperties
    <3>. QED  BY <3>2 DEF OrderedParts, Order
  <2>4. j \in Job /\ j.via = job[w].via /\ j.by = job[w].by /\ pc[w] \in Carded
    BY <1>1, <2>2, <2>3 DEF Job, Carded, Taken
  <2>5. crashes' \in Nat /\ crashes' >= crashes
    BY <1>1, <2>2
  <2>6. PICK p \in {"completing", "recording"} : Goto(w, p)
    BY <2>1
  <2>7. p \in Point /\ p \notin Placing /\ p \notin Priced /\ p \notin {"inserting", "reserving", "refunding"}
    BY DEF Point, Placing, Priced
  <2>8. Keeps(w, p, j)
    <3>. HIDE DEF j
    <3>. QED  BY <1>0, <2>2, <2>4, <2>5, <2>6, <2>7 DEF Keeps, Goto
  <2>. QED  BY <2>8
<1>4. CASE LookForOrders(w) /\ orders = <<>>
  <2>1. /\ pc[w] = "looking" /\ pc' = [pc EXCEPT ![w] = "reserving"] /\ UNCHANGED job
        /\ UNCHANGED <<claimed, cart, stock, committed, orders, crashes>>
    BY <1>4 DEF LookForOrders, Goto, checkoutVars, stockVars, bounds
  <2>2. /\ "reserving" \in Point /\ pc[w] \in Placing /\ pc[w] \in Carded
        /\ job[w].total \in Total /\ claimed
    BY <2>1 DEF Point, Placing, Priced, Inv, Placement, Alone, Carded, Taken
  <2>3. crashes' \in Nat /\ crashes' >= crashes
    BY <1>1, <2>1
  <2>4. Keeps(w, "reserving", job[w])
    BY <1>0, <1>1, <1>4, <2>1, <2>2, <2>3 DEF Keeps
  <2>. QED  BY <2>4
<1>5. CASE Unclaim(w)
  <2>1. /\ pc[w] = "unclaiming" /\ pc[w] \in Placing
        /\ UNCHANGED <<cart, stock, committed, orders, crashes>>
    BY <1>5 DEF Unclaim, stockVars, bounds, Placing
  <2>2. crashes' \in Nat /\ crashes' >= crashes
    BY <1>1, <2>1
  <2>3. CASE Stop(w)
    <3>1. "idle" \in Point /\ "idle" \notin Placing /\ "idle" \notin Priced /\ "idle" \notin Carded
      BY DEF Point, Placing, Priced, Carded, Taken
    <3>2. Keeps(w, "idle", NoJob)
      BY <2>1, <2>2, <2>3, <3>1, NoJobType DEF Keeps, Stop, Goto
    <3>. QED  BY <3>2
  <2>4. CASE ~Stop(w)
    <3>. DEFINE p == IF job[w].soldOut THEN "refunding" ELSE "reverting"
    <3>1. pc' = [pc EXCEPT ![w] = p] /\ UNCHANGED job /\ job[w].via # "cod" /\ pc[w] \in Carded
      BY <1>5, <2>1, <2>4 DEF Unclaim, Goto, Carded, Taken
    <3>2. p \in Point /\ p \notin Placing /\ p \notin Priced /\ p \notin {"inserting", "reserving"}
      BY DEF Point, Placing, Priced
    <3>3. Keeps(w, p, job[w])
      <4>. HIDE DEF p
      <4>. QED  BY <1>0, <1>1, <2>1, <2>2, <3>1, <3>2 DEF Keeps
    <3>. QED  BY <3>3
  <2>. QED  BY <2>3, <2>4
<1>6. CASE ~Stop(w) /\ ClaimRow(w)
  <2>1. PICK k \in DOMAIN rows : job' = [job EXCEPT ![w].row = k]
    BY <1>6 DEF ClaimRow, Return, RowsOf
  <2>. DEFINE j == [job[w] EXCEPT !.row = k]
  <2>2. /\ pc[w] = "claiming" /\ pc' = [pc EXCEPT ![w] = "checking"] /\ job' = [job EXCEPT ![w] = j]
        /\ UNCHANGED <<claimed, cart, stock, committed, orders, crashes>>
    BY <1>1, <1>6, <2>1 DEF ClaimRow, Return, Goto, checkoutVars, stockVars, bounds
  <2>3. k \in 0 .. MaxRows
    BY LenProperties, SettlementAssumption DEF Inv, TypeOK, Bounded
  <2>4. j \in Job /\ j.via = job[w].via /\ j.by = job[w].by /\ pc[w] \in Carded
    BY <1>1, <2>2, <2>3 DEF Job, Carded, Taken
  <2>5. crashes' \in Nat /\ crashes' >= crashes
    BY <1>1, <2>2
  <2>6. "checking" \in Point /\ "checking" \notin Placing /\ "checking" \notin Priced
    BY DEF Point, Placing, Priced
  <2>7. Keeps(w, "checking", j)
    <3>. HIDE DEF j
    <3>. QED  BY <1>0, <2>2, <2>4, <2>5, <2>6 DEF Keeps
  <2>. QED  BY <2>7
<1>7. CASE ~Stop(w) /\ CheckCheckout(w)
  <2>. DEFINE j == [job[w] EXCEPT !.total = total]
  <2>1. /\ pc[w] = "checking" /\ pc' = [pc EXCEPT ![w] = "entering"] /\ job' = [job EXCEPT ![w] = j]
        /\ UNCHANGED <<claimed, cart, stock, committed, orders, crashes>>
    BY <1>1, <1>7 DEF CheckCheckout, Return, Goto, checkoutVars, stockVars, bounds
  <2>2. /\ j \in Job /\ j.total \in Total
        /\ j.via = job[w].via /\ j.by = job[w].by /\ pc[w] \in Carded
    BY <1>1, <2>1 DEF Job, Carded, Taken
  <2>3. crashes' \in Nat /\ crashes' >= crashes
    BY <1>1, <2>1
  <2>4. "entering" \in Point /\ "entering" \notin Placing
    BY DEF Point, Placing
  <2>5. Keeps(w, "entering", j)
    <3>. HIDE DEF j
    <3>. QED  BY <1>0, <2>1, <2>2, <2>3, <2>4 DEF Keeps
  <2>. QED  BY <2>5
<1>. QED  BY <1>2, <1>3, <1>4, <1>5, <1>6, <1>7

(* Every step of a handler keeps the stock and the orders but three.       *)
LEMMA HandlerSteps ==
  ASSUME Inv, NEW w \in Worker, Work(w), ~Reserve(w), ~InsertOrder(w), ~FailInsert(w)
  PROVE  \E p, j : Keeps(w, p, j)
BY Endings, Advances, Claims DEF Work

-----------------------------------------------------------------------------
(* The stock a checkout holds.                                             *)

Ordered == {k \in DOMAIN orders : orders[k].part = "physical"}
Holders == {w \in Worker : pc[w] = "inserting" /\ "physical" \in job[w].todo}
Holding == Cardinality(Ordered) + Cardinality(Holders)

LEMMA Counts ==
  ASSUME Inv
  PROVE  /\ IsFiniteSet(Ordered) /\ Cardinality(Ordered) \in Nat
         /\ IsFiniteSet(Holders) /\ Cardinality(Holders) \in Nat
         /\ committed \in Nat /\ crashes \in Nat
         /\ Holding <= committed /\ committed <= Holding + crashes
<1>1. orders \in Seq(Order) /\ committed \in Nat /\ crashes \in Nat
  BY DEF Inv, TypeOK, Bounded, Order
<1>2. IsFiniteSet(DOMAIN orders) /\ Ordered \in SUBSET DOMAIN orders
  BY <1>1, LenProperties, FS_Interval DEF Ordered
<1>3. IsFiniteSet(Ordered)
  BY <1>2, FS_Subset
<1>4. IsFiniteSet(Holders)
  BY SettlementAssumption, FS_Subset DEF Holders
<1>5. Holding <= committed /\ committed <= Holding + crashes
  BY DEF Inv, HoldsItsOrder, Holding, Ordered, Holders
<1>. QED  BY <1>1, <1>3, <1>4, <1>5, FS_CardinalityType

(* The property, put back together.                                        *)
LEMMA Holds ==
  ASSUME Holding' <= committed', committed' <= Holding' + crashes'
  PROVE  HoldsItsOrder'
BY DEF HoldsItsOrder, Holding, Ordered, Holders

(* What each step has to keep.                                             *)
Kept ==
  /\ pc \in [Worker -> Point] /\ job \in [Worker -> Job]
  /\ crashes \in Nat /\ "physical" \in cart /\ cart \subseteq Part
  /\ stock \in Nat /\ committed \in Nat /\ orders \in Seq(Order)
  /\ Alone
  /\ \A v \in Worker : Placement(v)
  /\ OrderedOnce
  /\ HoldsItsOrder

LEMMA KeepsPreserves ==
  ASSUME Inv, NEW w \in Worker, NEW p, NEW j, Keeps(w, p, j)
  PROVE  Kept'
<1>1. /\ pc \in [Worker -> Point] /\ job \in [Worker -> Job] /\ "physical" \in cart /\ cart \subseteq Part
      /\ stock \in Nat /\ committed \in Nat /\ orders \in Seq(Order)
  BY DEF Inv, TypeOK, Bounded, Job, Order
<1>2. /\ pc'[w] = p /\ job'[w] = j
      /\ \A v \in Worker \ {w} : pc'[v] = pc[v] /\ job'[v] = job[v]
      /\ UNCHANGED <<cart, stock, committed, orders>>
  BY <1>1 DEF Keeps
<1>3. pc' \in [Worker -> Point] /\ job' \in [Worker -> Job] /\ crashes' \in Nat
  BY <1>1 DEF Keeps
<1>4. Alone'
  <2>1. CASE p \in Placing
    BY <1>2, <2>1 DEF Keeps, Inv, Alone
  <2>2. CASE p \notin Placing
    BY <1>2, <2>2 DEF Keeps, Inv, Alone
  <2>. QED  BY <2>1, <2>2
<1>5. \A v \in Worker : Placement(v)'
  BY <1>2 DEF Keeps, Inv, Placement, OrderedParts
<1>7. OrderedOnce'
  BY <1>2 DEF Inv, OrderedOnce
<1>8. HoldsItsOrder'
  <2>1. Ordered' = Ordered
    BY <1>2 DEF Ordered
  <2>2. Holders' = Holders \ {w}
    BY <1>2 DEF Holders, Keeps
  <2>3. Cardinality(Holders') = IF w \in Holders THEN Cardinality(Holders) - 1
                                                 ELSE Cardinality(Holders)
    BY <2>2, Counts, FS_RemoveElement
  <2>4. CASE w \in Holders
    <3>1. crashes' = crashes + 1
      BY <2>4 DEF Keeps, Holders
    <3>2. Holding' = Holding - 1
      BY <2>1, <2>3, <2>4, Counts DEF Holding
    <3>. QED  BY <1>2, <3>1, <3>2, Counts, Holds DEF Holding
  <2>5. CASE w \notin Holders
    <3>1. crashes' \in Nat /\ crashes' >= crashes
      BY DEF Keeps
    <3>2. Holding' = Holding
      BY <2>1, <2>3, <2>5 DEF Holding
    <3>. QED  BY <1>2, <3>1, <3>2, Counts, Holds DEF Holding
  <2>. QED  BY <2>4, <2>5
<1>. QED  BY <1>1, <1>2, <1>3, <1>4, <1>5, <1>7, <1>8 DEF Kept

LEMMA ReservePreserves ==
  ASSUME Inv, NEW w \in Worker, Reserve(w)
  PROVE  Kept'
<1>1. /\ pc \in [Worker -> Point] /\ job \in [Worker -> Job] /\ "physical" \in cart /\ cart \subseteq Part
      /\ stock \in Nat /\ committed \in Nat /\ orders \in Seq(Order) /\ crashes \in Nat
      /\ job[w] \in Job
  BY DEF Inv, TypeOK, Bounded, Job, Order
<1>2. /\ pc[w] = "reserving" /\ orders = <<>> /\ job[w].total \in Total /\ w \notin Holders
      /\ UNCHANGED <<claimed, cart, orders, crashes>>
  BY DEF Reserve, Inv, Placement, Priced, Holders, checkoutVars, bounds
<1>3. claimed /\ \A v \in Worker \ {w} : pc[v] \notin Placing
  BY <1>2 DEF Inv, Alone, Placing
<1>4. OrderedParts = {} /\ OrderedOnce'
  BY <1>2 DEF OrderedParts, OrderedOnce
<1>5. Ordered' = Ordered
  BY <1>2 DEF Ordered
<1>6. CASE stock > 0
  <2>. DEFINE j == [job[w] EXCEPT !.todo = cart]
  <2>1. /\ stock' = stock - 1 /\ committed' = committed + 1
        /\ pc' = [pc EXCEPT ![w] = "inserting"] /\ job' = [job EXCEPT ![w] = j]
    BY <1>1, <1>6 DEF Reserve, Goto
  <2>2. /\ j \in Job /\ j.total = job[w].total /\ j.todo = cart
        /\ j.via = job[w].via /\ j.by = job[w].by /\ (j.via = "cod" \/ j.by \in Total)
    <3>1. job[w].via = "cod" \/ job[w].by \in Total
      BY <1>2 DEF Inv, Placement, Carded, Taken
    <3>. QED  BY <1>1, <3>1 DEF Job
  <2>3. /\ pc'[w] = "inserting" /\ job'[w] = j
        /\ \A v \in Worker \ {w} : pc'[v] = pc[v] /\ job'[v] = job[v]
        /\ pc' \in [Worker -> Point] /\ job' \in [Worker -> Job]
    <3>. HIDE DEF j
    <3>. QED  BY <1>1, <2>1, <2>2 DEF Point
  <2>. HIDE DEF j
  <2>4. stock' \in Nat /\ committed' \in Nat
    BY <1>1, <1>6, <2>1
  <2>5. Alone'
    BY <1>2, <1>3, <2>3 DEF Alone
  <2>6. \A v \in Worker : Placement(v)'
    <3>1. OrderedParts' = {}
      BY <1>2, <1>4 DEF OrderedParts
    <3>2. Placement(w)'
      BY <1>1, <1>2, <2>2, <2>3, <3>1 DEF Placement
    <3>3. \A v \in Worker \ {w} : Placement(v)'
      BY <1>2, <2>3, <3>1 DEF Inv, Placement
    <3>. QED  BY <3>2, <3>3
  <2>8. HoldsItsOrder'
    <3>1. "physical" \in cart
      BY DEF Inv, Bounded
    <3>2. Holders' = Holders \cup {w}
      BY <2>2, <2>3, <3>1 DEF Holders
    <3>3. Cardinality(Holders') = Cardinality(Holders) + 1
      BY <1>2, <3>2, Counts, FS_AddElement
    <3>4. Holding' = Holding + 1
      BY <1>5, <3>3, Counts DEF Holding
    <3>. QED  BY <1>2, <2>1, <3>4, Counts, Holds DEF Holding
  <2>. QED  BY <1>1, <1>2, <1>4, <2>3, <2>4, <2>5, <2>6, <2>8 DEF Kept
<1>7. CASE ~(stock > 0)
  <2>. DEFINE j == [job[w] EXCEPT !.soldOut = TRUE]
  <2>1. /\ UNCHANGED <<stock, committed>>
        /\ pc' = [pc EXCEPT ![w] = "unclaiming"] /\ job' = [job EXCEPT ![w] = j]
    BY <1>1, <1>7 DEF Reserve, Goto, stockVars
  <2>2. j \in Job /\ j.via = job[w].via /\ (j.via = "cod" \/ j.by \in Total)
    <3>1. job[w].via = "cod" \/ job[w].by \in Total
      BY <1>2 DEF Inv, Placement, Carded, Taken
    <3>. QED  BY <1>1, <3>1 DEF Job
  <2>3. /\ pc'[w] = "unclaiming" /\ job'[w] = j
        /\ \A v \in Worker \ {w} : pc'[v] = pc[v] /\ job'[v] = job[v]
        /\ pc' \in [Worker -> Point] /\ job' \in [Worker -> Job]
    <3>. HIDE DEF j
    <3>. QED  BY <1>1, <2>1, <2>2 DEF Point
  <2>. HIDE DEF j
  <2>4. Alone'
    BY <1>2, <1>3, <2>3 DEF Alone
  <2>5. \A v \in Worker : Placement(v)'
    BY <1>2, <2>2, <2>3 DEF Inv, Placement, Priced, OrderedParts
  <2>7. HoldsItsOrder'
    <3>1. Holders' = Holders
      BY <1>2, <2>3 DEF Holders
    <3>. QED  BY <1>2, <1>5, <2>1, <3>1, Counts, Holds DEF Holding
  <2>. QED  BY <1>1, <1>2, <1>4, <2>1, <2>3, <2>4, <2>5, <2>7 DEF Kept
<1>. QED  BY <1>6, <1>7

LEMMA InsertPreserves ==
  ASSUME Inv, NEW w \in Worker, InsertOrder(w)
  PROVE  Kept'
<1>. DEFINE part == NextPart(w)
            o == [part |-> part, by |-> job[w].by, row |-> job[w].row, total |-> job[w].total]
            j == [job[w] EXCEPT !.todo = @ \ {part}, !.got = @ \cup {part}]
            p == IF job[w].todo = {part} THEN "redeeming" ELSE "inserting"
<1>1. /\ pc \in [Worker -> Point] /\ job \in [Worker -> Job] /\ "physical" \in cart /\ cart \subseteq Part
      /\ stock \in Nat /\ committed \in Nat /\ orders \in Seq(Order) /\ crashes \in Nat
      /\ job[w] \in Job
  BY DEF Inv, TypeOK, Bounded, Job, Order
<1>2. /\ pc[w] = "inserting" /\ orders' = Append(orders, o)
      /\ pc' = [pc EXCEPT ![w] = p] /\ job' = [job EXCEPT ![w] = j]
      /\ UNCHANGED <<claimed, cart, stock, committed, crashes>>
  BY <1>1 DEF InsertOrder, Goto, checkoutVars, stockVars, bounds
<1>3. job[w].todo # {} /\ job[w].todo \cap OrderedParts = {} /\ job[w].total \in Total
  BY <1>2 DEF Inv, Placement, Priced
<1>4. part \in job[w].todo /\ part \in Part
  BY <1>1, <1>3 DEF NextPart, Part, Job
<1>5. o \in Order /\ o.part = part
  BY <1>1, <1>3, <1>4 DEF Order, Job
<1>6. /\ j \in Job /\ j.total = job[w].total
      /\ j.todo = job[w].todo \ {part}
      /\ j.via = job[w].via /\ (j.via = "cod" \/ j.by \in Total)
  <2>1. job[w].via = "cod" \/ job[w].by \in Total
    BY <1>2 DEF Inv, Placement, Carded, Taken
  <2>. QED  BY <1>1, <1>4, <2>1 DEF Job
<1>7. p \in {"redeeming", "inserting"} /\ p \in Point /\ (p = "inserting" => job[w].todo # {part})
  BY DEF Point
<1>. HIDE DEF o, j, p, part
<1>8. /\ pc'[w] = p /\ job'[w] = j
      /\ \A v \in Worker \ {w} : pc'[v] = pc[v] /\ job'[v] = job[v]
      /\ pc' \in [Worker -> Point] /\ job' \in [Worker -> Job]
  BY <1>1, <1>2, <1>6, <1>7
<1>9. /\ orders' \in Seq(Order) /\ Len(orders) \in Nat
      /\ DOMAIN orders = 1 .. Len(orders) /\ DOMAIN orders' = DOMAIN orders \cup {Len(orders) + 1}
      /\ Len(orders) + 1 \notin DOMAIN orders
      /\ \A k \in DOMAIN orders : orders'[k] = orders[k]
      /\ orders'[Len(orders) + 1] = o
  BY <1>1, <1>2, <1>5, AppendProperties, LenProperties
<1>10. OrderedParts' = OrderedParts \cup {part}
  BY <1>5, <1>9 DEF OrderedParts
<1>11. Alone'
  BY <1>2, <1>7, <1>8 DEF Inv, Alone, Placing
<1>12. \A v \in Worker : Placement(v)'
  <2>1. Placement(w)'
    BY <1>3, <1>4, <1>6, <1>7, <1>8, <1>10 DEF Placement
  <2>2. ASSUME NEW v \in Worker \ {w} PROVE Placement(v)'
    <3>1. pc'[v] = pc[v] /\ job'[v] = job[v] /\ pc[v] \notin Placing
      BY <1>2, <1>8 DEF Inv, Alone, Placing
    <3>. QED  BY <3>1 DEF Inv, Placement, Placing
  <2>. QED  BY <2>1, <2>2
<1>14. OrderedOnce'
  <2>1. \A k \in DOMAIN orders : orders[k].part # part
    BY <1>3, <1>4 DEF OrderedParts
  <2>. QED  BY <1>5, <1>9, <2>1 DEF Inv, OrderedOnce
<1>15. HoldsItsOrder'
  <2>1. CASE part = "physical"
    <3>1. Ordered' = Ordered \cup {Len(orders) + 1} /\ Len(orders) + 1 \notin Ordered
      BY <1>5, <1>9, <2>1 DEF Ordered
    <3>2. Holders' = Holders \ {w} /\ w \in Holders
      BY <1>2, <1>4, <1>6, <1>8, <2>1 DEF Holders
    <3>3. Cardinality(Ordered') = Cardinality(Ordered) + 1
      BY <3>1, Counts, FS_AddElement
    <3>4. Cardinality(Holders') = Cardinality(Holders) - 1
      BY <3>2, Counts, FS_RemoveElement
    <3>5. Holding' = Holding
      BY <3>3, <3>4, Counts DEF Holding
    <3>. QED  BY <1>2, <3>5, Counts, Holds DEF Holding
  <2>2. CASE part # "physical"
    <3>1. Ordered' = Ordered
      BY <1>5, <1>9, <2>2 DEF Ordered
    <3>2. "physical" \notin job[w].todo
      BY <2>2 DEF NextPart, part
    <3>3. Holders' = Holders
      BY <1>6, <1>8, <3>2 DEF Holders
    <3>. QED  BY <1>2, <3>1, <3>3, Counts, Holds DEF Holding
  <2>. QED  BY <2>1, <2>2
<1>. QED  BY <1>1, <1>2, <1>8, <1>9, <1>11, <1>12, <1>14, <1>15 DEF Kept

LEMMA FailInsertPreserves ==
  ASSUME Inv, NEW w \in Worker, FailInsert(w)
  PROVE  Kept'
<1>1. /\ pc \in [Worker -> Point] /\ job \in [Worker -> Job] /\ "physical" \in cart /\ cart \subseteq Part
      /\ stock \in Nat /\ committed \in Nat /\ orders \in Seq(Order) /\ crashes \in Nat
      /\ job[w] \in Job
  BY DEF Inv, TypeOK, Bounded, Job, Order
<1>2. /\ pc[w] = "inserting" /\ pc' = [pc EXCEPT ![w] = "unclaiming"]
      /\ UNCHANGED <<claimed, cart, orders, job, crashes>>
  BY DEF FailInsert, Goto, checkoutVars, bounds
<1>3. /\ pc'[w] = "unclaiming" /\ \A v \in Worker \ {w} : pc'[v] = pc[v]
      /\ pc' \in [Worker -> Point] /\ job' \in [Worker -> Job]
  BY <1>1, <1>2 DEF Point
<1>4. Alone'
  BY <1>2, <1>3 DEF Inv, Alone, Placing
<1>5. \A v \in Worker : Placement(v)'
  BY <1>2, <1>3 DEF Inv, Placement, Priced, OrderedParts, Carded, Taken
<1>7. OrderedOnce'
  BY <1>2 DEF Inv, OrderedOnce
<1>8. Ordered' = Ordered /\ Holders' = Holders \ {w}
  BY <1>2, <1>3 DEF Ordered, Holders
<1>9. stock' \in Nat /\ committed' \in Nat /\ HoldsItsOrder'
  <2>1. CASE NextPart(w) = "physical"
    <3>1. w \in Holders
      BY <1>2, <2>1 DEF NextPart, Holders
    <3>2. stock' = stock + 1 /\ committed' = committed - 1
      BY <2>1 DEF FailInsert
    <3>3. Cardinality(Holders') = Cardinality(Holders) - 1 /\ Cardinality(Holders') \in Nat
      BY <1>8, <3>1, Counts, FS_RemoveElement, FS_CardinalityType
    <3>4. Holding' = Holding - 1 /\ Holding' >= 0
      BY <1>8, <3>3, Counts DEF Holding
    <3>5. HoldsItsOrder'
      BY <1>2, <3>2, <3>4, Counts, Holds DEF Holding
    <3>. QED  BY <1>1, <3>2, <3>4, <3>5, Counts DEF Holding
  <2>2. CASE NextPart(w) # "physical"
    <3>1. w \notin Holders
      BY <1>2, <2>2 DEF NextPart, Holders
    <3>2. UNCHANGED <<stock, committed>>
      BY <2>2 DEF FailInsert, stockVars
    <3>3. Holding' = Holding
      BY <1>8, <3>1 DEF Holding
    <3>. QED  BY <1>1, <1>2, <3>2, <3>3, Counts, Holds DEF Holding
  <2>. QED  BY <2>1, <2>2
<1>. QED  BY <1>1, <1>2, <1>3, <1>4, <1>5, <1>7, <1>9 DEF Kept

LEMMA QuietPreserves ==
  ASSUME Inv, UNCHANGED <<pc, job, cart, committed, orders, crashes>>, stock' \in Nat,
         claimed' = claimed \/ \A w \in Worker : pc[w] \notin Placing
  PROVE  Kept'
<1>1. /\ pc \in [Worker -> Point] /\ job \in [Worker -> Job] /\ "physical" \in cart /\ cart \subseteq Part
      /\ stock \in Nat /\ committed \in Nat /\ orders \in Seq(Order) /\ crashes \in Nat
  BY DEF Inv, TypeOK, Bounded, Job, Order
<1>2. Alone'
  BY DEF Inv, Alone
<1>3. \A w \in Worker : Placement(w)'
  BY DEF Inv, Placement, OrderedParts
<1>4. OrderedOnce'
  BY DEF Inv, OrderedOnce
<1>5. HoldsItsOrder'
  BY DEF Inv, HoldsItsOrder
<1>. QED  BY <1>1, <1>2, <1>3, <1>4, <1>5 DEF Kept

(* Steps that leave every handler where it is.                             *)
Rests == Outside \/ UNCHANGED vars \/ \E w \in Worker, e \in Event : Deliver(w, e) /\ e \in handled

LEMMA RestsPreserve ==
  ASSUME Inv, Rests
  PROVE  Kept'
<1>1. UNCHANGED <<pc, job, cart, committed, orders, crashes>>
  BY DEF Rests, Outside, Decline, Pay, EditCheckout, OthersBuy, OthersReturn, ExpireClaim, Deliver, vars,
         checkoutVars, stockVars, bounds
<1>2. stock' \in Nat
  <2>1. UNCHANGED stock \/ (stock > 0 /\ stock' = stock - 1) \/ stock' = stock + 1
    BY DEF Rests, Outside, Decline, Pay, EditCheckout, OthersBuy, OthersReturn, ExpireClaim, Deliver,
           vars, stockVars
  <2>. QED  BY <2>1 DEF Inv, TypeOK
<1>3. claimed' = claimed \/ \A w \in Worker : pc[w] \notin Placing
  BY DEF Rests, Outside, Decline, Pay, EditCheckout, OthersBuy, OthersReturn, ExpireClaim, Deliver, vars,
         checkoutVars
<1>. QED  BY <1>1, <1>2, <1>3, QuietPreserves

(* What may happen, by what it does to the handlers.                       *)
LEMMA Steps ==
  ASSUME [Next]_vars
  PROVE  Rests \/ \E w \in Worker : Begins(w) \/ Asides(w) \/ Work(w) \/ Crash(w)
BY DEF Next, Rests, Begins, Asides

LEMMA StepKeeps ==
  ASSUME Inv, [Next]_vars
  PROVE  Kept'
<1>1. CASE Rests
  BY <1>1, RestsPreserve
<1>2. ASSUME NEW w \in Worker, Begins(w) \/ Asides(w)
      PROVE  Kept'
  BY <1>2, Beginnings, AsidesKeep, KeepsPreserves
<1>3. ASSUME NEW w \in Worker, Work(w)
      PROVE  Kept'
  BY <1>3, HandlerSteps, KeepsPreserves, ReservePreserves, InsertPreserves, FailInsertPreserves
<1>4. ASSUME NEW w \in Worker, Crash(w)
      PROVE  Kept'
  BY <1>4, Endings, KeepsPreserves
<1>. QED  BY <1>1, <1>2, <1>3, <1>4, Steps

-----------------------------------------------------------------------------
(* The other variables.  Which steps change which of them.                 *)

LEMMA Frames ==
  ASSUME [Next]_vars
  PROVE  /\ UNCHANGED orders \/ \E w \in Worker : InsertOrder(w)
         /\ \/ UNCHANGED rows
            \/ \E w \in Worker : \/ FailRow(w) \/ RetireRow(w) \/ CreateIntent(w) \/ ClaimRow(w)
                                 \/ RevertRow(w) \/ NoteRefund(w) \/ RecordOrders(w)
         /\ \/ UNCHANGED intent
            \/ \E i \in Total : Pay(i)
            \/ \E w \in Worker : CompareAttempt(w) \/ CreateIntent(w)
         /\ \/ UNCHANGED <<refund, unheard>>
            \/ \E w \in Worker : RefundBuyer(w) \/ LoseRefund(w)
         /\ \/ checkout' \in {checkout, "open", "cancelled"}
            \/ \E w \in Worker : CompleteCheckout(w)
         /\ UNCHANGED total \/ EditCheckout
         /\ claimed' \in {claimed, TRUE, FALSE}
         /\ UNCHANGED crashes \/ \E w \in Worker : Crash(w)
         /\ UNCHANGED turns \/ (turns < Turns /\ turns' = turns + 1)
<1>1. CASE UNCHANGED vars
  BY <1>1 DEF vars, checkoutVars, providerVars, bounds
<1>2. CASE Outside
  BY <1>2 DEF Outside, Decline, Pay, EditCheckout, OthersBuy, OthersReturn, ExpireClaim,
              checkoutVars, providerVars, bounds
<1>3. ASSUME NEW w \in Worker, (\E e \in Event : Deliver(w, e)) \/ Poll(w) \/ BeginInitiate(w) \/ BeginCod(w)
      PROVE  UNCHANGED <<orders, rows, intent, refund, unheard, checkout, total, claimed, crashes>>
             /\ (UNCHANGED turns \/ (turns < Turns /\ turns' = turns + 1))
  BY <1>3 DEF Deliver, Poll, BeginInitiate, BeginCod, checkoutVars, providerVars, bounds
<1>4. ASSUME NEW w \in Worker, Polling(w)
      PROVE  UNCHANGED <<orders, rows, intent, refund, unheard, checkout, total, claimed, crashes, turns>>
  BY <1>4 DEF Polling, LookForRefund, FindPending, AskProvider, checkoutVars, providerVars, bounds
<1>5. ASSUME NEW w \in Worker, Initiating(w)
      PROVE  /\ UNCHANGED <<orders, refund, unheard, total, claimed, crashes>>
             /\ UNCHANGED turns \/ (turns < Turns /\ turns' = turns + 1)
             /\ UNCHANGED rows \/ RetireRow(w) \/ CreateIntent(w)
             /\ UNCHANGED intent \/ CompareAttempt(w) \/ CreateIntent(w)
             /\ checkout' \in {checkout, "open"}
  BY <1>5 DEF Initiating, FindAttempt, CompareAttempt, RetireRow, CreateIntent, ReopenCheckout,
              checkoutVars, providerVars, bounds
<1>6. ASSUME NEW w \in Worker, Crash(w)
      PROVE  UNCHANGED <<orders, rows, intent, refund, unheard, checkout, total, claimed>>
             /\ turns < Turns /\ turns' = turns + 1
  BY <1>6 DEF Crash, checkoutVars, providerVars
<1>7. ASSUME NEW w \in Worker, Work(w)
      PROVE  /\ UNCHANGED <<intent, total, crashes>>
             /\ UNCHANGED orders \/ InsertOrder(w)
             /\ UNCHANGED turns \/ (turns < Turns /\ turns' = turns + 1)
             /\ claimed' \in {claimed, TRUE, FALSE}
             /\ checkout' \in {checkout, "open", "cancelled"} \/ CompleteCheckout(w)
             /\ UNCHANGED <<refund, unheard>> \/ RefundBuyer(w) \/ LoseRefund(w)
             /\ \/ UNCHANGED rows \/ FailRow(w) \/ ClaimRow(w)
                \/ RevertRow(w) \/ NoteRefund(w) \/ RecordOrders(w)
  <2>1. CASE FailRow(w) \/ ForgetEvent(w) \/ ClaimRow(w) \/ CheckCheckout(w) \/ RecordOrders(w)
             \/ CompleteCheckout(w) \/ RevertRow(w)
    BY <2>1 DEF FailRow, ForgetEvent, ClaimRow, CheckCheckout, RecordOrders, CompleteCheckout, RevertRow,
                checkoutVars, providerVars, bounds
  <2>2. CASE RefundBuyer(w) \/ FailRefund(w) \/ LoseRefund(w) \/ NoteRefund(w) \/ CancelCheckout(w)
             \/ SwitchToCod(w)
    BY <2>2 DEF RefundBuyer, FailRefund, LoseRefund, NoteRefund, CancelCheckout, SwitchToCod,
                checkoutVars, providerVars, bounds
  <2>3. CASE EnterPlacement(w) \/ AwaitWinner(w) \/ GiveUp(w) \/ LookForOrders(w) \/ Reserve(w)
             \/ InsertOrder(w) \/ FailInsert(w) \/ Redeem(w) \/ FailRedeem(w) \/ Unclaim(w)
    BY <2>3 DEF EnterPlacement, AwaitWinner, GiveUp, LookForOrders, Reserve, InsertOrder, FailInsert,
                Redeem, FailRedeem, Unclaim, checkoutVars, providerVars, bounds
  <2>. QED  BY <1>7, <2>1, <2>2, <2>3 DEF Work
<1>. QED  BY <1>1, <1>2, <1>3, <1>4, <1>5, <1>6, <1>7 DEF Next

LEMMA RowChange ==
  ASSUME NEW r \in Seq(Row), NEW k, NEW e,
         k \in DOMAIN r => e \in Row
  PROVE  [r EXCEPT ![k] = e] \in Seq(Row) /\ Len([r EXCEPT ![k] = e]) = Len(r)
<1>1. CASE k \in 1 .. Len(r)
  BY <1>1, LenProperties, ExceptSeq
<1>2. CASE k \notin 1 .. Len(r)
  <2>1. DOMAIN r = 1 .. Len(r)
    BY LenProperties
  <2>2. [r EXCEPT ![k] = e] = [x \in DOMAIN r |-> r[x]]
    BY <1>2, <2>1
  <2>3. r = [x \in DOMAIN r |-> r[x]]
    BY <2>1
  <2>. QED  BY <2>2, <2>3
<1>. QED  BY <1>1, <1>2

Rows == rows \in Seq(Row) /\ Len(rows) <= MaxRows

LEMMA StatusChange ==
  ASSUME Rows, NEW k, NEW s \in {"pending", "completed", "failed", "refunded"},
         rows' = [rows EXCEPT ![k].status = s]
  PROVE  Rows'
<1>. DEFINE e == [rows[k] EXCEPT !.status = s]
<1>1. rows' = [rows EXCEPT ![k] = e]
  OBVIOUS
<1>2. k \in DOMAIN rows => rows[k] \in Row
  BY ElementOfSeq, LenProperties DEF Rows
<1>3. k \in DOMAIN rows => e \in Row
  BY <1>2 DEF Row
<1>. HIDE DEF e
<1>. QED  BY <1>1, <1>3, RowChange DEF Rows

(* The transaction a new attempt adds.                                     *)
NewRow(w) == [intent |-> job[w].total, status |-> "pending", orders |-> {}]

LEMMA Created ==
  ASSUME Inv, NEW w \in Worker, CreateIntent(w), ~UNCHANGED <<rows, intent>>
  PROVE  /\ job[w].total \in Total /\ NewRow(w) \in Row /\ Len(rows) < MaxRows
         /\ intent' = [intent EXCEPT ![job[w].total] = IF @ = "none" THEN "open" ELSE @]
         /\ Len(rows) \in Nat /\ DOMAIN rows = 1 .. Len(rows)
         /\ rows' \in Seq(Row) /\ Len(rows') = Len(rows) + 1
         /\ DOMAIN rows' = DOMAIN rows \cup {Len(rows) + 1}
         /\ rows'[Len(rows) + 1] = NewRow(w)
         /\ \A k \in DOMAIN rows : rows'[k] = rows[k]
<1>1. /\ pc[w] = "creating" /\ Len(rows) < MaxRows /\ rows' = Append(rows, NewRow(w))
      /\ intent' = [intent EXCEPT ![job[w].total] = IF @ = "none" THEN "open" ELSE @]
  BY DEF CreateIntent, NewRow
<1>2. job[w].total \in Total /\ rows \in Seq(Row)
  BY <1>1 DEF Inv, Placement, Priced, TypeOK, Row
<1>3. NewRow(w) \in Row
  BY <1>2 DEF NewRow, Row
<1>. QED  BY <1>1, <1>2, <1>3, AppendProperties, LenProperties

LEMMA RowsTyped ==
  ASSUME Inv, [Next]_vars
  PROVE  Rows'
<1>1. Rows /\ Len(rows) \in Nat /\ MaxRows \in Nat
  BY LenProperties, SettlementAssumption DEF Inv, TypeOK, Bounded, Row, Rows
<1>2. CASE UNCHANGED rows
  BY <1>1, <1>2 DEF Rows
<1>3. ASSUME NEW w \in Worker, CreateIntent(w)
      PROVE  Rows'
  <2>1. CASE ~UNCHANGED rows
    BY <1>1, <1>3, <2>1, Created DEF Rows
  <2>. QED  BY <1>2, <2>1
<1>4. ASSUME NEW w \in Worker,
             FailRow(w) \/ RetireRow(w) \/ ClaimRow(w) \/ RevertRow(w) \/ NoteRefund(w)
      PROVE  Rows'
  <2>1. \/ UNCHANGED rows
        \/ \E k : \E s \in {"pending", "completed", "failed", "refunded"} :
             rows' = [rows EXCEPT ![k].status = s]
    BY <1>4 DEF FailRow, RetireRow, ClaimRow, RevertRow, NoteRefund
  <2>. QED  BY <1>1, <1>2, <2>1, StatusChange
<1>5. ASSUME NEW w \in Worker, RecordOrders(w)
      PROVE  Rows'
  <2>. DEFINE k == job[w].row
              e == [rows[k] EXCEPT !.orders = job[w].got]
  <2>1. job[w].got \in SUBSET Part
    BY DEF Inv, TypeOK
  <2>2. k \in DOMAIN rows => rows[k] \in Row
    BY <1>1, ElementOfSeq, LenProperties DEF Rows
  <2>3. k \in DOMAIN rows => e \in Row
    BY <2>1, <2>2 DEF Row
  <2>4. rows' = [rows EXCEPT ![k] = e]
    BY <1>5 DEF RecordOrders
  <2>. HIDE DEF k, e
  <2>. QED  BY <1>1, <2>3, <2>4, RowChange DEF Rows
<1>. QED  BY <1>2, <1>3, <1>4, <1>5, Frames

Others ==
  /\ checkout \in {"open", "completed", "cancelled"} /\ total \in Total /\ claimed \in BOOLEAN
  /\ intent \in [Total -> {"none", "open", "succeeded", "canceled"}]
  /\ refund \in [Total -> 0 .. MaxRows] /\ unheard \subseteq Total
  /\ due \subseteq Event /\ handled \subseteq Event
  /\ turns \in 0 .. Turns

LEMMA EventsMove ==
  ASSUME [Next]_vars
  PROVE  /\ \/ due' \subseteq due
            \/ \E i \in Total : due' = due \cup {<<i, "failed">>}
            \/ \E i \in Total : Pay(i) /\ due' = due \cup {<<i, "succeeded">>}
         /\ handled' \subseteq handled \/ \E e \in Event : handled' \subseteq handled \cup {e}
<1>1. CASE UNCHANGED vars
  BY <1>1 DEF vars, eventVars
<1>2. CASE Outside
  BY <1>2 DEF Outside, Decline, Pay, EditCheckout, OthersBuy, OthersReturn, ExpireClaim, eventVars
<1>3. ASSUME NEW w \in Worker, NEW e \in Event, Deliver(w, e)
      PROVE  due' \subseteq due /\ handled' \subseteq handled \cup {e}
  BY <1>3 DEF Deliver
<1>4. ASSUME NEW w \in Worker,
             Poll(w) \/ BeginInitiate(w) \/ BeginCod(w) \/ Polling(w) \/ Initiating(w) \/ Crash(w)
      PROVE  UNCHANGED <<due, handled>>
  BY <1>4 DEF Poll, BeginInitiate, BeginCod, Crash, Polling, LookForRefund, FindPending, AskProvider,
              Initiating, FindAttempt, CompareAttempt, RetireRow, CreateIntent, ReopenCheckout, eventVars
<1>5. ASSUME NEW w \in Worker, Work(w)
      PROVE  due' \subseteq due /\ handled' \subseteq handled
  <2>1. CASE FailRow(w) \/ ForgetEvent(w) \/ ClaimRow(w) \/ CheckCheckout(w) \/ RecordOrders(w)
             \/ CompleteCheckout(w) \/ RevertRow(w)
    BY <2>1 DEF FailRow, ForgetEvent, ClaimRow, CheckCheckout, RecordOrders, CompleteCheckout, RevertRow,
                Return, eventVars
  <2>2. CASE RefundBuyer(w) \/ FailRefund(w) \/ LoseRefund(w) \/ NoteRefund(w) \/ CancelCheckout(w)
             \/ SwitchToCod(w)
    BY <2>2 DEF RefundBuyer, FailRefund, LoseRefund, NoteRefund, CancelCheckout, SwitchToCod,
                Return, eventVars
  <2>3. CASE EnterPlacement(w) \/ AwaitWinner(w) \/ GiveUp(w) \/ LookForOrders(w) \/ Reserve(w)
             \/ InsertOrder(w) \/ FailInsert(w) \/ Redeem(w) \/ FailRedeem(w) \/ Unclaim(w)
    BY <2>3 DEF EnterPlacement, AwaitWinner, GiveUp, LookForOrders, Reserve, InsertOrder, FailInsert,
                Redeem, FailRedeem, Unclaim, eventVars
  <2>. QED  BY <1>5, <2>1, <2>2, <2>3 DEF Work
<1>. QED  BY <1>1, <1>2, <1>3, <1>4, <1>5 DEF Next

(* What a refund does to the money.                                        *)
LEMMA Refunds ==
  ASSUME Inv, NEW w \in Worker, RefundBuyer(w) \/ LoseRefund(w)
  PROVE  /\ pc[w] = "refunding" /\ job[w].row \in 0 .. MaxRows /\ job[w].by \in Total
         /\ refund[job[w].by] \in {0, job[w].row}
         /\ refund'[job[w].by] = job[w].row
         /\ \A i \in Total \ {job[w].by} : refund'[i] = refund[i]
         /\ refund' \in [Total -> 0 .. MaxRows]
         /\ RefundBuyer(w) => UNCHANGED unheard
         /\ LoseRefund(w) => unheard' = unheard \cup {job[w].by}
         /\ UNCHANGED <<intent, rows, orders, job>>
         /\ RefundBuyer(w) => pc' = [pc EXCEPT ![w] = "noting"]
         /\ LoseRefund(w) => pc' = [pc EXCEPT ![w] = "reverting"]
<1>1. refund \in [Total -> 0 .. MaxRows] /\ job[w] \in Job
  BY DEF Inv, TypeOK, Job
<1>2. job[w].row \in 0 .. MaxRows /\ job[w].by \in Total
  BY <1>1 DEF Job, RefundBuyer, LoseRefund, Inv, Placement, Carded, Taken
<1>3. /\ pc[w] = "refunding" /\ refund[job[w].by] \in {0, job[w].row}
      /\ refund' = [refund EXCEPT ![job[w].by] = job[w].row]
      /\ RefundBuyer(w) => UNCHANGED unheard
      /\ LoseRefund(w) => unheard' = unheard \cup {job[w].by}
      /\ UNCHANGED <<intent, rows, orders, job>>
      /\ RefundBuyer(w) => pc' = [pc EXCEPT ![w] = "noting"]
      /\ LoseRefund(w) => pc' = [pc EXCEPT ![w] = "reverting"]
  BY DEF RefundBuyer, LoseRefund, Goto
<1>. QED  BY <1>1, <1>2, <1>3

LEMMA OthersTyped ==
  ASSUME Inv, [Next]_vars
  PROVE  Others'
<1>1. Others /\ Turns \in Nat
  BY SettlementAssumption DEF Inv, TypeOK, Others
<1>2. checkout' \in {"open", "completed", "cancelled"}
  BY <1>1, Frames DEF Others, CompleteCheckout
<1>3. total' \in Total
  BY <1>1, Frames DEF Others, EditCheckout
<1>4. claimed' \in BOOLEAN
  BY <1>1, Frames DEF Others
<1>5. intent' \in [Total -> {"none", "open", "succeeded", "canceled"}]
  <2>1. CASE UNCHANGED intent
    BY <1>1, <2>1 DEF Others
  <2>2. CASE \E i \in Total : Pay(i)
    BY <1>1, <2>2 DEF Others, Pay
  <2>3. CASE \E w \in Worker : CompareAttempt(w)
    <3>1. UNCHANGED intent \/ \E i : intent' = [intent EXCEPT ![i] = "canceled"]
      BY <2>3 DEF CompareAttempt
    <3>. QED  BY <1>1, <3>1 DEF Others
  <2>4. CASE \E w \in Worker : CreateIntent(w)
    <3>1. UNCHANGED intent \/ \E i : intent' = [intent EXCEPT ![i] = IF @ = "none" THEN "open" ELSE @]
      BY <2>4 DEF CreateIntent
    <3>. QED  BY <1>1, <3>1 DEF Others
  <2>. QED  BY <2>1, <2>2, <2>3, <2>4, Frames
<1>6. refund' \in [Total -> 0 .. MaxRows] /\ unheard' \subseteq Total
  <2>1. CASE UNCHANGED <<refund, unheard>>
    BY <1>1, <2>1 DEF Others
  <2>2. ASSUME NEW w \in Worker, RefundBuyer(w) \/ LoseRefund(w)
        PROVE  refund' \in [Total -> 0 .. MaxRows] /\ unheard' \subseteq Total
    BY <1>1, <2>2, Refunds DEF Others
  <2>. QED  BY <2>1, <2>2, Frames
<1>7. due' \subseteq Event /\ handled' \subseteq Event
  <2>1. \A i \in Total : <<i, "failed">> \in Event /\ <<i, "succeeded">> \in Event
    BY DEF Event
  <2>. QED  BY <1>1, <2>1, EventsMove DEF Others
<1>8. turns' \in 0 .. Turns
  <2>1. turns \in 0 .. Turns
    BY <1>1 DEF Others
  <2>2. turns' = turns \/ (turns < Turns /\ turns' = turns + 1)
    BY Frames
  <2>. QED  BY <1>1, <2>1, <2>2
<1>. QED  BY <1>2, <1>3, <1>4, <1>5, <1>6, <1>7, <1>8 DEF Others

-----------------------------------------------------------------------------
(* The theorems.                                                           *)

LEMMA Initially == Init => Inv
<1>. SUFFICES ASSUME Init PROVE Inv
  OBVIOUS
<1>1. /\ \A w \in Worker : pc[w] = "idle" /\ job[w] = NoJob
      /\ pc \in [Worker -> Point] /\ job \in [Worker -> Job]
  BY NoJobType DEF Init, Point
<1>2. orders = <<>> /\ DOMAIN orders = {} /\ orders \in Seq(Order)
  BY EmptySeq DEF Init
<1>3. rows \in Seq(Row) /\ Len(rows) = 1
  <2>1. [intent |-> total, status |-> "pending", orders |-> {}] \in Row
    BY DEF Init, Row
  <2>. QED  BY <2>1 DEF Init
<1>5. TypeOK
  <2>1. /\ checkout \in {"open", "completed", "cancelled"} /\ total \in Total
        /\ cart \subseteq Part
        /\ due \subseteq Event /\ handled \subseteq Event
    BY DEF Init, Part
  <2>2. claimed \in BOOLEAN
    BY DEF Init
  <2>3. stock \in Nat /\ committed \in Nat
    BY SettlementAssumption DEF Init
  <2>4. intent \in [Total -> {"none", "open", "succeeded", "canceled"}]
    BY DEF Init
  <2>5. /\ refund \in [Total -> 0 .. MaxRows] /\ unheard \subseteq Total
        /\ turns \in 0 .. Turns /\ crashes \in Nat
    BY SettlementAssumption DEF Init
  <2>. QED  BY <1>1, <1>2, <1>3, <2>1, <2>2, <2>3, <2>4, <2>5 DEF TypeOK, Job, Order, Row
<1>6. Bounded
  BY <1>3, SettlementAssumption DEF Init, Bounded
<1>7. Alone /\ (\A w \in Worker : Placement(w)) /\ OrderedOnce
  BY <1>1, <1>2 DEF Alone, Placement, Placing, Priced, OrderedOnce, NoJob, Carded, Taken
<1>8. HoldsItsOrder
  <2>1. {k \in DOMAIN orders : orders[k].part = "physical"} = {}
    BY <1>2
  <2>2. {w \in Worker : pc[w] = "inserting" /\ "physical" \in job[w].todo} = {}
    BY <1>1
  <2>3. committed = 0 /\ crashes = 0
    BY DEF Init
  <2>. QED  BY <2>1, <2>2, <2>3, FS_EmptySet DEF HoldsItsOrder
<1>. QED  BY <1>5, <1>6, <1>7, <1>8 DEF Inv

LEMMA Inductive == Inv /\ [Next]_vars => Inv'
<1>. SUFFICES ASSUME Inv, [Next]_vars PROVE Inv'
  OBVIOUS
<1>1. Kept' /\ Rows' /\ Others'
  BY StepKeeps, RowsTyped, OthersTyped
<1>2. TypeOK'
  BY <1>1 DEF Kept, Rows, Others, TypeOK, Job, Row, Order
<1>3. Bounded'
  BY <1>1 DEF Kept, Rows, Bounded
<1>. QED  BY <1>1, <1>2, <1>3 DEF Kept, Inv

LEMMA Invariant == Spec => []Inv
BY Initially, Inductive, PTL DEF Spec

(* Every variable of the settlement keeps its type.                        *)
THEOREM TypeCorrect == Spec => []TypeOK
<1>1. Inv => TypeOK
  BY DEF Inv
<1>. QED  BY <1>1, Invariant, PTL

(* Webhooks, polls and clicks, delivered as often as they may be, claims   *)
(* that grow old and handlers that die: each part of the cart becomes one  *)
(* order, because createOrder places under the claim and looks for the     *)
(* orders of an earlier attempt first.                                     *)
THEOREM PlacedOnce == Spec => []OrderedOnce
<1>1. Inv => OrderedOnce
  BY DEF Inv
<1>. QED  BY <1>1, Invariant, PTL

(* What the checkout has reserved is what its order and a placement under  *)
(* way take, but for one unit at most per handler that died.               *)
THEOREM StockIsItsOrder == Spec => []HoldsItsOrder
<1>1. Inv => HoldsItsOrder
  BY DEF Inv
<1>. QED  BY <1>1, Invariant, PTL

-----------------------------------------------------------------------------
(* What handlers work for.  A payment in hand has succeeded, and the       *)
(* orders of a checkout are placed by one handler: another finds them and  *)
(* does not place.                                                         *)

Funded(i) == intent[i] = "succeeded"
Announced == \A i \in Total : <<i, "succeeded">> \in due => Funded(i)
Busy(w) == pc[w] \notin {"idle", "declining", "asking"}
Backed == \A w \in Worker : Busy(w) /\ job[w].by \in Total => Funded(job[w].by)
Deal(k) == [by |-> orders[k].by, attempt |-> orders[k].row, total |-> orders[k].total]
JobDeal(w) == [by |-> job[w].by, attempt |-> job[w].row, total |-> job[w].total]
ByOne ==
  \A k \in DOMAIN orders :
    /\ \A l \in DOMAIN orders : Deal(k) = Deal(l)
    /\ \A w \in Worker : pc[w] = "inserting" => Deal(k) = JobDeal(w)
DealInv == Announced /\ Backed /\ ByOne

LEMMA Typed ==
  ASSUME Inv
  PROVE  /\ pc \in [Worker -> Point] /\ job \in [Worker -> Job] /\ \A w \in Worker : job[w] \in Job
         /\ rows \in Seq(Row) /\ DOMAIN rows = 1 .. Len(rows) /\ Len(rows) \in Nat
         /\ \A k \in DOMAIN rows : rows[k] \in Row /\ rows[k].intent \in Total
         /\ intent \in [Total -> {"none", "open", "succeeded", "canceled"}]
         /\ refund \in [Total -> 0 .. MaxRows]
<1>1. /\ pc \in [Worker -> Point] /\ job \in [Worker -> Job] /\ rows \in Seq(Row)
      /\ intent \in [Total -> {"none", "open", "succeeded", "canceled"}]
      /\ refund \in [Total -> 0 .. MaxRows]
  BY DEF Inv, TypeOK, Job, Row
<1>2. DOMAIN rows = 1 .. Len(rows) /\ Len(rows) \in Nat
  BY <1>1, LenProperties
<1>3. \A k \in DOMAIN rows : rows[k] \in Row
  BY <1>1, <1>2, ElementOfSeq
<1>4. \A k \in DOMAIN rows : rows[k].intent \in Total
  BY <1>3 DEF Row
<1>. QED  BY <1>1, <1>2, <1>3, <1>4

(* What a step does to a payment intent: it is created with a transaction, *)
(* and what is paid for stays so, refunded or not.                         *)
LEMMA IntentMoves ==
  ASSUME Inv, [Next]_vars, NEW i \in Total
  PROVE  /\ Funded(i) => Funded(i)'
         /\ Funded(i)' => Funded(i) \/ Pay(i)
         /\ Pay(i) => Funded(i)'
         /\ intent'[i] # "none" => intent[i] # "none" \/ RowsOf(i)' # {}
<1>1. CASE UNCHANGED intent
  <2>1. ~Pay(i)
    BY <1>1, Typed DEF Pay
  <2>. QED  BY <1>1, <2>1 DEF Funded
<1>2. ASSUME NEW k \in Total, Pay(k)
      PROVE  intent' = [intent EXCEPT ![k] = "succeeded"] /\ intent[k] = "open"
  BY <1>2 DEF Pay
<1>3. CASE \E k \in Total : Pay(k)
  <2>1. PICK k \in Total : Pay(k)
    BY <1>3
  <2>2. Pay(i) => i = k
    BY <1>2, <2>1, Typed
  <2>. QED  BY <1>2, <2>1, <2>2, Typed DEF Funded
<1>4. CASE \E w \in Worker : CompareAttempt(w)
  <2>1. UNCHANGED intent \/ \E k : intent' = [intent EXCEPT ![k] = "canceled"] /\ intent[k] = "open"
    BY <1>4 DEF CompareAttempt
  <2>. QED  BY <1>1, <1>2, <2>1, Typed DEF Funded
<1>5. ASSUME NEW w \in Worker, CreateIntent(w), ~UNCHANGED intent
      PROVE  /\ Funded(i) <=> Funded(i)'
             /\ ~Pay(i)
             /\ intent'[i] # "none" => intent[i] # "none" \/ RowsOf(i)' # {}
  <2>2. /\ job[w].total \in Total
        /\ intent' = [intent EXCEPT ![job[w].total] = IF @ = "none" THEN "open" ELSE @]
        /\ Len(rows) + 1 \in DOMAIN rows' /\ rows'[Len(rows) + 1] = NewRow(w)
    BY <1>5, Created
  <2>3. i = job[w].total => RowsOf(i)' # {}
    BY <2>2 DEF RowsOf, NewRow
  <2>4. \A k \in Total : intent'[k] = intent[k] \/ (k = job[w].total /\ intent'[k] = "open" /\ intent[k] = "none")
    BY <2>2, Typed
  <2>. QED  BY <1>2, <2>3, <2>4, Typed DEF Funded
<1>. QED  BY <1>1, <1>3, <1>4, <1>5, Frames

LEMMA AnnouncedStays ==
  ASSUME Inv, [Next]_vars, Announced
  PROVE  Announced'
<1>. SUFFICES ASSUME NEW i \in Total, <<i, "succeeded">> \in due' PROVE Funded(i)'
  BY DEF Announced
<1>1. <<i, "succeeded">> \in due \/ Pay(i)
  BY EventsMove
<1>. QED  BY <1>1, IntentMoves DEF Announced

(* A step of a handler: it rests, or goes on for the same payment.         *)
Same(w) == Busy(w) /\ job'[w].by = job[w].by
Only(w) == \A v \in Worker \ {w} : pc'[v] = pc[v] /\ job'[v] = job[v]

LEMMA WorkFollows ==
  ASSUME Inv, NEW w \in Worker, Work(w) \/ Crash(w)
  PROVE  Only(w) /\ (pc'[w] = "idle" \/ Same(w))
<1>1. pc \in [Worker -> Point] /\ job \in [Worker -> Job] /\ job[w] \in Job
  BY Typed
<1>2. CASE FailRow(w) \/ ForgetEvent(w) \/ CompleteCheckout(w) \/ CancelCheckout(w) \/ Crash(w)
  BY <1>1, <1>2 DEF FailRow, ForgetEvent, CompleteCheckout, CancelCheckout, Crash, Return, Stop, Goto, Only
<1>3. CASE ClaimRow(w) \/ CheckCheckout(w)
  BY <1>1, <1>3 DEF ClaimRow, CheckCheckout, Return, Stop, Goto, Only, Same, Busy, Job
<1>4. CASE RecordOrders(w) \/ RevertRow(w) \/ RefundBuyer(w) \/ FailRefund(w) \/ LoseRefund(w)
           \/ NoteRefund(w) \/ SwitchToCod(w) \/ EnterPlacement(w) \/ GiveUp(w)
  BY <1>1, <1>4 DEF RecordOrders, RevertRow, RefundBuyer, FailRefund, LoseRefund, NoteRefund,
       SwitchToCod, EnterPlacement, GiveUp, Stop, Goto, Only, Same, Busy
<1>5. CASE AwaitWinner(w) \/ LookForOrders(w)
  BY <1>1, <1>5 DEF AwaitWinner, LookForOrders, Stop, Goto, Only, Same, Busy, Job
<1>6. CASE Reserve(w) \/ InsertOrder(w)
  BY <1>1, <1>6 DEF Reserve, InsertOrder, Goto, Only, Same, Busy, Job
<1>7. CASE FailInsert(w) \/ Redeem(w) \/ FailRedeem(w) \/ Unclaim(w)
  BY <1>1, <1>7 DEF FailInsert, Redeem, FailRedeem, Unclaim, Stop, Goto, Only, Same, Busy
<1>. QED  BY <1>2, <1>3, <1>4, <1>5, <1>6, <1>7 DEF Work

(* The page asks for a transaction's payment, and goes on to claim it when *)
(* it succeeded; a new attempt never gets there.                           *)
Off == {"screening", "polling", "asking", "searching", "comparing", "retiring", "creating", "reopening"}
LEMMA AsidesFollow ==
  ASSUME Inv, NEW w \in Worker, Asides(w)
  PROVE  /\ Only(w) /\ pc[w] \in Off /\ pc'[w] \in (Off \ {"screening"}) \cup {"idle", "claiming"}
         /\ \/ pc'[w] = "idle" /\ job'[w] = NoJob
            \/ /\ job'[w].via = job[w].via /\ job'[w].soldOut = job[w].soldOut
               /\ job'[w].by = job[w].by \/ pc[w] = "polling"
         /\ pc[w] = "polling" => pc'[w] \in {"idle", "asking"}
         /\ pc'[w] \in {"polling", "asking", "claiming"} => pc[w] \in {"screening", "polling", "asking"}
         /\ pc'[w] = "claiming" => pc[w] = "asking" /\ Funded(job[w].by) /\ job'[w].by = job[w].by
         /\ pc[w] = "asking" => pc'[w] \in {"idle", "claiming"}
         /\ Busy(w)' => pc'[w] = "claiming" \/ Same(w)
<1>1. pc \in [Worker -> Point] /\ job \in [Worker -> Job] /\ job[w] \in Job
  BY Typed
<1>2. CASE LookForRefund(w) \/ AskProvider(w)
  BY <1>1, <1>2 DEF LookForRefund, AskProvider, Stop, Goto, Only, Same, Busy, Off, Funded
<1>3. CASE FindPending(w) \/ FindAttempt(w)
  BY <1>1, <1>3 DEF FindPending, FindAttempt, Stop, Goto, Only, Same, Busy, Off, Funded, Job
<1>4. CASE CompareAttempt(w) \/ RetireRow(w) \/ CreateIntent(w) \/ ReopenCheckout(w)
  BY <1>1, <1>4 DEF CompareAttempt, RetireRow, CreateIntent, ReopenCheckout, Stop, Goto, Only, Same,
                    Busy, Off, Funded
<1>. QED  BY <1>2, <1>3, <1>4 DEF Asides, Polling, Initiating

(* The step that starts a handler: what it works for is paid, or cash.     *)
Starts(w, p, via, by) ==
  pc'[w] = p /\ job'[w].via = via /\ job'[w].by = by /\ job'[w].soldOut = FALSE

LEMMA StartFollows ==
  ASSUME Inv, Announced, NEW w \in Worker, Begins(w)
  PROVE  /\ Only(w) /\ pc[w] = "idle" /\ UNCHANGED orders
         /\ \/ \E i \in Total : Funded(i) /\ Starts(w, "claiming", "webhook", i)
            \/ \E i \in Total : Starts(w, "declining", "webhook", i)
            \/ Starts(w, "screening", "poll", Cash)
            \/ Starts(w, "searching", "initiate", Cash)
            \/ Starts(w, "switching", "cod", Cash)
<1>1. /\ pc \in [Worker -> Point] /\ job \in [Worker -> Job]
      /\ NoJob.by = Cash /\ Cash \notin Total /\ NoJob.soldOut = FALSE
  BY Typed, SettlementAssumption DEF NoJob
<1>2. ASSUME NEW p, NEW j, pc' = [pc EXCEPT ![w] = p], job' = [job EXCEPT ![w] = j]
      PROVE  Only(w) /\ pc'[w] = p /\ job'[w] = j
  BY <1>1, <1>2 DEF Only
<1>3. ASSUME NEW e \in Event, Deliver(w, e), e \notin handled
      PROVE  /\ Only(w) /\ pc[w] = "idle" /\ UNCHANGED orders
             /\ \/ \E i \in Total : Funded(i) /\ Starts(w, "claiming", "webhook", i)
                \/ \E i \in Total : Starts(w, "declining", "webhook", i)
  <2>. DEFINE p == IF e[2] = "succeeded" THEN "claiming" ELSE "declining"
              j == [NoJob EXCEPT !.via = "webhook", !.by = e[1]]
  <2>1. e = <<e[1], e[2]>> /\ e[1] \in Total /\ e \in due
    BY <1>3 DEF Event, Deliver
  <2>2. j.by = e[1] /\ j.via = "webhook" /\ j.soldOut = FALSE
    BY DEF NoJob
  <2>3. /\ pc[w] = "idle" /\ UNCHANGED orders
        /\ pc' = [pc EXCEPT ![w] = p] /\ job' = [job EXCEPT ![w] = j]
    BY <1>3 DEF Deliver, Start, Goto
  <2>4. (p = "claiming" /\ Funded(e[1])) \/ p = "declining"
    BY <2>1 DEF Announced
  <2>. HIDE DEF p, j
  <2>5. Only(w) /\ pc'[w] = p /\ job'[w] = j
    BY <1>2, <2>3
  <2>. QED  BY <2>1, <2>2, <2>3, <2>4, <2>5 DEF Starts
<1>4. CASE Poll(w)
  <2>. DEFINE j == [NoJob EXCEPT !.via = "poll", !.by = Cash]
  <2>1. j.by = Cash /\ j.via = "poll" /\ j.soldOut = FALSE
    BY DEF NoJob
  <2>2. /\ pc[w] = "idle" /\ UNCHANGED orders
        /\ pc' = [pc EXCEPT ![w] = "screening"] /\ job' = [job EXCEPT ![w] = j]
    BY <1>4 DEF Poll, Start, Goto
  <2>. HIDE DEF j
  <2>3. Only(w) /\ pc'[w] = "screening" /\ job'[w] = j
    BY <1>2, <2>2
  <2>. QED  BY <2>1, <2>2, <2>3 DEF Starts
<1>5. ASSUME NEW p, NEW via, pc[w] = "idle", UNCHANGED orders, Goto(w, p),
             job' = [job EXCEPT ![w] = [NoJob EXCEPT !.via = via, !.total = total]]
      PROVE  Only(w) /\ pc[w] = "idle" /\ UNCHANGED orders /\ Starts(w, p, via, Cash)
  <2>. DEFINE j == [NoJob EXCEPT !.via = via, !.total = total]
  <2>1. j.by = Cash /\ j.via = via /\ j.soldOut = FALSE
    BY DEF NoJob
  <2>2. pc' = [pc EXCEPT ![w] = p] /\ job' = [job EXCEPT ![w] = j]
    BY <1>5 DEF Goto
  <2>. HIDE DEF j
  <2>3. Only(w) /\ pc'[w] = p /\ job'[w] = j
    BY <1>2, <2>2
  <2>. QED  BY <1>5, <2>1, <2>3 DEF Starts
<1>6. CASE BeginInitiate(w)
  BY <1>5, <1>6 DEF BeginInitiate
<1>7. CASE BeginCod(w)
  BY <1>5, <1>7 DEF BeginCod
<1>. QED  BY <1>3, <1>4, <1>6, <1>7 DEF Begins

(* Steps that leave every handler where it is.                             *)
LEMMA RestFollows ==
  ASSUME Rests
  PROVE  UNCHANGED <<pc, job, orders>>
BY DEF Rests, Outside, Decline, Pay, EditCheckout, OthersBuy, OthersReturn, ExpireClaim, Deliver, vars

LEMMA BackedStays ==
  ASSUME Inv, [Next]_vars, Announced, Backed
  PROVE  Backed'
<1>. SUFFICES ASSUME NEW w \in Worker, Busy(w)', job'[w].by \in Total
              PROVE  intent'[job'[w].by] = "succeeded"
  BY DEF Backed, Funded
<1>. DEFINE i == job'[w].by
<1>0. Funded(i) => intent'[i] = "succeeded"
  BY IntentMoves DEF Funded
<1>1. CASE Busy(w) /\ i = job[w].by
  BY <1>0, <1>1 DEF Backed
<1>2. CASE Funded(i)
  BY <1>0, <1>2
<1>3. CASE UNCHANGED <<pc, job>>
  BY <1>1, <1>3 DEF Busy
<1>4. ASSUME NEW v \in Worker, Work(v) \/ Crash(v)
      PROVE  Busy(w) /\ job'[w].by = job[w].by
  BY <1>4, WorkFollows DEF Only, Same, Busy
<1>5. ASSUME NEW v \in Worker, Asides(v)
      PROVE  Funded(job'[w].by) \/ (Busy(w) /\ job'[w].by = job[w].by)
  BY <1>5, AsidesFollow DEF Only, Same, Busy, Funded
<1>6. ASSUME NEW v \in Worker, Begins(v)
      PROVE  Funded(job'[w].by) \/ (Busy(w) /\ job'[w].by = job[w].by)
  BY <1>6, StartFollows, SettlementAssumption DEF Only, Busy, Starts
<1>. QED  BY <1>1, <1>2, <1>3, <1>4, <1>5, <1>6, RestFollows, Steps

(* Who is placing after a step was placing before it, or found no order.   *)
LEMMA InsertingStays ==
  ASSUME Inv, [Next]_vars, NEW w \in Worker, ~InsertOrder(w), pc'[w] = "inserting"
  PROVE  orders = <<>> \/ (pc[w] = "inserting" /\ job'[w] = job[w])
<1>1. pc \in [Worker -> Point] /\ job \in [Worker -> Job]
  BY Typed
<1>2. CASE Rests
  BY <1>2, RestFollows
<1>3. ASSUME NEW v \in Worker, v # w, Begins(v) \/ Asides(v) \/ Work(v) \/ Crash(v)
      PROVE  pc'[w] = pc[w] /\ job'[w] = job[w]
  <2>1. CASE Begins(v)
    BY <1>1, <1>3, <2>1 DEF Begins, Deliver, Poll, BeginInitiate, BeginCod, Start, Goto
  <2>. QED  BY <1>3, <2>1, WorkFollows, AsidesFollow DEF Only
<1>4. CASE Reserve(w)
  BY <1>4 DEF Reserve, Inv, Placement
<1>5. CASE FailInsert(w)
  BY <1>1, <1>5 DEF FailInsert, Goto
<1>6. CASE Begins(w) \/ Asides(w) \/ Crash(w) \/ (Work(w) /\ ~Reserve(w) /\ ~FailInsert(w))
  <2>1. \E p, j : Keeps(w, p, j)
    BY <1>6, HandlerSteps, Endings, Beginnings, AsidesKeep
  <2>. QED  BY <1>1, <2>1 DEF Keeps
<1>. QED  BY <1>2, <1>3, <1>4, <1>5, <1>6, Steps

LEMMA OrdersTyped ==
  ASSUME Inv
  PROVE  /\ orders \in Seq(Order) /\ Len(orders) \in Nat /\ DOMAIN orders = 1 .. Len(orders)
         /\ \A k \in DOMAIN orders : orders[k] \in Order
<1>1. orders \in Seq(Order)
  BY DEF Inv, TypeOK, Order
<1>. QED  BY <1>1, ElementOfSeq, LenProperties

(* What an inserted order adds.                                            *)
LEMMA InsertFollows ==
  ASSUME Inv, NEW w \in Worker, InsertOrder(w)
  PROVE  /\ pc[w] = "inserting" /\ job[w] \in Job /\ job[w].total \in Total
         /\ NextPart(w) \in Part \ OrderedParts
         /\ JobDeal(w)' = JobDeal(w)
         /\ \A v \in Worker \ {w} : pc'[v] # "inserting"
         /\ DOMAIN orders' = DOMAIN orders \cup {Len(orders) + 1}
         /\ \A k \in DOMAIN orders : orders'[k] = orders[k]
         /\ Len(orders) + 1 \notin DOMAIN orders
         /\ \A k \in DOMAIN orders : Deal(k)' = Deal(k)
         /\ \A k : k = Len(orders) + 1 => Deal(k)' = JobDeal(w) /\ orders'[k].part = NextPart(w)
         /\ UNCHANGED <<intent, refund, unheard, rows>>
<1>. DEFINE o == [part |-> NextPart(w), by |-> job[w].by, row |-> job[w].row, total |-> job[w].total]
            n == Len(orders) + 1
<1>1. /\ pc \in [Worker -> Point] /\ job \in [Worker -> Job] /\ job[w] \in Job
      /\ pc[w] = "inserting" /\ orders' = Append(orders, o)
      /\ UNCHANGED <<intent, refund, unheard, rows>>
  BY Typed DEF InsertOrder, providerVars
<1>2. job[w].todo # {} /\ job[w].todo \cap OrderedParts = {} /\ job[w].total \in Total
  BY <1>1 DEF Inv, Placement, Priced
<1>3. NextPart(w) \in job[w].todo /\ NextPart(w) \in Part
  BY <1>1, <1>2 DEF NextPart, Part, Job
<1>4. o \in Order
  BY <1>1, <1>2, <1>3 DEF Order, Job
<1>5. JobDeal(w)' = JobDeal(w)
  <2>1. /\ job'[w].by = job[w].by /\ job'[w].row = job[w].row /\ job'[w].total = job[w].total
    BY <1>1 DEF InsertOrder, Job
  <2>. QED  BY <2>1 DEF JobDeal
<1>6. \A v \in Worker \ {w} : pc'[v] # "inserting"
  <2>1. \A v \in Worker \ {w} : pc'[v] = pc[v]
    BY <1>1 DEF InsertOrder, Goto
  <2>. QED  BY <1>1, <2>1 DEF Inv, Alone, Placing
<1>7. /\ DOMAIN orders' = DOMAIN orders \cup {n}
      /\ \A k \in DOMAIN orders : orders'[k] = orders[k]
      /\ orders'[n] = o
  <2>. HIDE DEF o
  <2>. QED  BY <1>1, <1>4, OrdersTyped, AppendProperties, LenProperties
<1>8. ASSUME NEW k, k = n PROVE Deal(k)' = JobDeal(w) /\ orders'[k].part = NextPart(w)
  <2>1. /\ orders'[k].by = job[w].by /\ orders'[k].row = job[w].row
        /\ orders'[k].total = job[w].total /\ orders'[k].part = NextPart(w)
    BY <1>7, <1>8
  <2>. QED  BY <2>1 DEF Deal, JobDeal
<1>9. n \notin DOMAIN orders /\ \A k \in DOMAIN orders : Deal(k)' = Deal(k)
  BY <1>7, OrdersTyped DEF Deal
<1>. QED  BY <1>1, <1>2, <1>3, <1>5, <1>6, <1>7, <1>8, <1>9

LEMMA ByOneStays ==
  ASSUME Inv, [Next]_vars, ByOne
  PROVE  ByOne'
<1>1. ASSUME NEW w \in Worker, InsertOrder(w)
      PROVE  ByOne'
  <2>1. \A k \in DOMAIN orders' : Deal(k)' = JobDeal(w)
    BY <1>1, InsertFollows DEF ByOne
  <2>2. JobDeal(w)' = JobDeal(w) /\ \A v \in Worker \ {w} : pc'[v] # "inserting"
    BY <1>1, InsertFollows
  <2>3. \A k \in DOMAIN orders' : \A v \in Worker : pc'[v] = "inserting" => Deal(k)' = JobDeal(v)'
    BY <2>1, <2>2 DEF JobDeal
  <2>. QED  BY <2>1, <2>3 DEF ByOne
<1>2. CASE ~\E w \in Worker : InsertOrder(w)
  <2>1. UNCHANGED orders /\ \A k \in DOMAIN orders' : k \in DOMAIN orders /\ Deal(k)' = Deal(k)
    BY <1>2, Frames DEF Deal
  <2>2. ASSUME NEW k \in DOMAIN orders, NEW w \in Worker, pc'[w] = "inserting"
        PROVE  Deal(k) = JobDeal(w)'
    <3>1. orders # <<>>
      BY EmptySeq
    <3>2. pc[w] = "inserting" /\ job'[w] = job[w]
      BY <1>2, <2>2, <3>1, InsertingStays
    <3>. QED  BY <3>2 DEF ByOne, JobDeal
  <2>. QED  BY <2>1, <2>2 DEF ByOne
<1>. QED  BY <1>1, <1>2

LEMMA DealInitially == Init => DealInv
<1>. SUFFICES ASSUME Init PROVE DealInv
  OBVIOUS
<1>1. orders = <<>> /\ DOMAIN orders = {} /\ due = {} /\ \A w \in Worker : ~Busy(w)
  BY EmptySeq DEF Init, Busy
<1>. QED  BY <1>1 DEF DealInv, Announced, Backed, ByOne

LEMMA DealInductive == Inv /\ DealInv /\ [Next]_vars => DealInv'
BY AnnouncedStays, BackedStays, ByOneStays DEF DealInv

-----------------------------------------------------------------------------
(* Who has a transaction in hand, and who is to answer for a payment.      *)

(* Between the claim of a transaction and the answer a handler owns it;    *)
(* the handler of an order on delivery owns none.                          *)
Owner(w) == pc[w] \in Taken /\ job[w].via # "cod"
OnCard == {"checking", "recording", "refunding", "noting", "reverting"}
Owning(w) ==
  /\ job[w].via = "cod" => job[w].by = Cash
  /\ pc[w] \in {"screening", "polling", "asking", "claiming"} \cup OnCard => job[w].via # "cod"
  /\ pc[w] = "switching" => job[w].via = "cod"
  /\ Owner(w) => job[w].row \in DOMAIN rows /\ rows[job[w].row].intent = job[w].by
  /\ pc[w] = "noting" => refund[job[w].by] # 0
  /\ pc[w] \in {"redeeming", "recording", "completing"} => orders # <<>>

(* A payment has a transaction; one that is marked as refunded was.        *)
Known == \A i \in Total : intent[i] # "none" => RowsOf(i) # {}
Returned == \A k \in DOMAIN rows : rows[k].status = "refunded" => refund[rows[k].intent] # 0
Delivered == checkout = "completed" => orders # <<>>

(* Completed transactions that nobody has in hand: handlers died with them.*)
Orphans ==
  {k \in DOMAIN rows : rows[k].status = "completed" /\ \A w \in Worker : ~(Owner(w) /\ job[w].row = k)}
Mourned == orders = <<>> => Cardinality(Orphans) <= crashes

HandInv == Known /\ Returned /\ Delivered /\ Mourned /\ \A w \in Worker : Owning(w)

(* What marking a transaction leaves alone.                                *)
LEMMA Marked ==
  ASSUME NEW r \in Seq(Row), NEW k, NEW s
  PROVE  /\ DOMAIN [r EXCEPT ![k].status = s] = DOMAIN r
         /\ \A l \in DOMAIN r : /\ [r EXCEPT ![k].status = s][l].intent = r[l].intent
                                /\ l # k => [r EXCEPT ![k].status = s][l].status = r[l].status
         /\ k \in DOMAIN r => [r EXCEPT ![k].status = s][k].status = s
<1>1. \A l \in DOMAIN r : r[l] \in Row
  BY LenProperties, ElementOfSeq
<1>. DEFINE e == [r[k] EXCEPT !.status = s]
<1>2. [r EXCEPT ![k].status = s] = [r EXCEPT ![k] = e]
  OBVIOUS
<1>3. k \in DOMAIN r => e.status = s /\ e.intent = r[k].intent
  BY <1>1 DEF Row
<1>. HIDE DEF e
<1>. QED  BY <1>2, <1>3

(* A step never takes a transaction away; it adds a pending one, or a      *)
(* transaction is given up, claimed by a handler, put back to pending by   *)
(* one or marked as refunded by one.                                       *)
Claimed(w, k) ==
  /\ ClaimRow(w) /\ pc'[w] = "checking" /\ job'[w].row = k
  /\ k \in RowsOf(job[w].by) /\ rows[k].status = "pending" /\ rows'[k].status = "completed"
Moves ==
  /\ DOMAIN rows \subseteq DOMAIN rows'
  /\ \A k \in DOMAIN rows : rows'[k].intent = rows[k].intent
  /\ \A k \in DOMAIN rows' : k \notin DOMAIN rows => rows'[k].status = "pending"
  /\ \A k \in DOMAIN rows :
       \/ rows'[k].status \in {rows[k].status, "failed"}
       \/ rows'[k].status = "completed" /\ \E w \in Worker : Claimed(w, k)
       \/ rows'[k].status = "pending" /\ \E w \in Worker : RevertRow(w) /\ job[w].row = k
       \/ rows'[k].status = "refunded" /\ \E w \in Worker : NoteRefund(w) /\ job[w].row = k

LEMMA RowsMove ==
  ASSUME Inv, [Next]_vars
  PROVE  Moves
<1>1. CASE UNCHANGED rows
  BY <1>1 DEF Moves
<1>2. ASSUME NEW w \in Worker, CreateIntent(w), ~UNCHANGED rows
      PROVE  Moves
  <2>1. /\ DOMAIN rows' = DOMAIN rows \cup {Len(rows) + 1}
        /\ rows'[Len(rows) + 1] = NewRow(w)
        /\ \A k \in DOMAIN rows : rows'[k] = rows[k]
    BY <1>2, Created
  <2>2. rows'[Len(rows) + 1].status = "pending"
    BY <2>1 DEF NewRow
  <2>. QED  BY <2>1, <2>2 DEF Moves
<1>3. ASSUME NEW k, NEW s, rows' = [rows EXCEPT ![k].status = s],
             \/ s = "failed"
             \/ s = "pending" /\ \E w \in Worker : RevertRow(w) /\ job[w].row = k
             \/ s = "completed" /\ \E w \in Worker : Claimed(w, k)
             \/ s = "refunded" /\ \E w \in Worker : NoteRefund(w) /\ job[w].row = k
      PROVE  Moves
  <2>1. /\ DOMAIN rows' = DOMAIN rows
        /\ \A l \in DOMAIN rows : rows'[l].intent = rows[l].intent
                                  /\ (l # k => rows'[l].status = rows[l].status)
        /\ k \in DOMAIN rows => rows'[k].status = s
    BY <1>3, Typed, Marked
  <2>. QED  BY <1>3, <2>1 DEF Moves
<1>4. CASE \E w \in Worker : FailRow(w) \/ RetireRow(w)
  <2>1. UNCHANGED rows \/ \E k : rows' = [rows EXCEPT ![k].status = "failed"]
    BY <1>4 DEF FailRow, RetireRow
  <2>. QED  BY <1>1, <1>3, <2>1
<1>5. ASSUME NEW w \in Worker, ClaimRow(w), ~UNCHANGED rows
      PROVE  Moves
  <2>1. PICK k \in RowsOf(job[w].by) :
             /\ rows[k].status = "pending"
             /\ rows' = [rows EXCEPT ![k].status = "completed"]
             /\ job' = [job EXCEPT ![w].row = k] /\ pc' = [pc EXCEPT ![w] = "checking"]
    BY <1>5 DEF ClaimRow, Goto
  <2>2. rows'[k].status = "completed"
    BY <2>1, Typed, Marked DEF RowsOf
  <2>3. Claimed(w, k)
    BY <1>5, <2>1, <2>2, Typed DEF Claimed, Job
  <2>. QED  BY <1>3, <2>1, <2>3
<1>6. ASSUME NEW w \in Worker, RevertRow(w) \/ NoteRefund(w)
      PROVE  Moves
  <2>1. \/ RevertRow(w) /\ rows' = [rows EXCEPT ![job[w].row].status = "pending"]
        \/ NoteRefund(w) /\ rows' = [rows EXCEPT ![job[w].row].status = "refunded"]
    BY <1>6 DEF RevertRow, NoteRefund
  <2>. QED  BY <1>3, <2>1
<1>7. ASSUME NEW w \in Worker, RecordOrders(w)
      PROVE  Moves
  <2>. DEFINE k == job[w].row
              e == [rows[k] EXCEPT !.orders = job[w].got]
  <2>1. rows' = [rows EXCEPT ![k] = e]
    BY <1>7 DEF RecordOrders
  <2>2. k \in DOMAIN rows => e.intent = rows[k].intent /\ e.status = rows[k].status
    BY Typed DEF Row
  <2>. HIDE DEF k, e
  <2>. QED  BY <2>1, <2>2 DEF Moves
<1>. QED  BY <1>1, <1>2, <1>4, <1>5, <1>6, <1>7, Frames

LEMMA OrdersStay ==
  ASSUME Inv, [Next]_vars
  PROVE  /\ orders # <<>> => orders' # <<>>
         /\ \A w \in Worker : InsertOrder(w) => orders' # <<>>
<1>1. ASSUME NEW w \in Worker, InsertOrder(w) PROVE orders' # <<>>
  <2>1. Len(orders) + 1 \in DOMAIN orders'
    BY <1>1, InsertFollows
  <2>. QED  BY <2>1
<1>. QED  BY <1>1, Frames

(* A handler keeps what it works for, but for the transaction it claims.   *)
Carries(w) ==
  job'[w].via = job[w].via /\ job'[w].by = job[w].by /\ (pc[w] # "claiming" => job'[w].row = job[w].row)

LEMMA WorkCarries ==
  ASSUME Inv, NEW w \in Worker, Work(w)
  PROVE  pc'[w] = "idle" \/ Carries(w)
<1>1. pc \in [Worker -> Point] /\ job \in [Worker -> Job] /\ job[w] \in Job
  BY Typed
<1>2. CASE FailRow(w) \/ ForgetEvent(w) \/ CompleteCheckout(w) \/ CancelCheckout(w)
  BY <1>1, <1>2 DEF FailRow, ForgetEvent, CompleteCheckout, CancelCheckout, Return, Stop, Goto
<1>3. CASE ClaimRow(w) \/ CheckCheckout(w)
  BY <1>1, <1>3 DEF ClaimRow, CheckCheckout, Return, Stop, Goto, Carries, Job
<1>4. CASE RecordOrders(w) \/ RevertRow(w) \/ RefundBuyer(w) \/ FailRefund(w) \/ LoseRefund(w)
           \/ NoteRefund(w) \/ SwitchToCod(w) \/ EnterPlacement(w) \/ GiveUp(w)
  BY <1>1, <1>4 DEF RecordOrders, RevertRow, RefundBuyer, FailRefund, LoseRefund, NoteRefund,
       SwitchToCod, EnterPlacement, GiveUp, Stop, Goto, Carries
<1>5. CASE AwaitWinner(w) \/ LookForOrders(w)
  BY <1>1, <1>5 DEF AwaitWinner, LookForOrders, Stop, Goto, Carries, Job
<1>6. CASE Reserve(w) \/ InsertOrder(w)
  BY <1>1, <1>6 DEF Reserve, InsertOrder, Goto, Carries, Job
<1>7. CASE FailInsert(w) \/ Redeem(w) \/ FailRedeem(w) \/ Unclaim(w)
  BY <1>1, <1>7 DEF FailInsert, Redeem, FailRedeem, Unclaim, Stop, Goto, Carries
<1>. QED  BY <1>2, <1>3, <1>4, <1>5, <1>6, <1>7 DEF Work

(* The ways into the points of the finalizing.                             *)
Fruitless == {"unclaiming", "refunding", "noting", "reverting", "cancelling", "forgetting"}
Paths(w) ==
  /\ pc'[w] \notin Off \cup {"claiming", "switching", "declining"}
  /\ pc'[w] \in Taken => pc[w] \in Taken \cup {"claiming", "switching"}
  /\ pc'[w] \in Taken /\ pc[w] = "claiming" => ClaimRow(w) /\ pc'[w] = "checking"
  /\ pc'[w] \in OnCard => pc[w] = "claiming" \/ pc[w] \in OnCard \/ job[w].via # "cod"
  /\ pc'[w] = "noting" => RefundBuyer(w)
  /\ pc[w] = "noting" => pc'[w] = "cancelling"
  /\ pc[w] = "reverting" => pc'[w] = "forgetting"
  /\ pc'[w] \in {"redeeming", "recording", "completing"} =>
       orders # <<>> \/ InsertOrder(w) \/ pc[w] \in {"redeeming", "recording"}
  /\ pc'[w] = "refunding" => job[w].soldOut /\ job'[w].soldOut
  /\ job'[w].soldOut => \/ job[w].soldOut /\ (pc[w] \in Fruitless => pc'[w] \in Fruitless)
                        \/ Reserve(w) /\ pc'[w] = "unclaiming"

LEMMA WorkPaths ==
  ASSUME Inv, NEW w \in Worker, Work(w)
  PROVE  pc'[w] = "idle" \/ Paths(w)
<1>. USE DEF Paths, Taken, OnCard, Off, Fruitless
<1>1. pc \in [Worker -> Point] /\ job \in [Worker -> Job] /\ job[w] \in Job
  BY Typed
<1>2. CASE FailRow(w) \/ ForgetEvent(w) \/ CompleteCheckout(w) \/ CancelCheckout(w)
  BY <1>1, <1>2 DEF FailRow, ForgetEvent, CompleteCheckout, CancelCheckout, Return, Stop, Goto
<1>3. CASE ClaimRow(w)
  <2>1. \/ pc'[w] = "idle"
        \/ /\ pc[w] = "claiming" /\ pc'[w] = "checking"
           /\ job'[w].soldOut = job[w].soldOut
    BY <1>1, <1>3 DEF ClaimRow, Return, Stop, Goto, Job
  <2>. QED  BY <1>3, <2>1
<1>4. CASE CheckCheckout(w) \/ EnterPlacement(w) \/ SwitchToCod(w)
  BY <1>1, <1>4 DEF CheckCheckout, EnterPlacement, SwitchToCod, Return, Stop, Goto, Job
<1>5. CASE RecordOrders(w) \/ NoteRefund(w) \/ RevertRow(w) \/ FailRefund(w) \/ LoseRefund(w)
  BY <1>1, <1>5 DEF RecordOrders, NoteRefund, RevertRow, FailRefund, LoseRefund, Stop, Goto
<1>6. CASE RefundBuyer(w)
  <2>1. pc'[w] = "noting" /\ pc[w] = "refunding" /\ UNCHANGED job
    BY <1>1, <1>6 DEF RefundBuyer, Goto
  <2>. QED  BY <1>6, <2>1
<1>7. CASE AwaitWinner(w) \/ GiveUp(w) \/ LookForOrders(w)
  BY <1>1, <1>7 DEF AwaitWinner, GiveUp, LookForOrders, Placed, Stop, Goto, Job
<1>8. CASE Reserve(w)
  <2>1. /\ pc[w] = "reserving"
        /\ \/ pc'[w] = "inserting" /\ job'[w].soldOut = job[w].soldOut
           \/ pc'[w] = "unclaiming"
    BY <1>1, <1>8 DEF Reserve, Goto, Job
  <2>. QED  BY <1>8, <2>1
<1>9. CASE InsertOrder(w)
  <2>1. /\ pc[w] = "inserting" /\ pc'[w] \in {"redeeming", "inserting"}
        /\ job'[w].soldOut = job[w].soldOut
    BY <1>1, <1>9 DEF InsertOrder, Goto, Job
  <2>. QED  BY <1>9, <2>1
<1>10. CASE FailInsert(w) \/ Redeem(w) \/ FailRedeem(w) \/ Unclaim(w)
  BY <1>1, <1>10 DEF FailInsert, Redeem, FailRedeem, Unclaim, Placed, Stop, Goto
<1>. QED  BY <1>2, <1>3, <1>4, <1>5, <1>6, <1>7, <1>8, <1>9, <1>10 DEF Work

(* Where a step leaves a handler, by what the handler did.                 *)
LEMMA Whereabouts ==
  ASSUME Inv, Announced, [Next]_vars, NEW w \in Worker
  PROVE  \/ pc'[w] = pc[w] /\ job'[w] = job[w]
         \/ pc'[w] = "idle" /\ job'[w] = NoJob
         \/ Begins(w) \/ Asides(w)
         \/ Work(w) /\ Carries(w) /\ Paths(w)
<1>1. CASE Rests
  BY <1>1, RestFollows
<1>2. ASSUME NEW v \in Worker, v # w, Begins(v) \/ Asides(v) \/ Work(v) \/ Crash(v)
      PROVE  pc'[w] = pc[w] /\ job'[w] = job[w]
  BY <1>2, StartFollows, AsidesFollow, WorkFollows DEF Only
<1>3. CASE Crash(w)
  BY <1>3, Typed DEF Crash, Stop, Goto
<1>4. CASE Work(w)
  <2>1. CASE pc'[w] = "idle"
    <3>1. job'[w] = NoJob
      <4>1. \/ Stop(w)
            \/ pc[w] # "idle" /\ \E p \in Point \ {"idle"} : Goto(w, p)
        <5>. USE DEF Point
        <5>1. CASE FailRow(w) \/ ForgetEvent(w) \/ ClaimRow(w) \/ CheckCheckout(w) \/ RecordOrders(w)
                   \/ CompleteCheckout(w) \/ RevertRow(w)
          BY <5>1 DEF FailRow, ForgetEvent, ClaimRow, CheckCheckout, RecordOrders, CompleteCheckout,
                      RevertRow, Return
        <5>2. CASE RefundBuyer(w) \/ FailRefund(w) \/ LoseRefund(w) \/ NoteRefund(w) \/ CancelCheckout(w)
                   \/ SwitchToCod(w)
          BY <5>2 DEF RefundBuyer, FailRefund, LoseRefund, NoteRefund, CancelCheckout, SwitchToCod, Return
        <5>3. CASE EnterPlacement(w) \/ AwaitWinner(w) \/ GiveUp(w) \/ LookForOrders(w) \/ Reserve(w)
                   \/ InsertOrder(w) \/ FailInsert(w) \/ Redeem(w) \/ FailRedeem(w) \/ Unclaim(w)
          BY <5>3 DEF EnterPlacement, AwaitWinner, GiveUp, LookForOrders, Reserve, InsertOrder, FailInsert,
                      Redeem, FailRedeem, Unclaim, Placed
        <5>. QED  BY <1>4, <5>1, <5>2, <5>3 DEF Work
      <4>. QED  BY <2>1, <4>1, Typed DEF Stop, Goto
    <3>. QED  BY <2>1, <3>1
  <2>. QED  BY <1>4, <2>1, WorkCarries, WorkPaths
<1>. QED  BY <1>1, <1>2, <1>3, <1>4, Steps

(* Who owns a transaction after a step owned it before, or claimed it.     *)
Continues(w) == Owner(w) /\ job'[w].row = job[w].row /\ job'[w].by = job[w].by /\ job'[w].via = job[w].via

LEMMA OwnerOrigin ==
  ASSUME Inv, Announced, [Next]_vars, NEW w \in Worker, Owning(w), Owner(w)'
  PROVE  \/ /\ Continues(w)
            /\ \/ pc'[w] = pc[w] /\ job'[w] = job[w]
               \/ Work(w) /\ Carries(w) /\ Paths(w)
         \/ Claimed(w, job'[w].row) /\ job'[w].by = job[w].by
<1>1. pc'[w] \in Taken /\ job'[w].via # "cod"
  BY DEF Owner
<1>2. CASE pc'[w] = pc[w] /\ job'[w] = job[w]
  BY <1>1, <1>2 DEF Owner, Continues
<1>3. CASE pc'[w] = "idle" /\ job'[w] = NoJob
  BY <1>1, <1>3 DEF Taken
<1>4. CASE Begins(w)
  BY <1>1, <1>4, StartFollows DEF Starts, Taken
<1>5. CASE Asides(w)
  BY <1>1, <1>5, AsidesFollow DEF Off, Taken
<1>6. CASE Work(w) /\ Carries(w) /\ Paths(w)
  <2>1. CASE pc[w] = "claiming"
    <3>1. ClaimRow(w) /\ pc'[w] = "checking"
      BY <1>1, <1>6, <2>1 DEF Paths
    <3>2. PICK k \in RowsOf(job[w].by) :
            /\ rows[k].status = "pending"
            /\ rows' = [rows EXCEPT ![k].status = "completed"]
            /\ job' = [job EXCEPT ![w].row = k]
      BY <3>1, Typed DEF ClaimRow, Return, Stop, Goto
    <3>3. rows'[k].status = "completed"
      BY <3>2, Typed, Marked DEF RowsOf
    <3>4. job'[w].row = k
      BY <3>2, Typed DEF Job
    <3>. QED  BY <1>6, <3>1, <3>2, <3>3, <3>4 DEF Claimed, Carries
  <2>2. CASE pc[w] = "switching"
    BY <1>1, <1>6, <2>2 DEF Owning, Carries
  <2>3. CASE pc[w] \in Taken
    <3>1. pc[w] # "claiming"
      BY <2>3 DEF Taken
    <3>. QED  BY <1>1, <1>6, <2>3, <3>1 DEF Carries, Owner, Continues
  <2>. QED  BY <1>1, <1>6, <2>1, <2>2, <2>3 DEF Paths
<1>. QED  BY <1>2, <1>3, <1>4, <1>5, <1>6, Whereabouts

(* Money goes back for a transaction that its handler has in hand.         *)
LEMMA RefundMoves ==
  ASSUME Inv, [Next]_vars, \A w \in Worker : Owning(w), NEW i \in Total
  PROVE  /\ unheard \subseteq unheard'
         /\ \/ refund'[i] = refund[i]
            \/ \E w \in Worker :
                 /\ RefundBuyer(w) \/ (LoseRefund(w) /\ i \in unheard')
                 /\ i = job[w].by /\ Owner(w) /\ pc[w] = "refunding"
                 /\ refund[i] \in {0, job[w].row}
                 /\ refund'[i] = job[w].row /\ refund'[i] \in DOMAIN rows /\ refund'[i] # 0
                 /\ rows[refund'[i]].intent = i
                 /\ UNCHANGED <<rows, orders, job>>
<1>1. CASE UNCHANGED <<refund, unheard>>
  BY <1>1
<1>2. ASSUME NEW w \in Worker, RefundBuyer(w) \/ LoseRefund(w)
      PROVE  /\ unheard \subseteq unheard'
             /\ \/ refund'[i] = refund[i]
                \/ /\ RefundBuyer(w) \/ (LoseRefund(w) /\ i \in unheard')
                   /\ i = job[w].by /\ Owner(w) /\ pc[w] = "refunding"
                   /\ refund[i] \in {0, job[w].row}
                   /\ refund'[i] = job[w].row /\ refund'[i] \in DOMAIN rows /\ refund'[i] # 0
                   /\ rows[refund'[i]].intent = i
                   /\ UNCHANGED <<rows, orders, job>>
  <2>1. Owner(w) /\ pc[w] = "refunding"
    BY <1>2, Refunds DEF Owner, Owning, Taken, OnCard
  <2>2. job[w].row \in DOMAIN rows /\ rows[job[w].row].intent = job[w].by /\ job[w].row # 0
    BY <2>1, Typed DEF Owning
  <2>3. unheard \subseteq unheard' /\ (LoseRefund(w) => job[w].by \in unheard')
    BY <1>2, Refunds
  <2>. QED  BY <1>2, <2>1, <2>2, <2>3, Refunds
<1>. QED  BY <1>1, <1>2, Frames

LEMMA OwningStays ==
  ASSUME Inv, Announced, HandInv, [Next]_vars, NEW w \in Worker
  PROVE  Owning(w)'
<1>0. NoJob.via = "none" /\ NoJob.by = Cash
  BY DEF NoJob
<1>1. Owning(w) /\ Moves
  BY RowsMove DEF HandInv
<1>2. Owner(w)' => job'[w].row \in DOMAIN rows' /\ rows'[job'[w].row].intent = job'[w].by
  <2>. SUFFICES ASSUME Owner(w)'
                PROVE  job'[w].row \in DOMAIN rows' /\ rows'[job'[w].row].intent = job'[w].by
    OBVIOUS
  <2>1. job'[w].row \in DOMAIN rows /\ rows[job'[w].row].intent = job'[w].by
    BY <1>1, OwnerOrigin DEF Continues, Claimed, RowsOf, Owning
  <2>. QED  BY <1>1, <2>1 DEF Moves
<1>3. pc[w] = "noting" => refund'[job[w].by] # 0
  <2>. SUFFICES ASSUME pc[w] = "noting" PROVE refund'[job[w].by] # 0
    OBVIOUS
  <2>1. Owner(w)
    BY <1>1 DEF Owning, Owner, Taken, OnCard
  <2>2. job[w].by \in Total /\ refund[job[w].by] # 0
    BY <1>1, <2>1, Typed DEF Owning
  <2>. QED  BY <2>2, RefundMoves DEF HandInv
<1>4. CASE pc'[w] = pc[w] /\ job'[w] = job[w]
  BY <1>1, <1>2, <1>3, <1>4, OrdersStay DEF Owning
<1>5. CASE pc'[w] = "idle" /\ job'[w] = NoJob
  BY <1>0, <1>2, <1>5 DEF Owning, OnCard
<1>6. CASE Begins(w)
  BY <1>2, <1>6, StartFollows DEF HandInv, Owning, OnCard, Starts
<1>7. CASE Asides(w)
  BY <1>0, <1>1, <1>2, <1>7, AsidesFollow DEF Owning, OnCard, Off
<1>8. CASE Work(w) /\ Carries(w) /\ Paths(w)
  <2>1. pc'[w] \in OnCard => job'[w].via # "cod"
    BY <1>1, <1>8 DEF Owning, Carries, Paths
  <2>2. pc'[w] = "noting" => refund'[job'[w].by] # 0
    <3>. SUFFICES ASSUME pc'[w] = "noting" PROVE refund'[job[w].by] # 0
      BY <1>8 DEF Carries
    <3>1. RefundBuyer(w)
      BY <1>8 DEF Paths
    <3>2. Owner(w)
      BY <1>1, <3>1, Refunds DEF Owner, Owning, Taken, OnCard
    <3>3. job[w].row # 0
      BY <1>1, <3>2, Typed DEF Owning
    <3>. QED  BY <3>1, <3>3, Refunds
  <2>3. pc'[w] \in {"redeeming", "recording", "completing"} => orders' # <<>>
    BY <1>1, <1>8, OrdersStay DEF Owning, Paths
  <2>4. pc'[w] \notin {"screening", "polling", "asking", "claiming", "switching"}
    BY <1>8 DEF Paths, Off
  <2>5. job'[w].via = "cod" => job'[w].by = Cash
    BY <1>1, <1>8 DEF Owning, Carries
  <2>. QED  BY <1>2, <2>1, <2>2, <2>3, <2>4, <2>5 DEF Owning
<1>. QED  BY <1>4, <1>5, <1>6, <1>7, <1>8, Whereabouts DEF HandInv

(* A handler that goes on, or answers, leaves no transaction behind.       *)
LEMMA HandedOn ==
  ASSUME Inv, HandInv, [Next]_vars, NEW w \in Worker, Owner(w), Work(w), orders' = <<>>
  PROVE  (Owner(w)' /\ job'[w].row = job[w].row) \/ rows'[job[w].row].status # "completed"
<1>1. /\ Owning(w) /\ (checkout = "completed" => orders # <<>>) /\ orders = <<>>
      /\ job[w].row \in DOMAIN rows
  BY OrdersStay DEF HandInv, Delivered, Owning
<1>2. /\ pc \in [Worker -> Point] /\ job \in [Worker -> Job] /\ job[w] \in Job /\ rows \in Seq(Row)
  BY Typed
<1>3. pc[w] \in Taken /\ job[w].via # "cod"
  BY DEF Owner
<1>4. CASE RevertRow(w) \/ NoteRefund(w)
  <2>1. PICK s \in {"pending", "refunded"} : rows' = [rows EXCEPT ![job[w].row].status = s]
    BY <1>4 DEF RevertRow, NoteRefund
  <2>2. rows'[job[w].row].status = s
    BY <1>1, <1>2, <2>1, Marked
  <2>. QED  BY <2>2
<1>5. CASE FailRow(w) \/ ForgetEvent(w) \/ ClaimRow(w) \/ CancelCheckout(w) \/ SwitchToCod(w)
  BY <1>3, <1>5 DEF FailRow, ForgetEvent, ClaimRow, CancelCheckout, SwitchToCod, Taken
<1>6. CASE CompleteCheckout(w) \/ AwaitWinner(w) \/ InsertOrder(w) \/ RecordOrders(w) \/ Redeem(w)
           \/ FailRedeem(w)
  BY <1>1, <1>6, OrdersStay DEF CompleteCheckout, AwaitWinner, InsertOrder, RecordOrders, Redeem,
       FailRedeem, Owning
<1>7. CASE CheckCheckout(w) \/ EnterPlacement(w) \/ GiveUp(w) \/ LookForOrders(w) \/ Reserve(w)
           \/ FailInsert(w) \/ Unclaim(w) \/ RefundBuyer(w) \/ FailRefund(w) \/ LoseRefund(w)
  <2>1. pc'[w] \in Taken
    <3>1. CASE CheckCheckout(w) \/ EnterPlacement(w) \/ GiveUp(w)
      BY <1>1, <1>2, <1>3, <3>1 DEF CheckCheckout, EnterPlacement, GiveUp, Goto, Taken
    <3>2. CASE LookForOrders(w) \/ Reserve(w) \/ FailInsert(w)
      BY <1>1, <1>2, <1>3, <3>2 DEF LookForOrders, Reserve, FailInsert, Goto, Taken
    <3>3. CASE Unclaim(w) \/ RefundBuyer(w) \/ FailRefund(w) \/ LoseRefund(w)
      BY <1>1, <1>2, <1>3, <3>3 DEF Unclaim, RefundBuyer, FailRefund, LoseRefund, Goto, Taken
    <3>. QED  BY <1>7, <3>1, <3>2, <3>3
  <2>2. Carries(w)
    BY <2>1, WorkCarries DEF Taken
  <2>3. pc[w] # "claiming"
    BY <1>3 DEF Taken
  <2>. QED  BY <1>3, <2>1, <2>2, <2>3 DEF Owner, Carries
<1>. QED  BY <1>4, <1>5, <1>6, <1>7 DEF Work

LEMMA FewOrphans ==
  ASSUME Inv
  PROVE  /\ IsFiniteSet(Orphans) /\ Cardinality(Orphans) \in Nat /\ crashes \in Nat
<1>1. IsFiniteSet(DOMAIN rows) /\ Orphans \in SUBSET DOMAIN rows
  BY Typed, FS_Interval DEF Orphans
<1>. QED  BY <1>1, FS_Subset, FS_CardinalityType DEF Inv, Bounded

(* Only a handler that dies leaves a transaction, and only its own.        *)
LEMMA OrphansFollow ==
  ASSUME Inv, Announced, HandInv, [Next]_vars, orders' = <<>>
  PROVE  \/ Orphans' \subseteq Orphans /\ crashes' >= crashes
         \/ \E k : Orphans' \subseteq Orphans \cup {k} /\ crashes' = crashes + 1
<1>1. Moves /\ crashes \in Nat
  BY RowsMove DEF Inv, Bounded
<1>2. ASSUME NEW k \in Orphans'
      PROVE  k \in DOMAIN rows /\ rows[k].status = "completed"
  <2>1. k \in DOMAIN rows' /\ rows'[k].status = "completed"
        /\ \A w \in Worker : ~(Owner(w)' /\ job'[w].row = k)
    BY <1>2 DEF Orphans
  <2>2. k \in DOMAIN rows
    BY <1>1, <2>1 DEF Moves
  <2>3. ~\E w \in Worker : Claimed(w, k)
    <3>. SUFFICES ASSUME NEW w \in Worker, Claimed(w, k) PROVE FALSE
      OBVIOUS
    <3>1. pc[w] = "claiming" /\ ClaimRow(w) /\ pc'[w] = "checking" /\ job'[w].row = k
      BY DEF Claimed, ClaimRow
    <3>2. job[w].via # "cod"
      BY <3>1 DEF HandInv, Owning
    <3>3. job'[w].via = job[w].via
      BY <3>1, WorkCarries DEF Work, Carries
    <3>. QED  BY <2>1, <3>1, <3>2, <3>3 DEF Owner, Taken
  <2>. QED  BY <1>1, <2>1, <2>2, <2>3 DEF Moves
<1>3. CASE \A w \in Worker : Owner(w) =>
              \/ Owner(w)' /\ job'[w].row = job[w].row
              \/ rows'[job[w].row].status # "completed"
  <2>1. Orphans' \subseteq Orphans
    BY <1>2, <1>3 DEF Orphans
  <2>2. UNCHANGED crashes \/ crashes' = crashes + 1
    BY Frames DEF Crash
  <2>. QED  BY <1>1, <2>1, <2>2
<1>4. ASSUME NEW w \in Worker, Work(w)
      PROVE  \A v \in Worker : Owner(v) =>
               \/ Owner(v)' /\ job'[v].row = job[v].row
               \/ rows'[job[v].row].status # "completed"
  BY <1>4, WorkFollows, HandedOn DEF Only, Owner
<1>5. ASSUME NEW w \in Worker, Begins(w) \/ Asides(w)
      PROVE  \A v \in Worker : Owner(v) => Owner(v)' /\ job'[v].row = job[v].row
  <2>1. ~Owner(w) /\ Only(w)
    BY <1>5, StartFollows, AsidesFollow DEF Owner, Taken, Off
  <2>. QED  BY <2>1 DEF Only, Owner
<1>6. CASE Rests
  BY <1>3, <1>6, RestFollows DEF Owner
<1>7. ASSUME NEW w \in Worker, Crash(w)
      PROVE  Orphans' \subseteq Orphans \cup {job[w].row} /\ crashes' = crashes + 1
  <2>1. \A v \in Worker \ {w} : Owner(v) => Owner(v)' /\ job'[v].row = job[v].row
    BY <1>7, WorkFollows DEF Only, Owner
  <2>2. Orphans' \subseteq Orphans \cup {job[w].row}
    BY <1>2, <2>1 DEF Orphans
  <2>. QED  BY <1>7, <2>2 DEF Crash
<1>. QED  BY <1>3, <1>4, <1>5, <1>6, <1>7, Steps

LEMMA MournedStays ==
  ASSUME Inv, Inv', Announced, HandInv, [Next]_vars
  PROVE  Mourned'
<1>. SUFFICES ASSUME orders' = <<>> PROVE Cardinality(Orphans') <= crashes'
  BY DEF Mourned
<1>1. Cardinality(Orphans) <= crashes
  BY OrdersStay DEF HandInv, Mourned
<1>2. /\ IsFiniteSet(Orphans) /\ Cardinality(Orphans) \in Nat /\ crashes \in Nat
      /\ IsFiniteSet(Orphans') /\ Cardinality(Orphans') \in Nat /\ crashes' \in Nat
  <2>1. IsFiniteSet(DOMAIN rows') /\ Orphans' \in SUBSET DOMAIN rows' /\ crashes' \in Nat
    <3>1. rows' \in Seq(Row) /\ crashes' \in Nat
      BY DEF Inv, TypeOK, Bounded, Row
    <3>2. DOMAIN rows' = 1 .. Len(rows') /\ Len(rows') \in Nat
      BY <3>1, LenProperties
    <3>. QED  BY <3>1, <3>2, FS_Interval DEF Orphans
  <2>. QED  BY <2>1, FewOrphans, FS_Subset, FS_CardinalityType
<1>3. CASE Orphans' \subseteq Orphans /\ crashes' >= crashes
  <2>1. Cardinality(Orphans') <= Cardinality(Orphans)
    BY <1>2, <1>3, FS_Subset
  <2>. QED  BY <1>1, <1>2, <1>3, <2>1
<1>4. ASSUME NEW k, Orphans' \subseteq Orphans \cup {k}, crashes' = crashes + 1
      PROVE  Cardinality(Orphans') <= crashes'
  <2>1. /\ IsFiniteSet(Orphans \cup {k})
        /\ Cardinality(Orphans \cup {k}) \in {Cardinality(Orphans), Cardinality(Orphans) + 1}
    BY <1>2, FS_AddElement
  <2>2. Cardinality(Orphans') <= Cardinality(Orphans \cup {k})
    BY <1>4, <2>1, FS_Subset
  <2>. QED  BY <1>1, <1>2, <1>4, <2>1, <2>2
<1>. QED  BY <1>3, <1>4, OrphansFollow

LEMMA HandStays == Inv /\ DealInv /\ HandInv /\ [Next]_vars => HandInv'
<1>. SUFFICES ASSUME Inv, DealInv, HandInv, [Next]_vars PROVE HandInv'
  OBVIOUS
<1>1. Inv' /\ Moves /\ Announced
  BY Inductive, RowsMove DEF DealInv
<1>2. Known'
  <2>. SUFFICES ASSUME NEW i \in Total, intent'[i] # "none" PROVE RowsOf(i)' # {}
    BY DEF Known
  <2>1. CASE RowsOf(i) # {}
    BY <1>1, <2>1 DEF RowsOf, Moves
  <2>2. CASE intent[i] = "none"
    BY <2>2, IntentMoves
  <2>. QED  BY <2>1, <2>2 DEF HandInv, Known
<1>3. Returned'
  <2>. SUFFICES ASSUME NEW k \in DOMAIN rows', rows'[k].status = "refunded"
                PROVE  refund'[rows'[k].intent] # 0
    BY DEF Returned
  <2>1. k \in DOMAIN rows /\ rows'[k].intent = rows[k].intent /\ rows[k].intent \in Total
    BY <1>1, Typed DEF Moves
  <2>2. refund[rows[k].intent] # 0
    <3>1. CASE rows[k].status = "refunded"
      BY <2>1, <3>1 DEF HandInv, Returned
    <3>2. ASSUME NEW w \in Worker, NoteRefund(w), job[w].row = k
          PROVE  refund[rows[k].intent] # 0
      <4>1. pc[w] = "noting" /\ Owning(w)
        BY <3>2 DEF NoteRefund, HandInv
      <4>2. Owner(w)
        BY <4>1 DEF Owning, Owner, Taken, OnCard
      <4>. QED  BY <3>2, <4>1, <4>2 DEF Owning
    <3>. QED  BY <1>1, <2>1, <3>1, <3>2 DEF Moves
  <2>. QED  BY <2>1, <2>2, RefundMoves DEF HandInv
<1>4. Delivered'
  <2>1. CASE checkout' \in {checkout, "open", "cancelled"}
    BY <2>1, OrdersStay DEF HandInv, Delivered
  <2>2. CASE \E w \in Worker : CompleteCheckout(w)
    BY <2>2, OrdersStay DEF HandInv, Owning, CompleteCheckout, Delivered
  <2>. QED  BY <2>1, <2>2, Frames
<1>. QED  BY <1>1, <1>2, <1>3, <1>4, MournedStays, OwningStays DEF HandInv

LEMMA HandStarts == Init => HandInv
<1>. SUFFICES ASSUME Init PROVE HandInv
  OBVIOUS
<1>1. /\ DOMAIN rows = {1} /\ rows[1].intent = total /\ rows[1].status = "pending"
      /\ orders = <<>> /\ checkout = "open" /\ crashes = 0
      /\ \A w \in Worker : pc[w] = "idle"
  BY DEF Init
<1>2. Known
  BY <1>1 DEF Init, Known, RowsOf
<1>3. Returned /\ Delivered
  BY <1>1 DEF Returned, Delivered
<1>4. Orphans = {}
  BY <1>1 DEF Orphans
<1>5. Mourned
  BY <1>1, <1>4, FS_EmptySet DEF Mourned
<1>6. \A w \in Worker : Owning(w)
  BY <1>1 DEF Init, NoJob, Owning, Owner, Taken, OnCard
<1>. QED  BY <1>2, <1>3, <1>5, <1>6 DEF HandInv

(* A payment nobody answers for has a transaction left by a handler that   *)
(* died, and no transaction is of two payments.                            *)
LEMMA InHand == Inv /\ HandInv => PaidIsInHand
<1>. SUFFICES ASSUME Inv, HandInv, orders = <<>>
              PROVE  Cardinality({i \in Total : Lost(i)}) <= crashes
  BY DEF PaidIsInHand
<1>. DEFINE L == {i \in Total : Lost(i)}
            f == [i \in L |-> CHOOSE k \in Orphans : rows[k].intent = i]
<1>1. ASSUME NEW i \in L PROVE \E k \in Orphans : rows[k].intent = i
  <2>1. Lost(i) /\ i \in Total /\ intent[i] = "succeeded"
    BY DEF Lost
  <2>2. RowsOf(i) # {}
    BY <2>1 DEF HandInv, Known
  <2>3. PICK k \in RowsOf(i) : rows[k].status # "failed"
    BY <2>1, <2>2 DEF Lost
  <2>4. k \in DOMAIN rows /\ rows[k].intent = i /\ rows[k].status # "pending"
    BY <2>1 DEF Lost, RowsOf
  <2>5. rows[k].status # "refunded"
    BY <2>1, <2>4 DEF HandInv, Returned, Lost
  <2>6. rows[k].status = "completed"
    BY <2>3, <2>4, <2>5, Typed DEF Row
  <2>7. ASSUME NEW w \in Worker, Owner(w), job[w].row = k PROVE FALSE
    <3>1. job[w].by = i
      BY <2>4, <2>7 DEF HandInv, Owning
    <3>2. AtPayment(w, i)
      BY <2>7, <3>1 DEF AtPayment, Owner, Taken, Point
    <3>. QED  BY <2>1, <3>2 DEF Lost
  <2>. QED  BY <2>4, <2>6, <2>7 DEF Orphans
<1>2. \A i \in L : f[i] \in Orphans /\ rows[f[i]].intent = i
  <2>. SUFFICES ASSUME NEW i \in L PROVE f[i] \in Orphans /\ rows[f[i]].intent = i
    OBVIOUS
  <2>1. f[i] = CHOOSE k \in Orphans : rows[k].intent = i
    OBVIOUS
  <2>. HIDE DEF f, L
  <2>. QED  BY <1>1, <2>1
<1>3. f \in [L -> Orphans]
  <2>1. f = [i \in L |-> f[i]]
    OBVIOUS
  <2>. HIDE DEF f, L
  <2>. QED  BY <1>2, <2>1
<1>4. f \in Injection(L, Orphans)
  <2>. HIDE DEF f, L
  <2>. QED  BY <1>2, <1>3 DEF Injection, IsInjective
<1>. HIDE DEF f, L
<1>5. Cardinality(L) <= Cardinality(Orphans) /\ IsFiniteSet(L)
  BY <1>4, FewOrphans, FS_Injection
<1>6. Cardinality(L) <= crashes
  BY <1>5, FewOrphans, FS_CardinalityType DEF HandInv, Mourned
<1>. QED  BY <1>6 DEF L

-----------------------------------------------------------------------------
(* No transaction ends in an order and in a refund.                        *)

(* A transaction in hand is not to be claimed, and nobody else has it.     *)
Sole(w) ==
  Owner(w) =>
    /\ rows[job[w].row].status # "pending"
    /\ \A v \in Worker \ {w} : Owner(v) => job[v].row # job[w].row

(* Who found the stock sold out has placed nothing and gives up, whatever  *)
(* comes back meanwhile; only such a handler refunds.                      *)
Barren(w) ==
  /\ pc[w] = "refunding" => job[w].soldOut
  /\ job[w].soldOut => pc[w] \in Fruitless
  /\ Owner(w) /\ job[w].soldOut =>
       \A k \in DOMAIN orders : orders[k].by # Cash => orders[k].row # job[w].row

(* A transaction the payment went back for is done with, unless nobody     *)
(* heard of the refund.                                                    *)
Settled(i) ==
  refund[i] # 0 =>
    /\ refund[i] \in DOMAIN rows
    /\ i \notin unheard =>
         /\ rows[refund[i]].status # "pending"
         /\ \A w \in Worker : Owner(w) /\ job[w].row = refund[i] => pc[w] = "noting"

ApartInv ==
  /\ \A w \in Worker : Sole(w) /\ Barren(w)
  /\ \A i \in Total : Settled(i)
  /\ OrderOrRefund
AllInv == Inv /\ DealInv /\ HandInv /\ ApartInv

(* A handler that gives its transaction back has it in hand, and then not. *)
LEMMA Reverted ==
  ASSUME Inv, NEW w \in Worker, Owning(w), RevertRow(w)
  PROVE  Owner(w) /\ pc[w] = "reverting" /\ ~Owner(w)'
<1>1. pc[w] = "reverting" /\ pc \in [Worker -> Point]
  BY Typed DEF RevertRow
<1>2. pc'[w] \in {"forgetting", "idle"}
  BY <1>1 DEF RevertRow, Goto, Stop
<1>. QED  BY <1>1, <1>2 DEF Owner, Owning, OnCard, Taken

LEMMA SoleStays ==
  ASSUME AllInv, [Next]_vars, NEW w \in Worker
  PROVE  Sole(w)'
<1>. SUFFICES ASSUME Owner(w)'
              PROVE  /\ rows'[job'[w].row].status # "pending"
                     /\ \A v \in Worker \ {w} : Owner(v)' => job'[v].row # job'[w].row
  BY DEF Sole
<1>. DEFINE r == job'[w].row
<1>1. Inv /\ Announced /\ Moves /\ \A v \in Worker : Owning(v) /\ Sole(v)
  BY RowsMove DEF AllInv, DealInv, HandInv, ApartInv
<1>2. \A v \in Worker : Owner(v)' => Continues(v) \/ Claimed(v, job'[v].row)
  BY <1>1, OwnerOrigin
<1>3. CASE Continues(w)
  <2>1. Owner(w) /\ r = job[w].row /\ r \in DOMAIN rows /\ rows[r].status # "pending"
    BY <1>1, <1>3 DEF Continues, Owning, Sole
  <2>2. rows'[r].status # "pending"
    <3>1. ASSUME NEW v \in Worker, RevertRow(v), job[v].row = r
          PROVE  FALSE
      <4>1. Owner(v) /\ ~Owner(v)'
        BY <1>1, <3>1, Reverted
      <4>. QED  BY <1>1, <2>1, <3>1, <4>1 DEF Sole
    <3>. QED  BY <1>1, <2>1, <3>1 DEF Moves
  <2>3. ASSUME NEW v \in Worker \ {w}, Owner(v)', job'[v].row = r
        PROVE  FALSE
    <3>1. CASE Continues(v)
      BY <1>1, <2>1, <2>3, <3>1 DEF Continues, Sole
    <3>2. CASE Claimed(v, r)
      BY <2>1, <3>2 DEF Claimed
    <3>. QED  BY <1>2, <2>3, <3>1, <3>2
  <2>. QED  BY <2>2, <2>3
<1>4. CASE Claimed(w, r)
  <2>1. rows[r].status = "pending" /\ rows'[r].status = "completed" /\ ClaimRow(w)
    BY <1>4 DEF Claimed
  <2>2. ASSUME NEW v \in Worker \ {w}, Owner(v)', job'[v].row = r
        PROVE  FALSE
    <3>1. CASE Continues(v)
      BY <1>1, <2>1, <2>2, <3>1 DEF Continues, Sole
    <3>2. CASE Claimed(v, r)
      <4>1. pc'[v] = pc[v]
        BY <1>1, <2>1, WorkFollows DEF Work, Only
      <4>. QED  BY <3>2, <4>1 DEF Claimed, ClaimRow
    <3>. QED  BY <1>2, <2>2, <3>1, <3>2
  <2>. QED  BY <2>1, <2>2
<1>. QED  BY <1>2, <1>3, <1>4

(* A step that places an order for a card payment has its transaction.     *)
LEMMA OrdersOf ==
  ASSUME Inv, NEW w \in Worker, Owning(w), InsertOrder(w), job[w].by # Cash
  PROVE  Owner(w) /\ job[w].by \in Total /\ job[w].row \in DOMAIN rows /\ job[w].row # 0
<1>1. pc[w] = "inserting" /\ job[w] \in Job
  BY InsertFollows
<1>2. Owner(w) /\ job[w].by \in Total
  BY <1>1 DEF Owner, Owning, Taken, Job
<1>. QED  BY <1>2, Typed DEF Owning

LEMMA BarrenStays ==
  ASSUME AllInv, [Next]_vars, NEW w \in Worker
  PROVE  Barren(w)'
<1>0. Inv /\ Announced /\ Barren(w) /\ \A v \in Worker : Owning(v) /\ Sole(v)
  BY DEF AllInv, DealInv, HandInv, ApartInv
<1>1. /\ pc'[w] = "refunding" => job'[w].soldOut
      /\ job'[w].soldOut => pc'[w] \in Fruitless /\ (job[w].soldOut \/ Reserve(w))
  <2>0. NoJob.soldOut = FALSE
    BY DEF NoJob
  <2>1. CASE (pc'[w] = pc[w] /\ job'[w] = job[w]) \/ (pc'[w] = "idle" /\ job'[w] = NoJob)
    BY <1>0, <2>0, <2>1 DEF Barren
  <2>2. CASE Begins(w)
    BY <1>0, <2>2, StartFollows DEF Starts
  <2>3. CASE Asides(w)
    BY <1>0, <2>0, <2>3, AsidesFollow DEF Barren, Off, Fruitless
  <2>4. CASE Work(w) /\ Carries(w) /\ Paths(w)
    BY <1>0, <2>4 DEF Paths, Barren, Fruitless
  <2>. QED  BY <1>0, <2>1, <2>2, <2>3, <2>4, Whereabouts
<1>2. ASSUME Owner(w)', job'[w].soldOut, NEW k \in DOMAIN orders', orders'[k].by # Cash
      PROVE  orders'[k].row # job'[w].row
  <2>1. CASE Reserve(w)
    <3>1. orders = <<>> /\ UNCHANGED orders
      BY <1>0, <2>1 DEF Reserve, Inv, Placement
    <3>. QED  BY <1>2, <3>1, EmptySeq
  <2>2. CASE job[w].soldOut
    <3>1. ~Claimed(w, job'[w].row)
      BY <1>1, <1>2 DEF Claimed, Fruitless
    <3>2. Owner(w) /\ job'[w].row = job[w].row
      BY <1>0, <1>2, <3>1, OwnerOrigin DEF Continues
    <3>3. k \in DOMAIN orders /\ orders'[k] = orders[k] => orders'[k].row # job'[w].row
      BY <1>0, <1>2, <2>2, <3>2 DEF Barren
    <3>4. ASSUME NEW v \in Worker, InsertOrder(v), k \notin DOMAIN orders
          PROVE  orders'[k].row # job'[w].row
      <4>1. k = Len(orders) + 1 /\ pc[v] = "inserting"
        BY <1>0, <1>2, <3>4, InsertFollows
      <4>2. orders'[k].by = job[v].by /\ orders'[k].row = job[v].row
        BY <1>0, <3>4, <4>1, InsertFollows DEF Deal, JobDeal
      <4>3. Owner(v)
        BY <1>0, <1>2, <3>4, <4>2, OrdersOf
      <4>4. v # w
        BY <1>0, <2>2, <4>1 DEF Barren, Fruitless
      <4>. QED  BY <1>0, <3>2, <4>2, <4>3, <4>4 DEF Sole
    <3>. QED  BY <1>0, <1>2, <3>3, <3>4, Frames, InsertFollows
  <2>. QED  BY <1>1, <1>2, <2>1, <2>2
<1>. QED  BY <1>1, <1>2 DEF Barren

LEMMA SettledStays ==
  ASSUME AllInv, [Next]_vars, NEW i \in Total
  PROVE  Settled(i)'
<1>. SUFFICES ASSUME refund'[i] # 0 PROVE
       /\ refund'[i] \in DOMAIN rows'
       /\ i \notin unheard' =>
            /\ rows'[refund'[i]].status # "pending"
            /\ \A w \in Worker : Owner(w)' /\ job'[w].row = refund'[i] => pc'[w] = "noting"
  BY DEF Settled
<1>. DEFINE r == refund'[i]
<1>1. Inv /\ Announced /\ Moves /\ Settled(i) /\ \A v \in Worker : Owning(v) /\ Sole(v)
  BY RowsMove DEF AllInv, DealInv, HandInv, ApartInv
<1>2. CASE r = refund[i]
  <2>1. r \in DOMAIN rows /\ r \in DOMAIN rows'
    BY <1>1, <1>2 DEF Settled, Moves
  <2>2. ASSUME i \notin unheard'
        PROVE  /\ rows'[r].status # "pending"
               /\ \A w \in Worker : Owner(w)' /\ job'[w].row = r => pc'[w] = "noting"
    <3>1. i \notin unheard
      BY <1>1, <2>2, RefundMoves
    <3>2. /\ rows[r].status # "pending"
          /\ \A w \in Worker : Owner(w) /\ job[w].row = r => pc[w] = "noting"
      BY <1>1, <1>2, <3>1 DEF Settled
    <3>3. rows'[r].status # "pending"
      <4>1. ASSUME NEW v \in Worker, RevertRow(v), job[v].row = r
            PROVE  FALSE
        BY <1>1, <3>2, <4>1, Reverted
      <4>. QED  BY <1>1, <2>1, <3>2, <4>1 DEF Moves
    <3>4. ASSUME NEW w \in Worker, Owner(w)', job'[w].row = r
          PROVE  pc'[w] = "noting"
      <4>1. ~Claimed(w, r)
        BY <3>2 DEF Claimed
      <4>2. /\ Owner(w) /\ job[w].row = r
            /\ pc'[w] = pc[w] \/ Paths(w)
        BY <1>1, <3>4, <4>1, OwnerOrigin DEF Continues
      <4>3. pc[w] = "noting" /\ pc'[w] \in Taken
        BY <3>2, <3>4, <4>2 DEF Owner
      <4>. QED  BY <4>2, <4>3 DEF Paths, Taken
    <3>. QED  BY <3>3, <3>4
  <2>. QED  BY <2>1, <2>2
<1>3. ASSUME NEW w \in Worker, RefundBuyer(w) \/ (LoseRefund(w) /\ i \in unheard'),
             i = job[w].by, Owner(w), r = job[w].row, r \in DOMAIN rows, UNCHANGED <<rows, job>>
      PROVE  /\ r \in DOMAIN rows'
             /\ i \notin unheard' =>
                  /\ rows'[r].status # "pending"
                  /\ \A v \in Worker : Owner(v)' /\ job'[v].row = r => pc'[v] = "noting"
  <2>1. ASSUME RefundBuyer(w), NEW v \in Worker, Owner(v)', job'[v].row = r
        PROVE  pc'[v] = "noting"
    <3>1. CASE v = w
      BY <1>1, <2>1, <3>1, Refunds, Typed
    <3>2. CASE v # w
      <4>1. pc'[v] = pc[v]
        BY <1>1, <2>1, <3>2, WorkFollows DEF Work, Only
      <4>2. Owner(v) /\ job[v].row = r
        BY <1>3, <2>1, <4>1 DEF Owner
      <4>. QED  BY <1>1, <1>3, <3>2, <4>2 DEF Sole
    <3>. QED  BY <3>1, <3>2
  <2>2. rows'[r].status # "pending"
    BY <1>1, <1>3 DEF Sole
  <2>. QED  BY <1>3, <2>1, <2>2
<1>. QED  BY <1>1, <1>2, <1>3, RefundMoves

LEMMA ApartStays ==
  ASSUME AllInv, [Next]_vars
  PROVE  OrderOrRefund'
<1>. SUFFICES ASSUME NEW k \in DOMAIN orders', orders'[k].by # Cash,
                     refund'[orders'[k].by] = orders'[k].row
              PROVE  orders'[k].by \in unheard'
  BY DEF OrderOrRefund
<1>. DEFINE b == orders'[k].by
<1>1. /\ Inv /\ OrderOrRefund /\ (\A v \in Worker : Owning(v) /\ Barren(v))
      /\ \A i \in Total : Settled(i)
  BY DEF AllInv, DealInv, HandInv, ApartInv
<1>2. CASE k \in DOMAIN orders /\ orders'[k] = orders[k]
  <2>1. b \in Total /\ b = orders[k].by
    BY <1>1, <1>2, OrdersTyped DEF Order
  <2>2. CASE refund'[b] = refund[b]
    BY <1>1, <1>2, <2>1, <2>2, RefundMoves DEF OrderOrRefund
  <2>3. ASSUME NEW w \in Worker, RefundBuyer(w), Owner(w), pc[w] = "refunding",
               refund'[b] = job[w].row
        PROVE  FALSE
    <3>1. job[w].soldOut
      BY <1>1, <2>3 DEF Barren
    <3>. QED  BY <1>1, <1>2, <2>3, <3>1 DEF Barren
  <2>. QED  BY <1>1, <2>1, <2>2, <2>3, RefundMoves
<1>3. ASSUME NEW w \in Worker, InsertOrder(w), k \notin DOMAIN orders
      PROVE  b \in unheard'
  <2>1. k = Len(orders) + 1 /\ pc[w] = "inserting" /\ UNCHANGED <<refund, unheard>>
    BY <1>1, <1>3, InsertFollows
  <2>2. orders'[k].by = job[w].by /\ orders'[k].row = job[w].row
    BY <1>1, <1>3, <2>1, InsertFollows DEF Deal, JobDeal
  <2>3. Owner(w) /\ b \in Total /\ job[w].row # 0
    BY <1>1, <1>3, <2>2, OrdersOf
  <2>. QED  BY <1>1, <2>1, <2>2, <2>3 DEF Settled
<1>. QED  BY <1>1, <1>2, <1>3, Frames, InsertFollows

LEMMA ApartInitially == Init => ApartInv
<1>. SUFFICES ASSUME Init PROVE ApartInv
  OBVIOUS
<1>1. /\ DOMAIN orders = {} /\ (\A w \in Worker : pc[w] = "idle" /\ ~job[w].soldOut)
      /\ \A i \in Total : refund[i] = 0
  BY EmptySeq DEF Init, NoJob
<1>. QED  BY <1>1 DEF ApartInv, Sole, Barren, Settled, OrderOrRefund, Owner, Taken

LEMMA AllInvariant == Spec => []AllInv
<1>1. Init => AllInv
  BY Initially, DealInitially, HandStarts, ApartInitially DEF AllInv
<1>2. AllInv /\ [Next]_vars => AllInv'
  <2>. SUFFICES ASSUME AllInv, [Next]_vars PROVE AllInv'
    OBVIOUS
  <2>1. Inv' /\ DealInv' /\ HandInv'
    BY Inductive, DealInductive, HandStays DEF AllInv
  <2>2. ApartInv'
    BY SoleStays, BarrenStays, SettledStays, ApartStays DEF ApartInv
  <2>. QED  BY <2>1, <2>2 DEF AllInv
<1>. QED  BY <1>1, <1>2, PTL DEF Spec

(* No transaction is both ordered and refunded unless the answer to the    *)
(* refund was lost, whatever other people do to the stock: a transaction   *)
(* is one handler's at a time, a handler that found the stock sold out     *)
(* has placed nothing and gives up, and a transaction that was refunded is *)
(* never pending again.                                                    *)
THEOREM NeverBoth == Spec => []OrderOrRefund
<1>1. AllInv => OrderOrRefund
  BY DEF AllInv, ApartInv
<1>. QED  BY <1>1, AllInvariant, PTL

-----------------------------------------------------------------------------
(* The handlers together are one clerk.                                    *)

Paid == {i \in Total : intent[i] = "succeeded"}
Deals == {[by |-> orders[k].by, attempt |-> orders[k].row, total |-> orders[k].total] : k \in DOMAIN orders}

LEMMA ClerkInit == Init => Clerk!Init
<1>. SUFFICES ASSUME Init PROVE Clerk!Init
  OBVIOUS
<1>1. DOMAIN orders = {}
  BY EmptySeq DEF Init
<1>2. Paid = {}
  BY DEF Init, Paid
<1>. QED  BY <1>1, <1>2 DEF Init, Clerk!Init, Paid, OrderedParts

LEMMA ClerkPays ==
  ASSUME Inv, [Next]_vars, NEW i \in Total, Pay(i)
  PROVE  Clerk!Pay(i)
<1>1. UNCHANGED <<refund, unheard, orders>> /\ intent[i] = "open"
      /\ intent' = [intent EXCEPT ![i] = "succeeded"]
  BY DEF Pay
<1>2. i \notin Paid /\ Paid' = Paid \cup {i}
  BY <1>1, Typed DEF Paid
<1>3. UNCHANGED <<Deals, OrderedParts>>
  BY <1>1 DEF Deals, OrderedParts
<1>. QED  BY <1>1, <1>2, <1>3 DEF Clerk!Pay, Paid, Deals

(* What the clerk does not see.                                            *)
LEMMA ClerkRests ==
  ASSUME Inv, [Next]_vars, UNCHANGED <<orders, refund, unheard>>, \A i \in Total : ~Pay(i)
  PROVE  UNCHANGED Clerk!vars
<1>1. UNCHANGED Paid
  BY IntentMoves DEF Paid, Funded
<1>2. UNCHANGED <<Deals, OrderedParts>>
  BY DEF Deals, OrderedParts
<1>. QED  BY <1>1, <1>2 DEF Clerk!vars, Paid, Deals

(* Money that goes back a second time for its transaction went back        *)
(* unheard the first time.                                                 *)
LEMMA ClerkReturns ==
  ASSUME AllInv, [Next]_vars, NEW w \in Worker, RefundBuyer(w) \/ LoseRefund(w)
  PROVE  [Clerk!Next]_Clerk!vars
<1>. DEFINE i == job[w].by
            a == job[w].row
<1>0. Inv /\ Backed /\ Barren(w) /\ Owning(w)
  BY DEF AllInv, DealInv, HandInv, ApartInv
<1>1. /\ pc[w] = "refunding" /\ i \in Total /\ refund[i] \in {0, a} /\ UNCHANGED <<intent, orders>>
      /\ refund \in [Total -> 0 .. MaxRows]
      /\ refund' = [refund EXCEPT ![i] = a]
      /\ unheard' \in {unheard, unheard \cup {i}}
  BY <1>0, Refunds, Typed
<1>2. Owner(w)
  BY <1>0, <1>1 DEF Owner, Owning, Taken, OnCard
<1>3. a \in DOMAIN rows /\ a \in 1 .. MaxRows
  BY <1>0, <1>2, Typed, SettlementAssumption DEF Owning, Inv, Bounded
<1>4. UNCHANGED <<Paid, Deals, OrderedParts>>
  BY <1>1 DEF Paid, Deals, OrderedParts
<1>5. CASE refund[i] = 0
  <2>1. i \in Paid
    BY <1>0, <1>1 DEF Backed, Busy, Funded, Paid
  <2>2. \A d \in Deals : d.by = i => d.attempt # a
    <3>1. job[w].soldOut /\ i # Cash
      BY <1>0, <1>1, SettlementAssumption DEF Barren
    <3>. QED  BY <1>0, <1>2, <3>1 DEF Barren, Deals
  <2>3. Clerk!Return(i, a)
    BY <1>1, <1>4, <1>5, <2>1, <2>2 DEF Clerk!Return, Paid, Deals
  <2>. QED  BY <1>1, <1>3, <2>3 DEF Clerk!Next
<1>6. CASE refund[i] = a
  <2>1. a # 0
    BY <1>3
  <2>2. i \in unheard
    BY <1>1, <1>2, <1>6, <2>1 DEF AllInv, ApartInv, Settled
  <2>3. UNCHANGED <<refund, unheard>>
    BY <1>1, <1>6, <2>2
  <2>. QED  BY <1>4, <2>3 DEF Clerk!vars, Paid, Deals
<1>. QED  BY <1>1, <1>5, <1>6

LEMMA ClerkPlaces ==
  ASSUME AllInv, [Next]_vars, NEW w \in Worker, InsertOrder(w)
  PROVE  \E p \in Part, d \in Clerk!Deal : Clerk!Place(p, d)
<1>. DEFINE p == NextPart(w)
            d == JobDeal(w)
            n == Len(orders) + 1
<1>0. /\ Inv /\ Backed /\ ByOne /\ Owning(w)
      /\ \A i \in Total : Settled(i)
  BY DEF AllInv, DealInv, HandInv, ApartInv
<1>1. /\ pc[w] = "inserting" /\ p \in Part \ OrderedParts /\ UNCHANGED <<intent, refund, unheard>>
      /\ job[w] \in Job /\ job[w].total \in Total
      /\ DOMAIN orders' = DOMAIN orders \cup {n}
      /\ \A k \in DOMAIN orders : orders'[k] = orders[k]
      /\ orders'[n].part = p
  BY <1>0, InsertFollows
<1>2. d \in Clerk!Deal
  BY <1>1 DEF Clerk!Deal, JobDeal, Job
<1>3. Deals \subseteq {d}
  BY <1>0, <1>1 DEF ByOne, Deals, Deal
<1>4. d.by = Cash \/ (d.by \in Paid /\ (refund[d.by] # d.attempt \/ d.by \in unheard))
  <2>. SUFFICES ASSUME job[w].by # Cash
                PROVE  /\ job[w].by \in Paid
                       /\ refund[job[w].by] # job[w].row \/ job[w].by \in unheard
    BY DEF JobDeal
  <2>1. Owner(w) /\ job[w].by \in Total /\ job[w].row # 0
    BY <1>0, OrdersOf
  <2>2. job[w].by \in Paid
    BY <1>0, <1>1, <2>1 DEF Backed, Busy, Funded, Paid
  <2>. QED  BY <1>0, <1>1, <2>1, <2>2 DEF Settled
<1>5. OrderedParts' = OrderedParts \cup {p}
  <2>. HIDE DEF n, p
  <2>. QED  BY <1>1 DEF OrderedParts
<1>6. Deals' = {d}
  <2>1. [by |-> orders'[n].by, attempt |-> orders'[n].row, total |-> orders'[n].total] = d
    BY <1>0, InsertFollows DEF Deal
  <2>2. \A k \in DOMAIN orders :
          [by |-> orders'[k].by, attempt |-> orders'[k].row, total |-> orders'[k].total] \in Deals
    BY <1>1 DEF Deals
  <2>. HIDE DEF d, n
  <2>. QED  BY <1>1, <1>3, <2>1, <2>2 DEF Deals
<1>7. UNCHANGED Paid
  BY <1>1 DEF Paid
<1>8. PICK c, e : c = p /\ e = d
  OBVIOUS
<1>9. Clerk!Place(c, e) /\ c \in Part /\ e \in Clerk!Deal
  <2>. HIDE DEF p, d
  <2>. QED  BY <1>1, <1>2, <1>3, <1>4, <1>5, <1>6, <1>7, <1>8 DEF Clerk!Place, Paid, Deals
<1>. QED  BY <1>9

LEMMA ClerkStep == AllInv /\ [Next]_vars => [Clerk!Next]_Clerk!vars
<1>. SUFFICES ASSUME AllInv, [Next]_vars PROVE [Clerk!Next]_Clerk!vars
  OBVIOUS
<1>0. Inv
  BY DEF AllInv
<1>1. CASE \E i \in Total : Pay(i)
  BY <1>0, <1>1, ClerkPays DEF Clerk!Next
<1>2. CASE \E w \in Worker : RefundBuyer(w) \/ LoseRefund(w)
  BY <1>2, ClerkReturns
<1>3. CASE \E w \in Worker : InsertOrder(w)
  BY <1>3, ClerkPlaces DEF Clerk!Next
<1>4. CASE UNCHANGED <<orders, refund, unheard>> /\ \A i \in Total : ~Pay(i)
  BY <1>0, <1>4, ClerkRests
<1>. QED  BY <1>1, <1>2, <1>3, <1>4, Frames

(* Handlers that race, repeat and die keep the promise of a single clerk:  *)
(* every step is the buyer's payment, an order placed for a payment that   *)
(* succeeded, through the transaction and at the total of the orders       *)
(* before it, money returned for a transaction that placed none, or        *)
(* nothing the buyer sees.                                                 *)
THEOREM OneClerk == Spec => SettlementSpec
BY AllInvariant, ClerkInit, ClerkStep, PTL DEF Spec, SettlementSpec, Clerk!Spec

(* A payment that succeeded always has an answer under way: a handler at   *)
(* work, or a transaction the next delivery or the page finds, or one that *)
(* was given up.  A claim that fails, is lost to another handler, finds    *)
(* the stock sold out or its refund refused hands the payment on; only the *)
(* death of a handler loses one, and one death loses one payment.          *)
THEOREM PaidMoneyKept == Spec => []PaidIsInHand
<1>1. AllInv => PaidIsInHand
  BY InHand DEF AllInv
<1>. QED  BY <1>1, AllInvariant, PTL
=============================================================================
