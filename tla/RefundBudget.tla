---------------------------- MODULE RefundBudget ----------------------------
(***************************************************************************)
(* Every way money goes back to the buyer of one paid sub-order: its items *)
(* are cancelled, the seller refunds an amount, a received return is       *)
(* refunded, a refund request is approved.  All of them take what they     *)
(* refund from one running total in the order document by compare-and-set, *)
(* then claim what they refund, then write the ledger, then pay.           *)
(*                                                                         *)
(* Every access to the order document, the ledger and the payment provider *)
(* is one action; requests interleave between any two of them, and one     *)
(* that never takes its next step is one whose process died there.         *)
(***************************************************************************)
EXTENDS Tally

CONSTANTS
  Request,     \* concurrent calls
  Line,        \* lines of the sub-order
  Price,       \* of a line, with its tax
  Cap,         \* subtotal + taxAmount
  Legacy,      \* refunded before `refundedTotal` existed
  Requested,   \* the lines of the one refund request under review
  Attempts,    \* compare-and-set attempts (5 in the code)
  MayCall      \* the calls a request may turn out to be

Kinds == {"cancel", "manual", "return", "approve"}
Call == [kind : Kinds, lines : SUBSET Line, amount : Nat, toCredit : BOOLEAN]

ASSUME BudgetAssumption ==
  /\ IsFiniteSet(Request) /\ IsFiniteSet(Line)
  /\ Price \in [Line -> Nat \ {0}]
  /\ Cap \in Nat /\ Legacy \in 0 .. Cap
  /\ Requested \subseteq Line
  /\ Attempts \in Nat \ {0}
  /\ MayCall \in [Request -> SUBSET Call]
  /\ \A r \in Request : \A c \in MayCall[r] :
       /\ c.kind = "manual" => c.amount > 0
       /\ c.kind # "manual" => c.lines # {}
       /\ c.kind = "approve" => c.lines = Requested
       /\ c.toCredit => c.kind \in {"manual", "return"}

VARIABLES
  refundedTotal, recorded,  \* the running total, and whether it is in the document yet
  updatedAt,                \* the document's clock
  itemStatus, returnStatus, \* of a line
  marked,                   \* lines whose `refundedAmount` is not zero
  manualRefunded,           \* `manualRefundedAmount`
  reviewed,                 \* the refund request: "pending" or "approved"
  lots,                     \* idempotency keys of the store credit issued
  pc, call,                 \* the calls' progress and arguments
  snapshot, seen, tries,    \* what a call read: of the order, of the total; attempts made
  granted, debited, paid    \* what a call holds, took from the seller, gave the buyer

orderVars == <<refundedTotal, recorded, updatedAt, itemStatus, returnStatus, marked, manualRefunded>>
moneyVars == <<lots, debited, paid>>
localVars == <<call, snapshot, seen, tries, granted>>
vars == <<orderVars, reviewed, moneyVars, localVars, pc>>

Step == {"idle", "reading", "comparing", "claiming", "debiting", "crediting",
         "paying", "closing", "releasing", "done", "failed"}
NothingRead == [updatedAt |-> 0, marked |-> {}, manualRefunded |-> 0]
NoTotal == [total |-> 0, recorded |-> FALSE]

(* The order is either still with the seller or delivered, with every      *)
(* line returned and received.                                             *)
Init ==
  /\ refundedTotal = Legacy /\ recorded = FALSE
  /\ updatedAt = 0
  /\ \E delivered \in BOOLEAN :
       /\ itemStatus = [l \in Line |-> IF delivered THEN "delivered" ELSE "pending"]
       /\ returnStatus = [l \in Line |-> IF delivered THEN "received" ELSE "none"]
       /\ reviewed = IF delivered THEN "pending" ELSE "none"
  /\ marked = {}
  /\ manualRefunded = 0
  /\ lots = {}
  /\ pc = [r \in Request |-> "idle"]
  /\ call \in [Request -> UNION {MayCall[r] : r \in Request}]
  /\ \A r \in Request : call[r] \in MayCall[r]
  /\ snapshot = [r \in Request |-> NothingRead]
  /\ seen = [r \in Request |-> NoTotal]
  /\ tries = [r \in Request |-> 0]
  /\ granted = [r \in Request |-> 0]
  /\ debited = [r \in Request |-> 0]
  /\ paid = [r \in Request |-> 0]

Goto(r, s) == pc' = [pc EXCEPT ![r] = s]
Touch == updatedAt' = updatedAt + 1

-----------------------------------------------------------------------------
(* The handlers read the order.                                            *)

ReadOrder(r) ==
  /\ pc[r] = "idle"
  /\ snapshot' = [snapshot EXCEPT ![r] = [updatedAt |-> updatedAt, marked |-> marked,
                                          manualRefunded |-> manualRefunded]]
  /\ UNCHANGED <<orderVars, moneyVars, call, seen, tries, granted>>

BeginCancel(r) ==
  /\ call[r].kind = "cancel"
  /\ \A l \in call[r].lines : itemStatus[l] \notin {"delivered", "cancelled"}
  /\ ReadOrder(r)
  /\ Goto(r, "reading")
  /\ UNCHANGED reviewed

BeginManual(r) ==
  /\ call[r].kind = "manual"
  /\ ReadOrder(r)
  /\ Goto(r, "reading")
  /\ UNCHANGED reviewed

BeginReturn(r) ==
  /\ call[r].kind = "return"
  /\ \A l \in call[r].lines : returnStatus[l] = "received"
  /\ ReadOrder(r)
  /\ Goto(r, "reading")
  /\ UNCHANGED reviewed

(* An approval claims the request before it looks at the order, and puts   *)
(* it back when one of the lines went back to the buyer another way.       *)
ClaimReview(r) ==
  /\ call[r].kind = "approve"
  /\ pc[r] = "idle"
  /\ reviewed = "pending"
  /\ reviewed' = "approved"
  /\ Goto(r, "claiming")
  /\ UNCHANGED <<orderVars, moneyVars, localVars>>

CheckReview(r) ==
  /\ call[r].kind = "approve"
  /\ pc[r] = "claiming"
  /\ IF \E l \in call[r].lines : itemStatus[l] \in {"cancelled", "refunded"} \/ l \in marked
     THEN Goto(r, "failed") /\ reviewed' = "pending"
     ELSE Goto(r, "reading") /\ UNCHANGED reviewed
  /\ UNCHANGED <<orderVars, moneyVars, localVars>>

-----------------------------------------------------------------------------
(* reserveRefundCapacity and releaseRefundCapacity.                        *)

Wanted(c) == IF c.kind = "manual" THEN c.amount ELSE Tally([l \in c.lines |-> Price[l]])
Remaining(total) == IF Cap > total THEN Cap - total ELSE 0

(* Mutant of Grant: what is left is not looked at.                         *)
GrantAll(c, total) == Wanted(c)

(* A refund of lines follows the lines and takes what is left; a refund of *)
(* an amount is all or nothing.                                            *)
Grant(c, total) ==
  IF Wanted(c) <= Remaining(total) THEN Wanted(c)
  ELSE IF c.kind = "manual" THEN 0 ELSE Remaining(total)

AfterReserve(c) ==
  IF c.kind \in {"cancel", "return"} THEN "claiming"
  ELSE IF c.toCredit THEN "crediting" ELSE "debiting"

(* Nothing left: a refund of an amount is refused, the others go on.       *)
ReadTotal(r) ==
  LET c == call[r] IN
  /\ pc[r] = "reading"
  /\ seen' = [seen EXCEPT ![r] = [total |-> refundedTotal, recorded |-> recorded]]
  /\ Goto(r, IF Grant(c, refundedTotal) > 0 THEN "comparing"
             ELSE IF c.kind = "manual" THEN "failed"
             ELSE IF c.kind = "approve" THEN "debiting" ELSE "claiming")
  /\ UNCHANGED <<orderVars, reviewed, moneyVars, call, snapshot, tries, granted>>

(* Mutant of AsSeen: the update does not compare.                          *)
WhateverItIs(r) == TRUE

AsSeen(r) ==
  IF seen[r].recorded THEN recorded /\ refundedTotal = seen[r].total ELSE ~recorded

WriteTotal(r) ==
  /\ pc[r] = "comparing"
  /\ AsSeen(r)
  /\ refundedTotal' = seen[r].total + Grant(call[r], seen[r].total)
  /\ recorded' = TRUE
  /\ Touch
  /\ granted' = [granted EXCEPT ![r] = Grant(call[r], seen[r].total)]
  /\ Goto(r, AfterReserve(call[r]))
  /\ UNCHANGED <<itemStatus, returnStatus, marked, manualRefunded, reviewed,
                 moneyVars, call, snapshot, seen, tries>>

(* Another refund wrote the total first: read again, a few times.          *)
RetryTotal(r) ==
  LET again == tries[r] + 1 < Attempts IN
  /\ pc[r] = "comparing"
  /\ ~AsSeen(r)
  /\ tries' = [tries EXCEPT ![r] = @ + 1]
  /\ Goto(r, IF again THEN "reading" ELSE "failed")
  /\ reviewed' = IF ~again /\ call[r].kind = "approve" THEN "pending" ELSE reviewed
  /\ UNCHANGED <<orderVars, moneyVars, call, snapshot, seen, granted>>

(* Mutant of Release: what was asked for is given back, not what was       *)
(* granted.                                                                *)
ReleaseWanted(r) ==
  /\ pc[r] = "releasing"
  /\ refundedTotal' = refundedTotal - Wanted(call[r])
  /\ updatedAt' = IF granted[r] > 0 THEN updatedAt + 1 ELSE updatedAt
  /\ granted' = [granted EXCEPT ![r] = 0]
  /\ Goto(r, "failed")
  /\ UNCHANGED <<recorded, itemStatus, returnStatus, marked, manualRefunded, reviewed,
                 moneyVars, call, snapshot, seen, tries>>

Release(r) ==
  /\ pc[r] = "releasing"
  /\ refundedTotal' = refundedTotal - granted[r]
  /\ updatedAt' = IF granted[r] > 0 THEN updatedAt + 1 ELSE updatedAt
  /\ granted' = [granted EXCEPT ![r] = 0]
  /\ Goto(r, "failed")
  /\ UNCHANGED <<recorded, itemStatus, returnStatus, marked, manualRefunded, reviewed,
                 moneyVars, call, snapshot, seen, tries>>

-----------------------------------------------------------------------------
(* Claiming what is refunded.                                              *)

AfterClaim(r) ==
  IF granted[r] = 0 THEN "closing"
  ELSE IF call[r].toCredit THEN "crediting" ELSE "debiting"

(* A cancellation claims the order as it read it before it reserved.       *)
ClaimCancel(r) ==
  /\ call[r].kind = "cancel"
  /\ pc[r] = "claiming"
  /\ updatedAt = snapshot[r].updatedAt
  /\ itemStatus' = [l \in Line |-> IF l \in call[r].lines THEN "cancelled" ELSE itemStatus[l]]
  /\ marked' = marked \cup call[r].lines
  /\ Touch
  /\ Goto(r, AfterClaim(r))
  /\ UNCHANGED <<refundedTotal, recorded, returnStatus, manualRefunded, reviewed,
                 moneyVars, localVars>>

(* Mutant of ClaimReturn: the lines need not be unrefunded any more.       *)
ClaimAgain(r) ==
  /\ call[r].kind = "return"
  /\ pc[r] = "claiming"
  /\ returnStatus' = [l \in Line |-> IF l \in call[r].lines THEN "refunded" ELSE returnStatus[l]]
  /\ marked' = IF granted[r] > 0 THEN marked \cup call[r].lines ELSE marked \ call[r].lines
  /\ Touch
  /\ Goto(r, AfterClaim(r))
  /\ UNCHANGED <<refundedTotal, recorded, itemStatus, manualRefunded, reviewed,
                 moneyVars, localVars>>

ClaimReturn(r) ==
  /\ call[r].kind = "return"
  /\ pc[r] = "claiming"
  /\ \A l \in call[r].lines : returnStatus[l] = "received"
  /\ returnStatus' = [l \in Line |-> IF l \in call[r].lines THEN "refunded" ELSE returnStatus[l]]
  /\ marked' = IF granted[r] > 0 THEN marked \cup call[r].lines ELSE marked \ call[r].lines
  /\ Touch
  /\ Goto(r, AfterClaim(r))
  /\ UNCHANGED <<refundedTotal, recorded, itemStatus, manualRefunded, reviewed,
                 moneyVars, localVars>>

(* Mutant of LoseClaim: the lost claim keeps its part of the budget.       *)
LoseAndKeep(r) ==
  /\ pc[r] = "claiming"
  /\ \/ call[r].kind = "cancel" /\ updatedAt # snapshot[r].updatedAt
     \/ call[r].kind = "return" /\ \E l \in call[r].lines : returnStatus[l] # "received"
  /\ Goto(r, "failed")
  /\ UNCHANGED <<orderVars, reviewed, moneyVars, localVars>>

LoseClaim(r) ==
  /\ pc[r] = "claiming"
  /\ \/ call[r].kind = "cancel" /\ updatedAt # snapshot[r].updatedAt
     \/ call[r].kind = "return" /\ \E l \in call[r].lines : returnStatus[l] # "received"
  /\ Goto(r, "releasing")
  /\ UNCHANGED <<orderVars, reviewed, moneyVars, localVars>>

-----------------------------------------------------------------------------
(* Moving the money.                                                       *)

Debit(r) ==
  /\ pc[r] = "debiting"
  /\ debited' = [debited EXCEPT ![r] = granted[r]]
  /\ Goto(r, "paying")
  /\ UNCHANGED <<orderVars, reviewed, lots, paid, localVars>>

(* The ledger fails: a refund of an amount gives the budget back, an       *)
(* approval throws as it stands, the others pay the buyer all the same.    *)
FailDebit(r) ==
  /\ pc[r] = "debiting"
  /\ Goto(r, CASE call[r].kind = "manual" -> "releasing"
               [] call[r].kind = "approve" -> "failed"
               [] OTHER -> "paying")
  /\ UNCHANGED <<orderVars, reviewed, moneyVars, localVars>>

(* The key a lot of credit is issued under: the amounts refunded so far,   *)
(* as read at the start, or the lines of the return.                       *)
CreditKey(r) ==
  IF call[r].kind = "manual"
  THEN [kind |-> "manual", lines |-> snapshot[r].marked, amount |-> snapshot[r].manualRefunded]
  ELSE [kind |-> "return", lines |-> call[r].lines, amount |-> 0]

(* A key that was used issues nothing, and the call goes on.               *)
IssueCredit(r) ==
  /\ pc[r] = "crediting"
  /\ lots' = lots \cup {CreditKey(r)}
  /\ paid' = [paid EXCEPT ![r] = IF CreditKey(r) \in lots THEN 0 ELSE granted[r]]
  /\ Goto(r, "closing")
  /\ UNCHANGED <<orderVars, reviewed, debited, localVars>>

(* A return is open again before its budget is given back.                 *)
FailCredit(r) ==
  /\ pc[r] = "crediting"
  /\ Goto(r, "releasing")
  /\ IF call[r].kind = "return"
     THEN /\ returnStatus' = [l \in Line |-> IF l \in call[r].lines THEN "received"
                                                                 ELSE returnStatus[l]]
          /\ marked' = marked \ call[r].lines
          /\ Touch
     ELSE UNCHANGED <<returnStatus, marked, updatedAt>>
  /\ UNCHANGED <<refundedTotal, recorded, itemStatus, manualRefunded, reviewed,
                 moneyVars, localVars>>

(* The payment provider refunds, or fails and leaves an alert.             *)
Pay(r) ==
  /\ pc[r] = "paying"
  /\ \E sum \in {0, granted[r]} : paid' = [paid EXCEPT ![r] = sum]
  /\ Goto(r, "closing")
  /\ UNCHANGED <<orderVars, reviewed, lots, debited, localVars>>

(* Mutant of Close: the amount is taken off what was refunded by hand.     *)
CloseReversed(r) ==
  /\ pc[r] = "closing"
  /\ manualRefunded' = IF call[r].kind = "manual" THEN manualRefunded - granted[r]
                       ELSE manualRefunded
  /\ Touch
  /\ Goto(r, "done")
  /\ UNCHANGED <<refundedTotal, recorded, itemStatus, returnStatus, marked, reviewed,
                 moneyVars, localVars>>

(* The last writes to the order: the amount, the lines, the timeline.      *)
Close(r) ==
  /\ pc[r] = "closing"
  /\ manualRefunded' = IF call[r].kind = "manual" THEN manualRefunded + granted[r]
                       ELSE manualRefunded
  /\ IF call[r].kind = "approve"
     THEN /\ itemStatus' = [l \in Line |-> IF l \in call[r].lines THEN "refunded"
                                           ELSE itemStatus[l]]
          /\ marked' = marked \cup call[r].lines
     ELSE UNCHANGED <<itemStatus, marked>>
  /\ Touch
  /\ Goto(r, "done")
  /\ UNCHANGED <<refundedTotal, recorded, returnStatus, reviewed, moneyVars, localVars>>

RequestStep(r) ==
  \/ BeginCancel(r)
  \/ BeginManual(r)
  \/ BeginReturn(r)
  \/ ClaimReview(r)
  \/ CheckReview(r)
  \/ ReadTotal(r)
  \/ WriteTotal(r)
  \/ RetryTotal(r)
  \/ Release(r)
  \/ ClaimCancel(r)
  \/ ClaimReturn(r)
  \/ LoseClaim(r)
  \/ Debit(r)
  \/ FailDebit(r)
  \/ IssueCredit(r)
  \/ FailCredit(r)
  \/ Pay(r)
  \/ Close(r)

Next == \E r \in Request : RequestStep(r)

Spec == Init /\ [][Next]_vars

-----------------------------------------------------------------------------
(* Properties.                                                             *)

(* Every variable keeps its type.                                          *)
TypeOK ==
  /\ refundedTotal \in Int /\ recorded \in BOOLEAN
  /\ updatedAt \in Nat
  /\ itemStatus \in [Line -> {"pending", "delivered", "cancelled", "refunded"}]
  /\ returnStatus \in [Line -> {"none", "received", "refunded"}]
  /\ marked \subseteq Line
  /\ manualRefunded \in Nat
  /\ reviewed \in {"none", "pending", "approved"}
  /\ pc \in [Request -> Step]
  /\ call \in [Request -> Call]
  /\ snapshot \in [Request -> [updatedAt : Nat, marked : SUBSET Line, manualRefunded : Nat]]
  /\ seen \in [Request -> [total : Int, recorded : BOOLEAN]]
  /\ tries \in [Request -> Nat]
  /\ granted \in [Request -> Nat]
  /\ debited \in [Request -> Nat]
  /\ paid \in [Request -> Nat]

(* The running total is exactly what was refunded before and what the      *)
(* calls hold or have spent: no update is lost, nothing is given back      *)
(* twice, whatever calls compare and set at the same time.                 *)
BudgetExact == refundedTotal = Legacy + Tally(granted)

(* The buyer never gets more back than was paid for the sub-order, and     *)
(* neither does the seller lose more.                                      *)
NeverOverRefunded ==
  /\ refundedTotal <= Cap
  /\ Legacy + Tally(paid) <= Cap
  /\ Legacy + Tally(debited) <= Cap

(* A call that failed holds nothing and has paid nothing, except for an    *)
(* approval the ledger refused.                                            *)
FailureIsClean ==
  \A r \in Request : pc[r] = "failed" /\ call[r].kind # "approve" => granted[r] = 0 /\ paid[r] = 0

(* A returned line is refunded by one return call at most, also when the   *)
(* first attempt failed and the line was opened again.                     *)
ReturnPaidOnce ==
  \A r, s \in Request :
    /\ r # s /\ call[r].kind = "return" /\ call[s].kind = "return"
    /\ paid[r] > 0 /\ paid[s] > 0
    => call[r].lines \cap call[s].lines = {}

(* The atomic budget that the compare-and-set implements.                  *)
Pool == INSTANCE RefundPool WITH Budget <- Cap - Legacy,
                                 left <- Cap - refundedTotal,
                                 holds <- granted
PoolSpec == Pool!Spec

(* A cancellation that is told "modified by someone else" was: somebody    *)
(* has written the order since it was read.                                *)
LosesToSomebody ==
  [][\A r \in Request :
       call[r].kind = "cancel" /\ pc[r] = "claiming" /\ pc'[r] = "releasing" =>
         \E s \in Request \ {r} : granted[s] > 0 \/ pc[s] \notin {"idle", "reading", "comparing"}]_vars
=============================================================================
