---------------------------- MODULE SellerWallet ----------------------------
(***************************************************************************)
(* One store's platform-held balance in one currency: sales credit what is *)
(* pending, clearing makes it available, refunds debit it, payouts send it *)
(* to the seller, by hand or as a Stripe transfer.                         *)
(*                                                                         *)
(* What the code does inside one Mongo transaction is one action: the      *)
(* transactions all write the balance document, so of two that overlap one *)
(* is run again.  What it reads before the transaction is an action of its *)
(* own, and so are the calls to Stripe.                                    *)
(***************************************************************************)
EXTENDS Tally

CONSTANTS
  Sale,             \* orders and bookings
  Kind,             \* "held": paid to the platform; "direct": paid to the seller; "booking"
  Gross,            \* of a sale: its amount
  Net,              \* the platform's part: less the fees, or the discount it sponsored on a direct one
  Refund, Of, Asked,\* refunds, the sale and the amount each is for
  Payout, Rail,     \* payouts; "stripe" or "manual"
  Wanted,           \* the amount of a payout; 0: all there is, the scheduled batch
  Minimum,          \* of a payout
  Clearer,          \* runs of the clearing job
  Retries           \* how often an admin retries a failed payout

ASSUME WalletAssumption ==
  /\ IsFiniteSet(Sale) /\ IsFiniteSet(Payout)
  /\ Kind \in [Sale -> {"held", "direct", "booking"}]
  /\ Gross \in [Sale -> Nat \ {0}] /\ Net \in [Sale -> Nat]
  /\ \A s \in Sale : Net[s] <= Gross[s]
  /\ Of \in [Refund -> {s \in Sale : Kind[s] # "booking"}]
  /\ Asked \in [Refund -> Nat \ {0}]
  /\ Rail \in [Payout -> {"stripe", "manual"}]
  /\ Wanted \in [Payout -> Nat]
  /\ Minimum \in Nat \ {0}
  /\ Retries \in Nat

VARIABLES
  available, pending, totalPayouts, flagged,  \* the balance document
  sold,                  \* status of the sale's ledger row
  refunded,              \* what the refund rows of a sale add up to
  refunding, capped,     \* the refunds' progress, and what each may take
  clearing, due,         \* the clearing runs' progress, and the sales each has to clear
  status, amount, known, \* of a payout: its status, its amount, whether its transfer is recorded
  runner, tries,         \* the process that sends a payout; retries made
  admin, alarmed,        \* payouts an admin is reversing, and those still to be flagged
  transfer, events,      \* Stripe: what became of the transfer; reversal events to deliver
  surplus                \* what clearing made available beyond what was pending

balanceVars == <<available, pending, totalPayouts, flagged>>
saleVars == <<sold, refunded>>
jobVars == <<refunding, capped, clearing, due>>
payoutVars == <<status, amount, known, runner, tries>>
reversalVars == <<admin, alarmed, transfer, events>>
vars == <<balanceVars, saleVars, jobVars, payoutVars, reversalVars, surplus>>

Init ==
  /\ available = 0 /\ pending = 0 /\ totalPayouts = 0 /\ flagged = FALSE
  /\ sold = [s \in Sale |-> "none"]
  /\ refunded = [s \in Sale |-> 0]
  /\ refunding = [r \in Refund |-> "idle"]
  /\ capped = [r \in Refund |-> 0]
  /\ clearing = [c \in Clearer |-> "idle"]
  /\ due = [c \in Clearer |-> {}]
  /\ status = [p \in Payout |-> "none"]
  /\ amount = [p \in Payout |-> 0]
  /\ known = [p \in Payout |-> FALSE]
  /\ runner = [p \in Payout |-> "idle"]
  /\ tries = [p \in Payout |-> 0]
  /\ admin = {} /\ alarmed = {}
  /\ transfer = [p \in Payout |-> "none"]
  /\ events = {}
  /\ surplus = 0

(* A balance below zero is flagged for review, and not any more when it    *)
(* has recovered.                                                          *)
SetBalance(a, p) ==
  /\ available' = a
  /\ pending' = p
  /\ flagged' = (a < 0 \/ p < 0)

-----------------------------------------------------------------------------
(* Sales, refunds, clearing.                                               *)

(* What a sale adds to the pending balance, and what its row says will     *)
(* clear: the row of a booking names no net amount.                        *)
Credited(s) == IF Kind[s] = "booking" THEN Gross[s] ELSE Net[s]
Clears(s) == IF Kind[s] = "booking" THEN 0 ELSE Net[s]

RecordSale(s) ==
  /\ sold[s] = "none"
  /\ SetBalance(available, pending + Credited(s))
  /\ sold' = [sold EXCEPT ![s] = IF Credited(s) > 0 THEN "pending" ELSE "completed"]
  /\ UNCHANGED <<totalPayouts, refunded, jobVars, payoutVars, reversalVars, surplus>>

Least(m, n) == IF m < n THEN m ELSE n

(* What was sold and refunded is read first; nothing comes of a refund of  *)
(* an order that was never credited or is refunded in full.                *)
ReadSale(r) ==
  LET s == Of[r]
      left == Gross[s] - refunded[s] IN
  /\ refunding[r] = "idle"
  /\ sold[s] # "none" /\ left > 0
  /\ refunding' = [refunding EXCEPT ![r] = "debiting"]
  /\ capped' = [capped EXCEPT ![r] = Least(Asked[r], left)]
  /\ UNCHANGED <<balanceVars, saleVars, clearing, due, payoutVars, reversalVars, surplus>>

(* Mutant of DebitRefund: the debt flag is not looked at again.            *)
DebitRefundSilently(r) ==
  LET n == capped[r] IN
  /\ refunding[r] = "debiting"
  /\ available' = IF available >= n THEN available - n ELSE 0
  /\ pending' = IF available >= n THEN pending ELSE pending - (n - available)
  /\ flagged' = flagged
  /\ refunded' = [refunded EXCEPT ![Of[r]] = @ + n]
  /\ refunding' = [refunding EXCEPT ![r] = "done"]
  /\ UNCHANGED <<totalPayouts, sold, capped, clearing, due, payoutVars, reversalVars, surplus>>

(* What is available goes first; the rest comes out of what is pending,    *)
(* which may go below zero.  A sale the seller was paid for directly       *)
(* leaves the balance alone.                                               *)
DebitRefund(r) ==
  LET s == Of[r]
      n == capped[r] IN
  /\ refunding[r] = "debiting"
  /\ IF Kind[s] = "direct" THEN UNCHANGED <<available, pending, flagged>>
     ELSE IF available >= n THEN SetBalance(available - n, pending)
     ELSE SetBalance(0, pending - (n - available))
  /\ refunded' = [refunded EXCEPT ![s] = @ + n]
  /\ refunding' = [refunding EXCEPT ![r] = "done"]
  /\ UNCHANGED <<totalPayouts, sold, capped, clearing, due, payoutVars, reversalVars, surplus>>

(* Whichever of the pending sales are past their clearing window.          *)
FindPending(c) ==
  /\ clearing[c] = "idle"
  /\ \E ready \in SUBSET {s \in Sale : sold[s] = "pending"} \ {{}} :
       due' = [due EXCEPT ![c] = ready]
  /\ clearing' = [clearing EXCEPT ![c] = "running"]
  /\ UNCHANGED <<balanceVars, saleVars, refunding, capped, payoutVars, reversalVars, surplus>>

(* Mutant of ClearSale: what is pending is taken, nothing becomes          *)
(* available.                                                              *)
ClearSaleAway(c, s) ==
  LET left == IF pending > Clears(s) THEN pending - Clears(s) ELSE 0 IN
  /\ clearing[c] = "running" /\ s \in due[c]
  /\ SetBalance(available, left)
  /\ surplus' = surplus - (pending - left)
  /\ sold' = [sold EXCEPT ![s] = "completed"]
  /\ due' = [due EXCEPT ![c] = @ \ {s}]
  /\ UNCHANGED <<totalPayouts, refunded, refunding, capped, clearing, payoutVars, reversalVars>>

(* The pending balance is floored at zero, and the row is not looked at    *)
(* again inside the transaction.                                           *)
ClearSale(c, s) ==
  LET n == Clears(s)
      left == IF pending > n THEN pending - n ELSE 0 IN
  /\ clearing[c] = "running" /\ s \in due[c]
  /\ IF n > 0
     THEN /\ SetBalance(available + n, left)
          /\ surplus' = surplus + n - (pending - left)
     ELSE UNCHANGED <<available, pending, flagged, surplus>>
  /\ sold' = [sold EXCEPT ![s] = "completed"]
  /\ due' = [due EXCEPT ![c] = @ \ {s}]
  /\ UNCHANGED <<totalPayouts, refunded, refunding, capped, clearing, payoutVars, reversalVars>>

EndClearing(c) ==
  /\ clearing[c] = "running" /\ due[c] = {}
  /\ clearing' = [clearing EXCEPT ![c] = "idle"]
  /\ UNCHANGED <<balanceVars, saleVars, refunding, capped, due, payoutVars, reversalVars, surplus>>

-----------------------------------------------------------------------------
(* Payouts.                                                                *)

Run(p, step) == runner' = [runner EXCEPT ![p] = step]
Mark(p, st) == status' = [status EXCEPT ![p] = st]
Live(p) == status[p] \in {"processing", "completed"}

(* A seller asks for an amount; the batch takes all there is, unless a     *)
(* payout is on its way.                                                   *)
AskPayout(p) ==
  LET n == IF Wanted[p] = 0 THEN available ELSE Wanted[p] IN
  /\ status[p] = "none" /\ runner[p] = "idle"
  /\ n >= Minimum
  /\ Wanted[p] = 0 => \A q \in Payout : status[q] # "processing"
  /\ amount' = [amount EXCEPT ![p] = n]
  /\ Run(p, "debiting")
  /\ UNCHANGED <<balanceVars, saleVars, jobVars, status, known, tries, reversalVars, surplus>>

(* The amount leaves the balance before it is sent.                        *)
Debit(p) ==
  /\ available' = available - amount[p]
  /\ totalPayouts' = totalPayouts + amount[p]
  /\ UNCHANGED <<pending, flagged>>

AfterDebit(p) == IF Rail[p] = "stripe" THEN "sending" ELSE "idle"

(* Mutant of CreatePayout: the balance is not looked at again.             *)
CreateBlindly(p) ==
  /\ runner[p] = "debiting"
  /\ Debit(p) /\ Mark(p, "processing") /\ Run(p, AfterDebit(p))
  /\ UNCHANGED <<saleVars, jobVars, amount, known, tries, reversalVars, surplus>>

(* debitAndCreatePayout: refused when the balance is too small by now.     *)
CreatePayout(p) ==
  /\ runner[p] = "debiting"
  /\ IF amount[p] <= available
     THEN Debit(p) /\ Mark(p, "processing") /\ Run(p, AfterDebit(p))
     ELSE UNCHANGED <<balanceVars, status>> /\ Run(p, "idle")
  /\ UNCHANGED <<saleVars, jobVars, amount, known, tries, reversalVars, surplus>>

(* Stripe answers with the transfer of this payout's key, old or new, or   *)
(* fails; the answer may be lost after the transfer was made.              *)
Transfer(p) ==
  /\ runner[p] = "sending"
  /\ \/ /\ transfer' = [transfer EXCEPT ![p] = IF @ = "none" THEN "sent" ELSE @]
        /\ \E step \in {"saving", "reverting"} : Run(p, step)
     \/ UNCHANGED transfer /\ Run(p, "reverting")
  /\ UNCHANGED <<balanceVars, saleVars, jobVars, status, amount, known, tries,
                 admin, alarmed, events, surplus>>

(* The payout is saved as completed, or the save fails.                    *)
SaveCompleted(p) ==
  /\ runner[p] = "saving"
  /\ \/ /\ Mark(p, "completed") /\ known' = [known EXCEPT ![p] = TRUE]
        /\ Run(p, "idle")
     \/ UNCHANGED <<status, known>> /\ Run(p, "reverting")
  /\ UNCHANGED <<balanceVars, saleVars, jobVars, amount, tries, reversalVars, surplus>>

CreditBack(p) ==
  /\ SetBalance(available + amount[p], pending)
  /\ totalPayouts' = totalPayouts - amount[p]

(* A transfer that failed, or a payout an admin rejects: the status is     *)
(* claimed and the amount credited back in one transaction.                *)
FailPayout(p) ==
  /\ \/ runner[p] = "reverting"
     \/ Rail[p] = "manual" /\ status[p] = "processing"
  /\ status[p] = "processing"
  /\ CreditBack(p) /\ Mark(p, "failed")
  /\ Run(p, "idle")
  /\ UNCHANGED <<saleVars, jobVars, amount, known, tries, reversalVars, surplus>>

ApprovePayout(p) ==
  /\ Rail[p] = "manual" /\ status[p] = "processing"
  /\ Mark(p, "completed")
  /\ UNCHANGED <<balanceVars, saleVars, jobVars, amount, known, runner, tries, reversalVars, surplus>>

(* Mutant of RetryPayout: what was credited back is not debited again.     *)
RetryFree(p) ==
  /\ status[p] = "failed" /\ tries[p] < Retries
  /\ UNCHANGED balanceVars
  /\ Mark(p, "processing")
  /\ tries' = [tries EXCEPT ![p] = @ + 1]
  /\ Run(p, AfterDebit(p))
  /\ UNCHANGED <<saleVars, jobVars, amount, known, reversalVars, surplus>>

(* Mutant of RetryPayout: a payout that was reversed is retried too; its   *)
(* transfer is the reversed one.                                           *)
RetryReversed(p) ==
  /\ status[p] \in {"failed", "reversed"} /\ tries[p] < Retries
  /\ amount[p] <= available
  /\ Debit(p) /\ Mark(p, "processing")
  /\ tries' = [tries EXCEPT ![p] = @ + 1]
  /\ Run(p, AfterDebit(p))
  /\ UNCHANGED <<saleVars, jobVars, amount, known, reversalVars, surplus>>

(* An admin retries: claimed and debited again, and sent again.            *)
RetryPayout(p) ==
  /\ status[p] = "failed" /\ tries[p] < Retries
  /\ amount[p] <= available
  /\ Debit(p) /\ Mark(p, "processing")
  /\ tries' = [tries EXCEPT ![p] = @ + 1]
  /\ Run(p, AfterDebit(p))
  /\ UNCHANGED <<saleVars, jobVars, amount, known, reversalVars, surplus>>

(* An admin's own payout is completed at once.                             *)
AdminPayout(p) ==
  /\ Rail[p] = "manual" /\ status[p] = "none" /\ runner[p] = "idle"
  /\ Wanted[p] \in 1 .. available
  /\ amount' = [amount EXCEPT ![p] = Wanted[p]]
  /\ available' = available - Wanted[p]
  /\ totalPayouts' = totalPayouts + Wanted[p]
  /\ Mark(p, "completed")
  /\ UNCHANGED <<pending, flagged, saleVars, jobVars, known, runner, tries, reversalVars, surplus>>

-----------------------------------------------------------------------------
(* Reversals of transfers that were made.                                  *)

(* Stripe takes a transfer back, and says so in an event.                  *)
StripeReverses(p) ==
  /\ transfer[p] = "sent"
  /\ transfer' = [transfer EXCEPT ![p] = "reversed"]
  /\ events' = events \cup {p}
  /\ UNCHANGED <<balanceVars, saleVars, jobVars, payoutVars, admin, alarmed, surplus>>

(* Mutant of AdminReverse: the ledger is reversed without asking Stripe.   *)
AdminReverseUnasked(p) ==
  /\ status[p] = "completed" /\ known[p] /\ p \notin admin
  /\ admin' = admin \cup {p}
  /\ UNCHANGED <<balanceVars, saleVars, jobVars, payoutVars, alarmed, transfer, events, surplus>>

(* An admin has Stripe take it back; the ledger follows in a second step.  *)
AdminReverse(p) ==
  /\ status[p] = "completed" /\ known[p] /\ p \notin admin
  /\ admin' = admin \cup {p}
  /\ transfer' = [transfer EXCEPT ![p] = "reversed"]
  /\ events' = IF transfer[p] = "sent" THEN events \cup {p} ELSE events
  /\ UNCHANGED <<balanceVars, saleVars, jobVars, payoutVars, alarmed, surplus>>

(* The event, or the admin's call: of the two only one finds the payout    *)
(* still completed.  An event that comes before the payout was saved is    *)
(* for a transfer nobody knows.                                            *)
ApplyReversal(p) ==
  /\ \/ p \in events /\ events' = events \ {p} /\ UNCHANGED admin
     \/ p \in admin /\ admin' = admin \ {p} /\ UNCHANGED events
  /\ IF status[p] = "completed" /\ known[p]
     THEN CreditBack(p) /\ Mark(p, "reversed") /\ alarmed' = alarmed \cup {p}
     ELSE UNCHANGED <<balanceVars, status, alarmed>>
  /\ UNCHANGED <<saleVars, jobVars, amount, known, runner, tries, transfer, surplus>>

FlagReversal(p) ==
  /\ p \in alarmed
  /\ flagged' = TRUE
  /\ alarmed' = alarmed \ {p}
  /\ UNCHANGED <<available, pending, totalPayouts, saleVars, jobVars, payoutVars,
                 admin, transfer, events, surplus>>

PayoutStep(p) ==
  \/ AskPayout(p) \/ CreatePayout(p) \/ Transfer(p) \/ SaveCompleted(p)
  \/ FailPayout(p) \/ ApprovePayout(p) \/ RetryPayout(p) \/ AdminPayout(p)
  \/ StripeReverses(p) \/ AdminReverse(p) \/ ApplyReversal(p) \/ FlagReversal(p)

Next ==
  \/ \E s \in Sale : RecordSale(s)
  \/ \E r \in Refund : ReadSale(r) \/ DebitRefund(r)
  \/ \E c \in Clearer : FindPending(c) \/ (\E s \in Sale : ClearSale(c, s)) \/ EndClearing(c)
  \/ \E p \in Payout : PayoutStep(p)

Spec == Init /\ [][Next]_vars

-----------------------------------------------------------------------------
(* Properties.                                                             *)

(* Every variable keeps its type; in particular nobody withdraws more than *)
(* there is.                                                               *)
TypeOK ==
  /\ available \in Nat /\ pending \in Int /\ totalPayouts \in Int /\ flagged \in BOOLEAN
  /\ sold \in [Sale -> {"none", "pending", "completed"}]
  /\ refunded \in [Sale -> Nat]
  /\ refunding \in [Refund -> {"idle", "debiting", "done"}]
  /\ capped \in [Refund -> Nat]
  /\ clearing \in [Clearer -> {"idle", "running"}]
  /\ due \in [Clearer -> SUBSET Sale]
  /\ status \in [Payout -> {"none", "processing", "completed", "failed", "reversed"}]
  /\ amount \in [Payout -> Nat]
  /\ known \in [Payout -> BOOLEAN]
  /\ runner \in [Payout -> {"idle", "debiting", "sending", "saving", "reverting"}]
  /\ tries \in [Payout -> Nat]
  /\ admin \subseteq Payout /\ alarmed \subseteq Payout /\ events \subseteq Payout
  /\ transfer \in [Payout -> {"none", "sent", "reversed"}]
  /\ surplus \in Int

(* The balance is what the ledger's rows add up to: credited by sales,     *)
(* less refunds, less the payouts that stand, and what clearing added;     *)
(* whatever payouts fail, are retried, rejected or reversed meanwhile.     *)
Standing == [p \in Payout |-> IF Live(p) THEN amount[p] ELSE 0]
Earned == Tally([s \in Sale |-> IF sold[s] = "none" THEN 0 ELSE Credited(s)])
Returned == Tally([s \in Sale |-> IF Kind[s] = "direct" THEN 0 ELSE refunded[s]])
WalletExact ==
  /\ totalPayouts = Tally(Standing)
  /\ available + pending + totalPayouts = Earned - Returned + surplus

(* No order of sales, refunds, clearing runs and payouts costs the seller  *)
(* money: what was earned and not returned may be withdrawn, was paid out, *)
(* or has its row still to clear, but for bookings, whose money stays      *)
(* pending when their row is cleared.                                      *)
Withdrawn == available + totalPayouts
ToClear == [s \in Sale |-> IF sold[s] = "pending" THEN Credited(s) ELSE 0]
Stuck == [s \in Sale |-> IF sold[s] = "completed" /\ Kind[s] = "booking" THEN Credited(s) ELSE 0]
NeverShorted == Withdrawn + Tally(ToClear) + Tally(Stuck) >= Earned - Returned

(* What a booking earned becomes available once its row has cleared, as    *)
(* what other sales earned does.                                           *)
EarningsClear == Withdrawn + Tally(ToClear) >= Earned - Returned

(* A seller in debt is flagged for review.                                 *)
DebtFlagged == pending < 0 => flagged

(* The ledger follows the money: a Stripe payout is completed only when    *)
(* its transfer was made, and credited back as reversed only when Stripe   *)
(* took the transfer back.                                                 *)
LedgerFollowsMoney ==
  \A p \in Payout : Rail[p] = "stripe" =>
    /\ status[p] = "completed" => transfer[p] # "none"
    /\ status[p] = "reversed" => transfer[p] = "reversed"

(* One payout, however often it is sent, refused, saved, failed, retried,  *)
(* approved and reversed, and by whom: its sum is taken once at a time and *)
(* the same sum given back, Stripe moves it once, and it is over for good  *)
(* when Stripe took it back.                                               *)
Booked(p) ==
  CASE status[p] = "processing" -> "held" [] status[p] = "completed" -> "done"
    [] status[p] = "failed" -> "back" [] status[p] = "reversed" -> "undone" [] OTHER -> "none"
Books ==
  INSTANCE Disbursement WITH
    Wired <- {p \in Payout : Rail[p] = "stripe"},
    book <- [p \in Payout |-> Booked(p)],
    sum <- [p \in Payout |-> IF status[p] = "none" THEN 0 ELSE amount[p]],
    out <- totalPayouts,
    wire <- transfer
BooksSpec == Books!Spec
=============================================================================
