# Formal model of solvexo-api

Solvexo is a multi-store commerce backend (NestJS, MongoDB, Stripe and regional
gateways). One process handles many requests; several processes may run. Nothing
is locked: a handler reads a document, awaits, and writes it back with a
conditional update that names what it read, or, in places, without one. Hence the
project: TLA+ modules of the handlers that move stock and money, where **every
access to the database, the ledger or the payment provider is one action** (a
Mongo transaction is one action too), TLC runs over small shops, and TLAPS proofs
for shops of any size.

Paths below are relative to `src/src/`.

## 1. Inventory

| Part | State it keeps | Operations | What is hard | Correct when | Module |
|---|---|---|---|---|---|
| Order status (`orders/order-status.util.ts`) | none (pure) | roll-up of item statuses, allowed transitions | mixed statuses | used by everything below | `OrderStatus` |
| Stock on orders (`orders/orders.service.ts`, `common/*stock*`) | variant `stock`, `committedStock`; order items, shipments | checkout reserves, seller ships or sets a status, anyone cancels, payment is recorded | three handlers on one order; death between claim and stock | reservations exact, nothing oversold, each unit leaves once | `StockReservation` |
| Refund budget (`common/refund-cap.util.ts`) | `refundedTotal` of the order | reserve, release, from four callers | compare-and-set races, legacy orders, failures after the reserve | exact, below the cap, returned on failure | `RefundBudget`, `RefundPool` |
| Payment settlement (`payment/payment.service.ts`) | checkout and its placement claim, transactions, intents, webhook events | initiate, webhook, poll, cash on delivery, refund | duplicated and racing deliveries, crash after acknowledgement | ordered once, or refunded; a transaction never both; nobody's payment forgotten | `PaymentSettlement`, `Settlement` |
| Manual capture (`payment.service.ts` 1289-1549) | the intent at Stripe, transaction, orders' payment status and totals | authorize, capture in full or part, ship, cancel, expire | webhook against seller's capture, lost answers, expiry | orders say what became of the money; captured money pays them; no stock stays reserved | `AuthorizedCapture`, `CardHold` |
| Store credit (`store-credit`) | lots with `remaining`, ledger rows with unique keys | issue, remove, redeem, restore, expire | draws over several lots, put-backs, expiry during a draw, repeated events | one balance: every event whole and once | `StoreCredit`, `Purse` |
| Finance (`finance`) | balance document, sale, refund and payout rows, Stripe transfers | record, clear, refund, pay out, retry, reject, reverse | reads outside transactions, lost transfer answers, redelivered reversals | the balance is what its rows add up to; the ledger follows the transfers; a payout is taken, moved and given back once | `SellerWallet`, `Disbursement` |
| Inventory (`inventory`, `stock-counts`, `purchase-orders`, returns) | variant totals, location rows, transfers, approval requests, counts | correct, damage, write off, approve, reject, transfer, receive, return, count | requests raced by two reviewers, goods that move during a count | each unit booked once, those in transit are on trucks | `LocationStock` |
| Gift cards | balance of the card | redeem, restore | read-then-write idempotency | | not modelled |
| Gateways (`integrations`, `payment.service.ts` 1643-1785) | sessions | callback, sweep | callback against sweep | as card payments | not modelled |
| Returns, exchanges, refund requests | return status per line; request status | request, approve, receive, refund, exchange | one line in two processes | one outcome per line | refunds and restocking only |
| Checkout (`checkout`) | items, discounts, totals | edit, price | edit during payment | split sums to the total | not modelled |
| Bookings, loyalty, khata, B2B, POS, drafts, order edits | their own documents | | check-then-act | capacities and balances | not modelled |
| Catalogue, stores, content, accounts, messaging, analytics, administration | single documents | edits, reports | little shared | | not modelled |

Checkouts call the placement code in the payment service, which reserves stock,
inserts orders and redeems store credit; the orders service ships and cancels
them, captures what was only authorized, and calls the refund budget, the finance
ledger, store credit and the provider; webhooks, the buyer's polling page and cron
jobs enter from outside. The variant, the order and the checkout document are the
shared state of the first modules; the balance document of a store and the lots of
a customer that of the later ones. `PROJECT.json` lists each component with its
status and every hazard at its line.

## 2. Modules

* `Tally`: the sum of a function over a finite set, as a fold; `TallyLemmas`:
  what the proofs need of it (empty, one point changed, bounds).
* `OrderStatus`: `Rollup` (deriveRollupStatus) and the tables of statuses.
* `StockReservation`: checkouts and requests over variant and order documents.
  `StartCheckout`, `ReserveLine`, `RefuseCheckout`, `UndoLine`, `InsertOrder`
  are the loop of createOrderUnclaimed, one conditional update each. `BeginX`
  is a handler's read of the order and its early returns: it fixes the
  snapshot, the plan and the stock moves; `Claim`/`LoseClaim` is the conditional
  write (`StillAsRead` holds the guard each handler uses: status and number of
  shipments, or updatedAt); `MoveLine` is one update of a variant; the rest are
  the last writes. `CorrectStock` is the floor-guarded inventory correction.
* `RefundBudget`: cancellation, manual refund, return refund and refund-request
  approval. `ReadTotal`, `WriteTotal`, `RetryTotal` are the
  compare-and-set of reserveRefundCapacity; `Release` its undo; the claims, the
  ledger debit, the payment and the last write follow in each caller's order.
* `RefundPool`: the abstract promise, one atomic budget. `RefundBudget` is shown
  to implement it with `left <- Cap - refundedTotal, holds <- granted`.
* `PaymentSettlement`: one checkout. `Deliver` (dedup and dispatch of the
  webhook), `Poll`, `BeginInitiate` and `BeginCod` start a worker. `LookForRefund`, `FindPending`
  and `AskProvider` are the polling page's reads, the last of the intent at Stripe, which still
  reads `succeeded` after a refund. `FindAttempt` .. `ReopenCheckout` are initiatePayment, with its
  unconditional writes (435, 549) as steps of their own. `ClaimRow`, `CheckCheckout`,
  the placement (`EnterPlacement` .. `Unclaim`), `RecordOrders`,
  `CompleteCheckout`, `RevertRow`, the refund (`RefundBuyer`, `FailRefund`, `LoseRefund`,
  `NoteRefund`, `CancelCheckout`) are the accesses of finalizing in order. `Decline`, `Pay`,
  `EditCheckout`, `ExpireClaim`, `OthersBuy` and `OthersReturn` are the environment: units are
  bought, and come back with a cancellation, a correction or a delivery, at any moment.
* `Settlement`: the abstract promise, one clerk who places the orders of a checkout
  for one payment that succeeded (or cash), through one attempt to finish it, at one total, and
  returns a payment once, through an attempt that placed nothing; an attempt the money went back
  through places nothing unless nobody heard that it did. `PaymentSettlement` is shown to implement
  it: transactions are the attempts, what a payment
  intent went through is its money, what the orders carry is the deal.
* `AuthorizedCapture`: the life of one authorization. The handlers of the three
  events (`ClaimAuthorization` .. `LinkOrders`; `ClaimCapture`; `ClaimCancel`,
  `VoidOrder`) and the seller's requests (`BeginCapture`, `Capture`,
  `CompleteRow`, `Ship`) run side by side; `FindUnpaid` and `SaveCaptured` are
  markOrdersCaptured, which both kinds call. `Fail` is a handler that gave its
  event back, `BreakOff` one whose process or write died later; `Capture` may
  lose Stripe's answer. `ReadToCancel`/`CancelOrder` is a cancellation, an
  optimistic write that any later change of the order defeats.
* `CardHold`: the abstract promise, one hold on a card that is charged at most once and
  at most the total, and orders that are paid, given up, cancelled or sent one step
  at a time and for good. `AuthorizedCapture` is shown to implement it: the intent at
  Stripe is the hold, and an order is due, paid or lost as its payment status says.
* `StoreCredit`: one customer in one store. A draw is `ReadLots`, one conditional
  `Draw` for each lot, `EndDraw`, `Record`, and `PutBack` when it fell short or
  lost the race for its row; `rows` is the ledger with its unique index.
  `FindDue`, `ClaimLot`, `WriteExpiry` are the sweep.
* `Purse`: the abstract promise, one balance and the events that changed it.
  `StoreCredit` is shown to implement it with `happened <- rows` and the balance
  what the lots hold plus what unfinished calls have drawn.
* `SellerWallet`: the balance document, its sale, refund and payout rows, and
  what Stripe did. `ReadSale`/`DebitRefund` and `FindPending`/`ClearSale` keep
  apart what the code reads before its transaction and what it writes in it; a
  payout goes through `AskPayout`, `CreatePayout`, `Transfer`, `SaveCompleted`
  or `FailPayout`. `Credited` is what a sale adds to the pending balance, `Clears` what its row
  names to be cleared: nothing for a booking, and for a sale the seller was paid for directly the
  discount the platform sponsored (`Net`). `surplus` is a ghost: what the clearing job created by
  flooring what is pending at zero and by clearing a sale twice.
* `Disbursement`: the abstract promise of the payouts: the books take a sum once and
  give the same sum back once, Stripe moves it once and while the books hold it, and what
  was done is undone only where Stripe took it back, for good. `SellerWallet` is shown to
  implement it with `out <- totalPayouts`. The promise allows a sum to be given back that was
  sent, since the code does so when Stripe's answer is lost; the retry finds the transfer.
* `LocationStock`: one variant over several locations. `ReadSeed`/`WriteSeed`
  is the lazy first row, `FindRows`/`Drain` the shipment's walk over the rows,
  `ReadDamaged`/`MarkDamaged` and `ReadToReject`/`Reject` the handlers that
  read, then write. `MarkDamaged` and `WriteOff` are followed by the audit row, `SaveAdjustment` or
  `FailAdjustment`, and a failed one puts the applied request back up for approval. `shelf` is a ghost: what is really there. `count.steady` and
  `short` are ghosts too, for the two exceptions `BookFollowsShelf` needs.
* `MC*`: the instances. `*Proofs`: theorems.

Operators directly above a handler whose comment says "Mutant" are plausible
bugs of it, used to show that a property can fail.

## 3. Runs

| Run | Shows |
|---|---|
| `stock_reservation` | `ReservationExact`, `NoOversell`, `ShelfExact`, `NeverOverShipped`, `CancelledNeverShipped` hold for calls that go together (about 460 000 states) |
| `refund_budget` | `BudgetExact`, `NeverOverRefunded`, `FailureIsClean`, `ReturnPaidOnce` hold and `PoolSpec` is implemented (about 910 000) |
| `payment_settlement` | `OrderedOnce`, `OrderOrRefund`, `HoldsItsOrder`, `PaidIsInHand` hold and `SettlementSpec` is implemented (about 2 700 000, with symmetry) |
| `authorized_capture` | `PaymentsAgree`, `ReservationReleased`, `CaptureInHand` hold, `HoldSpec` is implemented, and liveness `CapturedIsPaid` (about 32 000) |
| `store_credit` | `LedgerExact`, `WholeOrNothing`, `CreditedOnce` hold and `PurseSpec` is implemented |
| `seller_wallet` | `WalletExact`, `NeverShorted`, `DebtFlagged`, `LedgerFollowsMoney` hold, `Disbursement` is implemented (about 2 100 000, with symmetry of the clearing runs) |
| `location_stock` | `InTransitExact`, `BookFollowsShelf`, `AppliedOnce` hold, the last two but for what a failed audit row lets happen (about 2 700 000) |
| `paid_cancel_refused` | violated: a lone paid cancellation loses to its own budget write (`orders.service.ts` 3070, comment 3064) |
| `declined_then_paid` | violated: an intent that was declined once and then paid is acknowledged and dropped (`payment.service.ts` 639, comment 1041) |
| `credit_minted` | violated: credit that could not be taken at placement is credited by the cancellation (`orders.service.ts` 3267, comment 3264) |
| `partial_capture` | violated: the event of a partial capture pays the orders in full (`payment.service.ts` 1109, comment 1381) |
| `booking_never_clears` | violated: the row of a booking names no net amount, so its money stays pending when the row is cleared (`finance.service.ts` 2125, comment 2097-2099) |

**Bounds, and why they are enough.** Stock: two orders over one scarce variant and
one on back-order, three lines, three requests: the races are between two
requests on one order, or a request, a checkout and a correction on one variant;
a third request lets a loser retry. Every choice of one call for each request that
`GoTogether` admits is an initial state. Refunds: two lines, a cap of five of which
one unit was refunded before, two compare-and-set attempts (five in the code) so
that giving up is reached. Settlement: two workers at once (any number over
time), two amounts, hence two intents, two transactions; the parts of a
mixed cart; one unit on sale, so that another buyer's order makes the difference and its
cancellation brings it back. `Turns` 3 bounds what fate does in all: declines, edits, clicks
to pay, failed writes and refunds, lost answers, deaths, units that come back, in any
mixture of three; the placement of orders, redeliveries and polls are not bounded.
Capture: a physical and a digital order of 6 and 5 under one authorization, a
full and a half capture (5, which divides unevenly) and a shipment, and two
failures, so that a retry may fail again. Store credit: one
checkout whose draw is reported twice, a removal, two issued lots of which one
expires within the moments looked at, a restoration reported twice, two sweeps; at
most four calls are under way (`FewCalls`), which is enough for a draw to meet
another draw, a removal and a sweep on the same lot. In `credit_minted` two
checkouts use the same credit. Wallet: a sale of each kind, a refund of the held
and one of the direct sale (which has a discount the platform sponsored), two clearing runs, the Stripe payout of the scheduled
batch and a manual payout, with one retry each: each reads before its transaction
while another writes. Locations: two locations, one
order, a transfer of two units (so that it can be received in part), a correction
of each reason of which one may be rejected, a damaged return, a delivery of a
good unit, one count; two units on the book of which none is
there, so that a count has something to find, and one write-off whose audit row fails once, so that
it is applied again before or after the count.
All bounds are constants named in the configurations. Deadlock is not checked:
each instance has finitely many calls and stops when they are done.

**Fairness.** `AuthorizedCapture!FairSpec`:
events are delivered and handlers that have begun go on (weak), nobody has to
capture, ship or cancel anything; `CapturedIsPaid` excepts a handler that died
after its first write, which nothing in the code makes up for.

**Seen, without a run of its own.** What follows the models showed, or reading
for them did, beside the five violations above; where a line is quoted, it is contradicted.

* A line of two units with one shipped is still `processing` and can be cancelled
  whole (`orders.service.ts` 2984; comment 3096: "never shipped/decremented").
* A status change writes back every item from its snapshot and can revive a line
  cancelled meanwhile (1717; comment 1629: cancelled lines "are final").
* Setting a partly cancelled order back to "processing" restores the status that
  guards an earlier snapshot: a shipment planned before the cancellation then
  passes the guard and ships what was cancelled (1717; the filter there names the
  status only).
* A return and a refund request can both pay one line (`refund-request.service.ts`
  223: "can never be refunded again").
* Two refunds to store credit that start from the same already-refunded amount share an idempotency
  key (`orders.service.ts` 3453): the second debits the seller and credits nobody.
* A refund request whose ledger entry fails after its approval was claimed stays approved, with the
  budget taken and nobody paid (`refund-request.service.ts` 254).
* Stock found sold out (`payment.service.ts` 2654) may be back before the refund (1232). The
  transaction is safe (`NeverBoth`), the payment is not: a checkout whose buyer clicked to pay again
  has a second transaction on the same intent (the idempotency key, 401, is the checkout
  and the amount), through which another handler places the order while the first one
  refunds it, and the buyer reads "no order was placed" (1264). And when the refund is made but
  its answer lost, the transaction goes back to pending (1235) and the retry, with the stock back,
  places the order. Either way the buyer has the goods and the money.
* A failed insert of a mixed cart's second order is retried, finds the first (2542) and completes
  the checkout with it alone: the digital items are paid for and never ordered.
* initiatePayment fails the transaction it read (435) whatever became of it, also when its intent
  succeeded meanwhile: if the total has changed as well, no transaction of the payment is left
  pending and nothing answers for it (`PaidIsInHand` counts it as given up). It also sets a
  checkout back to `payment_pending` (549) that was completed or cancelled meanwhile, which can then
  be paid again.
* A poll during another handler's placement is told `refunded`
  (`payment.service.ts` 1852).
* A checkout edited between its intent and its placement gives an order of
  another value than its charge (1127; comment 1061).
* A refund can be debited in the ledger before the sale has cleared, after which
  `Math.max(0, pending - net)` (`finance.service.ts` 1890) makes more available
  than was pending; two clearing runs at once credit a sale twice (1870 reads
  outside the transaction). `surplus` counts both, always in the seller's favour. Two refunds of one
  sale that both see room (2229) refund it beyond its amount; only the refund budget in front of the
  ledger keeps them apart.
* The booking's money of `booking_never_clears` is counted apart (`Stuck`) in `NeverShorted`.
* A Stripe payout whose transfer was made but whose answer was lost, or that could
  not be saved, is credited back as `failed` although the money is gone; comment
  781: "The transfer call itself never left the platform balance". One whose
  process died stays `processing` for ever. A reversal delivered before the payout
  was saved is dropped.
* A damaged-stock adjustment whose audit row cannot be saved (`inventory.service.ts` 899, 926) was
  applied, outside any transaction, and its request is set back to pending (802): approved again it
  is applied again, and a write-off then takes units off the book that left the shelf once. Comment
  778: "If applying fails, the claim is released so it can be retried".
* A reviewer that read `pending` writes `rejected` over a request that was
  approved and applied meanwhile (`inventory.service.ts` 826: "Rejected - nothing
  was applied"); a count is cancelled over `completed` in the same way
  (`stock-counts.service.ts` 150).
* A count applies `counted - snapshot`: what was sold or received between its
  start and the counting of the line is counted twice, against the comment at 173
  ("sales, receipts and returns that happened while people were counting are
  kept"); those after the counting of the line are kept. `count.steady` marks the
  difference.
* Units reserved between the check and the write can be marked damaged
  (`inventory.service.ts` 886). The location rows do not "add up" to the total
  (`location-stock.util.ts` 5) after store-wide corrections, damaged receipts,
  write-offs, or a seeding from a total read earlier.
* The cancelled event of an authorization handled before its authorized event, or
  a failure to link the orders, leaves orders `authorized` for ever. An order
  cancelled by hand is still charged by a capture of its authorization, and its
  stock is released twice when the authorization then expires.
* Credit put back on a lot after its sweep is neither spendable nor ever swept
  (`store-credit.service.ts` 104); two draws that meet may both be refused
  although each alone would be covered; an insert that fails other than by the
  unique index loses what was drawn. Gift cards (`gift-cards.service.ts` 524)
  check for a repeated restoration without a unique index.

## 4. Proofs

`StockReservationProofs` (any finite sets of requests and lines, any variants):

* `TypeCorrect`: `Spec => []TypeOK`.
* `ReservationsExact`: `Spec => []ReservationExact`. Not inductive alone: a
  claim moves units from "open on the order" to "in flight at the request", and
  that the two amounts agree depends on what the request read. `Inv` adds: calls
  are the given ones; an order not placed is untouched; a request's lines belong
  to its order; plans have the shape their kind makes; and a plan whose guard
  still holds was computed from the order as it is. Each action is then one
  lemma that says which line's booking changes, and `TallyLemmas` carries the
  change to the sum over lines. Assumes `GoTogether(call)`, a condition on the calls
  of different requests on one order, which nothing changes once they run: none of them
  records a payment by hand; a line that may be cancelled is shipped in one piece;
  two cancellations share a line or leave none; an order that may be set back to
  "processing" is cancelled as a whole, if at all, and then its shipments are not
  entered one by one. Any call alone on its order goes together with the rest, and any
  number of calls on other orders may run beside it. Outside
  `GoTogether` the formula is false because the code is wrong there: a part-shipped
  line is cancelled whole; a payment by hand moves the stock of lines shipped
  meanwhile; a stale write of all items revives a cancelled line; and the guard on the
  status alone lets a stale plan pass when the order went from "processing" to
  "partially cancelled" and back. Each of the conditions is needed: with three or four calls
  on an order of three lines, leaving any one out gives TLC a counterexample.
  `stock_reservation` starts in exactly the states the theorems assume
  (`MCInit == Init /\ GoTogether(call)`).
  Three more parts of `Inv` come of it: `PartGone` (a line shipped in part is not
  one that a call may cancel), `ByHand` (whoever records a payment is alone on its
  order) and `Payments` (what such a request moves before it writes the order).
* `NothingOversold`: from the same `Inv` and `Covered` (committed <= stock).
* `NothingShippedTwice` and `CancelledStaysHome`: a conjunct of `Inv`, `Shapes`,
  says what a line's status allows to have been shipped of it.
* `ShelfIsExact`: `ShelfExact` speaks of the requests' plans, so what left is first
  restated as what the order document no longer has open, less what claims have
  yet to move (`Gone`, equal by `DepartedIsGone`). `ShelfInv` is the equation over
  `Gone` with, as its strengthening, that units still to be moved of a cancelled
  line belong to the cancellation. A claim then changes no `Gone`, moving a line
  changes one by what it takes off the shelf (`Covered` makes the floor at zero
  idle), and a correction adds one entry to the sum of corrections (`TallyGrows`).

`RefundBudgetProofs` (any finite set of calls, any lines, amounts and attempts):
`TypeCorrect`, `BudgetIsExact`, `NobodyOverRefunded`, `ImplementsPool`, `FailsClean` and
`LinePaidOnce`. `Inv` says what each call may hold at each point of its program
(nothing before the write, nothing after a release, what it debits and pays is what
it was granted) and that a total not yet in the document equals the legacy total;
a step of one call is shown to keep its own conjunct and to leave the others'.
The last two theorems need `LinesInv` on top: a return call has its lines, marked as
refunded, from its claim until it opens them again; two calls never have a line
together; and whoever paid has its lines.

`PaymentSettlementProofs` (any payments, parts, handlers, deliveries, turns of fate and
stock that goes and comes back): `TypeCorrect`, `PlacedOnce`, `NeverBoth`,
`StockIsItsOrder`, `OneClerk` and `PaidMoneyKept`. `Inv` adds that
the claim lets one handler place at a time (`Alone`) and that a placement reserves
only while there are no orders and has in hand exactly the parts it has yet to
insert (`Placement`). `DealInv` adds what the deal rests on: a succeeded event is announced
only of a payment that succeeded (`Announced`), a handler under way works for such a payment or
for cash (`Backed`), and the orders, with the placement under way, have one payer, one
transaction and one total (`ByOne`). `HandInv` says who is to answer for a payment: every
intent has a transaction (`Known`), a refunded one was returned
(`Returned`), a completed checkout has orders (`Delivered`), a handler between the claim and its
answer has a transaction of its own payment (`Owning`), and completed transactions that nobody has
in hand are at most as many as deaths until there is an order (`Mourned`).

`NeverBoth` assumes nothing of the stock: other people take it and bring it back at any moment.
It needs `ApartInv`: a transaction in hand is not pending and is one handler's (`Sole`); a handler
that found the stock sold out has placed nothing through its transaction and can only
refund or give up, whatever comes back meanwhile (`Barren`); and a transaction that was
refunded is not pending and only its own handler, about to note the refund, has it in hand, unless
the answer to the refund was lost (`Settled`). `OneClerk` shows from all
of these that every step is a step of `Settlement` or one it does not see: the buyer's payment,
the refund and each insert are the clerk's `Pay`, `Return` and `Place`. `PaidMoneyKept`: each exit
of `finalizePaymentIntent` is shown to hand its transaction on (`HandedOn`); the lost payments are
then injected into the transactions that `Mourned` counts.

`SellerWalletProofs` (any finite sets of sales, refunds and payouts, any amounts):
`TypeCorrect`, `WalletIsExact`, `SellerNeverShorted`, `DebtIsFlagged` and
`LedgerFollowsTransfers`. `Inv` adds which status a payout has while a process
sends it, that what is saved was transferred, that a reversal event is of a
transfer that was taken back, and that a clearing run works on recorded sales
only. The balance is a sum over sales less two sums over payouts; a step moves
one entry of one of them. `NeverShorted` is inductive beside it: a row's entry leaves the sum still
to clear when its amount becomes available (again, if another run cleared it too) or, for a
booking, joins the sum of what is stuck; a refund takes at most what it adds to the refunds. `PaidOutOnce`: every step is a step of `Disbursement` or one it
does not see. A retry finds the payout failed, so the sum is back in the books before it is
taken again; the idempotency key makes a second transfer a stutter; and what is reversed at
Stripe is a transfer that was made, because a payout that knows its transfer has one
(`KnownInv`).

`AuthorizedCaptureProofs` (any orders, units, prices and requests):
`TypeCorrect`, `PaymentsFollowMoney`, `ReservationsReleased`, `OneHoldKept` and
`NothingForgotten`. `Inv` says where
each handler can be; that orders are placed all at once and before anybody can
capture; that a capture event, or a handler past its capture, is proof that Stripe
captured, and a cancel event proof that it did not; and that what a voiding
handler is still to void is authorized. Voided orders are those that failed, so
each unit leaves the reservation once, or twice where the order was also cancelled
by hand: the case `ReservationReleased` sets apart. `OneHoldKept` shows that every step
is a step of `CardHold` or one it does not see. It needs `HoldInv` on top: nothing is
handled before the card was authorized (`Opened`), prices stand and what is to be
captured fits in them until the capture (`Priced`), and an order whose cancellation is
under way, and unchanged since, waits for its money (`Waiting`); a cancellation then
never lands on an order that was paid, given up or shipped in between. `NothingForgotten`
is the safety half of `CapturedIsPaid`. `WorkInv` adds that a transaction that failed or
was refunded is of a hold that is gone, and that of a completed one the orders are paid
or a handler is at work, unless a write failed: so nobody who finds the transaction
completed, and no acknowledged event, leaves captured money without an owner.

`LocationStockProofs` (any finite sets of locations, transfers, corrections,
orders and receipts, any number of audit rows that cannot be saved): `TypeCorrect`,
`InTransitIsExact`, `BookMovesAsShelf` and
`CorrectedOnce`. `Inv` adds that a row exists before units are taken from it, that
a transfer received no more than it sent, that only marking units damaged
reads the damaged units, that what is being applied was applied before only as often as its audit
row failed, and once more as soon as its audit row is due (`ApprovalInv`), and that
a count which nothing disturbed has found the difference of the start and what had been written
off again by then (`CountInv`). Every
action but the end of a count moves the book as the shelf and what was written off again (`Alike`)
or finds the book short.

`StoreCreditProofs` (any finite sets of calls and sweeps, any lots and amounts):
`TypeCorrect`, `BalanceFollowsLedger`, `LotsAreBornOnce`, `TakenWholeOnce` and
`ImplementsPurse`. `Inv` says what a call has drawn at each point of its program
(nothing before it draws, all of it when it records, all or nothing when it is done,
and then with its row), which kinds of calls get where, that a lot that was born
has the row of its event, and that a sweep holds what it took from one lot until it
writes the row. Under the refinement the balance is what remains of the lots and what
calls that are not done have drawn: a draw or a put-back is a stutter, the row is
the step.

Every invariant of the passing runs is proved, those of `StockReservation` other than
its types from `GoTogether(call)`, and so are the five refinements (of
`Settlement`, `CardHold`, `RefundPool`, `Purse` and `Disbursement`). Only model-checked:
the liveness property `CapturedIsPaid` (the safety it rests on is
proved: `NothingForgotten`). Liveness under fairness, `ENABLED` and
induction over data are outside the prover; no module with a theorem uses RECURSIVE.

## 5. What the models leave out

* StockReservation: bundles, unlimited stock, pre-orders, lots, location rows,
  pickup, several sub-orders per order, order edits. Calls on one
  order that the code's guards cannot keep apart (outside `GoTogether`, section 4)
  are modelled but not in the passing run, since the properties fail there. Orders are placed in under two minutes.
* RefundBudget: amounts restored to gift cards and credit; the legacy total is
  constant (a line marked without a grant does not change what remains); the
  approval's last fetch and save is one action.
* PaymentSettlement: stock is one unit per checkout; a placement takes less than
  two minutes; Stripe remembers the idempotency keys of intents and refunds; the creation of an
  intent and of its transaction is one step (nobody can pay what nobody was told of); writes other
  than order inserts, redemption and refunds fail only as crashes;
  the cash-on-delivery transaction is not recorded; "expired" checkouts. There is no liveness
  property: the code has nothing that makes the provider redeliver or the page poll, and nothing
  returns a claimed transaction of a dead worker to pending. `PaidIsInHand` is the safety under it.
* AuthorizedCapture: the placement is one step (its own steps are in
  PaymentSettlement); amounts per seller and line follow the order's total; the
  check of the authorized amount against the checkout; partial shipments; the cent
  above the authorized total that the request would let through to Stripe.
* StoreCredit: one currency; amounts are whole cents; the notifications and the
  `balanceAfter` shown with a row; a sweep of more than 500 lots.
* SellerWallet: one currency; fee rows, which move nothing; commission
  rates (`Net` is given, at most the sale's amount); a refund of a direct sale leaves its sponsored
  discount with the seller, as the code does; Stripe remembers the idempotency key of a transfer; the schedule's timetable, suspended stores; a reply of
  the database that is lost.
* LocationStock: a second handler that seeds the first row at the same time, which the unique
  index on variant, location and bin (`inventory/schemas/variant-location-stock.schema.ts` 44)
  refuses before it has written anything; bins, lots, serial numbers, pre-orders; draining prefers the
  fullest row in the code, any row here; a count of one location; the life cycle
  of a purchase order before its goods arrive; cancellations of orders (they are
  in StockReservation).
* Everything listed "not_modelled" in `PROJECT.json`, each with its reason.

## 6. Plan

Order: what moves money or stock first.

1. Done: `OrderStatus`, `StockReservation`, `RefundBudget`/`RefundPool`,
   `PaymentSettlement`/`Settlement`, `AuthorizedCapture`/`CardHold`, `StoreCredit`/`Purse`,
   `SellerWallet`/`Disbursement`, `LocationStock`, and the proofs of section 4.
2. `OrderEditing`: re-pricing and re-reserving an unfulfilled order against
   shipments and captures; `ReturnLifecycle` with exchanges.
3. `BookingSlots`, the company credit limit and gift cards: check-then-act.
4. The regional gateways as a variant of `PaymentSettlement`.
