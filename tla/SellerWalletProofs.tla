------------------------- MODULE SellerWalletProofs -------------------------
(***************************************************************************)
(* The wallet is exact and its ledger follows the money, for any number of *)
(* sales, refunds, clearing runs and payouts of any size.                  *)
(***************************************************************************)
EXTENDS SellerWallet, TallyLemmas, TLAPS

(* A process that sends a payout has debited it and nobody else has        *)
(* touched its status; it saves only what was transferred.  Reversals are  *)
(* of transfers that were taken back, and only recorded sales are cleared. *)
RunnerInv(p) ==
  /\ runner[p] = "debiting" => status[p] = "none"
  /\ runner[p] \in {"sending", "saving", "reverting"} => status[p] = "processing" /\ Rail[p] = "stripe"
  /\ runner[p] = "saving" => transfer[p] # "none"
MoneyInv(p) ==
  /\ p \in events \cup admin => transfer[p] = "reversed"
  /\ Rail[p] = "stripe" =>
       /\ status[p] = "completed" => transfer[p] # "none"
       /\ status[p] = "reversed" => transfer[p] = "reversed"

Inv ==
  /\ TypeOK
  /\ \A p \in Payout : RunnerInv(p)
  /\ \A p \in Payout : MoneyInv(p)
  /\ \A c \in Clearer : \A s \in due[c] : sold[s] # "none"
  /\ WalletExact
  /\ NeverShorted
  /\ DebtFlagged

RefundStep(r) == ReadSale(r) \/ DebitRefund(r)
ClearingStep(c) == FindPending(c) \/ (\E s \in Sale : ClearSale(c, s)) \/ EndClearing(c)

-----------------------------------------------------------------------------
(* Types.                                                                  *)

LEMMA CreditedType ==
  ASSUME NEW s \in Sale
  PROVE  Credited(s) \in Nat /\ Clears(s) \in Nat
BY WalletAssumption DEF Credited, Clears

LEMMA SaleTypes ==
  ASSUME TypeOK, NEW s \in Sale, RecordSale(s)
  PROVE  TypeOK'
<1> USE DEF jobVars, payoutVars, reversalVars, balanceVars, SetBalance
<1>1. pending' \in Int /\ flagged' \in BOOLEAN /\ available' \in Nat
  BY CreditedType DEF RecordSale, TypeOK
<1>2. sold' \in [Sale -> {"none", "pending", "completed"}]
  BY DEF RecordSale, TypeOK
<1>. QED  BY <1>1, <1>2 DEF RecordSale, TypeOK

LEMMA RefundTypes ==
  ASSUME TypeOK, NEW r \in Refund, RefundStep(r)
  PROVE  TypeOK'
<1> USE DEF payoutVars, reversalVars, balanceVars, saleVars, SetBalance
<1>0. /\ Of[r] \in Sale /\ Asked[r] \in Nat /\ Gross[Of[r]] \in Nat
      /\ refunded[Of[r]] \in Nat /\ capped[r] \in Nat
  BY WalletAssumption DEF TypeOK
<1>1. CASE ReadSale(r)
  <2> DEFINE s == Of[r]
             left == Gross[s] - refunded[s]
             n == Least(Asked[r], left)
  <2>0. n \in Nat
    BY <1>0, <1>1 DEF ReadSale, Least
  <2>1. capped' = [capped EXCEPT ![r] = n]
    BY <1>1 DEF ReadSale
  <2> HIDE DEF n
  <2>2. capped' \in [Refund -> Nat] /\ refunding' \in [Refund -> {"idle", "debiting", "done"}]
    BY <1>1, <2>0, <2>1 DEF ReadSale, TypeOK
  <2>. QED  BY <1>1, <2>2 DEF ReadSale, TypeOK
<1>2. CASE DebitRefund(r)
  <2>1. available' \in Nat /\ pending' \in Int /\ flagged' \in BOOLEAN
    <3>1. CASE Kind[Of[r]] = "direct"
      BY <1>2, <3>1 DEF DebitRefund, TypeOK
    <3>2. CASE Kind[Of[r]] # "direct" /\ available >= capped[r]
      BY <1>0, <1>2, <3>2 DEF DebitRefund, TypeOK
    <3>3. CASE Kind[Of[r]] # "direct" /\ ~(available >= capped[r])
      BY <1>0, <1>2, <3>3 DEF DebitRefund, TypeOK
    <3>. QED  BY <3>1, <3>2, <3>3
  <2>2. refunded' \in [Sale -> Nat] /\ refunding' \in [Refund -> {"idle", "debiting", "done"}]
    BY <1>0, <1>2 DEF DebitRefund, TypeOK
  <2>. QED  BY <1>2, <2>1, <2>2 DEF DebitRefund, TypeOK
<1>. QED  BY <1>1, <1>2 DEF RefundStep

LEMMA ClearingTypes ==
  ASSUME TypeOK, NEW c \in Clearer, ClearingStep(c)
  PROVE  TypeOK'
<1> USE DEF payoutVars, reversalVars, balanceVars, saleVars, SetBalance
<1>1. CASE FindPending(c)
  <2>1. due' \in [Clearer -> SUBSET Sale]
    BY <1>1 DEF FindPending, TypeOK
  <2>. QED  BY <1>1, <2>1 DEF FindPending, TypeOK
<1>2. ASSUME NEW s \in Sale, ClearSale(c, s)
      PROVE  TypeOK'
  <2>1. /\ available' \in Nat /\ pending' \in Int /\ flagged' \in BOOLEAN /\ surplus' \in Int
    <3>1. CASE Clears(s) > 0
      BY <1>2, <3>1, CreditedType DEF ClearSale, TypeOK
    <3>2. CASE ~(Clears(s) > 0)
      BY <1>2, <3>2, CreditedType DEF ClearSale, TypeOK
    <3>. QED  BY <3>1, <3>2
  <2>2. sold' \in [Sale -> {"none", "pending", "completed"}] /\ due' \in [Clearer -> SUBSET Sale]
    BY <1>2 DEF ClearSale, TypeOK
  <2>. QED  BY <1>2, <2>1, <2>2 DEF ClearSale, TypeOK
<1>3. CASE EndClearing(c)
  BY <1>3 DEF EndClearing, TypeOK
<1>. QED  BY <1>1, <1>2, <1>3 DEF ClearingStep

LEMMA PayoutTypes ==
  ASSUME TypeOK, NEW p \in Payout, PayoutStep(p)
  PROVE  TypeOK'
<1> USE DEF balanceVars, jobVars, saleVars, reversalVars, payoutVars, SetBalance, Run, Mark,
            AfterDebit, Debit, CreditBack
<1>0. /\ Wanted[p] \in Nat /\ Minimum \in Nat /\ amount[p] \in Nat /\ tries[p] \in Nat
      /\ available \in Nat
  BY WalletAssumption DEF TypeOK
<1>1. CASE AskPayout(p)
  <2>1. amount' \in [Payout -> Nat]
    BY <1>0, <1>1 DEF AskPayout, TypeOK
  <2>. QED  BY <1>1, <2>1 DEF AskPayout, TypeOK
<1>2. CASE CreatePayout(p)
  <2>1. available' \in Nat /\ totalPayouts' \in Int
    BY <1>0, <1>2 DEF CreatePayout, TypeOK
  <2>2. /\ status' \in [Payout -> {"none", "processing", "completed", "failed", "reversed"}]
        /\ runner' \in [Payout -> {"idle", "debiting", "sending", "saving", "reverting"}]
    BY <1>2 DEF CreatePayout, TypeOK
  <2>. QED  BY <1>2, <2>1, <2>2 DEF CreatePayout, TypeOK
<1>3. CASE Transfer(p)
  BY <1>3 DEF Transfer, TypeOK
<1>4. CASE SaveCompleted(p)
  BY <1>4 DEF SaveCompleted, TypeOK
<1>5. CASE FailPayout(p)
  BY <1>0, <1>5 DEF FailPayout, TypeOK
<1>6. CASE ApprovePayout(p)
  BY <1>6 DEF ApprovePayout, TypeOK
<1>7. CASE RetryPayout(p)
  <2>1. available' \in Nat /\ totalPayouts' \in Int /\ tries' \in [Payout -> Nat]
    BY <1>0, <1>7 DEF RetryPayout, TypeOK
  <2>. QED  BY <1>7, <2>1 DEF RetryPayout, TypeOK
<1>8. CASE AdminPayout(p)
  <2>1. available' \in Nat /\ totalPayouts' \in Int /\ amount' \in [Payout -> Nat]
    BY <1>0, <1>8 DEF AdminPayout, TypeOK
  <2>. QED  BY <1>8, <2>1 DEF AdminPayout, TypeOK
<1>9. CASE StripeReverses(p)
  BY <1>9 DEF StripeReverses, TypeOK
<1>10. CASE AdminReverse(p)
  BY <1>10 DEF AdminReverse, TypeOK
<1>11. CASE ApplyReversal(p)
  <2>1. available' \in Nat /\ pending' \in Int /\ totalPayouts' \in Int /\ flagged' \in BOOLEAN
    <3>1. CASE status[p] = "completed" /\ known[p]
      BY <1>0, <1>11, <3>1 DEF ApplyReversal, TypeOK
    <3>2. CASE ~(status[p] = "completed" /\ known[p])
      BY <1>11, <3>2 DEF ApplyReversal, TypeOK
    <3>. QED  BY <3>1, <3>2
  <2>2. /\ status' \in [Payout -> {"none", "processing", "completed", "failed", "reversed"}]
        /\ admin' \subseteq Payout /\ events' \subseteq Payout /\ alarmed' \subseteq Payout
    BY <1>11 DEF ApplyReversal, TypeOK
  <2>. QED  BY <1>11, <2>1, <2>2 DEF ApplyReversal, TypeOK
<1>12. CASE FlagReversal(p)
  BY <1>12 DEF FlagReversal, TypeOK
<1>. QED  BY <1>1, <1>2, <1>3, <1>4, <1>5, <1>6, <1>7, <1>8, <1>9, <1>10, <1>11, <1>12
          DEF PayoutStep

-----------------------------------------------------------------------------
(* The sums of the ledger's rows.                                          *)

SaleRows == [s \in Sale |-> IF sold[s] = "none" THEN 0 ELSE Credited(s)]
RefundRows == [s \in Sale |-> IF Kind[s] = "direct" THEN 0 ELSE refunded[s]]

LEMMA RowTypes ==
  ASSUME TypeOK
  PROVE  /\ SaleRows \in [Sale -> Nat] /\ RefundRows \in [Sale -> Nat]
         /\ Standing \in [Payout -> Nat]
         /\ Earned \in Nat /\ Returned \in Nat /\ Tally(Standing) \in Nat
<1>1. SaleRows \in [Sale -> Nat] /\ RefundRows \in [Sale -> Nat]
  BY CreditedType DEF SaleRows, RefundRows, TypeOK
<1>2. Standing \in [Payout -> Nat]
  BY DEF Standing, TypeOK
<1>. QED  BY <1>1, <1>2, TallyNat, WalletAssumption DEF Earned, Returned, SaleRows, RefundRows

(* A step that touches one payout moves the sum of the standing payouts by *)
(* what that payout counts for before and after.                           *)
LEMMA PayoutMoves ==
  ASSUME TypeOK, TypeOK', NEW p \in Payout,
         \A q \in Payout \ {p} : status'[q] = status[q] /\ amount'[q] = amount[q]
  PROVE  Tally(Standing') = Tally(Standing) - Standing[p] + Standing'[p]
<1>1. Standing \in [Payout -> Nat] /\ Standing' \in [Payout -> Nat]
  BY DEF Standing, TypeOK
<1>2. \A q \in Payout \ {p} : Standing'[q] = Standing[q]
  BY DEF Standing, Live
<1>3. IsFiniteSet(Payout)
  BY WalletAssumption
<1>. QED  BY <1>1, <1>2, <1>3, TallyChange

(* A step that leaves the sales alone leaves what they earned alone.       *)
LEMMA SalesUntouched ==
  ASSUME UNCHANGED <<sold, refunded>>
  PROVE  Earned' = Earned /\ Returned' = Returned
BY DEF Earned, Returned, Credited

(* A step that touches one sale moves what is still to clear, and what is  *)
(* stuck, by what that sale counts for before and after.                   *)
LEMMA SaleMoves ==
  ASSUME TypeOK, TypeOK', NEW s \in Sale, \A t \in Sale \ {s} : sold'[t] = sold[t]
  PROVE  /\ Tally(ToClear') = Tally(ToClear) - ToClear[s] + ToClear'[s]
         /\ Tally(Stuck') = Tally(Stuck) - Stuck[s] + Stuck'[s]
         /\ Tally(ToClear) \in Nat /\ Tally(Stuck) \in Nat
<1>1. /\ ToClear \in [Sale -> Nat] /\ ToClear' \in [Sale -> Nat]
      /\ Stuck \in [Sale -> Nat] /\ Stuck' \in [Sale -> Nat]
  BY CreditedType DEF ToClear, Stuck, Credited
<1>2. \A t \in Sale \ {s} : ToClear'[t] = ToClear[t] /\ Stuck'[t] = Stuck[t]
  BY DEF ToClear, Stuck, Credited
<1>3. IsFiniteSet(Sale)
  BY WalletAssumption
<1>. QED  BY <1>1, <1>2, <1>3, TallyChange, TallyNat

LEMMA StuckTypes ==
  ASSUME TypeOK
  PROVE  Tally(ToClear) \in Nat /\ Tally(Stuck) \in Nat
<1>1. ToClear \in [Sale -> Nat] /\ Stuck \in [Sale -> Nat]
  BY CreditedType DEF ToClear, Stuck
<1>. QED  BY <1>1, TallyNat, WalletAssumption

LEMMA RowsUntouched ==
  ASSUME UNCHANGED sold
  PROVE  ToClear' = ToClear /\ Stuck' = Stuck
BY DEF ToClear, Stuck, Credited

LEMMA PayoutsUntouched ==
  ASSUME UNCHANGED <<status, amount>>
  PROVE  Standing' = Standing
BY DEF Standing, Live

-----------------------------------------------------------------------------
(* Every step keeps the invariant.                                         *)

LEMMA InitInv == Init => Inv
<1>. SUFFICES ASSUME Init PROVE Inv
  OBVIOUS
<1>1. TypeOK
  <2>1. due \in [Clearer -> SUBSET Sale]
    BY DEF Init
  <2>2. available \in Nat /\ pending \in Int /\ totalPayouts \in Int /\ surplus \in Int
    BY DEF Init
  <2>2b. flagged \in BOOLEAN
    BY Zenon DEF Init
  <2>2a. /\ refunded \in [Sale -> Nat] /\ capped \in [Refund -> Nat]
         /\ amount \in [Payout -> Nat] /\ tries \in [Payout -> Nat]
    BY DEF Init
  <2>3. /\ sold \in [Sale -> {"none", "pending", "completed"}]
        /\ refunding \in [Refund -> {"idle", "debiting", "done"}]
        /\ clearing \in [Clearer -> {"idle", "running"}]
        /\ status \in [Payout -> {"none", "processing", "completed", "failed", "reversed"}]
        /\ known \in [Payout -> BOOLEAN]
        /\ runner \in [Payout -> {"idle", "debiting", "sending", "saving", "reverting"}]
        /\ transfer \in [Payout -> {"none", "sent", "reversed"}]
    BY DEF Init
  <2>4. admin \subseteq Payout /\ alarmed \subseteq Payout /\ events \subseteq Payout
    BY DEF Init
  <2>. QED  BY <2>1, <2>2, <2>2a, <2>2b, <2>3, <2>4 DEF TypeOK
<1>2. \A p \in Payout : RunnerInv(p) /\ MoneyInv(p)
  BY DEF Init, RunnerInv, MoneyInv
<1>3. Earned = 0 /\ Returned = 0 /\ Tally(Standing) = 0
  <2>1. \A s \in Sale : SaleRows[s] = 0 /\ RefundRows[s] = 0
    BY DEF Init, SaleRows, RefundRows
  <2>2. \A p \in Payout : Standing[p] = 0
    BY DEF Init, Standing, Live
  <2>3. /\ SaleRows \in [Sale -> Nat] /\ RefundRows \in [Sale -> Nat]
        /\ Standing \in [Payout -> Nat]
    BY <1>1, RowTypes
  <2>4. Tally(SaleRows) = 0 /\ Tally(RefundRows) = 0 /\ Tally(Standing) = 0
    BY <2>1, <2>2, <2>3, TallyZero
  <2>. QED  BY <2>4 DEF Earned, Returned, SaleRows, RefundRows
<1>4. WalletExact
  BY <1>3 DEF Init, WalletExact
<1>5. NeverShorted
  BY <1>1, <1>3, StuckTypes DEF Init, NeverShorted, Withdrawn
<1>. QED  BY <1>1, <1>2, <1>4, <1>5 DEF Init, Inv, DebtFlagged

LEMMA SaleInv ==
  ASSUME Inv, NEW s \in Sale, RecordSale(s)
  PROVE  Inv'
<1>0. TypeOK'
  BY SaleTypes DEF Inv
<1> USE DEF jobVars, payoutVars, reversalVars, balanceVars
<1>1. UNCHANGED <<payoutVars, reversalVars, jobVars, surplus, totalPayouts, refunded>>
  BY DEF RecordSale
<1>2. \A p \in Payout : RunnerInv(p)' /\ MoneyInv(p)'
  BY <1>1 DEF Inv, RunnerInv, MoneyInv
<1>3. \A t \in Sale \ {s} : sold'[t] = sold[t]
  BY DEF RecordSale, Inv, TypeOK
<1>4. \A c \in Clearer : \A t \in due'[c] : sold'[t] # "none"
  BY <1>1 DEF RecordSale, Inv, TypeOK
<1>5. Standing' = Standing /\ Returned' = Returned
  BY <1>1, PayoutsUntouched DEF Returned
<1>6. Earned' = Earned + Credited(s)
  <2>1. SaleRows \in [Sale -> Nat] /\ SaleRows' \in [Sale -> Nat]
    BY <1>0, RowTypes, CreditedType DEF Inv, SaleRows, TypeOK, Credited
  <2>2. \A t \in Sale \ {s} : SaleRows'[t] = SaleRows[t]
    BY <1>3 DEF SaleRows, Credited
  <2>3. SaleRows[s] = 0 /\ SaleRows'[s] = Credited(s)
    BY DEF RecordSale, SaleRows, Inv, TypeOK, Credited
  <2>4. IsFiniteSet(Sale)
    BY WalletAssumption
  <2>5. Tally(SaleRows') = Tally(SaleRows) - SaleRows[s] + SaleRows'[s]
    BY <2>1, <2>2, <2>4, TallyChange
  <2>6. Earned = Tally(SaleRows) /\ Earned' = Tally(SaleRows')
    BY DEF Earned, SaleRows
  <2>7. Tally(SaleRows) \in Nat /\ Credited(s) \in Nat
    BY <2>1, <2>4, TallyNat, CreditedType
  <2>. QED  BY <2>3, <2>5, <2>6, <2>7
<1>7. available' = available /\ pending' = pending + Credited(s) /\ flagged' = (available' < 0 \/ pending' < 0)
  BY DEF RecordSale, SetBalance
<1>8. WalletExact' /\ DebtFlagged'
  BY <1>1, <1>5, <1>6, <1>7, RowTypes, CreditedType DEF Inv, WalletExact, TypeOK, DebtFlagged
<1>9. NeverShorted'
  <2>1. ToClear[s] = 0 /\ Stuck[s] = 0 /\ ToClear'[s] + Stuck'[s] = Credited(s)
        /\ ToClear'[s] \in Nat /\ Stuck'[s] \in Nat
    BY CreditedType, WalletAssumption DEF RecordSale, ToClear, Stuck, Credited, Inv, TypeOK
  <2>2. /\ Tally(ToClear') = Tally(ToClear) - ToClear[s] + ToClear'[s]
        /\ Tally(Stuck') = Tally(Stuck) - Stuck[s] + Stuck'[s]
        /\ Tally(ToClear) \in Nat /\ Tally(Stuck) \in Nat
    BY <1>0, <1>3, SaleMoves DEF Inv
  <2>3. /\ available \in Nat /\ totalPayouts \in Int /\ Credited(s) \in Nat
        /\ Earned \in Nat /\ Returned \in Nat
    BY RowTypes, CreditedType DEF Inv, TypeOK
  <2>. QED  BY <1>1, <1>5, <1>6, <1>7, <2>1, <2>2, <2>3 DEF Inv, NeverShorted, Withdrawn
<1>. QED  BY <1>0, <1>2, <1>4, <1>8, <1>9 DEF Inv

LEMMA RefundInv ==
  ASSUME Inv, NEW r \in Refund, RefundStep(r)
  PROVE  Inv'
<1>0. TypeOK'
  BY RefundTypes DEF Inv
<1> USE DEF payoutVars, reversalVars, balanceVars
<1>1. UNCHANGED <<payoutVars, reversalVars, due, sold, surplus, totalPayouts>>
  BY DEF RefundStep, ReadSale, DebitRefund, saleVars
<1>2. \A p \in Payout : RunnerInv(p)' /\ MoneyInv(p)'
  BY <1>1 DEF Inv, RunnerInv, MoneyInv
<1>4. \A c \in Clearer : \A t \in due'[c] : sold'[t] # "none"
  BY <1>1 DEF Inv, TypeOK
<1>5. Standing' = Standing /\ Earned' = Earned
  BY <1>1, PayoutsUntouched DEF Earned, Credited
<1>6. WalletExact' /\ DebtFlagged' /\ NeverShorted'
  <2>1. CASE ReadSale(r)
    <3>1. UNCHANGED <<balanceVars, sold, refunded>>
      BY <2>1 DEF ReadSale, saleVars
    <3>. QED  BY <1>1, <1>5, <3>1, SalesUntouched, RowsUntouched
              DEF Inv, WalletExact, DebtFlagged, NeverShorted, Withdrawn
  <2>2. CASE DebitRefund(r)
    <3> DEFINE n == capped[r]
               s == Of[r]
    <3>0. n \in Nat /\ s \in Sale
      BY WalletAssumption DEF Inv, TypeOK
    <3>1. RefundRows \in [Sale -> Nat] /\ RefundRows' \in [Sale -> Nat]
      BY <1>0, RowTypes DEF Inv, RefundRows, TypeOK
    <3>2. \A t \in Sale \ {s} : RefundRows'[t] = RefundRows[t]
      BY <2>2 DEF DebitRefund, RefundRows, Inv, TypeOK
    <3>3. RefundRows'[s] = RefundRows[s] + (IF Kind[s] = "direct" THEN 0 ELSE n)
      BY <2>2, <3>0 DEF DebitRefund, RefundRows, Inv, TypeOK
    <3>4. IsFiniteSet(Sale)
      BY WalletAssumption
    <3> HIDE DEF n, s
    <3>5. Tally(RefundRows') = Tally(RefundRows) - RefundRows[s] + RefundRows'[s]
      BY <3>0, <3>1, <3>2, <3>4, TallyChange
    <3>6. Tally(RefundRows) \in Nat /\ RefundRows[s] \in Nat
      BY <3>0, <3>1, <3>4, TallyNat
    <3>7. Returned = Tally(RefundRows) /\ Returned' = Tally(RefundRows')
      BY DEF Returned, RefundRows
    <3>8. Returned' = Returned + (IF Kind[s] = "direct" THEN 0 ELSE n)
      BY <3>0, <3>3, <3>5, <3>6, <3>7
    <3>8a. /\ available \in Nat /\ pending \in Int /\ totalPayouts \in Int
           /\ surplus \in Int /\ Earned \in Nat /\ Returned \in Nat
           /\ Tally(ToClear) \in Nat /\ Tally(Stuck) \in Nat
      BY RowTypes, StuckTypes DEF Inv, TypeOK
    <3>8b. ToClear' = ToClear /\ Stuck' = Stuck
      BY <1>1, RowsUntouched
    <3>9. CASE Kind[s] = "direct"
      <4>1. UNCHANGED <<available, pending, flagged>>
        BY <2>2, <3>9 DEF DebitRefund, s
      <4>2. Returned' = Returned
        BY <3>8, <3>8a, <3>9
      <4>. QED  BY <1>1, <1>5, <3>8b, <4>1, <4>2 DEF Inv, WalletExact, DebtFlagged, NeverShorted, Withdrawn
    <3>10. CASE Kind[s] # "direct" /\ available >= n
      <4>1. available' = available - n /\ pending' = pending /\ flagged' = (available' < 0 \/ pending' < 0)
        BY <2>2, <3>10 DEF DebitRefund, SetBalance, n, s
      <4>2. DebtFlagged'
        BY <4>1 DEF DebtFlagged
      <4>3. NeverShorted'
        BY <1>1, <1>5, <3>0, <3>8, <3>8a, <3>8b, <3>10, <4>1 DEF Inv, NeverShorted, Withdrawn
      <4>4. WalletExact'
        BY <1>1, <1>5, <3>0, <3>8, <3>8a, <3>10, <4>1 DEF Inv, WalletExact
      <4>. QED  BY <4>2, <4>3, <4>4
    <3>11. CASE Kind[s] # "direct" /\ ~(available >= n)
      <4>1. available' = 0 /\ pending' = pending - (n - available) /\ flagged' = (available' < 0 \/ pending' < 0)
        BY <2>2, <3>11 DEF DebitRefund, SetBalance, n, s
      <4>2. DebtFlagged'
        BY <4>1 DEF DebtFlagged
      <4>3. available + pending + totalPayouts = Earned - Returned + surplus
        BY DEF Inv, WalletExact
      <4>5. available' + pending' + totalPayouts' = Earned' - Returned' + surplus'
        BY <1>1, <1>5, <3>0, <3>8, <3>8a, <3>11, <4>1, <4>3
      <4>6. NeverShorted'
        BY <1>1, <1>5, <3>0, <3>8, <3>8a, <3>8b, <3>11, <4>1 DEF Inv, NeverShorted, Withdrawn
      <4>. QED  BY <1>1, <1>5, <4>2, <4>5, <4>6 DEF Inv, WalletExact
    <3>. QED  BY <3>9, <3>10, <3>11
  <2>. QED  BY <2>1, <2>2 DEF RefundStep
<1>. QED  BY <1>0, <1>1, <1>2, <1>4, <1>6 DEF Inv

LEMMA ClearingInv ==
  ASSUME Inv, NEW c \in Clearer, ClearingStep(c)
  PROVE  Inv'
<1>0. TypeOK'
  BY ClearingTypes DEF Inv
<1> USE DEF payoutVars, reversalVars, balanceVars, saleVars
<1>1. UNCHANGED <<payoutVars, reversalVars, refunded, totalPayouts>>
  BY DEF ClearingStep, FindPending, ClearSale, EndClearing
<1>2. \A p \in Payout : RunnerInv(p)' /\ MoneyInv(p)'
  BY <1>1 DEF Inv, RunnerInv, MoneyInv
<1>3. Standing' = Standing /\ Returned' = Returned
  BY <1>1, PayoutsUntouched DEF Returned
<1>4. CASE FindPending(c) \/ EndClearing(c)
  <2>1. UNCHANGED <<balanceVars, sold, surplus>>
    BY <1>4 DEF FindPending, EndClearing
  <2>2. \A d \in Clearer : \A t \in due'[d] : sold'[t] # "none"
    BY <1>4, <2>1 DEF FindPending, EndClearing, Inv, TypeOK
  <2>. QED  BY <1>0, <1>1, <1>2, <1>3, <2>1, <2>2, SalesUntouched, RowsUntouched
            DEF Inv, WalletExact, DebtFlagged, NeverShorted, Withdrawn
<1>5. ASSUME NEW s \in Sale, ClearSale(c, s)
      PROVE  Inv'
  <2>1. sold[s] # "none" /\ sold' = [sold EXCEPT ![s] = "completed"]
    BY <1>5 DEF ClearSale, Inv
  <2>2. \A d \in Clearer : \A t \in due'[d] : sold'[t] # "none"
    BY <1>5, <2>1 DEF ClearSale, Inv, TypeOK
  <2>3. Earned' = Earned
    <3>1. \A t \in Sale : (sold'[t] = "none") <=> (sold[t] = "none")
      BY <2>1 DEF Inv, TypeOK
    <3>. QED  BY <3>1 DEF Earned, Credited
  <2>4. Clears(s) \in Nat /\ Credited(s) \in Nat
    BY CreditedType
  <2>4a. available' = available + Clears(s)
    BY <1>5, <2>4 DEF ClearSale, SetBalance, Inv, TypeOK
  <2>4b. NeverShorted'
    <3>1. \A t \in Sale \ {s} : sold'[t] = sold[t]
      BY <2>1 DEF Inv, TypeOK
    <3>2. /\ Tally(ToClear') = Tally(ToClear) - ToClear[s] + ToClear'[s]
          /\ Tally(Stuck') = Tally(Stuck) - Stuck[s] + Stuck'[s]
          /\ Tally(ToClear) \in Nat /\ Tally(Stuck) \in Nat
      BY <1>0, <3>1, SaleMoves DEF Inv
    <3>3. sold[s] \in {"pending", "completed"} /\ sold'[s] = "completed"
      BY <2>1 DEF Inv, TypeOK
    <3>4. /\ ToClear'[s] = 0 /\ ToClear[s] = IF sold[s] = "pending" THEN Credited(s) ELSE 0
          /\ Stuck'[s] = IF Kind[s] = "booking" THEN Credited(s) ELSE 0
          /\ Stuck[s] = IF sold[s] = "completed" /\ Kind[s] = "booking" THEN Credited(s) ELSE 0
      BY <3>3 DEF ToClear, Stuck, Credited
    <3>5. Kind[s] # "booking" => Clears(s) = Credited(s)
      BY DEF Clears, Credited
    <3>6. ToClear[s] \in Nat /\ Stuck[s] \in Nat /\ ToClear'[s] \in Nat /\ Stuck'[s] \in Nat
      BY <2>4, <3>4
    <3>7. Clears(s) + ToClear'[s] + Stuck'[s] >= ToClear[s] + Stuck[s]
      BY <2>4, <3>3, <3>4, <3>5
    <3>8. /\ available \in Nat /\ totalPayouts \in Int /\ Earned \in Nat /\ Returned \in Nat
      BY RowTypes DEF Inv, TypeOK
    <3>. QED  BY <1>1, <1>3, <2>3, <2>4, <2>4a, <3>2, <3>6, <3>7, <3>8 DEF Inv, NeverShorted, Withdrawn
  <2>5. CASE Clears(s) > 0
    <3> DEFINE n == Clears(s)
               left == IF pending > n THEN pending - n ELSE 0
    <3>1. /\ available' = available + n /\ pending' = left
          /\ flagged' = (available' < 0 \/ pending' < 0)
          /\ surplus' = surplus + n - (pending - left)
      BY <1>5, <2>5 DEF ClearSale, SetBalance
    <3>2. left \in Int /\ pending - left <= n
      BY <2>4 DEF Inv, TypeOK
    <3> HIDE DEF n, left
    <3>3. DebtFlagged'
      BY <3>1 DEF DebtFlagged
    <3>4. available + pending + totalPayouts = Earned - Returned + surplus
      BY DEF Inv, WalletExact
    <3>5. /\ available \in Nat /\ pending \in Int /\ totalPayouts \in Int
          /\ surplus \in Int /\ Earned \in Nat /\ Returned \in Nat /\ n \in Nat
      BY <2>4, RowTypes DEF Inv, TypeOK, n
    <3>6. available' + pending' + totalPayouts' = Earned' - Returned' + surplus'
      BY <1>1, <1>3, <2>3, <3>1, <3>2, <3>4, <3>5
    <3>7. WalletExact'
      BY <1>1, <1>3, <3>6 DEF Inv, WalletExact
    <3>. QED  BY <1>0, <1>2, <2>2, <2>4b, <3>3, <3>7 DEF Inv
  <2>6. CASE ~(Clears(s) > 0)
    <3>1. UNCHANGED <<balanceVars, surplus>>
      BY <1>5, <2>6 DEF ClearSale
    <3>. QED  BY <1>0, <1>1, <1>2, <1>3, <2>2, <2>3, <2>4b, <3>1 DEF Inv, WalletExact, DebtFlagged
  <2>. QED  BY <2>5, <2>6
<1>. QED  BY <1>4, <1>5 DEF ClearingStep

(* What is left alone by every step of a payout.                           *)
LEMMA PayoutFrame ==
  ASSUME NEW p \in Payout, PayoutStep(p)
  PROVE  UNCHANGED <<saleVars, due, surplus>>
BY DEF PayoutStep, AskPayout, CreatePayout, Transfer, SaveCompleted, FailPayout, ApprovePayout,
       RetryPayout, AdminPayout, StripeReverses, AdminReverse, ApplyReversal, FlagReversal,
       saleVars, jobVars

(* A payout that starts or stops to stand moves the balance by its amount; *)
(* one that does not leaves the balance alone.                             *)
LEMMA PayoutBalance ==
  ASSUME Inv, TypeOK', NEW p \in Payout, PayoutStep(p)
  PROVE  /\ \A q \in Payout \ {p} : status'[q] = status[q] /\ amount'[q] = amount[q]
         /\ totalPayouts' = totalPayouts - Standing[p] + Standing'[p]
         /\ available' = available + Standing[p] - Standing'[p]
         /\ pending' = pending
<1> USE DEF balanceVars, payoutVars, Run, Mark, AfterDebit, Standing, Live, Inv, TypeOK
<1>0. /\ amount[p] \in Nat /\ available \in Nat /\ totalPayouts \in Int
      /\ Wanted[p] \in Nat /\ RunnerInv(p)
  BY WalletAssumption
<1>1. CASE AskPayout(p)
  BY <1>0, <1>1 DEF AskPayout
<1>2. CASE CreatePayout(p)
  BY <1>0, <1>2 DEF CreatePayout, Debit, RunnerInv
<1>3. CASE Transfer(p)
  BY <1>0, <1>3 DEF Transfer
<1>4. CASE SaveCompleted(p)
  BY <1>0, <1>4 DEF SaveCompleted, RunnerInv
<1>5. CASE FailPayout(p)
  BY <1>0, <1>5 DEF FailPayout, CreditBack, SetBalance
<1>6. CASE ApprovePayout(p)
  BY <1>0, <1>6 DEF ApprovePayout
<1>7. CASE RetryPayout(p)
  BY <1>0, <1>7 DEF RetryPayout, Debit
<1>8. CASE AdminPayout(p)
  BY <1>0, <1>8 DEF AdminPayout
<1>9. CASE StripeReverses(p) \/ AdminReverse(p) \/ FlagReversal(p)
  BY <1>0, <1>9 DEF StripeReverses, AdminReverse, FlagReversal
<1>10. CASE ApplyReversal(p)
  <2>1. CASE status[p] = "completed" /\ known[p]
    BY <1>0, <1>10, <2>1 DEF ApplyReversal, CreditBack, SetBalance
  <2>2. CASE ~(status[p] = "completed" /\ known[p])
    BY <1>0, <1>10, <2>2 DEF ApplyReversal
  <2>. QED  BY <2>1, <2>2
<1>. QED  BY <1>1, <1>2, <1>3, <1>4, <1>5, <1>6, <1>7, <1>8, <1>9, <1>10 DEF PayoutStep

LEMMA PayoutRunner ==
  ASSUME Inv, TypeOK', NEW p \in Payout, PayoutStep(p)
  PROVE  \A q \in Payout : RunnerInv(q)' /\ MoneyInv(q)'
<1> USE DEF balanceVars, payoutVars, reversalVars, Run, Mark, AfterDebit, Inv, TypeOK,
            RunnerInv, MoneyInv
<1>0. Rail[p] \in {"stripe", "manual"}
  BY WalletAssumption
<1>1. CASE AskPayout(p)
  BY <1>1 DEF AskPayout
<1>2. CASE CreatePayout(p)
  BY <1>0, <1>2 DEF CreatePayout, Debit
<1>3. CASE Transfer(p)
  BY <1>3 DEF Transfer
<1>4. CASE SaveCompleted(p)
  BY <1>4 DEF SaveCompleted
<1>5. CASE FailPayout(p)
  BY <1>5 DEF FailPayout
<1>6. CASE ApprovePayout(p)
  BY <1>6 DEF ApprovePayout
<1>7. CASE RetryPayout(p)
  BY <1>0, <1>7 DEF RetryPayout, Debit
<1>8. CASE AdminPayout(p)
  BY <1>8 DEF AdminPayout
<1>9. CASE StripeReverses(p)
  BY <1>9 DEF StripeReverses
<1>10. CASE AdminReverse(p)
  BY <1>10 DEF AdminReverse
<1>11. CASE FlagReversal(p)
  BY <1>11 DEF FlagReversal
<1>12. CASE ApplyReversal(p)
  BY <1>12 DEF ApplyReversal
<1>. QED  BY <1>1, <1>2, <1>3, <1>4, <1>5, <1>6, <1>7, <1>8, <1>9, <1>10, <1>11, <1>12 DEF PayoutStep

LEMMA PayoutInv ==
  ASSUME Inv, NEW p \in Payout, PayoutStep(p)
  PROVE  Inv'
<1>0. TypeOK'
  BY PayoutTypes DEF Inv
<1>1. \A q \in Payout : RunnerInv(q)' /\ MoneyInv(q)'
  BY <1>0, PayoutRunner
<1>2. UNCHANGED <<sold, refunded, due, surplus>>
  BY PayoutFrame DEF saleVars
<1>3. Earned' = Earned /\ Returned' = Returned
  BY <1>2, SalesUntouched
<1>4. Tally(Standing') = Tally(Standing) - Standing[p] + Standing'[p]
  BY <1>0, PayoutBalance, PayoutMoves DEF Inv
<1>5. /\ totalPayouts' = totalPayouts - Standing[p] + Standing'[p]
      /\ available' = available + Standing[p] - Standing'[p]
      /\ pending' = pending
  BY <1>0, PayoutBalance
<1>6. Standing[p] \in Nat /\ Standing'[p] \in Nat
  BY <1>0 DEF Inv, TypeOK, Standing
<1>7. /\ available \in Nat /\ pending \in Int /\ totalPayouts \in Int
      /\ surplus \in Int /\ Earned \in Nat /\ Returned \in Nat
  BY RowTypes DEF Inv, TypeOK
<1>8. /\ totalPayouts' = Tally(Standing')
      /\ available' + pending' + totalPayouts' = Earned' - Returned' + surplus'
  BY <1>2, <1>3, <1>4, <1>5, <1>6, <1>7 DEF Inv, WalletExact
<1>9. WalletExact'
  BY <1>8 DEF WalletExact
<1>9a. NeverShorted'
  <2>1. available' + totalPayouts' = available + totalPayouts
    BY <1>5, <1>6, <1>7
  <2>2. ToClear' = ToClear /\ Stuck' = Stuck
    BY <1>2, RowsUntouched
  <2>. QED  BY <1>3, <2>1, <2>2 DEF Inv, NeverShorted, Withdrawn
<1>10. DebtFlagged'
  <2>1. flagged' \in {flagged, TRUE, available' < 0 \/ pending' < 0}
    BY DEF PayoutStep, AskPayout, CreatePayout, Transfer, SaveCompleted, FailPayout, ApprovePayout,
       RetryPayout, AdminPayout, StripeReverses, AdminReverse, ApplyReversal, FlagReversal,
       balanceVars, Debit, CreditBack, SetBalance
  <2>. QED  BY <1>5, <2>1 DEF Inv, DebtFlagged
<1>. QED  BY <1>0, <1>1, <1>2, <1>9, <1>9a, <1>10 DEF Inv

LEMMA Inductive == Inv /\ [Next]_vars => Inv'
<1> SUFFICES ASSUME Inv, [Next]_vars PROVE Inv'
  OBVIOUS
<1>1. ASSUME NEW s \in Sale, RecordSale(s) PROVE Inv'
  BY <1>1, SaleInv
<1>2. ASSUME NEW r \in Refund, RefundStep(r) PROVE Inv'
  BY <1>2, RefundInv
<1>3. ASSUME NEW c \in Clearer, ClearingStep(c) PROVE Inv'
  BY <1>3, ClearingInv
<1>4. ASSUME NEW p \in Payout, PayoutStep(p) PROVE Inv'
  BY <1>4, PayoutInv
<1>5. CASE UNCHANGED vars
  BY <1>5 DEF vars, balanceVars, saleVars, jobVars, payoutVars, reversalVars, Inv, TypeOK,
     RunnerInv, MoneyInv, WalletExact, Earned, Returned, Credited, Standing, Live, DebtFlagged,
     NeverShorted, Withdrawn, ToClear, Stuck
<1>. QED  BY <1>1, <1>2, <1>3, <1>4, <1>5 DEF Next, RefundStep, ClearingStep

LEMMA Invariance == Spec => []Inv
BY InitInv, Inductive, PTL DEF Spec

-----------------------------------------------------------------------------
(* The theorems.                                                           *)

(* Every variable keeps its type; in particular what a seller can withdraw *)
(* never falls below zero, whatever payouts are created at the same time   *)
(* (debitAndCreatePayout asks inside its transaction).                     *)
THEOREM TypeCorrect == Spec => []TypeOK
<1>1. Inv => TypeOK
  BY DEF Inv
<1>. QED  BY <1>1, Invariance, PTL

(* The balance document is what the rows add up to, whatever is sold,      *)
(* refunded, cleared, paid out, failed, retried and reversed at the same   *)
(* time.                                                                   *)
THEOREM WalletIsExact == Spec => []WalletExact
<1>1. Inv => WalletExact
  BY DEF Inv
<1>. QED  BY <1>1, Invariance, PTL

(* What a seller earned and did not return is in what may be withdrawn or  *)
(* was paid out, or its row is still to clear, or it is a booking's, which *)
(* stays pending: no refund takes more than it returns, no clearing run    *)
(* drops the money of a row, and no payout loses any.                      *)
THEOREM SellerNeverShorted == Spec => []NeverShorted
<1>1. Inv => NeverShorted
  BY DEF Inv
<1>. QED  BY <1>1, Invariance, PTL

(* Debt that refunds leave is flagged in the write that makes it.          *)
THEOREM DebtIsFlagged == Spec => []DebtFlagged
<1>1. Inv => DebtFlagged
  BY DEF Inv
<1>. QED  BY <1>1, Invariance, PTL

(* Completed and reversed Stripe payouts have the transfer they claim,     *)
(* also when its answer was lost or its reversal is reported late or by    *)
(* two parties.                                                            *)
THEOREM LedgerFollowsTransfers == Spec => []LedgerFollowsMoney
<1>1. Inv => LedgerFollowsMoney
  BY DEF Inv, MoneyInv, LedgerFollowsMoney
<1>. QED  BY <1>1, Invariance, PTL
-----------------------------------------------------------------------------
(* The promise of the payouts.  A transfer that was recorded was made.     *)

KnownInv == \A p \in Payout : known[p] => transfer[p] # "none"

Wired == {p \in Payout : Rail[p] = "stripe"}
Book == [p \in Payout |-> Booked(p)]
Sum == [p \in Payout |-> IF status[p] = "none" THEN 0 ELSE amount[p]]

LEMMA KnownStarts == Init => KnownInv
BY DEF Init, KnownInv

LEMMA KnownStays == Inv /\ KnownInv /\ [Next]_vars => KnownInv'
<1>. SUFFICES ASSUME Inv, KnownInv, [Next]_vars PROVE KnownInv'
  OBVIOUS
<1>1. CASE UNCHANGED <<known, transfer>>
  BY <1>1 DEF KnownInv
<1>2. ASSUME NEW p \in Payout, PayoutStep(p) PROVE KnownInv'
  <2>. USE DEF KnownInv, Inv, TypeOK
  <2>1. CASE Transfer(p) \/ StripeReverses(p) \/ AdminReverse(p)
    BY <2>1 DEF Transfer, StripeReverses, AdminReverse, payoutVars
  <2>2. CASE SaveCompleted(p)
    BY <2>2 DEF SaveCompleted, RunnerInv, reversalVars
  <2>3. CASE ~(Transfer(p) \/ StripeReverses(p) \/ AdminReverse(p) \/ SaveCompleted(p))
    <3>1. UNCHANGED <<known, transfer>>
      BY <1>2, <2>3 DEF PayoutStep, AskPayout, CreatePayout, FailPayout, ApprovePayout, RetryPayout,
           AdminPayout, ApplyReversal, FlagReversal, payoutVars, reversalVars
    <3>. QED  BY <1>1, <3>1
  <2>. QED  BY <2>1, <2>2, <2>3
<1>3. UNCHANGED <<known, transfer>> \/ \E p \in Payout : PayoutStep(p)
  BY DEF Next, RecordSale, ReadSale, DebitRefund, FindPending, ClearSale, EndClearing,
       payoutVars, reversalVars, vars
<1>. QED  BY <1>1, <1>2, <1>3

LEMMA BooksInit == Init => Books!Init
<1>. SUFFICES ASSUME Init PROVE Books!Init
  OBVIOUS
<1>1. Book = [p \in Payout |-> "none"]
  BY DEF Init, Book, Booked
<1>2. Sum = [p \in Payout |-> 0]
  BY DEF Init, Sum
<1>3. totalPayouts = 0 /\ transfer = [p \in Payout |-> "none"]
  BY DEF Init
<1>. QED  BY <1>1, <1>2, <1>3 DEF Books!Init, Book, Sum

(* A step that leaves the books, the sums and the transfers alone.         *)
LEMMA BooksRest ==
  ASSUME UNCHANGED <<status, totalPayouts, transfer>>,
         \A p \in Payout : status[p] # "none" => amount'[p] = amount[p]
  PROVE  UNCHANGED Books!vars
<1>1. UNCHANGED Book
  BY DEF Book, Booked
<1>2. UNCHANGED Sum
  BY DEF Sum
<1>. QED  BY <1>1, <1>2 DEF Books!vars, Book, Sum

(* What one step of a payout does to its book, with the others at rest.    *)
LEMMA BookMoves ==
  ASSUME Inv, TypeOK', NEW p \in Payout, PayoutStep(p)
  PROVE  /\ Book' = [Book EXCEPT ![p] = Book'[p]]
         /\ \A q \in Payout \ {p} : Sum'[q] = Sum[q]
         /\ status[p] # "none" => amount'[p] = amount[p]
         /\ totalPayouts' = totalPayouts - Standing[p] + Standing'[p]
<1>1. \A q \in Payout \ {p} : status'[q] = status[q] /\ amount'[q] = amount[q]
  BY PayoutBalance
<1>2. \A q \in Payout \ {p} : Book'[q] = Book[q] /\ Sum'[q] = Sum[q]
  BY <1>1 DEF Book, Booked, Sum
<1>3. Book' = [Book EXCEPT ![p] = Book'[p]]
  BY <1>2 DEF Book
<1>4. status[p] # "none" => amount'[p] = amount[p]
  BY DEF PayoutStep, AskPayout, CreatePayout, Transfer, SaveCompleted, FailPayout, ApprovePayout,
       RetryPayout, AdminPayout, StripeReverses, AdminReverse, ApplyReversal, FlagReversal, payoutVars
<1>. QED  BY <1>2, <1>3, <1>4, PayoutBalance

LEMMA Takes ==
  ASSUME Inv, TypeOK', NEW p \in Payout, PayoutStep(p),
         status[p] = "none", status'[p] = "processing" \/ (p \notin Wired /\ status'[p] = "completed"),
         UNCHANGED transfer
  PROVE  Books!Take(p)
<1>1. Book[p] = "none" /\ (Book'[p] = "held" \/ (p \notin Wired /\ Book'[p] = "done"))
  BY DEF Book, Booked
<1>2. Sum'[p] \in Nat /\ Sum'[p] = Standing'[p] /\ Standing[p] = 0 /\ totalPayouts \in Int
  BY DEF Sum, Standing, Live, Inv, TypeOK
<1>3. totalPayouts' = totalPayouts + Sum'[p]
  BY <1>2, BookMoves
<1>4. Books!Enter(p, "held") \/ (p \notin Wired /\ Books!Enter(p, "done"))
  BY <1>1, BookMoves DEF Books!Enter, Book
<1>. QED  BY <1>1, <1>2, <1>3, <1>4, BookMoves DEF Books!Take, Book, Sum, Wired

(* The steps of a payout that was taken already.                           *)
LEMMA Changes ==
  ASSUME Inv, KnownInv, TypeOK', NEW p \in Payout, PayoutStep(p), status[p] # "none",
         \/ status[p] = "failed" /\ status'[p] = "processing"
         \/ status[p] = "processing" /\ status'[p] = "failed"
         \/ status[p] = "processing" /\ status'[p] = "completed" /\ (p \in Wired => transfer[p] # "none")
         \/ status[p] = "completed" /\ status'[p] = "reversed" /\ transfer[p] = "reversed",
         UNCHANGED transfer
  PROVE  Books!TakeAgain(p) \/ Books!GiveBack(p) \/ Books!Finish(p) \/ Books!Undo(p)
<1>1. /\ Sum[p] = amount[p] /\ amount[p] \in Nat /\ totalPayouts \in Int
      /\ amount'[p] = amount[p] /\ status'[p] # "none"
  BY BookMoves DEF Sum, Inv, TypeOK
<1>2. UNCHANGED Sum
  <2>1. Sum'[p] = Sum[p]
    BY <1>1 DEF Sum
  <2>. QED  BY <2>1, BookMoves DEF Sum
<1>3. CASE status[p] = "failed" /\ status'[p] = "processing"
  <2>1. Book[p] = "back" /\ Book'[p] = "held" /\ Standing[p] = 0 /\ Standing'[p] = Sum[p]
    BY <1>1, <1>3 DEF Book, Booked, Standing, Live
  <2>2. totalPayouts' = totalPayouts + Sum[p]
    BY <1>1, <2>1, BookMoves
  <2>. QED  BY <1>2, <2>1, <2>2, BookMoves DEF Books!TakeAgain, Books!Enter, Book, Sum
<1>4. CASE status[p] = "processing" /\ status'[p] = "failed"
  <2>1. Book[p] = "held" /\ Book'[p] = "back" /\ Standing[p] = Sum[p] /\ Standing'[p] = 0
    BY <1>1, <1>4 DEF Book, Booked, Standing, Live
  <2>2. totalPayouts' = totalPayouts - Sum[p]
    BY <1>1, <2>1, BookMoves
  <2>. QED  BY <1>2, <2>1, <2>2, BookMoves DEF Books!GiveBack, Books!Enter, Book, Sum
<1>5. CASE status[p] = "processing" /\ status'[p] = "completed" /\ (p \in Wired => transfer[p] # "none")
  <2>1. Book[p] = "held" /\ Book'[p] = "done" /\ Standing[p] = Sum[p] /\ Standing'[p] = Sum[p]
    BY <1>1, <1>5 DEF Book, Booked, Standing, Live
  <2>2. totalPayouts' = totalPayouts
    BY <1>1, <2>1, BookMoves
  <2>. QED  BY <1>2, <1>5, <2>1, <2>2, BookMoves DEF Books!Finish, Books!Enter, Book, Sum, Wired
<1>6. CASE status[p] = "completed" /\ status'[p] = "reversed" /\ transfer[p] = "reversed"
  <2>1. Book[p] = "done" /\ Book'[p] = "undone" /\ Standing[p] = Sum[p] /\ Standing'[p] = 0
    BY <1>1, <1>6 DEF Book, Booked, Standing, Live
  <2>2. totalPayouts' = totalPayouts - Sum[p]
    BY <1>1, <2>1, BookMoves
  <2>. QED  BY <1>2, <1>6, <2>1, <2>2, BookMoves DEF Books!Undo, Books!Enter, Book, Sum
<1>. QED  BY <1>3, <1>4, <1>5, <1>6

(* The steps of Stripe's money.                                            *)
LEMMA Wires ==
  ASSUME Inv, KnownInv, TypeOK', NEW p \in Payout,
         Transfer(p) \/ StripeReverses(p) \/ AdminReverse(p)
  PROVE  Books!Send(p) \/ Books!Recall(p) \/ UNCHANGED Books!vars
<1>1. UNCHANGED <<status, amount, totalPayouts>>
  BY DEF Transfer, StripeReverses, AdminReverse, payoutVars, balanceVars
<1>2. UNCHANGED Book /\ UNCHANGED Sum
  BY <1>1 DEF Book, Booked, Sum
<1>3. transfer \in [Payout -> {"none", "sent", "reversed"}] /\ transfer' \in [Payout -> {"none", "sent", "reversed"}]
  BY DEF Inv, TypeOK
<1>4. CASE UNCHANGED transfer
  BY <1>1, <1>4, BooksRest
<1>5. CASE Transfer(p) /\ transfer' # transfer
  <2>1. transfer[p] = "none" /\ transfer' = [transfer EXCEPT ![p] = "sent"] /\ runner[p] = "sending"
    BY <1>3, <1>5 DEF Transfer
  <2>2. p \in Wired /\ Book[p] = "held"
    BY <2>1 DEF Inv, RunnerInv, Wired, Book, Booked
  <2>. QED  BY <1>1, <1>2, <2>1, <2>2 DEF Books!Send, Book, Sum, Wired
<1>6. CASE (StripeReverses(p) \/ AdminReverse(p)) /\ transfer' # transfer
  <2>1. transfer' = [transfer EXCEPT ![p] = "reversed"] /\ transfer[p] # "none"
    BY <1>6 DEF StripeReverses, AdminReverse, KnownInv
  <2>2. transfer[p] = "sent"
    BY <1>3, <1>6, <2>1
  <2>. QED  BY <1>1, <1>2, <2>1, <2>2 DEF Books!Recall, Book, Sum
<1>. QED  BY <1>4, <1>5, <1>6

LEMMA PayoutBooks ==
  ASSUME Inv, KnownInv, NEW p \in Payout, PayoutStep(p)
  PROVE  Books!Next \/ UNCHANGED Books!vars
<1>. USE DEF Run, Mark, AfterDebit
<1>0. /\ TypeOK' /\ Rail[p] \in {"stripe", "manual"} /\ RunnerInv(p) /\ MoneyInv(p)
      /\ status \in [Payout -> {"none", "processing", "completed", "failed", "reversed"}]
      /\ amount \in [Payout -> Nat]
  BY PayoutTypes, WalletAssumption DEF Inv, TypeOK
<1>1. CASE Transfer(p) \/ StripeReverses(p) \/ AdminReverse(p)
  BY <1>0, <1>1, Wires DEF Books!Next
<1>2. CASE UNCHANGED <<status, totalPayouts, transfer>>
  <2>1. \A q \in Payout : status[q] # "none" => amount'[q] = amount[q]
    BY <1>0, BookMoves, PayoutBalance
  <2>. QED  BY <1>2, <2>1, BooksRest
<1>3. CASE CreatePayout(p) /\ status' # status
  <2>1. status[p] = "none" /\ status'[p] = "processing" /\ UNCHANGED transfer
    BY <1>0, <1>3 DEF CreatePayout, RunnerInv, reversalVars
  <2>. QED  BY <1>0, <2>1, Takes DEF Books!Next
<1>4. CASE AdminPayout(p)
  <2>1. status[p] = "none" /\ status'[p] = "completed" /\ UNCHANGED transfer /\ p \notin Wired
    BY <1>0, <1>4 DEF AdminPayout, reversalVars, Wired
  <2>. QED  BY <1>0, <2>1, Takes DEF Books!Next
<1>5. CASE RetryPayout(p) \/ FailPayout(p)
  <2>1. /\ UNCHANGED transfer
        /\ \/ status[p] = "failed" /\ status'[p] = "processing"
           \/ status[p] = "processing" /\ status'[p] = "failed"
    BY <1>0, <1>5 DEF RetryPayout, FailPayout, reversalVars
  <2>. QED  BY <1>0, <2>1, Changes DEF Books!Next
<1>6. CASE (SaveCompleted(p) \/ ApprovePayout(p)) /\ status' # status
  <2>1. /\ UNCHANGED transfer /\ status[p] = "processing" /\ status'[p] = "completed"
        /\ p \in Wired => transfer[p] # "none"
    <3>1. CASE SaveCompleted(p) /\ status' # status
      BY <1>0, <3>1 DEF SaveCompleted, RunnerInv, reversalVars
    <3>2. CASE ApprovePayout(p)
      BY <1>0, <3>2 DEF ApprovePayout, reversalVars, Wired
    <3>. QED  BY <1>6, <3>1, <3>2
  <2>. QED  BY <1>0, <2>1, Changes DEF Books!Next
<1>7. CASE ApplyReversal(p) /\ status' # status
  <2>1. /\ UNCHANGED transfer /\ status[p] = "completed" /\ status'[p] = "reversed"
        /\ transfer[p] = "reversed"
    BY <1>0, <1>7 DEF ApplyReversal, MoneyInv
  <2>. QED  BY <1>0, <2>1, Changes DEF Books!Next
<1>8. CASE \/ AskPayout(p) \/ FlagReversal(p)
           \/ CreatePayout(p) /\ status' = status
           \/ (SaveCompleted(p) \/ ApprovePayout(p)) /\ status' = status
           \/ ApplyReversal(p) /\ status' = status
  <2>1. CASE AskPayout(p) \/ FlagReversal(p)
    BY <1>2, <2>1 DEF AskPayout, FlagReversal, payoutVars, balanceVars, reversalVars
  <2>2. CASE CreatePayout(p) /\ status' = status
    BY <1>0, <1>2, <2>2 DEF CreatePayout, RunnerInv, balanceVars, reversalVars
  <2>3. CASE (SaveCompleted(p) \/ ApprovePayout(p)) /\ status' = status
    BY <1>2, <2>3 DEF SaveCompleted, ApprovePayout, balanceVars, reversalVars
  <2>4. CASE ApplyReversal(p) /\ status' = status
    BY <1>0, <1>2, <2>4 DEF ApplyReversal, balanceVars
  <2>. QED  BY <1>8, <2>1, <2>2, <2>3, <2>4
<1>. QED  BY <1>1, <1>3, <1>4, <1>5, <1>6, <1>7, <1>8 DEF PayoutStep

LEMMA BooksStep == Inv /\ KnownInv /\ [Next]_vars => [Books!Next]_Books!vars
<1>. SUFFICES ASSUME Inv, KnownInv, [Next]_vars PROVE [Books!Next]_Books!vars
  OBVIOUS
<1>1. CASE \E p \in Payout : PayoutStep(p)
  BY <1>1, PayoutBooks
<1>2. CASE UNCHANGED <<status, amount, totalPayouts, transfer>>
  BY <1>2, BooksRest
<1>3. UNCHANGED <<status, amount, totalPayouts, transfer>> \/ \E p \in Payout : PayoutStep(p)
  BY DEF Next, RecordSale, ReadSale, DebitRefund, FindPending, ClearSale, EndClearing,
       payoutVars, reversalVars, vars, balanceVars
<1>. QED  BY <1>1, <1>2, <1>3

(* Sellers' requests, the batch, admins and Stripe's events, answers lost  *)
(* and writes that fail: a payout is taken, sent, given back, finished and *)
(* undone each in its turn, with one sum from first to last.               *)
THEOREM PaidOutOnce == Spec => BooksSpec
BY InitInv, Inductive, KnownStarts, KnownStays, BooksInit, BooksStep, PTL
   DEF Spec, BooksSpec, Books!Spec
=============================================================================
