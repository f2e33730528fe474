------------------------- MODULE RefundBudgetProofs -------------------------
(***************************************************************************)
(* The compare-and-set budget is an atomic one, for any number of refunds  *)
(* of any size.                                                            *)
(***************************************************************************)
EXTENDS RefundBudget, TallyLemmas, FiniteSetTheorems, TLAPS

(* What a call asks for is a number, and so is what it is granted.         *)
LEMMA GrantFacts ==
  ASSUME NEW c \in Call, NEW total \in Int
  PROVE  /\ Grant(c, total) \in Nat
         /\ Grant(c, total) > 0 => total + Grant(c, total) <= Cap
<1>1. IsFiniteSet(c.lines) /\ c.amount \in Nat /\ c.lines \subseteq Line
  <2>1. c.lines \subseteq Line /\ c.amount \in Nat
    BY DEF Call
  <2>. QED  BY <2>1, FS_Subset, BudgetAssumption
<1>2. [l \in c.lines |-> Price[l]] \in [c.lines -> Nat]
  BY <1>1, BudgetAssumption
<1>3. Tally([l \in c.lines |-> Price[l]]) \in Nat
  BY <1>1, <1>2, TallyNat
<1>4. Wanted(c) \in Nat
  BY <1>1, <1>3 DEF Wanted
<1>5. Cap \in Nat
  BY BudgetAssumption
<1>6. Remaining(total) \in Nat /\ (Remaining(total) > 0 => total + Remaining(total) = Cap)
  BY <1>5 DEF Remaining
<1>. QED  BY <1>4, <1>5, <1>6 DEF Grant

(* Calls that have not moved money, and calls that have not taken any.     *)
Unpaid == {"idle", "reading", "comparing", "claiming", "debiting", "crediting", "releasing"}
Early == {"idle", "reading", "comparing"}

CallInv(r) ==
  /\ pc[r] \in Early \/ (pc[r] = "claiming" /\ call[r].kind = "approve") => granted[r] = 0
  /\ pc[r] \in Unpaid => debited[r] = 0 /\ paid[r] = 0
  /\ debited[r] <= granted[r] /\ paid[r] <= granted[r]
  /\ pc[r] = "comparing" => /\ Grant(call[r], seen[r].total) > 0
                            /\ ~seen[r].recorded => seen[r].total = Legacy

Inv ==
  /\ TypeOK
  /\ BudgetExact
  /\ refundedTotal <= Cap
  /\ ~recorded => refundedTotal = Legacy
  /\ \A r \in Request : CallInv(r)

(* A step of the budget itself: what one refund takes or gives back.       *)
Takes(r) ==
  LET n == Grant(call[r], refundedTotal) IN
  /\ granted[r] = 0 /\ n > 0
  /\ refundedTotal' = refundedTotal + n /\ granted' = [granted EXCEPT ![r] = n]
GivesBack(r) ==
  refundedTotal' = refundedTotal - granted[r] /\ granted' = [granted EXCEPT ![r] = 0]
Leaves == refundedTotal' = refundedTotal /\ granted' = granted
(* Every step keeps every variable's type.                                 *)
LEMMA RequestTypes ==
  ASSUME TypeOK, NEW r \in Request, RequestStep(r)
  PROVE  TypeOK'
<1> USE DEF Goto, Touch, orderVars, moneyVars, localVars
<1>1. call[r] \in Call /\ call[r].lines \subseteq Line
  BY DEF TypeOK, Call
<1>2. /\ Grant(call[r], refundedTotal) \in Nat
      /\ seen[r].total \in Int /\ Grant(call[r], seen[r].total) \in Nat
      /\ granted[r] \in Nat
  BY <1>1, GrantFacts DEF TypeOK
<1>3. {"reading", "comparing", "claiming", "debiting", "crediting", "paying", "closing",
       "releasing", "done", "failed", AfterReserve(call[r]), AfterClaim(r)} \subseteq Step
  BY DEF Step, AfterReserve, AfterClaim
<1>4. CASE BeginCancel(r) \/ BeginManual(r) \/ BeginReturn(r)
  <2>1. ReadOrder(r) /\ pc' = [pc EXCEPT ![r] = "reading"] /\ reviewed' = reviewed
    BY <1>4 DEF BeginCancel, BeginManual, BeginReturn
  <2>2. snapshot' \in [Request -> [updatedAt : Nat, marked : SUBSET Line, manualRefunded : Nat]]
    BY <2>1 DEF TypeOK, ReadOrder
  <2>3. pc' \in [Request -> Step]
    BY <1>3, <2>1 DEF TypeOK
  <2>. QED  BY <2>1, <2>2, <2>3 DEF TypeOK, ReadOrder
<1>5. CASE ClaimReview(r) \/ CheckReview(r)
  <2>1. \E s \in Step : pc' = [pc EXCEPT ![r] = s]
    BY <1>3, <1>5 DEF ClaimReview, CheckReview
  <2>2. pc' \in [Request -> Step] /\ reviewed' \in {"none", "pending", "approved"}
    BY <1>5, <2>1 DEF TypeOK, ClaimReview, CheckReview
  <2>. QED  BY <1>5, <2>2 DEF TypeOK, ClaimReview, CheckReview
<1>6. CASE ReadTotal(r)
  <2>1. seen' \in [Request -> [total : Int, recorded : BOOLEAN]]
    BY <1>6 DEF TypeOK, ReadTotal
  <2>2. pc' \in [Request -> Step]
    BY <1>3, <1>6 DEF TypeOK, ReadTotal
  <2>. QED  BY <1>6, <2>1, <2>2 DEF TypeOK, ReadTotal
<1>7. CASE WriteTotal(r)
  <2>1. refundedTotal' \in Int /\ granted' \in [Request -> Nat]
    BY <1>2, <1>7 DEF TypeOK, WriteTotal
  <2>2. pc' \in [Request -> Step]
    BY <1>3, <1>7 DEF TypeOK, WriteTotal
  <2>. QED  BY <1>7, <2>1, <2>2 DEF TypeOK, WriteTotal
<1>8. CASE RetryTotal(r)
  BY <1>3, <1>8 DEF TypeOK, RetryTotal
<1>9. CASE Release(r)
  <2>1. refundedTotal' \in Int /\ granted' \in [Request -> Nat] /\ updatedAt' \in Nat
    BY <1>2, <1>9 DEF TypeOK, Release
  <2>. QED  BY <1>3, <1>9, <2>1 DEF TypeOK, Release
<1>10. CASE ClaimCancel(r)
  BY <1>1, <1>3, <1>10 DEF TypeOK, ClaimCancel
<1>11. CASE ClaimReturn(r)
  BY <1>1, <1>3, <1>11 DEF TypeOK, ClaimReturn
<1>12. CASE LoseClaim(r)
  BY <1>3, <1>12 DEF TypeOK, LoseClaim
<1>13. CASE Debit(r) \/ FailDebit(r)
  <2>1. \E s \in {"paying", "releasing", "failed"} : pc' = [pc EXCEPT ![r] = s]
    BY <1>13 DEF Debit, FailDebit
  <2>2. pc' \in [Request -> Step]
    BY <1>3, <2>1 DEF TypeOK
  <2>3. debited' \in [Request -> Nat]
    BY <1>2, <1>13 DEF TypeOK, Debit, FailDebit
  <2>. QED  BY <1>13, <2>2, <2>3 DEF TypeOK, Debit, FailDebit
<1>14. CASE IssueCredit(r)
  BY <1>2, <1>3, <1>14 DEF TypeOK, IssueCredit
<1>15. CASE FailCredit(r)
  BY <1>1, <1>3, <1>15 DEF TypeOK, FailCredit
<1>16. CASE Pay(r)
  BY <1>2, <1>3, <1>16 DEF TypeOK, Pay
<1>17. CASE Close(r)
  <2>1. manualRefunded' \in Nat /\ updatedAt' \in Nat
    BY <1>2, <1>17 DEF TypeOK, Close
  <2>. QED  BY <1>1, <1>3, <1>17, <2>1 DEF TypeOK, Close
<1>. QED  BY <1>4, <1>5, <1>6, <1>7, <1>8, <1>9, <1>10, <1>11, <1>12, <1>13, <1>14, <1>15,
             <1>16, <1>17 DEF RequestStep

LEMMA InitInv == Init => Inv
<1>. SUFFICES ASSUME Init PROVE Inv
  OBVIOUS
<1>1. call \in [Request -> Call]
  <2>1. \E S : call \in [Request -> S]
    BY DEF Init
  <2>2. \A r \in Request : call[r] \in Call
    BY BudgetAssumption DEF Init
  <2>. QED  BY <2>1, <2>2
<1>2. Cap \in Nat /\ Legacy \in Nat /\ Legacy <= Cap
  BY BudgetAssumption
<1>3. TypeOK
  <2>1. snapshot \in [Request -> [updatedAt : Nat, marked : SUBSET Line, manualRefunded : Nat]]
        /\ seen \in [Request -> [total : Int, recorded : BOOLEAN]]
    BY DEF Init, NothingRead, NoTotal
  <2>2. /\ itemStatus \in [Line -> {"pending", "delivered", "cancelled", "refunded"}]
        /\ returnStatus \in [Line -> {"none", "received", "refunded"}]
        /\ reviewed \in {"none", "pending", "approved"}
    BY DEF Init
  <2>3. /\ pc \in [Request -> Step] /\ tries \in [Request -> Nat] /\ granted \in [Request -> Nat]
        /\ debited \in [Request -> Nat] /\ paid \in [Request -> Nat]
    BY DEF Init, Step
  <2>4. refundedTotal = Legacy /\ recorded = FALSE
    BY DEF Init
  <2>5. refundedTotal \in Int
    BY <1>2, <2>4
  <2>6. recorded \in BOOLEAN
    BY <2>4
  <2>7. updatedAt \in Nat /\ marked \subseteq Line /\ manualRefunded \in Nat
    BY DEF Init
  <2>. QED  BY <1>1, <2>1, <2>2, <2>3, <2>5, <2>6, <2>7 DEF TypeOK
<1>4. granted \in [Request -> Nat] /\ \A r \in Request : granted[r] = 0
  BY DEF Init
<1>5. Tally(granted) = 0
  BY <1>4, TallyZero
<1>6. \A r \in Request : CallInv(r)
  BY DEF Init, CallInv, Early, Unpaid
<1>. QED  BY <1>2, <1>3, <1>5, <1>6 DEF Init, Inv, BudgetExact

(* Only writing the total and releasing it move the budget, and what a     *)
(* call writes is what it would take from the total as it is now.          *)
LEMMA BudgetSteps ==
  ASSUME Inv, NEW r \in Request, RequestStep(r)
  PROVE  \/ WriteTotal(r) /\ Takes(r)
         \/ Release(r) /\ GivesBack(r)
         \/ Leaves /\ recorded' = recorded
<1>1. CASE WriteTotal(r)
  <2>1. TypeOK /\ CallInv(r) /\ (~recorded => refundedTotal = Legacy)
    BY DEF Inv
  <2>2. /\ pc[r] = "comparing" /\ granted[r] = 0 /\ Grant(call[r], seen[r].total) > 0
        /\ ~seen[r].recorded => seen[r].total = Legacy
    BY <1>1, <2>1 DEF WriteTotal, CallInv, Early
  <2>3. refundedTotal = seen[r].total
    BY <1>1, <2>1, <2>2 DEF WriteTotal, AsSeen
  <2>. QED  BY <1>1, <2>2, <2>3 DEF WriteTotal, Takes
<1>2. CASE Release(r)
  BY <1>2 DEF Release, GivesBack
<1>3. CASE ~WriteTotal(r) /\ ~Release(r)
  BY <1>3 DEF RequestStep, BeginCancel, BeginManual, BeginReturn, ReadOrder, ClaimReview, CheckReview,
              ReadTotal, RetryTotal, ClaimCancel, ClaimReturn, LoseClaim, Debit, FailDebit,
              IssueCredit, FailCredit, Pay, Close, Leaves, orderVars, localVars
<1>. QED  BY <1>1, <1>2, <1>3

(* Taking and giving back keep the total exact and within the cap.         *)
LEMMA BudgetKept ==
  ASSUME Inv, NEW r \in Request, RequestStep(r), TypeOK'
  PROVE  /\ BudgetExact' /\ refundedTotal' <= Cap
         /\ ~recorded' => refundedTotal' = Legacy
<1>1. /\ TypeOK /\ BudgetExact /\ refundedTotal <= Cap /\ (~recorded => refundedTotal = Legacy)
      /\ granted \in [Request -> Nat] /\ granted' \in [Request -> Nat] /\ refundedTotal \in Int
      /\ granted[r] \in Nat /\ call[r] \in Call /\ CallInv(r)
  BY DEF Inv, TypeOK
<1>2. Tally(granted) \in Nat /\ Cap \in Nat /\ Legacy \in Nat
  BY <1>1, TallyNat, BudgetAssumption
<1>3. CASE WriteTotal(r) /\ Takes(r)
  <2> DEFINE n == Grant(call[r], refundedTotal)
  <2>1. n \in Nat /\ n > 0 /\ refundedTotal + n <= Cap
    BY <1>1, <1>3, GrantFacts DEF Takes
  <2>2. granted[r] = 0 /\ granted'[r] = n /\ \A s \in Request \ {r} : granted'[s] = granted[s]
    BY <1>1, <1>3 DEF Takes
  <2>3. Tally(granted') = Tally(granted) - granted[r] + granted'[r]
    BY <1>1, <2>2, TallyChange, BudgetAssumption
  <2>4. refundedTotal' = refundedTotal + n /\ recorded'
    BY <1>3 DEF Takes, WriteTotal
  <2> HIDE DEF n
  <2>. QED  BY <1>1, <1>2, <2>1, <2>2, <2>3, <2>4 DEF BudgetExact
<1>4. CASE Release(r) /\ GivesBack(r)
  <2>1. granted'[r] = 0 /\ \A s \in Request \ {r} : granted'[s] = granted[s]
    BY <1>1, <1>4 DEF GivesBack
  <2>2. Tally(granted') = Tally(granted) - granted[r] + granted'[r]
    BY <1>1, <2>1, TallyChange, BudgetAssumption
  <2>3. refundedTotal' = refundedTotal - granted[r] /\ recorded' = recorded
    BY <1>4 DEF GivesBack, Release
  <2>4. ~recorded => granted[r] = 0
    <3>1. granted[r] <= Tally(granted)
      BY <1>1, TallyBound, BudgetAssumption
    <3>. QED  BY <1>1, <1>2, <3>1 DEF BudgetExact
  <2>. QED  BY <1>1, <1>2, <2>1, <2>2, <2>3, <2>4 DEF BudgetExact
<1>5. CASE Leaves /\ recorded' = recorded
  BY <1>1, <1>5 DEF Leaves, BudgetExact
<1>. QED  BY <1>3, <1>4, <1>5, BudgetSteps

(* The call that takes a step.                                             *)
LEMMA OwnCallKept ==
  ASSUME Inv, NEW r \in Request, RequestStep(r), TypeOK'
  PROVE  CallInv(r)'
<1> USE DEF Goto, orderVars, moneyVars, localVars
<1>1. /\ TypeOK /\ CallInv(r) /\ (~recorded => refundedTotal = Legacy)
      /\ granted[r] \in Nat /\ debited[r] \in Nat /\ paid[r] \in Nat
  BY DEF Inv, TypeOK
<1>2. call' = call
  BY DEF RequestStep, BeginCancel, BeginManual, BeginReturn, ReadOrder, ClaimReview, CheckReview,
         ReadTotal, WriteTotal, RetryTotal, Release, ClaimCancel, ClaimReturn, LoseClaim, Debit,
         FailDebit, IssueCredit, FailCredit, Pay, Close
<1>3. CASE BeginCancel(r) \/ BeginManual(r) \/ BeginReturn(r)
  <2>1. /\ pc[r] = "idle" /\ pc'[r] = "reading"
        /\ UNCHANGED <<granted, debited, paid>>
    BY <1>1, <1>3 DEF TypeOK, BeginCancel, BeginManual, BeginReturn, ReadOrder
  <2>. QED  BY <1>1, <2>1 DEF CallInv, Early, Unpaid
<1>4. CASE ClaimReview(r) \/ CheckReview(r)
  <2>1. /\ pc[r] = "idle" \/ (pc[r] = "claiming" /\ call[r].kind = "approve")
        /\ pc'[r] \in {"claiming", "reading", "failed"}
        /\ UNCHANGED <<granted, debited, paid>>
    BY <1>1, <1>4 DEF TypeOK, ClaimReview, CheckReview
  <2>. QED  BY <1>1, <2>1 DEF CallInv, Early, Unpaid
<1>5. CASE ReadTotal(r)
  <2>1. /\ pc[r] = "reading" /\ UNCHANGED <<granted, debited, paid>>
        /\ seen'[r] = [total |-> refundedTotal, recorded |-> recorded]
        /\ Grant(call[r], refundedTotal) > 0 => pc'[r] = "comparing"
        /\ ~(Grant(call[r], refundedTotal) > 0) => pc'[r] \in {"failed", "debiting", "claiming"}
    BY <1>1, <1>5 DEF TypeOK, ReadTotal
  <2>2. granted[r] = 0 /\ debited[r] = 0 /\ paid[r] = 0
    BY <1>1, <2>1 DEF CallInv, Early, Unpaid
  <2>. QED  BY <1>1, <1>2, <2>1, <2>2 DEF CallInv
<1>6. CASE WriteTotal(r)
  <2>1. /\ pc[r] = "comparing" /\ UNCHANGED <<debited, paid>>
        /\ granted'[r] \in Nat
        /\ pc'[r] \in {"claiming", "crediting", "debiting"}
        /\ pc'[r] = "claiming" => call[r].kind # "approve"
    BY <1>1, <1>6 DEF TypeOK, WriteTotal, AfterReserve
  <2>2. debited[r] = 0 /\ paid[r] = 0
    BY <1>1, <2>1 DEF CallInv, Unpaid
  <2>. QED  BY <1>2, <2>1, <2>2 DEF CallInv, Early
<1>7. CASE RetryTotal(r)
  <2>1. /\ pc[r] = "comparing" /\ pc'[r] \in {"reading", "failed"}
        /\ UNCHANGED <<granted, debited, paid>>
    BY <1>1, <1>7 DEF TypeOK, RetryTotal
  <2>. QED  BY <1>1, <2>1 DEF CallInv, Early, Unpaid
<1>8. CASE Release(r)
  <2>1. pc[r] = "releasing" /\ pc'[r] = "failed" /\ granted'[r] = 0 /\ UNCHANGED <<debited, paid>>
    BY <1>1, <1>8 DEF TypeOK, Release
  <2>. QED  BY <1>1, <2>1 DEF CallInv, Unpaid, Early
<1>9. CASE ClaimCancel(r) \/ ClaimReturn(r) \/ LoseClaim(r)
  <2>1. /\ pc[r] = "claiming" /\ UNCHANGED <<granted, debited, paid>>
        /\ pc'[r] \in {"closing", "crediting", "debiting", "releasing"}
    BY <1>1, <1>9 DEF TypeOK, ClaimCancel, ClaimReturn, LoseClaim, AfterClaim
  <2>. QED  BY <1>1, <2>1 DEF CallInv, Early, Unpaid
<1>10. CASE Debit(r)
  <2>1. /\ pc[r] = "debiting" /\ pc'[r] = "paying" /\ debited'[r] = granted[r]
        /\ UNCHANGED <<granted, paid>>
    BY <1>1, <1>10 DEF TypeOK, Debit
  <2>. QED  BY <1>1, <2>1 DEF CallInv, Early, Unpaid
<1>11. CASE FailDebit(r)
  <2>1. /\ pc[r] = "debiting" /\ pc'[r] \in {"releasing", "failed", "paying"}
        /\ UNCHANGED <<granted, debited, paid>>
    BY <1>1, <1>11 DEF TypeOK, FailDebit
  <2>. QED  BY <1>1, <2>1 DEF CallInv, Early, Unpaid
<1>12. CASE IssueCredit(r)
  <2>1. /\ pc[r] = "crediting" /\ pc'[r] = "closing" /\ paid'[r] \in {0, granted[r]}
        /\ UNCHANGED <<granted, debited>>
    BY <1>1, <1>12 DEF TypeOK, IssueCredit
  <2>. QED  BY <1>1, <2>1 DEF CallInv, Early, Unpaid
<1>13. CASE FailCredit(r)
  <2>1. /\ pc[r] = "crediting" /\ pc'[r] = "releasing" /\ UNCHANGED <<granted, debited, paid>>
    BY <1>1, <1>13 DEF TypeOK, FailCredit
  <2>. QED  BY <1>1, <2>1 DEF CallInv, Early, Unpaid
<1>14. CASE Pay(r)
  <2>1. /\ pc'[r] = "closing" /\ paid'[r] \in {0, granted[r]} /\ UNCHANGED <<granted, debited>>
    BY <1>1, <1>14 DEF TypeOK, Pay
  <2>. QED  BY <1>1, <2>1 DEF CallInv, Early, Unpaid
<1>15. CASE Close(r)
  <2>1. pc'[r] = "done" /\ UNCHANGED <<granted, debited, paid>>
    BY <1>1, <1>15 DEF TypeOK, Close
  <2>. QED  BY <1>1, <2>1 DEF CallInv, Early, Unpaid
<1>. QED  BY <1>3, <1>4, <1>5, <1>6, <1>7, <1>8, <1>9, <1>10, <1>11, <1>12, <1>13, <1>14, <1>15
          DEF RequestStep

(* The calls that do not.                                                  *)
LEMMA OtherCallsKept ==
  ASSUME Inv, NEW r \in Request, RequestStep(r), NEW s \in Request \ {r}
  PROVE  CallInv(s)'
<1>1. TypeOK /\ CallInv(s)
  BY DEF Inv
<1>2. /\ pc'[s] = pc[s] /\ call' = call /\ seen'[s] = seen[s]
      /\ granted'[s] = granted[s] /\ debited'[s] = debited[s] /\ paid'[s] = paid[s]
  BY <1>1 DEF TypeOK, RequestStep, BeginCancel, BeginManual, BeginReturn, ReadOrder, ClaimReview,
              CheckReview, ReadTotal, WriteTotal, RetryTotal, Release, ClaimCancel, ClaimReturn,
              LoseClaim, Debit, FailDebit, IssueCredit, FailCredit, Pay, Close, Goto,
              orderVars, moneyVars, localVars
<1>. QED  BY <1>1, <1>2 DEF CallInv

LEMMA StepKeepsInv == Inv /\ [Next]_vars => Inv'
<1>1. ASSUME Inv, NEW r \in Request, RequestStep(r)
      PROVE  Inv'
  <2>1. TypeOK'
    BY <1>1, RequestTypes DEF Inv
  <2>2. \A s \in Request : CallInv(s)'
    BY <1>1, <2>1, OwnCallKept, OtherCallsKept
  <2>. QED  BY <1>1, <2>1, <2>2, BudgetKept DEF Inv
<1>2. ASSUME Inv, UNCHANGED vars
      PROVE  Inv'
  BY <1>2 DEF Inv, TypeOK, BudgetExact, CallInv, vars, orderVars, moneyVars, localVars
<1>. QED  BY <1>1, <1>2 DEF Next

LEMMA InvAlways == Spec => []Inv
BY InitInv, StepKeepsInv, PTL DEF Spec

(* The running total in the order document is always what was refunded     *)
(* before plus what the calls hold, whatever races they run.               *)
THEOREM BudgetIsExact == Spec => []BudgetExact
<1>1. Inv => BudgetExact
  BY DEF Inv
<1>. QED  BY <1>1, InvAlways, PTL

(* All refunds of a sub-order together, by whatever path, never give the   *)
(* buyer, or take from the seller, more than was paid for it.              *)
THEOREM NobodyOverRefunded == Spec => []NeverOverRefunded
<1>1. ASSUME Inv
      PROVE  NeverOverRefunded
  <2>1. /\ granted \in [Request -> Nat] /\ debited \in [Request -> Nat] /\ paid \in [Request -> Nat]
        /\ refundedTotal = Legacy + Tally(granted) /\ refundedTotal <= Cap
    BY <1>1 DEF Inv, TypeOK, BudgetExact
  <2>2. \A r \in Request : debited[r] <= granted[r] /\ paid[r] <= granted[r]
    BY <1>1 DEF Inv, CallInv
  <2>3. Tally(debited) <= Tally(granted)
    BY <2>1, <2>2, TallyMonotone, BudgetAssumption
  <2>4. Tally(paid) <= Tally(granted)
    BY <2>1, <2>2, TallyMonotone, BudgetAssumption
  <2>5. Tally(granted) \in Nat /\ Tally(debited) \in Nat /\ Tally(paid) \in Nat
    BY <2>1, TallyNat, BudgetAssumption
  <2>. QED  BY <2>1, <2>3, <2>4, <2>5, BudgetAssumption DEF NeverOverRefunded
<1>. QED  BY <1>1, InvAlways, PTL

(* Reading, comparing and setting the total in the order document does     *)
(* what an atomic budget does: each refund takes all it was granted in one *)
(* step, from what is left at that step, or nothing.                       *)
THEOREM ImplementsPool == Spec => PoolSpec
<1>1. Init => Pool!Init
  BY BudgetAssumption DEF Init, Pool!Init
<1>2. ASSUME Inv, [Next]_vars
      PROVE  [Pool!Next]_<<Cap - refundedTotal, granted>>
  <2>1. /\ TypeOK /\ Cap \in Nat /\ refundedTotal \in Int /\ granted \in [Request -> Nat]
    BY <1>2, BudgetAssumption DEF Inv, TypeOK
  <2>2. ASSUME NEW r \in Request, RequestStep(r)
        PROVE  [Pool!Next]_<<Cap - refundedTotal, granted>>
    <3>1. CASE Takes(r)
      <4> DEFINE n == Grant(call[r], refundedTotal)
      <4>1. n \in Nat /\ n > 0 /\ refundedTotal + n <= Cap
        BY <2>1, <3>1, GrantFacts DEF Takes, TypeOK
      <4>2. /\ granted[r] = 0 /\ granted' = [granted EXCEPT ![r] = n]
            /\ refundedTotal' = refundedTotal + n
        BY <3>1 DEF Takes
      <4> HIDE DEF n
      <4>3. Pool!Take(r, n) /\ n \in 1 .. (Cap - refundedTotal)
        BY <2>1, <4>1, <4>2 DEF Pool!Take
      <4>. QED  BY <4>3 DEF Pool!Next
    <3>2. CASE GivesBack(r)
      <4>1. CASE granted[r] > 0
        <5>1. Pool!GiveBack(r)
          BY <2>1, <3>2, <4>1 DEF GivesBack, Pool!GiveBack
        <5>. QED  BY <5>1 DEF Pool!Next
      <4>2. CASE granted[r] = 0
        BY <2>1, <3>2, <4>2 DEF GivesBack
      <4>. QED  BY <2>1, <4>1, <4>2
    <3>3. CASE Leaves
      BY <3>3 DEF Leaves
    <3>. QED  BY <1>2, <2>2, <3>1, <3>2, <3>3, BudgetSteps
  <2>3. CASE UNCHANGED vars
    BY <2>3 DEF vars, orderVars, localVars
  <2>. QED  BY <1>2, <2>2, <2>3 DEF Next
<1>. QED  BY <1>1, <1>2, InvAlways, PTL DEF Spec, PoolSpec, Pool!Spec

-----------------------------------------------------------------------------
(* Returned lines, and calls that fail.                                    *)

(* A return call has its lines from the claim on, until it opens them      *)
(* again: as long as it has them no other return call gets any of them.    *)
HasLines(r) ==
  call[r].kind = "return" /\ pc[r] \in {"crediting", "debiting", "paying", "closing", "done"}

LinesInv ==
  /\ FailureIsClean
  /\ \A r \in Request : HasLines(r) => \A l \in call[r].lines : returnStatus[l] = "refunded"
  /\ \A r, s \in Request : r # s /\ HasLines(r) /\ HasLines(s)
                           => call[r].lines \cap call[s].lines = {}
  /\ \A r \in Request : call[r].kind = "return" /\ paid[r] > 0 => HasLines(r)

LEMMA InitLines == Init => LinesInv
BY DEF Init, LinesInv, FailureIsClean, HasLines

(* A call fails where it never held anything or has just released it.      *)
LEMMA FailureKept ==
  ASSUME Inv, FailureIsClean, NEW r \in Request, RequestStep(r)
  PROVE  FailureIsClean'
<1> USE DEF Goto, orderVars, moneyVars, localVars
<1>1. /\ pc \in [Request -> Step] /\ granted \in [Request -> Nat] /\ paid \in [Request -> Nat]
      /\ CallInv(r)
  BY DEF Inv, TypeOK
<1>2. /\ call' = call
      /\ \A s \in Request \ {r} : pc'[s] = pc[s] /\ granted'[s] = granted[s] /\ paid'[s] = paid[s]
  BY <1>1 DEF RequestStep, BeginCancel, BeginManual, BeginReturn, ReadOrder, ClaimReview,
              CheckReview, ReadTotal, WriteTotal, RetryTotal, Release, ClaimCancel, ClaimReturn,
              LoseClaim, Debit, FailDebit, IssueCredit, FailCredit, Pay, Close
<1>3. ASSUME pc'[r] = "failed", call[r].kind # "approve"
      PROVE  granted'[r] = 0 /\ paid'[r] = 0
  <2>1. ReadTotal(r) \/ RetryTotal(r) \/ Release(r)
    BY <1>1, <1>3 DEF RequestStep, BeginCancel, BeginManual, BeginReturn, ReadOrder, ClaimReview,
              CheckReview, WriteTotal, ClaimCancel, ClaimReturn, LoseClaim, Debit, FailDebit,
              IssueCredit, FailCredit, Pay, Close, AfterReserve, AfterClaim
  <2>2. pc[r] \in Unpaid /\ UNCHANGED paid
    BY <2>1 DEF ReadTotal, RetryTotal, Release, Unpaid
  <2>3. CASE Release(r)
    BY <1>1, <2>2, <2>3 DEF Release, CallInv
  <2>4. CASE ReadTotal(r) \/ RetryTotal(r)
    <3>1. pc[r] \in Early /\ UNCHANGED granted
      BY <2>4 DEF ReadTotal, RetryTotal, Early
    <3>. QED  BY <1>1, <2>2, <3>1 DEF CallInv
  <2>. QED  BY <2>1, <2>3, <2>4
<1>. QED  BY <1>2, <1>3 DEF FailureIsClean

(* A step claims lines, opens them, or leaves them alone.                  *)
LEMMA LinesKept ==
  ASSUME Inv, LinesInv, NEW r \in Request, RequestStep(r)
  PROVE  LinesInv'
<1> USE DEF Goto, orderVars, moneyVars, localVars
<1>1. /\ pc \in [Request -> Step] /\ paid \in [Request -> Nat] /\ CallInv(r)
      /\ returnStatus \in [Line -> {"none", "received", "refunded"}]
      /\ \A s \in Request : call[s].lines \subseteq Line
  BY DEF Inv, TypeOK, Call
<1>2. call' = call /\ \A s \in Request \ {r} : pc'[s] = pc[s] /\ paid'[s] = paid[s]
  BY <1>1 DEF RequestStep, BeginCancel, BeginManual, BeginReturn, ReadOrder, ClaimReview,
              CheckReview, ReadTotal, WriteTotal, RetryTotal, Release, ClaimCancel, ClaimReturn,
              LoseClaim, Debit, FailDebit, IssueCredit, FailCredit, Pay, Close
<1>3. \A s \in Request \ {r} : HasLines(s)' <=> HasLines(s)
  BY <1>2 DEF HasLines
<1>4. FailureIsClean'
  BY FailureKept DEF LinesInv
<1>5. CASE ClaimReturn(r)
  <2>1. /\ \A l \in call[r].lines : returnStatus[l] = "received" /\ returnStatus'[l] = "refunded"
        /\ \A l \in Line \ call[r].lines : returnStatus'[l] = returnStatus[l]
        /\ call[r].kind = "return" /\ UNCHANGED paid
    BY <1>1, <1>5 DEF ClaimReturn
  <2>2. HasLines(r)'
    BY <1>1, <1>2, <1>5 DEF ClaimReturn, AfterClaim, HasLines
  <2>3. \A s \in Request : HasLines(s)' => \A l \in call[s].lines : returnStatus'[l] = "refunded"
    BY <1>1, <1>3, <2>1 DEF LinesInv
  <2>4. \A s \in Request \ {r} : HasLines(s) => call[r].lines \cap call[s].lines = {}
    BY <2>1 DEF LinesInv
  <2>5. \A s \in Request : call[s].kind = "return" /\ paid'[s] > 0 => HasLines(s)'
    BY <1>3, <2>1, <2>2 DEF LinesInv
  <2>. QED  BY <1>2, <1>3, <1>4, <2>3, <2>4, <2>5 DEF LinesInv
<1>6. CASE FailCredit(r)
  <2>1. pc[r] = "crediting" /\ pc'[r] = "releasing" /\ UNCHANGED paid
    BY <1>1, <1>6 DEF FailCredit
  <2>2. ~HasLines(r)' /\ paid[r] = 0
    BY <1>1, <2>1 DEF HasLines, CallInv, Unpaid
  <2>3. ASSUME NEW s \in Request \ {r}, HasLines(s), NEW l \in call[s].lines
        PROVE  returnStatus'[l] = "refunded"
    <3>1. call[r].kind = "return" => l \notin call[r].lines
      BY <2>1, <2>3 DEF LinesInv, HasLines
    <3>2. returnStatus[l] = "refunded" /\ l \in Line
      BY <1>1, <2>3 DEF LinesInv
    <3>. QED  BY <1>6, <3>1, <3>2 DEF FailCredit
  <2>4. \A s \in Request : call[s].kind = "return" /\ paid'[s] > 0 => HasLines(s)'
    BY <1>3, <2>1, <2>2 DEF LinesInv
  <2>. QED  BY <1>2, <1>3, <1>4, <2>2, <2>3, <2>4 DEF LinesInv
<1>7. CASE ~ClaimReturn(r) /\ ~FailCredit(r)
  <2>1. UNCHANGED returnStatus
    BY <1>7 DEF RequestStep, BeginCancel, BeginManual, BeginReturn, ReadOrder, ClaimReview,
              CheckReview, ReadTotal, WriteTotal, RetryTotal, Release, ClaimCancel, LoseClaim,
              Debit, FailDebit, IssueCredit, Pay, Close
  <2>2. HasLines(r)' <=> HasLines(r)
    BY <1>1, <1>2, <1>7 DEF RequestStep, BeginCancel, BeginManual, BeginReturn, ReadOrder,
              ClaimReview, CheckReview, ReadTotal, WriteTotal, RetryTotal, Release, ClaimCancel,
              LoseClaim, Debit, FailDebit, IssueCredit, Pay, Close, AfterReserve, AfterClaim, HasLines
  <2>3. call[r].kind = "return" /\ paid'[r] > 0 => HasLines(r)'
    <3>1. CASE IssueCredit(r) \/ Pay(r)
      <4>1. pc'[r] = "closing"
        BY <1>1, <3>1 DEF IssueCredit, Pay
      <4>. QED  BY <1>2, <4>1 DEF HasLines
    <3>2. CASE UNCHANGED paid
      BY <2>2, <3>2 DEF LinesInv
    <3>3. IssueCredit(r) \/ Pay(r) \/ UNCHANGED paid
      BY DEF RequestStep, BeginCancel, BeginManual, BeginReturn, ReadOrder, ClaimReview,
              CheckReview, ReadTotal, WriteTotal, RetryTotal, Release, ClaimCancel, ClaimReturn,
              LoseClaim, Debit, FailDebit, FailCredit, Close
    <3>. QED  BY <3>1, <3>2, <3>3
  <2>. QED  BY <1>2, <1>3, <1>4, <2>1, <2>2, <2>3 DEF LinesInv
<1>. QED  BY <1>5, <1>6, <1>7

LEMMA LinesAlways == Spec => []LinesInv
<1>1. Inv /\ LinesInv /\ [Next]_vars => LinesInv'
  <2>1. ASSUME LinesInv, UNCHANGED vars PROVE LinesInv'
    BY <2>1 DEF LinesInv, FailureIsClean, HasLines, vars, orderVars, moneyVars, localVars
  <2>. QED  BY <2>1, LinesKept DEF Next
<1>. QED  BY <1>1, InitLines, InvAlways, PTL DEF Spec

(* Every variable of the refunds keeps its type.                           *)
THEOREM TypeCorrect == Spec => []TypeOK
<1>1. Inv => TypeOK
  BY DEF Inv
<1>. QED  BY <1>1, InvAlways, PTL

(* A refund that fails, at whatever point and after whatever races, has    *)
(* given its part of the budget back and paid nothing.                     *)
THEOREM FailsClean == Spec => []FailureIsClean
<1>1. LinesInv => FailureIsClean
  BY DEF LinesInv
<1>. QED  BY <1>1, LinesAlways, PTL

(* No two return calls pay for a line, also when the first try to pay for  *)
(* it failed and OrderReturnsService.refund opened the line again.         *)
THEOREM LinePaidOnce == Spec => []ReturnPaidOnce
<1>1. LinesInv => ReturnPaidOnce
  BY DEF LinesInv, ReturnPaidOnce
<1>. QED  BY <1>1, LinesAlways, PTL
=============================================================================
