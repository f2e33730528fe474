------------------------ MODULE LocationStockProofs ------------------------
(***************************************************************************)
(* The book follows the shelf but for what was written off again, units on *)
(* trucks are counted exactly and a correction is applied once but for     *)
(* audit rows that could not be saved, for any number of locations,        *)
(* orders, transfers and corrections.                                      *)
(***************************************************************************)
EXTENDS LocationStock, TallyLemmas, TLAPS

(* Rows exist once something was put in one; a transfer takes from a row.  *)
RowInv ==
  /\ seed # Nothing => split = {}
  /\ \A t \in Transfer : /\ received[t] <= Sent[t]
                         /\ truck[t] = "in_transit" => From[t] \in split
                         /\ truck[t] = "partially_received" => split # {}
SeenInv == \A a \in Change : seen[a] # Nothing => Reason[a] = "damaged"

(* What is being applied was applied before only if its audit row could    *)
(* not be saved; what was applied has its audit row due, or saved.         *)
ApprovalInv ==
  /\ \A a \in applying : applied[a] = Reopened(a) /\ request[a] # "pending" /\ a \notin logging
  /\ \A a \in logging : applied[a] = Reopened(a) + 1 /\ request[a] # "pending"
                        /\ Reason[a] # "correction"
  /\ \A a \in Change : applied[a] >= Reopened(a)

(* A count that was not disturbed has found what was wrong from the start. *)
CountInv ==
  /\ count.status \in {"none", "open"} => ~count.applied
  /\ count.status = "none" => ~count.steady
  /\ count.steady => short \/ Finding = OnShelf - OnBook + count.again

Inv ==
  /\ TypeOK /\ RowInv /\ SeenInv
  /\ InTransitExact
  /\ ApprovalInv /\ AppliedOnce
  /\ CountInv /\ BookFollowsShelf

SeedStep == ReadSeed \/ WriteSeed
ReturnStep(r) == ShelveReturn(r) \/ BookReturn(r)

Base == TypeOK /\ RowInv /\ SeenInv

-----------------------------------------------------------------------------
(* Types, rows, and what approvals have read.                              *)

LEMMA Arithmetic ==
  ASSUME NEW a \in Nat, NEW b \in Nat
  PROVE  /\ Monus(a, b) \in Nat /\ (a >= b => Monus(a, b) = a - b)
         /\ Least(a, b) \in Nat /\ Least(a, b) <= a /\ Least(a, b) <= b
BY DEF Monus, Least

LEMMA BookTypes ==
  ASSUME TypeOK
  PROVE  /\ stock \in Nat /\ committed \in Nat /\ damaged \in Nat /\ inTransit \in Nat
         /\ shelf \in Nat
BY DEF TypeOK

(* A row keeps its type when units are put in it.                          *)
LEMMA RaiseType ==
  ASSUME TypeOK, NEW l \in Location, NEW n \in Nat, Raise(l, n)
  PROVE  /\ held' \in [Location -> Nat] /\ split' \subseteq Location /\ l \in split'
         /\ split \subseteq split'
         /\ \A k \in Location \ split' : held'[k] = 0
BY DEF TypeOK, Raise

LEMMA LowerType ==
  ASSUME TypeOK, NEW l \in Location, NEW n \in Nat, Lower(l, n)
  PROVE  /\ held' \in [Location -> Nat] /\ split' = split
         /\ \A k \in Location \ split' : held'[k] = 0
         /\ n > 0 => l \in split
BY DEF TypeOK, Lower

LEMMA SeedBase ==
  ASSUME Base, SeedStep
  PROVE  Base'
<1> USE DEF Base, TypeOK, RowInv, SeenInv, variantVars, rowVars, orderVars, transferVars,
            approvalVars, countVars, Nothing
<1>1. CASE ReadSeed
  BY <1>1 DEF ReadSeed
<1>2. CASE WriteSeed
  <2>1. /\ split' \subseteq Location /\ held' \in [Location -> Nat] /\ seed' = Nothing
        /\ \A l \in Location \ split' : held'[l] = 0
    BY <1>2, LocationAssumption DEF WriteSeed
  <2>2. split' # {} /\ split = {}
    BY <1>2 DEF WriteSeed
  <2>. QED  BY <1>2, <2>1, <2>2 DEF WriteSeed
<1>. QED  BY <1>1, <1>2 DEF SeedStep

LEMMA OrderBase ==
  ASSUME Base, NEW o \in Order, OrderStep(o)
  PROVE  Base'
<1> USE DEF variantVars, rowVars, orderVars, transferVars, approvalVars, countVars
<1>0. Asks[o] \in Nat
  BY LocationAssumption
<1>1. UNCHANGED <<split, seed, transferVars, approvalVars, back, arrived, countVars, damaged, inTransit>>
  BY DEF OrderStep, Reserve, Deduct, FindRows, Drain
<1>2. RowInv' /\ SeenInv'
  BY <1>1 DEF Base, RowInv, SeenInv
<1>3. CASE Reserve(o)
  BY <1>0, <1>2, <1>3 DEF Base, Reserve, TypeOK
<1>4. CASE Deduct(o)
  <2>1. stock' \in Nat /\ committed' \in Nat /\ shelf' \in Nat
    <3>1. stock' = Monus(stock, Asks[o]) /\ committed' = Monus(committed, Asks[o])
          /\ shelf + -Asks[o] >= 0 /\ shelf' = shelf + -Asks[o]
      BY <1>4 DEF Deduct, Physically
    <3>2. stock \in Nat /\ committed \in Nat /\ shelf \in Nat
      BY BookTypes DEF Base
    <3>3. stock' \in Nat /\ committed' \in Nat
      BY <1>0, <3>1, <3>2, Arithmetic
    <3>. QED  BY <1>0, <3>1, <3>2, <3>3
  <2>2. order' \in [Order -> {"new", "reserved", "shipped", "draining"}] /\ left' \in [Order -> Nat]
    BY <1>0, <1>4 DEF Base, Deduct, TypeOK
  <2>3. short' \in BOOLEAN
    BY <1>4 DEF Deduct
  <2>. QED  BY <1>1, <1>2, <1>4, <2>1, <2>2, <2>3 DEF Base, Deduct, TypeOK
<1>5. CASE FindRows(o)
  BY <1>2, <1>5 DEF Base, FindRows, TypeOK
<1>6. ASSUME NEW l \in Location, Drain(o, l)
      PROVE  Base'
  <2>1. PICK n \in 0 .. Least(left[o], held[l]) :
          /\ due' = [due EXCEPT ![o] = IF n < left[o] THEN @ \ {l} ELSE {}]
          /\ held' = [held EXCEPT ![l] = @ - n] /\ left' = [left EXCEPT ![o] = @ - n]
    BY <1>6 DEF Drain
  <2>2. left[o] \in Nat /\ held[l] \in Nat
    BY DEF Base, TypeOK
  <2>3. n \in Nat /\ n <= left[o] /\ n <= held[l]
    <3>1. /\ Least(left[o], held[l]) \in Nat
          /\ Least(left[o], held[l]) <= left[o] /\ Least(left[o], held[l]) <= held[l]
      BY <2>2, Arithmetic
    <3>. QED  BY <2>2, <3>1
  <2>4. /\ held' \in [Location -> Nat] /\ left' \in [Order -> Nat]
        /\ due' \in [Order -> SUBSET Location]
        /\ \A k \in Location \ split : held'[k] = 0
    BY <2>1, <2>2, <2>3 DEF Base, TypeOK
  <2>. QED  BY <1>1, <1>2, <1>6, <2>4 DEF Base, Drain, TypeOK
<1>. QED  BY <1>3, <1>4, <1>5, <1>6 DEF OrderStep

LEMMA TransferBase ==
  ASSUME Base, NEW t \in Transfer, TransferStep(t)
  PROVE  Base'
<1> USE DEF variantVars, rowVars, orderVars, transferVars, approvalVars, countVars
<1>0. /\ Sent[t] \in Nat /\ Sent[t] > 0 /\ From[t] \in Location /\ To[t] \in Location
      /\ received[t] \in Nat /\ received[t] <= Sent[t]
  BY LocationAssumption DEF Base, TypeOK, RowInv
<1>1. UNCHANGED <<stock, committed, damaged, seed, shelf, orderVars, approvalVars, back, arrived,
                  countVars, short>>
  BY DEF TransferStep, ShipTransfer, ReceiveTransfer, CancelTransfer
<1>2. SeenInv'
  BY <1>1 DEF Base, SeenInv
<1>3. seed # Nothing => split = {}
  BY DEF Base, RowInv
<1>4. CASE ShipTransfer(t)
  <2>1. /\ held' \in [Location -> Nat] /\ split' = split /\ From[t] \in split
        /\ \A k \in Location \ split' : held'[k] = 0
    BY <1>0, <1>4, LowerType DEF ShipTransfer, Base
  <2>2. inTransit' \in Nat
    BY <1>0, <1>4, BookTypes DEF ShipTransfer, Base
  <2>3. truck' = [truck EXCEPT ![t] = "in_transit"] /\ received' = received
    BY <1>4 DEF ShipTransfer
  <2>4. RowInv'
    BY <1>1, <2>1, <2>3 DEF Base, RowInv, TypeOK
  <2>. QED  BY <1>1, <1>2, <2>1, <2>2, <2>3, <2>4 DEF Base, TypeOK
<1>5. CASE ReceiveTransfer(t)
  <2>1. PICK n \in 1 .. Sent[t] - received[t] :
          /\ received' = [received EXCEPT ![t] = @ + n]
          /\ truck' = [truck EXCEPT ![t] = IF received[t] + n >= Sent[t] THEN "received"
                                           ELSE "partially_received"]
          /\ Raise(To[t], n)
          /\ inTransit' = Monus(inTransit, n)
    BY <1>5 DEF ReceiveTransfer
  <2>2. n \in Nat /\ received[t] + n <= Sent[t]
    BY <1>0
  <2>3. /\ held' \in [Location -> Nat] /\ split' \subseteq Location /\ To[t] \in split'
        /\ split \subseteq split' /\ \A k \in Location \ split' : held'[k] = 0
    BY <1>0, <2>1, <2>2, RaiseType DEF Base
  <2>4. inTransit' \in Nat
    BY <2>1, <2>2, Arithmetic, BookTypes DEF Base
  <2>5. split # {}
    BY <1>5 DEF ReceiveTransfer, Base, RowInv
  <2>6. /\ received' \in [Transfer -> Nat]
        /\ truck' \in [Transfer -> {"draft", "in_transit", "partially_received", "received", "cancelled"}]
    BY <1>0, <2>1, <2>2 DEF Base, TypeOK
  <2>7. RowInv'
    <3>1. seed' # Nothing => split' = {}
      BY <1>1, <1>3, <2>5
    <3>2. ASSUME NEW u \in Transfer
          PROVE  /\ received'[u] <= Sent[u]
                 /\ truck'[u] = "in_transit" => From[u] \in split'
                 /\ truck'[u] = "partially_received" => split' # {}
      <4>1. CASE u = t
        BY <1>0, <2>1, <2>2, <2>3, <4>1 DEF Base, TypeOK
      <4>2. CASE u # t
        BY <2>1, <2>3, <4>2 DEF Base, TypeOK, RowInv
      <4>. QED  BY <4>1, <4>2
    <3>. QED  BY <3>1, <3>2 DEF RowInv
  <2>. QED  BY <1>1, <1>2, <2>3, <2>4, <2>6, <2>7 DEF Base, TypeOK
<1>6. CASE CancelTransfer(t)
  <2>1. From[t] \in split /\ split' = split /\ received' = received
    BY <1>6 DEF CancelTransfer, Base, RowInv
  <2>2. held' \in [Location -> Nat] /\ \A k \in Location \ split' : held'[k] = 0
    BY <1>0, <1>6, <2>1 DEF CancelTransfer, Base, TypeOK
  <2>3. inTransit' \in Nat
    BY <1>0, <1>6, Arithmetic, BookTypes DEF CancelTransfer, Base
  <2>4. truck' = [truck EXCEPT ![t] = "cancelled"]
    BY <1>6 DEF CancelTransfer
  <2>5. RowInv'
    BY <1>1, <2>1, <2>4 DEF Base, RowInv, TypeOK
  <2>. QED  BY <1>1, <1>2, <2>1, <2>2, <2>3, <2>4, <2>5 DEF Base, TypeOK
<1>. QED  BY <1>4, <1>5, <1>6 DEF TransferStep

LEMMA ApprovalBase ==
  ASSUME Base, NEW a \in Change, ApprovalStep(a)
  PROVE  Base'
<1> USE DEF variantVars, rowVars, orderVars, transferVars, approvalVars, countVars
<1>0. /\ Delta[a] \in Int /\ Reason[a] \in {"correction", "damaged", "write_off"}
      /\ Place[a] \in Location \cup {Nowhere} /\ (Reason[a] # "correction" => Delta[a] < 0)
      /\ applied[a] \in Nat
  BY LocationAssumption DEF Base, TypeOK
<1>1. CASE \/ Approve(a) \/ Release(a) \/ SaveAdjustment(a) \/ FailAdjustment(a)
           \/ ReadToReject(a) \/ Reject(a)
  <2>1. /\ request' \in [Change -> {"pending", "approved", "rejected"}]
        /\ rejecting' \subseteq Change /\ applying' \subseteq Change
        /\ seen' \in [Change -> Nat \cup {Nothing}]
        /\ logging' \subseteq Change /\ unlogged' \in [Change -> Nat]
        /\ \A b \in Change : seen'[b] = seen[b] \/ seen'[b] = Nothing
    BY <1>1, LocationAssumption DEF Approve, Release, SaveAdjustment, FailAdjustment, WaitsAgain,
       ReadToReject, Reject, Base, TypeOK
  <2>2. UNCHANGED <<variantVars, rowVars, seed, shelf, orderVars, transferVars, applied,
                    back, arrived, countVars, short>>
    BY <1>1 DEF Approve, Release, SaveAdjustment, FailAdjustment, ReadToReject, Reject
  <2>3. RowInv' /\ SeenInv'
    BY <2>1, <2>2 DEF Base, RowInv, SeenInv
  <2>. QED  BY <2>1, <2>2, <2>3 DEF Base, TypeOK
<1>2. CASE ReadDamaged(a)
  <2>1. /\ seen' \in [Change -> Nat \cup {Nothing}]
        /\ \A b \in Change : seen'[b] # Nothing => Reason[b] = "damaged"
    BY <1>2 DEF ReadDamaged, Base, TypeOK, SeenInv
  <2>2. UNCHANGED <<variantVars, rowVars, seed, shelf, orderVars, transferVars, request, applied,
                    rejecting, applying, logging, unlogged, back, arrived, countVars, short>>
    BY <1>2 DEF ReadDamaged
  <2>. QED  BY <2>1, <2>2 DEF Base, TypeOK, RowInv, SeenInv
<1>3. ASSUME Applied(a)
      PROVE  /\ applied' \in [Change -> Nat] /\ seen' \in [Change -> Nat \cup {Nothing}]
             /\ request' = request /\ rejecting' = rejecting /\ applying' \subseteq Change
             /\ unlogged' = unlogged
             /\ SeenInv'
  BY <1>0, <1>3 DEF Applied, Base, TypeOK, SeenInv
<1>4. CASE Correct(a)
  <2>1. /\ held' \in [Location -> Nat] /\ split' \subseteq Location /\ split \subseteq split'
        /\ \A k \in Location \ split' : held'[k] = 0
        /\ split = {} => split' = {}
    <3>1. CASE Place[a] = Nowhere
      BY <1>4, <3>1 DEF Correct, Base, TypeOK
    <3>2. CASE Place[a] # Nowhere /\ Delta[a] > 0
      BY <1>0, <1>4, <3>2, RaiseType DEF Correct, Base
    <3>3. CASE Place[a] # Nowhere /\ ~(Delta[a] > 0)
      <4>1. -Delta[a] \in Nat /\ Place[a] \in Location /\ Lower(Place[a], -Delta[a]) /\ split # {}
        BY <1>0, <1>4, <3>3 DEF Correct
      <4>2. held' \in [Location -> Nat] /\ split' = split /\ \A k \in Location \ split' : held'[k] = 0
        BY <4>1, LowerType DEF Base
      <4>. QED  BY <4>1, <4>2 DEF Base, TypeOK
    <3>. QED  BY <3>1, <3>2, <3>3
  <2>2. stock' \in Nat /\ shelf' \in Nat
    BY <1>0, <1>4, BookTypes DEF Correct, Physically, Base
  <2>3. UNCHANGED <<committed, damaged, inTransit, seed, orderVars, transferVars, back, arrived,
                    countVars, short, logging>> /\ Applied(a)
    BY <1>4 DEF Correct
  <2>4. RowInv'
    BY <2>1, <2>3 DEF Base, RowInv
  <2>. QED  BY <1>3, <2>1, <2>2, <2>3, <2>4 DEF Base, TypeOK
<1>5. CASE MarkDamaged(a)
  <2>1. damaged' \in Nat
    <3>1. seen[a] \in Nat /\ Delta[a] < 0
      BY <1>0, <1>5 DEF MarkDamaged, Base, TypeOK, SeenInv
    <3>. QED  BY <1>0, <1>5, <3>1 DEF MarkDamaged
  <2>2. UNCHANGED <<stock, committed, inTransit, rowVars, seed, shelf, orderVars, transferVars,
                    back, arrived, countVars, short>> /\ Applied(a) /\ logging' \subseteq Change
    BY <1>5 DEF MarkDamaged, Base, TypeOK
  <2>3. RowInv'
    BY <2>2 DEF Base, RowInv
  <2>. QED  BY <1>3, <2>1, <2>2, <2>3 DEF Base, TypeOK
<1>6. CASE WriteOff(a)
  <2>1. -Delta[a] \in Nat
    BY <1>0, <1>6 DEF WriteOff
  <2>2. damaged' \in Nat /\ stock' \in Nat /\ shelf' \in Nat
    <3> DEFINE n == -Delta[a]
               gone == IF applied[a] = 0 THEN -n ELSE 0
    <3>1. /\ damaged' = damaged - n /\ n <= damaged /\ stock' = Monus(stock, n)
          /\ shelf + gone >= 0 /\ shelf' = shelf + gone
      BY <1>6 DEF WriteOff, Physically
    <3>2. gone \in Int /\ n \in Nat
      BY <1>0, <2>1
    <3> HIDE DEF n, gone
    <3>. QED  BY <3>1, <3>2, Arithmetic, BookTypes DEF Base
  <2>3. UNCHANGED <<committed, inTransit, rowVars, seed, orderVars, transferVars,
                    back, arrived, countVars>> /\ Applied(a) /\ short' \in BOOLEAN
        /\ logging' \subseteq Change
    BY <1>6 DEF WriteOff, Base, TypeOK
  <2>4. RowInv'
    BY <2>3 DEF Base, RowInv
  <2>. QED  BY <1>3, <2>2, <2>3, <2>4 DEF Base, TypeOK
<1>. QED  BY <1>1, <1>2, <1>4, <1>5, <1>6 DEF ApprovalStep

LEMMA ReturnBase ==
  ASSUME Base, NEW r \in Return, ReturnStep(r)
  PROVE  Base'
<1> USE DEF variantVars, rowVars, orderVars, transferVars, approvalVars, countVars
<1>1. CASE ShelveReturn(r)
  <2>1. /\ held' \in [Location -> Nat] /\ split' \subseteq Location /\ split \subseteq split'
        /\ \A k \in Location \ split' : held'[k] = 0 /\ split # {}
    BY <1>1, RaiseType, LocationAssumption DEF ShelveReturn, Base
  <2>2. UNCHANGED <<variantVars, seed, shelf, orderVars, transferVars, approvalVars, arrived,
                    countVars, short>> /\ back' \in [Return -> {"sent", "shelved", "done"}]
    BY <1>1 DEF ShelveReturn, Base, TypeOK
  <2>3. RowInv' /\ SeenInv'
    BY <1>1, <2>1, <2>2 DEF ShelveReturn, Base, RowInv, SeenInv
  <2>. QED  BY <2>1, <2>2, <2>3 DEF Base, TypeOK
<1>2. CASE BookReturn(r)
  <2>1. stock' \in Nat /\ damaged' \in Nat /\ shelf' \in Nat
    BY <1>2, BookTypes DEF BookReturn, Physically, Base
  <2>2. UNCHANGED <<committed, inTransit, rowVars, seed, orderVars, transferVars, approvalVars, arrived,
                    countVars, short>> /\ back' \in [Return -> {"sent", "shelved", "done"}]
    BY <1>2 DEF BookReturn, Base, TypeOK
  <2>3. RowInv' /\ SeenInv'
    BY <2>2 DEF Base, RowInv, SeenInv
  <2>. QED  BY <2>1, <2>2, <2>3 DEF Base, TypeOK
<1>. QED  BY <1>1, <1>2 DEF ReturnStep

LEMMA ReceiptBase ==
  ASSUME Base, NEW p \in Receipt, ReceiveGoods(p)
  PROVE  Base'
<1> USE DEF variantVars, rowVars, orderVars, transferVars, approvalVars, countVars
<1>0. Good[p] \in Nat /\ Bad[p] \in Nat /\ Main \in Location
  BY LocationAssumption
<1>1. /\ held' \in [Location -> Nat] /\ split' \subseteq Location /\ split \subseteq split'
      /\ \A k \in Location \ split' : held'[k] = 0
      /\ split = {} => split' = {}
  <2>1. CASE split # {} /\ Raise(Main, Good[p])
    BY <1>0, <2>1, RaiseType DEF Base
  <2>2. CASE UNCHANGED rowVars
    BY <2>2 DEF Base, TypeOK
  <2>. QED  BY <2>1, <2>2 DEF ReceiveGoods
<1>2. stock' \in Nat /\ damaged' \in Nat /\ shelf' \in Nat
  BY <1>0, BookTypes DEF ReceiveGoods, Physically, Base
<1>3. UNCHANGED <<committed, inTransit, seed, orderVars, transferVars, approvalVars, back,
                  countVars, short>> /\ arrived' \subseteq Receipt
  BY DEF ReceiveGoods, Base, TypeOK
<1>4. RowInv' /\ SeenInv'
  BY <1>1, <1>3 DEF Base, RowInv, SeenInv
<1>. QED  BY <1>1, <1>2, <1>3, <1>4 DEF Base, TypeOK

(* What was written off again, as a sum over the corrections.              *)
AgainOf == [a \in Change |-> Again(a)]

LEMMA AgainType ==
  ASSUME TypeOK
  PROVE  /\ AgainOf \in [Change -> Nat] /\ WrittenOffAgain \in Nat
         /\ WrittenOffAgain = Tally(AgainOf)
<1>1. ASSUME NEW a \in Change PROVE Again(a) \in Nat
  <2>1. CASE Reason[a] # "write_off"
    BY <2>1 DEF Again
  <2>2. CASE Reason[a] = "write_off"
    <3>0. Delta[a] \in Int /\ Delta[a] < 0 /\ applied[a] \in Nat
      BY <2>2, LocationAssumption DEF TypeOK
    <3>1. -Delta[a] \in Nat
      BY <3>0
    <3>2. Monus(applied[a], 1) \in Nat
      BY <3>0 DEF Monus
    <3> DEFINE k == Monus(applied[a], 1)
               n == -Delta[a]
    <3>3. Again(a) = k * n /\ k \in Nat /\ n \in Nat
      BY <2>2, <3>1, <3>2 DEF Again
    <3> HIDE DEF k, n
    <3>. QED  BY <3>3
  <2>. QED  BY <2>1, <2>2
<1>2. AgainOf \in [Change -> Nat]
  BY <1>1 DEF AgainOf
<1>3. WrittenOffAgain = Tally(AgainOf)
  BY DEF WrittenOffAgain, AgainOf
<1>. QED  BY <1>2, <1>3, TallyNat, LocationAssumption

CountType ==
  [status : {"none", "open", "completed", "cancelled"}, system : Nat,
   counted : Nat \cup {Nothing}, steady : BOOLEAN, again : Nat, applied : BOOLEAN]

LEMMA CountBase ==
  ASSUME Base, CountStep
  PROVE  Base'
<1> USE DEF variantVars, rowVars, orderVars, transferVars, approvalVars, countVars
<1>0. count \in CountType
  BY DEF Base, TypeOK, CountType
<1>1. CASE ~FinishCount
  <2>1. count' \in CountType
    <3>1. CASE SubmitCount
      <4>1. shelf - inTransit \in Nat
        BY <3>1, BookTypes DEF SubmitCount, Base
      <4>2. (stock = count.system /\ inTransit = 0) \in BOOLEAN
        OBVIOUS
      <4>3. WrittenOffAgain \in Nat
        BY AgainType DEF Base
      <4>. QED  BY <1>0, <3>1, <4>1, <4>2, <4>3 DEF SubmitCount, CountType
    <3>2. CASE StartCount
      BY <1>0, <3>2, BookTypes DEF StartCount, CountType, Base
    <3>3. CASE ReadToCancelCount \/ CancelCount
      BY <1>0, <3>3 DEF ReadToCancelCount, CancelCount, CountType
    <3>. QED  BY <1>1, <3>1, <3>2, <3>3 DEF CountStep
  <2>2. UNCHANGED <<variantVars, rowVars, seed, shelf, orderVars, transferVars, approvalVars,
                    back, arrived, short>> /\ cancelling' \in BOOLEAN
    BY <1>1 DEF CountStep, StartCount, SubmitCount, ReadToCancelCount, CancelCount, Base, TypeOK
  <2>3. RowInv' /\ SeenInv'
    BY <2>2 DEF Base, RowInv, SeenInv
  <2>. QED  BY <2>1, <2>2, <2>3 DEF Base, TypeOK, CountType
<1>2. CASE FinishCount
  <2> DEFINE applies == count.counted # Nothing /\ Correctable
             change == IF applies THEN Finding ELSE 0
  <2>1. change \in Int /\ applies \in BOOLEAN
    BY <1>0 DEF CountType, Nothing, Finding
  <2>2. /\ change # 0 => stock + change >= committed
        /\ count' = [count EXCEPT !.status = "completed", !.applied = applies]
        /\ stock' = stock + change
        /\ held' = [l \in Location |-> IF l \in split THEN held[l] + change ELSE held[l]]
        /\ UNCHANGED <<committed, damaged, inTransit, split, seed, shelf, orderVars, transferVars,
                       approvalVars, back, arrived, cancelling, short>>
    BY <1>2 DEF FinishCount
  <2>3. \A l \in split : held[l] + change >= 0
    <3> SUFFICES ASSUME NEW l \in split PROVE held[l] + change >= 0
      OBVIOUS
    <3>1. held[l] \in Nat
      BY DEF Base, TypeOK
    <3>2. CASE ~applies \/ Finding = 0
      BY <3>1, <3>2
    <3>3. CASE applies /\ Finding # 0
      <4>1. held[l] + Least(Finding, 0) >= 0
        BY <3>3 DEF Correctable
      <4>2. change = Finding /\ Finding \in Int
        BY <2>1, <3>3
      <4>. QED  BY <3>1, <4>1, <4>2 DEF Least
    <3>. QED  BY <3>2, <3>3
  <2> HIDE DEF change, applies
  <2>4. stock' \in Nat
    BY <2>1, <2>2, BookTypes DEF Base
  <2>5. held' \in [Location -> Nat] /\ \A l \in Location \ split' : held'[l] = 0
    BY <2>1, <2>2, <2>3 DEF Base, TypeOK
  <2>6. count' \in CountType
    BY <1>0, <2>1, <2>2 DEF CountType
  <2>7. RowInv' /\ SeenInv'
    BY <2>2 DEF Base, RowInv, SeenInv
  <2>. QED  BY <2>2, <2>4, <2>5, <2>6, <2>7 DEF Base, TypeOK, CountType
<1>. QED  BY <1>1, <1>2

-----------------------------------------------------------------------------
(* Units on trucks.                                                        *)

Trucks == [t \in Transfer |-> OnTruck(t)]

LEMMA TruckTypes ==
  ASSUME Base
  PROVE  /\ Trucks \in [Transfer -> Nat] /\ IsFiniteSet(Transfer)
         /\ \A t \in Transfer : Sent[t] \in Nat /\ received[t] \in Nat /\ received[t] <= Sent[t]
<1>1. \A t \in Transfer : Sent[t] \in Nat /\ received[t] \in Nat /\ received[t] <= Sent[t]
  BY LocationAssumption DEF Base, TypeOK, RowInv
<1>2. \A t \in Transfer : OnTruck(t) \in Nat
  BY <1>1 DEF OnTruck
<1>. QED  BY <1>1, <1>2, LocationAssumption DEF Trucks

(* A step of one transfer moves the sum by what that transfer moves.       *)
LEMMA TruckMoves ==
  ASSUME Base, Base', NEW t \in Transfer, InTransitExact,
         \A u \in Transfer \ {t} : truck'[u] = truck[u] /\ received'[u] = received[u]
  PROVE  /\ Tally(Trucks') = inTransit - Trucks[t] + Trucks'[t]
         /\ inTransit = Tally(Trucks) /\ Trucks[t] <= inTransit /\ inTransit \in Nat
<1>1. Trucks \in [Transfer -> Nat] /\ IsFiniteSet(Transfer) /\ Trucks' \in [Transfer -> Nat]
  <2>1. \A u \in Transfer : Sent[u] \in Nat /\ received'[u] \in Nat /\ received'[u] <= Sent[u]
    BY LocationAssumption DEF Base, TypeOK, RowInv
  <2>2. \A u \in Transfer : OnTruck(u)' \in Nat
    BY <2>1 DEF OnTruck
  <2>. QED  BY <2>2, TruckTypes DEF Trucks
<1>2. \A u \in Transfer \ {t} : Trucks'[u] = Trucks[u]
  BY DEF Trucks, OnTruck
<1>3. Tally(Trucks') = Tally(Trucks) - Trucks[t] + Trucks'[t]
  BY <1>1, <1>2, TallyChange
<1>4. inTransit = Tally(Trucks)
  BY DEF InTransitExact, Trucks
<1>. QED  BY <1>1, <1>3, <1>4, TallyBound, TallyNat

LEMMA TransferTransit ==
  ASSUME Base, Base', InTransitExact, NEW t \in Transfer, TransferStep(t)
  PROVE  InTransitExact'
<1>0. /\ truck \in [Transfer -> {"draft", "in_transit", "partially_received", "received", "cancelled"}]
      /\ received \in [Transfer -> Nat]
      /\ Sent[t] \in Nat /\ received[t] \in Nat /\ received[t] <= Sent[t]
  BY TruckTypes DEF Base, TypeOK
<1>1. \A u \in Transfer \ {t} : truck'[u] = truck[u] /\ received'[u] = received[u]
  BY <1>0 DEF TransferStep, ShipTransfer, ReceiveTransfer, CancelTransfer
<1>2. /\ Tally(Trucks') = inTransit - Trucks[t] + Trucks'[t]
      /\ Trucks[t] <= inTransit /\ inTransit \in Nat
  BY <1>1, TruckMoves
<1>3. \A u \in Transfer : received[u] > 0 => truck[u] \in {"partially_received", "received"}
  BY DEF InTransitExact
<1>4. Trucks[t] = OnTruck(t) /\ Trucks'[t] = OnTruck(t)'
  BY DEF Trucks
<1>5. CASE ShipTransfer(t)
  <2>1. truck[t] = "draft" /\ truck'[t] = "in_transit" /\ received' = received /\ inTransit' = inTransit + Sent[t]
    BY <1>0, <1>5 DEF ShipTransfer
  <2>2. received[t] = 0
    BY <1>0, <1>3, <2>1
  <2>3. Trucks[t] = 0 /\ Trucks'[t] = Sent[t]
    BY <1>0, <1>4, <2>1, <2>2 DEF OnTruck
  <2>4. inTransit' = Tally(Trucks')
    BY <1>0, <1>2, <2>1, <2>3
  <2>. QED  BY <1>1, <1>3, <2>1, <2>2, <2>4 DEF InTransitExact, Trucks
<1>6. CASE ReceiveTransfer(t)
  <2>1. PICK n \in 1 .. Sent[t] - received[t] :
          /\ received' = [received EXCEPT ![t] = @ + n]
          /\ truck' = [truck EXCEPT ![t] = IF received[t] + n >= Sent[t] THEN "received"
                                           ELSE "partially_received"]
          /\ inTransit' = Monus(inTransit, n)
    BY <1>6 DEF ReceiveTransfer
  <2>2. n \in Nat /\ received[t] + n <= Sent[t] /\ received'[t] = received[t] + n
    BY <1>0, <2>1
  <2>3. truck[t] \in {"in_transit", "partially_received"}
    BY <1>6 DEF ReceiveTransfer
  <2>4. Trucks[t] = Sent[t] - received[t]
    BY <1>4, <2>3 DEF OnTruck
  <2>5. Trucks'[t] = Sent[t] - received'[t] /\ truck'[t] \in {"partially_received", "received"}
    <3>1. CASE received[t] + n >= Sent[t]
      BY <1>0, <1>4, <2>1, <2>2, <3>1 DEF OnTruck
    <3>2. CASE ~(received[t] + n >= Sent[t])
      BY <1>0, <1>4, <2>1, <2>2, <3>2 DEF OnTruck
    <3>. QED  BY <3>1, <3>2
  <2>6. inTransit' = inTransit - n
    <3>1. inTransit >= n
      BY <1>0, <1>2, <2>2, <2>4
    <3>. QED  BY <1>2, <2>1, <2>2, <3>1 DEF Monus
  <2>7. inTransit' = Tally(Trucks')
    BY <1>0, <1>2, <2>2, <2>4, <2>5, <2>6
  <2>. QED  BY <1>1, <1>3, <2>5, <2>7 DEF InTransitExact, Trucks
<1>7. CASE CancelTransfer(t)
  <2>1. /\ truck[t] = "in_transit" /\ truck'[t] = "cancelled" /\ received' = received
        /\ inTransit' = Monus(inTransit, Sent[t])
    BY <1>0, <1>7 DEF CancelTransfer
  <2>2. received[t] = 0
    BY <1>0, <1>3, <2>1
  <2>3. Trucks[t] = Sent[t] /\ Trucks'[t] = 0
    BY <1>0, <1>4, <2>1, <2>2 DEF OnTruck
  <2>4. inTransit' = Tally(Trucks')
    BY <1>0, <1>2, <2>1, <2>3 DEF Monus
  <2>. QED  BY <1>1, <1>3, <2>1, <2>2, <2>4 DEF InTransitExact, Trucks
<1>. QED  BY <1>5, <1>6, <1>7 DEF TransferStep

LEMMA TransitUntouched ==
  ASSUME InTransitExact, UNCHANGED <<inTransit, transferVars>>
  PROVE  InTransitExact'
BY DEF InTransitExact, OnTruck, transferVars

-----------------------------------------------------------------------------
(* Corrections.                                                            *)

LEMMA Approvals ==
  ASSUME Base, ApprovalInv, AppliedOnce, NEW a \in Change, ApprovalStep(a)
  PROVE  ApprovalInv' /\ AppliedOnce'
<1> USE DEF Base, TypeOK, ApprovalInv, AppliedOnce, Reopened
<1>0. applied \in [Change -> Nat] /\ unlogged \in [Change -> Nat]
  OBVIOUS
<1>1. CASE Approve(a)
  <2>1. request[a] = "pending" /\ a \notin logging
    BY <1>1 DEF Approve
  <2>2. applied[a] = Reopened(a)
    BY <2>1, <1>0
  <2>. QED  BY <1>1, <2>1, <2>2 DEF Approve
<1>2. CASE Release(a)
  BY <1>2 DEF Release, WaitsAgain
<1>3. CASE ReadDamaged(a) \/ ReadToReject(a)
  BY <1>3 DEF ReadDamaged, ReadToReject
<1>4. CASE Correct(a)
  <2>1. a \in applying /\ Applied(a) /\ UNCHANGED logging
    BY <1>4 DEF Correct
  <2>. QED  BY <1>0, <2>1 DEF Applied
<1>5. CASE MarkDamaged(a) \/ WriteOff(a)
  <2>1. a \in applying /\ Applied(a) /\ logging' = logging \cup {a} /\ Reason[a] # "correction"
    BY <1>5 DEF MarkDamaged, WriteOff, SeenInv
  <2>. QED  BY <1>0, <2>1 DEF Applied
<1>6. CASE SaveAdjustment(a)
  BY <1>6 DEF SaveAdjustment
<1>7. CASE FailAdjustment(a)
  <2>1. /\ a \in logging /\ logging' = logging \ {a} /\ UNCHANGED <<applied, applying>>
        /\ unlogged' = [unlogged EXCEPT ![a] = @ + 1] /\ WaitsAgain(a)
    BY <1>7 DEF FailAdjustment
  <2>2. applied[a] = unlogged'[a] /\ a \notin applying /\ Reason[a] # "correction"
    BY <1>0, <2>1
  <2>3. \A b \in Change \ {a} : unlogged'[b] = unlogged[b] /\ request'[b] = request[b]
    BY <2>1 DEF WaitsAgain
  <2>. QED  BY <1>0, <2>1, <2>2, <2>3
<1>8. CASE Reject(a)
  BY <1>8 DEF Reject
<1>. QED  BY <1>1, <1>2, <1>3, <1>4, <1>5, <1>6, <1>7, <1>8 DEF ApprovalStep

LEMMA ApprovalsUntouched ==
  ASSUME ApprovalInv, AppliedOnce, UNCHANGED approvalVars
  PROVE  ApprovalInv' /\ AppliedOnce'
BY DEF ApprovalInv, AppliedOnce, Reopened, approvalVars

-----------------------------------------------------------------------------
(* The book and the shelf.                                                 *)

(* What the book should name: what is there, less what was written off     *)
(* again.                                                                  *)
Accounted == shelf - WrittenOffAgain

(* As many units moved in the book as on the shelf, but for those.         *)
Alike == \E n \in Int : stock' = stock + n /\ Accounted' = Accounted + n

LEMMA AgainUntouched ==
  ASSUME UNCHANGED applied
  PROVE  WrittenOffAgain' = WrittenOffAgain
BY DEF WrittenOffAgain, Again

LEMMA AccountedType ==
  ASSUME Base
  PROVE  /\ stock \in Nat /\ shelf \in Nat /\ WrittenOffAgain \in Nat /\ Accounted \in Int
         /\ OnBook \in Nat /\ OnShelf \in Nat
BY AgainType, LocationAssumption DEF Base, TypeOK, Accounted

BookFacts ==
  /\ stock \in Nat /\ shelf \in Nat /\ WrittenOffAgain \in Nat
  /\ AgainOf \in [Change -> Nat]

LEMMA FactsHold == Base => BookFacts
BY AccountedType, AgainType DEF Base, BookFacts

LEMMA AgainPrimed ==
  ASSUME Base'
  PROVE  BookFacts'
BY FactsHold, PTL

LEMMA AlikeBy ==
  ASSUME Base, NEW n \in Int, stock' = stock + n, shelf' = shelf + n, WrittenOffAgain' = WrittenOffAgain
  PROVE  Alike
<1>1. Accounted' = Accounted + n
  BY AccountedType DEF Accounted
<1>. QED  BY <1>1 DEF Alike

LEMMA AlikeUnmoved ==
  ASSUME Base, UNCHANGED <<stock, shelf, applied>>
  PROVE  Alike
<1>1. stock' = stock + 0 /\ shelf' = shelf + 0
  BY BookTypes DEF Base
<1>. QED  BY <1>1, AlikeBy, AgainUntouched

(* A write-off that is applied again moves the book by as much as it adds  *)
(* to what was written off again, and nothing on the shelf.                *)
LEMMA WrittenAgain ==
  ASSUME Base, Base', NEW a \in Change, WriteOff(a), ~short'
  PROVE  Alike
<1> DEFINE n == -Delta[a]
<1>0. /\ n \in Nat /\ Delta[a] \in Int /\ applied \in [Change -> Nat] /\ Reason[a] = "write_off"
      /\ stock \in Nat /\ shelf \in Nat /\ WrittenOffAgain \in Nat
  BY AccountedType, LocationAssumption DEF WriteOff, Base, TypeOK
<1>1. applied' = [applied EXCEPT ![a] = @ + 1]
  BY DEF WriteOff, Applied
<1>2. stock' = stock - n
  <2>1. stock' = Monus(stock, n) /\ ~(stock < n)
    BY DEF WriteOff
  <2> HIDE DEF n
  <2>. QED  BY <1>0, <2>1 DEF Monus
<1>3. WrittenOffAgain' = WrittenOffAgain - AgainOf[a] + AgainOf'[a]
  <2>1. AgainOf \in [Change -> Nat] /\ AgainOf' \in [Change -> Nat]
    <3>1. AgainOf' \in [Change -> Nat]
      BY AgainPrimed DEF BookFacts
    <3>. QED  BY <3>1, AgainType DEF Base
  <2>2. \A b \in Change \ {a} : AgainOf'[b] = AgainOf[b]
    BY <1>0, <1>1 DEF AgainOf, Again
  <2>3. IsFiniteSet(Change)
    BY LocationAssumption
  <2>4. Tally(AgainOf') = Tally(AgainOf) - AgainOf[a] + AgainOf'[a]
    BY <2>1, <2>2, <2>3, TallyChange
  <2>. QED  BY <2>4 DEF WrittenOffAgain, AgainOf
<1>4. AgainOf[a] = Monus(applied[a], 1) * n /\ AgainOf'[a] = Monus(applied[a] + 1, 1) * n
  BY <1>0, <1>1 DEF AgainOf, Again
<1> HIDE DEF n
<1>5. CASE applied[a] = 0
  <2>1. shelf' = shelf + (-n)
    BY <1>5 DEF WriteOff, Physically, n
  <2>2. AgainOf[a] = 0 /\ AgainOf'[a] = 0
    BY <1>0, <1>4, <1>5 DEF Monus
  <2>3. WrittenOffAgain' = WrittenOffAgain
    BY <1>0, <1>3, <2>2
  <2>4. stock' = stock + (-n) /\ -n \in Int
    BY <1>0, <1>2
  <2>. QED  BY <2>1, <2>3, <2>4, AlikeBy
<1>6. CASE applied[a] # 0
  <2>1. shelf' = shelf
    BY <1>0, <1>6 DEF WriteOff, Physically
  <2>2. AgainOf'[a] = AgainOf[a] + n
    <3>1. AgainOf[a] = (applied[a] - 1) * n /\ AgainOf'[a] = applied[a] * n
      BY <1>0, <1>4, <1>6 DEF Monus
    <3>2. \A k \in Int, m \in Int : k * m = (k - 1) * m + m
      OBVIOUS
    <3>. QED  BY <1>0, <3>1, <3>2
  <2>3. AgainOf[a] \in Nat
    BY AgainType DEF Base
  <2>4. Accounted' = Accounted + (-n) /\ stock' = stock + (-n)
    BY <1>0, <1>2, <1>3, <2>1, <2>2, <2>3 DEF Accounted
  <2>. QED  BY <1>0, <2>4 DEF Alike
<1>. QED  BY <1>5, <1>6

(* What was off before is off by as much, but for what was written off     *)
(* again since.                                                            *)
LEMMA StillAsFar ==
  ASSUME Base, Base', Alike
  PROVE  /\ \A d \in Int : shelf - stock = d + WrittenOffAgain => shelf' - stock' = d + WrittenOffAgain'
         /\ \A d \in Int : shelf - stock = WrittenOffAgain - d => shelf' - stock' = WrittenOffAgain' - d
<1>1. PICK n \in Int : stock' = stock + n /\ Accounted' = Accounted + n
  BY DEF Alike
<1>2. stock' = stock + n /\ shelf' - WrittenOffAgain' = shelf - WrittenOffAgain + n
  BY <1>1 DEF Accounted
<1>3. /\ stock \in Int /\ shelf \in Int /\ WrittenOffAgain \in Int
      /\ stock' \in Int /\ shelf' \in Int /\ WrittenOffAgain' \in Int
  BY AccountedType, AgainPrimed DEF BookFacts
<1>4. PICK w \in Int, v \in Int : w = WrittenOffAgain /\ v = WrittenOffAgain'
  BY <1>3
<1>5. stock' = stock + n /\ shelf' - v = shelf - w + n
  BY <1>2, <1>4
<1>6. PICK k \in Int, l \in Int, s \in Int, t \in Int :
        k = stock /\ l = stock' /\ s = shelf /\ t = shelf'
  BY <1>3
<1>7. l = k + n /\ t - v = s - w + n
  BY <1>5, <1>6
<1>8. \A d \in Int : (s - k = d + w => t - l = d + v) /\ (s - k = w - d => t - l = v - d)
  BY <1>7
<1>. QED  BY <1>4, <1>6, <1>8

(* A step that moves as many units in the book as on the shelf, or finds   *)
(* the book short, and leaves the count alone.                             *)
LEMMA Together ==
  ASSUME Base, Base', CountInv, BookFollowsShelf, UNCHANGED count, short => short',
         short' \/ Alike
  PROVE  CountInv' /\ BookFollowsShelf'
<1>1. CountInv'
  BY DEF CountInv, Finding
<1>2. BookFollowsShelf'
  <2>1. CASE short'
    BY <2>1 DEF BookFollowsShelf
  <2>2. CASE ~short'
    <3>1. ~short /\ Alike
      BY <2>2
    <3>2. OnShelf - OnBook \in Int /\ count.again \in Int
      BY AccountedType DEF Base, TypeOK
    <3>3. CASE count.applied
      <4>1. count.steady => shelf - stock = WrittenOffAgain - count.again
        BY <3>1, <3>3 DEF BookFollowsShelf
      <4>2. count.steady => shelf' - stock' = WrittenOffAgain' - count.again
        BY <3>1, <3>2, <4>1, StillAsFar
      <4>. QED  BY <3>3, <4>2 DEF BookFollowsShelf
    <3>4. CASE ~count.applied
      <4>1. shelf - stock = OnShelf - OnBook + WrittenOffAgain
        BY <3>1, <3>4 DEF BookFollowsShelf
      <4>2. shelf' - stock' = OnShelf - OnBook + WrittenOffAgain'
        BY <3>1, <3>2, <4>1, StillAsFar
      <4>. QED  BY <3>4, <4>2 DEF BookFollowsShelf
    <3>. QED  BY <3>3, <3>4
  <2>. QED  BY <2>1, <2>2
<1>. QED  BY <1>1, <1>2

LEMMA OrderBook ==
  ASSUME Base, Base', CountInv, BookFollowsShelf, NEW o \in Order, OrderStep(o)
  PROVE  CountInv' /\ BookFollowsShelf'
<1>1. UNCHANGED count
  BY DEF OrderStep, Reserve, Deduct, FindRows, Drain, countVars
<1>2. (short => short') /\ (short' \/ Alike)
  <2>1. CASE Deduct(o)
    <3>1. /\ shelf' = shelf + -Asks[o] /\ stock' = Monus(stock, Asks[o])
          /\ short' = (short \/ stock < Asks[o]) /\ applied' = applied
      BY <2>1 DEF Deduct, Physically, approvalVars
    <3>2. Asks[o] \in Nat /\ stock \in Nat /\ shelf \in Nat
      BY LocationAssumption DEF Base, TypeOK
    <3>3. CASE stock < Asks[o]
      BY <3>1, <3>3
    <3>4. CASE ~(stock < Asks[o])
      <4>1. stock' = stock + -Asks[o] /\ -Asks[o] \in Int
        BY <3>1, <3>2, <3>4 DEF Monus
      <4>2. Alike
        BY <3>1, <4>1, AlikeBy, AgainUntouched
      <4>3. short => short'
        BY <3>1
      <4>. QED  BY <4>2, <4>3
    <3>. QED  BY <3>3, <3>4
  <2>2. CASE ~Deduct(o)
    <3>1. UNCHANGED <<stock, shelf, short, applied>>
      BY <2>2 DEF OrderStep, Reserve, FindRows, Drain, variantVars, approvalVars
    <3>. QED  BY <3>1, AlikeUnmoved
  <2>. QED  BY <2>1, <2>2
<1>. QED  BY <1>1, <1>2, Together

(* A correction that was not applied before adds nothing to what was       *)
(* written off again, and only a write-off adds to it at all.              *)
LEMMA CorrectedAlike ==
  ASSUME Base, Base', NEW a \in Change, Correct(a) \/ MarkDamaged(a)
  PROVE  WrittenOffAgain' = WrittenOffAgain
<1>1. Reason[a] # "write_off" /\ applied' = [applied EXCEPT ![a] = @ + 1]
  BY DEF Correct, MarkDamaged, Applied, Base, SeenInv
<1>2. \A b \in Change : Again(b)' = Again(b)
  BY <1>1 DEF Again, Base, TypeOK
<1>. QED  BY <1>2 DEF WrittenOffAgain

LEMMA ApprovalBook ==
  ASSUME Base, Base', CountInv, BookFollowsShelf, NEW a \in Change, ApprovalStep(a)
  PROVE  CountInv' /\ BookFollowsShelf'
<1>1. UNCHANGED count
  BY DEF ApprovalStep, Approve, Correct, ReadDamaged, MarkDamaged, WriteOff, Release,
     SaveAdjustment, FailAdjustment, ReadToReject, Reject, countVars
<1>2. stock \in Nat /\ shelf \in Nat /\ Delta[a] \in Int
  BY LocationAssumption DEF Base, TypeOK
<1>3. (short => short') /\ (short' \/ Alike)
  <2>1. CASE Correct(a)
    <3>1. stock' = stock + Delta[a] /\ shelf' = shelf + Delta[a] /\ short' = short
      BY <2>1 DEF Correct, Physically
    <3>2. Alike
      BY <1>2, <2>1, <3>1, AlikeBy, CorrectedAlike
    <3>. QED  BY <3>1, <3>2
  <2>2. CASE MarkDamaged(a)
    <3>1. stock' = stock + 0 /\ shelf' = shelf + 0 /\ short' = short
      BY <1>2, <2>2 DEF MarkDamaged
    <3>2. Alike
      BY <2>2, <3>1, AlikeBy, CorrectedAlike
    <3>. QED  BY <3>1, <3>2
  <2>3. CASE WriteOff(a)
    <3>1. short => short'
      BY <2>3 DEF WriteOff
    <3>. QED  BY <2>3, <3>1, WrittenAgain
  <2>4. CASE ~Correct(a) /\ ~MarkDamaged(a) /\ ~WriteOff(a)
    <3>1. UNCHANGED <<stock, shelf, short, applied>>
      BY <2>4 DEF ApprovalStep, Approve, ReadDamaged, Release, SaveAdjustment, FailAdjustment,
         ReadToReject, Reject, variantVars
    <3>. QED  BY <3>1, AlikeUnmoved
  <2>. QED  BY <2>1, <2>2, <2>3, <2>4
<1>. QED  BY <1>1, <1>3, Together

LEMMA GoodsBook ==
  ASSUME Base, Base', CountInv, BookFollowsShelf,
         \/ SeedStep
         \/ \E t \in Transfer : TransferStep(t)
         \/ \E r \in Return : ReturnStep(r)
         \/ \E p \in Receipt : ReceiveGoods(p)
  PROVE  CountInv' /\ BookFollowsShelf'
<1>0. stock \in Nat /\ shelf \in Nat /\ Good \in [Receipt -> Nat] /\ Bad \in [Receipt -> Nat]
  BY LocationAssumption DEF Base, TypeOK
<1>1. UNCHANGED <<count, short, applied>>
  BY DEF SeedStep, ReadSeed, WriteSeed, TransferStep, ShipTransfer, ReceiveTransfer, CancelTransfer,
     ReturnStep, ShelveReturn, BookReturn, ReceiveGoods, countVars, approvalVars
<1>2. Alike
  <2>1. CASE SeedStep \/ \E t \in Transfer : TransferStep(t)
    <3>1. UNCHANGED <<stock, shelf>>
      BY <2>1 DEF SeedStep, ReadSeed, WriteSeed, TransferStep, ShipTransfer, ReceiveTransfer,
         CancelTransfer, variantVars
    <3>. QED  BY <1>1, <3>1, AlikeUnmoved
  <2>2. ASSUME NEW r \in Return, ReturnStep(r)
        PROVE  Alike
    <3>1. \/ UNCHANGED <<stock, shelf>>
          \/ stock' = stock + 1 /\ shelf' = shelf + 1
      BY <2>2 DEF ReturnStep, ShelveReturn, BookReturn, Physically, variantVars
    <3>. QED  BY <1>1, <3>1, AlikeUnmoved, AlikeBy, AgainUntouched
  <2>3. ASSUME NEW p \in Receipt, ReceiveGoods(p)
        PROVE  Alike
    <3>1. stock' = stock + Good[p] + Bad[p] /\ shelf' = shelf + (Good[p] + Bad[p])
      BY <2>3 DEF ReceiveGoods, Physically
    <3>2. stock' = stock + (Good[p] + Bad[p]) /\ Good[p] + Bad[p] \in Int
      BY <1>0, <3>1
    <3>. QED  BY <1>1, <3>1, <3>2, AlikeBy, AgainUntouched
  <2>. QED  BY <2>1, <2>2, <2>3
<1>. QED  BY <1>1, <1>2, Together

(* The difference a count has found is what was wrong when it was handed   *)
(* in, and still is when the count ends.                                   *)
LEMMA CountBook ==
  ASSUME Base, Base', CountInv, BookFollowsShelf, CountStep
  PROVE  CountInv' /\ BookFollowsShelf'
<1> USE DEF Finding
<1>0. /\ count \in CountType /\ stock \in Nat /\ shelf \in Nat /\ inTransit \in Nat
      /\ OnBook \in Nat /\ OnShelf \in Nat /\ WrittenOffAgain \in Nat
  BY AccountedType, LocationAssumption DEF Base, TypeOK, CountType
<1>1. UNCHANGED <<shelf, short>> /\ WrittenOffAgain' = WrittenOffAgain
  BY AgainUntouched
     DEF CountStep, StartCount, SubmitCount, FinishCount, ReadToCancelCount, CancelCount, approvalVars
<1>2. ASSUME count.status \in {"none", "open"}, ~short
      PROVE  shelf - stock = OnShelf - OnBook + WrittenOffAgain
  BY <1>2 DEF CountInv, BookFollowsShelf
<1>3. ASSUME UNCHANGED stock, count'.applied = count.applied
      PROVE  BookFollowsShelf' \/ count'.steady # count.steady \/ count'.again # count.again
  BY <1>1, <1>3 DEF BookFollowsShelf
<1>4. CASE StartCount
  <2>1. /\ count.status = "none" /\ UNCHANGED stock
        /\ count'.status = "open" /\ count'.steady = count.steady /\ count'.applied = count.applied
        /\ count'.again = count.again
    BY <1>0, <1>4 DEF StartCount, CountType, variantVars
  <2>2. ~count.steady /\ ~count.applied
    BY <2>1 DEF CountInv
  <2>. QED  BY <1>3, <2>1, <2>2 DEF CountInv
<1>5. CASE SubmitCount
  <2>1. /\ count.status = "open" /\ UNCHANGED stock
        /\ count'.status = "open" /\ count'.applied = count.applied
        /\ count'.counted = shelf - inTransit /\ count'.system = count.system
        /\ count'.steady = (stock = count.system /\ inTransit = 0)
        /\ count'.again = WrittenOffAgain
    BY <1>0, <1>5 DEF SubmitCount, CountType, variantVars
  <2>2. ~count.applied
    BY <2>1 DEF CountInv
  <2>3. ASSUME count'.steady, ~short
        PROVE  count'.counted - count'.system = OnShelf - OnBook + count'.again
    <3>1. stock = count.system /\ inTransit = 0
      BY <2>1, <2>3
    <3>2. shelf - stock = OnShelf - OnBook + WrittenOffAgain
      BY <1>2, <2>1, <2>3
    <3>3. count'.counted = shelf - inTransit /\ count'.system = count.system
          /\ count'.again = WrittenOffAgain
      BY <2>1
    <3>. QED  BY <1>0, <3>1, <3>2, <3>3
  <2>4. CountInv'
    BY <1>1, <2>1, <2>2, <2>3 DEF CountInv
  <2>5. BookFollowsShelf'
    BY <1>1, <2>1, <2>2 DEF BookFollowsShelf
  <2>. QED  BY <2>4, <2>5
<1>6. CASE ReadToCancelCount \/ CancelCount
  <2>1. /\ UNCHANGED stock
        /\ count'.steady = count.steady /\ count'.applied = count.applied
        /\ count'.counted = count.counted /\ count'.system = count.system
        /\ count'.again = count.again
        /\ count'.status \in {count.status, "cancelled"}
    BY <1>0, <1>6 DEF ReadToCancelCount, CancelCount, CountType, variantVars
  <2>2. CountInv'
    BY <1>1, <2>1 DEF CountInv
  <2>. QED  BY <1>3, <2>1, <2>2
<1>7. CASE FinishCount
  <2> DEFINE applies == count.counted # Nothing /\ Correctable
             change == IF applies THEN Finding ELSE 0
  <2>1. /\ count.status = "open" /\ stock' = stock + change
        /\ count'.status = "completed" /\ count'.applied = applies
        /\ count'.steady = count.steady /\ count'.again = count.again
        /\ count'.counted = count.counted /\ count'.system = count.system
    BY <1>0, <1>7 DEF FinishCount, CountType
  <2>2. CountInv'
    BY <1>1, <2>1 DEF CountInv
  <2>3. CASE short
    BY <1>1, <2>2, <2>3 DEF BookFollowsShelf
  <2>4. CASE ~short /\ applies
    <3>1. ASSUME count.steady PROVE shelf' - stock' = WrittenOffAgain' - count'.again
      <4>1. change = OnShelf - OnBook + count.again
        BY <2>4, <3>1 DEF CountInv
      <4>2. shelf - stock = OnShelf - OnBook + WrittenOffAgain
        BY <1>2, <2>1, <2>4
      <4>3. stock' = stock + change /\ shelf' = shelf /\ count'.again = count.again
        BY <1>1, <2>1
      <4>4. count.again \in Nat
        BY <1>0 DEF CountType
      <4> HIDE DEF change
      <4>. QED  BY <1>0, <1>1, <4>1, <4>2, <4>3, <4>4
    <3>. QED  BY <2>1, <2>2, <2>4, <3>1 DEF BookFollowsShelf
  <2>5. CASE ~short /\ ~applies
    <3>1. stock' = stock + 0 /\ shelf' = shelf
      BY <1>1, <2>1, <2>5
    <3>2. shelf - stock = OnShelf - OnBook + WrittenOffAgain
      BY <1>2, <2>1, <2>5
    <3>3. shelf' - stock' = OnShelf - OnBook + WrittenOffAgain'
      BY <1>0, <1>1, <3>1, <3>2
    <3>4. ~count'.applied
      BY <2>1, <2>5
    <3>. QED  BY <2>2, <3>3, <3>4 DEF BookFollowsShelf
  <2>. QED  BY <2>2, <2>3, <2>4, <2>5
<1>. QED  BY <1>4, <1>5, <1>6, <1>7 DEF CountStep

-----------------------------------------------------------------------------
(* The invariant.                                                          *)

LEMMA InitInv ==
  ASSUME Init
  PROVE  Inv
<1> USE LocationAssumption DEF Init, Nothing
<1>1. TypeOK
  <2>1. \A n \in {stock, committed, damaged, inTransit, shelf} : n \in Nat
    OBVIOUS
  <2>2. count \in CountType
    BY DEF CountType
  <2>3. split \subseteq Location /\ held \in [Location -> Nat] /\ \A l \in Location \ split : held[l] = 0
    OBVIOUS
  <2>4. /\ order \in [Order -> {"new", "reserved", "shipped", "draining"}]
        /\ left \in [Order -> Nat] /\ due \in [Order -> SUBSET Location]
        /\ truck \in [Transfer -> {"draft", "in_transit", "partially_received", "received", "cancelled"}]
        /\ received \in [Transfer -> Nat]
    OBVIOUS
  <2>5. /\ request \in [Change -> {"pending", "approved", "rejected"}] /\ applied \in [Change -> Nat]
        /\ seen \in [Change -> Nat \cup {Nothing}]
        /\ rejecting \subseteq Change /\ applying \subseteq Change
        /\ logging \subseteq Change /\ unlogged \in [Change -> Nat]
        /\ back \in [Return -> {"sent", "shelved", "done"}] /\ arrived \subseteq Receipt
    OBVIOUS
  <2>. QED  BY <2>1, <2>2, <2>3, <2>4, <2>5 DEF TypeOK, CountType
<1>2. RowInv /\ SeenInv
  BY DEF RowInv, SeenInv
<1>3. InTransitExact
  <2>1. \A t \in Transfer : OnTruck(t) = 0
    BY DEF OnTruck
  <2>2. [t \in Transfer |-> OnTruck(t)] = [t \in Transfer |-> 0]
    BY <2>1
  <2>. QED  BY <2>2, TallyZero DEF InTransitExact
<1>4. ApprovalInv /\ AppliedOnce
  BY DEF ApprovalInv, AppliedOnce, Reopened
<1>5. CountInv /\ BookFollowsShelf
  <2>1. \A a \in Change : AgainOf[a] = 0
    <3>1. \A a \in Change : Delta[a] \in Int /\ Monus(applied[a], 1) = 0
      BY DEF Monus
    <3>2. \A k \in Int : 0 * k = 0
      OBVIOUS
    <3>. QED  BY <3>1, <3>2 DEF AgainOf, Again
  <2>2. WrittenOffAgain = 0
    BY <1>1, <2>1, AgainType, TallyZero
  <2>3. OnShelf - OnBook = OnShelf - OnBook + WrittenOffAgain
    BY <2>2
  <2>. QED  BY <2>3 DEF CountInv, BookFollowsShelf
<1>. QED  BY <1>1, <1>2, <1>3, <1>4, <1>5 DEF Inv

LEMMA Invariance ==
  ASSUME Inv, [Next]_vars
  PROVE  Inv'
<1>0. Base /\ InTransitExact /\ ApprovalInv /\ AppliedOnce /\ CountInv /\ BookFollowsShelf
  BY DEF Inv, Base
<1>1. ASSUME Base', InTransitExact', ApprovalInv' /\ AppliedOnce', CountInv' /\ BookFollowsShelf'
      PROVE  Inv'
  BY <1>1 DEF Inv, Base
<1>2. CASE SeedStep
  <2>1. UNCHANGED <<inTransit, transferVars>> /\ UNCHANGED approvalVars
    BY <1>2 DEF SeedStep, ReadSeed, WriteSeed, variantVars
  <2>2. Base'
    BY <1>0, <1>2, SeedBase
  <2>. QED  BY <1>0, <1>1, <1>2, <2>1, <2>2, TransitUntouched, ApprovalsUntouched, GoodsBook
<1>3. ASSUME NEW o \in Order, OrderStep(o)
      PROVE  Inv'
  <2>1. UNCHANGED <<inTransit, transferVars>> /\ UNCHANGED approvalVars
    BY <1>3 DEF OrderStep, Reserve, Deduct, FindRows, Drain, variantVars
  <2>2. Base'
    BY <1>0, <1>3, OrderBase
  <2>. QED  BY <1>0, <1>1, <1>3, <2>1, <2>2, TransitUntouched, ApprovalsUntouched, OrderBook
<1>4. ASSUME NEW t \in Transfer, TransferStep(t)
      PROVE  Inv'
  <2>1. UNCHANGED approvalVars
    BY <1>4 DEF TransferStep, ShipTransfer, ReceiveTransfer, CancelTransfer
  <2>2. Base'
    BY <1>0, <1>4, TransferBase
  <2>3. InTransitExact'
    BY <1>0, <1>4, <2>2, TransferTransit
  <2>. QED  BY <1>0, <1>1, <1>4, <2>1, <2>2, <2>3, ApprovalsUntouched, GoodsBook
<1>5. ASSUME NEW a \in Change, ApprovalStep(a)
      PROVE  Inv'
  <2>1. UNCHANGED <<inTransit, transferVars>>
    BY <1>5 DEF ApprovalStep, Approve, Correct, ReadDamaged, MarkDamaged, WriteOff, Release,
       SaveAdjustment, FailAdjustment, ReadToReject, Reject, variantVars
  <2>2. Base'
    BY <1>0, <1>5, ApprovalBase
  <2>. QED  BY <1>0, <1>1, <1>5, <2>1, <2>2, TransitUntouched, Approvals, ApprovalBook
<1>6. ASSUME NEW r \in Return, ReturnStep(r)
      PROVE  Inv'
  <2>1. UNCHANGED <<inTransit, transferVars>> /\ UNCHANGED approvalVars
    BY <1>6 DEF ReturnStep, ShelveReturn, BookReturn, variantVars
  <2>2. Base'
    BY <1>0, <1>6, ReturnBase
  <2>. QED  BY <1>0, <1>1, <1>6, <2>1, <2>2, TransitUntouched, ApprovalsUntouched, GoodsBook
<1>7. ASSUME NEW p \in Receipt, ReceiveGoods(p)
      PROVE  Inv'
  <2>1. UNCHANGED <<inTransit, transferVars>> /\ UNCHANGED approvalVars
    BY <1>7 DEF ReceiveGoods
  <2>2. Base'
    BY <1>0, <1>7, ReceiptBase
  <2>. QED  BY <1>0, <1>1, <1>7, <2>1, <2>2, TransitUntouched, ApprovalsUntouched, GoodsBook
<1>8. CASE CountStep
  <2>1. UNCHANGED <<inTransit, transferVars>> /\ UNCHANGED approvalVars
    BY <1>8 DEF CountStep, StartCount, SubmitCount, FinishCount, ReadToCancelCount, CancelCount,
       variantVars
  <2>2. Base'
    BY <1>0, <1>8, CountBase
  <2>. QED  BY <1>0, <1>1, <1>8, <2>1, <2>2, TransitUntouched, ApprovalsUntouched, CountBook
<1>9. CASE UNCHANGED vars
  BY <1>9 DEF Inv, TypeOK, RowInv, SeenInv, InTransitExact, OnTruck, ApprovalInv, AppliedOnce, Reopened, CountInv,
     Finding, BookFollowsShelf, WrittenOffAgain, Again, vars, variantVars, rowVars, orderVars, transferVars, approvalVars,
     countVars
<1>. QED  BY <1>2, <1>3, <1>4, <1>5, <1>6, <1>7, <1>8, <1>9 DEF Next, SeedStep, ReturnStep

LEMMA Safety == Spec => []Inv
BY InitInv, Invariance, PTL DEF Spec

(* The stock figures, rows and documents keep their types; in particular   *)
(* no location's row and no total ever falls below nothing.                *)
THEOREM TypeCorrect == Spec => []TypeOK
<1>1. Inv => TypeOK
  BY DEF Inv
<1>. QED  BY <1>1, Safety, PTL

(* The variant's units in transit are those its transfers sent that have   *)
(* not arrived: shipping, receiving in parts and cancelling never move a   *)
(* unit twice.                                                             *)
THEOREM InTransitIsExact == Spec => []InTransitExact
<1>1. Inv => InTransitExact
  BY DEF Inv
<1>. QED  BY <1>1, Safety, PTL

(* Every unit that is sold, received, returned, corrected or written off   *)
(* moves the total and the shelf alike, but for the units written off once *)
(* more after an audit row could not be saved; and a finished count        *)
(* removes the difference it found, not what happened since.               *)
THEOREM BookMovesAsShelf == Spec => []BookFollowsShelf
<1>1. Inv => BookFollowsShelf
  BY DEF Inv
<1>. QED  BY <1>1, Safety, PTL

(* An approved correction of the total is applied at most once, whoever    *)
(* approves or rejects it meanwhile; one to or from the damaged units is   *)
(* applied once more only after its audit row could not be saved.          *)
THEOREM CorrectedOnce == Spec => []AppliedOnce
<1>1. Inv => AppliedOnce
  BY DEF Inv
<1>. QED  BY <1>1, Safety, PTL
=============================================================================
