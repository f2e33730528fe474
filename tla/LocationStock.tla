--------------------------- MODULE LocationStock ---------------------------
(***************************************************************************)
(* The stock of one variant of a store with several locations: the total   *)
(* on the variant document, a row for each location once the variant has   *)
(* been split, and what is really on the shelves.  Orders, transfers       *)
(* between locations, corrections that wait for an approval, goods that    *)
(* arrive or come back and a stock count all move it at the same time.     *)
(*                                                                         *)
(* A transaction is one action; a handler without one is an action for     *)
(* each access to a document.                                              *)
(***************************************************************************)
EXTENDS Tally

CONSTANTS
  Location, Main,          \* the store's locations, the default one of them
  OnBook, OnShelf,         \* units the variant document names at first, and that are there
  Order, Asks,             \* orders, and the units of each
  Transfer, From, To, Sent,
  Change, Reason, Delta, Place,  \* corrections submitted for approval; a place or Nowhere
  Doubted,                 \* those that a second reviewer may want to reject
  Return, Broken,          \* single units that buyers send back; those that come back damaged
  Receipt, Good, Bad,      \* goods received, at the default location or at none
  Failures,                \* how often the audit row of a correction cannot be saved
  Nowhere

ASSUME LocationAssumption ==
  /\ IsFiniteSet(Location) /\ Main \in Location /\ Nowhere \notin Location
  /\ OnBook \in Nat /\ OnShelf \in Nat
  /\ Asks \in [Order -> Nat \ {0}]
  /\ IsFiniteSet(Transfer)
  /\ From \in [Transfer -> Location] /\ To \in [Transfer -> Location]
  /\ \A t \in Transfer : From[t] # To[t]
  /\ Sent \in [Transfer -> Nat \ {0}]
  /\ IsFiniteSet(Change)
  /\ Reason \in [Change -> {"correction", "damaged", "write_off"}]
  /\ Delta \in [Change -> Int \ {0}] /\ Place \in [Change -> Location \cup {Nowhere}]
  /\ \A a \in Change : Reason[a] # "correction" => Delta[a] < 0 /\ Place[a] = Nowhere
  /\ Doubted \subseteq Change /\ Broken \subseteq Return
  /\ Good \in [Receipt -> Nat] /\ Bad \in [Receipt -> Nat]
  /\ Failures \in [Change -> Nat]

VARIABLES
  stock, committed, damaged, inTransit,  \* of the variant
  split, held,         \* locations with a row, and the units in it
  seed,                \* the total a handler that is to create the first row has read
  shelf,               \* units that are really there, damaged or on a truck included
  order, left, due,    \* orders; units still to be taken from rows, and the rows not yet asked
  truck, received,     \* transfers and the units of each that arrived
  request, applied,    \* approval requests, and how often each was applied
  applying, seen,      \* approvals under way, and the damaged units one has read
  logging, unlogged,   \* corrections whose audit row is due; how often saving it failed
  rejecting,           \* requests another reviewer has read to reject them
  back, arrived,       \* returns; receipts that were booked
  count, cancelling,   \* the stock count, and whether a cancellation has read it
  short                \* whether a removal found fewer units than it took

variantVars == <<stock, committed, damaged, inTransit>>
rowVars == <<split, held>>
orderVars == <<order, left, due>>
transferVars == <<truck, received>>
approvalVars == <<request, applied, applying, seen, logging, unlogged, rejecting>>
countVars == <<count, cancelling>>
vars == <<variantVars, rowVars, seed, shelf, orderVars, transferVars, approvalVars,
          back, arrived, countVars, short>>

Nothing == -1

Init ==
  /\ stock = OnBook /\ committed = 0 /\ damaged = 0 /\ inTransit = 0
  /\ split = {} /\ held = [l \in Location |-> 0] /\ seed = Nothing
  /\ shelf = OnShelf
  /\ order = [o \in Order |-> "new"]
  /\ left = [o \in Order |-> 0] /\ due = [o \in Order |-> {}]
  /\ truck = [t \in Transfer |-> "draft"] /\ received = [t \in Transfer |-> 0]
  /\ request = [a \in Change |-> "pending"] /\ applied = [a \in Change |-> 0]
  /\ applying = {} /\ seen = [a \in Change |-> Nothing] /\ rejecting = {}
  /\ logging = {} /\ unlogged = [a \in Change |-> 0]
  /\ back = [r \in Return |-> "sent"] /\ arrived = {}
  /\ count = [status |-> "none", system |-> 0, counted |-> Nothing,
              steady |-> FALSE, again |-> 0, applied |-> FALSE]
  /\ cancelling = FALSE
  /\ short = FALSE

Least(a, b) == IF a < b THEN a ELSE b
Monus(a, b) == IF a > b THEN a - b ELSE 0

(* More units are on the shelves, or fewer.                                *)
Physically(n) == shelf + n >= 0 /\ shelf' = shelf + n

-----------------------------------------------------------------------------
(* ensureLocationStockSeeded: the first row takes the whole total, as the  *)
(* handler read it.  Whoever uses rows calls it first.  Of two handlers    *)
(* that both found no row the unique index lets one create it; the other   *)
(* fails and leaves nothing behind, so one reading and one writing, with   *)
(* anything in between, stand for whichever of them wins.                  *)

ReadSeed ==
  /\ split = {} /\ seed = Nothing
  /\ seed' = stock
  /\ UNCHANGED <<variantVars, rowVars, shelf, orderVars, transferVars, approvalVars,
                 back, arrived, countVars, short>>

WriteSeed ==
  /\ seed # Nothing
  /\ seed' = Nothing
  /\ split' = {Main}
  /\ held' = [held EXCEPT ![Main] = seed]
  /\ UNCHANGED <<variantVars, shelf, orderVars, transferVars, approvalVars,
                 back, arrived, countVars, short>>

(* A row is raised, and created if need be; or lowered if it holds enough. *)
Raise(l, n) == split' = split \cup {l} /\ held' = [held EXCEPT ![l] = @ + n]
Lower(l, n) == held[l] >= n /\ held' = [held EXCEPT ![l] = @ - n] /\ UNCHANGED split

-----------------------------------------------------------------------------
(* Orders: reserved at checkout, deducted when they are shipped.           *)

Available == stock - committed - damaged - inTransit

Reserve(o) ==
  /\ order[o] = "new" /\ Available >= Asks[o]
  /\ order' = [order EXCEPT ![o] = "reserved"]
  /\ committed' = committed + Asks[o]
  /\ UNCHANGED <<stock, damaged, inTransit, rowVars, seed, shelf, left, due, transferVars,
                 approvalVars, back, arrived, countVars, short>>

Deduct(o) ==
  /\ order[o] = "reserved"
  /\ Physically(-Asks[o])
  /\ order' = [order EXCEPT ![o] = "shipped"]
  /\ stock' = Monus(stock, Asks[o]) /\ committed' = Monus(committed, Asks[o])
  /\ short' = (short \/ stock < Asks[o])
  /\ left' = [left EXCEPT ![o] = Asks[o]]
  /\ UNCHANGED <<damaged, inTransit, rowVars, seed, due, transferVars, approvalVars,
                 back, arrived, countVars>>

(* drainLocationStock: the rows are read, then asked one after the other,  *)
(* in the order of what they held then, for what is due.  A row that has   *)
(* changed since may give less than it holds.                              *)
FindRows(o) ==
  /\ order[o] = "shipped"
  /\ order' = [order EXCEPT ![o] = "draining"]
  /\ due' = [due EXCEPT ![o] = split]
  /\ UNCHANGED <<variantVars, rowVars, seed, shelf, left, transferVars, approvalVars,
                 back, arrived, countVars, short>>

Drain(o, l) ==
  /\ l \in due[o]
  /\ \E take \in 0 .. Least(left[o], held[l]) :
       /\ due' = [due EXCEPT ![o] = IF take < left[o] THEN @ \ {l} ELSE {}]
       /\ held' = [held EXCEPT ![l] = @ - take]
       /\ left' = [left EXCEPT ![o] = @ - take]
  /\ UNCHANGED <<variantVars, split, seed, shelf, order, transferVars, approvalVars,
                 back, arrived, countVars, short>>

-----------------------------------------------------------------------------
(* Transfers.                                                              *)

(* Mutant of ShipTransfer: what the source holds is not asked.             *)
ShipBlindly(t) ==
  /\ truck[t] = "draft" /\ split # {}
  /\ held' = [held EXCEPT ![From[t]] = @ - Sent[t]]
  /\ inTransit' = inTransit + Sent[t]
  /\ truck' = [truck EXCEPT ![t] = "in_transit"]
  /\ UNCHANGED <<stock, committed, damaged, split, seed, shelf, orderVars, received,
                 approvalVars, back, arrived, countVars, short>>

ShipTransfer(t) ==
  /\ truck[t] = "draft" /\ split # {}
  /\ Lower(From[t], Sent[t])
  /\ inTransit' = inTransit + Sent[t]
  /\ truck' = [truck EXCEPT ![t] = "in_transit"]
  /\ UNCHANGED <<stock, committed, damaged, seed, shelf, orderVars, received,
                 approvalVars, back, arrived, countVars, short>>

ReceiveTransfer(t) ==
  /\ truck[t] \in {"in_transit", "partially_received"}
  /\ \E n \in 1 .. Sent[t] - received[t] :
       /\ received' = [received EXCEPT ![t] = @ + n]
       /\ truck' = [truck EXCEPT ![t] = IF received[t] + n >= Sent[t] THEN "received"
                                        ELSE "partially_received"]
       /\ Raise(To[t], n)
       /\ inTransit' = Monus(inTransit, n)
  /\ UNCHANGED <<stock, committed, damaged, seed, shelf, orderVars, approvalVars,
                 back, arrived, countVars, short>>

(* Mutant of CancelTransfer: one that was received in part is cancelled.   *)
CancelPartly(t) ==
  /\ truck[t] \in {"in_transit", "partially_received"}
  /\ truck' = [truck EXCEPT ![t] = "cancelled"]
  /\ held' = [held EXCEPT ![From[t]] = @ + Sent[t]]
  /\ inTransit' = Monus(inTransit, Sent[t])
  /\ UNCHANGED <<stock, committed, damaged, split, seed, shelf, orderVars, received,
                 approvalVars, back, arrived, countVars, short>>

CancelTransfer(t) ==
  /\ truck[t] = "in_transit"
  /\ truck' = [truck EXCEPT ![t] = "cancelled"]
  /\ held' = [held EXCEPT ![From[t]] = @ + Sent[t]]
  /\ inTransit' = Monus(inTransit, Sent[t])
  /\ UNCHANGED <<stock, committed, damaged, split, seed, shelf, orderVars, received,
                 approvalVars, back, arrived, countVars, short>>

-----------------------------------------------------------------------------
(* approveRequest, rejectRequest and applyStockAdjustment.                 *)

(* Mutant of Approve: a request that was approved is approved again.       *)
ApproveAgain(a) ==
  /\ request[a] # "rejected" /\ a \notin applying \cup logging
  /\ request' = [request EXCEPT ![a] = "approved"]
  /\ applying' = applying \cup {a}
  /\ UNCHANGED <<variantVars, rowVars, seed, shelf, orderVars, transferVars, applied, seen,
                 logging, unlogged, rejecting, back, arrived, countVars, short>>

Approve(a) ==
  /\ request[a] = "pending"
  /\ request' = [request EXCEPT ![a] = "approved"]
  /\ applying' = applying \cup {a}
  /\ UNCHANGED <<variantVars, rowVars, seed, shelf, orderVars, transferVars, applied, seen,
                 logging, unlogged, rejecting, back, arrived, countVars, short>>

WaitsAgain(a) == request' = [request EXCEPT ![a] = IF @ = "approved" THEN "pending" ELSE @]

(* Whatever goes wrong, the request waits again for an approval.           *)
Release(a) ==
  /\ a \in applying
  /\ applying' = applying \ {a}
  /\ seen' = [seen EXCEPT ![a] = Nothing]
  /\ WaitsAgain(a)
  /\ UNCHANGED <<variantVars, rowVars, seed, shelf, orderVars, transferVars, applied,
                 logging, unlogged, rejecting, back, arrived, countVars, short>>

Applied(a) ==
  /\ applying' = applying \ {a}
  /\ applied' = [applied EXCEPT ![a] = @ + 1]
  /\ seen' = [seen EXCEPT ![a] = Nothing]
  /\ UNCHANGED <<request, unlogged, rejecting>>

(* One transaction, with the audit row.                                    *)
Correct(a) ==
  /\ a \in applying /\ Reason[a] = "correction"
  /\ IF Place[a] = Nowhere THEN UNCHANGED rowVars
     ELSE /\ split # {}
          /\ IF Delta[a] > 0 THEN Raise(Place[a], Delta[a]) ELSE Lower(Place[a], -Delta[a])
  /\ stock + Delta[a] >= committed
  /\ stock' = stock + Delta[a]
  /\ Physically(Delta[a])
  /\ Applied(a)
  /\ UNCHANGED <<committed, damaged, inTransit, seed, orderVars, transferVars, logging,
                 back, arrived, countVars, short>>

ReadDamaged(a) ==
  /\ a \in applying /\ Reason[a] = "damaged" /\ seen[a] = Nothing
  /\ Monus(stock, committed + damaged) >= -Delta[a]
  /\ seen' = [seen EXCEPT ![a] = damaged]
  /\ UNCHANGED <<variantVars, rowVars, seed, shelf, orderVars, transferVars, request, applied,
                 rejecting, applying, logging, unlogged, back, arrived, countVars, short>>

(* The write is conditional on the damaged units read, not on the others.  *)
MarkDamaged(a) ==
  /\ a \in applying /\ seen[a] # Nothing /\ damaged = seen[a]
  /\ damaged' = seen[a] - Delta[a]
  /\ Applied(a) /\ logging' = logging \cup {a}
  /\ UNCHANGED <<stock, committed, inTransit, rowVars, seed, shelf, orderVars, transferVars,
                 back, arrived, countVars, short>>

(* Conditional on all that was read.  The units are thrown away once,      *)
(* however often they are written off.                                     *)
WriteOff(a) ==
  LET n == -Delta[a] IN
  /\ a \in applying /\ Reason[a] = "write_off"
  /\ n <= damaged
  /\ damaged' = damaged - n /\ stock' = Monus(stock, n)
  /\ short' = (short \/ stock < n)
  /\ Physically(IF applied[a] = 0 THEN -n ELSE 0)
  /\ Applied(a) /\ logging' = logging \cup {a}
  /\ UNCHANGED <<committed, inTransit, rowVars, seed, orderVars, transferVars,
                 back, arrived, countVars>>

SaveAdjustment(a) ==
  /\ a \in logging
  /\ logging' = logging \ {a}
  /\ UNCHANGED <<variantVars, rowVars, seed, shelf, orderVars, transferVars, request, applied,
                 rejecting, applying, seen, unlogged, back, arrived, countVars, short>>

(* The audit row cannot be saved: the request waits again for an approval, *)
(* although it was applied.                                                *)
FailAdjustment(a) ==
  /\ a \in logging /\ unlogged[a] < Failures[a]
  /\ logging' = logging \ {a}
  /\ unlogged' = [unlogged EXCEPT ![a] = @ + 1]
  /\ WaitsAgain(a)
  /\ UNCHANGED <<variantVars, rowVars, seed, shelf, orderVars, transferVars, applied,
                 rejecting, applying, seen, back, arrived, countVars, short>>

ReadToReject(a) ==
  /\ a \in Doubted \ rejecting /\ request[a] = "pending"
  /\ rejecting' = rejecting \cup {a}
  /\ UNCHANGED <<variantVars, rowVars, seed, shelf, orderVars, transferVars, request, applied,
                 seen, applying, logging, unlogged, back, arrived, countVars, short>>

Reject(a) ==
  /\ a \in rejecting
  /\ rejecting' = rejecting \ {a}
  /\ request' = [request EXCEPT ![a] = "rejected"]
  /\ UNCHANGED <<variantVars, rowVars, seed, shelf, orderVars, transferVars, applied,
                 seen, applying, logging, unlogged, back, arrived, countVars, short>>

-----------------------------------------------------------------------------
(* Units that come back, and goods that arrive.                            *)

ShelveReturn(r) ==
  /\ back[r] = "sent" /\ split # {}
  /\ back' = [back EXCEPT ![r] = "shelved"]
  /\ Raise(Main, 1)
  /\ UNCHANGED <<variantVars, seed, shelf, orderVars, transferVars, approvalVars,
                 arrived, countVars, short>>

BookReturn(r) ==
  /\ back[r] = "shelved"
  /\ back' = [back EXCEPT ![r] = "done"]
  /\ stock' = stock + 1
  /\ damaged' = IF r \in Broken THEN damaged + 1 ELSE damaged
  /\ Physically(1)
  /\ UNCHANGED <<committed, inTransit, rowVars, seed, orderVars, transferVars, approvalVars,
                 arrived, countVars, short>>

(* What is good goes to the location's row, if the goods were ordered for  *)
(* one; what is not, to the total only.                                    *)
ReceiveGoods(p) ==
  /\ p \notin arrived
  /\ arrived' = arrived \cup {p}
  /\ \/ Good[p] > 0 /\ split # {} /\ Raise(Main, Good[p])
     \/ UNCHANGED rowVars
  /\ stock' = stock + Good[p] + Bad[p]
  /\ damaged' = damaged + Bad[p]
  /\ Physically(Good[p] + Bad[p])
  /\ UNCHANGED <<committed, inTransit, seed, orderVars, transferVars, approvalVars,
                 back, countVars, short>>

-----------------------------------------------------------------------------
(* A count of the whole store.                                             *)

StartCount ==
  /\ count.status = "none"
  /\ count' = [count EXCEPT !.status = "open", !.system = stock]
  /\ UNCHANGED <<variantVars, rowVars, seed, shelf, orderVars, transferVars, approvalVars,
                 back, arrived, cancelling, short>>

(* Units that corrections wrote off after they were gone already.          *)
Again(a) == IF Reason[a] = "write_off" THEN Monus(applied[a], 1) * (-Delta[a]) ELSE 0
WrittenOffAgain == Tally([a \in Change |-> Again(a)])

(* Somebody counts what is there.  (steady: since the count was started    *)
(* the total has not changed, nor is anything on a truck.)                 *)
SubmitCount ==
  /\ count.status = "open" /\ shelf >= inTransit
  /\ count' = [count EXCEPT !.counted = shelf - inTransit, !.again = WrittenOffAgain,
                            !.steady = (stock = count.system /\ inTransit = 0)]
  /\ UNCHANGED <<variantVars, rowVars, seed, shelf, orderVars, transferVars, approvalVars,
                 back, arrived, cancelling, short>>

Finding == count.counted - count.system

(* Mutant of FinishCount: the total is set to what was counted.            *)
FinishByOverwrite ==
  /\ count.status = "open" /\ split = {}
  /\ count' = [count EXCEPT !.status = "completed", !.applied = count.counted # Nothing]
  /\ stock' = IF count.counted # Nothing THEN count.counted ELSE stock
  /\ UNCHANGED <<committed, damaged, inTransit, rowVars, seed, shelf, orderVars, transferVars,
                 approvalVars, back, arrived, cancelling, short>>

(* The difference that was found is applied, unless the variant has rows   *)
(* in several locations or its row holds too little.  A total below what   *)
(* is reserved fails the whole count.                                      *)
Correctable ==
  \/ Finding = 0 \/ split = {}
  \/ Cardinality(split) = 1 /\ \A l \in split : held[l] + Least(Finding, 0) >= 0

FinishCount ==
  LET applies == count.counted # Nothing /\ Correctable
      change == IF applies THEN Finding ELSE 0 IN
  /\ count.status = "open"
  /\ change # 0 => stock + change >= committed
  /\ count' = [count EXCEPT !.status = "completed", !.applied = applies]
  /\ stock' = stock + change
  /\ held' = [l \in Location |-> IF l \in split THEN held[l] + change ELSE held[l]]
  /\ UNCHANGED <<committed, damaged, inTransit, split, seed, shelf, orderVars, transferVars,
                 approvalVars, back, arrived, cancelling, short>>

ReadToCancelCount ==
  /\ count.status = "open" /\ ~cancelling
  /\ cancelling' = TRUE
  /\ UNCHANGED <<variantVars, rowVars, seed, shelf, orderVars, transferVars, approvalVars,
                 back, arrived, count, short>>

CancelCount ==
  /\ cancelling
  /\ cancelling' = FALSE
  /\ count' = [count EXCEPT !.status = "cancelled"]
  /\ UNCHANGED <<variantVars, rowVars, seed, shelf, orderVars, transferVars, approvalVars,
                 back, arrived, short>>

-----------------------------------------------------------------------------
OrderStep(o) ==
  Reserve(o) \/ Deduct(o) \/ FindRows(o) \/ (\E l \in Location : Drain(o, l))
TransferStep(t) == ShipTransfer(t) \/ ReceiveTransfer(t) \/ CancelTransfer(t)
ApprovalStep(a) ==
  \/ Approve(a) \/ Correct(a) \/ ReadDamaged(a) \/ MarkDamaged(a) \/ WriteOff(a) \/ Release(a)
  \/ SaveAdjustment(a) \/ FailAdjustment(a) \/ ReadToReject(a) \/ Reject(a)
CountStep == StartCount \/ SubmitCount \/ FinishCount \/ ReadToCancelCount \/ CancelCount

Next ==
  \/ ReadSeed \/ WriteSeed
  \/ \E o \in Order : OrderStep(o)
  \/ \E t \in Transfer : TransferStep(t)
  \/ \E a \in Change : ApprovalStep(a)
  \/ \E r \in Return : ShelveReturn(r) \/ BookReturn(r)
  \/ \E p \in Receipt : ReceiveGoods(p)
  \/ CountStep

Spec == Init /\ [][Next]_vars

-----------------------------------------------------------------------------
(* Properties.                                                             *)

(* Every variable keeps its type; no location ever holds less than nothing.*)
TypeOK ==
  /\ \A n \in {stock, committed, damaged, inTransit, shelf} : n \in Nat
  /\ split \subseteq Location /\ held \in [Location -> Nat]
  /\ \A l \in Location \ split : held[l] = 0
  /\ seed \in Nat \cup {Nothing}
  /\ order \in [Order -> {"new", "reserved", "shipped", "draining"}]
  /\ left \in [Order -> Nat] /\ due \in [Order -> SUBSET Location]
  /\ truck \in [Transfer -> {"draft", "in_transit", "partially_received", "received", "cancelled"}]
  /\ received \in [Transfer -> Nat]
  /\ request \in [Change -> {"pending", "approved", "rejected"}] /\ applied \in [Change -> Nat]
  /\ seen \in [Change -> Nat \cup {Nothing}]
  /\ rejecting \subseteq Change /\ applying \subseteq Change
  /\ logging \subseteq Change /\ unlogged \in [Change -> Nat]
  /\ back \in [Return -> {"sent", "shelved", "done"}] /\ arrived \subseteq Receipt
  /\ count \in [status : {"none", "open", "completed", "cancelled"}, system : Nat,
                counted : Nat \cup {Nothing}, steady : BOOLEAN, again : Nat, applied : BOOLEAN]
  /\ cancelling \in BOOLEAN /\ short \in BOOLEAN

(* The units the variant has in transit are those of its open transfers    *)
(* that have not arrived, and no more arrive than were sent: receipts and  *)
(* cancellations of one transfer, in any order, move each unit once.       *)
OnTruck(t) ==
  IF truck[t] \in {"in_transit", "partially_received"} THEN Sent[t] - received[t] ELSE 0
InTransitExact ==
  /\ inTransit = Tally([t \in Transfer |-> OnTruck(t)])
  /\ \A t \in Transfer : received[t] > 0 => truck[t] \in {"partially_received", "received"}

(* Every unit that moves is booked once, whoever moves units at the same   *)
(* time, but for units written off again after their audit row could not   *)
(* be saved: the total stays as far from what is there as it was at first, *)
(* and a count that found the difference removes it, whatever was sold or  *)
(* received between counting and the end of the count.                     *)
BookFollowsShelf ==
  short \/ IF count.applied THEN count.steady => shelf - stock = WrittenOffAgain - count.again
           ELSE shelf - stock = OnShelf - OnBook + WrittenOffAgain

(* A correction of the total is applied once, and once it was it is not up *)
(* for approval again; one to or from the damaged units once more for each *)
(* time its audit row could not be saved, whoever approves and rejects it. *)
Reopened(a) == IF Reason[a] = "correction" THEN 0 ELSE unlogged[a]
AppliedOnce ==
  \A a \in Change :
    /\ applied[a] <= Reopened(a) + 1
    /\ applied[a] > Reopened(a) => request[a] # "pending"
=============================================================================
