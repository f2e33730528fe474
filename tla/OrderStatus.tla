---------------------------- MODULE OrderStatus ----------------------------
(***************************************************************************)
(* The status vocabulary of orders, sub-orders and items and the one       *)
(* function that rolls child statuses up into a parent status              *)
(* (orders/order-status.util.ts).  The roll-up looks only at which         *)
(* statuses occur, never at how often, so it is a function of a set.       *)
(***************************************************************************)
EXTENDS Integers, FiniteSets

(* The forward path of a fulfilment, and the place of a status on it.      *)
ProgressStatus == {"pending", "processing", "shipped", "delivered", "completed"}
Stage ==
  [s \in ProgressStatus |->
     CASE s = "pending" -> 0
       [] s = "processing" -> 1
       [] s = "shipped" -> 2
       [] s = "delivered" -> 3
       [] s = "completed" -> 4]

DeadStatus == {"cancelled", "refunded"}
PartialStatus == {"partially_cancelled", "partially_refunded", "partially_shipped"}
ItemStatus == ProgressStatus \cup DeadStatus
RollupStatus == ItemStatus \cup PartialStatus
FulfilledStatus == {"shipped", "delivered", "completed"}

(* deriveRollupStatus: terminal children decide first, then progress;      *)
(* children that are themselves partial are on no stage and are skipped.   *)
Rollup(children) ==
  LET stages == {Stage[s] : s \in children \cap ProgressStatus}
  IN  IF children = {"cancelled"} THEN "cancelled"
      ELSE IF children = {"refunded"} THEN "refunded"
      ELSE IF "refunded" \in children THEN "partially_refunded"
      ELSE IF "cancelled" \in children THEN "partially_cancelled"
      ELSE IF stages = {} THEN "pending"
      ELSE IF Cardinality(stages) = 1
           THEN CHOOSE s \in ProgressStatus : {Stage[s]} = stages
      ELSE "partially_shipped"

(* SELLER_STATUS_RANK: the partial labels sit at the rank of the work      *)
(* still open; cancelled and refunded have no rank, so nothing leaves them.*)
SellerStatusRank ==
  [s \in RollupStatus \ DeadStatus |->
     CASE s = "pending" -> 0
       [] s \in {"processing", "partially_cancelled", "partially_refunded"} -> 1
       [] s \in {"partially_shipped", "shipped"} -> 2
       [] s = "delivered" -> 3
       [] s = "completed" -> 4]

AllowedTransition(current, next) ==
  /\ {current, next} \subseteq RollupStatus \ DeadStatus
  /\ SellerStatusRank[next] >= SellerStatusRank[current]
=============================================================================
