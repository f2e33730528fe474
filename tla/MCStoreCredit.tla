--------------------------- MODULE MCStoreCredit ---------------------------
(***************************************************************************)
(* Two lots, one of which expires.  A checkout's draw is reported twice,   *)
(* the merchant removes credit, and the cancellation of the order is       *)
(* reported twice too.                                                     *)
(***************************************************************************)
EXTENDS StoreCredit, TLC

CONSTANTS gift, bonus, buy, again, removal, back, twice, other, k1, k2, job1, job2

Order(kind, key, of, amount) == [kind |-> kind, key |-> key, of |-> of, amount |-> amount]

MCAsk ==
  gift :> Order("issue", "gift", k1, 3) @@ bonus :> Order("issue", "bonus", k1, 1)
  @@ buy :> Order("redeem", "redeem:1", k1, 2) @@ again :> Order("redeem", "redeem:1", k1, 2)
  @@ removal :> Order("remove", "removal", k1, 2)
  @@ back :> Order("restore", "cancel:1", k1, 1) @@ twice :> Order("restore", "cancel:1", k1, 1)
MCExpiry == gift :> 1 @@ bonus :> 2 @@ back :> 2 @@ twice :> 2
MCApplied == k1 :> 2

(* Calls that report the same event, and the instances of the job, are     *)
(* interchangeable.                                                        *)
Alike == Permutations({buy, again}) \cup Permutations({back, twice}) \cup Permutations(Sweep)

(* At most four calls: what is bounded is how many of them there are, not  *)
(* how they interleave.                                                    *)
FewCalls == Cardinality({c \in Call : pc[c] # "idle"}) <= 4

(* Two checkouts that use the same credit, one of which is cancelled.      *)
SharedAsk ==
  gift :> Order("issue", "gift", k1, 3)
  @@ buy :> Order("redeem", "redeem:1", k1, 2) @@ other :> Order("redeem", "redeem:2", k2, 2)
  @@ back :> Order("restore", "cancel:1", k1, 2)
SharedExpiry == gift :> 2 @@ back :> 2
SharedApplied == k1 :> 2 @@ k2 :> 2
=============================================================================
