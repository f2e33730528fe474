---------------------------- MODULE Disbursement ----------------------------
(***************************************************************************)
(* What a store's payouts promise, whoever sends, fails, retries, rejects  *)
(* or reverses them: the books take the sum of a payout once and give the  *)
(* same sum back once; Stripe moves it once at most, and while the books   *)
(* hold it; a payout that was done is undone only where Stripe took the    *)
(* money back, and nothing becomes of it after that.                       *)
(***************************************************************************)
EXTENDS Integers

CONSTANTS
  Payout,
  Wired       \* those that Stripe transfers; the others are paid by hand

VARIABLES
  book,       \* of a payout: "none", "held", "done", "back" or "undone"
  sum,        \* what the books took for it
  out,        \* what the books have taken and not given back
  wire        \* its transfer: "none", "sent" or "reversed"

vars == <<book, sum, out, wire>>

Init ==
  /\ book = [p \in Payout |-> "none"] /\ sum = [p \in Payout |-> 0] /\ out = 0
  /\ wire = [p \in Payout |-> "none"]

Enter(p, b) == book' = [book EXCEPT ![p] = b]

(* A payout by hand may be done as soon as it is entered.                  *)
Take(p) ==
  /\ book[p] = "none"
  /\ Enter(p, "held") \/ (p \notin Wired /\ Enter(p, "done"))
  /\ \A q \in Payout \ {p} : sum'[q] = sum[q]
  /\ sum'[p] \in Nat /\ out' = out + sum'[p]
  /\ UNCHANGED wire

TakeAgain(p) ==
  /\ book[p] = "back" /\ Enter(p, "held")
  /\ out' = out + sum[p]
  /\ UNCHANGED <<sum, wire>>

Send(p) ==
  /\ p \in Wired /\ book[p] = "held"
  /\ wire[p] = "none" /\ wire' = [wire EXCEPT ![p] = "sent"]
  /\ UNCHANGED <<book, sum, out>>

Finish(p) ==
  /\ book[p] = "held" /\ Enter(p, "done")
  /\ p \in Wired => wire[p] # "none"
  /\ UNCHANGED <<sum, out, wire>>

GiveBack(p) ==
  /\ book[p] = "held" /\ Enter(p, "back")
  /\ out' = out - sum[p]
  /\ UNCHANGED <<sum, wire>>

Recall(p) ==
  /\ wire[p] = "sent" /\ wire' = [wire EXCEPT ![p] = "reversed"]
  /\ UNCHANGED <<book, sum, out>>

Undo(p) ==
  /\ book[p] = "done" /\ wire[p] = "reversed" /\ Enter(p, "undone")
  /\ out' = out - sum[p]
  /\ UNCHANGED <<sum, wire>>

Next ==
  \E p \in Payout :
    \/ Take(p) \/ TakeAgain(p) \/ Send(p) \/ Finish(p) \/ GiveBack(p) \/ Recall(p) \/ Undo(p)

Spec == Init /\ [][Next]_vars
=============================================================================
