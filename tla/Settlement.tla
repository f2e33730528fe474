----------------------------- MODULE Settlement -----------------------------
(***************************************************************************)
(* What a checkout promises a buyer, whoever handles the payments: orders  *)
(* are placed for one payment that succeeded, in one attempt to finish it, *)
(* or for cash; at one total; each order once.  A payment goes back once,  *)
(* for an attempt that ended without orders; an attempt it went back for   *)
(* places no order, unless nobody heard that it did.                       *)
(***************************************************************************)
EXTENDS Naturals

CONSTANTS
  Payment,    \* card payments the buyer may make
  Cash,       \* what pays for an order on delivery
  Amount,     \* totals of the checkout
  Attempt,    \* attempts to finish a payment, positive numbers
  Part        \* orders the checkout may take

VARIABLES
  paid,       \* payments that succeeded
  back,       \* the attempt a payment went back for, 0 when it did not
  unheard,    \* payments that went back and nobody heard of it
  deals,      \* what the orders were placed for: payer, attempt and total
  placed      \* the orders placed

vars == <<paid, back, unheard, deals, placed>>
Deal == [by : Payment \cup {Cash}, attempt : Attempt \cup {0}, total : Amount]

Init ==
  /\ paid = {}
  /\ back = [i \in Payment |-> 0]
  /\ unheard = {}
  /\ deals = {}
  /\ placed = {}

Pay(i) ==
  /\ i \notin paid
  /\ paid' = paid \cup {i}
  /\ UNCHANGED <<back, unheard, deals, placed>>

Place(p, d) ==
  /\ p \notin placed
  /\ deals \subseteq {d}
  /\ d.by = Cash \/ (d.by \in paid /\ (back[d.by] # d.attempt \/ d.by \in unheard))
  /\ placed' = placed \cup {p}
  /\ deals' = {d}
  /\ UNCHANGED <<paid, back, unheard>>

Return(i, a) ==
  /\ i \in paid
  /\ back[i] = 0
  /\ \A d \in deals : d.by = i => d.attempt # a
  /\ back' = [back EXCEPT ![i] = a]
  /\ unheard' \in {unheard, unheard \cup {i}}
  /\ UNCHANGED <<paid, deals, placed>>

Next ==
  \/ \E i \in Payment : Pay(i) \/ \E a \in Attempt : Return(i, a)
  \/ \E p \in Part, d \in Deal : Place(p, d)

Spec == Init /\ [][Next]_vars
=============================================================================
