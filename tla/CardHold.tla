------------------------------ MODULE CardHold ------------------------------
(***************************************************************************)
(* What an authorized payment promises, whoever captures it: the card is   *)
(* charged once and at most the total; an order is paid for good once it   *)
(* is charged, given up for good once the hold is gone, sent only when     *)
(* paid, and cancelled only while it is none of these.                     *)
(***************************************************************************)
EXTENDS Naturals

CONSTANTS
  Order,      \* the orders of the checkout
  Total       \* their total

VARIABLES
  hold,       \* the hold on the card: "open", "capturable", "captured" or "canceled"
  charged,    \* what the card was charged
  due,        \* orders that wait for their money
  paid, lost, \* orders that have it, and that never will
  cancelled,  \* orders cancelled by hand
  sent        \* orders shipped

vars == <<hold, charged, due, paid, lost, cancelled, sent>>

Init ==
  /\ hold = "open" /\ charged = 0
  /\ due = {} /\ paid = {} /\ lost = {} /\ cancelled = {} /\ sent = {}

Authorize ==
  /\ hold = "open" /\ hold' = "capturable"
  /\ UNCHANGED <<charged, due, paid, lost, cancelled, sent>>

(* Orders are placed together, before the card is charged.                 *)
Place ==
  /\ hold \in {"capturable", "canceled"}
  /\ due \cup paid \cup lost = {}
  /\ due' = Order
  /\ UNCHANGED <<hold, charged, paid, lost, cancelled, sent>>

Charge(n) ==
  /\ hold = "capturable" /\ hold' = "captured"
  /\ due = Order
  /\ charged' = n
  /\ UNCHANGED <<due, paid, lost, cancelled, sent>>

Release ==
  /\ hold = "capturable" /\ hold' = "canceled"
  /\ UNCHANGED <<charged, due, paid, lost, cancelled, sent>>

Pay(o) ==
  /\ hold = "captured" /\ o \in due
  /\ due' = due \ {o} /\ paid' = paid \cup {o}
  /\ UNCHANGED <<hold, charged, lost, cancelled, sent>>

GiveUp(o) ==
  /\ hold = "canceled" /\ o \in due
  /\ due' = due \ {o} /\ lost' = lost \cup {o}
  /\ UNCHANGED <<hold, charged, paid, cancelled, sent>>

Cancel(o) ==
  /\ o \in due \ cancelled
  /\ cancelled' = cancelled \cup {o}
  /\ UNCHANGED <<hold, charged, due, paid, lost, sent>>

Send(o) ==
  /\ o \in paid \ (cancelled \cup sent)
  /\ sent' = sent \cup {o}
  /\ UNCHANGED <<hold, charged, due, paid, lost, cancelled>>

Next ==
  \/ Authorize \/ Place \/ Release
  \/ \E n \in 1 .. Total : Charge(n)
  \/ \E o \in Order : Pay(o) \/ GiveUp(o) \/ Cancel(o) \/ Send(o)

Spec == Init /\ [][Next]_vars
=============================================================================
