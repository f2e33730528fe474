------------------------------- MODULE Purse -------------------------------
(***************************************************************************)
(* What store credit promises a customer: one balance.  Every event, an    *)
(* issue, a purchase, a removal, a restoration, changes it by its whole    *)
(* amount and once, however often it is reported, and the balance never    *)
(* goes below zero.  What expires in between is told.                      *)
(***************************************************************************)
EXTENDS Integers

CONSTANTS
  Credit, Debit,   \* events that add to the balance and that take from it
  Worth(_)         \* what an event adds or takes

VARIABLES
  happened,        \* events that have changed the balance
  balance,
  expired          \* what has gone without an event

Init ==
  /\ happened = {}
  /\ balance = 0
  /\ expired = 0

Add(e) ==
  /\ e \notin happened
  /\ happened' = happened \cup {e}
  /\ balance' = balance + Worth(e)
  /\ UNCHANGED expired

Take(e) ==
  /\ e \notin happened
  /\ Worth(e) <= balance
  /\ happened' = happened \cup {e}
  /\ balance' = balance - Worth(e)
  /\ UNCHANGED expired

Expire ==
  /\ balance' \in 0 .. balance - 1
  /\ expired' = expired + balance - balance'
  /\ UNCHANGED happened

Next ==
  \/ \E e \in Credit : Add(e)
  \/ \E e \in Debit : Take(e)
  \/ Expire

Spec == Init /\ [][Next]_<<happened, balance, expired>>
=============================================================================
