----------------------------- MODULE RefundPool -----------------------------
(***************************************************************************)
(* What common/refund-cap.util.ts promises: one budget per sub-order.      *)
(* Refunds take from it, all at once or not at all, never more than is     *)
(* left, and give back what they took when the money does not move.        *)
(***************************************************************************)
EXTENDS Integers

CONSTANTS
  Request,   \* refunds
  Budget     \* what is left to refund at first

VARIABLES
  left,      \* what is left to refund
  holds      \* what each refund has taken

Init ==
  /\ left = Budget
  /\ holds = [r \in Request |-> 0]

Take(r, n) ==
  /\ holds[r] = 0
  /\ n \in 1 .. left
  /\ left' = left - n
  /\ holds' = [holds EXCEPT ![r] = n]

GiveBack(r) ==
  /\ holds[r] > 0
  /\ left' = left + holds[r]
  /\ holds' = [holds EXCEPT ![r] = 0]

Next == \E r \in Request : (\E n \in 1 .. left : Take(r, n)) \/ GiveBack(r)

Spec == Init /\ [][Next]_<<left, holds>>
=============================================================================
