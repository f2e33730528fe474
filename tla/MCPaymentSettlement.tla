------------------------ MODULE MCPaymentSettlement ------------------------
(***************************************************************************)
(* One checkout, two handlers at a time; the handlers are alike, and so    *)
(* are the totals.                                                         *)
(***************************************************************************)
EXTENDS PaymentSettlement, TLC

Alike == Permutations(Worker) \cup Permutations(Total)
=============================================================================
