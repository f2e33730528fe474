--------------------------- MODULE MCRefundBudget ---------------------------
(***************************************************************************)
(* A sub-order of two lines, five units of money in all, one of them       *)
(* refunded long ago.  Three refunds run at once.                          *)
(***************************************************************************)
EXTENDS RefundBudget

CONSTANTS hat, bag, x, y, z

MCPrice == [l \in {hat, bag} |-> IF l = hat THEN 2 ELSE 3]

Ask(kind, lines, amount, toCredit) ==
  [kind |-> kind, lines |-> lines, amount |-> amount, toCredit |-> toCredit]
Cancel(lines) == Ask("cancel", lines, 0, FALSE)
Manual(n) == Ask("manual", {}, n, FALSE)
Credit(n) == Ask("manual", {}, n, TRUE)
Return(lines) == Ask("return", lines, 0, FALSE)
ReturnAsCredit(lines) == Ask("return", lines, 0, TRUE)
Approve == Ask("approve", {hat}, 0, FALSE)

MCCalls ==
  [r \in {x, y, z} |->
     CASE r = x -> {Cancel({hat}), Cancel({hat, bag}), Manual(2), Return({hat, bag})}
       [] r = y -> {Cancel({bag}), Manual(3), Return({hat}), ReturnAsCredit({bag}), Approve}
       [] r = z -> {Credit(2), ReturnAsCredit({hat, bag}), Approve}]

(* One call that nobody else disturbs.                                     *)
LoneCancel == [r \in {x, y, z} |-> {Cancel({hat})}]
=============================================================================
