------------------------- MODULE MCStockReservation -------------------------
(***************************************************************************)
(* Two buyers after the last two tees: order A also has a mug, which is    *)
(* sold on back-order.  Three requests run at once.                        *)
(***************************************************************************)
EXTENDS StockReservation

CONSTANTS tee, mug, A, B, a1, a2, b1, x, y, z

MCOrderOf == [l \in {a1, a2, b1} |-> IF l = b1 THEN B ELSE A]
MCVariantOf == [l \in {a1, a2, b1} |-> IF l = a2 THEN mug ELSE tee]
MCQty == [l \in {a1, a2, b1} |-> IF l = b1 THEN 2 ELSE 1]
MCStock == [v \in {tee, mug} |-> IF v = tee THEN 2 ELSE 0]

Units(u) == [l \in {a1, a2, b1} |-> IF l \in DOMAIN u THEN u[l] ELSE 0]
Ask(kind, o, to, units, lines) ==
  [kind |-> kind, order |-> o, to |-> to, lines |-> lines, units |-> Units(units)]
SetStatus(o, s) == Ask("status", o, s, <<>>, {})
Fulfil(o, ls) == Ask("fulfil", o, "pending", [l \in ls |-> MCQty[l]], {})
ShipOne(o, l) == Ask("fulfil", o, "pending", [k \in {l} |-> 1], {})
Cancel(o, ls) == Ask("cancel", o, "pending", <<>>, ls)
MarkPaid(o) == Ask("mark_paid", o, "pending", <<>>, {})

(* Up to three requests on order A that ship or cancel all or part of it;  *)
(* two that ship order B, in one piece or unit by unit, or one of them     *)
(* alone on B that also cancels it, sets it back or records its payment.   *)
MCCalls ==
  [r \in {x, y, z} |->
     CASE r = x -> {SetStatus(A, "shipped"), Fulfil(A, {a1}), Fulfil(A, {a1, a2}),
                    Cancel(A, {a2}), Cancel(A, {a1, a2})}
       [] r = y -> {SetStatus(A, "shipped"), SetStatus(A, "completed"), Fulfil(A, {a1}),
                    Cancel(A, {a1}), Cancel(A, {a1, a2}), ShipOne(B, b1), SetStatus(B, "shipped")}
       [] r = z -> {SetStatus(B, "processing"), SetStatus(A, "delivered"), Cancel(A, {a2}),
                    Cancel(B, {b1}), MarkPaid(B), ShipOne(B, b1)}]

(* Every choice of calls that go together.                                 *)
MCInit == Init /\ GoTogether(call)
MCSpec == MCInit /\ [][Next]_vars

MCCorrections == {<<tee, 1>>, <<tee, -1>>}
=============================================================================
