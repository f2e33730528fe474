-------------------------- MODULE MCLocationStock --------------------------
(***************************************************************************)
(* Two locations; an order, a transfer of two units, a delivery, a return, *)
(* corrections of each kind, one of which may be applied again.  Two units *)
(* are on the book at first, and none is there.                            *)
(***************************************************************************)
EXTENDS LocationStock, TLC

CONSTANTS main, branch, o1, t1, found, mark, scrap, r1, p1

MCAsks == o1 :> 1
MCFrom == t1 :> main
MCTo == t1 :> branch
MCSent == t1 :> 2
MCReason == found :> "correction" @@ mark :> "damaged" @@ scrap :> "write_off"
MCDelta == found :> -1 @@ mark :> -1 @@ scrap :> -1
MCPlace == found :> main @@ mark :> Nowhere @@ scrap :> Nowhere
MCGood == p1 :> 1
MCBad == p1 :> 0
MCFailures == found :> 0 @@ mark :> 0 @@ scrap :> 1
=============================================================================
