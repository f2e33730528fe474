------------------------ MODULE MCAuthorizedCapture ------------------------
(***************************************************************************)
(* The two orders of a mixed cart; the seller captures half of the amount, *)
(* captures all of it, or ships.                                           *)
(***************************************************************************)
EXTENDS AuthorizedCapture, TLC

CONSTANTS goods, course, half, all, ship

MCTotal == goods :> 6 @@ course :> 5
MCUnits == goods :> 1 @@ course :> 0
MCAbout == half :> goods @@ all :> course @@ ship :> goods
MCPart == half :> 5 @@ all :> 0 @@ ship :> 0
=============================================================================
