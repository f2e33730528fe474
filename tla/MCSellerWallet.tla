--------------------------- MODULE MCSellerWallet ---------------------------
(***************************************************************************)
(* An order the platform was paid for, one the seller was paid for with a  *)
(* discount the platform sponsored, a booking, two refunds, two payouts,   *)
(* and two runs of the clearing job.                                       *)
(***************************************************************************)
EXTENDS SellerWallet, TLC

CONSTANTS card, cash, visit, r1, r2, auto, hand, hour, button

MCKind == card :> "held" @@ cash :> "direct" @@ visit :> "booking"
MCGross == card :> 2 @@ cash :> 1 @@ visit :> 1
MCNet == card :> 1 @@ cash :> 1 @@ visit :> 1
MCOf == r1 :> card @@ r2 :> cash
MCAsked == r1 :> 2 @@ r2 :> 1
MCRail == auto :> "stripe" @@ hand :> "manual"
MCWanted == auto :> 0 @@ hand :> 2

(* The clearing runs are interchangeable.                                  *)
Runs == Permutations(Clearer)
=============================================================================
