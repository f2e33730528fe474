------------------------------- MODULE Tally -------------------------------
(***************************************************************************)
(* Sums of natural numbers over a finite domain, written as the number of  *)
(* unit tokens rather than as a recursion, so that facts about a sum can   *)
(* be derived from facts about finite sets.  Used wherever the shop keeps  *)
(* one counter (reserved stock, refunded money) for what several lines or  *)
(* several handlers hold.                                                  *)
(***************************************************************************)
EXTENDS Integers, FiniteSets

(* One token <<x, i>> for each of the f[x] units that x holds.             *)
Tokens(f) == UNION {{x} \X (1 .. f[x]) : x \in DOMAIN f}

(* The sum of f[x] over the domain of f.                                   *)
Tally(f) == Cardinality(Tokens(f))
=============================================================================
