---------------------------- MODULE TallyLemmas ----------------------------
(***************************************************************************)
(* The laws of Tally that the proofs about counters cite.                  *)
(***************************************************************************)
EXTENDS Tally, FiniteSetTheorems, TLAPS

(* The tokens of one holder are as many as what it holds.                  *)
LEMMA TokensOfOne ==
  ASSUME NEW x, NEW n \in Nat
  PROVE  /\ IsFiniteSet({x} \X (1 .. n))
         /\ Cardinality({x} \X (1 .. n)) = n
<1> DEFINE A == {x}
           B == 1 .. n
<1>1. IsFiniteSet(A) /\ Cardinality(A) = 1
  BY FS_Singleton
<1>2. IsFiniteSet(B) /\ Cardinality(B) = n
  BY FS_Interval
<1> HIDE DEF A, B
<1>3. IsFiniteSet(A \X B) /\ Cardinality(A \X B) = Cardinality(A) * Cardinality(B)
  BY <1>1, <1>2, FS_Product
<1>4. Cardinality(A \X B) = n
  BY <1>1, <1>2, <1>3
<1>. QED  BY <1>3, <1>4 DEF A, B

(* A sum over a finite domain is a natural number.                         *)
LEMMA TallyNat ==
  ASSUME NEW S, IsFiniteSet(S), NEW f \in [S -> Nat]
  PROVE  IsFiniteSet(Tokens(f)) /\ Tally(f) \in Nat
<1> DEFINE T == {{x} \X (1 .. f[x]) : x \in S}
           g == [x \in S |-> {x} \X (1 .. f[x])]
<1>1. g \in Surjection(S, T)
  BY DEF Surjection
<1>2. IsFiniteSet(T)
  BY <1>1, FS_Surjection
<1>3. ASSUME NEW t \in T
      PROVE  IsFiniteSet(t)
  <2>1. PICK x \in S : t = {x} \X (1 .. f[x])
    OBVIOUS
  <2>2. f[x] \in Nat
    OBVIOUS
  <2>. QED  BY <2>1, <2>2, TokensOfOne
<1>4. IsFiniteSet(UNION T)
  BY <1>2, <1>3, FS_UNION
<1>5. Tokens(f) = UNION T
  BY DEF Tokens
<1>. QED  BY <1>4, <1>5, FS_CardinalityType DEF Tally

(* Membership in the token set.                                            *)
LEMMA TokenMembers ==
  ASSUME NEW S, NEW f \in [S -> Nat], NEW t
  PROVE  t \in Tokens(f) <=> \E x \in S, i \in Nat : t = <<x, i>> /\ 1 <= i /\ i <= f[x]
BY DEF Tokens

(* Changing what one holder has changes the sum by exactly that much.      *)
LEMMA TallyChange ==
  ASSUME NEW S, IsFiniteSet(S), NEW f \in [S -> Nat], NEW g \in [S -> Nat],
         NEW x \in S, \A y \in S \ {x} : g[y] = f[y]
  PROVE  Tally(g) = Tally(f) - f[x] + g[x]
<1> DEFINE Others(h) == Tokens(h) \ ({x} \X (1 .. h[x]))
<1>1. ASSUME NEW h \in [S -> Nat]
      PROVE  Tally(h) = Cardinality(Others(h)) + h[x] /\ Cardinality(Others(h)) \in Nat
  <2>1. {x} \X (1 .. h[x]) \subseteq Tokens(h)
    BY DEF Tokens
  <2>2. IsFiniteSet(Tokens(h)) /\ Tally(h) \in Nat
    BY TallyNat
  <2>3. Tokens(h) \cap ({x} \X (1 .. h[x])) = {x} \X (1 .. h[x])
    BY <2>1
  <2>3a. Cardinality({x} \X (1 .. h[x])) = h[x]
    BY TokensOfOne
  <2>4. Cardinality(Others(h)) = Cardinality(Tokens(h)) - h[x]
    <3> DEFINE U == Tokens(h)
               V == {x} \X (1 .. h[x])
    <3> HIDE DEF U, V
    <3>1. Cardinality(U \ V) = Cardinality(U) - Cardinality(U \cap V)
      BY <2>2, FS_Difference DEF U
    <3>. QED  BY <3>1, <2>3, <2>3a DEF U, V
  <2>5. IsFiniteSet(Others(h))
    BY <2>2, FS_Difference
  <2>. QED  BY <2>2, <2>4, <2>5, FS_CardinalityType DEF Tally
<1>2. Cardinality(Others(f)) = Cardinality(Others(g))
  <2>1. ASSUME NEW h \in [S -> Nat], NEW t
        PROVE  t \in Others(h) <=>
                 \E y \in S \ {x}, i \in Nat : t = <<y, i>> /\ 1 <= i /\ i <= h[y]
    BY TokenMembers
  <2>2. ASSUME NEW t
        PROVE  t \in Others(f) <=> t \in Others(g)
    <3>1. \A y \in S \ {x}, i \in Nat :
            (t = <<y, i>> /\ 1 <= i /\ i <= f[y]) <=> (t = <<y, i>> /\ 1 <= i /\ i <= g[y])
      OBVIOUS
    <3> HIDE DEF Others
    <3>. QED  BY <2>1, <3>1
  <2>3. Others(f) = Others(g)
    <3> HIDE DEF Others
    <3>. QED  BY <2>2
  <2> HIDE DEF Others
  <2>. QED  BY <2>3
<1>3. Tally(f) = Cardinality(Others(f)) + f[x] /\ Cardinality(Others(f)) \in Nat
  BY <1>1
<1>4. Tally(g) = Cardinality(Others(g)) + g[x]
  BY <1>1
<1>5. /\ f[x] \in Nat
      /\ g[x] \in Nat
  OBVIOUS
<1> HIDE DEF Others
<1>. QED  BY <1>2, <1>3, <1>4, <1>5

(* No holder has more than the sum.                                        *)
LEMMA TallyBound ==
  ASSUME NEW S, IsFiniteSet(S), NEW f \in [S -> Nat], NEW x \in S
  PROVE  f[x] <= Tally(f)
<1>1. {x} \X (1 .. f[x]) \subseteq Tokens(f)
  BY DEF Tokens
<1>2. IsFiniteSet(Tokens(f))
  BY TallyNat
<1>3. Cardinality({x} \X (1 .. f[x])) = f[x]
  BY TokensOfOne
<1> DEFINE V == {x} \X (1 .. f[x])
<1> HIDE DEF V
<1>4. Cardinality(V) <= Cardinality(Tokens(f))
  BY <1>1, <1>2, FS_Subset DEF V
<1>. QED  BY <1>3, <1>4 DEF Tally, V

(* Holding pointwise no more sums to no more.                              *)
LEMMA TallyMonotone ==
  ASSUME NEW S, IsFiniteSet(S), NEW f \in [S -> Nat], NEW g \in [S -> Nat],
         \A x \in S : f[x] <= g[x]
  PROVE  Tally(f) <= Tally(g)
<1>1. ASSUME NEW t \in Tokens(f)
      PROVE  t \in Tokens(g)
  <2>1. PICK x \in S, i \in Nat : t = <<x, i>> /\ 1 <= i /\ i <= f[x]
    BY TokenMembers
  <2>2. i <= g[x]
    BY <2>1
  <2>. QED  BY <2>1, <2>2, TokenMembers
<1>2. IsFiniteSet(Tokens(g))
  BY TallyNat
<1>. QED  BY <1>1, <1>2, FS_Subset DEF Tally

(* Nobody holding anything sums to zero.                                   *)
LEMMA TallyZero ==
  ASSUME NEW S, NEW f \in [S -> Nat], \A x \in S : f[x] = 0
  PROVE  Tally(f) = 0
<1>1. Tokens(f) = {}
  BY TokenMembers
<1>. QED  BY <1>1, FS_EmptySet DEF Tally
=============================================================================
