-------------------------- MODULE StoreCreditProofs --------------------------
(***************************************************************************)
(* The credit of a customer is one balance that follows its ledger, for    *)
(* any number of calls and sweeps between whose accesses others come.      *)
(***************************************************************************)
EXTENDS StoreCredit, TallyLemmas, TLAPS

(* How far a call is tells what it has drawn, and a purchase that has kept *)
(* what it drew has its row.                                               *)
CallInv(c) ==
  /\ pc[c] \in {"idle", "reading", "adding", "refused"} => drawn[c] = Nothing
  /\ pc[c] = "recording" => Tally(drawn[c]) = Ask[c].amount
  /\ pc[c] = "done" => \/ drawn[c] = Nothing
                       \/ Tally(drawn[c]) = Ask[c].amount /\ Event(c) \in rows
KindInv(c) ==
  /\ pc[c] \in {"reading", "drawing", "recording", "returning", "undoing"} => Ask[c].kind \in Debits
  /\ pc[c] = "adding" => Ask[c].kind = "restore"
  /\ Ask[c].kind = "issue" /\ Event(c) \in rows => pc[c] = "done"

(* Only one of the calls that report a purchase keeps what it drew.        *)
OnceInv ==
  \A c, d \in Call : /\ c # d /\ Event(c) = Event(d)
                     /\ pc[c] = "done" /\ pc[d] = "done"
                     => drawn[c] = Nothing \/ drawn[d] = Nothing

(* A lot has the row that credited it.                                     *)
LotInv(l) == born[l] > 0 => pc[l] = "done" /\ Event(l) \in rows

(* A sweep holds what it took from one lot until it writes the row.        *)
SweepInv(s) ==
  /\ sweeping[s] # "writing" => lost[s] = Nothing
  /\ sweeping[s] = "writing" => \E l \in Lot : \A m \in Lot \ {l} : lost[s][m] = 0

Inv ==
  /\ TypeOK
  /\ \A c \in Call : CallInv(c)
  /\ \A c \in Call : KindInv(c)
  /\ OnceInv
  /\ \A l \in Lot : LotInv(l)
  /\ \A s \in Sweep : SweepInv(s)
  /\ CreditedOnce
  /\ LedgerExact

-----------------------------------------------------------------------------
(* Types.                                                                  *)

LEMMA Requests ==
  /\ IsFiniteSet(Call) /\ IsFiniteSet(Lot) /\ IsFiniteSet(Sweep) /\ Lot \subseteq Call
  /\ \A c \in Call : /\ Ask[c].amount \in Nat /\ Ask[c].amount > 0
                     /\ Ask[c].kind \in Debits \cup Credits
                     /\ c \in Lot <=> Ask[c].kind \in Credits
                     /\ Event(c).amount = Ask[c].amount
  /\ Nothing \in [Lot -> Nat] /\ Tally(Nothing) = 0
<1>1. Lot \subseteq Call /\ IsFiniteSet(Call) /\ IsFiniteSet(Sweep)
  BY StoreCreditAssumption DEF Lot
<1>2. IsFiniteSet(Lot)
  BY <1>1, FS_Subset
<1>3. Nothing \in [Lot -> Nat] /\ \A l \in Lot : Nothing[l] = 0
  BY DEF Nothing
<1>4. Tally(Nothing) = 0
  BY <1>3, TallyZero
<1>5. \A c \in Call : Ask[c] \in Request
  BY StoreCreditAssumption
<1>6. \A c \in Call : /\ Ask[c].amount \in Nat /\ Ask[c].amount > 0
                      /\ Ask[c].kind \in Debits \cup Credits
                      /\ c \in Lot <=> Ask[c].kind \in Credits
                      /\ Event(c).amount = Ask[c].amount
  BY <1>5 DEF Request, Lot, Event
<1>. QED  BY <1>1, <1>2, <1>3, <1>4, <1>6

LEMMA DrawnType ==
  ASSUME TypeOK, NEW c \in Call
  PROVE  /\ drawn[c] \in [Lot -> Nat] /\ Tally(drawn[c]) \in Nat
         /\ Short(c) \in Int
BY Requests, TallyNat DEF TypeOK, Short

LEMMA Births ==
  Cardinality({l \in Lot : born[l] > 0}) \in Nat
BY Requests, FS_Subset, FS_CardinalityType

LEMMA CallTypes ==
  ASSUME TypeOK, NEW c \in Call, CallStep(c)
  PROVE  TypeOK'
<1> USE DEF lotVars, sweepVars, callVars, TypeOK
<1>1. ASSUME NEW s \in CallSteps, Goto(c, s)
      PROVE  pc' \in [Call -> CallSteps]
  BY <1>1 DEF Goto
<1>2. CASE Begin(c) \/ ReadLots(c) \/ EndDraw(c) \/ EndPutBack(c) \/ BeginRestore(c)
  <2>1. pc' \in [Call -> CallSteps]
    BY <1>2 DEF Begin, ReadLots, EndDraw, EndPutBack, BeginRestore, Goto, CallSteps
  <2>2. read' \in [Call -> [Lot -> Nat]] /\ plan' \in [Call -> SUBSET Lot]
    <3>1. CASE ReadLots(c)
      BY <3>1 DEF ReadLots, Open
    <3>2. CASE EndDraw(c)
      BY <3>2, Requests DEF EndDraw
    <3>3. CASE ~ReadLots(c) /\ ~EndDraw(c)
      BY <1>2, <3>3 DEF Begin, EndPutBack, BeginRestore
    <3>. QED  BY <3>1, <3>2, <3>3
  <2>3. UNCHANGED <<now, paying, rows, lotVars, drawn, sweepVars>>
    BY <1>2 DEF Begin, ReadLots, EndDraw, EndPutBack, BeginRestore
  <2>. QED  BY <2>1, <2>2, <2>3
<1>3. ASSUME NEW l \in Lot, Draw(c, l)
      PROVE  TypeOK'
  <2> DEFINE take == IF read[c][l] < Short(c) THEN read[c][l] ELSE Short(c)
  <2>1. take \in Nat
    BY <1>3, DrawnType DEF Draw
  <2>2. /\ plan' \in [Call -> SUBSET Lot]
        /\ \/ /\ remaining[l] >= take
              /\ remaining' = [remaining EXCEPT ![l] = @ - take]
              /\ drawn' = [drawn EXCEPT ![c][l] = @ + take]
           \/ UNCHANGED <<remaining, drawn>>
        /\ UNCHANGED <<now, paying, rows, born, handled, pc, read, sweepVars>>
    BY <1>3 DEF Draw
  <2> HIDE DEF take
  <2>3. remaining' \in [Lot -> Nat] /\ drawn' \in [Call -> [Lot -> Nat]]
    <3>1. CASE UNCHANGED <<remaining, drawn>>
      BY <3>1
    <3>2. CASE /\ remaining[l] >= take
               /\ remaining' = [remaining EXCEPT ![l] = @ - take]
               /\ drawn' = [drawn EXCEPT ![c][l] = @ + take]
      <4>1. remaining[l] \in Nat /\ drawn[c] \in [Lot -> Nat] /\ drawn[c][l] \in Nat
        OBVIOUS
      <4>2. remaining[l] - take \in Nat /\ drawn[c][l] + take \in Nat
        BY <2>1, <3>2, <4>1
      <4>3. remaining' \in [Lot -> Nat]
        BY <3>2, <4>2
      <4>4. [drawn[c] EXCEPT ![l] = @ + take] \in [Lot -> Nat]
        BY <4>1, <4>2
      <4>5. drawn' = [drawn EXCEPT ![c] = [drawn[c] EXCEPT ![l] = @ + take]]
        BY <3>2
      <4>. QED  BY <4>3, <4>4, <4>5
    <3>. QED  BY <2>2, <3>1, <3>2
  <2>. QED  BY <2>2, <2>3
<1>4. CASE Record(c)
  BY <1>4 DEF Record, Goto, CallSteps
<1>5. ASSUME NEW l \in Lot, PutBack(c, l)
      PROVE  TypeOK'
  <2>1. remaining' \in [Lot -> Nat] /\ drawn' \in [Call -> [Lot -> Nat]]
    BY <1>5 DEF PutBack
  <2>. QED  BY <1>5, <2>1 DEF PutBack
<1>6. CASE Issue(c) \/ AddLot(c)
  <2>1. /\ pc' \in [Call -> CallSteps]
        /\ NewLot(c) \/ UNCHANGED <<born, remaining, rows>>
        /\ UNCHANGED <<now, paying, handled, read, plan, drawn, sweepVars>>
    BY <1>6 DEF Issue, AddLot, Goto, CallSteps
  <2>2. born' \in [Lot -> Nat] /\ remaining' \in [Lot -> Nat] /\ rows' \subseteq {Event(d) : d \in Call}
    BY <2>1, Births, Requests DEF NewLot
  <2>. QED  BY <2>1, <2>2
<1>. QED  BY <1>2, <1>3, <1>4, <1>5, <1>6 DEF CallStep

LEMMA SweepTypes ==
  ASSUME TypeOK, NEW s \in Sweep, SweepStep(s)
  PROVE  TypeOK'
<1> USE DEF lotVars, sweepVars, callVars, TypeOK
<1>1. CASE FindDue(s)
  BY <1>1 DEF FindDue
<1>2. ASSUME NEW l \in Lot, ClaimLot(s, l)
      PROVE  TypeOK'
  <2>1. /\ remaining' \in [Lot -> Nat] /\ handled' \in [Lot -> BOOLEAN]
        /\ sweeping' \in [Sweep -> {"idle", "claiming", "writing"}]
        /\ due' \in [Sweep -> SUBSET Lot]
    <3>1. remaining' = [remaining EXCEPT ![l] = 0] \/ remaining' = remaining
      BY <1>2 DEF ClaimLot
    <3>2. remaining' \in [Lot -> Nat]
      BY <3>1
    <3>3. handled' = [handled EXCEPT ![l] = TRUE] \/ handled' = handled
      BY <1>2 DEF ClaimLot
    <3>4. handled' \in [Lot -> BOOLEAN]
      BY <3>3
    <3>5. /\ sweeping' = [sweeping EXCEPT ![s] = "writing"] \/ sweeping' = sweeping
          /\ due' = [due EXCEPT ![s] = @ \ {l}]
      BY <1>2 DEF ClaimLot
    <3>6. sweeping' \in [Sweep -> {"idle", "claiming", "writing"}] /\ due' \in [Sweep -> SUBSET Lot]
      BY <3>5
    <3>. QED  BY <3>2, <3>4, <3>6
  <2>2. lost' \in [Sweep -> [Lot -> Nat]]
    <3>1. remaining[l] \in Nat /\ lost[s] \in [Lot -> Nat]
      OBVIOUS
    <3>2. [lost[s] EXCEPT ![l] = remaining[l]] \in [Lot -> Nat]
      BY <3>1
    <3>3. lost' = [lost EXCEPT ![s] = [lost[s] EXCEPT ![l] = remaining[l]]] \/ lost' = lost
      BY <1>2 DEF ClaimLot
    <3>. QED  BY <3>2, <3>3
  <2>. QED  BY <1>2, <2>1, <2>2 DEF ClaimLot
<1>3. CASE WriteExpiry(s)
  BY <1>3, Requests DEF WriteExpiry
<1>4. CASE EndSweep(s)
  BY <1>4 DEF EndSweep
<1>. QED  BY <1>1, <1>2, <1>3, <1>4 DEF SweepStep

LEMMA Types ==
  ASSUME TypeOK, [Next]_vars
  PROVE  TypeOK'
<1>1. CASE Tick \/ \E k \in Checkout : StartPayment(k)
  BY <1>1 DEF Tick, StartPayment, TypeOK, lotVars, callVars, sweepVars
<1>2. CASE UNCHANGED vars
  BY <1>2 DEF TypeOK, vars, lotVars, callVars, sweepVars
<1>. QED  BY <1>1, <1>2, CallTypes, SweepTypes DEF Next

-----------------------------------------------------------------------------
(* Sums over lots and over calls.                                          *)

DrawnOf(l) == [c \in Call |-> drawn[c][l]]
LostOf(l) == [s \in Sweep |-> lost[s][l]]
Issued(l) == IF born[l] > 0 THEN Ask[l].amount ELSE 0
Account(l) == remaining[l] + Tally(DrawnOf(l)) + expired[l] + Tally(LostOf(l))

LEMMA ColumnTypes ==
  ASSUME TypeOK, NEW l \in Lot
  PROVE  /\ DrawnOf(l) \in [Call -> Nat] /\ LostOf(l) \in [Sweep -> Nat]
         /\ Tally(DrawnOf(l)) \in Nat /\ Tally(LostOf(l)) \in Nat
         /\ remaining[l] \in Nat /\ expired[l] \in Nat
         /\ \A c \in Call : drawn[c][l] \in Nat /\ drawn[c][l] <= Tally(DrawnOf(l))
         /\ \A s \in Sweep : lost[s][l] \in Nat
<1>1. DrawnOf(l) \in [Call -> Nat] /\ LostOf(l) \in [Sweep -> Nat]
  BY DEF TypeOK, DrawnOf, LostOf
<1>2. Tally(DrawnOf(l)) \in Nat /\ Tally(LostOf(l)) \in Nat
  BY <1>1, Requests, TallyNat
<1>3. \A c \in Call : DrawnOf(l)[c] <= Tally(DrawnOf(l))
  BY <1>1, Requests, TallyBound
<1>. QED  BY <1>1, <1>2, <1>3 DEF TypeOK, DrawnOf

(* What one call draws or puts back changes one entry of a column.         *)
LEMMA DrawnMoves ==
  ASSUME TypeOK, TypeOK', NEW c \in Call, NEW l \in Lot,
         \A d \in Call \ {c} : drawn'[d] = drawn[d]
  PROVE  Tally(DrawnOf(l))' = Tally(DrawnOf(l)) - drawn[c][l] + drawn'[c][l]
<1>1. DrawnOf(l) \in [Call -> Nat] /\ DrawnOf(l)' \in [Call -> Nat]
  BY DEF TypeOK, DrawnOf
<1>2. \A d \in Call \ {c} : DrawnOf(l)'[d] = DrawnOf(l)[d]
  BY DEF DrawnOf
<1>3. DrawnOf(l)[c] = drawn[c][l] /\ DrawnOf(l)'[c] = drawn'[c][l]
  BY DEF DrawnOf
<1>4. Tally(DrawnOf(l)') = Tally(DrawnOf(l)) - DrawnOf(l)[c] + DrawnOf(l)'[c]
  BY <1>1, <1>2, Requests, TallyChange
<1>. QED  BY <1>3, <1>4 DEF Tally, Tokens

LEMMA LostMoves ==
  ASSUME TypeOK, TypeOK', NEW s \in Sweep, NEW l \in Lot,
         \A r \in Sweep \ {s} : lost'[r] = lost[r]
  PROVE  Tally(LostOf(l))' = Tally(LostOf(l)) - lost[s][l] + lost'[s][l]
<1>1. LostOf(l) \in [Sweep -> Nat] /\ LostOf(l)' \in [Sweep -> Nat]
  BY DEF TypeOK, LostOf
<1>2. \A r \in Sweep \ {s} : LostOf(l)'[r] = LostOf(l)[r]
  BY DEF LostOf
<1>3. LostOf(l)[s] = lost[s][l] /\ LostOf(l)'[s] = lost'[s][l]
  BY DEF LostOf
<1>4. Tally(LostOf(l)') = Tally(LostOf(l)) - LostOf(l)[s] + LostOf(l)'[s]
  BY <1>1, <1>2, Requests, TallyChange
<1>. QED  BY <1>3, <1>4 DEF Tally, Tokens
-----------------------------------------------------------------------------
(* Calls.                                                                  *)

LEMMA Others ==
  ASSUME TypeOK, NEW c \in Call, CallStep(c)
  PROVE  /\ \A d \in Call \ {c} : pc'[d] = pc[d] /\ drawn'[d] = drawn[d]
         /\ rows \subseteq rows'
         /\ \A e \in rows' : e \in rows \/ e = Event(c)
         /\ pc[c] # "done"
         /\ UNCHANGED sweepVars
<1> USE DEF TypeOK, Goto
<1>1. CASE Begin(c) \/ ReadLots(c) \/ EndDraw(c) \/ EndPutBack(c) \/ BeginRestore(c)
  BY <1>1 DEF Begin, ReadLots, EndDraw, EndPutBack, BeginRestore
<1>2. CASE \E l \in Lot : Draw(c, l) \/ PutBack(c, l)
  BY <1>2 DEF Draw, PutBack
<1>3. CASE Record(c) \/ Issue(c) \/ AddLot(c)
  BY <1>3 DEF Record, Issue, AddLot, NewLot
<1>. QED  BY <1>1, <1>2, <1>3 DEF CallStep

LEMMA Progress ==
  ASSUME TypeOK, \A d \in Call : CallInv(d), NEW c \in Call, CallStep(c)
  PROVE  \A d \in Call : CallInv(d)'
<1>1. ASSUME NEW d \in Call \ {c}
      PROVE  CallInv(d)'
  BY <1>1, Others DEF CallInv
<1>2. CallInv(c)'
  <2> USE DEF TypeOK, Goto, CallInv
  <2>1. CASE Begin(c) \/ ReadLots(c) \/ Issue(c) \/ BeginRestore(c) \/ AddLot(c)
    BY <2>1 DEF Begin, ReadLots, Issue, BeginRestore, AddLot
  <2>2. CASE \E l \in Lot : Draw(c, l) \/ PutBack(c, l)
    BY <2>2 DEF Draw, PutBack
  <2>3. CASE EndDraw(c)
    <3>1. Short(c) = 0 => Tally(drawn[c]) = Ask[c].amount
      <4>1. Tally(drawn[c]) \in Nat /\ Ask[c].amount \in Nat
        BY DrawnType, Requests
      <4>2. Short(c) = Ask[c].amount - Tally(drawn[c])
        BY DEF Short
      <4> HIDE DEF TypeOK, CallInv
      <4>. QED  BY <4>1, <4>2
    <3>. QED  BY <2>3, <3>1 DEF EndDraw
  <2>4. CASE Record(c)
    BY <2>4 DEF Record
  <2>5. CASE EndPutBack(c)
    <3>1. drawn[c] = Nothing
      BY <2>5 DEF EndPutBack, Nothing
    <3>. QED  BY <2>5, <3>1 DEF EndPutBack
  <2>. QED  BY <2>1, <2>2, <2>3, <2>4, <2>5 DEF CallStep
<1>. QED  BY <1>1, <1>2

(* Calls that issue credit, each once, have a key of their own.            *)
LEMMA IssuedOnce ==
  ASSUME NEW c \in Call, NEW d \in Call, Event(c) = Event(d), Ask[c].kind = "issue"
  PROVE  c = d
BY StoreCreditAssumption DEF Event

LEMMA Kinds ==
  ASSUME TypeOK, \A d \in Call : KindInv(d), NEW c \in Call, CallStep(c)
  PROVE  \A d \in Call : KindInv(d)'
<1>1. /\ pc'[c] \in {"reading", "drawing", "recording", "returning", "undoing"} => Ask[c].kind \in Debits
      /\ pc'[c] = "adding" => Ask[c].kind = "restore"
      /\ Ask[c].kind = "issue" /\ Event(c) \in rows' => Event(c) \in rows \/ pc'[c] = "done"
  <2> USE DEF TypeOK, Goto, KindInv, Debits
  <2>1. CASE Begin(c) \/ ReadLots(c) \/ EndDraw(c) \/ EndPutBack(c) \/ BeginRestore(c)
    BY <2>1 DEF Begin, ReadLots, EndDraw, EndPutBack, BeginRestore
  <2>2. CASE \E l \in Lot : Draw(c, l) \/ PutBack(c, l)
    BY <2>2 DEF Draw, PutBack
  <2>3. CASE Record(c) \/ Issue(c) \/ AddLot(c)
    BY <2>3 DEF Record, Issue, AddLot
  <2>. QED  BY <2>1, <2>2, <2>3 DEF CallStep
<1>2. ASSUME NEW d \in Call
      PROVE  KindInv(d)'
  <2>1. CASE d = c
    BY <1>1, <2>1, Others DEF KindInv
  <2>2. CASE d # c
    BY <2>2, Others, IssuedOnce DEF KindInv
  <2>. QED  BY <2>1, <2>2
<1>. QED  BY <1>2

LEMMA Once ==
  ASSUME TypeOK, \A d \in Call : CallInv(d), OnceInv, NEW c \in Call, CallStep(c)
  PROVE  OnceInv'
<1>1. ASSUME pc'[c] = "done", drawn'[c] # Nothing
      PROVE  Event(c) \notin rows
  <2> USE DEF TypeOK, Goto, CallInv
  <2>1. CASE Begin(c) \/ ReadLots(c) \/ EndDraw(c) \/ BeginRestore(c) \/ Issue(c) \/ AddLot(c)
    BY <1>1, <2>1 DEF Begin, ReadLots, EndDraw, BeginRestore, Issue, AddLot
  <2>2. CASE \E l \in Lot : Draw(c, l) \/ PutBack(c, l)
    BY <1>1, <2>2 DEF Draw, PutBack
  <2>3. CASE Record(c)
    BY <1>1, <2>3 DEF Record
  <2>4. CASE EndPutBack(c)
    BY <1>1, <2>4 DEF EndPutBack, Nothing
  <2>. QED  BY <2>1, <2>2, <2>3, <2>4 DEF CallStep
<1>2. ASSUME NEW d \in Call \ {c}, Event(d) = Event(c), pc[d] = "done", pc'[c] = "done"
      PROVE  drawn'[c] = Nothing \/ drawn[d] = Nothing
  BY <1>1, <1>2 DEF CallInv
<1>3. ASSUME NEW d \in Call, NEW e \in Call, d # e, Event(d) = Event(e),
             pc'[d] = "done", pc'[e] = "done"
      PROVE  drawn'[d] = Nothing \/ drawn'[e] = Nothing
  <2>1. CASE d # c /\ e # c
    BY <1>3, <2>1, Others DEF OnceInv
  <2>2. CASE d = c
    BY <1>2, <1>3, <2>2, Others
  <2>3. CASE e = c
    BY <1>2, <1>3, <2>3, Others
  <2>. QED  BY <2>1, <2>2, <2>3
<1>4. Nothing' = Nothing /\ \A d \in Call : Event(d)' = Event(d)
  BY DEF Nothing, Lot, Event
<1>. QED  BY <1>3, <1>4 DEF OnceInv
-----------------------------------------------------------------------------
(* Lots.                                                                   *)

(* A lot is born once, of an event that has no row yet.                    *)
LEMMA Birth ==
  ASSUME TypeOK, \A d \in Call : KindInv(d), NEW c \in Call, CallStep(c)
  PROVE  \/ /\ UNCHANGED born
            /\ UNCHANGED <<remaining, drawn>> \/ \E l \in Lot : Draw(c, l) \/ PutBack(c, l)
         \/ /\ c \in Lot /\ NewLot(c) /\ Event(c) \notin rows
            /\ pc[c] # "done" /\ pc'[c] = "done"
            /\ UNCHANGED <<drawn, sweepVars, handled>>
<1> USE DEF Goto, lotVars
<1>1. CASE Issue(c)
  <2>1. pc[c] = "idle" /\ Ask[c].kind = "issue" /\ NewLot(c) /\ pc' = [pc EXCEPT ![c] = "done"]
        /\ UNCHANGED <<drawn, sweepVars, handled>>
    BY <1>1 DEF Issue
  <2>2. Event(c) \notin rows
    BY <2>1 DEF KindInv
  <2>3. c \in Lot
    BY <2>1, Requests DEF Credits
  <2>. QED  BY <2>1, <2>2, <2>3 DEF TypeOK
<1>2. CASE AddLot(c) /\ Event(c) \notin rows
  <2>1. pc[c] = "adding" /\ NewLot(c) /\ pc' = [pc EXCEPT ![c] = "done"]
        /\ UNCHANGED <<drawn, sweepVars, handled>>
    BY <1>2 DEF AddLot
  <2>2. c \in Lot
    BY <2>1, Requests DEF KindInv, Credits
  <2>. QED  BY <1>2, <2>1, <2>2 DEF TypeOK
<1>3. CASE AddLot(c) /\ Event(c) \in rows
  BY <1>3 DEF AddLot
<1>4. CASE Begin(c) \/ ReadLots(c) \/ EndDraw(c) \/ EndPutBack(c) \/ BeginRestore(c) \/ Record(c)
  BY <1>4 DEF Begin, ReadLots, EndDraw, EndPutBack, BeginRestore, Record
<1>5. CASE \E l \in Lot : Draw(c, l) \/ PutBack(c, l)
  BY <1>5 DEF Draw, PutBack
<1>. QED  BY <1>1, <1>2, <1>3, <1>4, <1>5 DEF CallStep

LEMMA BornWith ==
  ASSUME TypeOK, NEW c \in Lot, NewLot(c)
  PROVE  /\ born'[c] > 0 /\ \A l \in Lot \ {c} : born'[l] = born[l] /\ remaining'[l] = remaining[l]
         /\ remaining'[c] = Ask[c].amount
         /\ Event(c) \in rows'
BY Births DEF NewLot, TypeOK

LEMMA Lots ==
  ASSUME TypeOK, \A d \in Call : KindInv(d), \A l \in Lot : LotInv(l), CreditedOnce,
         NEW c \in Call, CallStep(c)
  PROVE  (\A l \in Lot : LotInv(l))' /\ CreditedOnce'
<1>0. Lot' = Lot /\ \A d \in Call : Event(d)' = Event(d)
  BY DEF Lot, Event
<1>1. CASE UNCHANGED born
  <2>1. \A l \in Lot : LotInv(l)'
    BY <1>1, Others, Requests DEF LotInv
  <2>. QED  BY <1>0, <1>1, <2>1 DEF CreditedOnce
<1>2. CASE /\ c \in Lot /\ NewLot(c) /\ Event(c) \notin rows
           /\ pc[c] # "done" /\ pc'[c] = "done"
  <2>1. \A l \in Lot : LotInv(l)'
    BY <1>2, Others, BornWith, Requests DEF LotInv
  <2>2. ASSUME NEW l \in Lot, NEW m \in Lot, born'[l] > 0, born'[m] > 0, Event(l) = Event(m)
        PROVE  l = m
    <3>1. CASE l # c /\ m # c
      BY <1>2, <2>2, <3>1, BornWith DEF CreditedOnce
    <3>2. ASSUME NEW n \in Lot \ {c}, born'[n] > 0
          PROVE  Event(n) # Event(c)
      BY <1>2, <3>2, BornWith DEF LotInv
    <3>. QED  BY <2>2, <3>1, <3>2
  <2>. QED  BY <1>0, <2>1, <2>2 DEF CreditedOnce
<1>. QED  BY <1>1, <1>2, Birth

-----------------------------------------------------------------------------
(* The ledger.                                                             *)

(* What leaves a lot is with the call, and what the call puts back is in   *)
(* the lot.                                                                *)
LEMMA Moved ==
  ASSUME TypeOK, NEW c \in Call, NEW m \in Lot, Draw(c, m) \/ PutBack(c, m)
  PROVE  /\ \A l \in Lot \ {m} : remaining'[l] = remaining[l] /\ drawn'[c][l] = drawn[c][l]
         /\ \E n \in Int : remaining'[m] = remaining[m] - n /\ drawn'[c][m] = drawn[c][m] + n
<1>0. /\ remaining \in [Lot -> Nat] /\ drawn \in [Call -> [Lot -> Nat]] /\ read[c][m] \in Nat
      /\ drawn[c][m] \in Nat /\ remaining[m] \in Nat
  BY DEF TypeOK
<1>1. CASE Draw(c, m)
  <2> DEFINE take == IF read[c][m] < Short(c) THEN read[c][m] ELSE Short(c)
  <2>1. take \in Int
    BY <1>0, DrawnType
  <2>2. \/ /\ remaining' = [remaining EXCEPT ![m] = @ - take]
           /\ drawn' = [drawn EXCEPT ![c][m] = @ + take]
        \/ UNCHANGED <<remaining, drawn>>
    BY <1>1 DEF Draw
  <2> HIDE DEF take
  <2>3. CASE UNCHANGED <<remaining, drawn>>
    <3>1. remaining'[m] = remaining[m] - 0 /\ drawn'[c][m] = drawn[c][m] + 0
      BY <1>0, <2>3
    <3>. QED  BY <2>3, <3>1
  <2>4. CASE /\ remaining' = [remaining EXCEPT ![m] = @ - take]
             /\ drawn' = [drawn EXCEPT ![c][m] = @ + take]
    <3>1. remaining'[m] = remaining[m] - take /\ drawn'[c][m] = drawn[c][m] + take
      BY <1>0, <2>4
    <3>. QED  BY <1>0, <2>1, <2>4, <3>1
  <2>. QED  BY <2>2, <2>3, <2>4
<1>2. CASE PutBack(c, m)
  <2>1. /\ remaining' = [remaining EXCEPT ![m] = @ + drawn[c][m]]
        /\ drawn' = [drawn EXCEPT ![c][m] = 0]
    BY <1>2 DEF PutBack
  <2>2. remaining'[m] = remaining[m] - (-drawn[c][m]) /\ drawn'[c][m] = drawn[c][m] + (-drawn[c][m])
    BY <1>0, <2>1
  <2>3. -drawn[c][m] \in Int
    BY <1>0
  <2>. QED  BY <1>0, <2>1, <2>2, <2>3
<1>. QED  BY <1>1, <1>2

LEMMA NothingLeft ==
  ASSUME NEW a \in Nat, NEW b \in Nat, NEW c \in Nat, NEW d \in Nat, a + b + c + d = 0
  PROVE  a = 0 /\ b = 0 /\ c = 0 /\ d = 0
OBVIOUS

LEMMA LedgerOfCall ==
  ASSUME TypeOK, TypeOK', LedgerExact,
         \A d \in Call : KindInv(d), \A k \in Lot : LotInv(k),
         NEW c \in Call, CallStep(c), NEW l \in Lot
  PROVE  Issued(l)' = Account(l)'
<1>1. /\ Issued(l) = Account(l)
      /\ Ask[l].amount \in Nat
  BY Requests DEF LedgerExact, Issued, Account, DrawnOf, LostOf
<1>2. /\ remaining[l] \in Nat /\ expired[l] \in Nat
      /\ Tally(DrawnOf(l)) \in Nat /\ Tally(LostOf(l)) \in Nat
      /\ drawn[c][l] \in Nat
  BY ColumnTypes
<1>3. expired' = expired /\ LostOf(l)' = LostOf(l)
  BY Others DEF sweepVars, LostOf
<1>4. Tally(DrawnOf(l))' = Tally(DrawnOf(l)) - drawn[c][l] + drawn'[c][l]
  BY Others, DrawnMoves
<1>5. Account(l)' = remaining'[l] + Tally(DrawnOf(l))' + expired'[l] + Tally(LostOf(l)')
  BY DEF Account
<1>6. ASSUME UNCHANGED born, UNCHANGED <<remaining, drawn>>
      PROVE  Issued(l)' = Account(l)'
  BY <1>1, <1>3, <1>6 DEF Issued, Account, DrawnOf
<1>7. ASSUME UNCHANGED born, NEW m \in Lot, Draw(c, m) \/ PutBack(c, m)
      PROVE  Issued(l)' = Account(l)'
  <2>1. Issued(l)' = Issued(l)
    BY <1>7 DEF Issued
  <2>2. \E n \in Int : remaining'[l] = remaining[l] - n /\ drawn'[c][l] = drawn[c][l] + n
    <3>1. CASE l = m
      BY <1>7, <3>1, Moved
    <3>2. CASE l # m
      <4>1. remaining'[l] = remaining[l] /\ drawn'[c][l] = drawn[c][l]
        BY <1>7, <3>2, Moved
      <4>2. remaining'[l] = remaining[l] - 0 /\ drawn'[c][l] = drawn[c][l] + 0
        BY <1>2, <4>1
      <4>. QED  BY <4>2
    <3>. QED  BY <3>1, <3>2
  <2>3. PICK n \in Int : remaining'[l] = remaining[l] - n /\ drawn'[c][l] = drawn[c][l] + n
    BY <2>2
  <2>4. Account(l)' = (remaining[l] - n) + (Tally(DrawnOf(l)) - drawn[c][l] + (drawn[c][l] + n))
                      + expired[l] + Tally(LostOf(l))
    BY <1>3, <1>4, <1>5, <2>3
  <2>5. Account(l)' = Account(l)
    BY <1>2, <2>4 DEF Account
  <2>. QED  BY <1>1, <2>1, <2>5
<1>8. CASE /\ c \in Lot /\ NewLot(c) /\ pc[c] # "done" /\ UNCHANGED drawn
  <2>1. DrawnOf(l)' = DrawnOf(l)
    BY <1>8 DEF DrawnOf
  <2>2. CASE l # c
    <3>1. Issued(l)' = Issued(l) /\ remaining'[l] = remaining[l]
      BY <1>8, <2>2, BornWith DEF Issued
    <3>2. Account(l)' = Account(l)
      BY <1>3, <2>1, <3>1 DEF Account
    <3>. QED  BY <1>1, <3>1, <3>2
  <2>3. CASE l = c
    <3>1. Issued(l) = 0
      BY <1>8, <2>3 DEF LotInv, Issued
    <3>2. Tally(DrawnOf(l)) = 0 /\ expired[l] = 0 /\ Tally(LostOf(l)) = 0
      <4>1. remaining[l] + Tally(DrawnOf(l)) + expired[l] + Tally(LostOf(l)) = 0
        BY <1>1, <3>1 DEF Account
      <4>. QED  BY <1>2, <4>1, NothingLeft
    <3>3. Issued(l)' = Ask[l].amount /\ remaining'[l] = Ask[l].amount
      BY <1>8, <2>3, BornWith DEF Issued
    <3>4. Account(l)' = Ask[l].amount
      BY <1>1, <1>3, <2>1, <3>2, <3>3 DEF Account
    <3>. QED  BY <3>3, <3>4
  <2>. QED  BY <2>2, <2>3
<1>. QED  BY <1>6, <1>7, <1>8, Birth

(* A claimed lot is empty, the sweep has what it held, and the row takes   *)
(* that over.                                                              *)
LEMMA LedgerOfSweep ==
  ASSUME TypeOK, TypeOK', LedgerExact, \A r \in Sweep : SweepInv(r),
         NEW s \in Sweep, SweepStep(s), NEW l \in Lot
  PROVE  Issued(l)' = Account(l)'
<1>1. Issued(l) = Account(l)
  BY DEF LedgerExact, Issued, Account, DrawnOf, LostOf
<1>2. /\ remaining[l] \in Nat /\ expired[l] \in Nat
      /\ Tally(DrawnOf(l)) \in Nat /\ Tally(LostOf(l)) \in Nat
      /\ lost[s][l] \in Nat
  BY ColumnTypes
<1>3. Issued(l)' = Issued(l) /\ DrawnOf(l)' = DrawnOf(l)
  BY DEF SweepStep, FindDue, ClaimLot, WriteExpiry, EndSweep, Issued, DrawnOf, lotVars, callVars
<1>4. \A r \in Sweep \ {s} : lost'[r] = lost[r]
  BY DEF SweepStep, FindDue, ClaimLot, WriteExpiry, EndSweep, TypeOK
<1>5. Tally(LostOf(l))' = Tally(LostOf(l)) - lost[s][l] + lost'[s][l]
  BY <1>4, LostMoves
<1>6. ASSUME remaining'[l] + expired'[l] + lost'[s][l] = remaining[l] + expired[l] + lost[s][l],
             remaining'[l] \in Nat, expired'[l] \in Nat, lost'[s][l] \in Nat
      PROVE  Issued(l)' = Account(l)'
  <2>1. Account(l)' = remaining'[l] + Tally(DrawnOf(l)) + expired'[l]
                      + (Tally(LostOf(l)) - lost[s][l] + lost'[s][l])
    BY <1>3, <1>5 DEF Account
  <2>2. Account(l)' = Account(l)
    BY <1>2, <1>6, <2>1 DEF Account
  <2>. QED  BY <1>1, <1>3, <2>2
<1>7. remaining'[l] \in Nat /\ expired'[l] \in Nat /\ lost'[s][l] \in Nat
  BY DEF TypeOK
<1>8. CASE UNCHANGED <<remaining, expired, lost>>
  BY <1>6, <1>7, <1>8
<1>9. ASSUME NEW m \in Lot, ClaimLot(s, m), ~UNCHANGED <<remaining, expired, lost>>
      PROVE  Issued(l)' = Account(l)'
  <2>1. /\ remaining' = [remaining EXCEPT ![m] = 0] /\ lost' = [lost EXCEPT ![s][m] = remaining[m]]
        /\ expired' = expired
    BY <1>9 DEF ClaimLot
  <2>2. lost[s][l] = 0
    BY <1>9 DEF ClaimLot, SweepInv, Nothing
  <2>3. remaining'[l] + lost'[s][l] = remaining[l] /\ expired'[l] = expired[l]
    BY <1>2, <2>1, <2>2 DEF TypeOK
  <2>. QED  BY <1>2, <1>6, <1>7, <2>2, <2>3
<1>10. CASE WriteExpiry(s)
  <2>1. expired'[l] = expired[l] + lost[s][l] /\ lost'[s][l] = 0 /\ remaining' = remaining
    BY <1>10 DEF WriteExpiry, Nothing, TypeOK, lotVars
  <2>. QED  BY <1>2, <1>6, <1>7, <2>1
<1>. QED  BY <1>8, <1>9, <1>10 DEF SweepStep, FindDue, EndSweep, lotVars
-----------------------------------------------------------------------------
(* Sweeps.                                                                 *)

LEMMA Sweeps ==
  ASSUME TypeOK, \A r \in Sweep : SweepInv(r), NEW s \in Sweep, SweepStep(s)
  PROVE  \A r \in Sweep : SweepInv(r)'
<1> USE DEF TypeOK, SweepInv
<1>0. Nothing' = Nothing /\ Lot' = Lot
  BY DEF Nothing, Lot
<1>1. ASSUME NEW r \in Sweep \ {s}
      PROVE  SweepInv(r)'
  <2>1. sweeping'[r] = sweeping[r] /\ lost'[r] = lost[r]
    BY DEF SweepStep, FindDue, ClaimLot, WriteExpiry, EndSweep
  <2>. QED  BY <1>0, <2>1
<1>2. SweepInv(s)'
  <2>1. CASE FindDue(s) \/ EndSweep(s)
    BY <1>0, <2>1 DEF FindDue, EndSweep
  <2>2. ASSUME NEW l \in Lot, ClaimLot(s, l)
        PROVE  SweepInv(s)'
    <3>1. lost[s] = Nothing
      BY <2>2 DEF ClaimLot
    <3>2. CASE UNCHANGED <<remaining, handled, lost, sweeping>>
      BY <1>0, <3>1, <3>2
    <3>3. CASE ~UNCHANGED <<remaining, handled, lost, sweeping>>
      <4>1. sweeping' = [sweeping EXCEPT ![s] = "writing"] /\ lost' = [lost EXCEPT ![s][l] = remaining[l]]
        BY <2>2, <3>3 DEF ClaimLot
      <4>2. \A m \in Lot \ {l} : lost'[s][m] = 0
        BY <3>1, <4>1 DEF Nothing
      <4>. QED  BY <1>0, <4>1, <4>2
    <3>. QED  BY <3>2, <3>3
  <2>3. CASE WriteExpiry(s)
    BY <1>0, <2>3 DEF WriteExpiry
  <2>. QED  BY <2>1, <2>2, <2>3 DEF SweepStep
<1>. QED  BY <1>1, <1>2

-----------------------------------------------------------------------------
(* The invariant.                                                          *)

LEMMA InitInv == Init => Inv
<1> SUFFICES ASSUME Init PROVE Inv
  OBVIOUS
<1>1. TypeOK
  <2>1. handled \in [Lot -> BOOLEAN]
    BY DEF Init
  <2>2. /\ now \in Nat /\ paying \subseteq Checkout /\ rows \subseteq {Event(c) : c \in Call}
        /\ born \in [Lot -> Nat] /\ remaining \in [Lot -> Nat] /\ expired \in [Lot -> Nat]
        /\ pc \in [Call -> CallSteps] /\ read \in [Call -> [Lot -> Nat]]
        /\ plan \in [Call -> SUBSET Lot] /\ drawn \in [Call -> [Lot -> Nat]]
        /\ sweeping \in [Sweep -> {"idle", "claiming", "writing"}]
        /\ due \in [Sweep -> SUBSET Lot] /\ lost \in [Sweep -> [Lot -> Nat]]
    BY Requests DEF Init, CallSteps
  <2>. QED  BY <2>1, <2>2 DEF TypeOK
<1>2. /\ \A c \in Call : CallInv(c) /\ KindInv(c)
      /\ \A l \in Lot : LotInv(l)
      /\ \A s \in Sweep : SweepInv(s)
      /\ OnceInv /\ CreditedOnce
  BY DEF Init, Nothing, CallInv, KindInv, LotInv, SweepInv, OnceInv, CreditedOnce
<1>3. LedgerExact
  <2> SUFFICES ASSUME NEW l \in Lot
               PROVE  Issued(l) = Account(l)
    BY DEF LedgerExact, Issued, Account, DrawnOf, LostOf
  <2>1. Tally(DrawnOf(l)) = 0 /\ Tally(LostOf(l)) = 0
    <3>1. \A c \in Call : DrawnOf(l)[c] = 0
      BY DEF Init, Nothing, DrawnOf
    <3>2. \A s \in Sweep : LostOf(l)[s] = 0
      BY DEF Init, Nothing, LostOf
    <3>. QED  BY <1>1, <3>1, <3>2, ColumnTypes, TallyZero
  <2>2. Issued(l) = 0 /\ remaining[l] = 0 /\ expired[l] = 0
    BY DEF Init, Nothing, Issued
  <2>. QED  BY <2>1, <2>2 DEF Account
<1>. QED  BY <1>1, <1>2, <1>3 DEF Inv

LEMMA InvStep ==
  ASSUME Inv, [Next]_vars
  PROVE  Inv'
<1>0. TypeOK' /\ Lot' = Lot
  BY Types DEF Inv, Lot
<1>1. ASSUME NEW c \in Call, CallStep(c)
      PROVE  Inv'
  <2>1. /\ \A d \in Call : CallInv(d)' /\ KindInv(d)'
        /\ OnceInv' /\ (\A l \in Lot : LotInv(l))' /\ CreditedOnce'
    BY <1>1, Progress, Kinds, Once, Lots DEF Inv
  <2>2. \A s \in Sweep : SweepInv(s)'
    BY <1>1, Others DEF Inv, SweepInv, Nothing, Lot, sweepVars
  <2>3. \A l \in Lot : Issued(l)' = Account(l)'
    BY <1>0, <1>1, LedgerOfCall DEF Inv
  <2>4. LedgerExact'
    BY <1>0, <2>3 DEF LedgerExact, Issued, Account, DrawnOf, LostOf
  <2>. QED  BY <1>0, <2>1, <2>2, <2>4 DEF Inv
<1>2. ASSUME NEW s \in Sweep, SweepStep(s)
      PROVE  Inv'
  <2>1. UNCHANGED <<rows, born, pc, drawn>>
    BY <1>2 DEF SweepStep, FindDue, ClaimLot, WriteExpiry, EndSweep, lotVars, callVars
  <2>2. /\ \A d \in Call : CallInv(d)' /\ KindInv(d)'
        /\ OnceInv' /\ (\A l \in Lot : LotInv(l))' /\ CreditedOnce'
    BY <2>1 DEF Inv, CallInv, KindInv, OnceInv, LotInv, CreditedOnce, Event, Nothing, Lot
  <2>3. \A r \in Sweep : SweepInv(r)'
    BY <1>2, Sweeps DEF Inv
  <2>4. \A l \in Lot : Issued(l)' = Account(l)'
    BY <1>0, <1>2, LedgerOfSweep DEF Inv
  <2>5. LedgerExact'
    BY <1>0, <2>4 DEF LedgerExact, Issued, Account, DrawnOf, LostOf
  <2>. QED  BY <1>0, <2>2, <2>3, <2>5 DEF Inv
<1>3. CASE Tick \/ (\E k \in Checkout : StartPayment(k)) \/ UNCHANGED vars
  <2>1. UNCHANGED <<rows, lotVars, callVars, sweepVars>>
    BY <1>3 DEF Tick, StartPayment, vars
  <2>2. /\ \A d \in Call : CallInv(d)' /\ KindInv(d)'
        /\ OnceInv' /\ (\A l \in Lot : LotInv(l))' /\ CreditedOnce'
        /\ \A s \in Sweep : SweepInv(s)'
    BY <2>1 DEF Inv, CallInv, KindInv, OnceInv, LotInv, CreditedOnce, SweepInv, Event, Nothing, Lot,
       lotVars, callVars, sweepVars
  <2>3. LedgerExact'
    BY <2>1 DEF Inv, LedgerExact, Lot, lotVars, callVars, sweepVars
  <2>. QED  BY <1>0, <2>2, <2>3 DEF Inv
<1>. QED  BY <1>1, <1>2, <1>3 DEF Next

LEMMA Invariance == Spec => []Inv
BY InitInv, InvStep, PTL DEF Spec

(* Every variable keeps its type; in particular a conditional update never *)
(* takes more from a lot than it has.                                      *)
THEOREM TypeCorrect == Spec => []TypeOK
<1>1. Inv => TypeOK
  BY DEF Inv
<1>. QED  BY <1>1, Invariance, PTL

(* What was credited in a lot is what is left of it, what calls hold and   *)
(* what has expired, between any two accesses of draws and sweeps.         *)
THEOREM BalanceFollowsLedger == Spec => []LedgerExact
<1>1. Inv => LedgerExact
  BY DEF Inv
<1>. QED  BY <1>1, Invariance, PTL

(* One event credits one lot: of the calls that report it the unique index *)
(* lets one through.                                                       *)
THEOREM LotsAreBornOnce == Spec => []CreditedOnce
<1>1. Inv => CreditedOnce
  BY DEF Inv
<1>. QED  BY <1>1, Invariance, PTL

(* A purchase or removal takes its whole amount or nothing, and a purchase *)
(* that is reported twice is taken once.                                   *)
THEOREM TakenWholeOnce == Spec => []WholeOrNothing
<1>1. ASSUME Inv PROVE WholeOrNothing
  <2> USE <1>1 DEF Inv
  <2>1. ASSUME NEW c \in Call
        PROVE  /\ pc[c] = "refused" => Tally(drawn[c]) = 0
               /\ pc[c] = "done" => Tally(drawn[c]) \in {0, Ask[c].amount}
    BY Requests DEF CallInv
  <2>2. ASSUME NEW c \in Call, NEW d \in Call, pc[c] = "done", pc[d] = "done", c # d, Event(c) = Event(d)
        PROVE  Tally(drawn[c]) = 0 \/ Tally(drawn[d]) = 0
    BY <2>2, Requests DEF OnceInv
  <2>. QED  BY <2>1, <2>2 DEF WholeOrNothing
<1>. QED  BY <1>1, Invariance, PTL
-----------------------------------------------------------------------------
(* The refinement.  What a call has drawn and not yet recorded still counts *)
(* to the balance, as does nothing that it has recorded.                   *)

Held == [c \in Call |-> IF pc[c] = "done" THEN 0 ELSE Tally(drawn[c])]
Swept == [s \in Sweep |-> Tally(lost[s])]
Balance == Tally(remaining) + Tally(Held)
Gone == Tally(expired) + Tally(Swept)

LEMMA SumTypes ==
  ASSUME TypeOK
  PROVE  /\ remaining \in [Lot -> Nat] /\ Tally(remaining) \in Nat
         /\ expired \in [Lot -> Nat] /\ Tally(expired) \in Nat
         /\ Held \in [Call -> Nat] /\ Tally(Held) \in Nat
         /\ Swept \in [Sweep -> Nat] /\ Tally(Swept) \in Nat
         /\ \A s \in Sweep : lost[s] \in [Lot -> Nat] /\ Tally(lost[s]) \in Nat
<1>1. /\ remaining \in [Lot -> Nat] /\ expired \in [Lot -> Nat]
      /\ \A s \in Sweep : lost[s] \in [Lot -> Nat]
  BY DEF TypeOK
<1>2. Tally(remaining) \in Nat /\ Tally(expired) \in Nat /\ \A s \in Sweep : Tally(lost[s]) \in Nat
  BY <1>1, Requests, TallyNat
<1>3. Held \in [Call -> Nat] /\ Swept \in [Sweep -> Nat]
  BY <1>2, DrawnType DEF Held, Swept
<1>. QED  BY <1>1, <1>2, <1>3, Requests, TallyNat

(* What a call holds changes with its own steps only.                      *)
LEMMA HeldMoves ==
  ASSUME TypeOK, TypeOK', NEW c \in Call, CallStep(c)
  PROVE  /\ Tally(Held)' = Tally(Held) - Held[c] + Held'[c]
         /\ Held[c] = IF pc[c] = "done" THEN 0 ELSE Tally(drawn[c])
         /\ Held'[c] = IF pc'[c] = "done" THEN 0 ELSE Tally(drawn'[c])
         /\ Held[c] \in Nat /\ Held'[c] \in Nat /\ Held[c] <= Tally(Held)
<1>1. Held \in [Call -> Nat] /\ \A d \in Call : drawn'[d] \in [Lot -> Nat]
  BY SumTypes DEF TypeOK
<1>2. \A d \in Call : Tally(drawn'[d]) \in Nat
  BY <1>1, Requests, TallyNat
<1>3. Held' = [d \in Call |-> IF pc'[d] = "done" THEN 0 ELSE Tally(drawn'[d])]
  BY DEF Held
<1>4. Held' \in [Call -> Nat] /\ \A d \in Call \ {c} : Held'[d] = Held[d]
  BY <1>2, <1>3, Others DEF Held
<1>5. Tally(Held') = Tally(Held) - Held[c] + Held'[c]
  BY <1>1, <1>4, Requests, TallyChange
<1>6. Held[c] <= Tally(Held)
  BY <1>1, Requests, TallyBound
<1>. QED  BY <1>1, <1>3, <1>4, <1>5, <1>6 DEF Held

(* Between a lot and a call credit moves without a trace in the balance.   *)
LEMMA MovingKeepsBalance ==
  ASSUME TypeOK, TypeOK', NEW c \in Call, CallStep(c), NEW m \in Lot, Draw(c, m) \/ PutBack(c, m)
  PROVE  Balance' = Balance
<1>1. PICK n \in Int : remaining'[m] = remaining[m] - n /\ drawn'[c][m] = drawn[c][m] + n
  BY Moved
<1>2. /\ remaining \in [Lot -> Nat] /\ remaining' \in [Lot -> Nat]
      /\ drawn[c] \in [Lot -> Nat] /\ drawn'[c] \in [Lot -> Nat]
  BY DEF TypeOK
<1>3. Tally(remaining') = Tally(remaining) - remaining[m] + remaining'[m]
  BY <1>2, Moved, Requests, TallyChange
<1>4. Tally(drawn'[c]) = Tally(drawn[c]) - drawn[c][m] + drawn'[c][m]
  BY <1>2, Moved, Requests, TallyChange
<1>5. /\ remaining[m] \in Nat /\ drawn[c][m] \in Nat /\ Tally(remaining) \in Nat
      /\ Tally(drawn[c]) \in Nat /\ Tally(Held) \in Nat
  BY <1>2, SumTypes, DrawnType
<1>6. Held[c] = Tally(drawn[c]) /\ Held'[c] = Tally(drawn'[c])
  <2>1. pc[c] # "done" /\ pc' = pc
    BY DEF Draw, PutBack
  <2>. QED  BY <2>1, HeldMoves
<1>7. Tally(Held') = Tally(Held) - Tally(drawn[c]) + Tally(drawn'[c])
  BY <1>6, HeldMoves
<1>8. Tally(remaining') = Tally(remaining) - n
  BY <1>1, <1>3, <1>5
<1>9. Tally(drawn'[c]) = Tally(drawn[c]) + n
  BY <1>1, <1>4, <1>5
<1>10. Tally(Held') = Tally(Held) + n
  BY <1>5, <1>7, <1>9
<1>. QED  BY <1>5, <1>8, <1>10 DEF Balance

LEMMA CallImplements ==
  ASSUME Inv, TypeOK', NEW c \in Call, CallStep(c)
  PROVE  \/ UNCHANGED <<rows, Balance, Gone>>
         \/ /\ Event(c) \notin rows /\ rows' = rows \cup {Event(c)} /\ Gone' = Gone
            /\ \/ c \in Lot /\ Balance' = Balance + Ask[c].amount
               \/ /\ Ask[c].kind \in Debits
                  /\ Ask[c].amount <= Balance /\ Balance' = Balance - Ask[c].amount
<1>1. TypeOK /\ CallInv(c) /\ KindInv(c) /\ \A d \in Call : KindInv(d)
  BY DEF Inv
<1>2. Gone' = Gone
  BY <1>1, Others DEF Gone, Swept, sweepVars
<1>3. /\ Tally(Held)' = Tally(Held) - Held[c] + Held'[c]
      /\ Held[c] = IF pc[c] = "done" THEN 0 ELSE Tally(drawn[c])
      /\ Held'[c] = IF pc'[c] = "done" THEN 0 ELSE Tally(drawn'[c])
      /\ Held[c] \in Nat /\ Held'[c] \in Nat /\ Held[c] <= Tally(Held)
  BY <1>1, HeldMoves
<1>4. Tally(remaining) \in Nat /\ Tally(Held) \in Nat /\ Ask[c].amount \in Nat
  BY <1>1, SumTypes, Requests
<1>5. ASSUME UNCHANGED <<remaining, drawn, rows>>, pc'[c] = "done" => drawn[c] = Nothing
      PROVE  UNCHANGED <<rows, Balance, Gone>>
  <2>1. Held'[c] = Held[c]
    BY <1>1, <1>3, <1>5, Others, Requests
  <2>2. Tally(Held)' = Tally(Held)
    BY <1>3, <1>4, <2>1
  <2>. QED  BY <1>2, <1>5, <2>2 DEF Balance
<1>6. CASE Begin(c) \/ ReadLots(c) \/ EndDraw(c) \/ EndPutBack(c) \/ BeginRestore(c)
  <2>1. UNCHANGED <<remaining, drawn, rows>>
    BY <1>6 DEF Begin, ReadLots, EndDraw, EndPutBack, BeginRestore, lotVars
  <2>2. pc'[c] = "done" => drawn[c] = Nothing
    <3> USE <1>1 DEF TypeOK, Goto, CallInv
    <3>1. CASE Begin(c) \/ BeginRestore(c)
      BY <3>1 DEF Begin, BeginRestore
    <3>2. CASE ReadLots(c) \/ EndDraw(c)
      BY <3>2 DEF ReadLots, EndDraw
    <3>3. CASE EndPutBack(c)
      BY <3>3 DEF EndPutBack, Nothing
    <3>. QED  BY <1>6, <3>1, <3>2, <3>3
  <2>. QED  BY <1>5, <2>1, <2>2
<1>7. ASSUME NEW m \in Lot, Draw(c, m) \/ PutBack(c, m)
      PROVE  UNCHANGED <<rows, Balance, Gone>>
  <2>1. rows' = rows
    BY <1>7 DEF Draw, PutBack
  <2>. QED  BY <1>1, <1>2, <1>7, <2>1, MovingKeepsBalance
<1>8. CASE Record(c) /\ Event(c) \in rows
  BY <1>1, <1>5, <1>8 DEF Record, Goto, lotVars, TypeOK
<1>9. CASE Record(c) /\ Event(c) \notin rows
  <2>1. /\ pc[c] = "recording" /\ pc'[c] = "done" /\ rows' = rows \cup {Event(c)}
        /\ UNCHANGED <<remaining, drawn>>
    BY <1>1, <1>9 DEF Record, Goto, lotVars, TypeOK
  <2>2. Held[c] = Ask[c].amount /\ Held'[c] = 0
    BY <1>1, <1>3, <2>1 DEF CallInv
  <2>3. Balance' = Balance - Ask[c].amount /\ Ask[c].amount <= Balance
    <3>1. Tally(Held)' = Tally(Held) - Ask[c].amount /\ Ask[c].amount <= Tally(Held)
      BY <1>3, <1>4, <2>2
    <3>2. Balance' = Tally(remaining) + Tally(Held)'
      BY <2>1 DEF Balance
    <3>. QED  BY <1>4, <3>1, <3>2 DEF Balance
  <2>. QED  BY <1>1, <1>2, <1>9, <2>1, <2>3 DEF KindInv
<1>10. CASE /\ c \in Lot /\ NewLot(c) /\ Event(c) \notin rows
            /\ pc[c] # "done" /\ pc'[c] = "done" /\ UNCHANGED drawn
            /\ Issue(c) \/ AddLot(c)
  <2>1. drawn[c] = Nothing
    BY <1>1, <1>10 DEF CallInv, Issue, AddLot
  <2>2. Tally(Held)' = Tally(Held)
    BY <1>3, <1>4, <1>10, <2>1, Requests
  <2>3. remaining[c] = 0
    <3>1. born[c] = 0
      BY <1>1, <1>10 DEF Inv, LotInv, TypeOK
    <3>2. /\ remaining[c] \in Nat /\ expired[c] \in Nat
          /\ Tally(DrawnOf(c)) \in Nat /\ Tally(LostOf(c)) \in Nat
      BY <1>1, <1>10, ColumnTypes
    <3>3. (IF born[c] > 0 THEN Ask[c].amount ELSE 0)
          = remaining[c] + Tally(DrawnOf(c)) + expired[c] + Tally(LostOf(c))
      <4>1. LedgerExact /\ c \in Lot
        BY <1>10 DEF Inv
      <4>. QED  BY ONLY <4>1 DEF LedgerExact, DrawnOf, LostOf
    <3>4. ~(born[c] > 0)
      BY ONLY <3>1
    <3>5. remaining[c] + Tally(DrawnOf(c)) + expired[c] + Tally(LostOf(c)) = 0
      BY ONLY <3>3, <3>4
    <3>. QED  BY ONLY <3>2, <3>5, NothingLeft
  <2>4. Tally(remaining') = Tally(remaining) + Ask[c].amount
    <3>1. remaining \in [Lot -> Nat] /\ remaining' \in [Lot -> Nat]
      BY <1>1 DEF TypeOK
    <3>2. /\ remaining'[c] = Ask[c].amount
          /\ \A l \in Lot \ {c} : remaining'[l] = remaining[l]
      BY <1>1, <1>10, BornWith
    <3>3. Tally(remaining') = Tally(remaining) - remaining[c] + remaining'[c]
      BY <1>10, <3>1, <3>2, Requests, TallyChange
    <3>. QED  BY <1>4, <2>3, <3>2, <3>3
  <2>5. Balance' = Balance + Ask[c].amount
    BY <1>4, <2>2, <2>4 DEF Balance
  <2>6. rows' = rows \cup {Event(c)}
    BY <1>10 DEF NewLot
  <2>. QED  BY <1>2, <1>10, <2>5, <2>6
<1>11. CASE AddLot(c) /\ Event(c) \in rows
  <2>1. UNCHANGED <<remaining, drawn, rows>> /\ drawn[c] = Nothing
    BY <1>1, <1>11 DEF AddLot, CallInv
  <2>. QED  BY <1>5, <2>1
<1>12. CASE Issue(c) \/ AddLot(c)
  <2>1. CASE UNCHANGED born /\ ~(AddLot(c) /\ Event(c) \in rows)
    <3>1. NewLot(c)
      BY <1>12, <2>1 DEF Issue, AddLot
    <3>2. c \in Lot
      BY <1>1, <1>12, Requests DEF Issue, AddLot, KindInv, Credits
    <3>3. pc[c] # "done" /\ pc'[c] = "done" /\ UNCHANGED drawn
      BY <1>1, <1>12 DEF Issue, AddLot, Goto, TypeOK
    <3>4. Event(c) \notin rows
      BY <1>1, <1>12, <2>1 DEF Issue, KindInv
    <3>. QED  BY <1>10, <1>12, <3>1, <3>2, <3>3, <3>4
  <2>. QED  BY <1>1, <1>10, <1>11, <1>12, <2>1, Birth
<1>. QED  BY <1>6, <1>7, <1>8, <1>9, <1>12 DEF CallStep

LEMMA SweepImplements ==
  ASSUME Inv, TypeOK', NEW s \in Sweep, SweepStep(s)
  PROVE  \/ UNCHANGED <<rows, Balance, Gone>>
         \/ /\ rows' = rows /\ Balance' \in 0 .. Balance - 1
            /\ Gone' = Gone + Balance - Balance'
<1>1. TypeOK /\ SweepInv(s)
  BY DEF Inv
<1>2. rows' = rows /\ Held' = Held
  BY DEF SweepStep, FindDue, ClaimLot, WriteExpiry, EndSweep, callVars, Held
<1>3. /\ \A r \in Sweep \ {s} : lost'[r] = lost[r]
      /\ lost[s] \in [Lot -> Nat] /\ lost'[s] \in [Lot -> Nat] /\ Tally(lost[s]) \in Nat
  BY <1>1, SumTypes DEF SweepStep, FindDue, ClaimLot, WriteExpiry, EndSweep, TypeOK
<1>4. Tally(Swept') = Tally(Swept) - Tally(lost[s]) + Tally(lost'[s])
  <2>1. \A r \in Sweep : lost'[r] \in [Lot -> Nat]
    BY DEF TypeOK
  <2>2. \A r \in Sweep : Tally(lost'[r]) \in Nat
    BY <2>1, Requests, TallyNat
  <2>3. Swept' = [r \in Sweep |-> Tally(lost'[r])]
    BY DEF Swept
  <2>4. Swept \in [Sweep -> Nat] /\ Swept' \in [Sweep -> Nat]
    BY <1>1, <2>2, <2>3, SumTypes
  <2>5. \A r \in Sweep \ {s} : Swept'[r] = Swept[r]
    BY <1>3, <2>3 DEF Swept
  <2>6. Tally(Swept') = Tally(Swept) - Swept[s] + Swept'[s]
    BY <2>4, <2>5, Requests, TallyChange
  <2>. QED  BY <2>3, <2>6 DEF Swept
<1>5. /\ Tally(remaining) \in Nat /\ Tally(expired) \in Nat /\ Tally(Held) \in Nat /\ Tally(Swept) \in Nat
      /\ remaining \in [Lot -> Nat] /\ remaining' \in [Lot -> Nat]
      /\ expired \in [Lot -> Nat] /\ expired' \in [Lot -> Nat]
  BY <1>1, SumTypes DEF TypeOK
<1>6. CASE UNCHANGED <<remaining, lost, expired>>
  BY <1>2, <1>6 DEF Balance, Gone, Swept
<1>7. ASSUME NEW l \in Lot, ClaimLot(s, l), ~UNCHANGED <<remaining, lost, expired>>
      PROVE  /\ Balance' \in 0 .. Balance - 1
             /\ Gone' = Gone + Balance - Balance'
  <2>1. /\ remaining[l] > 0 /\ remaining' = [remaining EXCEPT ![l] = 0]
        /\ lost' = [lost EXCEPT ![s][l] = remaining[l]]
        /\ expired' = expired
    BY <1>7 DEF ClaimLot
  <2>2. lost[s] = Nothing
    BY <1>1, <1>7 DEF ClaimLot, SweepInv
  <2>3. Tally(remaining') = Tally(remaining) - remaining[l] + 0
    <3>1. \A m \in Lot \ {l} : remaining'[m] = remaining[m]
      BY <1>5, <2>1
    <3>2. Tally(remaining') = Tally(remaining) - remaining[l] + remaining'[l]
      BY <1>5, <3>1, Requests, TallyChange
    <3>. QED  BY <1>5, <2>1, <3>2
  <2>4. Tally(lost'[s]) = remaining[l]
    <3>1. \A m \in Lot \ {l} : lost'[s][m] = lost[s][m]
      BY <1>1, <2>1 DEF TypeOK
    <3>2. Tally(lost'[s]) = Tally(lost[s]) - lost[s][l] + lost'[s][l]
      BY <1>3, <3>1, Requests, TallyChange
    <3>3. Tally(lost[s]) = 0 /\ lost[s][l] = 0 /\ lost'[s][l] = remaining[l]
      BY <1>1, <2>1, <2>2, Requests DEF Nothing, TypeOK
    <3>. QED  BY <1>5, <3>2, <3>3
  <2>5. remaining[l] \in Nat /\ remaining[l] <= Tally(remaining)
    BY <1>5, Requests, TallyBound
  <2>6. Balance' = Balance - remaining[l]
    BY <1>2, <1>5, <2>3, <2>5 DEF Balance
  <2>7. Gone' = Gone + remaining[l]
    <3>1. Tally(Swept') = Tally(Swept) + remaining[l]
      BY <1>4, <1>5, <2>2, <2>4, <2>5, Requests
    <3>. QED  BY <1>5, <2>1, <2>5, <3>1 DEF Gone
  <2>8. Balance \in Nat /\ Gone \in Nat /\ remaining[l] <= Balance
    BY <1>5, <2>5 DEF Balance, Gone
  <2>. QED  BY <2>1, <2>5, <2>6, <2>7, <2>8
<1>8. CASE WriteExpiry(s)
  <2>1. /\ expired' = [l \in Lot |-> expired[l] + lost[s][l]] /\ lost'[s] = Nothing
        /\ remaining' = remaining
    BY <1>1, <1>8 DEF WriteExpiry, TypeOK, lotVars
  <2>2. PICK l \in Lot : \A m \in Lot \ {l} : lost[s][m] = 0
    BY <1>1, <1>8 DEF WriteExpiry, SweepInv
  <2>3. Tally(lost[s]) = lost[s][l]
    <3>1. \A m \in Lot \ {l} : lost[s][m] = Nothing[m]
      BY <2>2 DEF Nothing
    <3>2. Tally(lost[s]) = Tally(Nothing) - Nothing[l] + lost[s][l]
      BY <1>3, <3>1, Requests, TallyChange
    <3>. QED  BY <1>3, <3>2, Requests DEF Nothing
  <2>4. Tally(expired') = Tally(expired) + lost[s][l]
    <3>1. \A m \in Lot \ {l} : expired'[m] = expired[m]
      BY <1>5, <2>1, <2>2
    <3>2. Tally(expired') = Tally(expired) - expired[l] + expired'[l]
      BY <1>5, <3>1, Requests, TallyChange
    <3>. QED  BY <1>3, <1>5, <2>1, <3>2
  <2>5. Tally(Swept') = Tally(Swept) - lost[s][l]
    BY <1>3, <1>4, <1>5, <2>1, <2>3, Requests
  <2>6. Gone' = Gone
    BY <1>3, <1>5, <2>4, <2>5 DEF Gone
  <2>. QED  BY <1>2, <2>1, <2>6 DEF Balance
<1>. QED  BY <1>2, <1>6, <1>7, <1>8 DEF SweepStep, FindDue, EndSweep, lotVars

(* To the customer the lots are one balance: every event moves it whole    *)
(* and once, whatever calls and sweeps come in between, and it never goes  *)
(* below zero.                                                             *)
THEOREM ImplementsPurse == Spec => PurseSpec
<1>1. ASSUME Init
      PROVE  TheBalance!Init
  <2>1. /\ \A c \in Call : Held[c] = 0
        /\ \A s \in Sweep : Swept[s] = 0
        /\ remaining = Nothing /\ expired = Nothing
    BY <1>1, Requests DEF Init, Held, Swept
  <2>2. TypeOK
    BY <1>1, InitInv DEF Inv
  <2>3. Tally(Held) = 0 /\ Tally(Swept) = 0 /\ Tally(remaining) = 0 /\ Tally(expired) = 0
    BY <2>1, <2>2, SumTypes, TallyZero, Requests
  <2>4. rows = {} /\ Balance = 0 /\ Gone = 0
    BY <1>1, <2>3 DEF Init, Balance, Gone
  <2>. QED  BY <2>4 DEF TheBalance!Init, Balance, Gone, Held, Swept
<1>2. ASSUME Inv, [Next]_vars
      PROVE  [TheBalance!Next]_<<rows, Balance, Gone>>
  <2>1. TypeOK'
    BY <1>2, Types DEF Inv
  <2>2. ASSUME NEW c \in Call, CallStep(c)
        PROVE  [TheBalance!Next]_<<rows, Balance, Gone>>
    <3>1. CASE UNCHANGED <<rows, Balance, Gone>>
      BY <3>1
    <3>2. CASE /\ Event(c) \notin rows /\ rows' = rows \cup {Event(c)} /\ Gone' = Gone
               /\ c \in Lot /\ Balance' = Balance + Ask[c].amount
      <4>1. Event(c) \in Events(Credits) /\ Amount(Event(c)) = Ask[c].amount
        BY <3>2, Requests DEF Events, Amount
      <4>2. TheBalance!Add(Event(c))
        BY <3>2, <4>1 DEF TheBalance!Add, Balance, Gone, Held, Swept
      <4>. QED  BY <4>1, <4>2 DEF TheBalance!Next
    <3>3. CASE /\ Event(c) \notin rows /\ rows' = rows \cup {Event(c)} /\ Gone' = Gone
               /\ Ask[c].kind \in Debits
               /\ Ask[c].amount <= Balance /\ Balance' = Balance - Ask[c].amount
      <4>1. Event(c) \in Events(Debits) /\ Amount(Event(c)) = Ask[c].amount
        BY <3>3, Requests DEF Events, Amount
      <4>2. TheBalance!Take(Event(c))
        BY <3>3, <4>1 DEF TheBalance!Take, Balance, Gone, Held, Swept
      <4>. QED  BY <4>1, <4>2 DEF TheBalance!Next
    <3>. QED  BY <1>2, <2>1, <2>2, <3>1, <3>2, <3>3, CallImplements
  <2>3. ASSUME NEW s \in Sweep, SweepStep(s)
        PROVE  [TheBalance!Next]_<<rows, Balance, Gone>>
    <3>1. CASE /\ rows' = rows /\ Balance' \in 0 .. Balance - 1
               /\ Gone' = Gone + Balance - Balance'
      <4>1. TheBalance!Expire
        BY <3>1 DEF TheBalance!Expire, Balance, Gone, Held, Swept
      <4>. QED  BY <4>1 DEF TheBalance!Next
    <3>. QED  BY <1>2, <2>1, <2>3, <3>1, SweepImplements
  <2>4. CASE Tick \/ (\E k \in Checkout : StartPayment(k)) \/ UNCHANGED vars
    <3>1. UNCHANGED <<rows, lotVars, callVars, sweepVars>>
      BY <2>4 DEF Tick, StartPayment, vars
    <3>. QED  BY <3>1 DEF lotVars, callVars, sweepVars, Balance, Gone, Held, Swept
  <2>. QED  BY <1>2, <2>2, <2>3, <2>4 DEF Next
<1>. QED  BY <1>1, <1>2, Invariance, PTL DEF Spec, PurseSpec, TheBalance!Spec, Balance, Gone, Held, Swept
=============================================================================
