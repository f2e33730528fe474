---------------------------- MODULE StoreCredit ----------------------------
(***************************************************************************)
(* The store credit of one customer in one store.  There is no balance     *)
(* document: the balance is what remains of the lots that were credited    *)
(* and have not expired.  Purchases and removals draw the lots down one    *)
(* conditional update at a time and then write a ledger row; a sweep       *)
(* zeroes the lots that have expired.                                      *)
(*                                                                         *)
(* Every access to the collection is one action.  Calls interleave between *)
(* any two of them, and one that never takes its next step is one whose    *)
(* process died, or whose insert failed, there.                            *)
(***************************************************************************)
EXTENDS Tally

CONSTANTS
  Call,       \* calls of the service
  Sweep,      \* instances of the expiry job
  Checkout,   \* checkouts that use store credit
  Applied,    \* the credit a checkout uses
  Ask,        \* what a call is asked to do
  Expiry,     \* when the lot a call creates expires
  Horizon     \* the last moment looked at; a lot with a later expiry never expires

Debits == {"redeem", "remove"}
Credits == {"issue", "restore"}
Request == [kind : Debits \cup Credits, key : STRING, of : Checkout, amount : Nat \ {0}]

(* A lot has the name of the call that credits it.                         *)
Lot == {c \in Call : Ask[c].kind \in Credits}

ASSUME StoreCreditAssumption ==
  /\ IsFiniteSet(Call) /\ IsFiniteSet(Sweep)
  /\ Applied \in [Checkout -> Nat \ {0}]
  /\ Ask \in [Call -> Request]
  /\ Expiry \in [Lot -> Nat]
  /\ Horizon \in Nat
  /\ \A c, d \in Call : Ask[c].kind = Ask[d].kind /\ Ask[c].key = Ask[d].key
                          => Ask[c].amount = Ask[d].amount /\ Ask[c].of = Ask[d].of
  /\ \A c, d \in Call : Ask[c].kind = "redeem" /\ Ask[d].kind = "redeem"
                          => (Ask[c].key = Ask[d].key <=> Ask[c].of = Ask[d].of)
  /\ \A c \in Call : Ask[c].kind = "redeem" => Ask[c].amount = Applied[Ask[c].of]
  /\ \A c, d \in Call : c # d /\ Ask[c].kind \in {"issue", "remove"} => Ask[c].key # Ask[d].key

VARIABLES
  now,
  paying,              \* checkouts whose payment was started
  rows,                \* kind, idempotency key and amount of the ledger rows
  born,                \* when a lot was created, in order of creation; 0: not yet
  remaining, handled,  \* of a lot: what is left of it, and whether it was swept
  pc,                  \* the calls' progress
  read, plan,          \* the lots a call read: what was left of each, which are to be tried
  drawn,               \* what a call has drawn from each lot
  sweeping,            \* the sweeps' progress
  due, lost,           \* the lots a sweep has to claim, and what it took from them
  expired              \* what the ledger says has expired of a lot

lotVars == <<born, remaining, handled>>
sweepVars == <<sweeping, due, lost, expired>>
callVars == <<pc, read, plan, drawn>>
vars == <<now, paying, rows, lotVars, callVars, sweepVars>>

Nothing == [l \in Lot |-> 0]
Event(c) == [kind |-> Ask[c].kind, key |-> Ask[c].key, amount |-> Ask[c].amount]

Init ==
  /\ now = 0
  /\ paying = {}
  /\ rows = {}
  /\ born = Nothing
  /\ remaining = Nothing
  /\ handled = [l \in Lot |-> FALSE]
  /\ pc = [c \in Call |-> "idle"]
  /\ read = [c \in Call |-> Nothing]
  /\ plan = [c \in Call |-> {}]
  /\ drawn = [c \in Call |-> Nothing]
  /\ sweeping = [s \in Sweep |-> "idle"]
  /\ due = [s \in Sweep |-> {}]
  /\ lost = [s \in Sweep |-> Nothing]
  /\ expired = Nothing

Goto(c, s) == pc' = [pc EXCEPT ![c] = s]

(* The lots the customer can spend.                                        *)
Open == {l \in Lot : remaining[l] > 0 /\ Expiry[l] > now}
Spendable == Tally([l \in Open |-> remaining[l]])

Tick ==
  /\ now < Horizon
  /\ now' = now + 1
  /\ UNCHANGED <<paying, rows, lotVars, callVars, sweepVars>>

(* Before the payment of a checkout starts the balance is checked; the     *)
(* credit is drawn when the order is placed.                               *)
StartPayment(k) ==
  /\ k \notin paying
  /\ Spendable >= Applied[k]
  /\ paying' = paying \cup {k}
  /\ UNCHANGED <<now, rows, lotVars, callVars, sweepVars>>

-----------------------------------------------------------------------------
(* Drawing on the lots.                                                    *)

(* A purchase that has its row is not drawn again; a removal is refused    *)
(* when the balance is too small.                                          *)
Begin(c) ==
  /\ pc[c] = "idle"
  /\ \/ /\ Ask[c].kind = "redeem" /\ Ask[c].of \in paying
        /\ Goto(c, IF Event(c) \in rows THEN "done" ELSE "reading")
     \/ /\ Ask[c].kind = "remove"
        /\ Goto(c, IF Ask[c].amount > Spendable THEN "refused" ELSE "reading")
  /\ UNCHANGED <<now, paying, rows, lotVars, read, plan, drawn, sweepVars>>

Short(c) == Ask[c].amount - Tally(drawn[c])

ReadLots(c) ==
  /\ pc[c] = "reading"
  /\ plan' = [plan EXCEPT ![c] = Open]
  /\ read' = [read EXCEPT ![c] = remaining]
  /\ Goto(c, "drawing")
  /\ UNCHANGED <<now, paying, rows, lotVars, drawn, sweepVars>>

(* The lot that expires soonest is drawn first, an older one before a      *)
(* younger one.                                                            *)
Before(l, m) == Expiry[l] < Expiry[m] \/ (Expiry[l] = Expiry[m] /\ born[l] <= born[m])

(* Mutant of Draw: the update does not ask whether the lot still has it.   *)
DrawBlindly(c, l) ==
  LET take == IF read[c][l] < Short(c) THEN read[c][l] ELSE Short(c) IN
  /\ pc[c] = "drawing" /\ Short(c) > 0
  /\ l \in plan[c] /\ \A m \in plan[c] : Before(l, m)
  /\ plan' = [plan EXCEPT ![c] = @ \ {l}]
  /\ remaining' = [remaining EXCEPT ![l] = @ - take]
  /\ drawn' = [drawn EXCEPT ![c][l] = @ + take]
  /\ UNCHANGED <<now, paying, rows, born, handled, pc, read, sweepVars>>

(* One lot, if it still has what is to be taken from it.                   *)
Draw(c, l) ==
  LET take == IF read[c][l] < Short(c) THEN read[c][l] ELSE Short(c) IN
  /\ pc[c] = "drawing" /\ Short(c) > 0
  /\ l \in plan[c] /\ \A m \in plan[c] : Before(l, m)
  /\ plan' = [plan EXCEPT ![c] = @ \ {l}]
  /\ IF remaining[l] >= take
     THEN /\ remaining' = [remaining EXCEPT ![l] = @ - take]
          /\ drawn' = [drawn EXCEPT ![c][l] = @ + take]
     ELSE UNCHANGED <<remaining, drawn>>
  /\ UNCHANGED <<now, paying, rows, born, handled, pc, read, sweepVars>>

(* Mutant of EndDraw: a draw that falls short is kept.                     *)
EndDrawShort(c) ==
  /\ pc[c] = "drawing"
  /\ Short(c) = 0 \/ plan[c] = {}
  /\ Goto(c, IF Short(c) = 0 THEN "recording" ELSE "refused")
  /\ plan' = [plan EXCEPT ![c] = {}]
  /\ read' = [read EXCEPT ![c] = Nothing]
  /\ UNCHANGED <<now, paying, rows, lotVars, drawn, sweepVars>>

EndDraw(c) ==
  /\ pc[c] = "drawing"
  /\ Short(c) = 0 \/ plan[c] = {}
  /\ Goto(c, IF Short(c) = 0 THEN "recording" ELSE "returning")
  /\ plan' = [plan EXCEPT ![c] = {}]
  /\ read' = [read EXCEPT ![c] = Nothing]
  /\ UNCHANGED <<now, paying, rows, lotVars, drawn, sweepVars>>

(* Mutant of Record: there is no unique index.                             *)
RecordAgain(c) ==
  /\ pc[c] = "recording"
  /\ Goto(c, "done")
  /\ rows' = rows \cup {Event(c)}
  /\ UNCHANGED <<now, paying, lotVars, read, plan, drawn, sweepVars>>

(* The ledger row.  A purchase that lost the race for it puts back.        *)
Record(c) ==
  /\ pc[c] = "recording"
  /\ Goto(c, IF Event(c) \in rows THEN "undoing" ELSE "done")
  /\ rows' = rows \cup {Event(c)}
  /\ UNCHANGED <<now, paying, lotVars, read, plan, drawn, sweepVars>>

PutBack(c, l) ==
  /\ pc[c] \in {"returning", "undoing"}
  /\ drawn[c][l] > 0
  /\ remaining' = [remaining EXCEPT ![l] = @ + drawn[c][l]]
  /\ drawn' = [drawn EXCEPT ![c][l] = 0]
  /\ UNCHANGED <<now, paying, rows, born, handled, pc, read, plan, sweepVars>>

EndPutBack(c) ==
  /\ pc[c] \in {"returning", "undoing"}
  /\ \A l \in Lot : drawn[c][l] = 0
  /\ Goto(c, IF pc[c] = "undoing" THEN "done" ELSE "refused")
  /\ UNCHANGED <<now, paying, rows, lotVars, read, plan, drawn, sweepVars>>

-----------------------------------------------------------------------------
(* Crediting.                                                              *)

(* What is credited is a lot of its own.                                   *)
NewLot(c) ==
  /\ born' = [born EXCEPT ![c] = 1 + Cardinality({l \in Lot : born[l] > 0})]
  /\ remaining' = [remaining EXCEPT ![c] = Ask[c].amount]
  /\ rows' = rows \cup {Event(c)}

(* The merchant issues credit that expires in the future.                  *)
Issue(c) ==
  /\ pc[c] = "idle" /\ Ask[c].kind = "issue"
  /\ Expiry[c] > now
  /\ NewLot(c)
  /\ Goto(c, "done")
  /\ UNCHANGED <<now, paying, handled, read, plan, drawn, sweepVars>>

(* The order exists before its credit is drawn, and may be cancelled or    *)
(* returned from then on.                                                  *)
Ordered(k) == \E c \in Call : Ask[c].kind = "redeem" /\ Ask[c].of = k /\ pc[c] # "idle"

BeginRestore(c) ==
  /\ pc[c] = "idle" /\ Ask[c].kind = "restore"
  /\ Ordered(Ask[c].of)
  /\ Goto(c, IF Event(c) \in rows THEN "done" ELSE "adding")
  /\ UNCHANGED <<now, paying, rows, lotVars, read, plan, drawn, sweepVars>>

(* Mutant of AddLot: there is no unique index.                             *)
AddLotAgain(c) ==
  /\ pc[c] = "adding"
  /\ NewLot(c)
  /\ Goto(c, "done")
  /\ UNCHANGED <<now, paying, handled, read, plan, drawn, sweepVars>>

AddLot(c) ==
  /\ pc[c] = "adding"
  /\ IF Event(c) \in rows THEN UNCHANGED <<born, remaining, rows>> ELSE NewLot(c)
  /\ Goto(c, "done")
  /\ UNCHANGED <<now, paying, handled, read, plan, drawn, sweepVars>>

-----------------------------------------------------------------------------
(* expireDueLots.                                                          *)

FindDue(s) ==
  /\ sweeping[s] = "idle"
  /\ due' = [due EXCEPT ![s] = {l \in Lot : /\ born[l] > 0 /\ Expiry[l] <= now
                                            /\ remaining[l] > 0 /\ ~handled[l]}]
  /\ due'[s] # {}
  /\ sweeping' = [sweeping EXCEPT ![s] = "claiming"]
  /\ UNCHANGED <<now, paying, rows, lotVars, callVars, lost, expired>>

(* Mutant of ClaimLot: the lot is not claimed, only zeroed, and the row    *)
(* says what was issued.                                                   *)
ClaimLotAsIssued(s, l) ==
  /\ sweeping[s] = "claiming" /\ l \in due[s]
  /\ due' = [due EXCEPT ![s] = @ \ {l}]
  /\ handled' = [handled EXCEPT ![l] = TRUE]
  /\ remaining' = [remaining EXCEPT ![l] = 0]
  /\ lost' = [lost EXCEPT ![s][l] = Ask[l].amount]
  /\ sweeping' = [sweeping EXCEPT ![s] = "writing"]
  /\ UNCHANGED <<now, paying, rows, born, callVars, expired>>

(* A lot is claimed and zeroed by one update, which tells what was left.   *)
ClaimLot(s, l) ==
  /\ sweeping[s] = "claiming" /\ l \in due[s]
  /\ due' = [due EXCEPT ![s] = @ \ {l}]
  /\ IF ~handled[l] /\ remaining[l] > 0
     THEN /\ handled' = [handled EXCEPT ![l] = TRUE]
          /\ remaining' = [remaining EXCEPT ![l] = 0]
          /\ lost' = [lost EXCEPT ![s][l] = remaining[l]]
          /\ sweeping' = [sweeping EXCEPT ![s] = "writing"]
     ELSE UNCHANGED <<remaining, handled, lost, sweeping>>
  /\ UNCHANGED <<now, paying, rows, born, callVars, expired>>

WriteExpiry(s) ==
  /\ sweeping[s] = "writing"
  /\ expired' = [l \in Lot |-> expired[l] + lost[s][l]]
  /\ lost' = [lost EXCEPT ![s] = Nothing]
  /\ sweeping' = [sweeping EXCEPT ![s] = "claiming"]
  /\ UNCHANGED <<now, paying, rows, lotVars, callVars, due>>

EndSweep(s) ==
  /\ sweeping[s] = "claiming" /\ due[s] = {}
  /\ sweeping' = [sweeping EXCEPT ![s] = "idle"]
  /\ UNCHANGED <<now, paying, rows, lotVars, callVars, due, lost, expired>>

CallStep(c) ==
  \/ Begin(c)
  \/ ReadLots(c)
  \/ \E l \in Lot : Draw(c, l)
  \/ EndDraw(c)
  \/ Record(c)
  \/ \E l \in Lot : PutBack(c, l)
  \/ EndPutBack(c)
  \/ Issue(c)
  \/ BeginRestore(c)
  \/ AddLot(c)

SweepStep(s) ==
  \/ FindDue(s)
  \/ \E l \in Lot : ClaimLot(s, l)
  \/ WriteExpiry(s)
  \/ EndSweep(s)

Next ==
  \/ Tick
  \/ \E k \in Checkout : StartPayment(k)
  \/ \E c \in Call : CallStep(c)
  \/ \E s \in Sweep : SweepStep(s)

Spec == Init /\ [][Next]_vars

-----------------------------------------------------------------------------
(* Properties.                                                             *)

CallSteps == {"idle", "reading", "drawing", "recording", "returning", "undoing", "adding",
              "done", "refused"}

(* Every variable keeps its type; in particular no lot is overdrawn.       *)
TypeOK ==
  /\ now \in Nat
  /\ paying \subseteq Checkout
  /\ rows \subseteq {Event(c) : c \in Call}
  /\ born \in [Lot -> Nat]
  /\ remaining \in [Lot -> Nat]
  /\ handled \in [Lot -> BOOLEAN]
  /\ pc \in [Call -> CallSteps]
  /\ read \in [Call -> [Lot -> Nat]]
  /\ plan \in [Call -> SUBSET Lot]
  /\ drawn \in [Call -> [Lot -> Nat]]
  /\ sweeping \in [Sweep -> {"idle", "claiming", "writing"}]
  /\ due \in [Sweep -> SUBSET Lot]
  /\ lost \in [Sweep -> [Lot -> Nat]]
  /\ expired \in [Lot -> Nat]

(* The balance never drifts from the ledger: what was credited in a lot is *)
(* what remains of it, what calls have drawn or are drawing, and what has  *)
(* expired, whatever draws, restorations and sweeps run at the same time.  *)
LedgerExact ==
  \A l \in Lot :
    (IF born[l] > 0 THEN Ask[l].amount ELSE 0)
      = remaining[l] + Tally([c \in Call |-> drawn[c][l]])
        + expired[l] + Tally([s \in Sweep |-> lost[s][l]])

(* A call takes its whole amount or nothing, and of all the calls that     *)
(* report one purchase at most one takes it.                               *)
WholeOrNothing ==
  /\ \A c \in Call :
       /\ pc[c] = "refused" => Tally(drawn[c]) = 0
       /\ pc[c] = "done" /\ Ask[c].kind \in Debits => Tally(drawn[c]) \in {0, Ask[c].amount}
  /\ \A c, d \in {e \in Call : pc[e] = "done" /\ Ask[e].kind \in Debits} :
       c # d /\ Event(c) = Event(d) => Tally(drawn[c]) = 0 \/ Tally(drawn[d]) = 0

(* One event credits one lot, however often it is reported.                *)
CreditedOnce ==
  \A l, m \in {n \in Lot : born[n] > 0} : Event(l) = Event(m) => l = m

(* All of this together is one balance.                                    *)
Events(kinds) == {Event(c) : c \in {d \in Call : Ask[d].kind \in kinds}}
Amount(e) == e.amount
TheBalance == INSTANCE Purse WITH
  Credit <- Events(Credits),
  Debit <- Events(Debits),
  Worth <- Amount,
  happened <- rows,
  balance <- Tally(remaining) + Tally([c \in Call |-> IF pc[c] = "done" THEN 0 ELSE Tally(drawn[c])]),
  expired <- Tally(expired) + Tally([s \in Sweep |-> Tally(lost[s])])
PurseSpec == TheBalance!Spec

(* Cancelled items give back exactly the credit they consumed.             *)
GivesBackWhatItTook ==
  \A l \in Lot :
    /\ born[l] > 0 /\ Ask[l].kind = "restore"
    /\ \A c \in Call : Ask[c].kind = "redeem" /\ Ask[c].of = Ask[l].of
                         => pc[c] \in {"idle", "done", "refused"}
    => \E c \in Call : Ask[c].kind = "redeem" /\ Ask[c].of = Ask[l].of /\ Event(c) \in rows
=============================================================================
