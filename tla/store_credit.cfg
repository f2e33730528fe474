SPECIFICATION Spec
CONSTANTS
  gift = gift
  bonus = bonus
  buy = buy
  again = again
  removal = removal
  back = back
  twice = twice
  other = other
  k1 = k1
  k2 = k2
  job1 = job1
  job2 = job2
  Call = {gift, bonus, buy, again, removal, back, twice}
  Sweep = {job1, job2}
  Checkout = {k1}
  Applied <- MCApplied
  Ask <- MCAsk
  Expiry <- MCExpiry
  Horizon = 1
CONSTRAINT FewCalls
SYMMETRY Alike
INVARIANTS
  TypeOK
  LedgerExact
  WholeOrNothing
  CreditedOnce
PROPERTY
  PurseSpec
CHECK_DEADLOCK FALSE
