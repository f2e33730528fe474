SPECIFICATION Spec
CONSTANTS
  gift = gift
  bonus = bonus
  buy = buy
  again = again
  removal = removal
  back = back
  twice = twice
  other = other
  k1 = k1
  k2 = k2
  job1 = job1
  job2 = job2
  Call = {gift, buy, other, back}
  Sweep = {job1}
  Checkout = {k1, k2}
  Applied <- SharedApplied
  Ask <- SharedAsk
  Expiry <- SharedExpiry
  Horizon = 0
INVARIANT GivesBackWhatItTook
CHECK_DEADLOCK FALSE
