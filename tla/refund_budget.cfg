SPECIFICATION Spec
CONSTANTS
  hat = hat
  bag = bag
  x = x
  y = y
  z = z
  Request = {x, y, z}
  Line = {hat, bag}
  Price <- MCPrice
  Cap = 5
  Legacy = 1
  Requested = {hat}
  Attempts = 2
  MayCall <- MCCalls
INVARIANTS
  TypeOK
  BudgetExact
  NeverOverRefunded
  FailureIsClean
  ReturnPaidOnce
PROPERTY
  PoolSpec
CHECK_DEADLOCK FALSE
