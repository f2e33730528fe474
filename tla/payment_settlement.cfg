SPECIFICATION Spec
CONSTANTS
  Worker = {v, w}
  Total = {t, u}
  Cash = Cash
  Units = 1
  Turns = 3
  MaxRows = 2
SYMMETRY Alike
INVARIANTS TypeOK OrderedOnce OrderOrRefund HoldsItsOrder PaidIsInHand
PROPERTY SettlementSpec
CHECK_DEADLOCK FALSE
