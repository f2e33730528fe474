SPECIFICATION MCSpec
CONSTANTS
  tee = tee
  mug = mug
  A = A
  B = B
  a1 = a1
  a2 = a2
  b1 = b1
  x = x
  y = y
  z = z
  Variant = {tee, mug}
  Backorder = {mug}
  Order = {A, B}
  Line = {a1, a2, b1}
  Request = {x, y, z}
  OrderOf <- MCOrderOf
  VariantOf <- MCVariantOf
  Qty <- MCQty
  InitialStock <- MCStock
  MayCall <- MCCalls
  Corrections <- MCCorrections
INVARIANTS
  TypeOK
  ReservationExact
  NoOversell
  ShelfExact
  NeverOverShipped
  CancelledNeverShipped
CHECK_DEADLOCK FALSE
