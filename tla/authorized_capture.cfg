SPECIFICATION FairSpec
CONSTANTS
  goods = goods
  course = course
  half = half
  all = all
  ship = ship
  Order = {goods, course}
  Total <- MCTotal
  Units <- MCUnits
  Call = {half, all, ship}
  About <- MCAbout
  Part <- MCPart
  Ships = {ship}
  Failures = 2
INVARIANTS
  TypeOK
  PaymentsAgree
  ReservationReleased
  CaptureInHand
PROPERTY
  HoldSpec
  CapturedIsPaid
CHECK_DEADLOCK FALSE
