SPECIFICATION Spec
CONSTANTS
  goods = goods
  course = course
  half = half
  all = all
  ship = ship
  Order = {goods, course}
  Total <- MCTotal
  Units <- MCUnits
  Call = {half, all, ship}
  About <- MCAbout
  Part <- MCPart
  Ships = {ship}
  Failures = 1
INVARIANT CreditsWhatIsCaptured
CHECK_DEADLOCK FALSE
