SPECIFICATION Spec
CONSTANTS
  card = card
  cash = cash
  visit = visit
  r1 = r1
  r2 = r2
  auto = auto
  hand = hand
  hour = hour
  button = button
  Sale = {card, cash, visit}
  Kind <- MCKind
  Gross <- MCGross
  Net <- MCNet
  Refund = {r1, r2}
  Of <- MCOf
  Asked <- MCAsked
  Payout = {auto, hand}
  Rail <- MCRail
  Wanted <- MCWanted
  Minimum = 2
  Clearer = {hour, button}
  Retries = 1
INVARIANT EarningsClear
CHECK_DEADLOCK FALSE
