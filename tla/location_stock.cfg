SPECIFICATION Spec
CONSTANTS
  main = main
  branch = branch
  o1 = o1
  t1 = t1
  found = found
  mark = mark
  scrap = scrap
  r1 = r1
  p1 = p1
  Nowhere = Nowhere
  Location = {main, branch}
  Main = main
  OnBook = 2
  OnShelf = 0
  Order = {o1}
  Asks <- MCAsks
  Transfer = {t1}
  From <- MCFrom
  To <- MCTo
  Sent <- MCSent
  Change = {found, mark, scrap}
  Reason <- MCReason
  Delta <- MCDelta
  Place <- MCPlace
  Doubted = {found}
  Return = {r1}
  Broken = {r1}
  Receipt = {p1}
  Good <- MCGood
  Bad <- MCBad
  Failures <- MCFailures
INVARIANTS
  TypeOK
  InTransitExact
  BookFollowsShelf
  AppliedOnce
CHECK_DEADLOCK FALSE
