\* Two POSTs, one GET, the ticks, one broadcast at a time and two mishaps.
CONSTANTS
  p1 = p1
  p2 = p2
  g1 = g1
  b1 = b1
  tick = tick
  Posts = {p1, p2}
  Gets = {g1}
  Casters = {b1}
  Tick = tick
  MaxRate = 1
  MaxMishaps = 2
SPECIFICATION FairSpec
INVARIANTS
  TypeOK
  ManualSurvives
  DamageHasCause
PROPERTIES
  StoreHeals
