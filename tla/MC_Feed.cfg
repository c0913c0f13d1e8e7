\* Two broadcasts in flight around an opening and a closing: the hours are Sunday
\* 23:00, Monday 05:00 and Tuesday 03:00.
CONSTANTS
  b1 = b1
  b2 = b2
  Caster = {b1, b2}
  Posted = {b2}
  Place = {"badge", "card"}
  Starts = {23, 29, 51}
  MaxHours = 1
SPECIFICATION FairSpec
INVARIANTS
  TypeOK
  OpenIsInHours
PROPERTIES
  StatusSettles
  CloseIsShown
  CardRecovers
