\* Does the USD card settle on one status?
CONSTANTS
  b1 = b1
  b2 = b2
  Caster = {b1, b2}
  Posted = {b2}
  Place = {"card"}
  Starts = {29}
  MaxHours = 1
SPECIFICATION FairSpec
PROPERTIES
  CardSettles
