\* Two processes, linked by Redis or not, with two broadcasts each in flight,
\* each of them sent to Redis up to twice.
CONSTANTS
  i1 = i1
  i2 = i2
  Instance = {i1, i2}
  Slot = {1, 2}
  BroadcastCap = 1
  MaxRetries = 1
  MaxPrepared = 2
SPECIFICATION Spec
INVARIANTS
  TypeOK
  OncePerCommand
  AgreeAtRest
  NewestAtRest
  AllOffered
