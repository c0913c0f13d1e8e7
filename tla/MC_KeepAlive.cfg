\* A peer that sends data often enough.
CONSTANTS
  pongWait = 60
  pingPeriod = 54
  writeWait = 10
  Talkative = TRUE
SPECIFICATION Spec
INVARIANTS
  TypeOK
  DeadIsDropped
  PromptIsKept
