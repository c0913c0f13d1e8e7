\* A peer that only listens, as the dashboard does.
CONSTANTS
  pongWait = 60
  pingPeriod = 54
  writeWait = 10
  Talkative = FALSE
SPECIFICATION Spec
INVARIANTS
  PromptIsKept
