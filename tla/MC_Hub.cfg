\* One connection of one process without Redis.
CONSTANTS
  c1 = c1
  Client = {c1}
  NoClient = NoClient
  Subscriber = {}
  SendCap = 2
  BroadcastCap = 1
  MaxBroadcasts = 4
SPECIFICATION FairSpec
INVARIANTS
  TypeOK
  NoPanic
  NoZombie
  DropAsksForRemoval
  InitialSendSafe
  DrainFindsMessages
  InOrder
  NoGap
PROPERTIES
  ImplementsSubscription
  EndedIsForgotten
  SlowIsDisconnected
  EveryMessageArrives
