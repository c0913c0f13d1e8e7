\* One connection, the event loop and one Redis subscriber goroutine.
CONSTANTS
  c1 = c1
  s1 = s1
  Client = {c1}
  NoClient = NoClient
  Subscriber = {s1}
  SendCap = 1
  BroadcastCap = 1
  MaxBroadcasts = 2
SPECIFICATION Spec
INVARIANTS
  NoPanic
