\* Does the page retry a connection it closed itself?
CONSTANTS
  s1 = s1
  s2 = s2
  s3 = s3
  Slots = {s1, s2, s3}
  NoSocket = NoSocket
  MaxAttempts = 3
  MaxLost = 2
SPECIFICATION FairSpec
PROPERTY
  NoReconnectAfterOwnClose
