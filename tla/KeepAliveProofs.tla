-------------------------- MODULE KeepAliveProofs ---------------------------
(***************************************************************************)
(* For all time limits: a dead peer is noticed within pongWait, and a         *)
(* prompt peer that also sends data in time is never dropped.  The argument:  *)
(* since only a live peer makes a Read return, the Read that is waiting when  *)
(* the peer dies waits at least as long as the peer is dead; and with a       *)
(* talkative peer a Read never waits longer than the peer has been silent.    *)
(***************************************************************************)
EXTENDS KeepAlive, TLAPS

ReadIsOlder == deadFor <= reading /\ (alive => deadFor = 0)

\* Every clock stays within the limit it is compared with, and a Ping has waited
\* as long as its tick is old, whatever the limits are (client.go:50-61, 104-112).
THEOREM TypesKept == Spec => []TypeOK
<1>1. Init => TypeOK
  <2>1. Init => Flags
    BY Zenon DEF Init, Flags
  <2>2. Init => Clocks
    BY KeepAliveAssumption DEF Init, Clocks
  <2>3. QED
    BY <2>1, <2>2 DEF TypeOK
<1>2. Flags /\ [Next]_vars => Flags'
  BY Zenon DEF Flags, Next, Second, PeerDies, Read, ReadTimeout, Ping, Pong,
               PingTimeout, Drop, Dropped, vars
<1>3. Clocks /\ [Next]_vars => Clocks'
  <2> SUFFICES ASSUME Clocks, [Next]_vars PROVE Clocks'
    OBVIOUS
  <2> USE KeepAliveAssumption DEF Clocks
  <2>1. CASE Second
    BY <2>1 DEF Second
  <2>2. CASE PeerDies
    BY <2>2 DEF PeerDies
  <2>3. CASE Read
    BY <2>3 DEF Read
  <2>4. CASE ReadTimeout
    BY <2>4 DEF ReadTimeout, Drop
  <2>5. CASE Ping
    BY <2>5 DEF Ping
  <2>6. CASE Pong
    BY <2>6 DEF Pong
  <2>7. CASE PingTimeout
    BY <2>7 DEF PingTimeout, Drop
  <2>8. CASE UNCHANGED vars
    BY <2>8 DEF vars
  <2>9. QED
    BY <2>1, <2>2, <2>3, <2>4, <2>5, <2>6, <2>7, <2>8 DEF Next, Dropped
<1>4. QED
  BY <1>1, <1>2, <1>3, PTL DEF Spec, TypeOK

\* A dead peer is noticed within pongWait, for all time limits
\* (client.go:50-61).
THEOREM DeadIsDroppedHolds == Spec => []DeadIsDropped
<1>1. Init => ReadIsOlder
  BY DEF Init, ReadIsOlder
<1>2. TypeOK /\ ReadIsOlder /\ [Next]_vars => ReadIsOlder'
  <2> SUFFICES ASSUME TypeOK, ReadIsOlder, [Next]_vars PROVE ReadIsOlder'
    OBVIOUS
  <2> USE KeepAliveAssumption DEF TypeOK, Flags, Clocks, ReadIsOlder
  <2>1. CASE Second
    BY <2>1 DEF Second
  <2>2. CASE PeerDies
    BY <2>2 DEF PeerDies
  <2>3. CASE Read
    BY <2>3 DEF Read
  <2>4. CASE ReadTimeout \/ PingTimeout
    BY <2>4 DEF ReadTimeout, PingTimeout, Drop
  <2>5. CASE Ping \/ Pong
    BY <2>5 DEF Ping, Pong
  <2>6. CASE UNCHANGED vars
    BY <2>6 DEF vars
  <2>7. QED
    BY <2>1, <2>2, <2>3, <2>4, <2>5, <2>6 DEF Next, Dropped
<1>3. TypeOK /\ ReadIsOlder => DeadIsDropped
  BY KeepAliveAssumption DEF TypeOK, Flags, Clocks, ReadIsOlder, DeadIsDropped
<1>4. QED
  BY <1>1, <1>2, <1>3, TypesKept, PTL DEF Spec

\* While a talkative peer lives, neither a Read nor a Ping meets its deadline.
InTime ==
  alive => /\ kept /\ reading = silent
           /\ silent < pongWait
           /\ pinging => waited < writeWait

\* A prompt peer that sends data at least once per pongWait keeps its
\* connection, for all time limits (client.go:50-61, 104-112).
THEOREM PromptIsKeptHolds ==
  ASSUME Talkative
  PROVE  Spec => []PromptIsKept
<1>1. Init => InTime
  <2> SUFFICES ASSUME Init PROVE InTime
    OBVIOUS
  <2>1. kept
    BY Zenon DEF Init
  <2>2. reading = silent /\ silent < pongWait /\ (pinging => waited < writeWait)
    BY KeepAliveAssumption DEF Init
  <2>3. QED
    BY <2>1, <2>2 DEF InTime
<1>2. TypeOK /\ InTime /\ [Next]_vars => InTime'
  <2> SUFFICES ASSUME TypeOK, InTime, [Next]_vars PROVE InTime'
    OBVIOUS
  <2> USE KeepAliveAssumption DEF TypeOK, Flags, Clocks, InTime
  <2>1. CASE Second
    BY <2>1, Talkative DEF Second, OnTime
  <2>2. CASE PeerDies
    BY <2>2 DEF PeerDies
  <2>3. CASE Read
    BY <2>3 DEF Read
  <2>4. CASE ReadTimeout
    BY <2>4 DEF ReadTimeout, Drop
  <2>5. CASE PingTimeout
    BY <2>5 DEF PingTimeout, Drop
  <2>6. CASE Ping \/ Pong
    <3>1. /\ UNCHANGED <<kept, alive, reading, silent>>
          /\ waited' = 0
      BY <2>6 DEF Ping, Pong
    <3>2. QED
      BY <3>1
  <2>7. CASE UNCHANGED vars
    BY <2>7 DEF vars
  <2>8. QED
    BY <2>1, <2>2, <2>3, <2>4, <2>5, <2>6, <2>7 DEF Next, Dropped
<1>3. InTime => PromptIsKept
  BY DEF InTime, PromptIsKept
<1>4. QED
  BY <1>1, <1>2, <1>3, TypesKept, PTL DEF Spec
=============================================================================
