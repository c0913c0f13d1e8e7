----------------------------- MODULE HubProofs ------------------------------
(***************************************************************************)
(* Proofs about Hub.tla, for every number of clients and every capacity.    *)
(***************************************************************************)
EXTENDS Hub, TLAPS, SequenceTheorems

LEMMA MessageFacts ==
  /\ Message \subseteq Sendable /\ Snapshot \in Sendable
  /\ Sendable \subseteq Item /\ Nil \in Item
  /\ Nil \notin Message
  BY DEF Message, Sendable, Item, Snapshot, Nil

LEMMA LoopFacts ==
  /\ Loop \in Broadcaster /\ Subscriber \subseteq Broadcaster
  /\ Loop \notin Subscriber
  BY HubAssumption DEF Broadcaster

LEMMA QueueFacts ==
  ASSUME NEW S, NEW q \in Seq(S)
  PROVE  /\ \A x \in S : /\ Append(q, x) \in Seq(S)
                         /\ Len(Append(q, x)) = Len(q) + 1
         /\ q # <<>> => /\ Head(q) \in S /\ Tail(q) \in Seq(S)
                        /\ Len(q) > 0 /\ Len(Tail(q)) = Len(q) - 1
         /\ Len(q) \in Nat
  OBVIOUS

LEMMA InitTyped == Init => TypeOK
  <1> SUFFICES ASSUME Init PROVE TypeOK
    OBVIOUS
  <1> USE HubAssumption, MessageFacts DEF Init
  <1>1. LoopTypes
    BY DEF LoopTypes
  <1>2. MemberTypes
    BY DEF MemberTypes
  <1>3. FeedTypes
    BY DEF FeedTypes
  <1>4. FanTypes
    BY DEF FanTypes
  <1>5. WriterTypes
    BY DEF WriterTypes
  <1>6. ClientTypes
    BY DEF ClientTypes
  <1> QED
    BY <1>1, <1>2, <1>3, <1>4, <1>5, <1>6 DEF TypeOK

\* Every step keeps the variables in their types; the groups a step leaves
\* alone follow from its UNCHANGED.
LEMMA StepTyped == TypeOK /\ [Next]_vars => TypeOK'
  <1> SUFFICES ASSUME TypeOK, [Next]_vars PROVE TypeOK'
    OBVIOUS
  <1> USE DEF loopVars, memberVars, feedVars, fanVars, writerVars, pumpVars
  <1>1. ASSUME NEW c \in Client, Accept(c) PROVE TypeOK'
    <2>1. ClientTypes'
      BY <1>1 DEF Accept, TypeOK, ClientTypes
    <2> QED
      BY <1>1, <2>1
      DEF Accept, TypeOK, LoopTypes, MemberTypes, FeedTypes, FanTypes, WriterTypes
  <1>2. ASSUME NEW c \in Client, HubRegister(c) PROVE TypeOK'
    <2>1. LoopTypes'
      BY <1>2 DEF HubRegister, TypeOK, LoopTypes, ClientTypes
    <2>2. ClientTypes'
      BY <1>2 DEF HubRegister, TypeOK, LoopTypes, ClientTypes
    <2> QED
      BY <1>2, <2>1, <2>2
      DEF HubRegister, TypeOK, MemberTypes, FeedTypes, FanTypes, WriterTypes
  <1>3. ASSUME NEW c \in Client, StartPumps(c) PROVE TypeOK'
    <2>1. WriterTypes'
      BY <1>3 DEF StartPumps, TypeOK, WriterTypes, ClientTypes
    <2>2. ClientTypes'
      BY <1>3 DEF StartPumps, TypeOK, WriterTypes, ClientTypes
    <2> QED
      BY <1>3, <2>1, <2>2
      DEF StartPumps, TypeOK, LoopTypes, MemberTypes, FeedTypes, FanTypes
  <1>4. ASSUME NEW c \in Client, HubUnregister(c) PROVE TypeOK'
    <2>1. LoopTypes'
      BY <1>4 DEF HubUnregister, TypeOK, LoopTypes, FanTypes, WriterTypes, ClientTypes
    <2>2. FanTypes'
      <3>1. unregs' \in [Client -> Nat]
        BY <1>4 DEF HubUnregister, TypeOK, FanTypes
      <3> QED
        BY <1>4, <3>1 DEF HubUnregister, TypeOK, FanTypes
    <2>3. WriterTypes'
      BY <1>4 DEF HubUnregister, TypeOK, LoopTypes, FanTypes, WriterTypes, ClientTypes
    <2>4. ClientTypes'
      <3>1. cancelled' \subseteq Client
        BY <1>4 DEF HubUnregister, TypeOK, ClientTypes
      <3>2. reader' \in [Client -> {"off", "reading", "unregister", "cleanup", "done"}]
        BY <1>4 DEF HubUnregister, TypeOK, ClientTypes
      <3> QED
        BY <1>4, <3>1, <3>2 DEF HubUnregister, TypeOK, ClientTypes
    <2> QED
      BY <1>4, <2>1, <2>2, <2>3, <2>4
      DEF HubUnregister, TypeOK, MemberTypes, FeedTypes
  <1>5. ASSUME NEW c \in Client, InitialCheck(c) PROVE TypeOK'
    <2>1. ClientTypes'
      BY <1>5 DEF InitialCheck, TypeOK, ClientTypes
    <2> QED
      BY <1>5, <2>1
      DEF InitialCheck, TypeOK, LoopTypes, MemberTypes, FeedTypes, FanTypes, WriterTypes
  <1>6. ASSUME NEW c \in Client, InitialSend(c) PROVE TypeOK'
    <2>1. ClientTypes'
      <3>1. send' \in [Client -> Seq(Sendable)]
        <4>1. Append(send[c], Snapshot) \in Seq(Sendable)
          BY MessageFacts, QueueFacts DEF TypeOK, ClientTypes
        <4> QED
          BY <1>6, <4>1 DEF InitialSend, TypeOK, ClientTypes
      <3>2. initial' \in [Client -> {"none", "started", "locked", "done"}]
        BY <1>6 DEF InitialSend, TypeOK, ClientTypes
      <3> QED
        BY <1>6, <3>1, <3>2 DEF InitialSend, TypeOK, ClientTypes
    <2> QED
      BY <1>6, <2>1
      DEF InitialSend, TypeOK, LoopTypes, MemberTypes, FeedTypes, FanTypes, WriterTypes
  <1>7. ASSUME NEW c \in Client, WriterTake(c) PROVE TypeOK'
    <2>1. WriterTypes'
      <3>1. <<Head(send[c])>> \in Seq(Item)
        BY <1>7, MessageFacts, QueueFacts DEF WriterTake, TypeOK, ClientTypes
      <3> QED
        BY <1>7, <3>1 DEF WriterTake, TypeOK, WriterTypes
    <2>2. ClientTypes'
      BY <1>7 DEF WriterTake, TypeOK, WriterTypes, ClientTypes
    <2> QED
      BY <1>7, <2>1, <2>2
      DEF WriterTake, TypeOK, LoopTypes, MemberTypes, FeedTypes, FanTypes
  <1>8. ASSUME NEW c \in Client, WriteOk(c) PROVE TypeOK'
    <2>1. WriterTypes'
      BY <1>8 DEF WriteOk, TypeOK, WriterTypes
    <2> QED
      BY <1>8, <2>1
      DEF WriteOk, TypeOK, LoopTypes, MemberTypes, FeedTypes, FanTypes, ClientTypes
  <1>9. ASSUME NEW c \in Client, WriterDrain(c) PROVE TypeOK'
    <2>1. WriterTypes'
      <3>1. \A q \in Seq(Sendable) : q # <<>> => <<Head(q)>> \in Seq(Item)
        BY <1>9, MessageFacts, QueueFacts DEF WriterDrain, TypeOK, ClientTypes
      <3>2. <<Nil>> \in Seq(Item)
        BY <1>9, MessageFacts DEF WriterDrain, TypeOK, ClientTypes
      <3>3. inHand' \in [Client -> Seq(Item)]
        <4>1. send[c] # <<>> => <<Head(send[c])>> \in Seq(Item)
          BY <3>1 DEF TypeOK, ClientTypes
        <4> QED
          BY <1>9, <3>2, <4>1 DEF WriterDrain, TypeOK, WriterTypes
      <3>4. left' \in [Client -> Int]
        BY <1>9 DEF WriterDrain, TypeOK, WriterTypes
      <3> QED
        BY <1>9, <3>1, <3>2, <3>3, <3>4 DEF WriterDrain, TypeOK, WriterTypes
    <2>2. ClientTypes'
      <3>1. send' \in [Client -> Seq(Sendable)]
        <4>1. send[c] # <<>> => Tail(send[c]) \in Seq(Sendable)
          BY QueueFacts DEF TypeOK, ClientTypes
        <4> QED
          BY <1>9, <4>1 DEF WriterDrain, TypeOK, ClientTypes
      <3> QED
        BY <1>9, <3>1 DEF WriterDrain, TypeOK, ClientTypes
    <2> QED
      BY <1>9, <2>1, <2>2
      DEF WriterDrain, TypeOK, LoopTypes, MemberTypes, FeedTypes, FanTypes
  <1>10. ASSUME NEW c \in Client, WriterExit(c) PROVE TypeOK'
    <2>1. WriterTypes'
      BY <1>10 DEF WriterExit, TypeOK, WriterTypes, ClientTypes
    <2>2. ClientTypes'
      BY <1>10 DEF WriterExit, TypeOK, WriterTypes, ClientTypes
    <2> QED
      BY <1>10, <2>1, <2>2
      DEF WriterExit, TypeOK, LoopTypes, MemberTypes, FeedTypes, FanTypes
  <1>11. ASSUME NEW c \in Client, ReadFail(c) PROVE TypeOK'
    <2>1. ClientTypes'
      BY <1>11 DEF ReadFail, TypeOK, ClientTypes
    <2> QED
      BY <1>11, <2>1
      DEF ReadFail, TypeOK, LoopTypes, MemberTypes, FeedTypes, FanTypes, WriterTypes
  <1>12. ASSUME NEW c \in Client, ReaderCleanup(c) PROVE TypeOK'
    <2>1. ClientTypes'
      BY <1>12 DEF ReaderCleanup, TypeOK, ClientTypes
    <2> QED
      BY <1>12, <2>1
      DEF ReaderCleanup, TypeOK, LoopTypes, MemberTypes, FeedTypes, FanTypes, WriterTypes
  <1>13. ASSUME NEW c \in Client, PeerClose(c) PROVE TypeOK'
    <2>1. ClientTypes'
      BY <1>13 DEF PeerClose, TypeOK, ClientTypes
    <2> QED
      BY <1>13, <2>1
      DEF PeerClose, TypeOK, LoopTypes, MemberTypes, FeedTypes, FanTypes, WriterTypes
  <1>14. CASE HubAddClient
    <2>1. LoopTypes'
      BY <1>14 DEF HubAddClient, TypeOK, LoopTypes, MemberTypes, ClientTypes
    <2>2. MemberTypes'
      <3>1. taken \in Int
        BY <1>14, QueueFacts DEF HubAddClient, TypeOK, FeedTypes, taken
      <3>2. joinedAt' \in [Client -> Int]
        BY <1>14, <3>1 DEF HubAddClient, TypeOK, MemberTypes
      <3> QED
        BY <1>14, <3>1, <3>2 DEF HubAddClient, TypeOK, MemberTypes, LoopTypes
    <2>3. ClientTypes'
      BY <1>14 DEF HubAddClient, TypeOK, LoopTypes, MemberTypes, ClientTypes
    <2> QED
      BY <1>14, <2>1, <2>2, <2>3
      DEF HubAddClient, TypeOK, FeedTypes, FanTypes, WriterTypes
  <1>15. CASE HubRemoveClient
    <2>1. LoopTypes'
      BY <1>15 DEF HubRemoveClient, TypeOK, LoopTypes, MemberTypes, FanTypes
    <2>2. MemberTypes'
      BY <1>15 DEF HubRemoveClient, TypeOK, LoopTypes, MemberTypes, FanTypes
    <2>3. FanTypes'
      <3>1. crashed' \in BOOLEAN
        <4>1. CASE hubClient \in clients
          <5>1. crashed' = (hubClient \in closed)
            BY <1>15, <4>1 DEF HubRemoveClient
          <5>2. (hubClient \in closed) \in BOOLEAN
            OBVIOUS
          <5> QED
            BY <5>1, <5>2
        <4>2. CASE hubClient \notin clients
          BY <1>15, <4>2 DEF HubRemoveClient, TypeOK, FanTypes
        <4> QED
          BY <4>1, <4>2
      <3> QED
        BY <1>15, <3>1 DEF HubRemoveClient, TypeOK, FanTypes
    <2> QED
      BY <1>15, <2>1, <2>2, <2>3
      DEF HubRemoveClient, TypeOK, FeedTypes, WriterTypes, ClientTypes
  <1>16. CASE HubTakeBroadcast
    <2>1. LoopTypes'
      BY <1>16 DEF HubTakeBroadcast, TypeOK, LoopTypes, FeedTypes, FanTypes
    <2>2. FeedTypes'
      BY <1>16 DEF HubTakeBroadcast, TypeOK, LoopTypes, FeedTypes, FanTypes
    <2>3. FanTypes'
      <3>1. Head(broadcast) \in Message
        BY <1>16, QueueFacts DEF HubTakeBroadcast, TypeOK, FeedTypes
      <3>2. cur' \in [Broadcaster -> Message \cup {Nil}]
        BY <1>16, <3>1, LoopFacts DEF HubTakeBroadcast, TypeOK, FanTypes
      <3>3. todo' \in [Broadcaster -> SUBSET Client]
        BY <1>16, LoopFacts DEF HubTakeBroadcast, TypeOK, FanTypes, MemberTypes
      <3>4. \A b \in Broadcaster : todo'[b] # {} => cur'[b] \in Message
        BY <1>16, <3>1, LoopFacts DEF HubTakeBroadcast, TypeOK, FanTypes
      <3> QED
        BY <1>16, <3>1, <3>2, <3>3, <3>4 DEF HubTakeBroadcast, TypeOK, FanTypes
    <2> QED
      BY <1>16, <2>1, <2>2, <2>3
      DEF HubTakeBroadcast, TypeOK, MemberTypes, WriterTypes, ClientTypes
  <1>17. CASE HubStop
    <2>1. LoopTypes'
      BY <1>17 DEF HubStop, TypeOK, LoopTypes
    <2> QED
      BY <1>17, <2>1
      DEF HubStop, TypeOK, MemberTypes, FeedTypes, FanTypes, WriterTypes, ClientTypes
  <1>18. ASSUME NEW b \in Broadcaster, NEW c \in Client, BroadcastSend(b, c) PROVE TypeOK'
    <2>1. LoopTypes'
      BY <1>18 DEF BroadcastSend, TypeOK, LoopTypes, FanTypes, ClientTypes
    <2>2. FanTypes'
      <3>1. todo' \in [Broadcaster -> SUBSET Client]
        BY <1>18 DEF BroadcastSend, TypeOK, FanTypes
      <3>2. \A d \in Broadcaster : todo'[d] # {} => cur'[d] \in Message
        BY <1>18 DEF BroadcastSend, TypeOK, FanTypes
      <3>3. unregs' \in [Client -> Nat] /\ dropped' \subseteq Client
        BY <1>18 DEF BroadcastSend, TypeOK, FanTypes
      <3> QED
        BY <1>18, <3>1, <3>2, <3>3 DEF BroadcastSend, TypeOK, FanTypes
    <2>3. ClientTypes'
      <3>1. cur[b] \in Sendable
        BY <1>18, MessageFacts DEF BroadcastSend, TypeOK, FanTypes
      <3>2. send' \in [Client -> Seq(Sendable)]
        <4>1. Append(send[c], cur[b]) \in Seq(Sendable)
          BY <3>1, QueueFacts DEF TypeOK, ClientTypes
        <4> QED
          BY <1>18, <4>1 DEF BroadcastSend, TypeOK, ClientTypes
      <3> QED
        BY <1>18, <3>1, <3>2 DEF BroadcastSend, TypeOK, ClientTypes
    <2> QED
      BY <1>18, <2>1, <2>2, <2>3
      DEF BroadcastSend, TypeOK, MemberTypes, FeedTypes, WriterTypes
  <1>19. CASE Enqueue
    <2>1. FeedTypes'
      <3>1. issued' \in 0 .. MaxBroadcasts /\ issued' \in Message
        BY <1>19, HubAssumption DEF Enqueue, TypeOK, FeedTypes, Message
      <3>2. broadcast' \in Seq(Message)
        BY <1>19, <3>1, QueueFacts DEF Enqueue, TypeOK, FeedTypes
      <3>3. unpublished' \subseteq Message
        BY <1>19, <3>1 DEF Enqueue, TypeOK, FeedTypes
      <3> QED
        BY <1>19, <3>1, <3>2, <3>3 DEF Enqueue, TypeOK, FeedTypes
    <2> QED
      BY <1>19, <2>1
      DEF Enqueue, TypeOK, LoopTypes, MemberTypes, FanTypes, WriterTypes, ClientTypes
  <1>20. ASSUME NEW m \in Message, Publish(m) PROVE TypeOK'
    <2>1. FeedTypes'
      <3>1. pubsub' \in [Subscriber -> Seq(Message)]
        <4>1. \A s \in Subscriber : Append(pubsub[s], m) \in Seq(Message)
          BY QueueFacts DEF TypeOK, FeedTypes
        <4> QED
          BY <1>20, <4>1 DEF Publish, TypeOK, FeedTypes
      <3>2. unpublished' \subseteq Message
        BY <1>20 DEF Publish, TypeOK, FeedTypes
      <3> QED
        BY <1>20, <3>1, <3>2 DEF Publish, TypeOK, FeedTypes
    <2> QED
      BY <1>20, <2>1
      DEF Publish, TypeOK, LoopTypes, MemberTypes, FanTypes, WriterTypes, ClientTypes
  <1>21. ASSUME NEW s \in Subscriber, SubscriberReceive(s) PROVE TypeOK'
    <2>1. FeedTypes'
      BY <1>21 DEF SubscriberReceive, TypeOK, FeedTypes, FanTypes
    <2>2. FanTypes'
      <3>1. Head(pubsub[s]) \in Message
        BY <1>21, QueueFacts DEF SubscriberReceive, TypeOK, FeedTypes
      <3>2. cur' \in [Broadcaster -> Message \cup {Nil}]
        BY <1>21, <3>1, LoopFacts DEF SubscriberReceive, TypeOK, FanTypes
      <3>3. todo' \in [Broadcaster -> SUBSET Client]
        BY <1>21, LoopFacts DEF SubscriberReceive, TypeOK, FanTypes, MemberTypes
      <3>4. \A b \in Broadcaster : todo'[b] # {} => cur'[b] \in Message
        BY <1>21, <3>1, LoopFacts DEF SubscriberReceive, TypeOK, FanTypes
      <3> QED
        BY <1>21, <3>1, <3>2, <3>3, <3>4 DEF SubscriberReceive, TypeOK, FanTypes
    <2> QED
      BY <1>21, <2>1, <2>2
      DEF SubscriberReceive, TypeOK, LoopTypes, MemberTypes, WriterTypes, ClientTypes
  <1>22. CASE UNCHANGED vars
    BY <1>22 DEF vars, TypeOK, LoopTypes, MemberTypes, FeedTypes, FanTypes, WriterTypes, ClientTypes
  <1> QED
    BY <1>1, <1>2, <1>3, <1>4, <1>5, <1>6, <1>7, <1>8, <1>9, <1>10, <1>11, <1>12, <1>13, <1>14, <1>15, <1>16, <1>17, <1>18, <1>19, <1>20, <1>21, <1>22
    DEF Next, ClientStep, WriterStep, WriteFail, WriterClosed,
        WriterCancelled, PingFail, LoopStep, FanStep, RedisStep, Terminated

\* The type invariant, for every instance.
THEOREM Typed == Spec => []TypeOK
  BY InitTyped, StepTyped, PTL DEF Spec

-----------------------------------------------------------------------------
(***************************************************************************)
(* The inductive invariant on membership.  What is claimed of the members   *)
(* (NoZombie, DropAsksForRemoval, InitialSendSafe) depends on a client being *)
(* registered once, before its pumps exist, and removed once, by the loop    *)
(* that also owns the only snapshot whose clients are all still members.     *)
(***************************************************************************)
MembersOpen == clients \cap closed = {}

LoopSnapshot ==
  todo[Loop] # {} => hubPc = "broadcasting" /\ todo[Loop] \subseteq clients

SnapshotsJoined ==
  /\ \A b \in Broadcaster : todo[b] \subseteq clients \cup closed
  /\ dropped \subseteq clients \cup closed

Pending(c) == hubPc = "register" /\ hubClient = c

RegisterFirst ==
  \A c \in Client :
    /\ handler[c] \in {"none", "registering"} =>
         ~Pending(c) /\ c \notin clients \cup closed
    /\ handler[c] # "serving" => writer[c] = "off" /\ reader[c] = "off"
    /\ Pending(c) => /\ c \notin clients \cup closed
                     /\ writer[c] # "done"
                     /\ reader[c] \notin {"cleanup", "done"}

Membership ==
  /\ MembersOpen /\ LoopSnapshot /\ SnapshotsJoined /\ RegisterFirst
  /\ NoZombie /\ DropAsksForRemoval /\ InitialSendSafe

LEMMA InitMembership == Init => Membership
  BY HubAssumption, LoopFacts
  DEF Init, Membership, MembersOpen, LoopSnapshot, SnapshotsJoined,
      RegisterFirst, NoZombie, DropAsksForRemoval, InitialSendSafe, Pending

\* What the proof needs of TypeOK: which variables are functions, of what.
LEMMA Shapes ==
  ASSUME TypeOK
  PROVE  /\ handler = [c \in Client |-> handler[c]]
         /\ writer = [c \in Client |-> writer[c]]
         /\ reader = [c \in Client |-> reader[c]]
         /\ initial = [c \in Client |-> initial[c]]
         /\ todo \in [Broadcaster -> SUBSET Client]
         /\ unregs \in [Client -> Nat]
         /\ clients \subseteq Client
         /\ hubPc \in {"register", "unregister"} => hubClient \in Client
  BY DEF TypeOK, LoopTypes, MemberTypes, FanTypes, WriterTypes, ClientTypes

\* A step that only moves pumps of served clients, and ends none of them, keeps
\* the invariant.
LEMMA PumpsMove ==
  ASSUME Membership,
         UNCHANGED <<hubPc, hubClient, clients, closed, todo, unregs, dropped,
                     initial, handler>>,
         \A c \in Client :
           /\ writer'[c] = "done" => writer[c] = "done"
           /\ reader'[c] \in {"cleanup", "done"} =>
                reader[c] \in {"cleanup", "done"}
           /\ handler[c] # "serving" => writer'[c] = "off" /\ reader'[c] = "off"
  PROVE  Membership'
  <1>1. MembersOpen' /\ LoopSnapshot' /\ SnapshotsJoined'
    BY DEF Membership, MembersOpen, LoopSnapshot, SnapshotsJoined
  <1>2. RegisterFirst'
    BY DEF Membership, RegisterFirst, Pending
  <1>3. NoZombie'
    BY DEF Membership, NoZombie
  <1>4. DropAsksForRemoval' /\ InitialSendSafe'
    BY DEF Membership, DropAsksForRemoval, InitialSendSafe
  <1> QED
    BY <1>1, <1>2, <1>3, <1>4 DEF Membership

\* A step that leaves everything the invariant speaks of alone keeps it.
LEMMA NothingMoves ==
  ASSUME TypeOK, Membership,
         UNCHANGED <<hubPc, hubClient, clients, closed, todo, unregs, dropped,
                     initial, handler, writer, reader>>
  PROVE  Membership'
  BY PumpsMove DEF Membership, RegisterFirst

\* A step of WritePump, which runs only once its client is served.
LEMMA WriterMoves ==
  ASSUME TypeOK, Membership, NEW c \in Client,
         NEW to \in {"select", "writeFirst", "writeNext", "drain", "unregister"},
         writer[c] # "off", writer' = [writer EXCEPT ![c] = to],
         UNCHANGED <<hubPc, hubClient, clients, closed, todo, unregs, dropped,
                     initial, handler, reader>>
  PROVE  Membership'
  <1>1. \A d \in Client : writer'[d] = IF d = c THEN to ELSE writer[d]
    BY Shapes
  <1>2. \A d \in Client :
          handler[d] # "serving" => writer[d] = "off" /\ reader[d] = "off"
    BY DEF Membership, RegisterFirst
  <1> QED
    BY <1>1, <1>2, PumpsMove

\* A step of ReadPump, likewise.
LEMMA ReaderMoves ==
  ASSUME TypeOK, Membership, NEW c \in Client, NEW to \in {"unregister", "done"},
         reader[c] # "off", to = "done" => reader[c] = "cleanup",
         reader' = [reader EXCEPT ![c] = to],
         UNCHANGED <<hubPc, hubClient, clients, closed, todo, unregs, dropped,
                     initial, handler, writer>>
  PROVE  Membership'
  <1>1. \A d \in Client : reader'[d] = IF d = c THEN to ELSE reader[d]
    BY Shapes
  <1>2. \A d \in Client :
          handler[d] # "serving" => writer[d] = "off" /\ reader[d] = "off"
    BY DEF Membership, RegisterFirst
  <1> QED
    BY <1>1, <1>2, PumpsMove

\* Every step keeps the inductive invariant.
LEMMA StepMembership ==
  TypeOK /\ Membership /\ [Next]_vars => Membership'
  <1> SUFFICES ASSUME TypeOK, Membership, [Next]_vars PROVE Membership'
    OBVIOUS
  <1> USE DEF loopVars, memberVars, feedVars, fanVars, writerVars, pumpVars
  <1>1. ASSUME NEW c \in Client, Accept(c) PROVE Membership'
    <2>1. \A d \in Client :
            handler'[d] = IF d = c THEN "registering" ELSE handler[d]
      BY <1>1, Shapes DEF Accept
    <2>2. RegisterFirst'
      BY <1>1, <2>1 DEF Accept, Membership, RegisterFirst, Pending
    <2> QED
      BY <1>1, <2>2
      DEF Accept, Membership, MembersOpen, LoopSnapshot, SnapshotsJoined,
          NoZombie, DropAsksForRemoval, InitialSendSafe
  <1>2. ASSUME NEW c \in Client, HubRegister(c) PROVE Membership'
    <2>1. \A d \in Client :
            handler'[d] = IF d = c THEN "registered" ELSE handler[d]
      BY <1>2, Shapes DEF HubRegister
    <2>2. RegisterFirst'
      BY <1>2, <2>1 DEF HubRegister, Membership, RegisterFirst, Pending
    <2>3. LoopSnapshot'
      BY <1>2 DEF HubRegister, Membership, LoopSnapshot
    <2>4. NoZombie' /\ DropAsksForRemoval'
      BY <1>2 DEF HubRegister, Membership, NoZombie, DropAsksForRemoval
    <2> QED
      BY <1>2, <2>2, <2>3, <2>4
      DEF HubRegister, Membership, MembersOpen, SnapshotsJoined, InitialSendSafe
  <1>3. ASSUME NEW c \in Client, StartPumps(c) PROVE Membership'
    <2>1. \A d \in Client :
            /\ handler'[d] = IF d = c THEN "serving" ELSE handler[d]
            /\ writer'[d] = IF d = c THEN "select" ELSE writer[d]
            /\ reader'[d] = IF d = c THEN "reading" ELSE reader[d]
      BY <1>3, Shapes DEF StartPumps
    <2>2. RegisterFirst'
      BY <1>3, <2>1 DEF StartPumps, Membership, RegisterFirst, Pending
    <2>3. NoZombie'
      BY <1>3, <2>1 DEF StartPumps, Membership, NoZombie
    <2> QED
      BY <1>3, <2>2, <2>3
      DEF StartPumps, Membership, MembersOpen, LoopSnapshot, SnapshotsJoined,
          DropAsksForRemoval, InitialSendSafe
  <1>4. ASSUME NEW c \in Client, HubUnregister(c) PROVE Membership'
    <2>1. /\ hubPc = "select" /\ hubPc' = "unregister" /\ hubClient' = c
          /\ UNCHANGED <<clients, closed, todo, dropped, initial, handler>>
      BY <1>4 DEF HubUnregister
    <2>2. \A d \in Client \ {c} :
            /\ writer'[d] = writer[d] /\ reader'[d] = reader[d]
            /\ unregs'[d] = unregs[d]
      BY <1>4, Shapes DEF HubUnregister
    <2>3. handler[c] # "serving" => writer'[c] = "off" /\ reader'[c] = "off"
      BY <1>4, Shapes DEF HubUnregister, Membership, RegisterFirst
    <2>4. RegisterFirst'
      BY <2>1, <2>2, <2>3 DEF Membership, RegisterFirst, Pending
    <2>5. NoZombie'
      BY <2>1, <2>2 DEF Membership, NoZombie
    <2>6. DropAsksForRemoval'
      BY <2>1, <2>2, Shapes DEF Membership, DropAsksForRemoval
    <2> QED
      BY <2>1, <2>4, <2>5, <2>6
      DEF Membership, MembersOpen, LoopSnapshot, SnapshotsJoined, InitialSendSafe
  <1>5. ASSUME NEW c \in Client, InitialCheck(c) \/ InitialSend(c)
        PROVE  Membership'
    <2>1. \A d \in Client :
            initial'[d] = "locked" => initial[d] = "locked" \/ d \in clients
      BY <1>5, Shapes DEF InitialCheck, InitialSend
    <2>2. UNCHANGED <<hubPc, hubClient, clients, closed, todo, unregs, dropped,
                      handler, writer, reader>>
      BY <1>5 DEF InitialCheck, InitialSend
    <2>3. InitialSendSafe'
      BY <2>1, <2>2 DEF Membership, MembersOpen, InitialSendSafe
    <2> QED
      BY <2>2, <2>3
      DEF Membership, MembersOpen, LoopSnapshot, SnapshotsJoined, RegisterFirst,
          Pending, NoZombie, DropAsksForRemoval
  <1>6. ASSUME NEW c \in Client, WriterTake(c) PROVE Membership'
    BY <1>6, WriterMoves DEF WriterTake
  <1>7. ASSUME NEW c \in Client, WriteOk(c) PROVE Membership'
    <2>1. \E to \in {"select", "drain"} : writer' = [writer EXCEPT ![c] = to]
      BY <1>7 DEF WriteOk
    <2> QED
      BY <1>7, <2>1, WriterMoves DEF WriteOk, Writing
  <1>8. ASSUME NEW c \in Client, WriterDrain(c) PROVE Membership'
    BY <1>8, WriterMoves DEF WriterDrain
  <1>9. ASSUME NEW c \in Client, WriterExit(c),
               writer[c] \in {"select", "writeFirst", "writeNext"}
        PROVE  Membership'
    BY <1>9, WriterMoves DEF WriterExit
  <1>10. ASSUME NEW c \in Client, ReadFail(c) PROVE Membership'
    BY <1>10, ReaderMoves DEF ReadFail
  <1>11. ASSUME NEW c \in Client, ReaderCleanup(c) PROVE Membership'
    BY <1>11, ReaderMoves DEF ReaderCleanup
  <1>12. CASE HubAddClient
    <2>1. hubPc = "register" /\ hubClient \in Client /\ Pending(hubClient)
      BY <1>12, Shapes DEF HubAddClient, Pending
    <2>2. /\ clients' = clients \cup {hubClient} /\ hubPc' = "select"
          /\ UNCHANGED <<closed, todo, unregs, dropped, handler, writer, reader>>
      BY <1>12 DEF HubAddClient
    <2>3. /\ hubClient \notin clients \cup closed
          /\ handler[hubClient] \notin {"none", "registering"}
          /\ writer[hubClient] # "done"
          /\ reader[hubClient] \notin {"cleanup", "done"}
      BY <2>1 DEF Membership, RegisterFirst
    <2>4. MembersOpen' /\ LoopSnapshot' /\ SnapshotsJoined'
      BY <2>1, <2>2, <2>3
      DEF Membership, MembersOpen, LoopSnapshot, SnapshotsJoined
    <2>5. RegisterFirst' /\ NoZombie'
      BY <2>1, <2>2, <2>3 DEF Membership, RegisterFirst, NoZombie, Pending
    <2>6. DropAsksForRemoval'
      BY <2>1, <2>2, <2>3 DEF Membership, SnapshotsJoined, DropAsksForRemoval
    <2>7. \A d \in Client : initial'[d] = "locked" => initial[d] = "locked"
      BY <1>12, Shapes DEF HubAddClient
    <2>8. InitialSendSafe'
      BY <2>2, <2>7 DEF Membership, InitialSendSafe
    <2> QED
      BY <2>4, <2>5, <2>6, <2>8 DEF Membership
  <1>13. CASE HubRemoveClient
    <2>1. /\ hubPc = "unregister" /\ hubPc' = "select" /\ NoReadLock
          /\ clients' = clients \ {hubClient}
          /\ closed' = IF hubClient \in clients
                         THEN closed \cup {hubClient} ELSE closed
          /\ UNCHANGED <<todo, unregs, dropped, initial, handler, writer,
                         reader>>
      BY <1>13 DEF HubRemoveClient
    <2>2. clients' \cup closed' = clients \cup closed
      BY <2>1
    <2>3. todo[Loop] = {}
      BY <2>1 DEF Membership, LoopSnapshot
    <2>4. MembersOpen' /\ LoopSnapshot' /\ SnapshotsJoined'
      BY <2>1, <2>2, <2>3
      DEF Membership, MembersOpen, LoopSnapshot, SnapshotsJoined
    <2>5. RegisterFirst' /\ NoZombie' /\ DropAsksForRemoval'
      BY <2>1, <2>2
      DEF Membership, RegisterFirst, NoZombie, DropAsksForRemoval, Pending
    <2>6. InitialSendSafe'
      BY <2>1 DEF NoReadLock, InitialSendSafe
    <2> QED
      BY <2>4, <2>5, <2>6 DEF Membership
  <1>14. CASE HubTakeBroadcast
    <2>1. /\ hubPc = "select" /\ hubPc' \in {"select", "broadcasting"}
          /\ clients # {} => hubPc' = "broadcasting"
          /\ todo' = [todo EXCEPT ![Loop] = clients]
          /\ UNCHANGED <<hubClient, clients, closed, unregs, dropped, initial,
                         handler, writer, reader>>
      BY <1>14 DEF HubTakeBroadcast
    <2>2. MembersOpen' /\ InitialSendSafe'
      BY <2>1 DEF Membership, MembersOpen, InitialSendSafe
    <2>3. LoopSnapshot' /\ SnapshotsJoined'
      BY <2>1, Shapes, LoopFacts DEF Membership, LoopSnapshot, SnapshotsJoined
    <2>4. RegisterFirst' /\ NoZombie' /\ DropAsksForRemoval'
      BY <2>1
      DEF Membership, RegisterFirst, NoZombie, DropAsksForRemoval, Pending
    <2> QED
      BY <2>2, <2>3, <2>4 DEF Membership
  <1>15. CASE HubStop
    BY <1>15
    DEF HubStop, Membership, MembersOpen, LoopSnapshot, SnapshotsJoined,
        RegisterFirst, NoZombie, DropAsksForRemoval, InitialSendSafe, Pending
  <1>16. ASSUME NEW b \in Broadcaster, NEW c \in Client, BroadcastSend(b, c)
         PROVE  Membership'
    <2>1. UNCHANGED <<clients, closed, hubClient, handler, writer, reader,
                      initial>>
      BY <1>16 DEF BroadcastSend
    <2>2. todo' = [todo EXCEPT ![b] = @ \ {c}] /\ c \in todo[b]
      BY <1>16 DEF BroadcastSend
    <2>3. \/ UNCHANGED <<unregs, dropped>>
          \/ /\ c \notin closed
             /\ unregs' = [unregs EXCEPT ![c] = @ + 1]
             /\ dropped' = dropped \cup {c}
      BY <1>16 DEF BroadcastSend
    <2>4. \A d \in Broadcaster : todo'[d] \subseteq todo[d]
      BY <2>2, Shapes
    <2>5. hubPc' # hubPc =>
            hubPc = "broadcasting" /\ hubPc' = "select" /\ todo'[Loop] = {}
      BY <1>16, Shapes, LoopFacts DEF BroadcastSend, Membership, LoopSnapshot
    <2>6. MembersOpen' /\ InitialSendSafe'
      BY <2>1 DEF Membership, MembersOpen, InitialSendSafe
    <2>7. LoopSnapshot' /\ SnapshotsJoined'
      BY <2>1, <2>2, <2>3, <2>4, <2>5, LoopFacts
      DEF Membership, LoopSnapshot, SnapshotsJoined
    <2>8. RegisterFirst' /\ NoZombie'
      BY <2>1, <2>5 DEF Membership, RegisterFirst, NoZombie, Pending
    <2>9. \A d \in Client : unregs[d] > 0 => unregs'[d] > 0
      BY <2>3, Shapes
    <2>10. dropped' # dropped => unregs'[c] > 0 /\ dropped' = dropped \cup {c}
      BY <2>3, Shapes
    <2>11. DropAsksForRemoval'
      BY <2>1, <2>5, <2>9, <2>10, Shapes DEF Membership, DropAsksForRemoval
    <2> QED
      BY <2>6, <2>7, <2>8, <2>11 DEF Membership
  <1>17. ASSUME NEW s \in Subscriber, SubscriberReceive(s) PROVE Membership'
    <2>1. /\ todo' = [todo EXCEPT ![s] = clients] /\ s # Loop
          /\ UNCHANGED <<hubPc, hubClient, clients, closed, unregs, dropped,
                         initial, handler, writer, reader>>
      BY <1>17, LoopFacts DEF SubscriberReceive
    <2>2. \A b \in Broadcaster :
            todo'[b] = IF b = s THEN clients ELSE todo[b]
      BY <2>1, Shapes, LoopFacts
    <2>3. LoopSnapshot' /\ SnapshotsJoined'
      BY <2>1, <2>2, LoopFacts DEF Membership, LoopSnapshot, SnapshotsJoined
    <2> QED
      BY <2>1, <2>3
      DEF Membership, MembersOpen, RegisterFirst, Pending, NoZombie,
          DropAsksForRemoval, InitialSendSafe
  <1>18. CASE \/ \E c \in Client : PeerClose(c)
              \/ Enqueue
              \/ \E m \in Message : Publish(m)
              \/ UNCHANGED vars
    BY <1>18, NothingMoves DEF PeerClose, Enqueue, Publish, vars
  <1> QED
    BY <1>1, <1>2, <1>3, <1>4, <1>5, <1>6, <1>7, <1>8, <1>9, <1>10, <1>11,
       <1>12, <1>13, <1>14, <1>15, <1>16, <1>17, <1>18
    DEF Next, ClientStep, Writing, WriterStep, WriteFail, WriterClosed,
        WriterCancelled, PingFail, LoopStep, FanStep, RedisStep, Terminated

LEMMA InductiveMembership == Spec => [](TypeOK /\ Membership)
  BY InitTyped, StepTyped, InitMembership, StepMembership, PTL DEF Spec

\* No client outlives its pumps in the hub's map, with or without Redis.
THEOREM NoZombieHolds == Spec => []NoZombie
  BY InductiveMembership, PTL DEF Membership

\* Every member that lost a message is on its way out, with or without Redis.
THEOREM DropAsksForRemovalHolds == Spec => []DropAsksForRemoval
  BY InductiveMembership, PTL DEF Membership

\* The RLock of sendInitialData covers its check and its send.
THEOREM InitialSendSafeHolds == Spec => []InitialSendSafe
  BY InductiveMembership, PTL DEF Membership

-----------------------------------------------------------------------------
(***************************************************************************)
(* Without Redis the loop is the only caller of broadcastToClients, and no   *)
(* step can panic.  The run of the same property with a subscriber finds the *)
(* panic: the hypothesis is needed.                                          *)
(***************************************************************************)
LEMMA StepNoPanic ==
  ASSUME Subscriber = {}
  PROVE  TypeOK /\ Membership /\ NoPanic /\ [Next]_vars => NoPanic'
  <1> SUFFICES ASSUME TypeOK, Membership, NoPanic, [Next]_vars PROVE NoPanic'
    OBVIOUS
  <1>1. CASE HubRemoveClient
    <2>1. hubClient \in clients => hubClient \notin closed
      BY DEF Membership, MembersOpen
    <2> QED
      BY <1>1, <2>1 DEF HubRemoveClient, NoPanic
  <1>2. ASSUME NEW b \in Broadcaster, NEW c \in Client, BroadcastSend(b, c)
        PROVE  NoPanic'
    <2>1. b = Loop
      BY DEF Broadcaster
    <2>2. c \notin closed
      BY <1>2, <2>1 DEF BroadcastSend, Membership, LoopSnapshot, MembersOpen
    <2> QED
      BY <1>2, <2>2 DEF BroadcastSend, NoPanic
  <1>3. CASE UNCHANGED fanVars \/ UNCHANGED crashed
    BY <1>3 DEF NoPanic, fanVars
  <1>4. \/ HubRemoveClient
        \/ \E b \in Broadcaster, c \in Client : BroadcastSend(b, c)
        \/ UNCHANGED crashed
    BY DEF Next, ClientStep, WriterStep, LoopStep, FanStep, RedisStep,
           Terminated, vars, fanVars, Accept, HubRegister, StartPumps,
           HubUnregister, InitialCheck, InitialSend, WriterTake, WriteOk,
           WriteFail, WriterDrain, WriterClosed, WriterCancelled, PingFail,
           WriterExit, ReadFail, ReaderCleanup, PeerClose, HubAddClient,
           HubTakeBroadcast, HubStop, Enqueue, Publish, SubscriberReceive
  <1> QED
    BY <1>1, <1>2, <1>3, <1>4

\* A process without Redis never panics on a send channel, whatever the
\* number of clients and the capacities.
THEOREM NoPanicWithoutRedis == Subscriber = {} => (Spec => []NoPanic)
  <1> SUFFICES ASSUME Subscriber = {} PROVE Spec => []NoPanic
    OBVIOUS
  <1>1. Init => NoPanic
    BY DEF Init, NoPanic
  <1>2. TypeOK /\ Membership /\ NoPanic /\ [Next]_vars => NoPanic'
    BY StepNoPanic
  <1> QED
    BY InductiveMembership, <1>1, <1>2, PTL DEF Spec

-----------------------------------------------------------------------------
(***************************************************************************)
(* The drain loop.  WritePump is the only receiver of the channel, so what  *)
(* len(c.send) counted is still there when the loop comes to take it.       *)
(***************************************************************************)
DrainCount ==
  \A c \in Client :
    /\ writer[c] = "drain" => left[c] \in 1 .. Len(send[c])
    /\ writer[c] = "writeNext" => left[c] \in 0 .. Len(send[c])

LEMMA StepDrainCount ==
  TypeOK /\ DrainCount /\ [Next]_vars => DrainCount'
  <1> SUFFICES ASSUME TypeOK, DrainCount, [Next]_vars PROVE DrainCount'
    OBVIOUS
  <1> USE DEF loopVars, memberVars, feedVars, fanVars, writerVars, pumpVars
  <1>0. \A d \in Client : Len(send[d]) \in Nat /\ left[d] \in Int
    BY QueueFacts DEF TypeOK, ClientTypes, WriterTypes
  <1>1. CASE UNCHANGED <<writer, left, send>>
    BY <1>1 DEF DrainCount
  <1>2. ASSUME NEW c \in Client, StartPumps(c) PROVE DrainCount'
    BY <1>2 DEF StartPumps, DrainCount, TypeOK, WriterTypes
  <1>3. ASSUME NEW c \in Client, HubUnregister(c) PROVE DrainCount'
    BY <1>3 DEF HubUnregister, DrainCount, TypeOK, WriterTypes
  <1>4. ASSUME NEW c \in Client, NEW m \in Sendable,
               send' = [send EXCEPT ![c] = Append(@, m)],
               UNCHANGED <<writer, left>>
        PROVE  DrainCount'
    <2>1. /\ Len(Append(send[c], m)) = Len(send[c]) + 1
          /\ send \in [Client -> Seq(Sendable)]
      BY QueueFacts DEF TypeOK, ClientTypes
    <2> QED
      BY <1>0, <1>4, <2>1 DEF DrainCount
  <1>5. ASSUME NEW c \in Client, WriterTake(c) PROVE DrainCount'
    BY <1>5 DEF WriterTake, DrainCount, TypeOK, WriterTypes, ClientTypes
  <1>6. ASSUME NEW c \in Client, WriteOk(c) PROVE DrainCount'
    BY <1>0, <1>6 DEF WriteOk, Writing, DrainCount, TypeOK, WriterTypes
  <1>7. ASSUME NEW c \in Client, WriterDrain(c) PROVE DrainCount'
    <2>1. left[c] \in 1 .. Len(send[c])
      BY <1>7 DEF WriterDrain, DrainCount
    <2>2. send[c] # <<>>
      BY <1>0, <2>1
    <2>3. Len(Tail(send[c])) = Len(send[c]) - 1
      BY <2>2, QueueFacts DEF TypeOK, ClientTypes
    <2> QED
      BY <1>0, <1>7, <2>1, <2>2, <2>3
      DEF WriterDrain, DrainCount, TypeOK, WriterTypes, ClientTypes
  <1>8. ASSUME NEW c \in Client, WriterExit(c) PROVE DrainCount'
    BY <1>8 DEF WriterExit, DrainCount, TypeOK, WriterTypes
  <1>9. ASSUME NEW c \in Client, InitialSend(c) PROVE DrainCount'
    BY <1>1, <1>4, <1>9, MessageFacts DEF InitialSend
  <1>10. ASSUME NEW b \in Broadcaster, NEW c \in Client, BroadcastSend(b, c)
         PROVE  DrainCount'
    <2>1. cur[b] \in Sendable
      BY <1>10, MessageFacts DEF BroadcastSend, TypeOK, FanTypes
    <2> QED
      BY <1>1, <1>4, <1>10, <2>1 DEF BroadcastSend
  <1> QED
    BY <1>1, <1>2, <1>3, <1>5, <1>6, <1>7, <1>8, <1>9, <1>10
    DEF Next, ClientStep, WriterStep, LoopStep, FanStep, RedisStep,
        Terminated, vars, Accept, HubRegister, InitialCheck, WriteFail,
        WriterClosed, WriterCancelled, PingFail, ReadFail, ReaderCleanup,
        PeerClose, HubAddClient, HubRemoveClient, HubTakeBroadcast, HubStop,
        Enqueue, Publish, SubscriberReceive

\* The drain loop always finds the messages it has counted, so it neither
\* blocks nor writes the nil of a closed channel.
THEOREM DrainFindsMessagesHolds == Spec => []DrainFindsMessages
  <1>1. Init => DrainCount
    BY DEF Init, DrainCount
  <1>2. DrainCount => DrainFindsMessages
    BY DEF DrainCount, DrainFindsMessages
  <1> QED
    BY Typed, <1>1, <1>2, StepDrainCount, PTL DEF Spec

-----------------------------------------------------------------------------
(***************************************************************************)
(* The feed of a client, without Redis: order, completeness, and that the   *)
(* hub implements Subscription.tla.                                         *)
(***************************************************************************)

(***************************************************************************)
(* Lemmas on the flow of a client as a sequence: what was written (r), what *)
(* is in hand (h) and what is queued (s).                                   *)
(***************************************************************************)
LEMMA FlowTyped ==
  ASSUME NEW r \in Seq(Item), NEW h \in Seq(Item), NEW s \in Seq(Item)
  PROVE  /\ r \o h \in Seq(Item) /\ r \o h \o s \in Seq(Item)
         /\ r \o <<>> \o s \in Seq(Item) /\ r \o <<>> = r
         /\ r \o h \o s = r \o (h \o s)
  BY ConcatProperties, ConcatEmptySeq, ConcatAssociative, EmptySeq

\* Queueing a message extends the flow by it.
LEMMA FlowAppend ==
  ASSUME NEW r \in Seq(Item), NEW h \in Seq(Item), NEW s \in Seq(Item),
         NEW m \in Item
  PROVE  r \o h \o Append(s, m) = Append(r \o h \o s, m)
  <1> DEFINE p == r \o h
  <1>1. p \in Seq(Item) /\ Append(s, m) \in Seq(Item)
    BY FlowTyped, AppendProperties
  <1> HIDE DEF p
  <1>2. /\ Len(p \o Append(s, m)) = Len(p) + Len(s) + 1
        /\ \A i \in 1 .. Len(p) + Len(s) + 1 :
             (p \o Append(s, m))[i] =
               IF i <= Len(p) THEN p[i] ELSE Append(s, m)[i - Len(p)]
    BY <1>1, ConcatProperties, AppendProperties, LenProperties
  <1>3. /\ p \o s \in Seq(Item) /\ Len(p \o s) = Len(p) + Len(s)
        /\ \A i \in 1 .. Len(p) + Len(s) :
             (p \o s)[i] = IF i <= Len(p) THEN p[i] ELSE s[i - Len(p)]
    BY <1>1, ConcatProperties
  <1>4. /\ Append(p \o s, m) \in Seq(Item)
        /\ Len(Append(p \o s, m)) = Len(p) + Len(s) + 1
        /\ \A i \in 1 .. Len(p) + Len(s) : Append(p \o s, m)[i] = (p \o s)[i]
        /\ Append(p \o s, m)[Len(p) + Len(s) + 1] = m
    BY <1>3, AppendProperties
  <1>5. /\ \A i \in 1 .. Len(s) : Append(s, m)[i] = s[i]
        /\ Append(s, m)[Len(s) + 1] = m
        /\ Len(p) \in Nat /\ Len(s) \in Nat
    BY <1>1, AppendProperties, LenProperties
  <1>6. \A i \in 1 .. Len(p) + Len(s) + 1 :
          (p \o Append(s, m))[i] = Append(p \o s, m)[i]
    BY <1>2, <1>3, <1>4, <1>5
  <1>7. p \o Append(s, m) \in Seq(Item)
    BY <1>1, ConcatProperties
  <1>8. p \o Append(s, m) = Append(p \o s, m)
    BY <1>2, <1>4, <1>6, <1>7, SeqEqual
  <1> QED
    BY <1>8 DEF p

\* Taking the head of the queue in hand leaves the flow as it is.
LEMMA FlowTake ==
  ASSUME NEW r \in Seq(Item), NEW s \in Seq(Item), s # <<>>
  PROVE  r \o <<Head(s)>> \o Tail(s) = r \o <<>> \o s
  <1>1. /\ Head(s) \in Item /\ Tail(s) \in Seq(Item)
        /\ Len(Tail(s)) = Len(s) - 1 /\ Len(s) \in Nat
        /\ \A i \in 1 .. Len(Tail(s)) : Tail(s)[i] = s[i + 1]
    BY HeadTailProperties, LenProperties
  <1>2. /\ <<Head(s)>> \in Seq(Item) /\ Len(<<Head(s)>>) = 1
        /\ <<Head(s)>>[1] = s[1]
    BY <1>1
  <1>3. /\ <<Head(s)>> \o Tail(s) \in Seq(Item)
        /\ Len(<<Head(s)>> \o Tail(s)) = Len(s)
        /\ \A i \in 1 .. Len(s) : (<<Head(s)>> \o Tail(s))[i] = s[i]
    BY <1>1, <1>2, ConcatProperties
  <1>4. <<Head(s)>> \o Tail(s) = s
    BY <1>3, SeqEqual
  <1> QED
    BY <1>1, <1>2, <1>4, FlowTyped

\* Writing what is in hand leaves the flow as it is.
LEMMA FlowWrite ==
  ASSUME NEW r \in Seq(Item), NEW h \in Seq(Item), NEW s \in Seq(Item)
  PROVE  (r \o h) \o <<>> \o s = r \o h \o s
  BY FlowTyped

\* A flow that loses what is in hand keeps its order and gains nothing.
LEMMA FlowDrop ==
  ASSUME NEW r \in Seq(Item), NEW h \in Seq(Item), NEW s \in Seq(Item)
  PROVE  /\ Ordered(r \o h \o s) => Ordered(r \o <<>> \o s)
         /\ Numbers(r \o <<>> \o s) \subseteq Numbers(r \o h \o s)
  <1> DEFINE p == r \o h
             k(i) == IF i <= Len(r) THEN i ELSE i + Len(h)
  <1>1. /\ Len(r) \in Nat /\ Len(h) \in Nat /\ Len(s) \in Nat
        /\ r \o <<>> = r
    BY LenProperties, ConcatEmptySeq
  <1>2. /\ p \in Seq(Item) /\ Len(p) = Len(r) + Len(h)
        /\ \A i \in 1 .. Len(r) : p[i] = r[i]
    BY <1>1, ConcatProperties
  <1>3. /\ Len(p \o s) = Len(r) + Len(h) + Len(s)
        /\ \A i \in 1 .. Len(r) + Len(h) + Len(s) :
             (p \o s)[i] = IF i <= Len(p) THEN p[i] ELSE s[i - Len(p)]
    BY <1>2, ConcatProperties
  <1>4. /\ Len(r \o s) = Len(r) + Len(s)
        /\ \A i \in 1 .. Len(r) + Len(s) :
             (r \o s)[i] = IF i <= Len(r) THEN r[i] ELSE s[i - Len(r)]
    BY ConcatProperties
  <1> HIDE DEF p
  <1>5. \A i \in 1 .. Len(r \o s) :
          /\ k(i) \in 1 .. Len(p \o s) /\ (r \o s)[i] = (p \o s)[k(i)]
    BY <1>1, <1>2, <1>3, <1>4
  <1>6. \A i, j \in 1 .. Len(r \o s) : i < j => k(i) < k(j)
    BY <1>1, <1>4
  <1> HIDE DEF k
  <1>7. Ordered(p \o s) => Ordered(r \o s)
    BY <1>5, <1>6 DEF Ordered
  <1>8. Numbers(r \o s) \subseteq Numbers(p \o s)
    BY <1>5 DEF Numbers
  <1> QED
    BY <1>1, <1>7, <1>8 DEF p

\* A number greater than all before it keeps the order.
LEMMA OrderedAppend ==
  ASSUME NEW q \in Seq(Item), NEW m \in Item,
         Ordered(q), m \in Message => \A n \in Numbers(q) : n < m
  PROVE  /\ Ordered(Append(q, m))
         /\ Numbers(Append(q, m)) = Numbers(q) \cup ({m} \cap Message)
  <1>1. /\ Len(Append(q, m)) = Len(q) + 1 /\ Len(q) \in Nat
        /\ \A i \in 1 .. Len(q) : Append(q, m)[i] = q[i]
        /\ Append(q, m)[Len(q) + 1] = m
    BY AppendProperties, LenProperties
  <1>2. Ordered(Append(q, m))
    BY <1>1 DEF Ordered, Numbers
  <1>3. Numbers(Append(q, m)) = Numbers(q) \cup ({m} \cap Message)
    BY <1>1 DEF Numbers
  <1> QED
    BY <1>2, <1>3

LEMMA EmptyFlow == Ordered(<<>>) /\ Numbers(<<>>) = {}
  BY DEF Ordered, Numbers

-----------------------------------------------------------------------------
(***************************************************************************)
(* The inductive invariant.  h.broadcast holds the next numbers in a row,   *)
(* and the loop sends the one it took last (QueueFeed).  A flow holds only   *)
(* numbers the loop is done with for its client, in order; it is empty until *)
(* the client has joined, and complete while it lost nothing (ClientFeed).   *)
(***************************************************************************)
QueueFeed ==
  /\ \A i \in 1 .. Len(broadcast) : broadcast[i] = taken + i
  /\ todo[Loop] # {} => cur[Loop] = taken

Complete(c) ==
  c \in clients /\ c \notin dropped /\ Serves(c) =>
    Numbers(Flow(c)) = joinedAt[c] + 1 .. Behind(c)

ClientFeed(c) ==
  /\ Ordered(Flow(c)) /\ Numbers(Flow(c)) \subseteq 1 .. Behind(c)
  /\ c \notin clients \cup closed => Flow(c) = <<>>
  /\ Writing(c) \/ inHand[c] = <<>>
  /\ c \in clients => joinedAt[c] <= Behind(c)
  /\ Complete(c)

Feed == QueueFeed /\ \A c \in Client : ClientFeed(c)

LEMMA FeedTypesOf ==
  ASSUME TypeOK, NEW c \in Client
  PROVE  /\ received[c] \in Seq(Item) /\ inHand[c] \in Seq(Item)
         /\ send[c] \in Seq(Sendable) /\ send[c] \in Seq(Item)
         /\ Flow(c) \in Seq(Item)
         /\ taken \in Int /\ Behind(c) \in Int /\ joinedAt[c] \in Int
         /\ broadcast \in Seq(Message) /\ issued \in Int
  <1>1. /\ received[c] \in Seq(Item) /\ inHand[c] \in Seq(Item)
        /\ send[c] \in Seq(Sendable) /\ joinedAt[c] \in Int
        /\ broadcast \in Seq(Message) /\ issued \in Int
    BY DEF TypeOK, WriterTypes, ClientTypes, MemberTypes, FeedTypes
  <1>2. send[c] \in Seq(Item)
    BY <1>1, MessageFacts, SeqMonotonic
  <1>3. taken \in Int /\ Behind(c) \in Int
    BY <1>1, LenProperties DEF taken, Behind
  <1> QED
    BY <1>1, <1>2, <1>3, FlowTyped DEF Flow

LEMMA InitFeed == Init => Feed
  <1> SUFFICES ASSUME Init PROVE Feed
    OBVIOUS
  <1>1. QueueFeed
    BY LoopFacts DEF Init, QueueFeed, taken
  <1>2. ASSUME NEW c \in Client PROVE ClientFeed(c)
    <2>1. Flow(c) = <<>>
      BY FlowTyped, EmptySeq DEF Init, Flow
    <2> QED
      BY <2>1, EmptyFlow DEF Init, ClientFeed, Complete
  <1> QED
    BY <1>1, <1>2 DEF Feed

\* A step that changes neither the flow of c nor what the loop is done with,
\* unless c is no member or has lost a message.
LEMMA FlowKept ==
  ASSUME TypeOK, NEW c \in Client, ClientFeed(c),
         Flow(c)' = Flow(c),
         Writing(c)' \/ inHand'[c] = <<>>,
         c \in clients' => c \in clients /\ joinedAt'[c] = joinedAt[c],
         c \in clients \cup closed => c \in clients' \cup closed',
         Serves(c)' => Serves(c),
         dropped \subseteq dropped',
         \/ Behind(c)' = Behind(c)
         \/ Behind(c)' = Behind(c) + 1 /\ (c \in dropped' \/ c \notin clients')
  PROVE  ClientFeed(c)'
  <1>1. Behind(c) \in Int /\ joinedAt[c] \in Int
    BY FeedTypesOf
  <1>2. Ordered(Flow(c))' /\ Numbers(Flow(c))' = Numbers(Flow(c))
    BY DEF ClientFeed, Ordered, Numbers
  <1>3. (Numbers(Flow(c)) \subseteq 1 .. Behind(c))'
    BY <1>1, <1>2 DEF ClientFeed
  <1>4. (c \notin clients \cup closed => Flow(c) = <<>>)'
    BY DEF ClientFeed
  <1>5. (c \in clients => joinedAt[c] <= Behind(c))'
    BY <1>1 DEF ClientFeed
  <1>6. Complete(c)'
    BY <1>2 DEF ClientFeed, Complete
  <1> QED
    BY <1>2, <1>3, <1>4, <1>5, <1>6 DEF ClientFeed

\* A step that only other clients notice.
LEMMA FlowAlone ==
  ASSUME TypeOK, NEW c \in Client, ClientFeed(c),
         UNCHANGED <<received[c], inHand[c], send[c], writer[c]>>,
         UNCHANGED <<clients, closed, dropped, joinedAt[c], Behind(c)>>
  PROVE  ClientFeed(c)'
  <1>1. Flow(c)' = Flow(c)
    BY DEF Flow
  <1>2. Writing(c)' \/ inHand'[c] = <<>>
    BY DEF ClientFeed, Writing
  <1>3. Serves(c)' => Serves(c)
    BY DEF Serves
  <1> QED
    BY <1>1, <1>2, <1>3, FlowKept

\* A message is queued for a client that has joined: its initial data, or the
\* message the loop is sending.
LEMMA FlowGrown ==
  ASSUME TypeOK, NEW c \in Client, ClientFeed(c), NEW m \in Sendable,
         send'[c] = Append(send[c], m),
         UNCHANGED <<received[c], inHand[c], writer[c], clients, closed,
                     dropped, joinedAt[c]>>,
         c \in clients,
         \/ m = Snapshot /\ Behind(c)' = Behind(c)
         \/ m \in Message /\ m = Behind(c) + 1 /\ Behind(c)' = Behind(c) + 1
  PROVE  ClientFeed(c)'
  <1>1. /\ Flow(c) \in Seq(Item) /\ Behind(c) \in Int /\ joinedAt[c] \in Int
        /\ received[c] \in Seq(Item) /\ inHand[c] \in Seq(Item)
        /\ send[c] \in Seq(Item) /\ m \in Item
    BY FeedTypesOf, MessageFacts
  <1>2. Flow(c)' = Append(Flow(c), m)
    <2>1. received[c] \o inHand[c] \o Append(send[c], m)
            = Append(received[c] \o inHand[c] \o send[c], m)
      BY <1>1, FlowAppend
    <2> QED
      BY <2>1, Zenon DEF Flow
  <1>3. /\ Ordered(Flow(c)) /\ Numbers(Flow(c)) \subseteq 1 .. Behind(c)
        /\ joinedAt[c] <= Behind(c)
        /\ Writing(c) \/ inHand[c] = <<>>
    BY DEF ClientFeed
  <1>4. \A n \in Numbers(Flow(c)) : n < Behind(c) + 1
    BY <1>1, <1>3
  <1>5. m \in Message => \A n \in Numbers(Flow(c)) : n < m
    BY <1>4 DEF Message, Snapshot
  <1>6. /\ Ordered(Append(Flow(c), m))
        /\ Numbers(Append(Flow(c), m)) = Numbers(Flow(c)) \cup ({m} \cap Message)
    BY <1>1, <1>3, <1>5, OrderedAppend
  <1>7. Ordered(Flow(c))'
    BY <1>2, <1>6 DEF Ordered
  <1>8. Numbers(Flow(c))' = Numbers(Flow(c)) \cup ({m} \cap Message)
    <2>1. Numbers(Flow(c))' = Numbers(Append(Flow(c), m))
      <3> DEFINE q == Append(Flow(c), m)
      <3>1. Flow(c)' = q
        BY <1>2
      <3> HIDE DEF q
      <3>2. Numbers(Flow(c))' = Numbers(q)
        BY <3>1 DEF Numbers
      <3> QED
        BY <3>2 DEF q
    <2> QED
      BY <1>6, <2>1, Zenon
  <1>9. (Numbers(Flow(c)) \subseteq 1 .. Behind(c))'
    <2>1. Numbers(Flow(c)) \subseteq 1 .. Behind(c)'
      BY <1>1, <1>3
    <2>2. {m} \cap Message \subseteq 1 .. Behind(c)'
      BY <1>1 DEF Message, Snapshot
    <2> QED
      BY <1>8, <2>1, <2>2
  <1>10. (joinedAt[c] <= Behind(c))'
    BY <1>1, <1>3
  <1>11. Complete(c)'
    <2>1. CASE m = Snapshot /\ Behind(c)' = Behind(c)
      <3>1. m \notin Message
        BY <2>1 DEF Message, Snapshot
      <3> QED
        BY <1>8, <2>1, <3>1 DEF ClientFeed, Complete, Serves
    <2>2. CASE /\ m \in Message /\ m = Behind(c) + 1
               /\ Behind(c)' = Behind(c) + 1
      <3>1. joinedAt[c] + 1 .. Behind(c)' = (joinedAt[c] + 1 .. Behind(c)) \cup {m}
        BY <1>1, <1>3, <2>2
      <3>2. {m} \cap Message = {m}
        BY <2>2
      <3> QED
        BY <1>8, <3>1, <3>2 DEF ClientFeed, Complete, Serves
    <2> QED
      BY <2>1, <2>2
  <1> QED
    BY <1>3, <1>7, <1>9, <1>10, <1>11 DEF ClientFeed, Writing

\* WritePump gives up: what it holds is lost, and nothing more is owed.
LEMMA FlowEnds ==
  ASSUME TypeOK, NEW c \in Client, ClientFeed(c),
         inHand'[c] = <<>>, writer'[c] = "unregister",
         UNCHANGED <<received[c], send[c], clients, closed, dropped,
                     joinedAt[c], Behind(c)>>
  PROVE  ClientFeed(c)'
  <1> DEFINE q == received[c] \o <<>> \o send[c]
  <1>1. /\ received[c] \in Seq(Item) /\ inHand[c] \in Seq(Item)
        /\ send[c] \in Seq(Item)
    BY FeedTypesOf
  <1>2. Flow(c)' = q
    BY DEF Flow
  <1>3. /\ Ordered(Flow(c)) => Ordered(q)
        /\ Numbers(q) \subseteq Numbers(Flow(c))
    BY <1>1, FlowDrop DEF Flow
  <1>4. Flow(c) = <<>> => q = <<>>
    <2>1. Flow(c) = <<>> => received[c] = <<>> /\ send[c] = <<>>
      BY <1>1, FlowTyped, ConcatEqualIffEmpty DEF Flow
    <2> QED
      BY <1>1, <2>1, FlowTyped, ConcatEqualIffEmpty
  <1> HIDE DEF q
  <1>5. Ordered(Flow(c))'
    BY <1>2, <1>3 DEF ClientFeed, Ordered
  <1>6. Numbers(Flow(c))' = Numbers(q)
    BY <1>2 DEF Numbers
  <1>7. Complete(c)'
    BY DEF Complete, Serves
  <1> QED
    BY <1>2, <1>3, <1>4, <1>5, <1>6, <1>7 DEF ClientFeed

\* The queue of the hub keeps its numbering.
LEMMA StepQueue ==
  ASSUME Subscriber = {}, TypeOK, QueueFeed, [Next]_vars
  PROVE  QueueFeed'
  <1> USE DEF loopVars, memberVars, feedVars, fanVars, writerVars, pumpVars
  <1>1. /\ broadcast \in Seq(Message) /\ issued \in Int
        /\ Len(broadcast) \in Nat
        /\ cur \in [Broadcaster -> Message \cup {Nil}]
        /\ todo \in [Broadcaster -> SUBSET Client]
    BY LenProperties DEF TypeOK, FeedTypes, FanTypes
  <1>2. CASE UNCHANGED <<broadcast, issued, todo, cur>>
    BY <1>2 DEF QueueFeed, taken
  <1>3. CASE HubTakeBroadcast
    <2>1. /\ Len(broadcast') = Len(broadcast) - 1 /\ Len(broadcast) > 0
          /\ \A i \in 1 .. Len(broadcast') : broadcast'[i] = broadcast[i + 1]
      BY <1>1, <1>3, HeadTailProperties, EmptySeq DEF HubTakeBroadcast
    <2>2. taken' = taken + 1 /\ taken \in Int
      BY <1>1, <1>3, <2>1 DEF HubTakeBroadcast, taken
    <2>3. cur'[Loop] = taken'
      BY <1>1, <1>3, <2>1, <2>2, LoopFacts DEF HubTakeBroadcast, QueueFeed
    <2>4. \A i \in 1 .. Len(broadcast') : broadcast'[i] = taken' + i
      BY <1>1, <2>1, <2>2 DEF QueueFeed
    <2> QED
      BY <2>3, <2>4 DEF QueueFeed
  <1>4. CASE Enqueue
    <2>1. issued + 1 \in Message
      BY <1>4, HubAssumption DEF Enqueue, TypeOK, FeedTypes, Message
    <2>2. /\ Len(broadcast') = Len(broadcast) + 1
          /\ \A i \in 1 .. Len(broadcast) : broadcast'[i] = broadcast[i]
          /\ broadcast'[Len(broadcast) + 1] = issued + 1
      BY <1>1, <1>4, <2>1, AppendProperties DEF Enqueue
    <2>3. taken' = taken /\ UNCHANGED <<todo, cur>>
      BY <1>1, <1>4, <2>2 DEF Enqueue, taken
    <2> QED
      BY <1>1, <2>2, <2>3 DEF QueueFeed, taken
  <1>5. ASSUME NEW b \in Broadcaster, NEW c \in Client, BroadcastSend(b, c)
        PROVE  QueueFeed'
    BY <1>1, <1>5, LoopFacts DEF BroadcastSend, QueueFeed, taken
  <1> QED
    BY <1>2, <1>3, <1>4, <1>5
    DEF Next, ClientStep, WriterStep, LoopStep, FanStep, RedisStep,
        Terminated, vars, Accept, HubRegister, StartPumps, HubUnregister,
        InitialCheck, InitialSend, WriterTake, WriteOk, WriterDrain, WriteFail,
        WriterClosed, WriterCancelled, PingFail, WriterExit, ReadFail,
        ReaderCleanup, PeerClose, HubAddClient, HubRemoveClient, HubStop,
        Publish

-----------------------------------------------------------------------------
\* Every step keeps the feed of every client.
LEMMA StepClientFeed ==
  ASSUME Subscriber = {}, TypeOK, Membership, DrainCount, QueueFeed,
         [Next]_vars, NEW c \in Client, ClientFeed(c)
  PROVE  ClientFeed(c)'
  <1> USE DEF loopVars, memberVars, feedVars, fanVars, writerVars, pumpVars
  <1>0. /\ received[c] \in Seq(Item) /\ inHand[c] \in Seq(Item)
        /\ send[c] \in Seq(Sendable) /\ send[c] \in Seq(Item)
        /\ taken \in Int /\ Behind(c) \in Int
        /\ received \in [Client -> Seq(Item)]
        /\ inHand \in [Client -> Seq(Item)]
        /\ send \in [Client -> Seq(Sendable)]
        /\ DOMAIN writer = Client /\ DOMAIN joinedAt = Client
        /\ writer = [d \in Client |-> writer[d]]
        /\ joinedAt \in [Client -> Int]
        /\ todo \in [Broadcaster -> SUBSET Client]
        /\ broadcast \in Seq(Message) /\ issued \in Int
    BY FeedTypesOf DEF TypeOK, WriterTypes, ClientTypes, MemberTypes, FanTypes
  <1>1. CASE UNCHANGED <<received, inHand, send, writer, clients, closed,
                         dropped, joinedAt, broadcast, issued, todo>>
    BY <1>1, FlowAlone DEF Behind, taken
  <1>2. ASSUME NEW d \in Client,
               d # c => UNCHANGED <<received[c], inHand[c], send[c], writer[c]>>,
               UNCHANGED <<clients, closed, dropped, joinedAt, broadcast,
                           issued, todo>>,
               d = c => ClientFeed(c)'
        PROVE  ClientFeed(c)'
    BY <1>2, FlowAlone DEF Behind, taken
  <1>3. ASSUME NEW d \in Client, StartPumps(d) PROVE ClientFeed(c)'
    <2>1. UNCHANGED <<received, inHand, send, clients, closed, dropped,
                      joinedAt, broadcast, issued, todo>>
      BY <1>3 DEF StartPumps
    <2>2. d # c => writer'[c] = writer[c]
      BY <1>0, <1>3 DEF StartPumps
    <2>3. d = c => writer[c] = "off" /\ inHand[c] = <<>>
      BY <1>3 DEF StartPumps, Membership, RegisterFirst, ClientFeed, Writing
    <2>4. ASSUME d = c PROVE ClientFeed(c)'
      <3>1. Serves(c)
        BY <2>3, <2>4 DEF Serves
      <3>2. Flow(c)' = Flow(c) /\ Behind(c)' = Behind(c)
        BY <2>1 DEF Flow, Behind, taken
      <3> QED
        BY <2>1, <2>3, <2>4, <3>1, <3>2, FlowKept
    <2> QED
      BY <1>2, <2>1, <2>2, <2>4
  <1>4. ASSUME NEW d \in Client, HubUnregister(d) PROVE ClientFeed(c)'
    <2>1. UNCHANGED <<received, inHand, send, clients, closed, dropped,
                      joinedAt, broadcast, issued, todo>>
      BY <1>4 DEF HubUnregister
    <2>2. \/ writer' = writer
          \/ writer[d] = "unregister" /\ writer' = [writer EXCEPT ![d] = "done"]
      BY <1>4 DEF HubUnregister
    <2>3. \/ writer'[c] = writer[c]
          \/ writer[c] = "unregister" /\ writer'[c] = "done"
      BY <1>0, <2>2
    <2>4. Serves(c)' => Serves(c)
      BY <2>3 DEF Serves
    <2>5. Writing(c)' \/ inHand'[c] = <<>>
      BY <2>1, <2>3 DEF Writing, ClientFeed
    <2>6. Flow(c)' = Flow(c) /\ Behind(c)' = Behind(c)
      BY <2>1 DEF Flow, Behind, taken
    <2> QED
      BY <2>1, <2>4, <2>5, <2>6, FlowKept
  <1>5. ASSUME NEW d \in Client, InitialSend(d) PROVE ClientFeed(c)'
    <2>1. UNCHANGED <<received, inHand, writer, clients, closed, dropped,
                      joinedAt, broadcast, issued, todo>>
      BY <1>5 DEF InitialSend
    <2>2. \/ send' = send
          \/ d \in clients /\ send' = [send EXCEPT ![d] = Append(@, Snapshot)]
      BY <1>5 DEF InitialSend, Membership, InitialSendSafe
    <2>3. CASE send' = send
      BY <1>1, <2>1, <2>3
    <2>4. CASE d \in clients /\ send' = [send EXCEPT ![d] = Append(@, Snapshot)]
      <3>1. Behind(c)' = Behind(c)
        BY <2>1 DEF Behind, taken
      <3>2. d = c => send'[c] = Append(send[c], Snapshot)
        BY <1>0, <2>4
      <3>3. d # c => send'[c] = send[c]
        BY <1>0, <2>4
      <3>4. d = c => ClientFeed(c)'
        BY <2>1, <2>4, <3>1, <3>2, FlowGrown, MessageFacts
      <3> QED
        BY <1>2, <2>1, <3>3, <3>4
    <2> QED
      BY <2>2, <2>3, <2>4
  <1>6. ASSUME NEW d \in Client, WriterTake(d) \/ WriterDrain(d)
        PROVE  ClientFeed(c)'
    <2>1. UNCHANGED <<received, clients, closed, dropped, joinedAt, broadcast,
                      issued, todo>>
      BY <1>6 DEF WriterTake, WriterDrain
    <2>2. send[d] # <<>> /\ ~Writing(d)
      <3>1. WriterDrain(d) => 1 <= Len(send[d])
        BY DEF WriterDrain, DrainCount
      <3> QED
        BY <1>6, <3>1, EmptySeq DEF WriterTake, WriterDrain, Writing
    <2>3. /\ send' = [send EXCEPT ![d] = Tail(@)]
          /\ inHand' = [inHand EXCEPT ![d] = <<Head(send[d])>>]
          /\ \/ writer' = [writer EXCEPT ![d] = "writeFirst"]
             \/ writer' = [writer EXCEPT ![d] = "writeNext"]
      BY <1>6, <2>2 DEF WriterTake, WriterDrain
    <2>4. d # c => UNCHANGED <<received[c], inHand[c], send[c], writer[c]>>
      BY <1>0, <2>1, <2>3
    <2>5. ASSUME d = c PROVE ClientFeed(c)'
      <3>1. /\ send'[c] = Tail(send[c]) /\ inHand'[c] = <<Head(send[c])>>
            /\ writer'[c] \in {"writeFirst", "writeNext"}
        BY <1>0, <2>3, <2>5
      <3>2. inHand[c] = <<>> /\ send[c] # <<>>
        BY <2>2, <2>5 DEF ClientFeed
      <3>3. received[c] \o <<Head(send[c])>> \o Tail(send[c])
              = received[c] \o <<>> \o send[c]
        BY <1>0, <3>2, FlowTake
      <3>4. Flow(c)' = Flow(c)
        BY <2>1, <3>1, <3>2, <3>3, Zenon DEF Flow
      <3>5. Behind(c)' = Behind(c)
        BY <2>1 DEF Behind, taken
      <3>6. Writing(c)' /\ Serves(c)
        BY <1>6, <2>5, <3>1 DEF Writing, Serves, WriterTake, WriterDrain
      <3> QED
        BY <2>1, <3>4, <3>5, <3>6, FlowKept
    <2> QED
      BY <1>2, <2>1, <2>4, <2>5
  <1>7. ASSUME NEW d \in Client, WriteOk(d) PROVE ClientFeed(c)'
    <2>1. /\ Writing(d) /\ inHand' = [inHand EXCEPT ![d] = <<>>]
          /\ received' = [received EXCEPT ![d] = @ \o inHand[d]]
          /\ UNCHANGED <<send, clients, closed, dropped, joinedAt, broadcast,
                         issued, todo>>
          /\ \E to \in {"select", "drain"} : writer' = [writer EXCEPT ![d] = to]
      BY <1>7 DEF WriteOk
    <2>2. d # c => UNCHANGED <<received[c], inHand[c], send[c], writer[c]>>
      BY <1>0, <2>1
    <2>3. ASSUME d = c PROVE ClientFeed(c)'
      <3>1. /\ inHand'[c] = <<>> /\ send'[c] = send[c]
            /\ received'[c] = received[c] \o inHand[c]
        BY <1>0, <2>1, <2>3
      <3>2. (received[c] \o inHand[c]) \o <<>> \o send[c]
              = received[c] \o inHand[c] \o send[c]
        BY <1>0, FlowWrite
      <3>3. Flow(c)' = Flow(c)
        BY <3>1, <3>2, Zenon DEF Flow
      <3>4. Behind(c)' = Behind(c)
        BY <2>1 DEF Behind, taken
      <3>5. Serves(c)
        BY <2>1, <2>3 DEF Writing, Serves
      <3> QED
        BY <2>1, <3>1, <3>3, <3>4, <3>5, FlowKept
    <2> QED
      BY <1>2, <2>1, <2>2, <2>3
  <1>8. ASSUME NEW d \in Client, WriterExit(d) PROVE ClientFeed(c)'
    <2>1. /\ inHand' = [inHand EXCEPT ![d] = <<>>]
          /\ writer' = [writer EXCEPT ![d] = "unregister"]
          /\ UNCHANGED <<received, send, clients, closed, dropped, joinedAt,
                         broadcast, issued, todo>>
      BY <1>8 DEF WriterExit
    <2>2. d # c => UNCHANGED <<received[c], inHand[c], send[c], writer[c]>>
      BY <1>0, <2>1
    <2>3. ASSUME d = c PROVE ClientFeed(c)'
      <3>1. inHand'[c] = <<>> /\ writer'[c] = "unregister"
        BY <1>0, <2>1, <2>3
      <3>2. Behind(c)' = Behind(c)
        BY <2>1 DEF Behind, taken
      <3> QED
        BY <2>1, <3>1, <3>2, FlowEnds
    <2> QED
      BY <1>2, <2>1, <2>2, <2>3
  <1>9. CASE HubAddClient
    <2>1. /\ hubPc = "register" /\ hubClient \in Client /\ Pending(hubClient)
          /\ clients' = clients \cup {hubClient}
          /\ joinedAt' = [joinedAt EXCEPT ![hubClient] = taken]
          /\ UNCHANGED <<received, inHand, send, writer, closed, dropped,
                         broadcast, issued, todo>>
      BY <1>9, Shapes DEF HubAddClient, Pending
    <2>2. todo[Loop] = {} /\ hubClient \notin clients \cup closed
      BY <2>1 DEF Membership, LoopSnapshot, RegisterFirst
    <2>3. /\ Flow(c)' = Flow(c) /\ Behind(c)' = Behind(c) /\ Behind(c) = taken
          /\ Writing(c)' \/ inHand'[c] = <<>>
          /\ Serves(c)' = Serves(c)
      BY <1>0, <2>1, <2>2 DEF Flow, Behind, taken, Writing, Serves, ClientFeed
    <2>4. CASE hubClient # c
      BY <1>0, <2>1, <2>3, <2>4, FlowKept
    <2>5. CASE hubClient = c
      <3>1. Flow(c) = <<>> /\ joinedAt'[c] = taken
        BY <1>0, <2>1, <2>2, <2>5 DEF ClientFeed
      <3>2. Ordered(Flow(c))' /\ Numbers(Flow(c))' = {}
        <4>1. Flow(c)' = <<>>
          BY <2>3, <3>1
        <4> QED
          BY <4>1 DEF Ordered, Numbers
      <3>3. Complete(c)'
        <4>1. joinedAt'[c] + 1 .. Behind(c)' = {}
          BY <1>0, <2>3, <3>1
        <4> QED
          BY <3>2, <4>1 DEF Complete
      <3>4. c \in clients' /\ (joinedAt[c] <= Behind(c))'
        BY <1>0, <2>1, <2>3, <2>5, <3>1
      <3> QED
        BY <2>3, <3>2, <3>3, <3>4 DEF ClientFeed
    <2> QED
      BY <2>4, <2>5
  <1>10. CASE HubRemoveClient
    <2>1. /\ clients' \subseteq clients /\ clients' \cup closed' = clients \cup closed
          /\ UNCHANGED <<received, inHand, send, writer, dropped, joinedAt,
                         broadcast, issued, todo>>
      BY <1>10 DEF HubRemoveClient
    <2>2. /\ Flow(c)' = Flow(c) /\ Behind(c)' = Behind(c)
          /\ Writing(c)' \/ inHand'[c] = <<>>
          /\ Serves(c)' = Serves(c)
      BY <2>1 DEF Flow, Behind, taken, Writing, Serves, ClientFeed
    <2> QED
      BY <2>1, <2>2, FlowKept
  <1>11. CASE HubTakeBroadcast
    <2>1. /\ hubPc = "select" /\ broadcast # <<>> /\ broadcast' = Tail(broadcast)
          /\ todo' = [todo EXCEPT ![Loop] = clients]
          /\ UNCHANGED <<received, inHand, send, writer, clients, closed,
                         dropped, joinedAt, issued>>
      BY <1>11 DEF HubTakeBroadcast
    <2>2. todo[Loop] = {} /\ todo'[Loop] = clients
      BY <1>0, <2>1, LoopFacts DEF Membership, LoopSnapshot
    <2>3. taken' = taken + 1
      BY <1>0, <2>1, HeadTailProperties, LenProperties DEF taken
    <2>4. \/ Behind(c)' = Behind(c)
          \/ Behind(c)' = Behind(c) + 1 /\ c \notin clients'
      BY <1>0, <2>1, <2>2, <2>3 DEF Behind
    <2>5. /\ Flow(c)' = Flow(c) /\ Serves(c)' = Serves(c)
          /\ Writing(c)' \/ inHand'[c] = <<>>
      BY <2>1 DEF Flow, Writing, Serves, ClientFeed
    <2> QED
      BY <2>1, <2>4, <2>5, FlowKept
  <1>12. ASSUME NEW b \in Broadcaster, NEW d \in Client, BroadcastSend(b, d)
         PROVE  ClientFeed(c)'
    <2>1. b = Loop
      BY DEF Broadcaster
    <2>2. /\ d \in todo[Loop] /\ todo' = [todo EXCEPT ![Loop] = @ \ {d}]
          /\ UNCHANGED <<received, inHand, writer, clients, closed, joinedAt,
                         broadcast, issued>>
      BY <1>12, <2>1 DEF BroadcastSend
    <2>3. /\ d \in clients /\ d \notin closed
          /\ todo'[Loop] = todo[Loop] \ {d} /\ taken' = taken
      BY <1>0, <2>2, LoopFacts
      DEF Membership, LoopSnapshot, MembersOpen, taken
    <2>4. cur[Loop] = taken /\ taken \in Message
      BY <1>12, <2>1, <2>2 DEF QueueFeed, TypeOK, FanTypes
    <2>5. \/ dropped' = dropped /\ send' = [send EXCEPT ![d] = Append(@, taken)]
          \/ dropped' = dropped \cup {d} /\ send' = send
      BY <1>12, <2>1, <2>3, <2>4 DEF BroadcastSend
    <2>6. CASE d # c
      <3>1. Behind(c)' = Behind(c) /\ send'[c] = send[c]
        BY <1>0, <2>2, <2>3, <2>5, <2>6 DEF Behind
      <3>2. /\ Flow(c)' = Flow(c) /\ Serves(c)' = Serves(c)
            /\ Writing(c)' \/ inHand'[c] = <<>>
        BY <2>2, <3>1 DEF Flow, Writing, Serves, ClientFeed
      <3> QED
        BY <2>2, <2>5, <3>1, <3>2, FlowKept
    <2>7. CASE d = c
      <3>1. Behind(c)' = Behind(c) + 1 /\ taken = Behind(c) + 1
        BY <1>0, <2>2, <2>3, <2>7 DEF Behind
      <3>2. CASE dropped' = dropped /\ send' = [send EXCEPT ![d] = Append(@, taken)]
        <4>1. send'[c] = Append(send[c], taken)
          BY <1>0, <2>7, <3>2
        <4> QED
          BY <2>2, <2>3, <2>4, <2>7, <3>1, <3>2, <4>1, FlowGrown, MessageFacts
      <3>3. CASE dropped' = dropped \cup {d} /\ send' = send
        <4>1. /\ Flow(c)' = Flow(c) /\ Serves(c)' = Serves(c)
              /\ Writing(c)' \/ inHand'[c] = <<>>
          BY <2>2, <3>3 DEF Flow, Writing, Serves, ClientFeed
        <4> QED
          BY <2>2, <2>7, <3>1, <3>3, <4>1, FlowKept
      <3> QED
        BY <2>5, <3>2, <3>3
    <2> QED
      BY <2>6, <2>7
  <1>13. CASE Enqueue
    <2>1. /\ issued' = issued + 1 /\ broadcast' = Append(broadcast, issued + 1)
          /\ UNCHANGED <<received, inHand, send, writer, clients, closed,
                         dropped, joinedAt, todo>>
      BY <1>13 DEF Enqueue
    <2>2. issued + 1 \in Message
      BY <1>13, HubAssumption DEF Enqueue, TypeOK, FeedTypes, Message
    <2>3. taken' = taken
      BY <1>0, <2>1, <2>2, AppendProperties, LenProperties DEF taken
    <2>4. Behind(c)' = Behind(c)
      BY <2>1, <2>3 DEF Behind
    <2> QED
      BY <2>1, <2>4, FlowAlone
  <1> QED
    BY <1>1, <1>3, <1>4, <1>5, <1>6, <1>7, <1>8, <1>9, <1>10, <1>11, <1>12,
       <1>13
    DEF Next, ClientStep, WriterStep, LoopStep, FanStep, RedisStep,
        Terminated, vars, Accept, HubRegister, InitialCheck, WriteFail,
        WriterClosed, WriterCancelled, PingFail, ReadFail, ReaderCleanup,
        PeerClose, HubStop, Publish

LEMMA FeedInvariant ==
  Subscriber = {} => (Spec => []Feed)
  <1> SUFFICES ASSUME Subscriber = {} PROVE Spec => []Feed
    OBVIOUS
  <1>1. Init => DrainCount
    BY DEF Init, DrainCount
  <1>2. TypeOK /\ Membership /\ DrainCount /\ Feed /\ [Next]_vars => Feed'
    BY StepQueue, StepClientFeed DEF Feed
  <1> QED
    BY InductiveMembership, StepDrainCount, InitFeed, <1>1, <1>2, PTL DEF Spec

\* Without Redis no message overtakes another or is delivered twice, for any
\* number of clients and any capacities (hub.go:214-223, client.go:74-102).
THEOREM FeedsInOrder == Subscriber = {} => (Spec => []InOrder)
  <1>1. Feed => InOrder
    BY DEF Feed, ClientFeed, InOrder
  <1> QED
    BY FeedInvariant, <1>1, PTL

\* Without Redis a member that lost nothing to a full channel misses no message
\* taken since it joined (hub.go:77-96, 206-223).
THEOREM FeedsComplete == Subscriber = {} => (Spec => []NoGap)
  <1>1. TypeOK /\ Feed => NoGap
    BY Shapes DEF Feed, ClientFeed, Complete, NoGap
  <1> QED
    BY Typed, FeedInvariant, <1>1, PTL

-----------------------------------------------------------------------------
(***************************************************************************)
(* What a client can tell of its own feed, beyond its order: the invariant   *)
(* under which every step of the hub is one of Subscription.  While its      *)
(* WritePump works, its flow holds no nil, one snapshot at most, numbers     *)
(* behind the one it joined at and, until it loses one, no gap between them;  *)
(* a client already removed keeps all that while it is served what is left.  *)
(***************************************************************************)
Joined(c) == c \in clients \cup closed

Unbroken(c) ==
  \A n \in Numbers(Flow(c)) : joinedAt[c] + 1 .. n \subseteq Numbers(Flow(c))

OneSnapshotIn(q) ==
  \A i, j \in 1 .. Len(q) : q[i] = Snapshot /\ q[j] = Snapshot => i = j

Whole(c) ==
  Serves(c) =>
    /\ \A i \in 1 .. Len(Flow(c)) : Flow(c)[i] # Nil
    /\ Writing(c) => Len(inHand[c]) = 1
    /\ Joined(c) => \A n \in Numbers(Flow(c)) : joinedAt[c] < n
    /\ Joined(c) /\ c \notin dropped => Unbroken(c)
    /\ initial[c] # "done" => \A i \in 1 .. Len(Flow(c)) : Flow(c)[i] # Snapshot
    /\ OneSnapshotIn(Flow(c))

\* A step leaves the flow of c as it is, adds an entry to it, or lets c join.
Stays(c) ==
  /\ Flow(c)' = Flow(c)
  /\ (Joined(c)' <=> Joined(c)) /\ joinedAt'[c] = joinedAt[c]
  /\ initial[c] = "done" => initial'[c] = "done"

Grows(c, m) ==
  /\ Flow(c)' = Append(Flow(c), m)
  /\ c \in clients /\ c \in clients' /\ joinedAt'[c] = joinedAt[c]
  /\ IF m = Snapshot THEN initial[c] = "locked" /\ initial'[c] = "done"
     ELSE m = Behind(c) + 1 /\ initial'[c] = initial[c]

LEMMA QueuedIsAppended ==
  ASSUME TypeOK, NEW c \in Client, NEW m \in Sendable,
         send'[c] = Append(send[c], m), UNCHANGED <<received[c], inHand[c]>>
  PROVE  Flow(c)' = Append(Flow(c), m)
  <1>1. /\ received[c] \in Seq(Item) /\ inHand[c] \in Seq(Item)
        /\ send[c] \in Seq(Item) /\ m \in Item
    BY FeedTypesOf, MessageFacts
  <1>2. received[c] \o inHand[c] \o Append(send[c], m)
          = Append(received[c] \o inHand[c] \o send[c], m)
    BY <1>1, FlowAppend
  <1> QED
    BY <1>2, Zenon DEF Flow

LEMMA TakenFromQueue ==
  ASSUME TypeOK, NEW c \in Client, send[c] # <<>>, inHand[c] = <<>>,
         send'[c] = Tail(send[c]), inHand'[c] = <<Head(send[c])>>,
         received'[c] = received[c]
  PROVE  Flow(c)' = Flow(c)
  <1>1. received[c] \in Seq(Item) /\ send[c] \in Seq(Item)
    BY FeedTypesOf
  <1>2. received[c] \o <<Head(send[c])>> \o Tail(send[c])
          = received[c] \o <<>> \o send[c]
    BY <1>1, FlowTake
  <1> QED
    BY <1>2, Zenon DEF Flow

LEMMA WrittenFromHand ==
  ASSUME TypeOK, NEW c \in Client, inHand'[c] = <<>>,
         received'[c] = received[c] \o inHand[c], send'[c] = send[c]
  PROVE  Flow(c)' = Flow(c)
  <1>1. /\ received[c] \in Seq(Item) /\ inHand[c] \in Seq(Item)
        /\ send[c] \in Seq(Item)
    BY FeedTypesOf
  <1>2. (received[c] \o inHand[c]) \o <<>> \o send[c]
          = received[c] \o inHand[c] \o send[c]
    BY <1>1, FlowWrite
  <1> QED
    BY <1>2, Zenon DEF Flow

FlowStep(c) ==
  /\ Serves(c)
  /\ Writing(c)' => \/ Len(inHand'[c]) = 1
                    \/ Writing(c) /\ inHand'[c] = inHand[c]
  /\ dropped \subseteq dropped'
  /\ \/ Stays(c)
     \/ \E m \in Sendable : Grows(c, m)
     \/ Flow(c)' = <<>>

LEMMA StepFlow ==
  ASSUME Subscriber = {}, TypeOK, Membership, DrainCount, QueueFeed,
         [Next]_vars, NEW c \in Client, ClientFeed(c), Serves(c)'
  PROVE  FlowStep(c)
  <1> USE DEF loopVars, memberVars, feedVars, fanVars, writerVars, pumpVars
  <1>0. /\ send \in [Client -> Seq(Sendable)]
        /\ received \in [Client -> Seq(Item)]
        /\ inHand \in [Client -> Seq(Item)]
        /\ writer = [d \in Client |-> writer[d]]
        /\ initial = [d \in Client |-> initial[d]]
        /\ joinedAt \in [Client -> Int]
        /\ todo \in [Broadcaster -> SUBSET Client]
    BY Shapes DEF TypeOK, WriterTypes, ClientTypes, MemberTypes, FanTypes
  <1>1. ASSUME UNCHANGED <<received[c], inHand[c], send[c], writer[c],
                           joinedAt[c]>>,
               dropped \subseteq dropped', Joined(c)' <=> Joined(c),
               initial[c] = "done" => initial'[c] = "done"
        PROVE  FlowStep(c)
    <2>1. Flow(c)' = Flow(c)
      BY <1>1 DEF Flow
    <2> QED
      BY <1>1, <2>1 DEF FlowStep, Stays, Serves, Writing
  <1>2. CASE UNCHANGED <<received, inHand, send, writer, clients, closed,
                         dropped, joinedAt, initial>>
    BY <1>1, <1>2 DEF Joined
  <1>3. ASSUME NEW d \in Client, StartPumps(d) PROVE FlowStep(c)
    <2>1. UNCHANGED <<received, inHand, send, clients, closed, dropped,
                      joinedAt, initial>>
      BY <1>3 DEF StartPumps
    <2>2. writer[d] = "off" /\ writer' = [writer EXCEPT ![d] = "select"]
      BY <1>3 DEF StartPumps, Membership, RegisterFirst
    <2>3. Serves(c) /\ (Writing(c)' => Writing(c))
      BY <1>0, <2>2 DEF Serves, Writing
    <2>4. Flow(c)' = Flow(c)
      BY <2>1 DEF Flow
    <2> QED
      BY <2>1, <2>3, <2>4 DEF FlowStep, Stays, Joined
  <1>4. ASSUME NEW d \in Client, HubUnregister(d) PROVE FlowStep(c)
    <2>1. UNCHANGED <<received, inHand, send, clients, closed, dropped,
                      joinedAt, initial>>
      BY <1>4 DEF HubUnregister
    <2>2. \/ writer' = writer
          \/ writer' = [writer EXCEPT ![d] = "done"]
      BY <1>4 DEF HubUnregister
    <2>3. writer'[c] = writer[c]
      BY <1>0, <2>2 DEF Serves
    <2> QED
      BY <1>1, <2>1, <2>3 DEF Joined
  <1>5. ASSUME NEW d \in Client, InitialCheck(d) PROVE FlowStep(c)
    <2>1. UNCHANGED <<received, inHand, send, writer, clients, closed, dropped,
                      joinedAt>>
      BY <1>5 DEF InitialCheck
    <2>2. initial[c] = "done" => initial'[c] = "done"
      BY <1>0, <1>5 DEF InitialCheck
    <2> QED
      BY <1>1, <2>1, <2>2 DEF Joined
  <1>6. ASSUME NEW d \in Client, InitialSend(d) PROVE FlowStep(c)
    <2>1. /\ UNCHANGED <<received, inHand, writer, clients, closed, dropped,
                         joinedAt>>
          /\ initial[d] = "locked" /\ d \in clients
          /\ initial' = [initial EXCEPT ![d] = "done"]
      BY <1>6 DEF InitialSend, Membership, InitialSendSafe
    <2>2. \/ send' = send
          \/ send' = [send EXCEPT ![d] = Append(@, Snapshot)]
      BY <1>6 DEF InitialSend
    <2>3. initial[c] = "done" => initial'[c] = "done"
      BY <1>0, <2>1
    <2>4. CASE send' = send \/ d # c
      <3>1. send'[c] = send[c]
        BY <1>0, <2>2, <2>4
      <3> QED
        BY <1>1, <2>1, <2>3, <3>1 DEF Joined
    <2>5. CASE d = c /\ send' = [send EXCEPT ![d] = Append(@, Snapshot)]
      <3>1. send'[c] = Append(send[c], Snapshot) /\ initial'[c] = "done"
        BY <1>0, <2>1, <2>5
      <3>2. Flow(c)' = Append(Flow(c), Snapshot)
        BY <2>1, <3>1, QueuedIsAppended, MessageFacts
      <3>3. Grows(c, Snapshot)
        BY <2>1, <2>5, <3>1, <3>2 DEF Grows
      <3> QED
        BY <2>1, <3>3, MessageFacts DEF FlowStep, Serves, Writing
    <2> QED
      BY <2>2, <2>4, <2>5
  <1>7. ASSUME NEW d \in Client, WriterTake(d) \/ WriterDrain(d)
        PROVE  FlowStep(c)
    <2>1. UNCHANGED <<received, clients, closed, dropped, joinedAt, initial>>
      BY <1>7 DEF WriterTake, WriterDrain
    <2>2. send[d] # <<>> /\ writer[d] \in {"select", "drain"}
      <3>1. WriterDrain(d) => 1 <= Len(send[d])
        BY DEF WriterDrain, DrainCount
      <3> QED
        BY <1>7, <3>1, EmptySeq DEF WriterTake, WriterDrain
    <2>3. /\ send' = [send EXCEPT ![d] = Tail(@)]
          /\ inHand' = [inHand EXCEPT ![d] = <<Head(send[d])>>]
          /\ \/ writer' = [writer EXCEPT ![d] = "writeFirst"]
             \/ writer' = [writer EXCEPT ![d] = "writeNext"]
      BY <1>7, <2>2 DEF WriterTake, WriterDrain
    <2>4. CASE d # c
      <3>1. UNCHANGED <<received[c], inHand[c], send[c], writer[c]>>
        BY <1>0, <2>1, <2>3, <2>4
      <3> QED
        BY <1>1, <2>1, <3>1 DEF Joined
    <2>5. CASE d = c
      <3>1. /\ send'[c] = Tail(send[c]) /\ inHand'[c] = <<Head(send[c])>>
            /\ inHand[c] = <<>> /\ Serves(c)
        BY <1>0, <2>2, <2>3, <2>5 DEF ClientFeed, Writing, Serves
      <3>2. Flow(c)' = Flow(c)
        BY <2>1, <2>2, <2>5, <3>1, TakenFromQueue
      <3>3. Len(inHand'[c]) = 1
        BY <3>1
      <3> QED
        BY <2>1, <3>1, <3>2, <3>3 DEF FlowStep, Stays, Joined
    <2> QED
      BY <2>4, <2>5
  <1>8. ASSUME NEW d \in Client, WriteOk(d) PROVE FlowStep(c)
    <2>1. /\ Writing(d) /\ inHand' = [inHand EXCEPT ![d] = <<>>]
          /\ received' = [received EXCEPT ![d] = @ \o inHand[d]]
          /\ UNCHANGED <<send, clients, closed, dropped, joinedAt, initial>>
          /\ \E to \in {"select", "drain"} : writer' = [writer EXCEPT ![d] = to]
      BY <1>8 DEF WriteOk
    <2>2. CASE d # c
      <3>1. UNCHANGED <<received[c], inHand[c], send[c], writer[c]>>
        BY <1>0, <2>1, <2>2
      <3> QED
        BY <1>1, <2>1, <3>1 DEF Joined
    <2>3. CASE d = c
      <3>1. /\ inHand'[c] = <<>> /\ send'[c] = send[c]
            /\ received'[c] = received[c] \o inHand[c]
            /\ ~Writing(c)' /\ Serves(c)
        BY <1>0, <2>1, <2>3 DEF Writing, Serves
      <3>2. Flow(c)' = Flow(c)
        BY <3>1, WrittenFromHand
      <3> QED
        BY <2>1, <3>1, <3>2 DEF FlowStep, Stays, Joined
    <2> QED
      BY <2>2, <2>3
  <1>9. ASSUME NEW d \in Client, WriterExit(d) PROVE FlowStep(c)
    <2>1. /\ inHand' = [inHand EXCEPT ![d] = <<>>]
          /\ writer' = [writer EXCEPT ![d] = "unregister"]
          /\ UNCHANGED <<received, send, clients, closed, dropped, joinedAt,
                         initial>>
      BY <1>9 DEF WriterExit
    <2>2. d # c
      BY <1>0, <2>1 DEF Serves
    <2>3. UNCHANGED <<received[c], inHand[c], send[c], writer[c]>>
      BY <1>0, <2>1, <2>2
    <2> QED
      BY <1>1, <2>1, <2>3 DEF Joined
  <1>10. CASE HubAddClient
    <2>1. /\ hubPc = "register" /\ hubClient \in Client /\ Pending(hubClient)
          /\ clients' = clients \cup {hubClient}
          /\ joinedAt' = [joinedAt EXCEPT ![hubClient] = taken]
          /\ initial' = [initial EXCEPT ![hubClient] = "started"]
          /\ UNCHANGED <<received, inHand, send, writer, closed, dropped>>
      BY <1>10, Shapes DEF HubAddClient, Pending
    <2>2. CASE hubClient # c
      <3>1. joinedAt'[c] = joinedAt[c] /\ initial'[c] = initial[c]
        BY <1>0, <2>1, <2>2
      <3> QED
        BY <1>1, <2>1, <2>2, <3>1 DEF Joined
    <2>3. CASE hubClient = c
      <3>1. Flow(c) = <<>>
        BY <2>1, <2>3 DEF Membership, RegisterFirst, ClientFeed
      <3>2. Flow(c)' = <<>>
        BY <2>1, <3>1 DEF Flow
      <3> QED
        BY <2>1, <3>2 DEF FlowStep, Serves, Writing
    <2> QED
      BY <2>2, <2>3
  <1>11. CASE HubRemoveClient
    <2>1. /\ clients' \cup closed' = clients \cup closed
          /\ UNCHANGED <<received, inHand, send, writer, dropped, joinedAt,
                         initial>>
      BY <1>11 DEF HubRemoveClient
    <2> QED
      BY <1>1, <2>1 DEF Joined
  <1>12. ASSUME NEW b \in Broadcaster, NEW d \in Client, BroadcastSend(b, d)
         PROVE  FlowStep(c)
    <2>1. b = Loop
      BY DEF Broadcaster
    <2>2. /\ d \in todo[Loop]
          /\ UNCHANGED <<received, inHand, writer, clients, closed, joinedAt,
                         initial>>
      BY <1>12, <2>1 DEF BroadcastSend
    <2>3. d \in clients /\ d \notin closed
      BY <2>2 DEF Membership, LoopSnapshot, MembersOpen
    <2>4. cur[Loop] = taken /\ taken \in Message
      BY <1>12, <2>1, <2>2 DEF QueueFeed, TypeOK, FanTypes
    <2>5. \/ dropped' = dropped /\ send' = [send EXCEPT ![d] = Append(@, taken)]
          \/ dropped' = dropped \cup {d} /\ send' = send
      BY <1>12, <2>1, <2>3, <2>4 DEF BroadcastSend
    <2>6. CASE d # c \/ send' = send
      <3>1. send'[c] = send[c]
        BY <1>0, <2>5, <2>6
      <3> QED
        BY <1>1, <2>2, <2>5, <3>1 DEF Joined
    <2>7. CASE d = c /\ send' # send
      <3>1. dropped' = dropped /\ send'[c] = Append(send[c], taken)
        BY <1>0, <2>5, <2>7
      <3>2. taken = Behind(c) + 1 /\ taken # Snapshot
        BY <2>2, <2>4, <2>7 DEF Behind, Message, Snapshot
      <3>3. Flow(c)' = Append(Flow(c), taken)
        BY <2>2, <2>4, <3>1, QueuedIsAppended, MessageFacts
      <3>4. Grows(c, taken)
        BY <2>2, <2>3, <2>7, <3>2, <3>3 DEF Grows
      <3> QED
        BY <2>2, <2>4, <3>1, <3>4, MessageFacts DEF FlowStep, Serves, Writing
    <2> QED
      BY <2>6, <2>7
  <1> QED
    BY <1>2, <1>3, <1>4, <1>5, <1>6, <1>7, <1>8, <1>9, <1>10, <1>11, <1>12
    DEF Next, ClientStep, WriterStep, LoopStep, FanStep, RedisStep,
        Terminated, vars, Accept, HubRegister, WriteFail, HubTakeBroadcast,
        WriterClosed, WriterCancelled, PingFail, ReadFail, ReaderCleanup,
        PeerClose, HubStop, Publish, Enqueue, SubscriberReceive

LEMMA StepWhole ==
  ASSUME Subscriber = {}, TypeOK, Membership, DrainCount, QueueFeed,
         [Next]_vars, NEW c \in Client, ClientFeed(c), Whole(c)
  PROVE  Whole(c)'
  <1> SUFFICES ASSUME Serves(c)'
               PROVE  (/\ \A i \in 1 .. Len(Flow(c)) : Flow(c)[i] # Nil
                       /\ Writing(c) => Len(inHand[c]) = 1
                       /\ Joined(c) => \A n \in Numbers(Flow(c)) : joinedAt[c] < n
                       /\ Joined(c) /\ c \notin dropped => Unbroken(c)
                       /\ initial[c] # "done" =>
                            \A i \in 1 .. Len(Flow(c)) : Flow(c)[i] # Snapshot
                       /\ OneSnapshotIn(Flow(c)))'
    BY DEF Whole
  <1>1. FlowStep(c)
    BY StepFlow
  <1>2. /\ \A i \in 1 .. Len(Flow(c)) : Flow(c)[i] # Nil
        /\ Writing(c) => Len(inHand[c]) = 1
        /\ Joined(c) => \A n \in Numbers(Flow(c)) : joinedAt[c] < n
        /\ Joined(c) /\ c \notin dropped => Unbroken(c)
        /\ initial[c] # "done" =>
             \A i \in 1 .. Len(Flow(c)) : Flow(c)[i] # Snapshot
        /\ OneSnapshotIn(Flow(c))
    BY <1>1 DEF Whole, FlowStep
  <1>3. Writing(c)' => Len(inHand'[c]) = 1
    BY <1>1, <1>2 DEF FlowStep
  <1>4. /\ Flow(c) \in Seq(Item) /\ Behind(c) \in Int /\ joinedAt[c] \in Int
        /\ Len(Flow(c)) \in Nat
    BY FeedTypesOf, LenProperties
  <1>5. CASE Stays(c)
    <2>1. Numbers(Flow(c))' = Numbers(Flow(c))
      BY <1>5 DEF Stays, Numbers
    <2>2. Joined(c)' /\ c \notin dropped' => Unbroken(c)'
      BY <1>1, <1>2, <1>5, <2>1 DEF Stays, FlowStep, Unbroken
    <2>3. OneSnapshotIn(Flow(c))'
      BY <1>2, <1>5 DEF Stays, OneSnapshotIn
    <2> QED
      BY <1>2, <1>3, <1>5, <2>1, <2>2, <2>3 DEF Stays
  <1>6. ASSUME NEW m \in Sendable, Grows(c, m)
        PROVE  (/\ \A i \in 1 .. Len(Flow(c)) : Flow(c)[i] # Nil
                /\ Joined(c) => \A n \in Numbers(Flow(c)) : joinedAt[c] < n
                /\ Joined(c) /\ c \notin dropped => Unbroken(c)
                /\ initial[c] # "done" =>
                     \A i \in 1 .. Len(Flow(c)) : Flow(c)[i] # Snapshot
                /\ OneSnapshotIn(Flow(c)))'
    <2> DEFINE q == Append(Flow(c), m)
    <2>1. m \in Item /\ m # Nil
      BY MessageFacts DEF Sendable, Message, Snapshot, Nil
    <2>2. /\ Len(q) = Len(Flow(c)) + 1
          /\ \A i \in 1 .. Len(Flow(c)) : q[i] = Flow(c)[i]
          /\ q[Len(Flow(c)) + 1] = m
      BY <1>4, <2>1, AppendProperties
    <2>3. Flow(c)' = q /\ Joined(c)
      BY <1>6 DEF Grows, Joined
    <2> HIDE DEF q
    <2>4. \A n \in Numbers(q) : n \in Numbers(Flow(c)) \/ n = m
      BY <1>4, <2>2 DEF Numbers
    <2>5. Numbers(Flow(c))' = Numbers(q)
      BY <2>3 DEF Numbers
    <2>6. m \in Message => joinedAt[c] < m
      BY <1>4, <1>6 DEF Grows, ClientFeed, Message, Snapshot
    <2>7. Joined(c)' => \A n \in Numbers(Flow(c))' : joinedAt'[c] < n
      BY <1>2, <1>6, <2>3, <2>4, <2>5, <2>6 DEF Grows, Numbers
    <2>8. Joined(c)' /\ c \notin dropped' => Unbroken(c)'
      <3>1. ClientFeed(c)' /\ c \in clients'
        BY <1>6, StepClientFeed DEF Grows
      <3>2. /\ Numbers(Flow(c))' \subseteq 1 .. Behind(c)'
            /\ c \notin dropped' =>
                 Numbers(Flow(c))' = joinedAt'[c] + 1 .. Behind(c)'
        BY <3>1 DEF ClientFeed, Complete
      <3>3. joinedAt'[c] \in Int /\ Behind(c)' \in Int
        <4>1. TypeOK'
          BY StepTyped
        <4> QED
          BY <4>1 DEF TypeOK, MemberTypes, FeedTypes, Behind, taken
      <3> QED
        BY <3>2, <3>3 DEF Unbroken
    <2>9. /\ initial'[c] # "done" =>
               \A i \in 1 .. Len(q) : q[i] # Snapshot
          /\ OneSnapshotIn(q)
      <3>1. CASE m = Snapshot
        <4>1. initial[c] = "locked" /\ initial'[c] = "done"
          BY <1>6, <3>1 DEF Grows
        <4>2. \A i \in 1 .. Len(Flow(c)) : q[i] # Snapshot
          BY <1>2, <2>2, <4>1
        <4> QED
          BY <1>4, <2>2, <4>1, <4>2 DEF OneSnapshotIn
      <3>2. CASE m # Snapshot
        <4>1. initial'[c] = initial[c]
          BY <1>6, <3>2 DEF Grows
        <4>2. \A i \in 1 .. Len(q) :
                q[i] = Snapshot => i \in 1 .. Len(Flow(c)) /\ Flow(c)[i] = Snapshot
          BY <1>4, <2>2, <3>2
        <4> QED
          BY <1>2, <4>1, <4>2 DEF OneSnapshotIn
      <3> QED
        BY <3>1, <3>2
    <2>10. \A i \in 1 .. Len(q) : q[i] # Nil
      BY <1>2, <1>4, <2>1, <2>2
    <2>11. OneSnapshotIn(Flow(c))'
      BY <2>3, <2>9 DEF OneSnapshotIn
    <2> QED
      BY <2>3, <2>7, <2>8, <2>9, <2>10, <2>11
  <1>7. CASE Flow(c)' = <<>>
    <2>1. Len(Flow(c)') = 0
      BY <1>7
    <2>2. Numbers(Flow(c))' = {}
      BY <2>1 DEF Numbers
    <2> QED
      BY <1>3, <2>1, <2>2 DEF Unbroken, OneSnapshotIn
  <1> QED
    BY <1>1, <1>3, <1>5, <1>6, <1>7 DEF FlowStep

-----------------------------------------------------------------------------
(***************************************************************************)
(* The hub implements Subscription, without Redis.                          *)
(***************************************************************************)
LEMMA LastIs ==
  ASSUME NEW c \in Client, NEW m \in Numbers(received[c]) \cup {joinedAt[c]},
         m \in Int, Numbers(received[c]) \cup {joinedAt[c]} \subseteq Int,
         \A n \in Numbers(received[c]) \cup {joinedAt[c]} : n <= m
  PROVE  LastReceived(c) = m
  <1> DEFINE behind == Numbers(received[c]) \cup {joinedAt[c]}
  <1>1. \A x \in behind : (\A n \in behind : n <= x) => x = m
    BY DEF behind
  <1>2. m \in behind /\ \A n \in behind : n <= m
    OBVIOUS
  <1> HIDE DEF behind
  <1>3. (CHOOSE x \in behind : \A n \in behind : n <= x) = m
    BY <1>1, <1>2
  <1> QED
    BY <1>3 DEF LastReceived, behind

Untouched(c) ==
  /\ AbsStatus(c)' = AbsStatus(c)
  /\ AbsStatus(c) \in {"live", "lagging"} =>
       received'[c] = received[c] /\ joinedAt'[c] = joinedAt[c]

LEMMA UntouchedCursor ==
  ASSUME NEW c \in Client, Untouched(c)
  PROVE  AbsCursor(c)' = AbsCursor(c)
  <1>1. CASE AbsStatus(c) \in {"live", "lagging"}
    <2>1. LastReceived(c)' = LastReceived(c)
      BY <1>1 DEF Untouched, LastReceived, Numbers
    <2> QED
      BY <1>1, <2>1 DEF Untouched, AbsCursor
  <1>2. CASE AbsStatus(c) \notin {"live", "lagging"}
    BY <1>2 DEF Untouched, AbsCursor
  <1> QED
    BY <1>1, <1>2

LEMMA Stutters ==
  ASSUME UNCHANGED <<issued, received>>, \A c \in Client : Untouched(c)
  PROVE  UNCHANGED Abstract!absVars
  <1>1. \A c \in Client : AbsStatus(c)' = AbsStatus(c) /\ AbsCursor(c)' = AbsCursor(c)
    BY UntouchedCursor DEF Untouched
  <1>2. [c \in Client |-> AbsStatus(c)]' = [c \in Client |-> AbsStatus(c)]
    BY <1>1
  <1>3. [c \in Client |-> AbsCursor(c)]' = [c \in Client |-> AbsCursor(c)]
    BY <1>1
  <1> QED
    BY <1>2, <1>3 DEF Abstract!absVars

\* What WritePump writes: after what it has written, never a second snapshot,
\* and the next number while the client has lost none.
LEMMA Written ==
  ASSUME TypeOK, NEW c \in Client, ClientFeed(c), Whole(c), WriteOk(c)
  PROVE  /\ Joined(c) /\ Serves(c)
         /\ \E m \in Sendable :
              /\ received' = [received EXCEPT ![c] = Append(@, m)]
              /\ m = Snapshot =>
                   /\ \A i \in 1 .. Len(received[c]) : received[c][i] # Snapshot
                   /\ Numbers(received'[c]) = Numbers(received[c])
              /\ m \in Message =>
                   /\ Numbers(received'[c]) = Numbers(received[c]) \cup {m}
                   /\ \A n \in Numbers(received[c]) \cup {joinedAt[c]} : n < m
                   /\ m <= issued
                   /\ c \notin dropped =>
                        m - 1 \in Numbers(received[c]) \cup {joinedAt[c]}
  <1> DEFINE r == received[c]
             h == inHand[c]
             s == send[c]
             m == h[1]
             k == Len(r) + 1
  <1>1. /\ r \in Seq(Item) /\ h \in Seq(Item) /\ s \in Seq(Item)
        /\ Behind(c) \in Int /\ joinedAt[c] \in Int /\ issued \in Int
        /\ taken \in Int /\ received \in [Client -> Seq(Item)]
    BY FeedTypesOf DEF TypeOK, WriterTypes
  <1>2. Writing(c) /\ Serves(c)
    BY DEF WriteOk, Writing, Serves
  <1>3. Len(h) = 1
    BY <1>2 DEF Whole
  <1>4. m \in Item /\ h = <<m>>
    BY <1>1, <1>3
  <1>5. r \o h = Append(r, m)
    BY <1>1, <1>4, AppendIsConcat
  <1>6. /\ Append(r, m) \in Seq(Item) /\ Len(Append(r, m)) = k
        /\ \A i \in 1 .. Len(r) : Append(r, m)[i] = r[i]
        /\ Append(r, m)[k] = m
        /\ Len(r) \in Nat /\ Len(s) \in Nat
    BY <1>1, <1>4, AppendProperties, LenProperties
  <1>7. /\ Len(Flow(c)) = k + Len(s)
        /\ \A i \in 1 .. k : Flow(c)[i] = Append(r, m)[i]
    <2>1. Flow(c) = Append(r, m) \o s
      BY <1>5, Zenon DEF Flow
    <2> DEFINE q == Append(r, m)
    <2>2. /\ q \in Seq(Item) /\ Len(q) = k /\ k \in Nat
          /\ s \in Seq(Item) /\ Len(s) \in Nat
      BY <1>1, <1>6
    <2> HIDE DEF q, s, k
    <2>3. /\ Len(q \o s) = k + Len(s)
          /\ \A i \in 1 .. k : (q \o s)[i] = q[i]
      BY <2>2, ConcatProperties
    <2> QED
      BY <2>1, <2>3 DEF q
  <1> HIDE DEF r, h, s, m
  <1>8. /\ k \in 1 .. Len(Flow(c)) /\ Flow(c)[k] = m
        /\ \A i \in 1 .. Len(r) : i \in 1 .. Len(Flow(c)) /\ Flow(c)[i] = r[i]
        /\ Len(Flow(c)) \in Nat
    BY <1>6, <1>7
  <1>9. Joined(c)
    <2>1. Flow(c) # <<>>
      BY <1>8
    <2> QED
      BY <2>1 DEF ClientFeed, Joined
  <1>10. m \in Sendable /\ (m \in Message => m \in Int)
    BY <1>2, <1>4, <1>8 DEF Whole, Item, Message
  <1>11. received' = [received EXCEPT ![c] = Append(@, m)]
    <2>1. received' = [received EXCEPT ![c] = received[c] \o inHand[c]]
      BY DEF WriteOk
    <2>2. received[c] \o inHand[c] = Append(received[c], m)
      BY <1>5 DEF r, h
    <2> QED
      BY <2>1, <2>2, Zenon
  <1>12. received'[c] = Append(r, m)
    BY <1>1, <1>11 DEF r
  <1>13. Numbers(received'[c]) = Numbers(r) \cup ({m} \cap Message)
    <2> DEFINE q == Append(r, m)
    <2>1. Numbers(q) = Numbers(r) \cup ({m} \cap Message)
      <3> HIDE DEF q
      <3>1. /\ Len(q) = k /\ \A i \in 1 .. Len(r) : q[i] = r[i]
            /\ q[k] = m
        BY <1>6 DEF q
      <3> QED
        BY <1>6, <3>1 DEF Numbers
    <2> QED
      BY <1>12, <2>1, Zenon
  <1>14. CASE m = Snapshot
    <2>1. m \notin Message
      BY <1>14 DEF Message, Snapshot
    <2>2. \A i \in 1 .. Len(r) : r[i] # Snapshot
      BY <1>2, <1>6, <1>8, <1>14 DEF Whole, OneSnapshotIn
    <2>3. Numbers(received'[c]) = Numbers(r)
      BY <1>13, <2>1
    <2> QED
      BY <1>2, <1>9, <1>10, <1>11, <1>14, <2>1, <2>2, <2>3 DEF r
  <1>15. CASE m \in Message
    <2>1. m # Snapshot /\ m \in Int
      BY <1>15 DEF Message, Snapshot
    <2>2. Numbers(received'[c]) = Numbers(r) \cup {m}
      BY <1>13, <1>15
    <2>3. m \in Numbers(Flow(c)) /\ \A n \in Numbers(r) : n < m
      BY <1>6, <1>8, <1>15 DEF Numbers, ClientFeed, Ordered
    <2>4. joinedAt[c] < m
      BY <1>2, <1>9, <2>3 DEF Whole
    <2>5. m <= issued
      <3>1. m <= Behind(c) /\ Len(broadcast) \in Nat
        BY <2>3, FeedTypesOf, LenProperties DEF ClientFeed
      <3> QED
        BY <1>1, <2>1, <3>1 DEF Behind, taken
    <2>6. ASSUME c \notin dropped PROVE m - 1 \in Numbers(r) \cup {joinedAt[c]}
      <3>1. SUFFICES ASSUME joinedAt[c] + 1 <= m - 1
                     PROVE  m - 1 \in Numbers(r)
        BY <1>1, <2>1, <2>4
      <3>2. m - 1 \in Numbers(Flow(c))
        BY <1>1, <1>2, <1>9, <2>1, <2>3, <2>6, <3>1 DEF Whole, Unbroken
      <3>3. PICK i \in 1 .. Len(Flow(c)) : Flow(c)[i] = m - 1 /\ m - 1 \in Message
        BY <3>2 DEF Numbers
      <3>4. i < k
        BY <1>6, <1>8, <1>15, <2>1, <3>3 DEF ClientFeed, Ordered
      <3> QED
        BY <1>6, <1>8, <3>3, <3>4 DEF Numbers
    <2> QED
      BY <1>2, <1>9, <1>10, <1>11, <1>15, <2>1, <2>2, <2>3, <2>4, <2>5, <2>6
      DEF r
  <1> QED
    BY <1>10, <1>14, <1>15 DEF Sendable

LEMMA NothingReceived ==
  ASSUME TypeOK, NEW c \in Client, ClientFeed(c), ~Joined(c)
  PROVE  received[c] = <<>> /\ Numbers(received[c]) = {}
  <1>1. /\ received[c] \in Seq(Item) /\ inHand[c] \in Seq(Item)
        /\ send[c] \in Seq(Item) /\ received[c] \o inHand[c] \in Seq(Item)
    BY FeedTypesOf, FlowTyped
  <1>2. received[c] \o inHand[c] \o send[c] = <<>>
    BY DEF ClientFeed, Joined, Flow
  <1>3. received[c] \o inHand[c] = <<>>
    BY <1>1, <1>2, ConcatEqualIffEmpty
  <1>4. received[c] = <<>>
    BY <1>1, <1>3, ConcatEqualIffEmpty
  <1> QED
    BY <1>4, EmptyFlow

\* Among the numbers a client is done with there is a last one.
HasLast(c) ==
  LET behind == Numbers(received[c]) \cup {joinedAt[c]}
  IN  Serves(c) => \E m \in behind : \A n \in behind : n <= m

LEMMA StepLast ==
  ASSUME Subscriber = {}, TypeOK, Membership, DrainCount, QueueFeed,
         [Next]_vars, NEW c \in Client, ClientFeed(c), Whole(c), HasLast(c)
  PROVE  HasLast(c)'
  <1> SUFFICES ASSUME Serves(c)'
               PROVE  \E m \in Numbers(received'[c]) \cup {joinedAt'[c]} :
                        \A n \in Numbers(received'[c]) \cup {joinedAt'[c]} : n <= m
    BY DEF HasLast, Numbers
  <1> USE DEF loopVars, memberVars, feedVars, fanVars, writerVars, pumpVars
  <1>1. Serves(c)
    BY StepFlow DEF FlowStep
  <1>2. CASE received'[c] = received[c] /\ joinedAt'[c] = joinedAt[c]
    BY <1>1, <1>2 DEF HasLast
  <1>3. ASSUME NEW d \in Client, WriteOk(d)
        PROVE  \E m \in Numbers(received'[c]) \cup {joinedAt'[c]} :
                 \A n \in Numbers(received'[c]) \cup {joinedAt'[c]} : n <= m
    <2>1. /\ joinedAt' = joinedAt /\ joinedAt[c] \in Int
          /\ received' = [received EXCEPT ![d] = @ \o inHand[d]]
          /\ received \in [Client -> Seq(Item)]
      BY <1>3, FeedTypesOf DEF WriteOk, TypeOK, WriterTypes
    <2>2. CASE d # c
      <3>1. received'[c] = received[c]
        BY <2>1, <2>2
      <3> QED
        BY <1>2, <2>1, <3>1
    <2>3. CASE d = c
      <3>1. PICK m \in Sendable :
              /\ m = Snapshot => Numbers(received'[c]) = Numbers(received[c])
              /\ m \in Message =>
                   /\ Numbers(received'[c]) = Numbers(received[c]) \cup {m}
                   /\ \A n \in Numbers(received[c]) \cup {joinedAt[c]} : n < m
        BY <1>3, <2>3, Written
      <3>2. CASE m \in Message
        <4>1. m \in Int /\ \A n \in Numbers(received[c]) \cup {joinedAt[c]} : n \in Int
          BY <2>1, <3>2 DEF Message, Numbers
        <4>2. /\ Numbers(received'[c]) = Numbers(received[c]) \cup {m}
              /\ \A n \in Numbers(received[c]) \cup {joinedAt[c]} : n < m
          BY <3>1, <3>2
        <4>3. \A n \in Numbers(received'[c]) \cup {joinedAt'[c]} : n <= m
          BY <2>1, <4>1, <4>2
        <4> QED
          BY <4>2, <4>3
      <3>3. CASE m = Snapshot
        BY <1>1, <2>1, <3>1, <3>3 DEF HasLast
      <3> QED
        BY <3>2, <3>3 DEF Sendable
    <2> QED
      BY <2>2, <2>3
  <1>4. CASE HubAddClient
    <2>1. /\ hubClient \in Client /\ Pending(hubClient)
          /\ joinedAt' = [joinedAt EXCEPT ![hubClient] = taken]
          /\ joinedAt \in [Client -> Int] /\ received' = received
          /\ taken \in Int
      BY <1>4, Shapes, FeedTypesOf DEF HubAddClient, Pending, TypeOK, MemberTypes
    <2>2. CASE hubClient # c
      BY <1>2, <2>1, <2>2
    <2>3. CASE hubClient = c
      <3>1. Numbers(received[c]) = {}
        BY <2>1, <2>3, NothingReceived DEF Membership, RegisterFirst, Joined
      <3> QED
        BY <2>1, <3>1
    <2> QED
      BY <2>2, <2>3
  <1>5. CASE UNCHANGED <<received, joinedAt>>
    BY <1>2, <1>5
  <1> QED
    BY <1>3, <1>4, <1>5
    DEF Next, ClientStep, WriterStep, LoopStep, FanStep, RedisStep,
        Terminated, vars, Accept, HubRegister, StartPumps, HubUnregister,
        InitialCheck, InitialSend, WriterTake, WriterDrain, WriteFail,
        WriterClosed, WriterCancelled, PingFail, WriterExit, ReadFail,
        ReaderCleanup, PeerClose, HubRemoveClient, HubTakeBroadcast, HubStop,
        BroadcastSend, Enqueue, Publish, SubscriberReceive

\* A step that neither adds to what was received nor ends a WritePump nor
\* lets a client join or lag.
LEMMA Quiet ==
  ASSUME UNCHANGED <<issued, received, joinedAt, dropped>>,
         clients' \cup closed' = clients \cup closed,
         \A c \in Client : Serves(c)' = Serves(c)
  PROVE  UNCHANGED Abstract!absVars
  <1>1. ASSUME NEW c \in Client PROVE Untouched(c)
    <2>1. writer'[c] \in {"unregister", "done"} <=> writer[c] \in {"unregister", "done"}
      BY DEF Serves
    <2> QED
      BY <2>1 DEF Untouched, AbsStatus
  <1> QED
    BY <1>1, Stutters

\* A step of one client, in the terms of Subscription.
LEMMA OneMoves ==
  ASSUME NEW d \in Client, \A c \in Client \ {d} : Untouched(c)
  PROVE  /\ [c \in Client |-> AbsStatus(c)]'
              = [[c \in Client |-> AbsStatus(c)] EXCEPT ![d] = AbsStatus(d)']
         /\ [c \in Client |-> AbsCursor(c)]'
              = [[c \in Client |-> AbsCursor(c)] EXCEPT ![d] = AbsCursor(d)']
  <1>1. \A c \in Client \ {d} :
          AbsStatus(c)' = AbsStatus(c) /\ AbsCursor(c)' = AbsCursor(c)
    BY UntouchedCursor DEF Untouched
  <1>2. [c \in Client |-> AbsStatus(c)]'
          = [[c \in Client |-> AbsStatus(c)] EXCEPT ![d] = AbsStatus(d)']
    BY <1>1
  <1>3. [c \in Client |-> AbsCursor(c)]'
          = [[c \in Client |-> AbsCursor(c)] EXCEPT ![d] = AbsCursor(d)']
    BY <1>1
  <1> QED
    BY <1>2, <1>3

LEMMA AddJoins ==
  ASSUME TypeOK, Membership, QueueFeed, \A c \in Client : ClientFeed(c),
         HubAddClient
  PROVE  Abstract!AbsNext \/ UNCHANGED Abstract!absVars
  <1> USE DEF loopVars, memberVars, feedVars, fanVars, writerVars, pumpVars
  <1>1. PICK d \in Client :
          /\ Pending(d) /\ clients' = clients \cup {d}
          /\ joinedAt' = [joinedAt EXCEPT ![d] = taken]
          /\ joinedAt \in [Client -> Int]
          /\ UNCHANGED <<received, issued, writer, closed, dropped>>
    BY Shapes DEF HubAddClient, Pending, TypeOK, MemberTypes
  <1>2. ~Joined(d) /\ d \notin dropped
    BY <1>1 DEF Membership, RegisterFirst, SnapshotsJoined, Joined
  <1>3. \A c \in Client \ {d} : Untouched(c)
    BY <1>1 DEF Untouched, AbsStatus
  <1>4. CASE ~Serves(d)
    <2>1. Untouched(d)
      BY <1>1, <1>4 DEF Untouched, AbsStatus, Serves
    <2> QED
      BY <1>1, <1>3, <2>1, Stutters
  <1>5. CASE Serves(d)
    <2>1. AbsStatus(d) = "new" /\ AbsStatus(d)' = "live"
      BY <1>1, <1>2, <1>5 DEF AbsStatus, Serves, Joined
    <2>2. Numbers(received'[d]) = {} /\ joinedAt'[d] = taken
      BY <1>1, <1>2, NothingReceived
    <2>3. taken \in 0 .. issued
      <3>1. /\ broadcast \in Seq(Message) /\ issued \in Nat
            /\ Len(broadcast) \in Nat
        BY LenProperties DEF TypeOK, FeedTypes
      <3>2. CASE Len(broadcast) = 0
        BY <3>1, <3>2 DEF taken
      <3>3. CASE Len(broadcast) > 0
        <4>1. broadcast[1] = taken + 1 /\ broadcast[1] \in Message
          BY <3>1, <3>3, ElementOfSeq DEF QueueFeed
        <4> QED
          BY <3>1, <4>1 DEF taken, Message
      <3> QED
        BY <3>1, <3>2, <3>3
    <2>4. LastReceived(d)' = taken
      <3>1. (CHOOSE m \in {taken} : \A n \in {taken} : n <= m) = taken
        BY <2>3
      <3>2. Numbers(received'[d]) \cup {joinedAt'[d]} = {taken}
        BY <2>2
      <3> QED
        BY <3>1, <3>2 DEF LastReceived, Numbers
    <2>5. AbsCursor(d)' = taken
      BY <2>1, <2>4 DEF AbsCursor
    <2>6. Abstract!AbsJoin(d)
      BY <1>1, <1>3, <2>1, <2>3, <2>5, OneMoves DEF Abstract!AbsJoin
    <2> QED
      BY <1>1, <2>6 DEF Abstract!AbsNext
  <1> QED
    BY <1>4, <1>5

LEMMA SendLags ==
  ASSUME Subscriber = {}, TypeOK, Membership, NEW b \in Broadcaster,
         NEW d \in Client, BroadcastSend(b, d)
  PROVE  Abstract!AbsNext \/ UNCHANGED Abstract!absVars
  <1> USE DEF loopVars, memberVars, feedVars, fanVars, writerVars, pumpVars
  <1>1. /\ d \in todo[Loop]
        /\ UNCHANGED <<issued, received, writer, clients, closed, joinedAt>>
        /\ dropped' = dropped \/ dropped' = dropped \cup {d}
    BY DEF BroadcastSend, Broadcaster
  <1>2. d \in clients
    BY <1>1 DEF Membership, LoopSnapshot
  <1>3. CASE dropped' = dropped
    BY <1>1, <1>3, Quiet DEF Serves
  <1>4. CASE dropped' = dropped \cup {d}
    <2>1. \A c \in Client \ {d} : Untouched(c)
      BY <1>1, <1>4 DEF Untouched, AbsStatus
    <2>2. CASE AbsStatus(d) = "live"
      <3>1. AbsStatus(d)' = "lagging"
        BY <1>1, <1>4, <2>2 DEF AbsStatus
      <3>2. AbsCursor(d)' = AbsCursor(d)
        <4>1. LastReceived(d)' = LastReceived(d)
          BY <1>1 DEF LastReceived, Numbers
        <4> QED
          BY <2>2, <3>1, <4>1 DEF AbsCursor
      <3>3. Abstract!AbsLag(d)
        BY <1>1, <2>1, <2>2, <3>1, <3>2, OneMoves DEF Abstract!AbsLag
      <3> QED
        BY <3>3 DEF Abstract!AbsNext
    <2>3. CASE AbsStatus(d) # "live"
      <3>1. Untouched(d)
        BY <1>1, <1>2, <1>4, <2>3 DEF Untouched, AbsStatus
      <3> QED
        BY <1>1, <2>1, <3>1, Stutters
    <2> QED
      BY <2>2, <2>3
  <1> QED
    BY <1>1, <1>3, <1>4

LEMMA ExitLeaves ==
  ASSUME TypeOK, NEW d \in Client, WriterExit(d), Serves(d)
  PROVE  Abstract!AbsNext
  <1> USE DEF loopVars, memberVars, feedVars, fanVars, writerVars, pumpVars
  <1>1. /\ writer' = [writer EXCEPT ![d] = "unregister"]
        /\ writer = [c \in Client |-> writer[c]]
        /\ UNCHANGED <<issued, received, clients, closed, dropped, joinedAt>>
    BY Shapes DEF WriterExit
  <1>2. \A c \in Client \ {d} : Untouched(c)
    BY <1>1 DEF Untouched, AbsStatus
  <1>3. AbsStatus(d) # "gone" /\ AbsStatus(d)' = "gone"
    BY <1>1 DEF AbsStatus, Serves
  <1>4. AbsCursor(d)' = 0
    BY <1>3 DEF AbsCursor
  <1>5. Abstract!AbsLeave(d)
    BY <1>1, <1>2, <1>3, <1>4, OneMoves DEF Abstract!AbsLeave
  <1> QED
    BY <1>5 DEF Abstract!AbsNext

LEMMA WriteDelivers ==
  ASSUME TypeOK, NEW d \in Client, ClientFeed(d), Whole(d), HasLast(d),
         WriteOk(d)
  PROVE  Abstract!AbsNext
  <1> USE DEF loopVars, memberVars, feedVars, fanVars, writerVars, pumpVars
  <1> DEFINE behind == Numbers(received[d]) \cup {joinedAt[d]}
  <1>1. PICK m \in Sendable :
          /\ received' = [received EXCEPT ![d] = Append(@, m)]
          /\ m = Snapshot =>
               /\ \A i \in 1 .. Len(received[d]) : received[d][i] # Snapshot
               /\ Numbers(received'[d]) = Numbers(received[d])
          /\ m \in Message =>
               /\ Numbers(received'[d]) = Numbers(received[d]) \cup {m}
               /\ \A n \in behind : n < m
               /\ m <= issued
               /\ d \notin dropped => m - 1 \in behind
    BY Written
  <1>2. /\ Joined(d) /\ Serves(d)
        /\ received \in [Client -> Seq(Item)]
        /\ UNCHANGED <<issued, clients, closed, dropped, joinedAt>>
        /\ issued \in Int
    BY Written, FeedTypesOf DEF WriteOk, TypeOK, WriterTypes
  <1>3. Serves(d)' /\ \A c \in Client \ {d} : writer'[c] = writer[c]
    BY <1>2, Shapes DEF WriteOk, Serves
  <1>4. \A c \in Client \ {d} : Untouched(c)
    BY <1>1, <1>2, <1>3 DEF Untouched, AbsStatus
  <1>5. /\ AbsStatus(d)' = AbsStatus(d) /\ AbsStatus(d) \in {"live", "lagging"}
        /\ AbsStatus(d) = "live" => d \notin dropped
    BY <1>2, <1>3 DEF AbsStatus, Serves, Joined
  <1>6. behind \subseteq Int
    BY FeedTypesOf DEF Numbers, Message
  <1>7. PICK last \in behind : \A n \in behind : n <= last
    BY <1>2 DEF HasLast
  <1>8. LastReceived(d) = last /\ AbsCursor(d) = last
    BY <1>5, <1>6, <1>7, LastIs DEF AbsCursor
  <1>9. CASE m = Snapshot
    <2>1. LastReceived(d)' = LastReceived(d)
      BY <1>1, <1>2, <1>9 DEF LastReceived, Numbers
    <2>2. AbsCursor(d)' = AbsCursor(d)
      BY <1>5, <2>1 DEF AbsCursor
    <2>3. Abstract!AbsSnapshot(d)
      BY <1>1, <1>2, <1>4, <1>5, <1>9, <2>2, OneMoves
      DEF Abstract!AbsSnapshot, Abstract!Snapshot, Snapshot
    <2> QED
      BY <2>3 DEF Abstract!AbsNext
  <1>10. CASE m \in Message
    <2> DEFINE behindNow == Numbers(received'[d]) \cup {joinedAt'[d]}
    <2>1. behindNow = behind \cup {m} /\ m \in Int
      BY <1>1, <1>2, <1>10 DEF Message
    <2> HIDE DEF behindNow, behind
    <2>2. \A n \in behindNow : n <= m
      BY <1>1, <1>6, <1>10, <2>1
    <2>3. LastReceived(d)' = m
      <3>1. \A x \in behindNow : (\A n \in behindNow : n <= x) => x = m
        BY <1>6, <2>1, <2>2
      <3>2. (CHOOSE x \in behindNow : \A n \in behindNow : n <= x) = m
        BY <2>1, <2>2, <3>1
      <3> QED
        BY <3>2 DEF LastReceived, Numbers, behindNow
    <2>4. AbsCursor(d)' = m
      BY <1>5, <2>3 DEF AbsCursor
    <2>5. m \in last + 1 .. issued
      BY <1>1, <1>2, <1>6, <1>10, <1>7, <2>1
    <2>6. AbsStatus(d) = "live" => m = last + 1
      BY <1>1, <1>5, <1>6, <1>7, <1>10, <2>1
    <2>7. Abstract!AbsDeliver(d)
      BY <1>1, <1>2, <1>4, <1>5, <1>8, <2>4, <2>5, <2>6, OneMoves
      DEF Abstract!AbsDeliver
    <2> QED
      BY <2>7 DEF Abstract!AbsNext
  <1> QED
    BY <1>9, <1>10 DEF Sendable

Told == \A c \in Client : Whole(c) /\ HasLast(c)

\* Every step of the hub is a step of Subscription or leaves it unchanged.
LEMMA StepRefines ==
  ASSUME Subscriber = {}, TypeOK, Membership, DrainCount, Feed, Told,
         [Next]_vars
  PROVE  Abstract!AbsNext \/ UNCHANGED Abstract!absVars
  <1> USE DEF loopVars, memberVars, feedVars, fanVars, writerVars, pumpVars
  <1>0. writer = [c \in Client |-> writer[c]]
    BY Shapes
  <1>1. CASE UNCHANGED <<issued, received, joinedAt, dropped, writer, clients,
                         closed>>
    BY <1>1, Quiet DEF Serves
  <1>2. CASE UNCHANGED <<issued, received, joinedAt, dropped, writer>> /\
             clients' \cup closed' = clients \cup closed
    BY <1>2, Quiet DEF Serves
  <1>3. ASSUME NEW d \in Client, NEW to,
               UNCHANGED <<issued, received, joinedAt, dropped, clients, closed>>,
               writer' = [writer EXCEPT ![d] = to],
               to \in {"unregister", "done"} <=>
                 writer[d] \in {"unregister", "done"}
        PROVE  UNCHANGED Abstract!absVars
    <2>1. \A c \in Client : Serves(c)' = Serves(c)
      BY <1>0, <1>3 DEF Serves
    <2> QED
      BY <1>3, <2>1, Quiet
  <1>4. ASSUME NEW d \in Client, StartPumps(d)
        PROVE  UNCHANGED Abstract!absVars
    <2>1. writer[d] = "off"
      BY <1>4 DEF StartPumps, Membership, RegisterFirst
    <2> QED
      BY <1>3, <1>4, <2>1 DEF StartPumps
  <1>5. ASSUME NEW d \in Client, HubUnregister(d)
        PROVE  UNCHANGED Abstract!absVars
    <2>1. UNCHANGED <<issued, received, joinedAt, dropped, clients, closed>>
      BY <1>5 DEF HubUnregister
    <2>2. \/ writer' = writer
          \/ writer[d] = "unregister" /\ writer' = [writer EXCEPT ![d] = "done"]
      BY <1>5 DEF HubUnregister
    <2>3. CASE writer' = writer
      BY <2>1, <2>3, Quiet DEF Serves
    <2>4. CASE /\ writer[d] = "unregister"
               /\ writer' = [writer EXCEPT ![d] = "done"]
      <3>1. "done" \in {"unregister", "done"}
        OBVIOUS
      <3> QED
        BY <1>3, <2>1, <2>4, <3>1, Zenon
    <2> QED
      BY <2>2, <2>3, <2>4
  <1>6. ASSUME NEW d \in Client, WriterTake(d) \/ WriterDrain(d)
        PROVE  UNCHANGED Abstract!absVars
    BY <1>3, <1>6 DEF WriterTake, WriterDrain
  <1>7. ASSUME NEW d \in Client, WriteOk(d)
        PROVE  Abstract!AbsNext
    BY <1>7, WriteDelivers DEF Feed, Told
  <1>8. ASSUME NEW d \in Client, WriterExit(d), Writing(d) \/ writer[d] = "select"
        PROVE  Abstract!AbsNext
    BY <1>8, ExitLeaves DEF Writing, Serves
  <1>9. CASE HubAddClient
    BY <1>9, AddJoins DEF Feed
  <1>10. CASE HubRemoveClient
    <2>1. clients' \cup closed' = clients \cup closed
      BY <1>10 DEF HubRemoveClient
    <2> QED
      BY <1>2, <1>10, <2>1 DEF HubRemoveClient
  <1>11. ASSUME NEW b \in Broadcaster, NEW d \in Client, BroadcastSend(b, d)
         PROVE  Abstract!AbsNext \/ UNCHANGED Abstract!absVars
    BY <1>11, SendLags
  <1>12. CASE Enqueue
    <2>1. /\ issued < MaxBroadcasts /\ issued' = issued + 1
          /\ UNCHANGED <<received, writer, clients, closed, dropped, joinedAt>>
      BY <1>12 DEF Enqueue
    <2>2. \A c \in Client : Untouched(c)
      BY <2>1 DEF Untouched, AbsStatus
    <2>3. ASSUME NEW c \in Client
          PROVE  AbsStatus(c)' = AbsStatus(c) /\ AbsCursor(c)' = AbsCursor(c)
      <3>1. Untouched(c)
        BY <2>2
      <3> QED
        BY <3>1, UntouchedCursor DEF Untouched
    <2>4. /\ [c \in Client |-> AbsStatus(c)]' = [c \in Client |-> AbsStatus(c)]
          /\ [c \in Client |-> AbsCursor(c)]' = [c \in Client |-> AbsCursor(c)]
      BY <2>3
    <2>5. Abstract!AbsPublish
      BY <2>1, <2>4 DEF Abstract!AbsPublish
    <2> QED
      BY <2>5 DEF Abstract!AbsNext
  <1> QED
    BY <1>1, <1>4, <1>5, <1>6, <1>7, <1>8, <1>9, <1>10, <1>11, <1>12
    DEF Next, ClientStep, WriterStep, LoopStep, FanStep, RedisStep,
        Terminated, vars, Accept, HubRegister, InitialCheck, InitialSend,
        WriteFail, WriterClosed, WriterCancelled, PingFail, ReadFail,
        ReaderCleanup, PeerClose, HubTakeBroadcast, HubStop, Publish,
        SubscriberReceive

LEMMA InitRefines == Init => Abstract!AbsInit /\ Told
  <1> SUFFICES ASSUME Init PROVE Abstract!AbsInit /\ Told
    OBVIOUS
  <1>1. \A c \in Client : AbsStatus(c) = "new" /\ AbsCursor(c) = 0
    BY DEF Init, AbsStatus, AbsCursor
  <1>2. Abstract!AbsInit
    BY <1>1 DEF Init, Abstract!AbsInit
  <1>3. ASSUME NEW c \in Client PROVE Whole(c) /\ HasLast(c)
    <2>1. /\ Flow(c) = <<>> /\ Numbers(Flow(c)) = {}
          /\ Numbers(received[c]) = {} /\ joinedAt[c] = 0
      BY FlowTyped, EmptySeq, EmptyFlow DEF Init, Flow
    <2>2. Whole(c)
      BY <2>1, EmptySeq DEF Init, Whole, Writing, Joined, OneSnapshotIn
    <2>3. HasLast(c)
      BY <2>1 DEF HasLast
    <2> QED
      BY <2>2, <2>3
  <1> QED
    BY <1>2, <1>3 DEF Told

\* The hub implements Subscription, for any number of clients and any
\* capacities, while no other goroutine broadcasts beside the loop
\* (hub.go:77-96, 206-223, client.go:67-110).
THEOREM HubRefinesSubscription ==
  Subscriber = {} => (Spec => ImplementsSubscription)
  <1> SUFFICES ASSUME Subscriber = {} PROVE Spec => ImplementsSubscription
    OBVIOUS
  <1>1. Init => DrainCount
    BY DEF Init, DrainCount
  <1>2. /\ TypeOK /\ Membership /\ DrainCount /\ Feed /\ Told /\ [Next]_vars
        => Told'
    BY StepWhole, StepLast DEF Feed, Told
  <1>3. /\ TypeOK /\ Membership /\ DrainCount /\ Feed /\ Told /\ [Next]_vars
        => [Abstract!AbsNext]_Abstract!absVars
    BY StepRefines
  <1>4. Spec => []Feed
    BY FeedInvariant
  <1> QED
    BY InductiveMembership, StepDrainCount, InitRefines, <1>1, <1>2, <1>3,
       <1>4, PTL
    DEF Spec, ImplementsSubscription, Abstract!AbsSpec
=============================================================================
