-------------------------------- MODULE Hub --------------------------------
(***************************************************************************)
(* The WebSocket hub of one server process, internal/websocket: the event  *)
(* loop of Hub.Run, broadcastToClients and sendInitialData (hub.go), the    *)
(* two pumps of every connection (client.go), the upgrade handler that      *)
(* starts them (handler.go), and the Redis subscriber goroutines that call  *)
(* broadcastToClients beside the event loop (redis/pubsub.go).              *)
(*                                                                          *)
(* Every goroutine has its own control state; a step is what a goroutine    *)
(* does between two points where another one can act.  Unbuffered channels  *)
(* (register, unregister) are rendezvous steps of the sender and the loop.  *)
(* A message is its number in the order in which messages entered           *)
(* h.broadcast; Snapshot stands for the data of sendInitialData.            *)
(***************************************************************************)
EXTENDS Integers, Sequences, FiniteSets

CONSTANTS
  Client,         \* connections, one *Client each
  NoClient,       \* hubClient when the loop handles none
  Subscriber,     \* the Redis subscriber goroutines, {} when redis is nil
  SendCap,        \* capacity of Client.send (256 in the code)
  BroadcastCap,   \* capacity of Hub.broadcast (256 in the code)
  MaxBroadcasts   \* bound of the model: messages ever issued

Loop == "Run"     \* the event loop, as a caller of broadcastToClients

ASSUME HubAssumption ==
  /\ SendCap \in Nat \ {0}
  /\ BroadcastCap \in Nat \ {0}
  /\ MaxBroadcasts \in Nat
  /\ NoClient \notin Client
  /\ Loop \notin Subscriber

VARIABLES
  hubPc,       \* where the event loop is
  hubClient,   \* the client it has received and not yet handled
  clients,     \* Hub.clients
  closed,      \* clients whose send channel is closed
  broadcast,   \* Hub.broadcast
  issued,      \* number of messages that have entered Hub.broadcast
  todo,        \* per caller of broadcastToClients: its snapshot, yet to do
  cur,         \* per caller of broadcastToClients: the message it sends
  send,        \* Client.send
  unregs,      \* per client: goroutines "go h.Unregister" still blocked
  initial,     \* per client: the sendInitialData goroutine
  handler,     \* per client: the ServeHTTP call
  writer,      \* per client: WritePump
  inHand,      \* per client: the message WritePump writes, <<>> or one
  left,        \* per client: iterations the drain loop has still to make
  reader,      \* per client: ReadPump
  conn,        \* per client: the connection, as this process sees it
  cancelled,   \* clients whose pump context is cancelled
  unpublished, \* messages enqueued but not yet published to Redis
  pubsub,      \* per subscriber: messages Redis has still to hand over
  crashed,     \* a goroutine panicked without recovering
  received,    \* history, per client: the messages written to it
  joinedAt,    \* history, per client: messages taken by Run when it joined
  dropped      \* history: clients for which a full channel lost a message

loopVars   == <<hubPc, hubClient>>
memberVars == <<clients, closed, joinedAt>>
feedVars   == <<broadcast, issued, unpublished, pubsub>>
fanVars    == <<todo, cur, unregs, dropped, crashed>>
writerVars == <<writer, inHand, left, received>>
pumpVars   == <<writerVars, reader, conn, cancelled, handler>>
vars       == <<loopVars, memberVars, feedVars, fanVars, send, initial,
                pumpVars>>

Message     == 1 .. MaxBroadcasts
Snapshot    == 0
Nil         == -1               \* what a receive from a closed channel yields
Sendable    == Message \cup {Snapshot}
Item        == Sendable \cup {Nil}
Broadcaster == Subscriber \cup {Loop}

taken == issued - Len(broadcast)   \* messages Run has received so far

Init ==
  /\ hubPc = "select" /\ hubClient = NoClient
  /\ clients = {} /\ closed = {}
  /\ joinedAt = [c \in Client |-> 0]
  /\ broadcast = <<>> /\ issued = 0 /\ unpublished = {}
  /\ pubsub = [s \in Subscriber |-> <<>>]
  /\ todo = [b \in Broadcaster |-> {}]
  /\ cur = [b \in Broadcaster |-> Nil]
  /\ unregs = [c \in Client |-> 0]
  /\ dropped = {} /\ crashed = FALSE
  /\ send = [c \in Client |-> <<>>]
  /\ initial = [c \in Client |-> "none"]
  /\ handler = [c \in Client |-> "none"]
  /\ writer = [c \in Client |-> "off"]
  /\ inHand = [c \in Client |-> <<>>]
  /\ left = [c \in Client |-> 0]
  /\ received = [c \in Client |-> <<>>]
  /\ reader = [c \in Client |-> "off"]
  /\ conn = [c \in Client |-> "none"]
  /\ cancelled = {}

(***************************************************************************)
(* ServeHTTP: upgrade, Register, then start the pumps.                      *)
(***************************************************************************)
\* Variant: the pumps are started before the client is registered.
AcceptStartsPumps(c) ==
  /\ ~crashed
  /\ handler[c] = "none"
  /\ handler' = [handler EXCEPT ![c] = "registering"]
  /\ conn' = [conn EXCEPT ![c] = "open"]
  /\ writer' = [writer EXCEPT ![c] = "select"]
  /\ reader' = [reader EXCEPT ![c] = "reading"]
  /\ UNCHANGED <<loopVars, memberVars, feedVars, fanVars, send, initial,
                 inHand, left, received, cancelled>>

Accept(c) ==
  /\ ~crashed
  /\ handler[c] = "none"
  /\ handler' = [handler EXCEPT ![c] = "registering"]
  /\ conn' = [conn EXCEPT ![c] = "open"]
  /\ UNCHANGED <<loopVars, memberVars, feedVars, fanVars, send, initial,
                 writerVars, reader, cancelled>>

\* The rendezvous on h.register: the handler goes on, the loop has c.
HubRegister(c) ==
  /\ ~crashed
  /\ hubPc = "select" /\ handler[c] = "registering"
  /\ handler' = [handler EXCEPT ![c] = "registered"]
  /\ hubPc' = "register" /\ hubClient' = c
  /\ UNCHANGED <<memberVars, feedVars, fanVars, send, initial,
                 writerVars, reader, conn, cancelled>>

StartPumps(c) ==
  /\ ~crashed
  /\ handler[c] = "registered"
  /\ handler' = [handler EXCEPT ![c] = "serving"]
  /\ writer' = [writer EXCEPT ![c] = "select"]
  /\ reader' = [reader EXCEPT ![c] = "reading"]
  /\ UNCHANGED <<loopVars, memberVars, feedVars, fanVars, send, initial,
                 inHand, left, received, conn, cancelled>>

(***************************************************************************)
(* Hub.Run.  Its Lock waits for the sendInitialData that holds the RLock.   *)
(***************************************************************************)
\* Variant: sendInitialData releases its RLock before it sends.
NoReadLockHeld == TRUE

NoReadLock == \A c \in Client : initial[c] # "locked"

HubAddClient ==
  /\ ~crashed
  /\ hubPc = "register" /\ NoReadLock
  /\ clients' = clients \cup {hubClient}
  /\ joinedAt' = [joinedAt EXCEPT ![hubClient] = taken]
  /\ initial' = [initial EXCEPT ![hubClient] = "started"]
  /\ hubPc' = "select" /\ hubClient' = NoClient
  /\ UNCHANGED <<closed, feedVars, fanVars, send, pumpVars>>

\* The loop receives an unregister request; each of the three places that
\* send one goes on behind its send.
HubUnregister(c) ==
  /\ ~crashed
  /\ hubPc = "select"
  /\ hubPc' = "unregister" /\ hubClient' = c
  /\ \/ /\ writer[c] = "unregister"
        /\ writer' = [writer EXCEPT ![c] = "done"]
        /\ cancelled' = cancelled \cup {c}
        /\ UNCHANGED <<reader, unregs>>
     \/ /\ reader[c] = "unregister"
        /\ reader' = [reader EXCEPT ![c] = "cleanup"]
        /\ UNCHANGED <<writer, cancelled, unregs>>
     \/ /\ unregs[c] > 0
        /\ unregs' = [unregs EXCEPT ![c] = @ - 1]
        /\ UNCHANGED <<writer, cancelled, reader>>
  /\ UNCHANGED <<memberVars, feedVars, todo, cur, dropped, crashed, send,
                 initial, inHand, left, received, conn, handler>>

\* Variant: the membership check before the close is missing.
RemoveUnchecked ==
  /\ ~crashed
  /\ hubPc = "unregister" /\ NoReadLock
  /\ hubPc' = "select" /\ hubClient' = NoClient
  /\ clients' = clients \ {hubClient}
  /\ closed' = closed \cup {hubClient}
  /\ crashed' = (hubClient \in closed)
  /\ UNCHANGED <<joinedAt, feedVars, todo, cur, unregs, dropped, send,
                 initial, pumpVars>>

\* Variant: the client is deleted but its channel is left open.
RemoveWithoutClose ==
  /\ ~crashed
  /\ hubPc = "unregister" /\ NoReadLock
  /\ hubPc' = "select" /\ hubClient' = NoClient
  /\ clients' = clients \ {hubClient}
  /\ UNCHANGED <<closed, joinedAt, feedVars, fanVars, send, initial, pumpVars>>

\* Only a member is removed and has its channel closed; a second close of a
\* channel would panic.
HubRemoveClient ==
  /\ ~crashed
  /\ hubPc = "unregister" /\ NoReadLock
  /\ hubPc' = "select" /\ hubClient' = NoClient
  /\ IF hubClient \in clients
       THEN /\ clients' = clients \ {hubClient}
            /\ closed' = closed \cup {hubClient}
            /\ crashed' = (hubClient \in closed)
       ELSE UNCHANGED <<clients, closed, crashed>>
  /\ UNCHANGED <<joinedAt, feedVars, todo, cur, unregs, dropped, send,
                 initial, pumpVars>>

\* Variant: clients still waiting for their initial data are skipped.
TakeForInitialised ==
  LET ready == {c \in clients : initial[c] = "done"}
  IN  /\ ~crashed /\ hubPc = "select" /\ broadcast # <<>>
      /\ broadcast' = Tail(broadcast)
      /\ cur' = [cur EXCEPT ![Loop] = Head(broadcast)]
      /\ todo' = [todo EXCEPT ![Loop] = ready]
      /\ hubPc' = IF ready = {} THEN "select" ELSE "broadcasting"
      /\ UNCHANGED <<hubClient, memberVars, issued, unpublished, pubsub,
                     unregs, dropped, crashed, send, initial, pumpVars>>

\* broadcastToClients copies the members under the RLock and releases it.
HubTakeBroadcast ==
  /\ ~crashed
  /\ hubPc = "select" /\ broadcast # <<>>
  /\ broadcast' = Tail(broadcast)
  /\ cur' = [cur EXCEPT ![Loop] = Head(broadcast)]
  /\ todo' = [todo EXCEPT ![Loop] = clients]
  /\ hubPc' = IF clients = {} THEN "select" ELSE "broadcasting"
  /\ UNCHANGED <<hubClient, memberVars, issued, unpublished, pubsub, unregs,
                 dropped, crashed, send, initial, pumpVars>>

\* Variant: the default branch loses the message and asks for nothing.
SendOrForget(b, c) ==
  /\ ~crashed
  /\ c \in todo[b]
  /\ todo' = [todo EXCEPT ![b] = @ \ {c}]
  /\ hubPc' = IF b = Loop /\ todo[b] = {c} THEN "select" ELSE hubPc
  /\ IF Len(send[c]) < SendCap
       THEN /\ send' = [send EXCEPT ![c] = Append(@, cur[b])]
            /\ UNCHANGED dropped
       ELSE dropped' = dropped \cup {c} /\ UNCHANGED send
  /\ UNCHANGED <<hubClient, memberVars, feedVars, cur, unregs, crashed,
                 initial, pumpVars>>

\* One iteration of its send loop, run by b with no lock held.  A select
\* with a send on a closed channel panics; a full channel takes the default
\* branch, which loses the message and asks for the client's removal.
BroadcastSend(b, c) ==
  /\ ~crashed
  /\ c \in todo[b]
  /\ todo' = [todo EXCEPT ![b] = @ \ {c}]
  /\ hubPc' = IF b = Loop /\ todo[b] = {c} THEN "select" ELSE hubPc
  /\ \/ /\ c \in closed
        /\ crashed' = TRUE
        /\ UNCHANGED <<send, unregs, dropped>>
     \/ /\ c \notin closed /\ Len(send[c]) < SendCap
        /\ send' = [send EXCEPT ![c] = Append(@, cur[b])]
        /\ UNCHANGED <<unregs, dropped, crashed>>
     \/ /\ c \notin closed /\ Len(send[c]) >= SendCap
        /\ unregs' = [unregs EXCEPT ![c] = @ + 1]
        /\ dropped' = dropped \cup {c}
        /\ UNCHANGED <<send, crashed>>
  /\ UNCHANGED <<hubClient, memberVars, feedVars, cur, initial, pumpVars>>

HubStop ==
  /\ ~crashed
  /\ hubPc = "select"
  /\ hubPc' = "stopped"
  /\ UNCHANGED <<hubClient, memberVars, feedVars, fanVars, send, initial,
                 pumpVars>>

(***************************************************************************)
(* sendInitialData: the membership check and the non-blocking send happen   *)
(* under one RLock, so that no close falls between them.  Preparing the     *)
(* data may fail; a panic is recovered and sends nothing.                   *)
(***************************************************************************)
InitialCheck(c) ==
  /\ ~crashed
  /\ initial[c] = "started"
  /\ initial' = [initial EXCEPT ![c] =
                   IF c \in clients THEN "locked" ELSE "done"]
  /\ UNCHANGED <<loopVars, memberVars, feedVars, fanVars, send, pumpVars>>

\* Variant: the return after a failed preparation is missing.
InitialSendNil(c) ==
  /\ ~crashed
  /\ initial[c] = "locked"
  /\ initial' = [initial EXCEPT ![c] = "done"]
  /\ c \notin closed /\ Len(send[c]) < SendCap
  /\ \E m \in {Snapshot, Nil} : send' = [send EXCEPT ![c] = Append(@, m)]
  /\ UNCHANGED <<loopVars, memberVars, feedVars, fanVars, pumpVars>>

InitialSend(c) ==
  /\ ~crashed
  /\ initial[c] = "locked"
  /\ initial' = [initial EXCEPT ![c] = "done"]
  /\ \/ /\ c \notin closed /\ Len(send[c]) < SendCap
        /\ send' = [send EXCEPT ![c] = Append(@, Snapshot)]
     \/ UNCHANGED send
  /\ UNCHANGED <<loopVars, memberVars, feedVars, fanVars, pumpVars>>

(***************************************************************************)
(* WritePump.  Leaving it closes the connection, then asks for removal.     *)
(***************************************************************************)
Writing(c) == writer[c] \in {"writeFirst", "writeNext"}

WriterExit(c) ==
  /\ ~crashed
  /\ writer' = [writer EXCEPT ![c] = "unregister"]
  /\ conn' = [conn EXCEPT ![c] = "closed"]
  /\ inHand' = [inHand EXCEPT ![c] = <<>>]
  /\ left' = [left EXCEPT ![c] = 0]
  /\ UNCHANGED <<loopVars, memberVars, feedVars, fanVars, send, initial,
                 received, reader, cancelled, handler>>

WriterTake(c) ==
  /\ ~crashed
  /\ writer[c] = "select" /\ send[c] # <<>>
  /\ send' = [send EXCEPT ![c] = Tail(@)]
  /\ inHand' = [inHand EXCEPT ![c] = <<Head(send[c])>>]
  /\ writer' = [writer EXCEPT ![c] = "writeFirst"]
  /\ UNCHANGED <<loopVars, memberVars, feedVars, fanVars, initial, left,
                 received, reader, conn, cancelled, handler>>

\* Variant: the queue length is read before the first message is received.
WriteOkCountsFirst(c) ==
  /\ ~crashed
  /\ Writing(c) /\ conn[c] # "closed"
  /\ received' = [received EXCEPT ![c] = @ \o inHand[c]]
  /\ inHand' = [inHand EXCEPT ![c] = <<>>]
  /\ LET n == IF writer[c] = "writeFirst" THEN Len(send[c]) + 1 ELSE left[c]
     IN  /\ left' = [left EXCEPT ![c] = n]
         /\ writer' = [writer EXCEPT ![c] =
                         IF n = 0 THEN "select" ELSE "drain"]
  /\ UNCHANGED <<loopVars, memberVars, feedVars, fanVars, send, initial,
                 reader, conn, cancelled, handler>>

\* After the first write the drain loop is sized by len(c.send), once.
WriteOk(c) ==
  /\ ~crashed
  /\ Writing(c) /\ conn[c] # "closed"
  /\ received' = [received EXCEPT ![c] = @ \o inHand[c]]
  /\ inHand' = [inHand EXCEPT ![c] = <<>>]
  /\ LET n == IF writer[c] = "writeFirst" THEN Len(send[c]) ELSE left[c]
     IN  /\ left' = [left EXCEPT ![c] = n]
         /\ writer' = [writer EXCEPT ![c] =
                         IF n = 0 THEN "select" ELSE "drain"]
  /\ UNCHANGED <<loopVars, memberVars, feedVars, fanVars, send, initial,
                 reader, conn, cancelled, handler>>

\* A write fails on a dead connection, and on a live one after writeWait.
WriteFail(c) == Writing(c) /\ WriterExit(c)

\* Variant: the drain loop writes the head of the queue and leaves it there.
DrainPeeks(c) ==
  /\ ~crashed
  /\ writer[c] = "drain" /\ send[c] # <<>>
  /\ inHand' = [inHand EXCEPT ![c] = <<Head(send[c])>>]
  /\ left' = [left EXCEPT ![c] = @ - 1]
  /\ writer' = [writer EXCEPT ![c] = "writeNext"]
  /\ UNCHANGED <<loopVars, memberVars, feedVars, fanVars, send, initial,
                 received, reader, conn, cancelled, handler>>

\* The drain loop receives without looking at ok: it would block on an
\* empty open channel and take Nil from an empty closed one.
WriterDrain(c) ==
  /\ ~crashed
  /\ writer[c] = "drain"
  /\ \/ /\ send[c] # <<>>
        /\ inHand' = [inHand EXCEPT ![c] = <<Head(send[c])>>]
        /\ send' = [send EXCEPT ![c] = Tail(@)]
     \/ /\ send[c] = <<>> /\ c \in closed
        /\ inHand' = [inHand EXCEPT ![c] = <<Nil>>]
        /\ UNCHANGED send
  /\ left' = [left EXCEPT ![c] = @ - 1]
  /\ writer' = [writer EXCEPT ![c] = "writeNext"]
  /\ UNCHANGED <<loopVars, memberVars, feedVars, fanVars, initial, received,
                 reader, conn, cancelled, handler>>

WriterClosed(c) ==
  writer[c] = "select" /\ send[c] = <<>> /\ c \in closed /\ WriterExit(c)

WriterCancelled(c) ==
  writer[c] = "select" /\ c \in cancelled /\ WriterExit(c)

\* The ping of pingTicker is not answered within writeWait.
PingFail(c) == writer[c] = "select" /\ WriterExit(c)

(***************************************************************************)
(* ReadPump.  A read ends with an error when the connection is gone, its    *)
(* context is cancelled, or pongWait passes without a data message.         *)
(***************************************************************************)
\* Variant: ReadPump returns without its deferred Unregister and CloseNow.
ReadFailSilently(c) ==
  /\ ~crashed
  /\ reader[c] = "reading"
  /\ reader' = [reader EXCEPT ![c] = "done"]
  /\ conn' = [conn EXCEPT ![c] = IF @ = "open" THEN "broken" ELSE @]
  /\ UNCHANGED <<loopVars, memberVars, feedVars, fanVars, send, initial,
                 writerVars, cancelled, handler>>

ReadFail(c) ==
  /\ ~crashed
  /\ reader[c] = "reading"
  /\ reader' = [reader EXCEPT ![c] = "unregister"]
  /\ conn' = [conn EXCEPT ![c] = IF @ = "open" THEN "broken" ELSE @]
  /\ UNCHANGED <<loopVars, memberVars, feedVars, fanVars, send, initial,
                 writerVars, cancelled, handler>>

\* CloseNow behind Unregister, then the cancel of the handler's goroutine.
ReaderCleanup(c) ==
  /\ ~crashed
  /\ reader[c] = "cleanup"
  /\ reader' = [reader EXCEPT ![c] = "done"]
  /\ conn' = [conn EXCEPT ![c] = "closed"]
  /\ cancelled' = cancelled \cup {c}
  /\ UNCHANGED <<loopVars, memberVars, feedVars, fanVars, send, initial,
                 writerVars, handler>>

\* The peer or the network ends the connection.
PeerClose(c) ==
  /\ ~crashed
  /\ conn[c] = "open"
  /\ conn' = [conn EXCEPT ![c] = "broken"]
  /\ UNCHANGED <<loopVars, memberVars, feedVars, fanVars, send, initial,
                 writerVars, reader, cancelled, handler>>

(***************************************************************************)
(* BroadcastData and BroadcastMarketData: the send on h.broadcast blocks    *)
(* while it is full; Publish follows when there is a Redis client.          *)
(***************************************************************************)
Enqueue ==
  /\ ~crashed
  /\ issued < MaxBroadcasts /\ Len(broadcast) < BroadcastCap
  /\ issued' = issued + 1
  /\ broadcast' = Append(broadcast, issued + 1)
  /\ unpublished' = IF Subscriber = {} THEN {} ELSE unpublished \cup {issued + 1}
  /\ UNCHANGED <<loopVars, memberVars, pubsub, fanVars, send, initial,
                 pumpVars>>

\* Every instance subscribed to the message's channel gets it, the publisher
\* included; an error of Publish is ignored.
Publish(m) ==
  /\ ~crashed
  /\ m \in unpublished
  /\ unpublished' = unpublished \ {m}
  /\ \/ \E s \in Subscriber : pubsub' = [pubsub EXCEPT ![s] = Append(@, m)]
     \/ UNCHANGED pubsub
  /\ UNCHANGED <<loopVars, memberVars, broadcast, issued, fanVars, send,
                 initial, pumpVars>>

SubscriberReceive(s) ==
  /\ ~crashed
  /\ todo[s] = {} /\ pubsub[s] # <<>>
  /\ pubsub' = [pubsub EXCEPT ![s] = Tail(@)]
  /\ cur' = [cur EXCEPT ![s] = Head(pubsub[s])]
  /\ todo' = [todo EXCEPT ![s] = clients]
  /\ UNCHANGED <<loopVars, memberVars, broadcast, issued, unpublished, unregs,
                 dropped, crashed, send, initial, pumpVars>>

-----------------------------------------------------------------------------
WriterStep(c) ==
  \/ WriterTake(c) \/ WriteOk(c) \/ WriteFail(c) \/ WriterDrain(c)
  \/ WriterClosed(c) \/ WriterCancelled(c)

ClientStep(c) ==
  \/ Accept(c) \/ HubRegister(c) \/ StartPumps(c) \/ HubUnregister(c)
  \/ InitialCheck(c) \/ InitialSend(c)
  \/ WriterStep(c) \/ PingFail(c)
  \/ ReadFail(c) \/ ReaderCleanup(c) \/ PeerClose(c)

LoopStep ==
  \/ HubAddClient \/ HubRemoveClient \/ HubTakeBroadcast \/ HubStop

FanStep == \E b \in Broadcaster, c \in Client : BroadcastSend(b, c)

RedisStep ==
  \/ \E m \in Message : Publish(m)
  \/ \E s \in Subscriber : SubscriberReceive(s)

\* Nothing is left to do: the process has crashed or is exiting, or every
\* connection has been served to its end.
Terminated ==
  /\ \/ crashed \/ hubPc = "stopped"
     \/ /\ hubPc = "select" /\ broadcast = <<>> /\ issued = MaxBroadcasts
        /\ \A c \in Client : /\ writer[c] = "done" /\ reader[c] = "done"
                             /\ initial[c] = "done" /\ unregs[c] = 0
  /\ UNCHANGED vars

Next ==
  \/ \E c \in Client : ClientStep(c)
  \/ LoopStep \/ FanStep \/ Enqueue \/ RedisStep
  \/ Terminated

Spec == Init /\ [][Next]_vars

-----------------------------------------------------------------------------
(***************************************************************************)
(* Fairness.  Every goroutine that can run is run (the Go scheduler); the   *)
(* loop's select picks a ready case at random, so a sender that is ready    *)
(* again and again is received; a write ends within writeWait; a read ends  *)
(* once its connection is gone or its context cancelled.  Peers, pings,     *)
(* new connections, producers and shutdown owe nothing.                     *)
(***************************************************************************)
ReadEnds(c) == (conn[c] # "open" \/ c \in cancelled) /\ ReadFail(c)

Fairness ==
  /\ WF_vars(HubAddClient) /\ WF_vars(HubRemoveClient)
  /\ SF_vars(HubTakeBroadcast)
  /\ \A c \in Client :
       /\ SF_vars(HubRegister(c)) /\ SF_vars(HubUnregister(c))
       /\ WF_vars(StartPumps(c))
       /\ WF_vars(BroadcastSend(Loop, c))
       /\ WF_vars(InitialCheck(c)) /\ WF_vars(InitialSend(c))
       /\ WF_vars(WriterStep(c))
       /\ WF_vars(ReadEnds(c)) /\ WF_vars(ReaderCleanup(c))

FairSpec == Spec /\ Fairness

-----------------------------------------------------------------------------
(***************************************************************************)
(* Properties.                                                              *)
(***************************************************************************)

LoopTypes ==
  /\ hubPc \in {"select", "register", "unregister", "broadcasting", "stopped"}
  /\ hubClient \in Client \cup {NoClient}
  /\ hubPc \in {"register", "unregister"} => hubClient \in Client

MemberTypes ==
  /\ clients \subseteq Client
  /\ closed \subseteq Client
  /\ joinedAt \in [Client -> Int]

FeedTypes ==
  /\ broadcast \in Seq(Message)
  /\ issued \in 0 .. MaxBroadcasts
  /\ unpublished \subseteq Message
  /\ pubsub \in [Subscriber -> Seq(Message)]

\* A caller that has clients to serve has a message to serve them.
FanTypes ==
  /\ todo \in [Broadcaster -> SUBSET Client]
  /\ cur \in [Broadcaster -> Message \cup {Nil}]
  /\ \A b \in Broadcaster : todo[b] # {} => cur[b] \in Message
  /\ unregs \in [Client -> Nat]
  /\ dropped \subseteq Client
  /\ crashed \in BOOLEAN

WriterTypes ==
  /\ writer \in [Client -> {"off", "select", "writeFirst", "writeNext",
                            "drain", "unregister", "done"}]
  /\ inHand \in [Client -> Seq(Item)]
  /\ left \in [Client -> Int]
  /\ received \in [Client -> Seq(Item)]

ClientTypes ==
  /\ send \in [Client -> Seq(Sendable)]
  /\ initial \in [Client -> {"none", "started", "locked", "done"}]
  /\ handler \in [Client -> {"none", "registering", "registered", "serving"}]
  /\ reader \in [Client -> {"off", "reading", "unregister", "cleanup", "done"}]
  /\ conn \in [Client -> {"none", "open", "broken", "closed"}]
  /\ cancelled \subseteq Client

\* The values of every variable: in particular no nil message is ever queued
\* for a client (hub.go:122-127) and the loop never handles a client it has
\* not received.
TypeOK ==
  /\ LoopTypes /\ MemberTypes /\ FeedTypes
  /\ FanTypes /\ WriterTypes /\ ClientTypes

\* No goroutine ever sends on a closed send channel or closes one twice:
\* either panic would end the process for every client (hub.go:90, 214-222).
NoPanic == ~crashed

\* A pump that has got its unregister request through has taken the client
\* out of the members for good: the loop never adds a client whose pumps are
\* over, which would stay in the map and fill its channel for ever.
NoZombie ==
  \A c \in Client :
    writer[c] = "done" \/ reader[c] \in {"cleanup", "done"} =>
      c \notin clients \/ (hubPc = "unregister" /\ hubClient = c)

\* A member that lost a message to a full channel is on its way out: an
\* unregister request for it is blocked on the loop or being handled
\* (hub.go:218-221), so that no member keeps a gap in its feed.
DropAsksForRemoval ==
  \A c \in dropped \cap clients :
    unregs[c] > 0 \/ (hubPc = "unregister" /\ hubClient = c)

\* The membership a sendInitialData has checked under its RLock still holds
\* when it sends: no close falls in between (hub.go:114).
InitialSendSafe ==
  \A c \in Client : initial[c] = "locked" => c \in clients /\ c \notin closed

\* The drain loop of WritePump, which receives without looking at ok, never
\* blocks while it believes messages are queued and never takes the nil of a
\* closed channel for a message (client.go:92-96).
DrainFindsMessages ==
  \A c \in Client : writer[c] = "drain" => left[c] \in 1 .. Len(send[c])

\* What has been written to a client, what WritePump holds and what is queued.
Flow(c) == received[c] \o inHand[c] \o send[c]

\* The messages among the entries of a flow increase.
Ordered(q) ==
  \A i, j \in 1 .. Len(q) :
    i < j /\ q[i] \in Message /\ q[j] \in Message => q[i] < q[j]

Numbers(q) == {m \in Message : \E i \in 1 .. Len(q) : q[i] = m}

\* No message is delivered twice or overtakes another on its way through the
\* two channels and the drain loop (hub.go:214-223, client.go:74-102).
InOrder == \A c \in Client : Ordered(Flow(c))

\* The last message that the loop has done with as far as c is concerned.
Behind(c) == taken - (IF c \in todo[Loop] THEN 1 ELSE 0)

Serves(c) == writer[c] \notin {"unregister", "done"}

\* A member that lost nothing to a full channel and still has its WritePump
\* has in its flow every message the loop has taken since it joined, up to the
\* one the loop is sending just now (hub.go:77-96, 206-223).
NoGap ==
  \A c \in clients \ dropped :
    Serves(c) => Numbers(Flow(c)) = joinedAt[c] + 1 .. Behind(c)

(***************************************************************************)
(* The hub implements Subscription while no other goroutine broadcasts      *)
(* beside the loop, that is with Subscriber = {}.                           *)
(***************************************************************************)
AbsStatus(c) ==
  IF writer[c] \in {"unregister", "done"} THEN "gone"
  ELSE IF c \notin clients \cup closed THEN "new"
  ELSE IF c \in dropped THEN "lagging" ELSE "live"

\* The last message a client has received, or, before the first one, the last
\* that was taken when it joined.
LastReceived(c) ==
  LET behind == Numbers(received[c]) \cup {joinedAt[c]}
  IN  CHOOSE m \in behind : \A n \in behind : n <= m

AbsCursor(c) ==
  IF AbsStatus(c) \in {"live", "lagging"} THEN LastReceived(c) ELSE 0

Abstract == INSTANCE Subscription WITH
  MaxPublished <- MaxBroadcasts,
  published <- issued,
  status <- [c \in Client |-> AbsStatus(c)],
  cursor <- [c \in Client |-> AbsCursor(c)],
  feed <- received

\* Every step of the hub is a step of Subscription or leaves it unchanged.
ImplementsSubscription == Abstract!AbsSpec

Stopped == hubPc = "stopped"

\* A connection that has ended, whichever side noticed first, is forgotten:
\* the client leaves the members and both its pumps return.
EndedIsForgotten ==
  \A c \in Client :
    handler[c] = "serving" /\ conn[c] # "open" ~>
      \/ Stopped
      \/ c \notin clients /\ writer[c] = "done" /\ reader[c] = "done"

\* A client too slow for its channel is disconnected in the end.
SlowIsDisconnected ==
  \A c \in Client : c \in dropped ~> Stopped \/ writer[c] = "done"

\* A message issued while a client is a member reaches the client, unless
\* the client falls behind or its connection ends.
EveryMessageArrives ==
  \A c \in Client, m \in Message :
    c \in clients /\ joinedAt[c] < m /\ m <= issued ~>
      \/ Stopped \/ c \in dropped
      \/ writer[c] \in {"unregister", "done"}
      \/ \E i \in 1 .. Len(received[c]) : received[c][i] = m
=============================================================================
