------------------------------ MODULE Instances ------------------------------
(***************************************************************************)
(* Several instances of the server that share their messages through Redis:  *)
(* the broadcast goroutines of each (BroadcastData, BroadcastMarketData of    *)
(* hub.go), its queue h.broadcast, and its subscriber goroutines, one per     *)
(* channel (subscribeToRedis, redis/pubsub.go).                              *)
(*                                                                          *)
(* Inside an instance the fan-out is Hub's, which keeps the order in which    *)
(* messages are offered to a client; here a message is offered to the clients *)
(* of an instance in one step.  A message is its number in the order in       *)
(* which the messages were prepared, so a higher number has newer data.       *)
(***************************************************************************)
EXTENDS Integers, Sequences, FiniteSets, FiniteSetsExt

CONSTANTS
  Instance,     \* processes of the server
  Slot,         \* per instance, broadcast goroutines at once, a bound
  BroadcastCap, \* capacity of Hub.broadcast (256 in the code)
  MaxRetries,   \* go-redis: times a command is sent again (3 in the code)
  MaxPrepared   \* bound of the model: messages ever prepared

ASSUME InstancesAssumption ==
  /\ BroadcastCap \in Nat \ {0}
  /\ MaxRetries \in Nat /\ MaxPrepared \in Nat

Channel == {"usd_rate", "market_data"}
Caster  == Instance \X Slot
Home(b) == b[1]
Number  == 1 .. MaxPrepared

VARIABLES
  linked,  \* the instances with a Redis client
  log,     \* the messages prepared: where, and for which channel
  at,      \* per goroutine: what it does next
  on,      \* per goroutine: the channel it is broadcasting for
  held,    \* per goroutine: the message it has prepared, or 0
  queue,   \* per instance: Hub.broadcast
  sent,    \* per message: times its PUBLISH was sent to Redis
  stray,   \* per message: those Redis has not answered but may yet execute
  inbox,   \* per instance and channel: what its subscriber will receive
  shown,   \* per instance and channel: the last message offered to clients
  copies,  \* per instance and message: times it was offered to clients
  lost,    \* history: Redis may not have passed a message on to everybody
  lagged,  \* history: a message was back from Redis before Run offered it
  raced    \* history: two messages for a channel were on their way at once

castVars    == <<at, on, held>>
redisVars   == <<sent, stray, inbox>>
clientVars  == <<shown, copies>>
historyVars == <<lost, lagged, raced>>
vars == <<linked, log, castVars, queue, redisVars, clientVars, historyVars>>

\* Redis is optional, and an instance that cannot reach it when it starts
\* goes on without.
Init ==
  /\ linked \in SUBSET Instance
  /\ log = <<>>
  /\ at = [b \in Caster |-> "off"]
  /\ on = [b \in Caster |-> "usd_rate"]
  /\ held = [b \in Caster |-> 0]
  /\ queue = [i \in Instance |-> <<>>]
  /\ sent = [n \in Number |-> 0] /\ stray = [n \in Number |-> 0]
  /\ inbox = [i \in Instance |-> [ch \in Channel |-> <<>>]]
  /\ shown = [i \in Instance |-> [ch \in Channel |-> 0]]
  /\ copies = [i \in Instance |-> [n \in Number |-> 0]]
  /\ lost = FALSE /\ lagged = FALSE /\ raced = FALSE

(***************************************************************************)
(* The broadcast goroutines.                                                *)
(***************************************************************************)
End(b) ==
  /\ at' = [at EXCEPT ![b] = "off"]
  /\ on' = [on EXCEPT ![b] = "usd_rate"]

Busy(b) == at[b] \in {"enqueue", "publish"}

\* A goroutine or an unanswered command has a message for ch yet to go out.
UnderWay(ch) ==
  \/ \E b \in Caster : Busy(b) /\ on[b] = ch
  \/ \E n \in DOMAIN log : stray[n] > 0 /\ log[n].channel = ch

\* A tick or a POST starts BroadcastData, a failed download
\* BroadcastMarketData; until it has its data a goroutine touches nothing.
Prepare(b) ==
  /\ ~Busy(b) /\ Len(log) < MaxPrepared
  /\ \E ch \in IF at[b] = "off" THEN Channel ELSE {on[b]} :
       /\ on' = [on EXCEPT ![b] = ch]
       /\ log' = Append(log, [from |-> Home(b), channel |-> ch])
       /\ raced' = (raced \/ UnderWay(ch))
  /\ held' = [held EXCEPT ![b] = Len(log')]
  /\ at' = [at EXCEPT ![b] = "enqueue"]
  /\ UNCHANGED <<linked, queue, redisVars, clientVars, lost, lagged>>

\* Without prices to send BroadcastMarketData returns.
PrepareFails(b) ==
  /\ at[b] = "market"
  /\ End(b)
  /\ UNCHANGED <<linked, log, held, queue, redisVars, clientVars, historyVars>>

\* BroadcastData goes on to BroadcastMarketData.
Broadcasted(b) ==
  /\ held' = [held EXCEPT ![b] = 0]
  /\ IF on[b] = "usd_rate"
       THEN /\ on' = [on EXCEPT ![b] = "market_data"]
            /\ at' = [at EXCEPT ![b] = "market"]
       ELSE End(b)

\* Variant: Publish is called whether or not there is a Redis client.
EnqueueAndPublish(b) ==
  /\ at[b] = "enqueue" /\ Len(queue[Home(b)]) < BroadcastCap
  /\ queue' = [queue EXCEPT ![Home(b)] = Append(@, held[b])]
  /\ at' = [at EXCEPT ![b] = "publish"] /\ UNCHANGED <<on, held>>
  /\ UNCHANGED <<linked, log, redisVars, clientVars, historyVars>>

\* The send on h.broadcast waits while it is full.
Enqueue(b) ==
  /\ at[b] = "enqueue" /\ Len(queue[Home(b)]) < BroadcastCap
  /\ queue' = [queue EXCEPT ![Home(b)] = Append(@, held[b])]
  /\ IF Home(b) \in linked
       THEN at' = [at EXCEPT ![b] = "publish"] /\ UNCHANGED <<on, held>>
       ELSE Broadcasted(b)
  /\ UNCHANGED <<linked, log, redisVars, clientVars, historyVars>>

\* Redis passes a message on to whoever is subscribed just now, the publisher
\* included, and keeps nothing: a subscriber that is not connected misses it.
PassOn(n, to) ==
  inbox' = [i \in Instance |->
              IF i \in to
                THEN [inbox[i] EXCEPT ![log[n].channel] = Append(@, n)]
                ELSE inbox[i]]

Send(b) ==
  /\ at[b] = "publish"
  /\ sent' = [sent EXCEPT ![held[b]] = @ + 1]

\* Redis executes the command and answers.
PublishAnswered(b) ==
  /\ Send(b)
  /\ \E to \in SUBSET linked :
       PassOn(held[b], to) /\ lost' = (lost \/ to # linked)
  /\ Broadcasted(b)
  /\ UNCHANGED <<linked, log, queue, stray, clientVars, lagged, raced>>

\* The connection breaks, or the answer takes longer than go-redis waits.  It
\* sends the command again, up to its limit, and then returns an error, which
\* nobody looks at.  The library cannot know whether Redis got the command.
PublishUnanswered(b) ==
  /\ Send(b)
  /\ stray' = [stray EXCEPT ![held[b]] = @ + 1]
  /\ IF sent[held[b]] < MaxRetries
       THEN UNCHANGED <<castVars, lost>>
       ELSE Broadcasted(b) /\ lost' = TRUE
  /\ UNCHANGED <<linked, log, queue, inbox, clientVars, lagged, raced>>

Publish(b) == PublishAnswered(b) \/ PublishUnanswered(b)

\* What becomes of a command nobody waits for: it never got to Redis, or is
\* executed after all, at once or when newer ones have been.
Late(n) ==
  /\ stray[n] > 0
  /\ stray' = [stray EXCEPT ![n] = @ - 1]
  /\ \E to \in SUBSET linked :
       PassOn(n, to) /\ lost' = (lost \/ to \notin {{}, linked})
  /\ UNCHANGED <<linked, log, castVars, queue, sent, clientVars, lagged, raced>>

(***************************************************************************)
(* What is offered to the clients of an instance: by Run, and by the          *)
(* subscribers, which call broadcastToClients themselves.                    *)
(***************************************************************************)
Offer(i, n) ==
  /\ shown' = [shown EXCEPT ![i][log[n].channel] = n]
  /\ copies' = [copies EXCEPT ![i][n] = @ + 1]

Deliver(i) ==
  /\ queue[i] # <<>>
  /\ queue' = [queue EXCEPT ![i] = Tail(@)]
  /\ Offer(i, Head(queue[i]))
  /\ lagged' = (lagged \/ copies[i][Head(queue[i])] > 0)
  /\ UNCHANGED <<linked, log, castVars, redisVars, lost, raced>>

\* Variant: the subscriber hands what it receives on like a message of its own.
ReceiveAndPublish(i, ch) ==
  /\ inbox[i][ch] # <<>>
  /\ LET n == Head(inbox[i][ch])
     IN  /\ Offer(i, n)
         /\ inbox' = [j \in Instance |->
              LET rest == IF i = j THEN Tail(inbox[j][ch]) ELSE inbox[j][ch]
              IN  [inbox[j] EXCEPT ![ch] = Append(rest, n)]]
  /\ UNCHANGED <<linked, log, castVars, queue, sent, stray, historyVars>>

\* Variant: the subscriber leaves out what its own instance has published.
ReceiveOthers(i, ch) ==
  /\ inbox[i][ch] # <<>>
  /\ inbox' = [inbox EXCEPT ![i][ch] = Tail(@)]
  /\ IF log[Head(inbox[i][ch])].from = i THEN UNCHANGED clientVars
     ELSE Offer(i, Head(inbox[i][ch]))
  /\ UNCHANGED <<linked, log, castVars, queue, sent, stray, historyVars>>

\* Variant: a goroutine per message received, in any order.
ReceiveAny(i, ch) ==
  /\ \E k \in 1 .. Len(inbox[i][ch]) :
       /\ inbox' = [inbox EXCEPT ![i][ch] =
                      SubSeq(@, 1, k - 1) \o SubSeq(@, k + 1, Len(@))]
       /\ Offer(i, inbox[i][ch][k])
  /\ UNCHANGED <<linked, log, castVars, queue, sent, stray, historyVars>>

\* Variant: what is older than what the clients have is left out.
ReceiveNewer(i, ch) ==
  /\ inbox[i][ch] # <<>>
  /\ inbox' = [inbox EXCEPT ![i][ch] = Tail(@)]
  /\ IF Head(inbox[i][ch]) < shown[i][ch] THEN UNCHANGED clientVars
     ELSE Offer(i, Head(inbox[i][ch]))
  /\ UNCHANGED <<linked, log, castVars, queue, sent, stray, historyVars>>

Receive(i, ch) ==
  /\ inbox[i][ch] # <<>>
  /\ inbox' = [inbox EXCEPT ![i][ch] = Tail(@)]
  /\ Offer(i, Head(inbox[i][ch]))
  /\ UNCHANGED <<linked, log, castVars, queue, sent, stray, historyVars>>

CastStep(b) ==
  Prepare(b) \/ PrepareFails(b) \/ Enqueue(b) \/ Publish(b)

\* Nothing is on its way.  Nobody need ever broadcast again.
AtRest ==
  /\ \A b \in Caster : ~Busy(b)
  /\ \A n \in Number : stray[n] = 0
  /\ \A i \in Instance :
       queue[i] = <<>> /\ \A ch \in Channel : inbox[i][ch] = <<>>

Quiet == AtRest /\ UNCHANGED vars

Next ==
  \/ Quiet
  \/ \E b \in Caster : CastStep(b)
  \/ \E n \in Number : Late(n)
  \/ \E i \in Instance : Deliver(i)
  \/ \E i \in Instance, ch \in Channel : Receive(i, ch)

Spec == Init /\ [][Next]_vars

-----------------------------------------------------------------------------
\* The messages meant for the clients of i: its own and, through Redis, those
\* of the others.
Own(i) == {n \in DOMAIN log : log[n].from = i}
For(i) == Own(i) \cup {n \in DOMAIN log : {log[n].from, i} \subseteq linked}

\* The values of every variable: in particular no goroutine gets to Publish
\* without a Redis client (hub.go:262, 285).
TypeOK ==
  /\ linked \subseteq Instance
  /\ log \in Seq([from : Instance, channel : Channel])
  /\ at \in [Caster -> {"off", "market", "enqueue", "publish"}]
  /\ on \in [Caster -> Channel]
  /\ held \in [Caster -> Number \cup {0}]
  /\ \A b \in Caster : /\ Busy(b) => held[b] \in DOMAIN log
                       /\ at[b] = "publish" => Home(b) \in linked
  /\ queue \in [Instance -> Seq(DOMAIN log)]
  /\ sent \in [Number -> 0 .. MaxRetries + 1] /\ stray \in [Number -> Nat]
  /\ \A n \in Number \ DOMAIN log : sent[n] = 0 /\ stray[n] = 0
  /\ \A b \in Caster : at[b] = "publish" => sent[held[b]] <= MaxRetries
  /\ inbox \in [Instance -> [Channel -> Seq(DOMAIN log)]]
  /\ shown \in [Instance -> [Channel -> 0 .. Len(log)]]
  /\ copies \in [Instance -> [Number -> Nat]]
  /\ lost \in BOOLEAN /\ lagged \in BOOLEAN /\ raced \in BOOLEAN

\* What is published for other instances (hub.go:261) is not published again
\* by them, however many there are: its own instance offers a message once,
\* and each linked one, the publisher included, at most once for every time
\* go-redis sent it (pubsub.go:16).
OncePerCommand ==
  \A i \in Instance, n \in DOMAIN log :
    copies[i][n] <= (IF n \in Own(i) THEN 1 ELSE 0)
                    + (IF {log[n].from, i} \subseteq linked THEN sent[n] ELSE 0)

\* Once everything is delivered, the clients of all instances see the same,
\* although each got its own instance's messages by another way and several
\* instances published at once: it is the echo that brings each of them into
\* the order of Redis, in which a repeated message has two places.  It takes
\* that Redis has lost nothing, and that Run was not behind Redis
\* (hub.go:259-264).
AgreeAtRest ==
  AtRest /\ ~lost /\ ~lagged =>
    \A i, j \in linked : shown[i] = shown[j]

\* And it is the newest, unless a message was prepared while another for its
\* channel had yet to go out, when the older may be the last for everybody.
NewestAtRest ==
  AtRest /\ ~lost /\ ~lagged /\ ~raced =>
    \A i \in Instance, ch \in Channel :
      shown[i][ch] = Max({n \in For(i) : log[n].channel = ch} \cup {0})

\* At rest nothing has been forgotten: every message was offered to the clients
\* of its own instance, whatever Redis did (hub.go:259-264), and if Redis has
\* lost nothing, to those of every other instance too (hub.go:297-309).
AllOffered ==
  AtRest =>
    \A i \in Instance :
      /\ \A n \in Own(i) : copies[i][n] > 0
      /\ ~lost => \A n \in For(i) : copies[i][n] > 0
=============================================================================
