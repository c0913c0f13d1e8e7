------------------------------ MODULE KeepAlive ------------------------------
(***************************************************************************)
(* How long a connection lives, websocket/client.go: ReadPump gives every     *)
(* Read pongWait, WritePump pings every pingPeriod and gives the pong        *)
(* writeWait.  The library handles a pong inside Read, which goes on          *)
(* waiting: only a data message makes Read return.                           *)
(*                                                                          *)
(* Time is in seconds, and a deadline that is due is met before time goes on. *)
(* Peer and network are prompt or dead: a live peer's pongs arrive before     *)
(* their deadline, and a talkative one's data messages do as well.           *)
(***************************************************************************)
EXTENDS Naturals

CONSTANTS
  pongWait,     \* 60 in the code
  pingPeriod,   \* 54 in the code
  writeWait,    \* 10 in the code
  Talkative     \* the peer sends data at least once per pongWait

ASSUME KeepAliveAssumption ==
  /\ pongWait \in Nat \ {0} /\ pingPeriod \in Nat \ {0}
  /\ writeWait \in Nat \ {0}
  /\ writeWait < pingPeriod
  /\ pingPeriod < pongWait     \* client.go:15
  /\ Talkative \in BOOLEAN

VARIABLES
  kept,      \* neither pump has returned
  alive,     \* the peer and the network still answer
  deadFor,   \* seconds since they stopped
  reading,   \* seconds the current Read has waited
  silent,    \* seconds since a live talkative peer's last data message
  ticking,   \* seconds since pingTicker last fired
  pinging,   \* a Ping is waiting for its pong
  waited     \* seconds it has waited

vars == <<kept, alive, deadFor, reading, silent, ticking, pinging,
          waited>>

Init ==
  /\ kept = TRUE /\ alive = TRUE /\ deadFor = 0
  /\ reading = 0 /\ silent = 0 /\ ticking = 0
  /\ pinging = FALSE /\ waited = 0

\* The peer is prompt: what it owes by the next second has arrived.
OnTime ==
  alive => /\ pinging => waited + 1 < writeWait
           /\ Talkative => silent + 1 < pongWait

Second ==
  /\ kept /\ OnTime
  /\ reading < pongWait /\ ticking < pingPeriod
  /\ pinging => waited < writeWait
  /\ reading' = reading + 1 /\ ticking' = ticking + 1
  /\ waited' = IF pinging THEN waited + 1 ELSE 0
  /\ silent' = IF alive /\ Talkative THEN silent + 1 ELSE 0
  /\ deadFor' = IF alive THEN 0 ELSE deadFor + 1
  /\ UNCHANGED <<kept, alive, pinging>>

PeerDies ==
  /\ alive
  /\ alive' = FALSE
  /\ UNCHANGED <<kept, deadFor, reading, silent, ticking, pinging, waited>>

\* Variant: one context with a timeout serves all the Reads.
ReadInOneContext ==
  /\ kept /\ alive /\ reading < pongWait
  /\ silent' = 0
  /\ UNCHANGED <<kept, alive, deadFor, reading, ticking, pinging, waited>>

\* Read returns a data message and the next one gets a new context.
Read ==
  /\ kept /\ alive /\ reading < pongWait
  /\ reading' = 0 /\ silent' = 0
  /\ UNCHANGED <<kept, alive, deadFor, ticking, pinging, waited>>

Drop ==
  /\ kept' = FALSE
  /\ UNCHANGED <<alive, deadFor, reading, silent, ticking, pinging, waited>>

\* Variant: Read waits as long as it takes, and the deadline is forgotten.
ReadWithoutTimeout ==
  /\ kept /\ reading = pongWait
  /\ reading' = 0
  /\ UNCHANGED <<kept, alive, deadFor, silent, ticking, pinging, waited>>

ReadTimeout == kept /\ reading = pongWait /\ Drop

\* Variant: the ping goes out before its tick is received.
PingBeforeTick ==
  /\ kept /\ ticking < pingPeriod /\ ~pinging
  /\ pinging' = TRUE /\ waited' = 0
  /\ UNCHANGED <<kept, alive, deadFor, reading, silent, ticking>>

Ping ==
  /\ kept /\ ticking = pingPeriod /\ ~pinging
  /\ pinging' = TRUE /\ waited' = 0
  /\ ticking' = 0
  /\ UNCHANGED <<kept, alive, deadFor, reading, silent>>

Pong ==
  /\ kept /\ alive /\ pinging
  /\ pinging' = FALSE /\ waited' = 0
  /\ UNCHANGED <<kept, alive, deadFor, reading, silent, ticking>>

PingTimeout == kept /\ pinging /\ waited = writeWait /\ Drop

Dropped == ~kept /\ UNCHANGED vars

Next ==
  \/ Second \/ PeerDies \/ Read \/ ReadTimeout
  \/ Ping \/ Pong \/ PingTimeout \/ Dropped

Spec == Init /\ [][Next]_vars

-----------------------------------------------------------------------------
Flags  == kept \in BOOLEAN /\ alive \in BOOLEAN /\ pinging \in BOOLEAN

Clocks ==
  /\ deadFor \in Nat /\ silent \in Nat
  /\ reading \in 0 .. pongWait /\ ticking \in 0 .. pingPeriod
  /\ waited \in 0 .. writeWait /\ (pinging => waited = ticking)

\* The values of every variable: in particular no deadline is overrun, and a
\* Ping has waited as long as its tick is old (client.go:104-107).
TypeOK == Flags /\ Clocks

\* A peer that has gone is noticed within pongWait of its last sign of life,
\* whatever the pings were doing (client.go:50-61, 104-112).
DeadIsDropped == kept => deadFor <= pongWait

\* A peer that answers every ping in time keeps its connection: what pongWait
\* allows for is "to read the next pong message" (client.go:12).
PromptIsKept == alive => kept
=============================================================================
