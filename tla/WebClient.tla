------------------------------ MODULE WebClient ------------------------------
(***************************************************************************)
(* The connection machinery of the dashboard, web/static/js/app.js: one page *)
(* whose handlers share state.ws, state.isConnected, state.reconnectTimer    *)
(* and state.reconnectAttempts between all the sockets it ever opened.       *)
(*                                                                          *)
(* The page is single threaded, so a handler is one step; sockets and timers *)
(* act between the handlers in any order.  A socket is one of Slots, taken   *)
(* again once it is closed.  Beyond the readyState of the browser, a socket   *)
(* the page has closed remembers which call closed it, since that decides    *)
(* the code of its close event:                                             *)
(*   replaced      close() of an open socket in connectWebSocket             *)
(*   timedOut      close() of a connecting socket after ten seconds          *)
(*   disconnected  close(1000) of an open socket in disconnectWebSocket      *)
(*   aborted       close(1000) of a connecting socket there                  *)
(* The network may lose any connection (code 1006); the server closes with   *)
(* going away (code 1001).  Delays only order the timers and are left out.   *)
(***************************************************************************)
EXTENDS Integers, FiniteSets

CONSTANTS
  Slots,        \* sockets that can exist at once, a bound of the model
  NoSocket,     \* state.ws = null
  MaxAttempts,  \* state.maxReconnectAttempts (10 in the code)
  MaxLost       \* bound of the count of timers no variable refers to

ASSUME WebClientAssumption ==
  NoSocket \notin Slots /\ MaxAttempts \in Nat \ {0} /\ MaxLost \in Nat \ {0}

VARIABLES
  socket,          \* per slot: the state of the socket
  ws,              \* state.ws
  isConnected,     \* state.isConnected
  reconnectTimer,  \* state.reconnectTimer refers to a pending timer
  lostTimers,      \* pending reconnect timers whose handle was overwritten
  attempts,        \* state.reconnectAttempts
  wanted           \* history: the user's last word was not Disconnect

timerVars == <<reconnectTimer, lostTimers, attempts>>
vars == <<socket, ws, isConnected, timerVars, wanted>>

SocketState == {"closed", "connecting", "open", "replaced", "timedOut",
                "disconnected", "aborted"}

\* The codes a close event can carry; 1005 answers a close without a code.
CloseCodes(s) ==
  CASE socket[s] \in {"connecting", "timedOut", "aborted"} -> {1006}
    [] socket[s] = "open"         -> {1001, 1006}
    [] socket[s] = "replaced"     -> {1001, 1005, 1006}
    [] socket[s] = "disconnected" -> {1000, 1001, 1006}
    [] OTHER                      -> {}

\* init connects at once.
Init ==
  /\ \E s \in Slots :
       /\ socket = [x \in Slots |-> IF x = s THEN "connecting" ELSE "closed"]
       /\ ws = s
  /\ isConnected = FALSE
  /\ reconnectTimer = FALSE /\ lostTimers = 0 /\ attempts = 0
  /\ wanted = TRUE

\* Lost timers are counted up to MaxLost, which stands for that many or more.
OneMoreLost == IF lostTimers < MaxLost THEN lostTimers + 1 ELSE MaxLost
OneLostLess == IF lostTimers < MaxLost THEN {lostTimers - 1}
               ELSE {MaxLost - 1, MaxLost}

\* Variant: the attempt limit is not looked at.
ScheduleForever ==
  /\ attempts' = attempts + 1
  /\ lostTimers' = IF reconnectTimer THEN OneMoreLost ELSE lostTimers
  /\ reconnectTimer' = TRUE

\* Variant: the limit is compared off by one and the last attempt is lost.
ScheduleOneFewer ==
  IF attempts >= MaxAttempts - 1
    THEN UNCHANGED timerVars
    ELSE /\ attempts' = attempts + 1
         /\ lostTimers' = IF reconnectTimer THEN OneMoreLost ELSE lostTimers
         /\ reconnectTimer' = TRUE

\* A timer still pending in state.reconnectTimer is overwritten, not cleared.
scheduleReconnect ==
  IF attempts >= MaxAttempts
    THEN UNCHANGED timerVars
    ELSE /\ attempts' = attempts + 1
         /\ lostTimers' = IF reconnectTimer THEN OneMoreLost ELSE lostTimers
         /\ reconnectTimer' = TRUE

\* Closes state.ws only when it is open, and points it to a new socket.
connectWebSocket(lost) ==
  /\ \E s \in Slots :
       /\ socket[s] = "closed"
       /\ socket' = [x \in Slots |->
            IF x = s THEN "connecting"
            ELSE IF x = ws /\ socket[x] = "open" THEN "replaced"
            ELSE socket[x]]
       /\ ws' = s
  /\ reconnectTimer' = FALSE /\ lostTimers' = lost
  /\ UNCHANGED <<isConnected, attempts>>

\* The Connect button.
Connect ==
  /\ connectWebSocket(lostTimers)
  /\ wanted' = TRUE

\* visibilitychange and online: connect unless the page believes it is.
CheckConnection ==
  /\ ~isConnected
  /\ connectWebSocket(lostTimers)
  /\ wanted' = TRUE

\* A reconnect timer fires, the one state.reconnectTimer names or a lost one.
TimerFires ==
  /\ \/ reconnectTimer /\ connectWebSocket(lostTimers)
     \/ lostTimers > 0 /\ \E lost \in OneLostLess : connectWebSocket(lost)
  /\ UNCHANGED wanted

\* The ten second timer of some connectWebSocket call looks at state.ws,
\* whichever socket that is by now.
ConnectTimeout ==
  /\ ws # NoSocket /\ socket[ws] = "connecting"
  /\ socket' = [socket EXCEPT ![ws] = "timedOut"]
  /\ UNCHANGED <<ws, isConnected, timerVars, wanted>>

handleWebSocketOpen(s) ==
  /\ socket[s] = "connecting"
  /\ socket' = [socket EXCEPT ![s] = "open"]
  /\ isConnected' = TRUE /\ attempts' = 0
  /\ UNCHANGED <<ws, reconnectTimer, lostTimers, wanted>>

\* Variant: a close event schedules a reconnect and leaves isConnected.
CloseKeepsConnected(s) ==
  /\ socket[s] # "closed"
  /\ socket' = [socket EXCEPT ![s] = "closed"]
  /\ \E code \in CloseCodes(s) :
       IF code # 1000 THEN scheduleReconnect ELSE UNCHANGED timerVars
  /\ UNCHANGED <<ws, isConnected, wanted>>

\* Variant: only a close the page did not expect while open is retried.
CloseRetriesOpen(s) ==
  /\ socket[s] # "closed"
  /\ socket' = [socket EXCEPT ![s] = "closed"]
  /\ isConnected' = FALSE
  /\ IF socket[s] = "open" THEN scheduleReconnect ELSE UNCHANGED timerVars
  /\ UNCHANGED <<ws, wanted>>

\* The close event of any socket the page ever opened, however it closed.
handleWebSocketClose(s) ==
  /\ socket[s] # "closed"
  /\ socket' = [socket EXCEPT ![s] = "closed"]
  /\ isConnected' = FALSE
  /\ \E code \in CloseCodes(s) :
       IF code # 1000 THEN scheduleReconnect ELSE UNCHANGED timerVars
  /\ UNCHANGED <<ws, wanted>>

disconnectWebSocket ==
  /\ socket' = [x \in Slots |->
       IF x # ws THEN socket[x]
       ELSE IF socket[x] = "open" THEN "disconnected"
       ELSE IF socket[x] = "connecting" THEN "aborted"
       ELSE socket[x]]
  /\ ws' = NoSocket
  /\ reconnectTimer' = FALSE
  /\ isConnected' = FALSE /\ wanted' = FALSE
  /\ UNCHANGED <<lostTimers, attempts>>

Next ==
  \/ Connect \/ CheckConnection \/ TimerFires \/ ConnectTimeout
  \/ disconnectWebSocket
  \/ \E s \in Slots : handleWebSocketOpen(s) \/ handleWebSocketClose(s)

Spec == Init /\ [][Next]_vars

(***************************************************************************)
(* Pending timers fire and a socket that is connecting or closing comes to  *)
(* an end, as the browser guarantees; nobody has to click or to stay up.    *)
(***************************************************************************)
Settles(s) ==
  \/ handleWebSocketOpen(s)
  \/ socket[s] # "open" /\ handleWebSocketClose(s)

FairSpec ==
  /\ Spec
  /\ WF_vars(TimerFires)
  /\ \A s \in Slots : WF_vars(Settles(s))

-----------------------------------------------------------------------------
\* The values of every variable: in particular the attempts never run past
\* their limit, however many timers are pending (app.js:252-261).
TypeOK ==
  /\ socket \in [Slots -> SocketState]
  /\ ws \in Slots \cup {NoSocket}
  /\ isConnected \in BOOLEAN
  /\ reconnectTimer \in BOOLEAN
  /\ lostTimers \in 0 .. MaxLost
  /\ attempts \in 0 .. MaxAttempts
  /\ wanted \in BOOLEAN

Live(s)  == socket[s] \in {"connecting", "open"}
Retrying == reconnectTimer \/ lostTimers > 0

\* A page that wants a connection is never stranded: it has a socket that is
\* open, connecting or closing, or a reconnect timer, or it has used up all
\* its attempts (app.js:247-261), however the close events of old sockets
\* fell between its own calls.
NeverStranded ==
  wanted => \/ \E s \in Slots : socket[s] # "closed"
            \/ Retrying \/ attempts = MaxAttempts

\* The page shows Connected only while a socket is open or being closed.
ConnectedIsReal ==
  isConnected => \E s \in Slots : socket[s] \in {"open", "replaced"}

\* A page that has lost its connection gets one, gives up after its attempts
\* or is disconnected by its user.
LostIsRetried ==
  wanted /\ (\A s \in Slots : ~Live(s)) ~>
    \/ ~wanted \/ attempts = MaxAttempts
    \/ \E s \in Slots : socket[s] = "open"

\* A reconnect is scheduled only for a close that was not the page's own
\* (app.js:246, "Attempt to reconnect if not closed intentionally").
Own == {"replaced", "disconnected", "aborted"}

NoReconnectAfterOwnClose ==
  [][\A s \in Slots :
       socket[s] \in Own /\ socket'[s] = "closed" => attempts' = attempts]_vars
=============================================================================
