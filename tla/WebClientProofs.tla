-------------------------- MODULE WebClientProofs ---------------------------
(***************************************************************************)
(* For any number of sockets and attempts: the dashboard is never stranded,  *)
(* and shows Connected only with a socket.  NeverStranded is not inductive:   *)
(* a socket the page disconnected itself may be the only one left, and its    *)
(* close event with code 1000 schedules nothing.  What holds is that such a   *)
(* socket is never the only reason: the call that disconnects also ends the   *)
(* wish for a connection, and whoever renews it opens a new socket.          *)
(***************************************************************************)
EXTENDS WebClient, TLAPS

\* A socket whose close event will ask for a reconnect.
Retried(s) == socket[s] \notin {"closed", "disconnected"}

Served ==
  wanted => (\E s \in Slots : Retried(s)) \/ Retrying \/ attempts = MaxAttempts

LEMMA ScheduleTyped ==
  ASSUME TypeOK, scheduleReconnect
  PROVE  /\ reconnectTimer' \in BOOLEAN
         /\ lostTimers' \in 0 .. MaxLost
         /\ attempts' \in 0 .. MaxAttempts
         /\ Retrying' \/ attempts' = MaxAttempts
<1> USE WebClientAssumption DEF TypeOK, timerVars
<1>1. CASE attempts >= MaxAttempts
  BY <1>1 DEF scheduleReconnect, Retrying
<1>2. CASE ~(attempts >= MaxAttempts)
  BY <1>2 DEF scheduleReconnect, OneMoreLost, Retrying
<1>3. QED
  BY <1>1, <1>2

LEMMA CloseSchedules ==
  ASSUME TypeOK, NEW s \in Slots, handleWebSocketClose(s)
  PROVE  /\ reconnectTimer' \in BOOLEAN
         /\ lostTimers' \in 0 .. MaxLost
         /\ attempts' \in 0 .. MaxAttempts
         /\ Retried(s) => Retrying' \/ attempts' = MaxAttempts
<1>1. PICK code \in CloseCodes(s) :
        IF code # 1000 THEN scheduleReconnect ELSE UNCHANGED timerVars
  BY DEF handleWebSocketClose
<1>2. CASE code # 1000
  BY <1>1, <1>2, ScheduleTyped
<1>3. CASE code = 1000
  <2>1. ~Retried(s)
    BY <1>3 DEF CloseCodes, Retried, TypeOK, SocketState
  <2>2. QED
    BY <1>1, <1>3, <2>1 DEF TypeOK, timerVars
<1>4. QED
  BY <1>2, <1>3

LEMMA ConnectOpens ==
  ASSUME TypeOK, NEW lost, connectWebSocket(lost)
  PROVE  /\ socket' \in [Slots -> SocketState]
         /\ ws' \in Slots
         /\ \E s \in Slots : Retried(s)'
         /\ ConnectedIsReal => ConnectedIsReal'
<1>1. PICK s \in Slots :
        /\ socket[s] = "closed"
        /\ socket' = [x \in Slots |->
             IF x = s THEN "connecting"
             ELSE IF x = ws /\ socket[x] = "open" THEN "replaced"
             ELSE socket[x]]
        /\ ws' = s
  BY DEF connectWebSocket
<1>2. Retried(s)'
  BY <1>1 DEF Retried
<1>3. \A x \in Slots : socket[x] \in {"open", "replaced"} =>
                         socket'[x] \in {"open", "replaced"}
  BY <1>1
<1>4. isConnected' = isConnected
  BY DEF connectWebSocket
<1>5. socket' \in [Slots -> SocketState] /\ ws' \in Slots
  BY <1>1 DEF TypeOK, SocketState
<1>6. QED
  BY <1>2, <1>3, <1>4, <1>5 DEF ConnectedIsReal

\* The values of every variable, however many timers are pending
\* (app.js:252-261).
THEOREM WebClientTyped == Spec => []TypeOK
<1>1. Init => TypeOK
  <2> SUFFICES ASSUME Init PROVE TypeOK
    OBVIOUS
  <2>1. socket \in [Slots -> SocketState] /\ ws \in Slots
    BY DEF Init, SocketState
  <2>2. /\ isConnected \in BOOLEAN /\ reconnectTimer \in BOOLEAN
        /\ wanted \in BOOLEAN
    BY Zenon DEF Init
  <2>3. lostTimers \in 0 .. MaxLost /\ attempts \in 0 .. MaxAttempts
    BY WebClientAssumption DEF Init
  <2>4. QED
    BY <2>1, <2>2, <2>3 DEF TypeOK
<1>2. TypeOK /\ [Next]_vars => TypeOK'
  <2> SUFFICES ASSUME TypeOK, [Next]_vars PROVE TypeOK'
    OBVIOUS
  <2>1. CASE Connect
    BY <2>1, ConnectOpens DEF Connect, connectWebSocket, TypeOK
  <2>2. CASE CheckConnection
    BY <2>2, ConnectOpens DEF CheckConnection, connectWebSocket, TypeOK
  <2>3. CASE TimerFires
    <3>1. PICK lost \in {lostTimers} \cup (IF lostTimers > 0 THEN OneLostLess ELSE {}) :
            connectWebSocket(lost)
      BY <2>3 DEF TimerFires
    <3>2. lost \in 0 .. MaxLost
      BY <3>1, WebClientAssumption DEF OneLostLess, TypeOK
    <3>3. QED
      BY <2>3, <3>1, <3>2, ConnectOpens DEF TimerFires, connectWebSocket, TypeOK
  <2>4. CASE ConnectTimeout
    BY <2>4 DEF ConnectTimeout, timerVars, TypeOK, SocketState
  <2>5. CASE disconnectWebSocket
    BY <2>5, WebClientAssumption DEF disconnectWebSocket, TypeOK, SocketState
  <2>6. ASSUME NEW s \in Slots, handleWebSocketOpen(s) PROVE TypeOK'
    BY <2>6, WebClientAssumption DEF handleWebSocketOpen, TypeOK, SocketState
  <2>7. ASSUME NEW s \in Slots, handleWebSocketClose(s) PROVE TypeOK'
    <3>1. socket' \in [Slots -> SocketState]
      BY <2>7 DEF handleWebSocketClose, TypeOK, SocketState
    <3>2. UNCHANGED <<ws, wanted>> /\ isConnected' = FALSE
      BY <2>7 DEF handleWebSocketClose
    <3>3. QED
      BY <2>7, <3>1, <3>2, CloseSchedules DEF TypeOK
  <2>8. CASE UNCHANGED vars
    BY <2>8 DEF vars, timerVars, TypeOK
  <2>9. QED
    BY <2>1, <2>2, <2>3, <2>4, <2>5, <2>6, <2>7, <2>8 DEF Next
<1>3. QED
  BY <1>1, <1>2, PTL DEF Spec

\* A page that wants a connection has a socket, a timer or no attempts left
\* (app.js:247-261), for any number of sockets and attempts.
THEOREM NeverStrandedHolds == Spec => []NeverStranded
<1>1. Init => Served
  BY DEF Init, Served, Retried
<1>2. TypeOK /\ Served /\ [Next]_vars => Served'
  <2> SUFFICES ASSUME TypeOK, Served, [Next]_vars PROVE Served'
    OBVIOUS
  <2>1. CASE Connect \/ CheckConnection \/ TimerFires
    BY <2>1, ConnectOpens DEF Connect, CheckConnection, TimerFires, Served
  <2>2. CASE ConnectTimeout
    <3>1. \A s \in Slots : Retried(s) => Retried(s)'
      BY <2>2 DEF ConnectTimeout, Retried, TypeOK
    <3>2. QED
      BY <2>2, <3>1 DEF ConnectTimeout, timerVars, Served, Retrying
  <2>3. CASE disconnectWebSocket
    BY <2>3 DEF disconnectWebSocket, Served
  <2>4. ASSUME NEW s \in Slots, handleWebSocketOpen(s) PROVE Served'
    BY <2>4 DEF handleWebSocketOpen, Served, Retried, TypeOK
  <2>5. ASSUME NEW s \in Slots, handleWebSocketClose(s) PROVE Served'
    <3>1. \A x \in Slots \ {s} : socket'[x] = socket[x]
      BY <2>5 DEF handleWebSocketClose, TypeOK
    <3>2. wanted' = wanted
      BY <2>5 DEF handleWebSocketClose
    <3>3. CASE Retried(s)
      BY <2>5, <3>3, CloseSchedules DEF Served
    <3>4. CASE ~Retried(s)
      <4>1. socket[s] = "disconnected"
        BY <2>5, <3>4 DEF handleWebSocketClose, Retried
      <4>2. PICK code \in CloseCodes(s) :
              IF code # 1000 THEN scheduleReconnect ELSE UNCHANGED timerVars
        BY <2>5 DEF handleWebSocketClose
      <4>3. CASE code # 1000
        BY <4>2, <4>3, ScheduleTyped DEF Served
      <4>4. CASE code = 1000
        BY <3>1, <3>2, <3>4, <4>2, <4>4 DEF Served, Retried, Retrying, timerVars
      <4>5. QED
        BY <4>3, <4>4
    <3>5. QED
      BY <3>3, <3>4
  <2>6. CASE UNCHANGED vars
    BY <2>6 DEF vars, timerVars, Served, Retried, Retrying
  <2>7. QED
    BY <2>1, <2>2, <2>3, <2>4, <2>5, <2>6 DEF Next
<1>3. Served => NeverStranded
  BY DEF Served, Retried, NeverStranded
<1>4. QED
  BY <1>1, <1>2, <1>3, WebClientTyped, PTL DEF Spec

\* Connected is shown only while a socket is open or being closed
\* (app.js:175-262), for any number of sockets.
THEOREM ConnectedIsRealHolds == Spec => []ConnectedIsReal
<1>1. Init => ConnectedIsReal
  BY DEF Init, ConnectedIsReal
<1>2. TypeOK /\ ConnectedIsReal /\ [Next]_vars => ConnectedIsReal'
  <2> SUFFICES ASSUME TypeOK, ConnectedIsReal, [Next]_vars
               PROVE  ConnectedIsReal'
    OBVIOUS
  <2>1. CASE Connect \/ CheckConnection \/ TimerFires
    BY <2>1, ConnectOpens DEF Connect, CheckConnection, TimerFires
  <2>2. CASE ConnectTimeout
    <3>1. \A s \in Slots : socket[s] \in {"open", "replaced"} =>
                             socket'[s] \in {"open", "replaced"}
      BY <2>2 DEF ConnectTimeout, TypeOK
    <3>2. QED
      BY <2>2, <3>1 DEF ConnectTimeout, ConnectedIsReal
  <2>3. CASE disconnectWebSocket
    BY <2>3 DEF disconnectWebSocket, ConnectedIsReal
  <2>4. ASSUME NEW s \in Slots, handleWebSocketOpen(s) PROVE ConnectedIsReal'
    BY <2>4 DEF handleWebSocketOpen, ConnectedIsReal, TypeOK
  <2>5. ASSUME NEW s \in Slots, handleWebSocketClose(s) PROVE ConnectedIsReal'
    BY <2>5 DEF handleWebSocketClose, ConnectedIsReal
  <2>6. CASE UNCHANGED vars
    BY <2>6 DEF vars, ConnectedIsReal
  <2>7. QED
    BY <2>1, <2>2, <2>3, <2>4, <2>5, <2>6 DEF Next
<1>3. QED
  BY <1>1, <1>2, WebClientTyped, PTL DEF Spec
=============================================================================
