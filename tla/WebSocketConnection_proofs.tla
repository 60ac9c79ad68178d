---------------------- MODULE WebSocketConnection_proofs ----------------------
(***************************************************************************)
(* What holds of a WebSocketConnection for every number of sockets, every  *)
(* delay, every list of symbols and every setting of its flags.            *)
(***************************************************************************)
EXTENDS WebSocketConnection, TLAPS

-----------------------------------------------------------------------------
(* Type correctness.                                                       *)

LEMMA SendType ==
  ASSUME TypeOK, NEW m \in Message, Send(m)
  PROVE  /\ sendBufferList' \in Seq(Message)
         /\ writable' \subseteq Wsi
BY DEF TypeOK, Send, Push, RequestWritable, Open

LEMMA SymbolType ==
  ASSUME NEW i \in 1 .. Len(symbols)
  PROVE  symbols[i] \in Message
BY SymbolsAssumption DEF Message, Topic

LEMMA OpenSocketType ==
  ASSUME TypeOK, OpenSocket
  PROVE  /\ connectStatus' \in {"CONNECTED", "CLOSED"}
         /\ client' \in Wsi \cup {NoWsi}
         /\ wsiState' \in [Wsi -> {"free", "connecting", "open", "killed", "closing"}]
BY DEF TypeOK, OpenSocket

LEMMA FreeType ==
  ASSUME TypeOK, NEW ws, Free(ws)
  PROVE  /\ wsiState' \in [Wsi -> {"free", "connecting", "open", "killed", "closing"}]
         /\ writable' \subseteq Wsi
         /\ sent' \in [Wsi -> SUBSET Message]
         /\ authorised' \subseteq Wsi
BY DEF TypeOK, Free

LEMMA FlushType ==
  ASSUME TypeOK, NEW w \in Wsi, Flush(w)
  PROVE  TypeOK'
<1>1. \A n \in 0 .. Len(sendBufferList) : Prefix(n) \subseteq Message
  BY DEF TypeOK, Prefix
<1>2. sent' \in [Wsi -> SUBSET Message]
  <2>1. CASE FlushAll(w)
    BY <1>1, <2>1 DEF TypeOK, FlushAll
  <2>2. CASE FlushFails(w)
    BY <1>1, <2>2 DEF TypeOK, FlushFails
  <2> QED
    BY <2>1, <2>2 DEF Flush
<1>3. wsiState' \in [Wsi -> {"free", "connecting", "open", "killed", "closing"}]
  BY DEF TypeOK, Flush, FlushAll, FlushFails
<1> QED
  BY <1>2, <1>3 DEF TypeOK, Flush, service, watchdog

LEMMA TypeInit == Init => TypeOK
<1> SUFFICES ASSUME Init
             PROVE  TypeOK
  OBVIOUS
<1>1. cursor \in 1 .. Len(symbols) + 1
  BY SymbolsAssumption DEF Init
<1>2. delayInSecond \in 0 .. connectionDelayOnFailure
  BY DelayAssumption DEF Init
<1>3. sendBufferList \in Seq(Message)
  BY DEF Init
<1> QED
  BY <1>1, <1>2, <1>3 DEF Init, TypeOK, ServicePc, DogPc

LEMMA TypeStep ==
  ASSUME TypeOK, [Next]_vars
  PROVE  TypeOK'
<1> USE DEF TypeOK, ServicePc, DogPc, OpenPc, ClosePc, ServerMessage
<1>1. CASE Service
  <2>1. CASE StartConnect
    BY <2>1, OpenSocketType DEF StartConnect, watchdog
  <2>2. CASE Callback
    <3>1. CASE OpenLine \/ OpenTime \/ OpenClient \/ OpenRegister
      BY <3>1 DEF OpenLine, OpenTime, OpenClient, OpenRegister, network, watchdog
    <3>2. CASE OpenGreet
      BY <3>2, SendType DEF OpenGreet, Message, watchdog
    <3>3. CASE Handler
      BY <3>3, SendType, SymbolType, SymbolsAssumption DEF Handler, watchdog
    <3>4. CASE HandlePing
      BY <3>4, SendType DEF HandlePing, Message, watchdog
    <3>5. CASE HandleAuth \/ HandleQuiet \/ HandleError
      BY <3>5 DEF HandleAuth, HandleQuiet, HandleError, connection, network, watchdog
    <3>6. CASE CloseKill
      BY <3>6 DEF CloseKill, Crash, connection
    <3>7. CASE CloseIdle \/ CloseUnregister
      BY <3>7 DEF CloseIdle, CloseUnregister, network, watchdog
    <3>8. CASE Disconnect \/ EndService
      BY <3>8, FreeType DEF Disconnect, EndService, watchdog
    <3> QED
      BY <2>2, <3>1, <3>2, <3>3, <3>4, <3>5, <3>6, <3>7, <3>8 DEF Callback
  <2>3. ASSUME NEW w \in Wsi, Established(w) \/ Lost(w)
        PROVE  TypeOK'
    BY <2>3 DEF Established, Lost, watchdog
  <2>4. ASSUME NEW w \in Wsi, Flush(w)
        PROVE  TypeOK'
    BY <2>4, FlushType
  <2>5. ASSUME NEW w \in Wsi, NEW m \in ServerMessage, Receive(w, m)
        PROVE  TypeOK'
    <3>1. authorised' \subseteq Wsi
      BY <2>5 DEF Receive
    <3>2. servicePc' \in ServerMessage
      BY <2>5 DEF Receive
    <3> QED
      BY <2>5, <3>1, <3>2 DEF Receive, watchdog
  <2> QED
    BY <1>1, <2>1, <2>2, <2>3, <2>4, <2>5 DEF Service
<1>2. CASE Dog
  <2>1. CASE Look \/ CheckActive \/ GiveUp \/ Reconnect
    BY <2>1 DEF Look, CheckActive, GiveUp, Reconnect, connection, service, network
  <2>2. CASE GiveUpClose
    BY <2>2 DEF GiveUpClose, Push, Message, service, network
  <2>3. CASE GiveUpRequest
    BY <2>3 DEF GiveUpRequest, RequestWritable, Open, Crash, connection
  <2>4. CASE GiveUpForget \/ GiveUpDelay \/ CountDown \/ ConnectActive
    BY <2>4, DelayAssumption
    DEF GiveUpForget, GiveUpDelay, CountDown, ConnectActive, service, network
  <2>5. CASE Connect
    BY <2>5, OpenSocketType DEF Connect, Crash
  <2> QED
    BY <1>2, <2>1, <2>2, <2>3, <2>4, <2>5 DEF Dog
<1>3. CASE Silence
  BY <1>3 DEF Silence, service, watchdog, network
<1>4. CASE UNCHANGED vars
  BY <1>4 DEF vars, connection, service, watchdog, network
<1> QED
  BY <1>1, <1>2, <1>3, <1>4 DEF Next

\* Every field keeps its type; in particular the watchdog never counts
\* delayInSecond below zero.
THEOREM TypeCorrect == Spec => []TypeOK
<1>1. Init => TypeOK
  BY TypeInit
<1>2. TypeOK /\ [Next]_vars => TypeOK'
  BY TypeStep
<1> QED
  BY <1>1, <1>2, PTL DEF Spec

-----------------------------------------------------------------------------
(* The client pointer and connectStatus.                                   *)

\* What onOpen is about to store in client, and what disconnect() is about to
\* let go of: the two callbacks in which the fields lag behind the sockets.
Opening ==
  servicePc \in {"setLine", "setTime", "setClient"} => serviceWsi \in Attached

Closing == servicePc = "disconnect" => connectStatus = "CLOSED"

ClientInv ==
  /\ TypeOK
  /\ ClientIsAttached
  /\ ConnectedHasSession
  /\ Opening
  /\ Closing

\* A step that keeps the attached sockets, client, connectStatus and the
\* callback in progress as they are, or moves on to an unrelated one.
LEMMA ClientUnchanged ==
  ASSUME ClientInv, TypeOK',
         Attached \subseteq Attached',
         client' \in {client, NoWsi},
         connectStatus' \in {connectStatus, "CLOSED"},
         servicePc' \in {"setLine", "setTime", "setClient", "disconnect"}
           => servicePc' = servicePc /\ serviceWsi' = serviceWsi
  PROVE  ClientInv'
BY WsiAssumption
DEF ClientInv, ClientIsAttached, ConnectedHasSession, Opening, Closing, TypeOK

LEMMA ClientInit == Init => ClientInv
<1>1. Init => TypeOK
  BY TypeInit
<1> QED
  BY <1>1 DEF Init, ClientInv, ClientIsAttached, ConnectedHasSession, Opening, Closing

LEMMA ClientStep ==
  ASSUME ClientInv, TypeOK', [Next]_vars
  PROVE  ClientInv'
<1>0. TypeOK
  BY DEF ClientInv
<1>1. ASSUME UNCHANGED <<client, connectStatus, wsiState, serviceWsi>>,
             servicePc' \in {"setLine", "setTime", "setClient", "disconnect"}
               => servicePc' = servicePc
      PROVE  ClientInv'
  BY <1>1, ClientUnchanged DEF Attached
<1>2. CASE Service
  <2>1. CASE StartConnect
    <3>1. Attached \subseteq Attached'
      BY <1>0, <2>1 DEF StartConnect, OpenSocket, Attached, TypeOK
    <3> QED
      BY <2>1, <3>1, ClientUnchanged DEF StartConnect, OpenSocket
  <2>2. CASE Callback
    <3>1. CASE OpenLine
      BY <3>1 DEF OpenLine, network, ClientInv, ClientIsAttached, ConnectedHasSession,
                  Opening, Closing, Attached
    <3>2. CASE OpenTime
      BY <3>2 DEF OpenTime, network, ClientInv, ClientIsAttached, ConnectedHasSession,
                  Opening, Closing, Attached
    <3>3. CASE OpenClient
      BY <3>3 DEF OpenClient, network, ClientInv, ClientIsAttached, ConnectedHasSession,
                  Opening, Closing, Attached
    <3>4. CASE OpenRegister \/ OpenGreet \/ Handler \/ HandlePing \/ HandleAuth
                 \/ HandleQuiet \/ HandleError \/ CloseIdle \/ CloseUnregister
      BY <1>1, <3>4
      DEF OpenRegister, OpenGreet, Handler, HandlePing, HandleAuth, HandleQuiet,
          HandleError, CloseIdle, CloseUnregister, connection, network
    <3>5. CASE CloseKill
      <4>1. Attached \subseteq Attached'
        BY <1>0, <3>5 DEF CloseKill, Attached, TypeOK
      <4> QED
        BY <3>5, <4>1, ClientUnchanged DEF CloseKill, Crash, connection
    <3>6. CASE Disconnect
      BY <3>6, WsiAssumption
      DEF Disconnect, ClientInv, ClientIsAttached, ConnectedHasSession, Opening, Closing
    <3>7. CASE EndService
      BY <3>7 DEF EndService, ClientInv, ClientIsAttached, ConnectedHasSession, Opening,
                  Closing
    <3> QED
      BY <2>2, <3>1, <3>2, <3>3, <3>4, <3>5, <3>6, <3>7 DEF Callback
  <2>3. ASSUME NEW w \in Wsi, Established(w)
        PROVE  ClientInv'
    <3>1. Attached' = Attached \cup {w}
      BY <1>0, <2>3 DEF Established, Attached, TypeOK
    <3> QED
      BY <2>3, <3>1 DEF Established, ClientInv, ClientIsAttached, ConnectedHasSession,
                        Opening, Closing
  <2>4. ASSUME NEW w \in Wsi, Lost(w)
        PROVE  ClientInv'
    <3>1. Attached \subseteq Attached'
      BY <1>0, <2>4 DEF Lost, Attached, TypeOK
    <3> QED
      BY <2>4, <3>1 DEF Lost, ClientInv, ClientIsAttached, ConnectedHasSession, Opening,
                        Closing
  <2>5. ASSUME NEW w \in Wsi, Flush(w)
        PROVE  ClientInv'
    <3>1. Attached \subseteq Attached'
      BY <1>0, <2>5 DEF Flush, FlushAll, FlushFails, Open, Attached, TypeOK
    <3> QED
      BY <2>5, <3>1, ClientUnchanged DEF Flush, service
  <2>6. ASSUME NEW w \in Wsi, NEW m \in ServerMessage, Receive(w, m)
        PROVE  ClientInv'
    BY <1>1, <2>6 DEF Receive, ServerMessage
  <2> QED
    BY <1>2, <2>1, <2>2, <2>3, <2>4, <2>5, <2>6 DEF Service
<1>3. CASE Dog
  <2>1. CASE Look \/ CheckActive \/ GiveUp \/ GiveUpClose \/ GiveUpDelay
             \/ CountDown \/ Reconnect
               \/ ConnectActive
    BY <1>1, <2>1
    DEF Look, CheckActive, GiveUp, GiveUpClose, GiveUpDelay, CountDown, Reconnect, ConnectActive,
        connection, service, network
  <2>2. CASE GiveUpRequest
    BY <1>1, <2>2 DEF GiveUpRequest, Crash, connection
  <2>3. CASE GiveUpForget
    BY <2>3, ClientUnchanged DEF GiveUpForget, service, network, Attached
  <2>4. CASE Connect
    <3>1. Attached \subseteq Attached'
      BY <1>0, <2>4 DEF Connect, OpenSocket, Attached, TypeOK
    <3> QED
      BY <2>4, <3>1, ClientUnchanged DEF Connect, OpenSocket, Crash
  <2> QED
    BY <1>3, <2>1, <2>2, <2>3, <2>4 DEF Dog
<1>4. CASE Silence
  BY <1>1, <1>4 DEF Silence, service, network
<1>5. CASE UNCHANGED vars
  BY <1>1, <1>5 DEF vars, connection, service, network
<1> QED
  BY <1>2, <1>3, <1>4, <1>5 DEF Next

\* Every interleaving of callbacks and turns of the watchdog leaves client,
\* connectStatus and the callback in progress in agreement with the sockets.
THEOREM ClientInvariant == Spec => []ClientInv
<1>1. Init => ClientInv
  BY ClientInit
<1>2. ClientInv /\ TypeOK' /\ [Next]_vars => ClientInv'
  BY ClientStep
<1> QED
  BY <1>1, <1>2, TypeCorrect, PTL DEF Spec

\* No interleaving of the threads leaves a freed lws* in client: at every
\* moment client is nullptr or a socket lws still holds.
THEOREM ClientAlwaysAttached == Spec => []ClientIsAttached
<1>1. ClientInv => ClientIsAttached
  BY DEF ClientInv
<1> QED
  BY <1>1, ClientInvariant, PTL

\* CONNECTED is never stale: while connectStatus says so, at least one socket
\* of the connection is attached.
THEOREM ConnectedAlwaysHasSession == Spec => []ConnectedHasSession
<1>1. ClientInv => ConnectedHasSession
  BY DEF ClientInv
<1> QED
  BY <1>1, ClientInvariant, PTL

-----------------------------------------------------------------------------
(* Without reconnects (WsRequestClientImpl) a connection has one session,  *)
(* and what it sends follows the signature the server accepted.            *)

Used == {w \in Wsi : wsiState[w] # "free"}

QueuesTopic == \E i \in 1 .. Len(sendBufferList) : sendBufferList[i] \in Topic

WatchdogIdle == dogPc \in {"sleep", "active", "crashed"} /\ lineStatus # "LINE_DELAY"

SingleSocket == \A v, w \in Used : v = w

NotStarted == servicePc = "start" => Used = {} /\ sendBufferList = <<>>

\* Topics are queued, or about to be, only once every socket in use, that is
\* the one there is, belongs to an accepted session.
TopicsAuthorised ==
  isNeedSignature /\ (QueuesTopic \/ servicePc \in {"authOk", "handler"})
    => Used \subseteq authorised

\* A socket has nothing from an earlier session when its own begins.
Fresh ==
  \A w \in Wsi : wsiState[w] \in {"free", "connecting"} => sent[w] = {} /\ w \notin authorised

RequestInv ==
  /\ TypeOK
  /\ WatchdogIdle
  /\ SingleSocket
  /\ NotStarted
  /\ TopicsAuthorised
  /\ Fresh
  /\ SubscribedWhenAuthorised

LEMMA QueueGrows ==
  ASSUME TypeOK, NEW m \in Message, Push(m)
  PROVE  QueuesTopic' => QueuesTopic \/ m \in Topic
BY DEF TypeOK, Push, QueuesTopic

\* A step of the service thread that pushes m.
LEMMA SendKeepsRequest ==
  ASSUME RequestInv, TypeOK', NEW m \in Message, Send(m),
         m \in Topic /\ isNeedSignature => servicePc = "handler",
         UNCHANGED <<lineStatus, watchdog, wsiState, sent, authorised>>,
         servicePc # "start", servicePc' # "start",
         servicePc' \in {"authOk", "handler"} => servicePc' = servicePc
  PROVE  RequestInv'
<1>1. QueuesTopic' => QueuesTopic \/ m \in Topic
  BY QueueGrows DEF RequestInv, Send
<1> QED
  BY <1>1 DEF RequestInv, WatchdogIdle, SingleSocket, NotStarted, TopicsAuthorised,
              Fresh, SubscribedWhenAuthorised, Used, watchdog

\* A step that leaves the queue and the sockets alone.
LEMMA QuietKeepsRequest ==
  ASSUME RequestInv, TypeOK',
         UNCHANGED <<sendBufferList, wsiState, sent, authorised>>,
         WatchdogIdle',
         servicePc' = "start" => servicePc = "start",
         isNeedSignature /\ servicePc' \in {"authOk", "handler"}
           => servicePc \in {"authOk", "handler"}
  PROVE  RequestInv'
BY DEF RequestInv, SingleSocket, NotStarted, TopicsAuthorised, Fresh, SubscribedWhenAuthorised, Used,
       QueuesTopic

LEMMA FlushKeepsRequest ==
  ASSUME RequestInv, TypeOK', NEW w \in Wsi, Flush(w)
  PROVE  RequestInv'
<1>1. Used' = Used /\ w \in Used
  BY DEF Flush, FlushAll, FlushFails, Open, Used, RequestInv, TypeOK
<1>2. ~QueuesTopic'
  BY DEF Flush, QueuesTopic
<1>3. /\ \A v \in Wsi : v # w => sent'[v] = sent[v]
      /\ sent'[w] \cap Topic # {} => sent[w] \cap Topic # {} \/ QueuesTopic
  <2>1. CASE FlushAll(w)
    BY <2>1 DEF FlushAll, Prefix, QueuesTopic, RequestInv, TypeOK
  <2>2. CASE FlushFails(w)
    BY <2>2 DEF FlushFails, Prefix, QueuesTopic, RequestInv, TypeOK
  <2> QED
    BY <2>1, <2>2 DEF Flush
<1>4. SubscribedWhenAuthorised'
  BY <1>1, <1>3 DEF Flush, RequestInv, TopicsAuthorised, Fresh, SubscribedWhenAuthorised
<1>5. Fresh'
  BY <1>3 DEF Flush, FlushAll, FlushFails, Open, RequestInv, TypeOK, Fresh
<1> QED
  BY <1>1, <1>2, <1>4, <1>5
  DEF Flush, RequestInv, WatchdogIdle, SingleSocket, NotStarted, TopicsAuthorised, service,
      watchdog

LEMMA FreeKeepsRequest ==
  ASSUME RequestInv, TypeOK', NEW ws, Free(ws), UNCHANGED sendBufferList, WatchdogIdle',
         servicePc' \notin {"start", "authOk", "handler"}
  PROVE  RequestInv'
<1>1. Used' = Used \ ws
  BY DEF Free, Used, RequestInv, TypeOK
<1> QED
  BY <1>1 DEF Free, RequestInv, TypeOK, SingleSocket, NotStarted, TopicsAuthorised, Fresh,
              SubscribedWhenAuthorised, QueuesTopic

LEMMA RequestStep ==
  ASSUME isAutoReconnect = FALSE,
         RequestInv, TypeOK', [Next]_vars
  PROVE  RequestInv'
<1>0. TypeOK /\ WatchdogIdle
  BY DEF RequestInv
<1>1. CASE Service
  <2>1. CASE StartConnect
    <3>1. SingleSocket' /\ Used = {} /\ sendBufferList' = <<>>
      BY <1>0, <2>1 DEF StartConnect, OpenSocket, SingleSocket, Used, RequestInv, NotStarted,
                        TypeOK
    <3>2. SubscribedWhenAuthorised'
      BY <2>1 DEF StartConnect, RequestInv, SubscribedWhenAuthorised
    <3>3. Fresh'
      BY <1>0, <2>1 DEF StartConnect, OpenSocket, RequestInv, Fresh, TypeOK
    <3> QED
      BY <2>1, <3>1, <3>2, <3>3 DEF StartConnect, RequestInv, WatchdogIdle, NotStarted,
                             TopicsAuthorised, QueuesTopic, watchdog
  <2>2. CASE Callback
    <3>1. CASE OpenLine \/ OpenTime \/ OpenClient \/ OpenRegister \/ HandleAuth \/ HandleQuiet
                 \/ HandleError \/ CloseIdle \/ CloseUnregister
      BY <1>0, <3>1, QuietKeepsRequest
      DEF OpenLine, OpenTime, OpenClient, OpenRegister, HandleAuth, HandleQuiet, HandleError,
          CloseIdle, CloseUnregister, connection, network, watchdog, WatchdogIdle
    <3>2. CASE OpenGreet
      <4>1. CASE isNeedSignature /\ Send("auth") /\ servicePc' = "poll"
        BY <3>2, <4>1, SendKeepsRequest, SymbolsAssumption DEF OpenGreet, Message
      <4>2. CASE /\ UNCHANGED <<sendBufferList, writable>>
                 /\ IF isNeedSignature THEN servicePc' = "leave" ELSE servicePc' = "handler"
        BY <1>0, <3>2, <4>2, QuietKeepsRequest DEF OpenGreet, WatchdogIdle, watchdog
      <4> QED
        BY <3>2, <4>1, <4>2 DEF OpenGreet
    <3>3. CASE Handler
      <4>1. CASE cursor <= Len(symbols)
        <5>1. symbols[cursor] \in Message
          BY <1>0, <4>1, SymbolType, SymbolsAssumption DEF TypeOK
        <5>2. ~(cursor > Len(symbols))
          BY <1>0, <4>1, SymbolsAssumption DEF TypeOK
        <5> QED
          BY <3>3, <5>1, <5>2, SendKeepsRequest DEF Handler
      <4>2. CASE ~(cursor <= Len(symbols))
        BY <1>0, <3>3, <4>2, QuietKeepsRequest DEF Handler, WatchdogIdle, watchdog
      <4> QED
        BY <4>1, <4>2
    <3>4. CASE HandlePing
      BY <3>4, SendKeepsRequest, SymbolsAssumption DEF HandlePing, Message
    <3>5. CASE CloseKill
      <4>1. Used' = Used
        BY <1>0, <3>5 DEF CloseKill, Used, TypeOK
      <4>2. WatchdogIdle' /\ servicePc' \notin {"start", "authOk", "handler"}
        BY <1>0, <3>5 DEF CloseKill, Crash, WatchdogIdle, connection
      <4>3. Fresh'
        BY <1>0, <3>5 DEF CloseKill, RequestInv, Fresh, TypeOK
      <4> QED
        BY <3>5, <4>1, <4>2, <4>3
        DEF CloseKill, connection, RequestInv, SingleSocket, NotStarted, TopicsAuthorised,
            SubscribedWhenAuthorised, QueuesTopic
    <3>6. CASE Disconnect \/ EndService
      BY <1>0, <3>6, FreeKeepsRequest DEF Disconnect, EndService, WatchdogIdle, watchdog
    <3> QED
      BY <2>2, <3>1, <3>2, <3>3, <3>4, <3>5, <3>6 DEF Callback
  <2>3. ASSUME NEW w \in Wsi, Established(w) \/ Lost(w)
        PROVE  RequestInv'
    <3>1. Used' = Used
      BY <1>0, <2>3 DEF Established, Lost, Used, TypeOK
    <3>2. Fresh'
      BY <1>0, <2>3 DEF Established, Lost, RequestInv, Fresh, TypeOK
    <3> QED
      BY <2>3, <3>1, <3>2
      DEF Established, Lost, watchdog, RequestInv, WatchdogIdle, SingleSocket, NotStarted,
          TopicsAuthorised, SubscribedWhenAuthorised, QueuesTopic
  <2>4. ASSUME NEW w \in Wsi, Flush(w)
        PROVE  RequestInv'
    BY <2>4, FlushKeepsRequest
  <2>5. ASSUME NEW w \in Wsi, NEW m \in ServerMessage, Receive(w, m)
        PROVE  RequestInv'
    <3>1. w \in Used
      BY <2>5 DEF Receive, Open, Used
    <3>2. CASE m = "authOk"
      <4>1. Used \subseteq authorised' /\ authorised \subseteq authorised'
        BY <2>5, <3>1, <3>2 DEF Receive, RequestInv, SingleSocket
      <4> QED
        <5>1. Used' = Used
          BY <2>5 DEF Receive, Used
        <5>2. SubscribedWhenAuthorised'
          BY <2>5, <4>1 DEF Receive, RequestInv, SubscribedWhenAuthorised
        <5>3. WatchdogIdle' /\ SingleSocket' /\ NotStarted' /\ TopicsAuthorised'
          BY <2>5, <3>2, <4>1, <5>1
          DEF Receive, watchdog, RequestInv, WatchdogIdle, SingleSocket, NotStarted,
              TopicsAuthorised
        <5>4. Fresh'
          BY <2>5 DEF Receive, Open, RequestInv, Fresh
        <5> QED
          BY <5>2, <5>3, <5>4 DEF RequestInv
    <3>3. CASE m # "authOk"
      BY <1>0, <2>5, <3>3, QuietKeepsRequest
      DEF Receive, ServerMessage, WatchdogIdle, watchdog
    <3> QED
      BY <3>2, <3>3
  <2> QED
    BY <1>1, <2>1, <2>2, <2>3, <2>4, <2>5 DEF Service
<1>2. CASE Dog
  <2>1. Look \/ CheckActive
    BY <1>0, <1>2 DEF Dog, WatchdogIdle, GiveUp, GiveUpClose, GiveUpRequest, GiveUpForget, GiveUpDelay,
                      CountDown, Reconnect, Connect, ConnectActive
  <2> QED
    BY <1>0, <2>1, QuietKeepsRequest
    DEF Look, CheckActive, WatchdogIdle, TypeOK, connection, service, network
<1>3. CASE Silence
  BY <1>0, <1>3, QuietKeepsRequest DEF Silence, WatchdogIdle, service, watchdog, network
<1>4. CASE UNCHANGED vars
  BY <1>0, <1>4, QuietKeepsRequest
  DEF vars, WatchdogIdle, connection, service, watchdog, network
<1> QED
  BY <1>1, <1>2, <1>3, <1>4 DEF Next

LEMMA RequestInvInit == Init => RequestInv
BY TypeInit
DEF Init, RequestInv, WatchdogIdle, SingleSocket, NotStarted, TopicsAuthorised, Fresh,
    QueuesTopic, SubscribedWhenAuthorised, Used

\* A connection that is not reconnected has one socket, and queues its topics only
\* when connectionHandler may run.
THEOREM RequestInvariant ==
  ASSUME isAutoReconnect = FALSE
  PROVE  Spec => []RequestInv
<1>1. Init => RequestInv
  BY RequestInvInit
<1>2. RequestInv /\ TypeOK' /\ [Next]_vars => RequestInv'
  BY RequestStep
<1> QED
  BY <1>1, <1>2, TypeCorrect, PTL DEF Spec

\* On a connection that is not reconnected, as every WsRequestClientImpl's, no
\* request or subscription is written to a session before the server accepted
\* its signature, whatever the errors, writes that fail and pings in between.
THEOREM RequestsAuthorised ==
  ASSUME isAutoReconnect = FALSE
  PROVE  Spec => []SubscribedWhenAuthorised
<1>1. RequestInv => SubscribedWhenAuthorised
  BY DEF RequestInv
<1> QED
  BY <1>1, RequestInvariant, PTL

-----------------------------------------------------------------------------
(* A connection with one session at a time implements the contract of      *)
(* SubscriptionSession.                                                    *)

\* What the mapping needs of a connection, whether it is reconnected or not.
ContractInv ==
  /\ TypeOK
  /\ \A v, w \in Session : v = w
  /\ Fresh
  /\ isNeedSignature /\ QueuesTopic => Session \subseteq authorised
  /\ servicePc = "start" => Session = {}
  /\ dogPc = "connect" => isAutoReconnect /\ Session = {}
  /\ dogPc \in {"request", "connect"} => servicePc # "start"

\* A step that changes neither the state of a socket in a session nor what was
\* sent on it is invisible to the client.
LEMMA Invisible ==
  ASSUME UNCHANGED <<sent, authorised, Session>>,
         \A w \in Session : wsiState'[w] = "connecting" <=> wsiState[w] = "connecting",
         servicePc' = "start" <=> servicePc = "start"
  PROVE  UNCHANGED Contract!vars
BY DEF Contract!vars, Phase, Accepted, Delivered

LEMMA QuietIsInvisible ==
  ASSUME UNCHANGED <<sent, authorised, wsiState>>,
         servicePc' = "start" <=> servicePc = "start"
  PROVE  UNCHANGED Contract!vars
<1>1. UNCHANGED Session
  BY DEF Session
<1> QED
  BY <1>1, Invisible

\* With one socket in use, its session is the one the client sees.
LEMMA TheSession ==
  ASSUME ContractInv, NEW w \in Session
  PROVE  /\ Session = {w}
         /\ Phase = IF wsiState[w] = "connecting" THEN "connecting" ELSE "open"
         /\ Accepted <=> w \in authorised
         /\ Delivered = Topic \cap sent[w]
<1>1. Session = {w}
  BY DEF ContractInv
<1> QED
  BY <1>1 DEF Phase, Accepted, Delivered

\* A session that ends takes everything the client saw of it along.
LEMMA SessionEnds ==
  ASSUME ContractInv, NEW w \in Session, Session' = {},
         servicePc # "start", servicePc' # "start"
  PROVE  Contract!Ends
<1>1. Phase # "none"
  BY TheSession
<1>2. Phase' = "none" /\ Accepted' = FALSE /\ Delivered' = {}
  BY DEF Phase, Accepted, Delivered
<1> QED
  BY <1>1, <1>2 DEF Contract!Ends

LEMMA FreeEnds ==
  ASSUME ContractInv, NEW ws, Free(ws), servicePc # "start", servicePc' # "start"
  PROVE  Contract!Ends \/ UNCHANGED Contract!vars
<1>1. Session' = Session \ ws
  BY DEF Free, Session, ContractInv, TypeOK
<1>2. CASE Session \cap ws = {}
  <2>1. UNCHANGED Session
    BY <1>1, <1>2
  <2>2. \A w \in Session : /\ wsiState'[w] = wsiState[w] /\ sent'[w] = sent[w]
                           /\ w \in authorised' <=> w \in authorised
    BY <1>2 DEF Free, Session
  <2> QED
    BY <2>1, <2>2 DEF Contract!vars, Phase, Accepted, Delivered
<1>3. CASE Session \cap ws # {}
  <2>1. PICK w \in Session : w \in ws
    BY <1>3
  <2>2. Session' = {}
    BY <1>1, <2>1, TheSession
  <2> QED
    BY <2>1, <2>2, SessionEnds
<1> QED
  BY <1>2, <1>3

\* A session whose socket w stays, with the same phase, but where the server
\* may have got more, or accepted the signature.
LEMMA SessionGoesOn ==
  ASSUME ContractInv, ContractInv', NEW w \in Session, wsiState[w] # "connecting",
         Session' = Session, wsiState'[w] = wsiState[w]
  PROVE  /\ Phase = "open" /\ Phase' = "open"
         /\ Accepted <=> w \in authorised
         /\ Accepted' <=> w \in authorised'
         /\ Delivered = Topic \cap sent[w]
         /\ Delivered' = Topic \cap sent'[w]
<1>1. Session = {w}
  BY TheSession
<1> QED
  BY <1>1 DEF Phase, Accepted, Delivered

LEMMA FlushDelivers ==
  ASSUME ContractInv, ContractInv', NEW w \in Wsi, Flush(w)
  PROVE  [Contract!Next]_Contract!vars
<1>0. w \in Session /\ wsiState[w] # "connecting" /\ servicePc' = servicePc
      /\ servicePc # "start"
  BY DEF Flush, Open, Session, service
<1>1. CASE FlushAll(w)
  <2>1. Session' = Session /\ wsiState' = wsiState /\ UNCHANGED authorised
    BY <1>1 DEF FlushAll, Flush, Session
  <2>2. sent'[w] = sent[w] \cup (Prefix(Len(sendBufferList)) \ {"pong"})
    BY <1>1 DEF FlushAll, ContractInv, TypeOK
  <2>3. /\ Phase = "open" /\ Phase' = "open"
        /\ Accepted <=> w \in authorised
        /\ Accepted' <=> w \in authorised
        /\ Delivered = Topic \cap sent[w]
        /\ Delivered' = Topic \cap sent'[w]
    BY <1>0, <2>1, SessionGoesOn
  <2>4. Accepted \in BOOLEAN /\ Accepted' \in BOOLEAN
    BY DEF Accepted
  <2>5. CASE QueuesTopic
    <3>1. isNeedSignature => Accepted
      BY <1>0, <2>3, <2>5 DEF ContractInv
    <3>2. Delivered' = Delivered \cup (Topic \cap (Prefix(Len(sendBufferList)) \ {"pong"}))
      BY <2>2, <2>3
    <3> QED
      BY <1>0, <2>3, <2>4, <3>1, <3>2 DEF Contract!Next, Contract!Deliver
  <2>6. CASE ~QueuesTopic
    <3>1. Topic \cap sent'[w] = Topic \cap sent[w]
      BY <2>2, <2>6 DEF Prefix, QueuesTopic
    <3> QED
      BY <1>0, <2>3, <2>4, <3>1 DEF Contract!vars
  <2> QED
    BY <2>5, <2>6
<1>2. CASE FlushFails(w)
  <2>1. Session' = {}
    BY <1>0, <1>2, TheSession DEF FlushFails, Session, ContractInv, TypeOK
  <2> QED
    BY <1>0, <2>1, SessionEnds DEF Contract!Next
<1> QED
  BY <1>1, <1>2 DEF Flush

LEMMA ReceiveAccepts ==
  ASSUME ContractInv, ContractInv', NEW w \in Wsi, NEW m \in ServerMessage, Receive(w, m)
  PROVE  [Contract!Next]_Contract!vars
<1>0. w \in Session /\ wsiState[w] # "connecting"
  BY DEF Receive, Open, Session
<1>1. Session' = Session /\ wsiState' = wsiState /\ sent' = sent
  BY DEF Receive, Session
<1>2. servicePc # "start" /\ servicePc' # "start"
  BY DEF Receive, ServerMessage
<1>3. CASE m = "authOk"
  <2>1. isNeedSignature /\ w \in authorised'
    BY <1>3 DEF Receive, Answers
  <2>2. Phase = "open" /\ Phase' = "open" /\ Accepted' = TRUE /\ Delivered' = Delivered
    <3>1. Accepted' \in BOOLEAN
      BY DEF Accepted
    <3> QED
      BY <1>0, <1>1, <2>1, <3>1, SessionGoesOn
  <2> QED
    BY <1>2, <2>1, <2>2 DEF Contract!Next, Contract!Accept
<1>4. CASE m # "authOk"
  BY <1>1, <1>2, <1>4, QuietIsInvisible DEF Receive
<1> QED
  BY <1>3, <1>4

LEMMA ContractStep ==
  ASSUME ContractInv, ContractInv', [Next]_vars
  PROVE  [Contract!Next]_Contract!vars
<1>0. TypeOK
  BY DEF ContractInv
<1>1. CASE Service
  <2>1. CASE StartConnect
    <3>1. Session = {} /\ Phase = "none"
      BY <2>1 DEF StartConnect, ContractInv, Phase
    <3>2. Phase' \in {"none", "connecting"}
      BY <1>0, <2>1, <3>1 DEF StartConnect, OpenSocket, Phase, Session, TypeOK
    <3>3. ~Accepted /\ ~Accepted' /\ Delivered = {} /\ Delivered' = {}
      <4>1. \A w \in Session' : w \notin authorised' /\ sent'[w] = {}
        BY <1>0, <2>1, <3>1
        DEF StartConnect, OpenSocket, Session, ContractInv, Fresh, TypeOK
      <4> QED
        BY <3>1, <4>1 DEF Accepted, Delivered
    <3>4. Accepted \in BOOLEAN /\ Accepted' \in BOOLEAN
      BY DEF Accepted
    <3> QED
      BY <2>1, <3>1, <3>2, <3>3, <3>4 DEF StartConnect, Contract!Next, Contract!Attempt
  <2>2. CASE Callback
    <3>1. CASE OpenLine \/ OpenTime \/ OpenClient \/ OpenRegister \/ OpenGreet \/ Handler
                 \/ HandlePing \/ HandleAuth \/ HandleQuiet \/ HandleError
                 \/ CloseIdle \/ CloseUnregister
      BY <3>1, QuietIsInvisible
      DEF OpenLine, OpenTime, OpenClient, OpenRegister, OpenGreet, Handler, HandlePing,
          HandleAuth, HandleQuiet, HandleError, CloseIdle, CloseUnregister, network
    <3>2. CASE CloseKill
      <4>1. Session' = Session
        BY <1>0, <3>2 DEF CloseKill, Session, TypeOK
      <4>2. \A w \in Session : wsiState'[w] = "connecting" <=> wsiState[w] = "connecting"
        BY <1>0, <3>2 DEF CloseKill, Session, TypeOK
      <4>3. /\ UNCHANGED <<sent, authorised>>
            /\ servicePc # "start" /\ servicePc' # "start"
        BY <3>2 DEF CloseKill, Crash
      <4> QED
        BY <4>1, <4>2, <4>3, Invisible
    <3>3. CASE Disconnect \/ EndService
      BY <3>3, FreeEnds DEF Disconnect, EndService, Contract!Next
    <3> QED
      BY <2>2, <3>1, <3>2, <3>3 DEF Callback
  <2>3. ASSUME NEW w \in Wsi, Established(w)
        PROVE  [Contract!Next]_Contract!vars
    <3>1. w \in Session /\ wsiState[w] = "connecting"
      BY <2>3 DEF Established, Session
    <3>2. Session' = Session /\ wsiState'[w] = "open" /\ UNCHANGED <<sent, authorised>>
      BY <1>0, <2>3, <3>1 DEF Established, Session, TypeOK
    <3>3. Session = {w} /\ Phase = "connecting"
      BY <3>1, TheSession
    <3>4. Phase' = "open" /\ UNCHANGED <<Accepted, Delivered>>
      BY <3>2, <3>3 DEF Phase, Accepted, Delivered
    <3> QED
      BY <2>3, <3>3, <3>4 DEF Established, Contract!Next, Contract!Opens
  <2>4. ASSUME NEW w \in Wsi, Lost(w)
        PROVE  [Contract!Next]_Contract!vars
    <3>1. Session' = Session \ {w} /\ UNCHANGED <<sent, authorised>>
      BY <1>0, <2>4 DEF Lost, Session, TypeOK
    <3>2. servicePc # "start" /\ servicePc' # "start"
      BY <2>4 DEF Lost
    <3>3. CASE w \in Session
      <4>1. Session' = {}
        BY <3>1, <3>3, TheSession
      <4> QED
        BY <3>2, <3>3, <4>1, SessionEnds DEF Contract!Next
    <3>4. CASE w \notin Session
      <4>1. Session' = Session
        BY <3>1, <3>4
      <4>2. \A v \in Session : wsiState'[v] = wsiState[v]
        BY <1>0, <2>4, <3>4 DEF Lost, Session, TypeOK
      <4> QED
        BY <3>1, <3>2, <4>1, <4>2, Invisible
    <3> QED
      BY <3>3, <3>4
  <2> QED
    BY <1>1, <2>1, <2>2, <2>3, <2>4, FlushDelivers, ReceiveAccepts DEF Service
<1>2. CASE Dog
  <2>1. CASE Look \/ CheckActive \/ GiveUp \/ GiveUpClose \/ GiveUpForget \/ GiveUpDelay
               \/ CountDown \/ Reconnect \/ ConnectActive
    BY <2>1, QuietIsInvisible
    DEF Look, CheckActive, GiveUp, GiveUpClose, GiveUpForget, GiveUpDelay, CountDown, Reconnect,
        ConnectActive, service, network
  <2>2. CASE GiveUpRequest
    BY <2>2, QuietIsInvisible DEF GiveUpRequest, Crash, ContractInv
  <2>3. CASE Connect
    <3>0. /\ servicePc # "start" /\ servicePc' # "start" /\ isAutoReconnect
          /\ Session = {} /\ Phase = "none"
      BY <2>3 DEF Connect, Crash, ContractInv, Phase
    <3>1. CASE OpenSocket
      <4>1. Phase' \in {"none", "connecting"}
        BY <1>0, <3>0, <3>1 DEF OpenSocket, Phase, Session, TypeOK
      <4>2. \A w \in Session' : w \notin authorised' /\ sent'[w] = {}
        BY <1>0, <2>3, <3>0, <3>1 DEF Connect, OpenSocket, Session, ContractInv, Fresh, TypeOK
      <4>3. ~Accepted /\ ~Accepted' /\ Delivered = {} /\ Delivered' = {}
        BY <3>0, <4>2 DEF Accepted, Delivered
      <4>4. Accepted \in BOOLEAN /\ Accepted' \in BOOLEAN
        BY DEF Accepted
      <4> QED
        BY <3>0, <4>1, <4>3, <4>4 DEF Contract!Next, Contract!Attempt
    <3>2. CASE UNCHANGED wsiState
      BY <2>3, <3>0, <3>2, QuietIsInvisible DEF Connect
    <3> QED
      BY <2>3, <3>1, <3>2 DEF Connect
  <2> QED
    BY <1>2, <2>1, <2>2, <2>3 DEF Dog
<1>3. CASE Silence
  BY <1>3, QuietIsInvisible DEF Silence, service, network
<1>4. CASE UNCHANGED vars
  BY <1>4, QuietIsInvisible DEF vars, service, network
<1> QED
  BY <1>1, <1>2, <1>3, <1>4 DEF Next

LEMMA ContractInit == Init => Contract!Init
<1>1. Init => Session = {}
  BY DEF Init, Session
<1> QED
  BY <1>1 DEF Init, Contract!Init, Phase, Accepted, Delivered

LEMMA RequestIsContract == RequestInv => ContractInv
BY DEF RequestInv, ContractInv, WatchdogIdle, SingleSocket, NotStarted, TopicsAuthorised,
       Used, Session

\* Without reconnects, the callbacks of lws, the queue and the watchdog together
\* implement the contract for any list of symbols and any number of sockets:
\* one attempt, one session, authorised before it carries a request, and
\* nothing after its end.
THEOREM RequestImplementsSession ==
  ASSUME isAutoReconnect = FALSE
  PROVE  Spec => ImplementsSession
<1>1. Init => Contract!Init
  BY ContractInit
<1>2. ContractInv /\ ContractInv' /\ [Next]_vars => [Contract!Next]_Contract!vars
  BY ContractStep
<1>3. RequestInv => ContractInv
  BY RequestIsContract
<1> QED
  BY <1>1, <1>2, <1>3, RequestInvariant, PTL DEF Spec, ImplementsSession, Contract!Spec

=============================================================================
