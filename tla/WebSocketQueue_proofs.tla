------------------------- MODULE WebSocketQueue_proofs -------------------------
(***************************************************************************)
(* What holds of the send queue of a WebSocketConnection, which outlives   *)
(* the sessions it is filled for, when no turn of the watchdog meets a     *)
(* handshake: on a connection that is not reconnected, at any timing, and  *)
(* on one that is, when handshakes and callbacks end before the watchdog's *)
(* next turn looks at it (promptService).                                  *)
(***************************************************************************)
EXTENDS WebSocketReconnect_proofs

Unhurried == promptService = TRUE \/ isAutoReconnect = FALSE

-----------------------------------------------------------------------------
(* What the two cases have in common.                                      *)

\* An open session has the connection to itself, and while the watchdog gives one
\* up or goes about to open one, no other begins.
Exclusive ==
  /\ \A v \in Open, u \in Used : u = v
  /\ servicePc = "start" => Used = {}
  /\ dogPc = "connect" => Session = {}
  /\ dogPc \in GivingUp \cup {"delayed", "connect"}
       => servicePc \notin OpenPc \cup {"start", "crashed"} /\ NoHandshake

\* LINE_DELAY goes with a null client: onOpen overwrites it before it sets one.
DelayedIsClientless ==
  lineStatus = "LINE_DELAY" => client = NoWsi /\ servicePc \notin {"setTime", "setClient"}

BaseInv ==
  /\ ClientInv
  /\ Fresh
  /\ Exclusive
  /\ DelayedIsClientless

LEMMA RequestIsBase == ClientInv /\ RequestInv => BaseInv
<1> SUFFICES ASSUME ClientInv, RequestInv
             PROVE  BaseInv
  OBVIOUS
<1>1. Exclusive
  BY DEF RequestInv, WatchdogIdle, SingleSocket, NotStarted, Exclusive, Open, Used, GivingUp
<1>2. DelayedIsClientless
  BY DEF RequestInv, WatchdogIdle, DelayedIsClientless
<1> QED
  BY <1>1, <1>2 DEF BaseInv, RequestInv

LEMMA CloseIsBase == ClientInv /\ CloseInv => BaseInv
<1> SUFFICES ASSUME ClientInv, CloseInv
             PROVE  BaseInv
  OBVIOUS
<1>0. ReconnectInv /\ DelayedHasNoClient
  BY DEF CloseInv
<1>1. \A v \in Open, u \in Used : u = v
  <2>1. CASE servicePc = "disconnect"
    BY <1>0, <2>1 DEF ReconnectInv, LossInProgress, ClosedIsEmpty, Open, Used, Leaving
  <2>2. CASE servicePc # "disconnect"
    BY <1>0, <2>2 DEF ReconnectInv, SingleLive, Open, Used, Leaving
  <2> QED
    BY <2>1, <2>2
<1>2. /\ servicePc = "start" => Used = {}
      /\ dogPc = "connect" => Session = {}
  BY <1>0 DEF ReconnectInv, Unstarted, TurnAlone, ClosedIsEmpty, LossInProgress, Session, Used,
              Leaving
<1>3. dogPc \in GivingUp \cup {"delayed", "connect"}
        => servicePc \notin OpenPc \cup {"start", "crashed"} /\ NoHandshake
  BY <1>0 DEF ReconnectInv, TurnAlone, DelayedHasNoClient, NoHandshake, GivingUp
<1>4. DelayedIsClientless
  BY <1>0 DEF DelayedHasNoClient, DelayedIsClientless
<1> QED
  BY <1>0, <1>1, <1>2, <1>3, <1>4 DEF BaseInv, Exclusive, ReconnectInv

LEMMA BaseInvariant ==
  ASSUME Unhurried
  PROVE  Spec => []BaseInv
<1>1. CASE promptService = TRUE
  BY <1>1, CloseInvariant, ClientInvariant, CloseIsBase, PTL
<1>2. CASE isAutoReconnect = FALSE
  BY <1>2, RequestInvariant, ClientInvariant, RequestIsBase, PTL
<1> QED
  BY <1>1, <1>2 DEF Unhurried

-----------------------------------------------------------------------------
(* No lost wakeup.                                                         *)

QueuesStar == "*" \in Prefix(Len(sendBufferList))

\* Every open session will be called back for, and closed by that callback.
Ending == Open = {} \/ (Open \subseteq writable /\ QueuesStar)

\* The steps at which a queue may wait without a callback: while send() has
\* pushed "*" and not yet asked for one, and from the opening of a session to
\* the first message sent on it.
Unasked ==
  \/ dogPc = "request"
  \/ servicePc \in OpenPc \cup {"leave", "ended", "crashed"}
  \/ servicePc = "handler" /\ cursor = 1 /\ ~isNeedSignature

DueInv ==
  /\ sendBufferList # <<>> /\ ~Unasked => Open \subseteq writable
  /\ client = NoWsi /\ servicePc \notin {"setLine", "setTime", "setClient", "crashed"} => Ending
  /\ dogPc = "forget" => Ending
  /\ dogPc = "request" => Open \subseteq {dogWsi} /\ QueuesStar
  /\ servicePc = "disconnect" => Open = {}
  /\ servicePc \notin {"handler", "crashed"} => cursor = 1

\* A session that is open while client is set is client's.
LEMMA OpenIsClient ==
  ASSUME BaseInv, client # NoWsi
  PROVE  Open \subseteq {client}
BY DEF BaseInv, ClientInv, ClientIsAttached, Exclusive, Attached, Used

\* send() of the service thread asks for every session there is.
LEMMA SendAsks ==
  ASSUME BaseInv, DueInv, NEW m, Send(m), UNCHANGED wsiState,
         servicePc \notin {"setLine", "setTime", "setClient", "crashed"}
  PROVE  /\ Open' = Open
         /\ Open' \subseteq writable'
         /\ QueuesStar => QueuesStar'
<1>1. Open' = Open
  BY DEF Open
<1>2. writable \subseteq writable'
  BY DEF Send, RequestWritable
<1>3. Open \subseteq writable'
  <2>1. CASE client = NoWsi
    BY <1>2, <2>1 DEF DueInv, Ending
  <2>2. CASE client # NoWsi
    BY <2>2, OpenIsClient DEF Send, RequestWritable
  <2> QED
    BY <2>1, <2>2
<1>4. QueuesStar => QueuesStar'
  BY DEF Send, Push, QueuesStar, Prefix, BaseInv, ClientInv, TypeOK
<1> QED
  BY <1>1, <1>3, <1>4

LEMMA SendKeepsDue ==
  ASSUME BaseInv, DueInv, NEW m, Send(m), UNCHANGED <<wsiState, watchdog, client>>,
         servicePc \notin {"setLine", "setTime", "setClient", "crashed", "disconnect"},
         servicePc' \notin {"setLine", "setTime", "setClient", "crashed", "disconnect"},
         servicePc' # "handler" => cursor' = 1,
         dogPc # "request"
  PROVE  DueInv'
<1>1. Open' = Open /\ Open' \subseteq writable' /\ (QueuesStar => QueuesStar')
  BY SendAsks
<1> QED
  BY <1>1 DEF DueInv, Ending, watchdog

\* A step that leaves sockets, queue and requests for callbacks alone.
LEMMA QuietKeepsDue ==
  ASSUME DueInv,
         UNCHANGED <<sendBufferList, wsiState, writable, client, watchdog>>,
         servicePc \in {"setLine", "setTime", "setClient", "crashed"}
           => servicePc' \in {"setLine", "setTime", "setClient", "crashed"},
         Unasked => Unasked',
         servicePc' # "disconnect",
         servicePc' \notin {"handler", "crashed"} => cursor' = 1
  PROVE  DueInv'
<1>1. Open' = Open /\ (QueuesStar' <=> QueuesStar)
  BY DEF Open, QueuesStar, Prefix
<1> QED
  BY <1>1 DEF DueInv, Ending, watchdog

\* A step of the service thread after which no session is open.
LEMMA EndKeepsDue ==
  ASSUME DueInv, UNCHANGED <<sendBufferList, watchdog>>, Open' = {}, Open' \subseteq Open,
         servicePc' \notin {"handler", "crashed"} => cursor' = 1
  PROVE  DueInv'
<1>1. QueuesStar' <=> QueuesStar
  BY DEF QueuesStar, Prefix
<1> QED
  BY <1>1 DEF DueInv, Ending, watchdog

LEMMA FlushKeepsDue ==
  ASSUME BaseInv, DueInv, NEW w \in Wsi, Flush(w)
  PROVE  DueInv'
<1>0. TypeOK /\ w \in Open
  BY DEF Flush, BaseInv, ClientInv
<1>1. Open = {w}
  BY <1>0 DEF BaseInv, Exclusive, Open, Used
<1>2. Open' \subseteq Open
  BY <1>0 DEF Flush, FlushAll, FlushFails, Open, TypeOK
<1>3. QueuesStar => Open' = {}
  BY <1>0, <1>1, <1>2 DEF Flush, FlushAll, FlushFails, QueuesStar, Open, TypeOK
<1>4. /\ sendBufferList' = <<>> /\ UNCHANGED <<client, cursor, servicePc, dogPc>>
      /\ servicePc = "poll" /\ dogPc # "request"
  BY DEF Flush, service, watchdog
<1> QED
  BY <1>1, <1>2, <1>3, <1>4 DEF DueInv, Ending

\* A connection that subscribes to something: parseSymbols("") is empty.
Subscribes == isNeedSignature \/ symbols # <<>>

LEMMA ServiceKeepsDue ==
  ASSUME Subscribes, BaseInv, BaseInv', DueInv, Service
  PROVE  DueInv'
<1>0. TypeOK /\ TypeOK'
  BY DEF BaseInv, ClientInv
<1>1. CASE StartConnect
  <2>1. Open = {} /\ Open' = {}
    BY <1>0, <1>1 DEF StartConnect, OpenSocket, BaseInv, Exclusive, Open, Used, TypeOK
  <2> QED
    BY <1>1, <2>1, EndKeepsDue DEF StartConnect, DueInv
<1>2. CASE Callback
  <2>1. CASE OpenLine \/ OpenTime
    BY <2>1, QuietKeepsDue DEF OpenLine, OpenTime, network, watchdog, DueInv, Unasked, OpenPc
  <2>2. CASE OpenClient
    <3>1. client' # NoWsi
      BY <1>0, <2>2, WsiAssumption DEF OpenClient, BaseInv, ClientInv, Opening, Attached
    <3>2. dogPc \notin {"request", "forget"} /\ UNCHANGED <<dogPc, cursor>>
      BY <2>2 DEF OpenClient, watchdog, BaseInv, Exclusive, GivingUp, OpenPc
    <3> QED
      BY <2>2, <3>1, <3>2 DEF OpenClient, DueInv, Unasked, OpenPc
  <2>3. CASE OpenRegister \/ HandleAuth \/ HandleQuiet \/ HandleError \/ CloseIdle
               \/ CloseUnregister
    BY <2>3, QuietKeepsDue
    DEF OpenRegister, HandleAuth, HandleQuiet, HandleError, CloseIdle, CloseUnregister,
        connection, network, watchdog, DueInv, Unasked, OpenPc
  <2>4. CASE OpenGreet
    <3>1. CASE isNeedSignature /\ dogPc # "request" /\ Send("auth") /\ servicePc' = "poll"
      BY <2>4, <3>1, SendKeepsDue DEF OpenGreet, DueInv, watchdog
    <3>2. CASE /\ UNCHANGED <<sendBufferList, writable>>
               /\ IF isNeedSignature THEN servicePc' = "leave" ELSE servicePc' = "handler"
      BY <2>4, <3>2, QuietKeepsDue DEF OpenGreet, DueInv, Unasked, watchdog
    <3> QED
      BY <2>4, <3>1, <3>2 DEF OpenGreet
  <2>5. CASE Handler
    <3>1. CASE Send(symbols[cursor]) /\ dogPc # "request" /\ UNCHANGED servicePc
      BY <2>5, <3>1, SendKeepsDue DEF Handler, watchdog
    <3>2. CASE /\ cursor > Len(symbols) /\ cursor' = 1 /\ servicePc' = "poll"
               /\ UNCHANGED <<sendBufferList, writable>>
      <4>1. cursor = 1 => isNeedSignature
        BY <1>0, <3>2, SymbolsAssumption DEF TypeOK, Subscribes
      <4> QED
        BY <2>5, <3>2, <4>1, QuietKeepsDue DEF Handler, Unasked, OpenPc, watchdog
    <3> QED
      BY <2>5, <3>1, <3>2 DEF Handler
  <2>6. CASE HandlePing
    BY <2>6, SendKeepsDue DEF HandlePing, DueInv, watchdog
  <2>7. CASE CloseKill
    <3>1. Open' = Open
      BY <1>0, <2>7 DEF CloseKill, Open, TypeOK
    <3>2. QueuesStar' <=> QueuesStar
      BY <2>7 DEF CloseKill, connection, QueuesStar, Prefix
    <3> QED
      BY <2>7, <3>1, <3>2 DEF CloseKill, Crash, connection, DueInv, Ending, Unasked, OpenPc
  <2>8. CASE Disconnect
    <3>1. Open' \subseteq Open /\ Open = {}
      BY <1>0, <2>8 DEF Disconnect, Free, Open, DueInv, TypeOK
    <3> QED
      BY <2>8, <3>1, EndKeepsDue DEF Disconnect, DueInv
  <2>9. CASE EndService
    <3>1. Open' = {}
      BY <1>0, <2>9 DEF EndService, Free, Open, TypeOK
    <3> QED
      BY <2>9, <3>1, EndKeepsDue DEF EndService, DueInv
  <2> QED
    BY <1>2, <2>1, <2>2, <2>3, <2>4, <2>5, <2>6, <2>7, <2>8, <2>9 DEF Callback
<1>3. ASSUME NEW w \in Wsi, Established(w)
      PROVE  DueInv'
  <2>1. dogPc \notin {"request", "forget"} /\ UNCHANGED <<dogPc, cursor>> /\ cursor = 1
    BY <1>3 DEF Established, watchdog, BaseInv, Exclusive, GivingUp, NoHandshake, DueInv
  <2> QED
    BY <1>3, <2>1 DEF Established, DueInv, Unasked, OpenPc
<1>4. ASSUME NEW w \in Wsi, Lost(w)
      PROVE  DueInv'
  <2>1. Open' = Open \ {w}
    BY <1>0, <1>4 DEF Lost, Open, TypeOK
  <2>2. Open' = {}
    BY <1>4, <2>1 DEF Lost, BaseInv, Exclusive, Open, Used
  <2> QED
    BY <1>4, <2>1, <2>2, EndKeepsDue DEF Lost, DueInv
<1>5. ASSUME NEW w \in Wsi, Flush(w)
      PROVE  DueInv'
  BY <1>5, FlushKeepsDue
<1>6. ASSUME NEW w \in Wsi, NEW m \in ServerMessage, Receive(w, m)
      PROVE  DueInv'
  BY <1>6, QuietKeepsDue DEF Receive, ServerMessage, DueInv, Unasked, OpenPc, watchdog
<1> QED
  BY <1>1, <1>2, <1>3, <1>4, <1>5, <1>6 DEF Service

LEMMA DogKeepsDue ==
  ASSUME BaseInv, DueInv, Dog
  PROVE  DueInv'
<1>0. TypeOK
  BY DEF BaseInv, ClientInv
<1>1. CASE Look \/ CheckActive \/ GiveUpDelay \/ CountDown \/ Reconnect \/ ConnectActive
  <2>1. Open' = Open /\ (QueuesStar' <=> QueuesStar)
    BY <1>1 DEF Look, CheckActive, GiveUpDelay, CountDown, Reconnect, ConnectActive, connection,
                network, Open, QueuesStar, Prefix
  <2> QED
    BY <1>1, <2>1
    DEF Look, CheckActive, GiveUpDelay, CountDown, Reconnect, ConnectActive, connection, service,
        network, DueInv, Ending, Unasked
<1>2. CASE GiveUp
  <2>1. Open' = Open /\ (QueuesStar' <=> QueuesStar)
    BY <1>2 DEF GiveUp, connection, network, Open, QueuesStar, Prefix
  <2>2. client = NoWsi => Ending
    BY <1>2 DEF GiveUp, BaseInv, Exclusive, GivingUp, OpenPc, DueInv
  <2> QED
    BY <1>2, <2>1, <2>2 DEF GiveUp, connection, service, network, DueInv, Ending, Unasked
<1>3. CASE GiveUpClose
  <2>1. Open' = Open /\ QueuesStar'
    <3>1. /\ Len(sendBufferList') = Len(sendBufferList) + 1
          /\ sendBufferList'[Len(sendBufferList')] = "*"
      BY <1>0, <1>3 DEF GiveUpClose, Push, TypeOK
    <3>2. Len(sendBufferList) \in Nat
      BY <1>0 DEF TypeOK
    <3> QED
      BY <1>3, <3>1, <3>2 DEF GiveUpClose, network, Open, QueuesStar, Prefix
  <2>2. client = NoWsi => Ending
    BY <1>3 DEF GiveUpClose, BaseInv, Exclusive, GivingUp, OpenPc, DueInv
  <2>3. client # NoWsi => Open \subseteq {client}
    BY OpenIsClient
  <2> QED
    BY <1>3, <2>1, <2>2, <2>3
    DEF GiveUpClose, service, network, DueInv, Ending, Unasked
<1>4. CASE GiveUpRequest
  <2>1. Open' = Open /\ (QueuesStar' <=> QueuesStar)
    BY <1>4 DEF GiveUpRequest, connection, Open, QueuesStar, Prefix
  <2>2. Open \subseteq writable'
    BY <1>4 DEF GiveUpRequest, RequestWritable, DueInv
  <2> QED
    BY <1>4, <2>1, <2>2 DEF GiveUpRequest, Crash, connection, DueInv, Ending, Unasked
<1>5. CASE GiveUpForget
  <2>1. Open' = Open /\ (QueuesStar' <=> QueuesStar)
    BY <1>5 DEF GiveUpForget, network, Open, QueuesStar, Prefix
  <2> QED
    BY <1>5, <2>1 DEF GiveUpForget, service, network, DueInv, Ending, Unasked
<1>6. CASE Connect
  <2>1. Open = {} /\ Open' = {}
    BY <1>0, <1>6 DEF Connect, OpenSocket, BaseInv, Exclusive, Open, Session, TypeOK
  <2> QED
    BY <1>6, <2>1, EndKeepsDue
    DEF Connect, Crash, DueInv, Ending, QueuesStar, Prefix, Unasked
<1> QED
  BY <1>1, <1>2, <1>3, <1>4, <1>5, <1>6 DEF Dog

\* Whatever send() puts into the queue, for this session or for one before it, has
\* a callback coming or a step of send() or onOpen that asks for one.
THEOREM DueInvariant ==
  ASSUME Unhurried, Subscribes
  PROVE  Spec => []DueInv
<1>1. Init => DueInv
  <2>1. Init => Open = {}
    BY DEF Init, Open
  <2> QED
    BY <2>1 DEF Init, DueInv, Ending
<1>2. BaseInv /\ BaseInv' /\ DueInv /\ [Next]_vars => DueInv'
  <2> SUFFICES ASSUME BaseInv, BaseInv', DueInv, [Next]_vars
               PROVE  DueInv'
    OBVIOUS
  <2>1. CASE Silence \/ UNCHANGED vars
    <3>1. Open' = Open /\ (QueuesStar' <=> QueuesStar)
      BY <2>1 DEF Silence, vars, connection, network, Open, QueuesStar, Prefix
    <3> QED
      BY <2>1, <3>1 DEF Silence, vars, connection, service, watchdog, network, DueInv, Ending,
                        Unasked
  <2> QED
    BY <2>1, ServiceKeepsDue, DogKeepsDue DEF Next
<1> QED
  BY <1>1, <1>2, BaseInvariant, PTL DEF Spec

\* What send() queued is never forgotten: between two callbacks every open
\* session is due for the writable callback that empties the queue, whether the
\* message came from a callback, the connectionHandler or the watchdog, and
\* whether it was queued for this session or is left from an earlier one.
THEOREM QueuedAlwaysDue ==
  ASSUME Unhurried, Subscribes
  PROVE  Spec => []QueuedIsDue
<1>1. DueInv => QueuedIsDue
  BY DEF DueInv, QueuedIsDue, Unasked, OpenPc
<1> QED
  BY <1>1, DueInvariant, PTL

\* A session the watchdog gave up ends: until it does, the "*" that closes it
\* is queued and its callback due.
THEOREM GivenUpAlwaysEnding ==
  ASSUME Unhurried, Subscribes
  PROVE  Spec => []GivenUpIsEnding
<1>1. BaseInv /\ DueInv => GivenUpIsEnding
  <2> SUFFICES ASSUME BaseInv, DueInv, lineStatus = "LINE_DELAY",
                      servicePc \notin {"setLine", "crashed"}
               PROVE  Ending
    BY DEF GivenUpIsEnding, Ending, QueuesStar
  <2>1. client = NoWsi /\ servicePc \notin {"setTime", "setClient"}
    BY DEF BaseInv, DelayedIsClientless
  <2> QED
    BY <2>1 DEF DueInv
<1> QED
  BY <1>1, DueInvariant, BaseInvariant, PTL

-----------------------------------------------------------------------------
(* The signature's verdict comes before what is subscribed on its session. *)

\* What an earlier session left in the queue may precede the signature in it.
\* But with the signature the queue is emptied, and subscriptions join it again
\* only in the callback of an accepted signature.
VerdictInv ==
  isNeedSignature =>
    /\ servicePc \in {"authOk", "handler"} => Open \subseteq authorised
    /\ \A w \in Open \ authorised : "auth" \in sent[w] => ~QueuesTopic

\* A step that opens no session and queues no topic.
LEMMA QuietKeepsVerdict ==
  ASSUME VerdictInv, Open' \subseteq Open,
         QueuesTopic' => QueuesTopic,
         isNeedSignature /\ servicePc' \in {"authOk", "handler"}
           => servicePc \in {"authOk", "handler"},
         \A w \in Open' : sent'[w] = sent[w] /\ (w \in authorised => w \in authorised')
  PROVE  VerdictInv'
BY DEF VerdictInv

LEMMA SendKeepsVerdict ==
  ASSUME BaseInv, VerdictInv, NEW m \in Message, Send(m), UNCHANGED <<wsiState, sent, authorised>>,
         m \in Topic /\ isNeedSignature => servicePc = "handler",
         isNeedSignature /\ servicePc' \in {"authOk", "handler"}
           => servicePc \in {"authOk", "handler"}
  PROVE  VerdictInv'
<1>1. QueuesTopic' => QueuesTopic \/ m \in Topic
  BY QueueGrows DEF BaseInv, ClientInv, Send
<1> QED
  BY <1>1 DEF VerdictInv, Open

LEMMA ServiceKeepsVerdict ==
  ASSUME BaseInv, VerdictInv, Service
  PROVE  VerdictInv'
<1>0. TypeOK
  BY DEF BaseInv, ClientInv
<1>1. CASE StartConnect
  <2>1. Open' = Open
    BY <1>0, <1>1 DEF StartConnect, OpenSocket, Open, TypeOK
  <2> QED
    BY <1>1, <2>1, QuietKeepsVerdict DEF StartConnect, QueuesTopic
<1>2. CASE Callback
  <2>1. CASE OpenLine \/ OpenTime \/ OpenClient \/ OpenRegister \/ HandleAuth \/ HandleQuiet
               \/ HandleError \/ CloseIdle \/ CloseUnregister
    BY <2>1, QuietKeepsVerdict
    DEF OpenLine, OpenTime, OpenClient, OpenRegister, HandleAuth, HandleQuiet, HandleError,
        CloseIdle, CloseUnregister, connection, network, QueuesTopic, Open
  <2>2. CASE OpenGreet
    <3>1. CASE isNeedSignature /\ Send("auth") /\ servicePc' = "poll"
      BY <2>2, <3>1, SendKeepsVerdict, SymbolsAssumption DEF OpenGreet, Message
    <3>2. CASE /\ UNCHANGED <<sendBufferList, writable>>
               /\ IF isNeedSignature THEN servicePc' = "leave" ELSE servicePc' = "handler"
      BY <2>2, <3>2, QuietKeepsVerdict DEF OpenGreet, QueuesTopic, Open
    <3> QED
      BY <2>2, <3>1, <3>2 DEF OpenGreet
  <2>3. CASE Handler
    <3>1. CASE cursor <= Len(symbols)
      <4>1. symbols[cursor] \in Message /\ ~(cursor > Len(symbols))
        BY <1>0, <3>1, SymbolType, SymbolsAssumption DEF TypeOK
      <4> QED
        BY <2>3, <4>1, SendKeepsVerdict DEF Handler
    <3>2. CASE ~(cursor <= Len(symbols))
      BY <2>3, <3>2, QuietKeepsVerdict DEF Handler, QueuesTopic, Open
    <3> QED
      BY <3>1, <3>2
  <2>4. CASE HandlePing
    BY <2>4, SendKeepsVerdict, SymbolsAssumption DEF HandlePing, Message
  <2>5. CASE CloseKill
    <3>1. Open' = Open
      BY <1>0, <2>5 DEF CloseKill, Open, TypeOK
    <3> QED
      BY <2>5, <3>1, QuietKeepsVerdict DEF CloseKill, Crash, connection, QueuesTopic
  <2>6. ASSUME NEW ws, Free(ws), UNCHANGED sendBufferList, servicePc' \in {"poll", "ended"}
        PROVE  VerdictInv'
    <3>1. Open' = Open \ ws
      BY <1>0, <2>6 DEF Free, Open, TypeOK
    <3>2. \A w \in Open' : sent'[w] = sent[w] /\ (w \in authorised => w \in authorised')
      BY <2>6, <3>1 DEF Free, Open
    <3> QED
      BY <2>6, <3>1, <3>2, QuietKeepsVerdict DEF QueuesTopic
  <2>7. CASE Disconnect \/ EndService
    BY <2>6, <2>7 DEF Disconnect, EndService
  <2> QED
    BY <1>2, <2>1, <2>2, <2>3, <2>4, <2>5, <2>7 DEF Callback
<1>3. ASSUME NEW w \in Wsi, Established(w)
      PROVE  VerdictInv'
  <2>1. Open' = Open \cup {w} /\ sent[w] = {}
    BY <1>0, <1>3 DEF Established, BaseInv, Fresh, Open, TypeOK
  <2>2. QueuesTopic' = QueuesTopic
    BY <1>3 DEF Established, QueuesTopic
  <2> QED
    BY <1>3, <2>1, <2>2 DEF Established, VerdictInv
<1>4. ASSUME NEW w \in Wsi, Lost(w)
      PROVE  VerdictInv'
  <2>1. Open' = Open \ {w}
    BY <1>0, <1>4 DEF Lost, Open, TypeOK
  <2> QED
    BY <1>4, <2>1, QuietKeepsVerdict DEF Lost, QueuesTopic
<1>5. ASSUME NEW w \in Wsi, Flush(w)
      PROVE  VerdictInv'
  BY <1>5 DEF Flush, service, VerdictInv, QueuesTopic
<1>6. ASSUME NEW w \in Wsi, NEW m \in ServerMessage, Receive(w, m)
      PROVE  VerdictInv'
  <2>1. Open = {w} /\ Open' = Open
    BY <1>6 DEF Receive, BaseInv, Exclusive, Open, Used
  <2>2. CASE m = "authOk"
    BY <1>6, <2>1, <2>2 DEF Receive, VerdictInv
  <2>3. CASE m # "authOk"
    BY <1>6, <2>1, <2>3, QuietKeepsVerdict DEF Receive, ServerMessage, QueuesTopic
  <2> QED
    BY <2>2, <2>3
<1> QED
  BY <1>1, <1>2, <1>3, <1>4, <1>5, <1>6 DEF Service

LEMMA DogKeepsVerdict ==
  ASSUME BaseInv, VerdictInv, Dog
  PROVE  VerdictInv'
<1>0. TypeOK
  BY DEF BaseInv, ClientInv
<1>1. Open' = Open /\ UNCHANGED <<sent, authorised>> /\ servicePc' \in {servicePc, "crashed"}
  BY <1>0 DEF Dog, Look, CheckActive, GiveUp, GiveUpClose, GiveUpRequest, GiveUpForget,
              GiveUpDelay, CountDown, Reconnect, Connect, ConnectActive, OpenSocket, Crash,
              connection, service, network, Open, TypeOK
<1>2. QueuesTopic' => QueuesTopic
  <2>1. CASE GiveUpClose
    BY <1>0, <2>1, QueueGrows, SymbolsAssumption DEF GiveUpClose, Message
  <2>2. CASE ~GiveUpClose
    BY <2>2 DEF Dog, Look, CheckActive, GiveUp, GiveUpRequest, GiveUpForget, GiveUpDelay,
                CountDown, Reconnect, Connect, ConnectActive, connection, QueuesTopic
  <2> QED
    BY <2>1, <2>2
<1> QED
  BY <1>1, <1>2, QuietKeepsVerdict

\* The order of the queue: a signature in it is of a session whose server got none
\* yet, so that no subscription can join the queue behind it.
QueuesAuth == "auth" \in Prefix(Len(sendBufferList))

OrderInv ==
  isNeedSignature =>
    /\ QueuedAfter("auth") \cap Topic = {}
    /\ servicePc \in OpenPc => \A w \in Open : "auth" \notin sent[w]
    /\ servicePc \in {"authOk", "handler"} => \E w \in Open : "auth" \in sent[w]
    /\ QueuesAuth => \A w \in Open : "auth" \notin sent[w]

LEMMA PushFacts ==
  ASSUME TypeOK, NEW m \in Message, Push(m)
  PROVE  /\ QueuesAuth' => QueuesAuth \/ m = "auth"
         /\ QueuedAfter("auth")' \subseteq QueuedAfter("auth") \cup {m}
         /\ ~QueuesAuth => QueuedAfter("auth")' \subseteq QueuedAfter("auth")
<1> DEFINE n == Len(sendBufferList)
<1>1. /\ n \in Nat /\ DOMAIN sendBufferList = 1 .. n
      /\ Len(sendBufferList') = n + 1 /\ DOMAIN sendBufferList' = 1 .. n + 1
      /\ sendBufferList'[n + 1] = m
      /\ \A i \in 1 .. n : sendBufferList'[i] = sendBufferList[i]
  BY DEF TypeOK, Push
<1> HIDE DEF n
<1>2. QueuesAuth <=> \E i \in 1 .. n : sendBufferList[i] = "auth"
  BY DEF QueuesAuth, Prefix, n
<1>3. QueuesAuth' <=> \E i \in 1 .. n + 1 : sendBufferList'[i] = "auth"
  BY <1>1 DEF QueuesAuth, Prefix
<1>4. QueuesAuth' => QueuesAuth \/ m = "auth"
  BY <1>1, <1>2, <1>3
<1>5. ASSUME NEW x \in QueuedAfter("auth")'
      PROVE  x \in QueuedAfter("auth") \/ (x = m /\ QueuesAuth)
  <2>1. PICK i \in 1 .. n + 1 :
          x = sendBufferList'[i] /\ \E k \in 1 .. i - 1 : sendBufferList'[k] = "auth"
    BY <1>1, <1>5 DEF QueuedAfter
  <2>2. PICK k \in 1 .. i - 1 : sendBufferList'[k] = "auth"
    BY <2>1
  <2>3. k \in 1 .. n /\ sendBufferList[k] = "auth"
    BY <1>1, <2>1, <2>2
  <2>4. CASE i = n + 1
    BY <1>1, <1>2, <2>1, <2>3, <2>4
  <2>5. CASE i # n + 1
    <3>1. i \in 1 .. n /\ x = sendBufferList[i]
      BY <1>1, <2>1, <2>5
    <3> QED
      BY <1>1, <2>2, <2>3, <3>1 DEF QueuedAfter
  <2> QED
    BY <2>4, <2>5
<1> QED
  BY <1>4, <1>5

\* A step that leaves the queue alone and opens no session.
LEMMA QuietKeepsOrder ==
  ASSUME OrderInv, UNCHANGED sendBufferList, Open' \subseteq Open,
         \A w \in Open' : sent'[w] = sent[w],
         servicePc' \in OpenPc => servicePc \in OpenPc,
         isNeedSignature /\ servicePc' \in {"authOk", "handler"}
           => servicePc \in {"authOk", "handler"} /\ Open' = Open
  PROVE  OrderInv'
<1>1. (QueuesAuth' <=> QueuesAuth) /\ QueuedAfter("auth")' = QueuedAfter("auth")
  BY DEF QueuesAuth, Prefix, QueuedAfter
<1> QED
  BY <1>1 DEF OrderInv

LEMMA PushKeepsOrder ==
  ASSUME TypeOK, OrderInv, NEW m \in Message, Push(m), UNCHANGED <<wsiState, sent>>,
         m \in Topic /\ isNeedSignature => servicePc = "handler",
         m = "auth" => servicePc = "greet",
         servicePc' \in OpenPc => servicePc \in OpenPc,
         isNeedSignature /\ servicePc' \in {"authOk", "handler"}
           => servicePc \in {"authOk", "handler"}
  PROVE  OrderInv'
<1>1. Open' = Open
  BY DEF Open
<1>2. m \in Topic /\ isNeedSignature => ~QueuesAuth
  BY DEF OrderInv
<1>3. m = "auth" /\ isNeedSignature => \A w \in Open : "auth" \notin sent[w]
  BY DEF OrderInv, OpenPc
<1> QED
  BY <1>1, <1>2, <1>3, PushFacts DEF OrderInv

LEMMA ServiceKeepsOrder ==
  ASSUME BaseInv, OrderInv, Service
  PROVE  OrderInv'
<1>0. TypeOK
  BY DEF BaseInv, ClientInv
<1> USE DEF OpenPc
<1>1. CASE StartConnect
  <2>1. Open' = Open
    BY <1>0, <1>1 DEF StartConnect, OpenSocket, Open, TypeOK
  <2> QED
    BY <1>1, <2>1, QuietKeepsOrder DEF StartConnect
<1>2. CASE Callback
  <2>1. CASE OpenLine \/ OpenTime \/ OpenClient \/ OpenRegister \/ HandleAuth \/ HandleQuiet
               \/ HandleError \/ CloseIdle \/ CloseUnregister
    BY <2>1, QuietKeepsOrder
    DEF OpenLine, OpenTime, OpenClient, OpenRegister, HandleAuth, HandleQuiet, HandleError,
        CloseIdle, CloseUnregister, connection, network, Open
  <2>2. CASE OpenGreet
    <3>1. CASE isNeedSignature /\ Send("auth") /\ servicePc' = "poll"
      BY <1>0, <2>2, <3>1, PushKeepsOrder, SymbolsAssumption DEF OpenGreet, Message, Send
    <3>2. CASE /\ UNCHANGED <<sendBufferList, writable>>
               /\ IF isNeedSignature THEN servicePc' = "leave" ELSE servicePc' = "handler"
      BY <2>2, <3>2, QuietKeepsOrder DEF OpenGreet, Open
    <3> QED
      BY <2>2, <3>1, <3>2 DEF OpenGreet
  <2>3. CASE Handler
    <3>1. CASE cursor <= Len(symbols)
      <4>1. cursor \in 1 .. Len(symbols) /\ ~(cursor > Len(symbols))
        BY <1>0, <3>1, SymbolsAssumption DEF TypeOK
      <4>2. symbols[cursor] \in Topic
        BY <4>1, SymbolsAssumption
      <4>3. symbols[cursor] \in Message /\ symbols[cursor] # "auth"
        BY <4>2, SymbolsAssumption DEF Message
      <4> QED
        BY <1>0, <2>3, <4>1, <4>3, PushKeepsOrder DEF Handler, Send
    <3>2. CASE ~(cursor <= Len(symbols))
      BY <2>3, <3>2, QuietKeepsOrder DEF Handler, Open
    <3> QED
      BY <3>1, <3>2
  <2>4. CASE HandlePing
    BY <1>0, <2>4, PushKeepsOrder, SymbolsAssumption DEF HandlePing, Message, Send
  <2>5. CASE CloseKill
    <3>1. Open' = Open
      BY <1>0, <2>5 DEF CloseKill, Open, TypeOK
    <3> QED
      BY <2>5, <3>1, QuietKeepsOrder DEF CloseKill, Crash, connection
  <2>6. CASE Disconnect \/ EndService
    <3>1. Open' \subseteq Open /\ \A w \in Open' : sent'[w] = sent[w]
      BY <1>0, <2>6 DEF Disconnect, EndService, Free, Open, TypeOK
    <3> QED
      BY <2>6, <3>1, QuietKeepsOrder DEF Disconnect, EndService
  <2> QED
    BY <1>2, <2>1, <2>2, <2>3, <2>4, <2>5, <2>6 DEF Callback
<1>3. ASSUME NEW w \in Wsi, Established(w)
      PROVE  OrderInv'
  <2>1. Open = {} /\ Open' = {w} /\ sent[w] = {}
    BY <1>0, <1>3 DEF Established, BaseInv, Exclusive, Fresh, Open, Used, TypeOK
  <2>2. QueuedAfter("auth")' = QueuedAfter("auth")
    BY <1>3 DEF Established, QueuedAfter
  <2> QED
    BY <1>3, <2>1, <2>2 DEF Established, OrderInv
<1>4. ASSUME NEW w \in Wsi, Lost(w)
      PROVE  OrderInv'
  <2>1. Open' = Open \ {w}
    BY <1>0, <1>4 DEF Lost, Open, TypeOK
  <2> QED
    BY <1>4, <2>1, QuietKeepsOrder DEF Lost
<1>5. ASSUME NEW w \in Wsi, Flush(w)
      PROVE  OrderInv'
  <2>1. QueuedAfter("auth")' = {} /\ ~QueuesAuth'
    BY <1>5 DEF Flush, QueuedAfter, QueuesAuth, Prefix
  <2> QED
    BY <1>5, <2>1 DEF Flush, service, OrderInv
<1>6. ASSUME NEW w \in Wsi, NEW m \in ServerMessage, Receive(w, m)
      PROVE  OrderInv'
  <2>1. Open' = Open /\ w \in Open
    BY <1>6 DEF Receive, Open
  <2>2. CASE m = "authOk"
    <3>1. (QueuesAuth' <=> QueuesAuth) /\ QueuedAfter("auth")' = QueuedAfter("auth")
      BY <1>6 DEF Receive, QueuesAuth, Prefix, QueuedAfter
    <3> QED
      BY <1>6, <2>1, <2>2, <3>1 DEF Receive, Answers, OrderInv
  <2>3. CASE m # "authOk"
    BY <1>6, <2>1, <2>3, QuietKeepsOrder DEF Receive, ServerMessage
  <2> QED
    BY <2>2, <2>3
<1> QED
  BY <1>1, <1>2, <1>3, <1>4, <1>5, <1>6 DEF Service

LEMMA DogKeepsOrder ==
  ASSUME BaseInv, OrderInv, Dog
  PROVE  OrderInv'
<1>0. TypeOK
  BY DEF BaseInv, ClientInv
<1>1. Open' = Open /\ UNCHANGED sent /\ servicePc' \in {servicePc, "crashed"}
  BY <1>0 DEF Dog, Look, CheckActive, GiveUp, GiveUpClose, GiveUpRequest, GiveUpForget,
              GiveUpDelay, CountDown, Reconnect, Connect, ConnectActive, OpenSocket, Crash,
              connection, service, network, Open, TypeOK
<1>2. CASE GiveUpClose
  BY <1>0, <1>1, <1>2, PushKeepsOrder, SymbolsAssumption
  DEF GiveUpClose, Message, service, network, OpenPc
<1>3. CASE ~GiveUpClose
  <2>1. UNCHANGED sendBufferList
    BY <1>3 DEF Dog, Look, CheckActive, GiveUp, GiveUpRequest, GiveUpForget, GiveUpDelay,
                CountDown, Reconnect, Connect, ConnectActive, connection
  <2> QED
    BY <1>1, <2>1, QuietKeepsOrder DEF OpenPc
<1> QED
  BY <1>2, <1>3

LEMMA OrderInvariant ==
  ASSUME Unhurried
  PROVE  Spec => []OrderInv
<1>1. Init => OrderInv
  <2>1. Init => Open = {} /\ QueuedAfter("auth") = {}
    BY DEF Init, Open, QueuedAfter
  <2> QED
    BY <2>1 DEF Init, OrderInv, OpenPc
<1>2. BaseInv /\ OrderInv /\ [Next]_vars => OrderInv'
  <2> SUFFICES ASSUME BaseInv, OrderInv, [Next]_vars
               PROVE  OrderInv'
    OBVIOUS
  <2>1. CASE Silence \/ UNCHANGED vars
    BY <2>1, QuietKeepsOrder DEF Silence, vars, connection, service, network, Open
  <2> QED
    BY <2>1, ServiceKeepsOrder, DogKeepsOrder DEF Next
<1> QED
  BY <1>1, <1>2, BaseInvariant, PTL DEF Spec

\* Only a flush adds to what a session's server got, and not while the verdict
\* on its signature is out.
LEMMA OnlyFlushSends ==
  ASSUME BaseInv, [Next]_vars, NEW w \in Wsi, ~(sent'[w] \subseteq sent[w])
  PROVE  Flush(w)
<1>0. TypeOK
  BY DEF BaseInv, ClientInv
<1>1. ~Callback
  BY DEF Callback, OpenLine, OpenTime, OpenClient, OpenRegister, OpenGreet, Handler, HandlePing,
         HandleAuth, HandleQuiet, HandleError, CloseKill, CloseIdle, CloseUnregister, Disconnect,
         EndService, Free, network
<1>2. ~StartConnect
  BY DEF StartConnect
<1>3. ~Dog
  BY DEF Dog, Look, CheckActive, GiveUp, GiveUpClose, GiveUpRequest, GiveUpForget, GiveUpDelay,
         CountDown, Reconnect, Connect, ConnectActive, network
<1>4. ~Silence /\ ~UNCHANGED vars
  BY DEF Silence, vars, network
<1>5. ASSUME NEW v \in Wsi, Established(v) \/ Lost(v) \/ \E m \in ServerMessage : Receive(v, m)
      PROVE  FALSE
  BY <1>5 DEF Established, Lost, Receive
<1>6. ASSUME NEW v \in Wsi, Flush(v)
      PROVE  v = w
  BY <1>0, <1>6 DEF Flush, FlushAll, FlushFails, TypeOK
<1> QED
  BY <1>1, <1>2, <1>3, <1>4, <1>5, <1>6 DEF Next, Service

\* Nothing of a signed request follows the signature to the server before the
\* verdict on it, neither in the flush that sends the signature nor in a later
\* one, on the first session and on every other, whatever a lost session, a
\* failed write or a "*" left in the queue.
THEOREM NeverTopicBeforeVerdict ==
  ASSUME Unhurried
  PROVE  Spec => NoTopicBeforeVerdict
<1>1. Init => VerdictInv
  <2>1. Init => Open = {}
    BY DEF Init, Open
  <2> QED
    BY <2>1 DEF Init, VerdictInv
<1>2. BaseInv /\ VerdictInv /\ [Next]_vars => VerdictInv'
  <2> SUFFICES ASSUME BaseInv, VerdictInv, [Next]_vars
               PROVE  VerdictInv'
    OBVIOUS
  <2>1. CASE Silence \/ UNCHANGED vars
    BY <2>1, QuietKeepsVerdict
    DEF Silence, vars, connection, service, network, QueuesTopic, Open
  <2> QED
    BY <2>1, ServiceKeepsVerdict, DogKeepsVerdict DEF Next
<1>3. ASSUME BaseInv, VerdictInv, [Next]_vars, isNeedSignature,
             NEW w \in Wsi, "auth" \in sent[w], w \notin authorised'
      PROVE  Topic \cap sent'[w] \subseteq sent[w]
  <2>1. CASE Flush(w)
    <3>1. ~QueuesTopic /\ w \notin authorised
      BY <1>3, <2>1 DEF Flush, VerdictInv
    <3>2. \A n \in 0 .. Len(sendBufferList) : Topic \cap Prefix(n) = {}
      BY <3>1 DEF Prefix, QueuesTopic, BaseInv, ClientInv, TypeOK
    <3> QED
      BY <1>3, <2>1, <3>2 DEF Flush, FlushAll, FlushFails, BaseInv, ClientInv, TypeOK
  <2>2. CASE ~Flush(w)
    BY <1>3, <2>2, OnlyFlushSends
  <2> QED
    BY <2>1, <2>2
<1>4. BaseInv /\ VerdictInv /\ [Next]_vars
        => [isNeedSignature =>
              \A w \in Wsi : "auth" \in sent[w] /\ w \notin authorised'
                              => Topic \cap sent'[w] \subseteq sent[w]]_vars
  BY <1>3
<1>5. OrderInv => (isNeedSignature => QueuedAfter("auth") \cap Topic = {})
  BY DEF OrderInv
<1> QED
  BY <1>1, <1>2, <1>4, <1>5, BaseInvariant, OrderInvariant, PTL DEF Spec, NoTopicBeforeVerdict

=============================================================================
