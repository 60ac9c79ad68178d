------------------------- MODULE WebSocketConnection -------------------------
(***************************************************************************)
(* One WebSocketConnection and the two threads that drive it: the service  *)
(* thread, inside lws_service, which calls event_cb for every event of the *)
(* sockets opened on the connection's behalf, and the watchdog thread,     *)
(* which looks at the connection once a second.  Neither takes a lock for  *)
(* connectStatus, lineStatus, client or the watchdog's list; the mutex of  *)
(* the connection covers sendBufferList alone.  A step of a thread is what *)
(* it does between two accesses to a field the other thread writes.        *)
(*                                                                         *)
(* libwebsockets and the server are external: an element of Wsi is a       *)
(* socket lws has room for, and is used again after it was closed.         *)
(***************************************************************************)
EXTENDS Naturals, Sequences, FiniteSets

CONSTANTS
  Wsi,                       \* the sockets lws can hold for this connection
  NoWsi,                     \* nullptr
  isAutoReconnect,           \* SubscriptionOptions
  connectionDelayOnFailure,  \* SubscriptionOptions, in turns of the watchdog
  isNeedSignature, isV2,     \* the flags of the request
  symbols,                   \* what its connectionHandler sends, in order
  hasErrorHandler,           \* the caller gave an errorHandler
  callbackMayThrow,          \* signing, parsing or the caller's callback may throw
  promptService,             \* handshakes and callbacks end before the next turn
  MaxBuffer                  \* bound on what the environment makes us queue

ASSUME WsiAssumption == NoWsi \notin Wsi
ASSUME DelayAssumption == connectionDelayOnFailure \in Nat
ASSUME FlagAssumption ==
  /\ {isAutoReconnect, isNeedSignature, isV2, hasErrorHandler} \subseteq BOOLEAN
  /\ {callbackMayThrow, promptService} \subseteq BOOLEAN
ASSUME BoundAssumption == MaxBuffer \in Nat

Topic == {symbols[i] : i \in DOMAIN symbols}

ASSUME SymbolsAssumption ==
  symbols \in Seq(Topic) /\ Topic \cap {"auth", "pong", "*"} = {}

\* What sendBufferList holds: the signature, the subscriptions or requests of
\* the connectionHandler, the answer to a ping, and reConnect's "*".
Message == Topic \cup {"auth", "pong", "*"}

\* What the server sends, by the branch of onMessage it takes.
ServerMessage == {"error", "ping", "authOk", "authFail", "data", "other"}

\* Inside onOpen, and inside onMessage's close().
OpenPc == {"setLine", "setTime", "setClient", "register", "greet"}
ClosePc == {"kill", "idle", "unregister"}
ServicePc == {"start", "poll", "disconnect", "handler", "leave", "ended", "crashed"}
               \cup OpenPc \cup ClosePc \cup ServerMessage
DogPc == {"sleep", "active", "giveUp", "close", "request", "forget", "delay",
          "delayed", "connect", "setActive", "crashed"}

VARIABLES
  connectStatus, lineStatus, client, delayInSecond, sendBufferList,
  silent,         \* now - lastReceivedTime > receiveLimitMs
  registered,     \* the connection is in the watchdog's connectionList
  servicePc, serviceWsi,
  cursor,         \* the connectionHandler's iterator over symbols
  dogPc, dogWsi,  \* dogWsi: the value of client that send() read at line 90
  wsiState, writable,
  sent,           \* signature and subscriptions the server received on each socket
  authorised      \* the sockets whose signature the server accepted

connection == <<connectStatus, lineStatus, client, delayInSecond, sendBufferList,
                silent, registered>>
service == <<servicePc, serviceWsi, cursor>>
watchdog == <<dogPc, dogWsi>>
network == <<wsiState, writable, sent, authorised>>
vars == <<connection, service, watchdog, network>>

Open == {w \in Wsi : wsiState[w] \in {"open", "killed"}}
Attached == {w \in Wsi : wsiState[w] \in {"open", "killed", "closing"}}
Session == {w \in Wsi : wsiState[w] \in {"connecting", "open", "killed"}}

TypeOK ==
  /\ connectStatus \in {"CONNECTED", "CLOSED"}
  /\ lineStatus \in {"LINE_ACTIVE", "LINE_IDEL", "LINE_DELAY"}
  /\ client \in Wsi \cup {NoWsi}
  /\ delayInSecond \in 0 .. connectionDelayOnFailure
  /\ sendBufferList \in Seq(Message)
  /\ {silent, registered} \subseteq BOOLEAN
  /\ servicePc \in ServicePc /\ serviceWsi \in Wsi \cup {NoWsi}
  /\ cursor \in 1 .. Len(symbols) + 1
  /\ dogPc \in DogPc /\ dogWsi \in Wsi \cup {NoWsi}
  /\ wsiState \in [Wsi -> {"free", "connecting", "open", "killed", "closing"}]
  /\ writable \subseteq Wsi
  /\ sent \in [Wsi -> SUBSET Message]
  /\ authorised \subseteq Wsi

Init ==
  /\ connectStatus = "CLOSED" /\ lineStatus = "LINE_IDEL" /\ client = NoWsi
  /\ delayInSecond = 0 /\ sendBufferList = <<>>
  /\ silent = TRUE /\ registered = FALSE
  /\ servicePc = "start" /\ serviceWsi = NoWsi /\ cursor = 1
  /\ dogPc = "sleep" /\ dogWsi = NoWsi
  /\ wsiState = [w \in Wsi |-> "free"] /\ writable = {}
  /\ sent = [w \in Wsi |-> {}] /\ authorised = {}

-----------------------------------------------------------------------------
\* A null or dangling lws* was dereferenced, and the process with it is gone.
Crash == servicePc' = "crashed" /\ dogPc' = "crashed"

(* send(), and lws_callback_on_writable for a socket that still exists.    *)

MayQueue == Len(sendBufferList) < MaxBuffer

Push(m) == sendBufferList' = Append(sendBufferList, m)

RequestWritable(w) == writable' = IF w \in Open THEN writable \cup {w} ELSE writable

\* Mutant: send() does not ask lws for a writable callback.
SendPushOnly(m) == Push(m) /\ UNCHANGED writable

\* The service thread's send: the lock is free between two of its steps, and
\* the socket in client cannot be closed by anyone but this thread.
Send(m) == Push(m) /\ RequestWritable(client)

\* lws_client_connect_via_info: a socket starts its handshake, or the attempt
\* fails at once and lws calls event_cb with CLIENT_CONNECTION_ERROR, that is
\* disconnect(), before it returns.
OpenSocket ==
  \/ \E w \in Wsi : /\ wsiState[w] = "free"
                    /\ wsiState' = [wsiState EXCEPT ![w] = "connecting"]
                    /\ UNCHANGED <<connectStatus, client>>
  \/ /\ connectStatus' = "CLOSED" /\ client' = NoWsi
     /\ UNCHANGED wsiState

-----------------------------------------------------------------------------
(* The service thread.                                                     *)

\* startService and startReq connect() every connection before their loop.
StartConnect ==
  /\ servicePc = "start"
  /\ OpenSocket
  /\ lineStatus' = "LINE_ACTIVE"
  /\ servicePc' = "poll"
  /\ UNCHANGED <<delayInSecond, sendBufferList, silent, registered, serviceWsi, cursor,
                 watchdog, writable, sent, authorised>>

\* CLIENT_ESTABLISHED: onOpen, one assignment at a time.
Established(w) ==
  /\ servicePc = "poll" /\ wsiState[w] = "connecting" /\ MayQueue
  /\ wsiState' = [wsiState EXCEPT ![w] = "open"]
  /\ connectStatus' = "CONNECTED"
  /\ servicePc' = "setLine" /\ serviceWsi' = w
  /\ UNCHANGED <<cursor, lineStatus, client, delayInSecond, sendBufferList, silent,
                 registered, watchdog, writable, sent, authorised>>

OpenLine ==
  /\ servicePc = "setLine" /\ servicePc' = "setTime"
  /\ lineStatus' = "LINE_ACTIVE"
  /\ UNCHANGED <<connectStatus, client, delayInSecond, sendBufferList, silent,
                 registered, serviceWsi, cursor, watchdog, network>>

OpenTime ==
  /\ servicePc = "setTime" /\ servicePc' = "setClient"
  /\ silent' = FALSE
  /\ UNCHANGED <<connectStatus, lineStatus, client, delayInSecond, sendBufferList,
                 registered, serviceWsi, cursor, watchdog, network>>

\* Mutant: onOpen does not keep the socket it was called with.
OpenClientForgotten ==
  /\ servicePc = "setClient" /\ servicePc' = "register"
  /\ client' = NoWsi /\ serviceWsi' = NoWsi
  /\ UNCHANGED <<cursor, connectStatus, lineStatus, delayInSecond, sendBufferList,
                 silent, registered, watchdog, network>>

OpenClient ==
  /\ servicePc = "setClient" /\ servicePc' = "register"
  /\ client' = serviceWsi /\ serviceWsi' = NoWsi
  /\ UNCHANGED <<cursor, connectStatus, lineStatus, delayInSecond, sendBufferList,
                 silent, registered, watchdog, network>>

\* dog->onConnectionCreated(this): no lock, no duplicates.
OpenRegister ==
  /\ servicePc = "register" /\ servicePc' = "greet"
  /\ registered' = TRUE
  /\ UNCHANGED <<connectStatus, lineStatus, client, delayInSecond, sendBufferList,
                 silent, serviceWsi, cursor, watchdog, network>>

\* Mutant: onOpen runs the connectionHandler right after the signature.
OpenGreetBoth ==
  /\ servicePc = "greet" /\ servicePc' = "handler"
  /\ \/ isNeedSignature /\ dogPc # "request" /\ Send("auth")
     \/ ~isNeedSignature /\ UNCHANGED <<sendBufferList, writable>>
  /\ UNCHANGED <<connectStatus, lineStatus, client, delayInSecond, silent, registered,
                 serviceWsi, cursor, watchdog, wsiState, sent, authorised>>

\* The signature, which throws without keys, or at once the connectionHandler.
OpenGreet ==
  /\ servicePc = "greet"
  /\ \/ isNeedSignature /\ dogPc # "request" /\ Send("auth") /\ servicePc' = "poll"
     \/ /\ IF isNeedSignature THEN callbackMayThrow /\ servicePc' = "leave"
                              ELSE servicePc' = "handler"
        /\ UNCHANGED <<sendBufferList, writable>>
  /\ UNCHANGED <<connectStatus, lineStatus, client, delayInSecond, silent, registered,
                 serviceWsi, cursor, watchdog, wsiState, sent, authorised>>

\* The connectionHandler sends one message for each symbol.
Handler ==
  /\ servicePc = "handler"
  /\ \/ /\ cursor <= Len(symbols) /\ dogPc # "request"
        /\ Send(symbols[cursor]) /\ cursor' = cursor + 1
        /\ UNCHANGED servicePc
     \/ /\ cursor > Len(symbols) /\ cursor' = 1 /\ servicePc' = "poll"
        /\ UNCHANGED <<sendBufferList, writable>>
  /\ UNCHANGED <<connectStatus, lineStatus, client, delayInSecond, silent, registered,
                 serviceWsi, watchdog, wsiState, sent, authorised>>

\* CLIENT_WRITEABLE: flushSendBuffer writes the list from its head and stops
\* at "*" or at a write that falls short; then event_cb returns 1 and lws
\* closes the socket.  The list is emptied in every case.
Prefix(n) == {sendBufferList[i] : i \in 1 .. n}

FlushAll(w) ==
  /\ "*" \notin Prefix(Len(sendBufferList))
  /\ sent' = [sent EXCEPT ![w] = @ \cup (Prefix(Len(sendBufferList)) \ {"pong"})]
  /\ UNCHANGED wsiState

FlushFails(w) ==
  \E n \in 1 .. Len(sendBufferList) :
    /\ "*" \notin Prefix(n - 1)
    /\ sent' = [sent EXCEPT ![w] = @ \cup (Prefix(n - 1) \ {"pong"})]
    /\ wsiState' = [wsiState EXCEPT ![w] = "closing"]

Flush(w) ==
  /\ servicePc = "poll" /\ dogPc # "request"
  /\ w \in writable \cap Open
  /\ FlushAll(w) \/ FlushFails(w)
  /\ writable' = writable \ {w}
  /\ sendBufferList' = <<>>
  /\ UNCHANGED <<connectStatus, lineStatus, client, delayInSecond, silent, registered,
                 service, watchdog, authorised>>

\* CLIENT_RECEIVE: onMessage notes the time, then takes the message's branch.
Answers(w, m) ==
  CASE m = "authOk" -> isNeedSignature /\ "auth" \in sent[w] /\ MayQueue
    [] m = "authFail" -> isNeedSignature /\ isV2 /\ "auth" \in sent[w]
    [] m = "ping" -> MayQueue
    [] OTHER -> TRUE

Receive(w, m) ==
  /\ servicePc = "poll" /\ w \in Open /\ Answers(w, m)
  /\ silent' = FALSE
  /\ servicePc' = m
  /\ authorised' = IF m = "authOk" THEN authorised \cup {w} ELSE authorised
  /\ UNCHANGED <<connectStatus, lineStatus, client, delayInSecond, sendBufferList,
                 registered, serviceWsi, cursor, watchdog, wsiState, writable, sent>>

\* A ping of any of the three protocols, and an accepted signature.
HandlePing ==
  /\ servicePc = "ping" /\ servicePc' = "poll"
  /\ dogPc # "request" /\ Send("pong")
  /\ UNCHANGED <<connectStatus, lineStatus, client, delayInSecond, silent, registered,
                 serviceWsi, cursor, watchdog, wsiState, sent, authorised>>

HandleAuth ==
  /\ servicePc = "authOk" /\ servicePc' = "handler"
  /\ UNCHANGED <<connection, serviceWsi, cursor, watchdog, network>>

\* Data goes to implCallback, which may throw; a refused V2 signature, an
\* acknowledgement or an unknown message is at most logged.
HandleQuiet ==
  /\ servicePc \in {"data", "authFail", "other"}
  /\ \/ servicePc' = "poll"
     \/ servicePc = "data" /\ callbackMayThrow /\ servicePc' = "leave"
  /\ UNCHANGED <<connection, serviceWsi, cursor, watchdog, network>>

\* status or err-code: an empty errorHandler is std::bad_function_call, and
\* the caller's own may throw.
HandleError ==
  /\ servicePc = "error"
  /\ \/ hasErrorHandler /\ servicePc' = "kill"
     \/ (~hasErrorHandler \/ callbackMayThrow) /\ servicePc' = "leave"
  /\ UNCHANGED <<connectStatus, lineStatus, client, delayInSecond, sendBufferList,
                 silent, registered, serviceWsi, cursor, watchdog, network>>

\* close(): kills the socket in client, which need not be the one the error
\* came on, and dereferences it although the watchdog may have nulled it.
CloseKill ==
  /\ servicePc = "kill"
  /\ \/ /\ client # NoWsi
        /\ wsiState' = [wsiState EXCEPT ![client] = IF @ = "open" THEN "killed" ELSE @]
        /\ servicePc' = "idle"
        /\ UNCHANGED dogPc
     \/ client = NoWsi /\ Crash /\ UNCHANGED wsiState
  /\ UNCHANGED <<connection, serviceWsi, cursor, dogWsi, writable, sent, authorised>>

CloseIdle ==
  /\ servicePc = "idle" /\ servicePc' = "unregister"
  /\ lineStatus' = "LINE_IDEL"
  /\ UNCHANGED <<connectStatus, client, delayInSecond, sendBufferList, silent,
                 registered, serviceWsi, cursor, watchdog, network>>

\* Mutant: close() does not take the connection off the watchdog's list.
CloseStaysRegistered ==
  /\ servicePc = "unregister" /\ servicePc' = "poll"
  /\ UNCHANGED <<connection, serviceWsi, cursor, watchdog, network>>

CloseUnregister ==
  /\ servicePc = "unregister" /\ servicePc' = "poll"
  /\ registered' = FALSE
  /\ UNCHANGED <<connectStatus, lineStatus, client, delayInSecond, sendBufferList,
                 silent, serviceWsi, cursor, watchdog, network>>

\* Mutant: a lost session leaves connectStatus as it was.
LostUnnoticed(w) ==
  /\ servicePc = "poll" /\ wsiState[w] # "free"
  /\ wsiState' = [wsiState EXCEPT ![w] = "closing"]
  /\ servicePc' = "disconnect" /\ serviceWsi' = w
  /\ UNCHANGED <<cursor, connectStatus, lineStatus, client, delayInSecond,
                 sendBufferList, silent, registered, watchdog, writable, sent, authorised>>

\* CLIENT_CLOSED, for a socket lws or the peer closes, and
\* CLIENT_CONNECTION_ERROR: disconnect().  The queue survives it.
Lost(w) ==
  /\ servicePc = "poll" /\ wsiState[w] # "free"
  /\ wsiState' = [wsiState EXCEPT ![w] = "closing"]
  /\ connectStatus' = "CLOSED"
  /\ servicePc' = "disconnect" /\ serviceWsi' = w
  /\ UNCHANGED <<cursor, lineStatus, client, delayInSecond, sendBufferList, silent,
                 registered, watchdog, writable, sent, authorised>>

Free(ws) ==
  /\ wsiState' = [w \in Wsi |-> IF w \in ws THEN "free" ELSE wsiState[w]]
  /\ sent' = [w \in Wsi |-> IF w \in ws THEN {} ELSE sent[w]]
  /\ writable' = writable \ ws
  /\ authorised' = authorised \ ws

\* Mutant: disconnect() keeps the pointer to the socket lws is about to free.
DisconnectKeepsClient ==
  /\ servicePc = "disconnect" /\ servicePc' = "poll"
  /\ serviceWsi' = NoWsi
  /\ Free({serviceWsi})
  /\ UNCHANGED <<client, cursor, connectStatus, lineStatus, delayInSecond,
                 sendBufferList, silent, registered, watchdog>>

Disconnect ==
  /\ servicePc = "disconnect" /\ servicePc' = "poll"
  /\ client' = NoWsi /\ serviceWsi' = NoWsi
  /\ Free({serviceWsi})
  /\ UNCHANGED <<cursor, connectStatus, lineStatus, delayInSecond, sendBufferList,
                 silent, registered, watchdog>>

\* catch (...) leaves the loop; lws_context_destroy closes every socket,
\* the one whose message threw among them, with a CLIENT_CLOSED for each.
EndService ==
  /\ servicePc = "leave" /\ servicePc' = "ended"
  /\ Free(Wsi)
  /\ connectStatus' = "CLOSED" /\ client' = NoWsi
  /\ UNCHANGED <<lineStatus, delayInSecond, sendBufferList, silent, registered,
                 serviceWsi, cursor, watchdog>>

-----------------------------------------------------------------------------
(* The watchdog thread: what one turn of its loop does to this connection. *)

Look ==
  /\ dogPc = "sleep" /\ registered /\ lineStatus # "LINE_IDEL"
  /\ promptService => servicePc = "poll" /\ \A w \in Wsi : wsiState[w] # "connecting"
  /\ dogPc' = IF lineStatus = "LINE_ACTIVE" THEN "active" ELSE "delayed"
  /\ UNCHANGED <<connection, service, dogWsi, network>>

\* connectStatus is read twice and lastReceivedTime after it; whatever onOpen
\* stores in between, the verdict is that of one moment, or the turn is lost.
CheckActive ==
  /\ dogPc = "active"
  /\ dogPc' = IF isAutoReconnect /\ (connectStatus = "CLOSED" \/ silent)
              THEN "giveUp" ELSE "sleep"
  /\ UNCHANGED <<connection, service, dogWsi, network>>

\* reConnect(delay) asks whether there is a client to close.
GiveUp ==
  /\ dogPc = "giveUp"
  /\ dogPc' = IF client = NoWsi THEN "forget" ELSE "close"
  /\ UNCHANGED <<connection, service, dogWsi, network>>

\* Mutant: reConnect(delay) does not queue the "*" that closes the session.
GiveUpSilently ==
  /\ dogPc = "close" /\ dogPc' = "forget"
  /\ UNCHANGED <<connection, service, dogWsi, network>>

\* send("*"): the lock is held from the push to lws_callback_on_writable, and
\* client, which disconnect() nulls without the lock, is read anew in between.
GiveUpClose ==
  /\ dogPc = "close"
  /\ Push("*")
  /\ dogWsi' = client
  /\ dogPc' = IF client = NoWsi THEN "forget" ELSE "request"
  /\ UNCHANGED <<connectStatus, lineStatus, client, delayInSecond, silent, registered,
                 service, network>>

\* lws_callback_on_writable on a socket that was freed: a crash, or luck.
GiveUpRequest ==
  /\ dogPc = "request"
  /\ RequestWritable(dogWsi) /\ dogWsi' = NoWsi
  /\ \/ dogPc' = "forget" /\ UNCHANGED servicePc
     \/ wsiState[dogWsi] = "free" /\ Crash
  /\ UNCHANGED <<connection, serviceWsi, cursor, wsiState, sent, authorised>>

GiveUpForget ==
  /\ dogPc = "forget" /\ dogPc' = "delay"
  /\ client' = NoWsi
  /\ UNCHANGED <<connectStatus, lineStatus, delayInSecond, sendBufferList, silent,
                 registered, service, dogWsi, network>>

\* Mutant: reConnect(delay) leaves lineStatus as it was.
GiveUpNoDelay ==
  /\ dogPc = "delay" /\ dogPc' = "sleep"
  /\ delayInSecond' = connectionDelayOnFailure
  /\ UNCHANGED <<connectStatus, lineStatus, client, sendBufferList, silent, registered,
                 service, dogWsi, network>>

GiveUpDelay ==
  /\ dogPc = "delay" /\ dogPc' = "sleep"
  /\ delayInSecond' = connectionDelayOnFailure
  /\ lineStatus' = "LINE_DELAY"
  /\ UNCHANGED <<connectStatus, client, sendBufferList, silent, registered, service,
                 dogWsi, network>>

\* Mutant: reConnect() counts down without looking at zero.
CountDownPastZero ==
  /\ dogPc = "delayed"
  /\ delayInSecond' = delayInSecond - 1
  /\ dogPc' = "sleep"
  /\ UNCHANGED <<connectStatus, lineStatus, client, sendBufferList, silent, registered,
                 service, dogWsi, network>>

\* Mutant: connect() does not test connectStatus.
ReconnectAlways ==
  /\ dogPc = "delayed" /\ delayInSecond = 0
  /\ dogPc' = "connect"
  /\ UNCHANGED <<connection, service, dogWsi, network>>

\* reConnect(): count down, or connect() unless "Already connect".
CountDown ==
  /\ dogPc = "delayed" /\ delayInSecond # 0
  /\ delayInSecond' = delayInSecond - 1
  /\ dogPc' = "sleep"
  /\ UNCHANGED <<connectStatus, lineStatus, client, sendBufferList, silent, registered,
                 service, dogWsi, network>>

Reconnect ==
  /\ dogPc = "delayed" /\ delayInSecond = 0
  /\ dogPc' = IF connectStatus = "CONNECTED" THEN "sleep" ELSE "connect"
  /\ UNCHANGED <<connection, service, dogWsi, network>>

\* lws_client_connect_via_info, on a context startService may have destroyed.
Connect ==
  /\ dogPc = "connect"
  /\ \/ servicePc # "ended" /\ OpenSocket /\ dogPc' = "setActive" /\ UNCHANGED servicePc
     \/ servicePc = "ended" /\ Crash /\ UNCHANGED <<connectStatus, client, wsiState>>
  /\ UNCHANGED <<lineStatus, delayInSecond, sendBufferList, silent, registered,
                 serviceWsi, cursor, dogWsi, writable, sent, authorised>>

ConnectActive ==
  /\ dogPc = "setActive" /\ dogPc' = "sleep"
  /\ lineStatus' = "LINE_ACTIVE"
  /\ UNCHANGED <<connectStatus, client, delayInSecond, sendBufferList, silent,
                 registered, service, dogWsi, network>>

-----------------------------------------------------------------------------
\* receiveLimitMs passes without a message: not inside onOpen, which is over in
\* far less, but a callback of the caller may well take as long.
Silence ==
  /\ ~silent /\ silent' = TRUE
  /\ servicePc \notin OpenPc
  /\ UNCHANGED <<connectStatus, lineStatus, client, delayInSecond, sendBufferList,
                 registered, service, watchdog, network>>

Callback == \/ OpenLine \/ OpenTime \/ OpenClient \/ OpenRegister \/ OpenGreet
            \/ Handler \/ HandlePing \/ HandleAuth \/ HandleQuiet \/ HandleError
            \/ CloseKill \/ CloseIdle \/ CloseUnregister
            \/ Disconnect \/ EndService

Service == \/ StartConnect \/ Callback
           \/ \E w \in Wsi : \/ Established(w) \/ Flush(w) \/ Lost(w)
                             \/ \E m \in ServerMessage : Receive(w, m)

Dog == \/ Look \/ CheckActive
       \/ GiveUp \/ GiveUpClose \/ GiveUpRequest \/ GiveUpForget \/ GiveUpDelay
       \/ CountDown \/ Reconnect \/ Connect \/ ConnectActive

Next == Service \/ Dog \/ Silence

Spec == Init /\ [][Next]_vars

\* Both threads run.  The watchdog wakes up every second, and a pass of
\* lws_service serves every socket that is due, however busy the others are: a
\* handshake ends one way or the other, a socket that was told to close is
\* closed, a writable one is called back for.  Nothing obliges the server to
\* send, or a healthy socket to be lost.
DogFairness == WF_vars(Dog) /\ SF_vars(Look)
Due(w) == \/ Established(w)
          \/ wsiState[w] \in {"connecting", "killed", "closing"} /\ Lost(w)
ServiceFairness == /\ WF_vars(StartConnect \/ Callback)
                   /\ \A w \in Wsi : SF_vars(Due(w)) /\ SF_vars(Flush(w))

FairSpec == Spec /\ DogFairness /\ ServiceFairness

-----------------------------------------------------------------------------
(* Properties.                                                             *)

\* Whatever onOpen, reConnect and disconnect leave in client, in any
\* interleaving, is a socket lws still holds: the service thread never passes a
\* freed lws* to lws_callback_on_writable or lws_set_timeout.
ClientIsAttached == client # NoWsi => client \in Attached

\* connect() may trust "Already connect": CONNECTED is never left behind by a
\* session that is gone, whichever of several sockets closed last.
ConnectedHasSession == connectStatus = "CONNECTED" => Attached # {}

\* A connection owns at most one socket at a time: a reconnect never leaves a
\* second session of the same subscription behind.
OneSession == Cardinality(Session) <= 1

\* On a signed connection no subscription or request reaches the server on a
\* session whose signature it has not accepted.
SubscribedWhenAuthorised ==
  isNeedSignature => \A w \in Wsi : sent[w] \cap Topic # {} => w \in authorised

\* No lost wakeup: whatever is queued while the service thread is between two
\* callbacks, lws was asked to call back for every open session, also when the
\* message was queued before the session opened or while client was null.
QueuedIsDue ==
  sendBufferList # <<>> /\ servicePc = "poll" /\ dogPc # "request" => Open \subseteq writable

\* What the queue holds behind a message m.
QueuedAfter(m) ==
  {sendBufferList[j] : j \in {i \in DOMAIN sendBufferList :
                                \E k \in 1 .. i - 1 : sendBufferList[k] = m}}

\* Nothing of the request follows the signature of a session before the server's
\* verdict, neither in one flush nor in a later one, whatever earlier sessions
\* left in the queue.
NoTopicBeforeVerdict ==
  /\ [](isNeedSignature => QueuedAfter("auth") \cap Topic = {})
  /\ [][isNeedSignature =>
           \A w \in Wsi : "auth" \in sent[w] /\ w \notin authorised'
                           => Topic \cap sent'[w] \subseteq sent[w]]_vars

\* A session the watchdog gave up is on its way to its end: the "*" that closes
\* it is still queued, and lws was asked for the callback that meets it.  Only
\* onOpen may find LINE_DELAY otherwise, on the session of the reconnect.
GivenUpIsEnding ==
  lineStatus = "LINE_DELAY" /\ servicePc \notin {"setLine", "crashed"}
    => \A w \in Open : w \in writable /\ "*" \in Prefix(Len(sendBufferList))

\* close() is final: after the error that takes the connection off the
\* watchdog's list no socket is opened for it again, not even by a turn of the
\* watchdog that had begun before.
CloseIsFinal ==
  [](servicePc = "unregister" => [](\A w \in Wsi : wsiState[w] # "connecting"))

\* The connection as its client sees it: the session lws holds for it.
Phase == IF \E w \in Session : wsiState[w] = "connecting" THEN "connecting"
         ELSE IF Session # {} THEN "open" ELSE "none"
Accepted == \E w \in Session : w \in authorised
Delivered == Topic \cap UNION {sent[w] : w \in Session}

Contract == INSTANCE SubscriptionSession WITH
  session <- Phase, attempted <- servicePc # "start",
  accepted <- Accepted, delivered <- Delivered

\* Socket, queue, callbacks and watchdog together implement one session after
\* the other, each authorised before it is used and none resumed.
ImplementsSession == Contract!Spec

\* The connection as its client and the watchdog see it together, although the
\* two threads store lineStatus, client and the list one field at a time: onOpen
\* takes effect when it begins, close() when it kills the socket, and a turn of
\* the watchdog when it has found the connection lost or silent.
Watched ==
  /\ registered \/ servicePc \in {"setLine", "setTime", "setClient", "register"}
  /\ servicePc \notin {"idle", "unregister", "crashed"}
GivingUp == {"giveUp", "close", "request", "forget", "delay"}
GivenUp == dogPc \in GivingUp \/ (lineStatus = "LINE_DELAY" /\ dogPc # "setActive")
Delayed == Watched /\ GivenUp
Killed == {w \in Wsi : wsiState[w] = "killed"}
Stage == IF servicePc = "crashed" THEN "none"
         ELSE IF Phase = "open" /\ (Delayed \/ Killed # {}) THEN "ending" ELSE Phase

Line == INSTANCE WatchedSession WITH
  session <- Stage, attempted <- servicePc # "start", watched <- Watched, delayed <- Delayed

\* The callbacks and the turns of the watchdog, in all their steps, amount to
\* what SubscriptionClient takes a connection for: each session watched from its
\* first moment, each one given up or closed for an error on its way to its end,
\* and a new attempt only for one that was given up.
ImplementsLine == Line!Spec

Gone == servicePc \in {"ended", "crashed"}

\* The watchdog reconnects: a connection on its list that lost its session
\* gets a new attempt, unless it is closed for an error or the service ends.
LostSessionIsRetried ==
  isAutoReconnect /\ registered /\ connectStatus = "CLOSED"
    ~> dogPc = "connect" \/ connectStatus = "CONNECTED" \/ ~registered \/ Gone

\* isAutoReconnect holds for every attempt to connect, the first included.
FailedAttemptIsRetried ==
  isAutoReconnect /\ lineStatus = "LINE_ACTIVE" /\ Session = {}
    ~> Session # {} \/ dogPc = "connect" \/ lineStatus = "LINE_IDEL" \/ Gone

\* A session that stays silent beyond receiveLimitMs is ended.
SilentSessionEnds ==
  isAutoReconnect /\ registered /\ connectStatus = "CONNECTED" /\ silent
    ~> ~silent \/ connectStatus = "CLOSED" \/ ~registered \/ Gone

\* On a public line every session that opens either carries the subscriptions
\* to the server or is closed.
OpenSessionSubscribes ==
  \A w \in Wsi : ~isNeedSignature /\ wsiState[w] = "open"
                    ~> Topic \subseteq sent[w] \/ wsiState[w] # "open" \/ Gone

\* What send() queued is handed to lws, or the session it was for is lost.
QueueDrains ==
  sendBufferList # <<>> ~> sendBufferList = <<>> \/ connectStatus = "CLOSED" \/ Gone

\* A caller without an errorHandler finds errors in the log only: an error
\* message does not end the service loop.
ErrorsDoNotEndService == ~callbackMayThrow => servicePc # "ended"

\* The errorHandler hears of a refused subscription, a refused V2 signature
\* included.
RefusalIsReported ==
  hasErrorHandler /\ servicePc = "authFail" ~> servicePc = "kill" \/ Gone

=============================================================================
