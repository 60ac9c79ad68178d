----------------------- MODULE WebSocketReconnect_proofs -----------------------
(***************************************************************************)
(* What holds of a WebSocketConnection that is reconnected, for every      *)
(* number of sockets, delay and list of symbols, when handshakes and       *)
(* callbacks end before the watchdog's next turn looks at the connection   *)
(* (promptService).                                                        *)
(***************************************************************************)
EXTENDS WebSocketConnection_proofs, FiniteSetTheorems

\* The socket whose loss the service thread is handling: disconnect() is yet
\* to let go of it, but connectStatus is CLOSED, and a turn of the watchdog
\* may by now open the next one.
Leaving == IF servicePc = "disconnect" THEN {serviceWsi} ELSE {}

SingleLive == \A v, w \in Used \ Leaving : v = w

\* While connectStatus is CLOSED there is no session but one that is opening.
ClosedIsEmpty ==
  connectStatus = "CLOSED" /\ servicePc # "crashed"
    => \A w \in Used \ Leaving : wsiState[w] = "connecting"

LossInProgress ==
  servicePc = "disconnect"
    => serviceWsi \in Wsi /\ wsiState[serviceWsi] = "closing" /\ connectStatus = "CLOSED"

Unstarted == servicePc = "start" => Used = {}

\* From the moment a turn looked at the connection until it opens a socket of
\* its own, no handshake is under way, so that connectStatus is what it was.
TurnAlone ==
  /\ dogPc \notin {"sleep", "crashed"} => servicePc \notin {"start", "crashed"}
  /\ dogPc \notin {"sleep", "setActive", "crashed"}
       => \A w \in Wsi : wsiState[w] # "connecting"
  /\ dogPc = "connect" => connectStatus = "CLOSED"

\* Only a connection that is to be reconnected is ever delayed.
DelayReconnects ==
  lineStatus = "LINE_DELAY" \/ dogPc \notin {"sleep", "active", "setActive", "crashed"}
    => isAutoReconnect

ReconnectInv ==
  /\ TypeOK
  /\ SingleLive
  /\ ClosedIsEmpty
  /\ LossInProgress
  /\ Unstarted
  /\ TurnAlone
  /\ DelayReconnects
  /\ Fresh

\* A step of the service thread that leaves the sockets and the watchdog alone.
LEMMA QuietKeepsReconnect ==
  ASSUME ReconnectInv, TypeOK',
         UNCHANGED <<connectStatus, wsiState, sent, authorised, watchdog>>,
         lineStatus' \in {lineStatus, "LINE_ACTIVE", "LINE_IDEL"},
         servicePc \notin {"disconnect", "start", "crashed"},
         servicePc' \notin {"disconnect", "start", "crashed"}
  PROVE  ReconnectInv'
BY DEF ReconnectInv, SingleLive, ClosedIsEmpty, LossInProgress, Unstarted, TurnAlone,
       DelayReconnects, Fresh, Used, Leaving, watchdog

\* A step of the watchdog that opens no socket.
LEMMA TurnKeepsReconnect ==
  ASSUME ReconnectInv, TypeOK',
         UNCHANGED <<connectStatus, service, wsiState, sent, authorised>>,
         TurnAlone', DelayReconnects'
  PROVE  ReconnectInv'
BY DEF ReconnectInv, SingleLive, ClosedIsEmpty, LossInProgress, Unstarted, Fresh, Used, Leaving,
       service

LEMMA FreeKeepsReconnect ==
  ASSUME ReconnectInv, TypeOK', NEW ws, Leaving \subseteq ws, Free(ws),
         connectStatus' \in {connectStatus, "CLOSED"},
         connectStatus' = connectStatus \/ ws = Wsi,
         UNCHANGED <<lineStatus, watchdog>>,
         servicePc \notin {"start", "crashed"},
         servicePc' \notin {"disconnect", "start", "crashed"}
  PROVE  ReconnectInv'
<1>1. Used' = Used \ ws /\ Leaving' = {}
  BY DEF Free, Used, Leaving, ReconnectInv, TypeOK
<1>2. SingleLive' /\ LossInProgress' /\ Unstarted'
  BY <1>1 DEF ReconnectInv, SingleLive, LossInProgress, Unstarted
<1>3. ClosedIsEmpty'
  <2>1. CASE ws = Wsi
    BY <1>1, <2>1 DEF ClosedIsEmpty, Used
  <2>2. CASE connectStatus' = connectStatus
    BY <1>1, <2>2 DEF ReconnectInv, ClosedIsEmpty, Free, Used, TypeOK
  <2> QED
    BY <2>1, <2>2
<1>4. TurnAlone' /\ DelayReconnects'
  BY DEF ReconnectInv, TurnAlone, DelayReconnects, Free, watchdog, TypeOK
<1>5. Fresh'
  BY DEF ReconnectInv, Fresh, Free, TypeOK
<1> QED
  BY <1>2, <1>3, <1>4, <1>5 DEF ReconnectInv

\* A step of the service thread on a socket that stays in use.
LEMMA SocketKeepsReconnect ==
  ASSUME ReconnectInv, TypeOK', NEW w \in Used,
         wsiState' \in [Wsi -> {"free", "connecting", "open", "killed", "closing"}],
         \A v \in Wsi : v # w => /\ wsiState'[v] = wsiState[v] /\ sent'[v] = sent[v]
                                 /\ v \in authorised' <=> v \in authorised,
         wsiState'[w] \in {"open", "killed", "closing"},
         UNCHANGED <<lineStatus, watchdog>>,
         servicePc \notin {"disconnect", "start", "crashed"},
         servicePc' \notin {"start", "crashed"},
         servicePc' = "disconnect"
           => serviceWsi' = w /\ wsiState'[w] = "closing" /\ connectStatus' = "CLOSED",
         servicePc' # "disconnect"
           => connectStatus' = IF wsiState[w] = "connecting" THEN "CONNECTED" ELSE connectStatus
  PROVE  ReconnectInv'
<1>1. Used' = Used /\ Leaving = {}
  BY DEF Used, Leaving, ReconnectInv, TypeOK
<1>2. Used = {w}
  BY <1>1 DEF ReconnectInv, SingleLive
<1>3. SingleLive' /\ Unstarted'
  BY <1>1, <1>2 DEF SingleLive, Unstarted
<1>4. LossInProgress'
  BY DEF LossInProgress, Used
<1>5. ClosedIsEmpty'
  BY <1>1, <1>2 DEF ClosedIsEmpty, ReconnectInv, Leaving
<1>6. TurnAlone' /\ DelayReconnects'
  BY DEF ReconnectInv, TurnAlone, DelayReconnects, Used, watchdog
<1>7. Fresh'
  BY DEF ReconnectInv, Fresh, Used
<1> QED
  BY <1>3, <1>4, <1>5, <1>6, <1>7 DEF ReconnectInv

LEMMA FlushKeepsReconnect ==
  ASSUME ReconnectInv, TypeOK', NEW w \in Wsi, Flush(w)
  PROVE  ReconnectInv'
<1>1. w \in Used /\ wsiState[w] # "connecting" /\ wsiState'[w] \in {"open", "killed", "closing"}
  BY DEF Flush, FlushAll, FlushFails, Open, Used, ReconnectInv, TypeOK
<1>2. \A v \in Wsi : v # w => wsiState'[v] = wsiState[v] /\ sent'[v] = sent[v]
  BY DEF Flush, FlushAll, FlushFails, ReconnectInv, TypeOK
<1> QED
  BY <1>1, <1>2, SocketKeepsReconnect DEF Flush, service, TypeOK

LEMMA ServiceKeepsReconnect ==
  ASSUME ReconnectInv, TypeOK', Service
  PROVE  ReconnectInv'
<1>0. TypeOK
  BY DEF ReconnectInv
<1>1. CASE StartConnect
  <2>1. Used = {} /\ Leaving' = {}
    BY <1>1 DEF StartConnect, ReconnectInv, Unstarted, Leaving
  <2>2. SingleLive' /\ ClosedIsEmpty'
    BY <1>0, <1>1, <2>1
    DEF StartConnect, OpenSocket, SingleLive, ClosedIsEmpty, Used, TypeOK
  <2>3. LossInProgress' /\ Unstarted'
    BY <1>1 DEF StartConnect, LossInProgress, Unstarted
  <2>4. TurnAlone' /\ DelayReconnects'
    BY <1>1 DEF StartConnect, ReconnectInv, TurnAlone, DelayReconnects, watchdog
  <2>5. Fresh'
    BY <1>0, <1>1 DEF StartConnect, OpenSocket, ReconnectInv, Fresh, TypeOK
  <2> QED
    BY <2>2, <2>3, <2>4, <2>5 DEF ReconnectInv
<1>2. CASE Callback
  <2>1. CASE OpenLine \/ OpenTime \/ OpenClient \/ OpenRegister \/ OpenGreet
    BY <2>1, QuietKeepsReconnect
    DEF OpenLine, OpenTime, OpenClient, OpenRegister, OpenGreet, network
  <2>2. CASE Handler \/ HandlePing \/ HandleAuth \/ HandleQuiet \/ HandleError
               \/ CloseIdle \/ CloseUnregister
    BY <2>2, QuietKeepsReconnect
    DEF Handler, HandlePing, HandleAuth, HandleQuiet, HandleError, CloseIdle, CloseUnregister,
        connection, network
  <2>3. CASE CloseKill
    <3>1. CASE client # NoWsi /\ wsiState[client] = "open"
      <4>1. /\ client \in Used
            /\ wsiState' = [wsiState EXCEPT ![client] = "killed"]
            /\ servicePc = "kill" /\ servicePc' = "idle" /\ UNCHANGED watchdog
        BY <1>0, <2>3, <3>1 DEF CloseKill, Used, TypeOK, connection, watchdog
      <4> QED
        BY <1>0, <2>3, <3>1, <4>1, SocketKeepsReconnect DEF CloseKill, connection, TypeOK
    <3>2. CASE client # NoWsi /\ wsiState[client] # "open"
      <4>1. wsiState' = wsiState /\ UNCHANGED watchdog /\ servicePc' = "idle"
        BY <1>0, <2>3, <3>2 DEF CloseKill, TypeOK, watchdog, connection
      <4> QED
        BY <2>3, <4>1, QuietKeepsReconnect DEF CloseKill, connection
    <3>3. CASE client = NoWsi
      BY <2>3, <3>3
      DEF CloseKill, Crash, connection, ReconnectInv, SingleLive, ClosedIsEmpty, LossInProgress,
          Unstarted, TurnAlone, DelayReconnects, Fresh, Used, Leaving
    <3> QED
      BY <3>1, <3>2, <3>3
  <2>4. CASE Disconnect
    BY <2>4, FreeKeepsReconnect DEF Disconnect, Leaving
  <2>5. CASE EndService
    BY <2>5, FreeKeepsReconnect DEF EndService, Leaving
  <2> QED
    BY <1>2, <2>1, <2>2, <2>3, <2>4, <2>5 DEF Callback
<1>3. ASSUME NEW w \in Wsi, Established(w) \/ Lost(w)
      PROVE  ReconnectInv'
  <2>1. w \in Used
    BY <1>3 DEF Established, Lost, Used
  <2> QED
    BY <1>0, <1>3, <2>1, SocketKeepsReconnect DEF Established, Lost, TypeOK
<1>4. ASSUME NEW w \in Wsi, Flush(w)
      PROVE  ReconnectInv'
  BY <1>4, FlushKeepsReconnect
<1>5. ASSUME NEW w \in Wsi, NEW m \in ServerMessage, Receive(w, m)
      PROVE  ReconnectInv'
  <2>1. w \in Used /\ wsiState[w] \in {"open", "killed"}
    BY <1>5 DEF Receive, Open, Used
  <2>2. servicePc' \notin {"disconnect", "start", "crashed"}
    BY <1>5 DEF Receive, ServerMessage
  <2>3. \A v \in Wsi : v # w => (v \in authorised' <=> v \in authorised)
    BY <1>5 DEF Receive
  <2> QED
    BY <1>0, <1>5, <2>1, <2>2, <2>3, SocketKeepsReconnect DEF Receive, TypeOK
<1> QED
  BY <1>1, <1>2, <1>3, <1>4, <1>5 DEF Service

\* The process may be gone in the middle of a disconnect(): no step follows.
LEMMA CrashKeepsReconnect ==
  ASSUME ReconnectInv, TypeOK', Crash,
         dogPc \in {"request", "connect"},
         UNCHANGED <<connectStatus, wsiState, sent, authorised, lineStatus>>
  PROVE  ReconnectInv'
<1>1. \A v, w \in Used : v = w
  <2>1. CASE servicePc = "disconnect"
    BY <2>1 DEF ReconnectInv, LossInProgress, ClosedIsEmpty, TurnAlone, Used, Leaving
  <2>2. CASE servicePc # "disconnect"
    BY <2>2 DEF ReconnectInv, SingleLive, Leaving
  <2> QED
    BY <2>1, <2>2
<1> QED
  BY <1>1 DEF Crash, ReconnectInv, SingleLive, ClosedIsEmpty, LossInProgress, Unstarted, TurnAlone,
              DelayReconnects, Fresh, Used, Leaving

\* The watchdog's thread; only here does the timing assumption count.
LEMMA DogKeepsReconnect ==
  ASSUME promptService = TRUE, ReconnectInv, TypeOK', Dog
  PROVE  ReconnectInv'
<1>0. TypeOK
  BY DEF ReconnectInv
<1>1. CASE Look
  <2>1. TurnAlone'
    BY <1>1 DEF Look, TurnAlone, connection, service, network
  <2>2. DelayReconnects'
    BY <1>0, <1>1 DEF Look, ReconnectInv, DelayReconnects, connection, TypeOK
  <2> QED
    BY <1>1, <2>1, <2>2, TurnKeepsReconnect DEF Look, connection, network
<1>2. CASE CheckActive \/ GiveUp \/ Reconnect
  <2>1. TurnAlone'
    BY <1>0, <1>2 DEF CheckActive, GiveUp, Reconnect, ReconnectInv, TurnAlone, connection,
                      service, network, TypeOK
  <2>2. DelayReconnects'
    BY <1>0, <1>2 DEF CheckActive, GiveUp, Reconnect, ReconnectInv, DelayReconnects, connection,
                      TypeOK
  <2> QED
    BY <1>2, <2>1, <2>2, TurnKeepsReconnect DEF CheckActive, GiveUp, Reconnect, connection, network
<1>3. CASE GiveUpClose \/ GiveUpForget \/ GiveUpDelay \/ CountDown \/ ConnectActive
  <2>1. TurnAlone'
    BY <1>3 DEF GiveUpClose, GiveUpForget, GiveUpDelay, CountDown, ConnectActive, ReconnectInv,
                TurnAlone, service, network
  <2>2. DelayReconnects'
    BY <1>3 DEF GiveUpClose, GiveUpForget, GiveUpDelay, CountDown, ConnectActive, ReconnectInv,
                DelayReconnects
  <2> QED
    BY <1>3, <2>1, <2>2, TurnKeepsReconnect
    DEF GiveUpClose, GiveUpForget, GiveUpDelay, CountDown, ConnectActive, network
<1>4. CASE GiveUpRequest
  <2>1. CASE dogPc' = "forget" /\ UNCHANGED servicePc
    <3>1. TurnAlone' /\ DelayReconnects'
      BY <1>4, <2>1 DEF GiveUpRequest, ReconnectInv, TurnAlone, DelayReconnects, connection
    <3> QED
      BY <1>4, <2>1, <3>1, TurnKeepsReconnect DEF GiveUpRequest, connection, service
  <2>2. CASE Crash
    BY <1>4, <2>2, CrashKeepsReconnect DEF GiveUpRequest, connection
  <2> QED
    BY <1>4, <2>1, <2>2 DEF GiveUpRequest
<1>5. CASE Connect
  <2>1. CASE servicePc # "ended" /\ OpenSocket /\ dogPc' = "setActive" /\ UNCHANGED servicePc
    <3>1. Used \ Leaving = {} /\ UNCHANGED Leaving
      BY <1>5, <2>1 DEF Connect, ReconnectInv, ClosedIsEmpty, TurnAlone, Used, Leaving
    <3>2. SingleLive' /\ ClosedIsEmpty' /\ LossInProgress'
      BY <1>0, <1>5, <2>1, <3>1
      DEF Connect, OpenSocket, ReconnectInv, SingleLive, ClosedIsEmpty, LossInProgress, TurnAlone,
          Used, Leaving, TypeOK
    <3>3. Unstarted' /\ TurnAlone' /\ DelayReconnects'
      BY <1>5, <2>1 DEF Connect, ReconnectInv, Unstarted, TurnAlone, DelayReconnects
    <3>4. Fresh'
      BY <1>0, <1>5, <2>1 DEF Connect, OpenSocket, ReconnectInv, Fresh, TypeOK
    <3> QED
      BY <3>2, <3>3, <3>4 DEF ReconnectInv
  <2>2. CASE Crash /\ UNCHANGED <<connectStatus, client, wsiState>>
    BY <1>5, <2>2, CrashKeepsReconnect DEF Connect
  <2> QED
    BY <1>5, <2>1, <2>2 DEF Connect
<1> QED
  BY <1>1, <1>2, <1>3, <1>4, <1>5 DEF Dog

\* Losses and reconnects leave one socket in use besides the one disconnect() is
\* handling.
THEOREM ReconnectInvariant ==
  ASSUME promptService = TRUE
  PROVE  Spec => []ReconnectInv
<1>1. Init => ReconnectInv
  BY TypeInit
  DEF Init, ReconnectInv, SingleLive, ClosedIsEmpty, LossInProgress, Unstarted, TurnAlone,
      DelayReconnects, Fresh, Used, Leaving
<1>2. ReconnectInv /\ TypeOK' /\ [Next]_vars => ReconnectInv'
  <2> SUFFICES ASSUME ReconnectInv, TypeOK', [Next]_vars
               PROVE  ReconnectInv'
    OBVIOUS
  <2>1. CASE Silence \/ UNCHANGED vars
    BY <2>1
    DEF Silence, vars, connection, service, watchdog, network, ReconnectInv, SingleLive,
        ClosedIsEmpty, LossInProgress, Unstarted, TurnAlone, DelayReconnects, Fresh, Used, Leaving
  <2> QED
    BY <2>1, ServiceKeepsReconnect, DogKeepsReconnect DEF Next
<1> QED
  BY <1>1, <1>2, TypeCorrect, PTL DEF Spec

-----------------------------------------------------------------------------
(* What it is for.                                                         *)

\* Whatever the errors, losses and reconnects, a connection whose handshakes and
\* callbacks end before the watchdog's next turn has at most one session: a
\* reconnect never leaves a second session of the same subscription behind.
THEOREM AlwaysOneSession ==
  ASSUME promptService = TRUE
  PROVE  Spec => []OneSession
<1>1. ReconnectInv => OneSession
  <2> SUFFICES ASSUME ReconnectInv
               PROVE  OneSession
    OBVIOUS
  <2>1. \A v, w \in Session : v = w
    BY DEF ReconnectInv, SingleLive, LossInProgress, Session, Used, Leaving
  <2>2. CASE Session = {}
    BY <2>2, FS_EmptySet DEF OneSession
  <2>3. CASE Session # {}
    <3>1. PICK w \in Session : Session = {w}
      BY <2>1, <2>3
    <3> QED
      BY <3>1, FS_Singleton DEF OneSession
  <2> QED
    BY <2>2, <2>3
<1> QED
  BY <1>1, ReconnectInvariant, PTL

\* Under the same assumption a public connection implements the contract with
\* any number of reconnects: one session after the other, each subscribed anew
\* and none resumed, though sockets, queue and threads overlap.
THEOREM ReconnectImplementsSession ==
  ASSUME promptService = TRUE, isNeedSignature = FALSE
  PROVE  Spec => ImplementsSession
<1>1. Init => Contract!Init
  BY ContractInit
<1>2. ContractInv /\ ContractInv' /\ [Next]_vars => [Contract!Next]_Contract!vars
  BY ContractStep
<1>3. ReconnectInv => ContractInv
  <2> SUFFICES ASSUME ReconnectInv
               PROVE  ContractInv
    OBVIOUS
  <2>1. \A v, w \in Session : v = w
    BY DEF ReconnectInv, SingleLive, LossInProgress, Session, Used, Leaving
  <2>2. dogPc = "connect" => isAutoReconnect /\ Session = {} /\ servicePc # "start"
    BY DEF ReconnectInv, TurnAlone, DelayReconnects, ClosedIsEmpty, LossInProgress, Session, Used,
           Leaving
  <2>3. /\ servicePc = "start" => Session = {}
        /\ dogPc = "request" => servicePc # "start"
    BY DEF ReconnectInv, Unstarted, TurnAlone, Session, Used
  <2> QED
    BY <2>1, <2>2, <2>3 DEF ReconnectInv, ContractInv
<1> QED
  BY <1>1, <1>2, <1>3, ReconnectInvariant, PTL DEF Spec, ImplementsSession, Contract!Spec

-----------------------------------------------------------------------------
(* close() is final.                                                       *)

NoHandshake == \A w \in Wsi : wsiState[w] # "connecting"

\* A connection the watchdog has given up, or is about to open a socket for, has
\* no client: an error that still comes on its old socket never reaches the end
\* of close().
DelayedHasNoClient ==
  /\ dogPc \notin {"sleep", "setActive", "crashed"} => servicePc \notin OpenPc
  /\ servicePc \in {"setTime", "setClient"} => lineStatus # "LINE_DELAY"
  /\ lineStatus = "LINE_DELAY" \/ dogPc \in {"delay", "delayed", "connect"} => client = NoWsi

\* While a message is handled its session is there, and no other one begins.
HandlingHasSession ==
  servicePc \in ServerMessage \cup ClosePc => connectStatus = "CONNECTED" /\ NoHandshake

KilledIsNotDelayed == servicePc \in {"idle", "unregister"} => dogPc \notin {"delayed", "connect"}

CloseInv ==
  /\ ReconnectInv
  /\ DelayedHasNoClient
  /\ HandlingHasSession
  /\ KilledIsNotDelayed

\* What remains true of a connection that was closed for an error: no turn of
\* the watchdog begins for it any more, and none that had begun opens a socket.
Final ==
  /\ NoHandshake
  /\ registered => servicePc \in {"unregister", "crashed"}
  /\ servicePc \notin OpenPc \cup {"start"}
  /\ dogPc \notin {"delayed", "connect"}

LEMMA CallbackKeepsClose ==
  ASSUME CloseInv, ReconnectInv', Callback
  PROVE  CloseInv'
<1> USE DEF CloseInv, ServerMessage, OpenPc, ClosePc
<1>1. CASE OpenLine \/ OpenTime \/ OpenClient
  BY <1>1 DEF OpenLine, OpenTime, OpenClient, DelayedHasNoClient, HandlingHasSession,
              KilledIsNotDelayed, watchdog
<1>2. CASE OpenRegister \/ OpenGreet \/ Handler \/ HandlePing
  BY <1>2 DEF OpenRegister, OpenGreet, Handler, HandlePing, DelayedHasNoClient,
              HandlingHasSession, KilledIsNotDelayed, watchdog
<1>3. CASE HandleAuth \/ HandleQuiet \/ HandleError
  BY <1>3 DEF HandleAuth, HandleQuiet, HandleError, connection, network, DelayedHasNoClient,
              HandlingHasSession, KilledIsNotDelayed, NoHandshake, watchdog
<1>4. CASE CloseKill
  <2>1. NoHandshake'
    BY <1>4 DEF CloseKill, HandlingHasSession, NoHandshake, ReconnectInv, TypeOK
  <2> QED
    BY <1>4, <2>1 DEF CloseKill, Crash, connection, DelayedHasNoClient, HandlingHasSession,
                      KilledIsNotDelayed
<1>5. CASE CloseIdle \/ CloseUnregister
  BY <1>5 DEF CloseIdle, CloseUnregister, network, DelayedHasNoClient, HandlingHasSession,
              KilledIsNotDelayed, NoHandshake, watchdog
<1>6. CASE Disconnect \/ EndService
  BY <1>6 DEF Disconnect, EndService, DelayedHasNoClient, HandlingHasSession, KilledIsNotDelayed,
              watchdog
<1> QED
  BY <1>1, <1>2, <1>3, <1>4, <1>5, <1>6 DEF Callback

\* The socket a message comes on is open: its session is the only one.
LEMMA ReceiveHasSession ==
  ASSUME ReconnectInv, NEW w \in Wsi, NEW m \in ServerMessage, Receive(w, m)
  PROVE  connectStatus = "CONNECTED" /\ NoHandshake
BY DEF Receive, Open, ReconnectInv, SingleLive, ClosedIsEmpty, NoHandshake, Used, Leaving, TypeOK

LEMMA ServiceKeepsClose ==
  ASSUME CloseInv, ReconnectInv', Service
  PROVE  CloseInv'
<1> USE DEF CloseInv, ServerMessage, OpenPc, ClosePc
<1>1. CASE StartConnect
  BY <1>1 DEF StartConnect, OpenSocket, DelayedHasNoClient, HandlingHasSession,
              KilledIsNotDelayed, ReconnectInv, TurnAlone, watchdog
<1>2. ASSUME NEW w \in Wsi, Established(w)
      PROVE  CloseInv'
  BY <1>2 DEF Established, DelayedHasNoClient, HandlingHasSession, KilledIsNotDelayed,
              ReconnectInv, TurnAlone, watchdog
<1>3. ASSUME NEW w \in Wsi, Flush(w) \/ Lost(w)
      PROVE  CloseInv'
  BY <1>3 DEF Flush, Lost, DelayedHasNoClient, HandlingHasSession, KilledIsNotDelayed, service,
              watchdog
<1>4. ASSUME NEW w \in Wsi, NEW m \in ServerMessage, Receive(w, m)
      PROVE  CloseInv'
  <2>1. connectStatus = "CONNECTED" /\ NoHandshake
    BY <1>4, ReceiveHasSession
  <2> QED
    BY <1>4, <2>1 DEF Receive, DelayedHasNoClient, HandlingHasSession, KilledIsNotDelayed,
                      NoHandshake, watchdog
<1> QED
  BY <1>1, <1>2, <1>3, <1>4, CallbackKeepsClose DEF Service

LEMMA DogKeepsClose ==
  ASSUME promptService = TRUE, CloseInv, ReconnectInv', Dog
  PROVE  CloseInv'
<1> USE DEF CloseInv, ServerMessage, OpenPc, ClosePc
<1>1. CASE Look
  BY <1>1 DEF Look, connection, service, network, DelayedHasNoClient, HandlingHasSession,
              KilledIsNotDelayed, ReconnectInv, TypeOK
<1>2. CASE CheckActive \/ GiveUp \/ Reconnect
  BY <1>2 DEF CheckActive, GiveUp, Reconnect, connection, service, network, DelayedHasNoClient,
              HandlingHasSession, KilledIsNotDelayed, NoHandshake
<1>3. CASE GiveUpClose \/ GiveUpForget \/ GiveUpDelay \/ CountDown \/ ConnectActive
  BY <1>3 DEF GiveUpClose, GiveUpForget, GiveUpDelay, CountDown, ConnectActive, service, network,
              DelayedHasNoClient, HandlingHasSession, KilledIsNotDelayed, NoHandshake
<1>4. CASE GiveUpRequest
  BY <1>4 DEF GiveUpRequest, Crash, connection, DelayedHasNoClient, HandlingHasSession,
              KilledIsNotDelayed, NoHandshake
<1>5. CASE Connect
  BY <1>5 DEF Connect, OpenSocket, Crash, DelayedHasNoClient, HandlingHasSession,
              KilledIsNotDelayed, ReconnectInv, TurnAlone
<1> QED
  BY <1>1, <1>2, <1>3, <1>4, <1>5 DEF Dog

LEMMA CloseStep ==
  ASSUME promptService = TRUE, CloseInv, ReconnectInv', [Next]_vars
  PROVE  CloseInv'
<1>1. CASE Silence \/ UNCHANGED vars
  BY <1>1 DEF Silence, vars, connection, service, watchdog, network, CloseInv, DelayedHasNoClient,
              HandlingHasSession, KilledIsNotDelayed, NoHandshake
<1> QED
  BY <1>1, ServiceKeepsClose, DogKeepsClose DEF Next

LEMMA FinalStep ==
  ASSUME promptService = TRUE, CloseInv, Final, [Next]_vars
  PROVE  Final'
<1> USE DEF Final, NoHandshake, OpenPc
<1>0. TypeOK
  BY DEF CloseInv, ReconnectInv
<1>1. CASE Service
  <2>1. CASE StartConnect \/ OpenLine \/ OpenTime \/ OpenClient \/ OpenRegister \/ OpenGreet
    BY <2>1 DEF StartConnect, OpenLine, OpenTime, OpenClient, OpenRegister, OpenGreet
  <2>2. CASE Handler \/ HandlePing \/ HandleAuth \/ HandleQuiet \/ HandleError
               \/ CloseIdle \/ CloseUnregister
    BY <2>2 DEF Handler, HandlePing, HandleAuth, HandleQuiet, HandleError, CloseIdle,
                CloseUnregister, connection, watchdog, network
  <2>3. CASE CloseKill
    BY <1>0, <2>3 DEF CloseKill, Crash, connection, TypeOK
  <2>4. CASE Disconnect \/ EndService
    BY <1>0, <2>4 DEF Disconnect, EndService, Free, watchdog, TypeOK
  <2>5. ASSUME NEW w \in Wsi, Established(w)
        PROVE  Final'
    BY <2>5 DEF Established
  <2>6. ASSUME NEW w \in Wsi, Flush(w) \/ Lost(w)
        PROVE  Final'
    BY <1>0, <2>6 DEF Flush, FlushAll, FlushFails, Lost, service, watchdog, TypeOK
  <2>7. ASSUME NEW w \in Wsi, NEW m \in ServerMessage, Receive(w, m)
        PROVE  Final'
    BY <2>7 DEF Receive, ServerMessage, watchdog
  <2> QED
    BY <1>1, <2>1, <2>2, <2>3, <2>4, <2>5, <2>6, <2>7 DEF Service, Callback
<1>2. CASE Dog
  BY <1>2 DEF Dog, Look, CheckActive, GiveUp, GiveUpClose, GiveUpRequest, GiveUpForget, GiveUpDelay,
              CountDown, Reconnect, Connect, ConnectActive, Crash, connection, service, network
<1>3. CASE Silence \/ UNCHANGED vars
  BY <1>3 DEF Silence, vars, connection, service, watchdog, network
<1> QED
  BY <1>1, <1>2, <1>3 DEF Next

LEMMA CloseInvariant ==
  ASSUME promptService = TRUE
  PROVE  Spec => []CloseInv
<1>1. Init /\ ReconnectInv => CloseInv
  BY DEF Init, CloseInv, DelayedHasNoClient, HandlingHasSession, KilledIsNotDelayed, OpenPc,
         ServerMessage, ClosePc
<1>2. CloseInv /\ ReconnectInv' /\ [Next]_vars => CloseInv'
  BY CloseStep
<1> QED
  BY <1>1, <1>2, ReconnectInvariant, PTL DEF Spec

\* Under the same assumption an error that takes the connection off the
\* watchdog's list ends it: not even a turn that had begun before opens another
\* socket for it.
THEOREM CloseAlwaysFinal ==
  ASSUME promptService = TRUE
  PROVE  Spec => CloseIsFinal
<1>1. CloseInv /\ servicePc = "unregister" => Final
  BY DEF CloseInv, HandlingHasSession, KilledIsNotDelayed, Final, OpenPc, ClosePc
<1>2. CloseInv /\ Final /\ [Next]_vars => Final'
  BY FinalStep
<1>3. Final => \A w \in Wsi : wsiState[w] # "connecting"
  BY DEF Final, NoHandshake
<1> QED
  BY <1>1, <1>2, <1>3, CloseInvariant, PTL DEF Spec, CloseIsFinal

=============================================================================
