------------------------- MODULE WebSocketLine_proofs --------------------------
(***************************************************************************)
(* A WebSocketConnection in all its steps implements WatchedSession, the   *)
(* connection as a SubscriptionClient takes it, under the timing of        *)
(* WebSocketQueue_proofs: no turn of the watchdog meets a handshake.       *)
(***************************************************************************)
EXTENDS WebSocketQueue_proofs

-----------------------------------------------------------------------------
(* What the mapping needs.                                                 *)

AloneInv ==
  /\ BaseInv
  /\ \A v, w \in Session : v = w
  /\ dogPc = "active" /\ isAutoReconnect => NoHandshake
  /\ KilledIsNotDelayed

LEMMA AloneInvariant ==
  ASSUME Unhurried
  PROVE  Spec => []AloneInv
<1>1. ASSUME isAutoReconnect = FALSE, ClientInv, RequestInv
      PROVE  AloneInv
  <2>1. \A v, w \in Session : v = w
    BY <1>1 DEF RequestInv, SingleSocket, Session, Used
  <2>2. KilledIsNotDelayed
    BY <1>1 DEF RequestInv, WatchdogIdle, KilledIsNotDelayed
  <2> QED
    BY <1>1, <2>1, <2>2, RequestIsBase DEF AloneInv
<1>2. ASSUME ClientInv, CloseInv
      PROVE  AloneInv
  <2>1. \A v, w \in Session : v = w
    BY <1>2 DEF CloseInv, ReconnectInv, SingleLive, LossInProgress, Session, Used, Leaving
  <2>2. dogPc = "active" => NoHandshake
    BY <1>2 DEF CloseInv, ReconnectInv, TurnAlone, NoHandshake
  <2> QED
    BY <1>2, <2>1, <2>2, CloseIsBase DEF AloneInv, CloseInv
<1>3. CASE promptService = TRUE
  BY <1>2, <1>3, ClientInvariant, CloseInvariant, PTL
<1>4. CASE isAutoReconnect = FALSE
  <2>1. ClientInv /\ RequestInv => AloneInv
    BY <1>1, <1>4
  <2> QED
    BY <1>4, <2>1, ClientInvariant, RequestInvariant, PTL
<1> QED
  BY <1>3, <1>4 DEF Unhurried

\* A connection that was given up has no handshake before the watchdog's next
\* attempt, and is on its list when that comes.
LineInv ==
  /\ lineStatus = "LINE_DELAY" /\ dogPc # "setActive" /\ servicePc # "crashed" => NoHandshake
  /\ dogPc \in {"delayed", "connect"} => registered /\ lineStatus = "LINE_DELAY"
  /\ servicePc \in ServerMessage \cup {"kill"} => Open # {}
  /\ servicePc = "crashed" <=> dogPc = "crashed"
  /\ servicePc = "start" => ~registered
  /\ servicePc = "setLine" /\ lineStatus = "LINE_DELAY" => dogPc = "setActive"

LEMMA ServiceKeepsLineInv ==
  ASSUME AloneInv, LineInv, Service
  PROVE  LineInv'
<1>0. TypeOK
  BY DEF AloneInv, BaseInv, ClientInv
<1> USE DEF LineInv, ServerMessage
<1>1. CASE StartConnect
  BY <1>1 DEF StartConnect, AloneInv, BaseInv, Exclusive, watchdog
<1>2. CASE Callback
  <2>1. CASE OpenLine
    BY <2>1 DEF OpenLine, watchdog, network, AloneInv, BaseInv, Exclusive, OpenPc
  <2>2. CASE OpenTime \/ OpenClient
    BY <2>2 DEF OpenTime, OpenClient, watchdog, network, NoHandshake
  <2>3. CASE OpenRegister
    BY <2>3 DEF OpenRegister, watchdog, network, NoHandshake
  <2>4. CASE OpenGreet \/ Handler \/ HandlePing
    BY <2>4 DEF OpenGreet, Handler, HandlePing, watchdog, NoHandshake
  <2>5. CASE HandleAuth \/ HandleQuiet \/ HandleError
    BY <2>5 DEF HandleAuth, HandleQuiet, HandleError, connection, watchdog, network, NoHandshake,
                Open
  <2>6. CASE CloseKill
    BY <1>0, <2>6 DEF CloseKill, Crash, connection, NoHandshake, TypeOK
  <2>7. CASE CloseIdle \/ CloseUnregister
    BY <2>7 DEF CloseIdle, CloseUnregister, watchdog, network, AloneInv, KilledIsNotDelayed,
                NoHandshake
  <2>8. CASE Disconnect \/ EndService
    BY <1>0, <2>8 DEF Disconnect, EndService, Free, watchdog, NoHandshake, TypeOK
  <2> QED
    BY <1>2, <2>1, <2>2, <2>3, <2>4, <2>5, <2>6, <2>7, <2>8 DEF Callback
<1>3. ASSUME NEW w \in Wsi, Established(w)
      PROVE  LineInv'
  BY <1>0, <1>3 DEF Established, watchdog, NoHandshake, TypeOK
<1>4. ASSUME NEW w \in Wsi, Flush(w) \/ Lost(w)
      PROVE  LineInv'
  BY <1>0, <1>4 DEF Flush, FlushAll, FlushFails, Lost, service, watchdog, NoHandshake, TypeOK
<1>5. ASSUME NEW w \in Wsi, NEW m \in ServerMessage, Receive(w, m)
      PROVE  LineInv'
  BY <1>5 DEF Receive, watchdog, NoHandshake, Open
<1> QED
  BY <1>1, <1>2, <1>3, <1>4, <1>5 DEF Service

LEMMA DogKeepsLineInv ==
  ASSUME AloneInv, LineInv, Dog
  PROVE  LineInv'
<1>0. TypeOK
  BY DEF AloneInv, BaseInv, ClientInv
<1> USE DEF LineInv
<1>1. CASE Look
  BY <1>0, <1>1 DEF Look, connection, service, network, NoHandshake, Open, TypeOK
<1>2. CASE CheckActive \/ GiveUp \/ GiveUpClose \/ GiveUpForget \/ CountDown \/ Reconnect
  BY <1>2 DEF CheckActive, GiveUp, GiveUpClose, GiveUpForget, CountDown, Reconnect, connection,
              service, network, NoHandshake, Open
<1>3. CASE GiveUpRequest
  BY <1>3 DEF GiveUpRequest, Crash, connection, NoHandshake, Open, ServerMessage
<1>4. CASE GiveUpDelay
  BY <1>4 DEF GiveUpDelay, service, network, NoHandshake, Open, AloneInv, BaseInv, Exclusive,
              GivingUp, OpenPc
<1>5. CASE Connect
  <2>1. Open' = Open
    BY <1>0, <1>5 DEF Connect, OpenSocket, Open, TypeOK
  <2> QED
    BY <1>5, <2>1 DEF Connect, Crash, ServerMessage, NoHandshake
<1>6. CASE ConnectActive
  BY <1>6 DEF ConnectActive, service, network, Open
<1> QED
  BY <1>1, <1>2, <1>3, <1>4, <1>5, <1>6 DEF Dog

\* What the mapping of a connection to WatchedSession needs holds at every step of
\* the two threads.
THEOREM LineInvariant ==
  ASSUME Unhurried
  PROVE  Spec => [](AloneInv /\ LineInv)
<1>1. Init => LineInv
  BY DEF Init, LineInv, ServerMessage
<1>2. AloneInv /\ LineInv /\ [Next]_vars => LineInv'
  <2> SUFFICES ASSUME AloneInv, LineInv, [Next]_vars
               PROVE  LineInv'
    OBVIOUS
  <2>1. CASE Silence \/ UNCHANGED vars
    BY <2>1 DEF Silence, vars, connection, service, watchdog, network, LineInv, NoHandshake, Open
  <2> QED
    BY <2>1, ServiceKeepsLineInv, DogKeepsLineInv DEF Next
<1> QED
  BY <1>1, <1>2, AloneInvariant, PTL DEF Spec

-----------------------------------------------------------------------------
(* The steps between the moments at which something takes effect.          *)

LEMMA LineQuiet ==
  ASSUME UNCHANGED <<Session, Watched, GivenUp>>,
         \A w \in Session : wsiState'[w] = wsiState[w],
         servicePc' = "start" <=> servicePc = "start",
         servicePc' = "crashed" <=> servicePc = "crashed"
  PROVE  UNCHANGED Line!vars
<1>1. UNCHANGED Phase
  BY DEF Phase
<1>2. UNCHANGED Killed
  BY DEF Killed, Session
<1> QED
  BY <1>1, <1>2 DEF Line!vars, Stage, Delayed

LEMMA LineDies ==
  ASSUME servicePc' = "crashed"
  PROVE  Line!Dies
BY DEF Line!Dies, Stage, Watched, Delayed

\* Whichever way a session ends, its connection stays in the same care.
LEMMA LineEnds ==
  ASSUME AloneInv, UNCHANGED <<Watched, GivenUp>>, Session' \subseteq Session,
         \A w \in Session' : wsiState'[w] = wsiState[w],
         {servicePc, servicePc'} \cap {"start", "crashed"} = {}
  PROVE  Line!Ends \/ UNCHANGED Line!vars
<1>1. CASE Session' = Session
  BY <1>1, LineQuiet
<1>2. CASE Session' # Session
  <2>1. Session # {} /\ Session' = {}
    BY <1>2 DEF AloneInv
  <2>2. Stage # "none" /\ Stage' = "none"
    BY <2>1 DEF Stage, Phase
  <2> QED
    BY <2>2 DEF Line!Ends, Delayed
<1> QED
  BY <1>1, <1>2

LEMMA EstablishedOpens ==
  ASSUME AloneInv, LineInv, NEW w \in Wsi, Established(w)
  PROVE  Line!Opens
<1>0. TypeOK
  BY DEF AloneInv, BaseInv, ClientInv
<1>1. Session = {w} /\ wsiState[w] = "connecting"
  BY DEF Established, AloneInv, Session
<1>2. Session' = {w} /\ wsiState'[w] = "open"
  BY <1>0, <1>1 DEF Established, Session, TypeOK
<1>3. ~GivenUp'
  BY DEF Established, watchdog, GivenUp, LineInv, NoHandshake, AloneInv, BaseInv, Exclusive
<1>4. Stage = "connecting"
  BY <1>1 DEF Established, Stage, Phase
<1>5. Killed' = {} /\ Phase' = "open"
  BY <1>2 DEF Killed, Session, Phase
<1>6. Stage' = "open" /\ Watched' /\ ~Delayed'
  BY <1>3, <1>5 DEF Established, Stage, Watched, Delayed
<1> QED
  BY <1>4, <1>6 DEF Established, Line!Opens, Watched, Delayed

LEMMA KillFails ==
  ASSUME AloneInv, LineInv, CloseKill
  PROVE  Line!Fails \/ Line!Dies
<1>0. TypeOK
  BY DEF AloneInv, BaseInv, ClientInv
<1>1. CASE client = NoWsi
  BY <1>1, LineDies DEF CloseKill, Crash
<1>2. CASE client # NoWsi
  <2>1. client \in Open
    BY <1>2 DEF CloseKill, LineInv, AloneInv, BaseInv, ClientInv, ClientIsAttached, Exclusive,
                Attached, Open, Used
  <2>2. Session = {client} /\ wsiState[client] \in {"open", "killed"}
    BY <2>1 DEF AloneInv, Session, Open
  <2>3. Session' = {client} /\ wsiState'[client] = "killed"
    BY <1>0, <1>2, <2>1, <2>2 DEF CloseKill, Session, Open, TypeOK
  <2>4. Phase = "open" /\ Phase' = "open"
    BY <2>2, <2>3 DEF Phase
  <2>5. Stage \in {"open", "ending"}
    BY <2>4 DEF CloseKill, Stage
  <2>6. Stage' = "ending" /\ ~Watched' /\ ~Delayed'
    BY <1>2, <2>1, <2>3, <2>4 DEF CloseKill, Stage, Killed, Open, Watched, Delayed
  <2> QED
    BY <1>2, <2>5, <2>6 DEF CloseKill, Line!Fails, Watched, Delayed
<1> QED
  BY <1>1, <1>2

\* The turn that finds the connection lost or silent.
LEMMA CheckGivesUp ==
  ASSUME AloneInv, LineInv, CheckActive
  PROVE  Line!GivesUp \/ UNCHANGED Line!vars
<1>1. UNCHANGED <<Session, Watched, Phase, Killed, servicePc>>
  BY DEF CheckActive, service, connection, network, Session, Watched, Phase, Killed
<1>2. CASE dogPc' = "sleep" \/ GivenUp \/ ~Watched
  <2>1. Delayed' <=> Delayed
    BY <1>1, <1>2 DEF CheckActive, connection, GivenUp, GivingUp, Delayed
  <2> QED
    BY <1>1, <2>1 DEF Line!vars, Stage, Delayed
<1>3. CASE dogPc' # "sleep" /\ ~GivenUp /\ Watched
  <2>1. isAutoReconnect /\ dogPc' = "giveUp" /\ NoHandshake
    BY <1>3 DEF CheckActive, AloneInv
  <2>2. Phase \in {"open", "none"}
    BY <2>1 DEF Phase, NoHandshake, Session
  <2>3. Watched' /\ Delayed' /\ ~Delayed
    BY <1>1, <1>3, <2>1 DEF GivenUp, GivingUp, Delayed
  <2>4. servicePc # "crashed"
    BY <1>3 DEF Watched
  <2>5. Stage # "connecting" /\ Stage' = IF Stage = "open" THEN "ending" ELSE Stage
    BY <1>1, <2>2, <2>3, <2>4 DEF Stage
  <2>6. (servicePc # "start")' = (servicePc # "start")
    BY <1>1
  <2>7. Watched = TRUE /\ Watched' = TRUE /\ Delayed = FALSE /\ Delayed' = TRUE
    BY <1>3, <2>3 DEF Watched, Delayed
  <2> QED
    BY <2>1, <2>5, <2>6, <2>7 DEF Line!GivesUp
<1> QED
  BY <1>2, <1>3

LEMMA ConnectTriesAgain ==
  ASSUME AloneInv, LineInv, Connect
  PROVE  Line!TriesAgain \/ Line!Dies
<1>0. TypeOK
  BY DEF AloneInv, BaseInv, ClientInv
<1>1. CASE Crash
  BY <1>1, LineDies DEF Crash
<1>2. CASE OpenSocket /\ dogPc' = "setActive" /\ UNCHANGED servicePc
  <2>1. dogPc = "connect" /\ Session = {} /\ servicePc \notin {"start", "crashed"}
    BY DEF Connect, AloneInv, BaseInv, Exclusive
  <2>2. Watched /\ Watched' /\ Delayed /\ ~Delayed'
    BY <1>2, <2>1 DEF Connect, LineInv, AloneInv, KilledIsNotDelayed, Watched, Delayed, GivenUp,
                      GivingUp
  <2>3. Phase = "none" /\ Phase' \in {"none", "connecting"}
    BY <1>0, <1>2, <2>1 DEF OpenSocket, Phase, Session, TypeOK
  <2>4. Stage = "none" /\ Stage' \in {"none", "connecting"}
    BY <1>2, <2>1, <2>3 DEF Stage
  <2> QED
    BY <1>2, <2>2, <2>4 DEF Line!TriesAgain, Line!Begin, Watched, Delayed
<1> QED
  BY <1>1, <1>2 DEF Connect

LEMMA StartAttempts ==
  ASSUME AloneInv, LineInv, StartConnect
  PROVE  Line!FirstAttempt
<1>0. TypeOK
  BY DEF AloneInv, BaseInv, ClientInv
<1>1. Session = {}
  BY DEF StartConnect, AloneInv, BaseInv, Exclusive, Session, Used
<1>2. Phase = "none" /\ Phase' \in {"none", "connecting"}
  BY <1>0, <1>1 DEF StartConnect, OpenSocket, Phase, Session, TypeOK
<1>3. ~Watched /\ ~Watched' /\ ~Delayed /\ ~Delayed'
  BY DEF StartConnect, LineInv, Watched, Delayed
<1>4. Stage = "none" /\ Stage' \in {"none", "connecting"}
  BY <1>2 DEF StartConnect, Stage
<1> QED
  BY <1>3, <1>4 DEF StartConnect, Line!FirstAttempt, Line!Begin, Watched, Delayed

-----------------------------------------------------------------------------
(* Every step.                                                             *)

LEMMA CallbackIsLine ==
  ASSUME AloneInv, LineInv, Callback
  PROVE  [Line!Next]_(Line!vars)
<1>0. TypeOK
  BY DEF AloneInv, BaseInv, ClientInv
<1>1. ASSUME UNCHANGED <<wsiState, Watched, GivenUp>>,
             {servicePc, servicePc'} \cap {"start", "crashed"} = {}
      PROVE  UNCHANGED Line!vars
  BY <1>1, LineQuiet DEF Session
<1>2. CASE OpenLine
  <2>1. ~GivenUp /\ ~GivenUp'
    BY <1>2 DEF OpenLine, watchdog, GivenUp, LineInv, AloneInv, BaseInv, Exclusive, OpenPc
  <2> QED
    BY <1>1, <1>2, <2>1 DEF OpenLine, network, Watched, GivenUp
<1>3. CASE OpenTime \/ OpenClient \/ OpenRegister
  BY <1>1, <1>3 DEF OpenTime, OpenClient, OpenRegister, network, watchdog, Watched, GivenUp
<1>4. CASE OpenGreet \/ Handler \/ HandlePing
  BY <1>1, <1>4 DEF OpenGreet, Handler, HandlePing, watchdog, Watched, GivenUp
<1>5. CASE HandleAuth \/ HandleQuiet \/ HandleError
  BY <1>1, <1>5 DEF HandleAuth, HandleQuiet, HandleError, connection, network, watchdog, Watched,
                    GivenUp
<1>6. CASE CloseKill
  BY <1>6, KillFails DEF Line!Next
<1>7. CASE CloseIdle \/ CloseUnregister
  <2>1. ~Watched /\ ~Watched' /\ UNCHANGED <<wsiState, dogPc>>
    BY <1>7 DEF CloseIdle, CloseUnregister, network, watchdog, Watched
  <2>2. UNCHANGED <<Phase, Killed>>
    BY <2>1 DEF Phase, Session, Killed
  <2>3. Delayed = FALSE /\ Delayed' = FALSE /\ Watched = FALSE /\ Watched' = FALSE
    BY <2>1 DEF Delayed, Watched
  <2> QED
    BY <1>7, <2>2, <2>3 DEF CloseIdle, CloseUnregister, Line!vars, Stage
<1>8. CASE Disconnect \/ EndService
  <2>1. Session' \subseteq Session /\ \A w \in Session' : wsiState'[w] = wsiState[w]
    BY <1>0, <1>8 DEF Disconnect, EndService, Free, Session, TypeOK
  <2>2. UNCHANGED <<Watched, GivenUp>>
    BY <1>8 DEF Disconnect, EndService, watchdog, Watched, GivenUp
  <2> QED
    BY <1>8, <2>1, <2>2, LineEnds DEF Disconnect, EndService, Line!Next
<1> QED
  BY <1>2, <1>3, <1>4, <1>5, <1>6, <1>7, <1>8 DEF Callback

LEMMA ServiceIsLine ==
  ASSUME AloneInv, LineInv, Service
  PROVE  [Line!Next]_(Line!vars)
<1>0. TypeOK
  BY DEF AloneInv, BaseInv, ClientInv
<1>1. CASE StartConnect
  BY <1>1, StartAttempts DEF Line!Next
<1>2. ASSUME NEW w \in Wsi, Established(w)
      PROVE  [Line!Next]_(Line!vars)
  BY <1>2, EstablishedOpens DEF Line!Next
<1>3. ASSUME NEW w \in Wsi, Flush(w) \/ Lost(w)
      PROVE  [Line!Next]_(Line!vars)
  <2>1. Session' \subseteq Session /\ \A v \in Session' : wsiState'[v] = wsiState[v]
    BY <1>0, <1>3 DEF Flush, FlushAll, FlushFails, Lost, Session, TypeOK
  <2>2. UNCHANGED <<Watched, GivenUp>>
    BY <1>3 DEF Flush, Lost, service, watchdog, Watched, GivenUp
  <2> QED
    BY <1>3, <2>1, <2>2, LineEnds DEF Flush, Lost, service, Line!Next
<1>4. ASSUME NEW w \in Wsi, NEW m \in ServerMessage, Receive(w, m)
      PROVE  [Line!Next]_(Line!vars)
  BY <1>4, LineQuiet DEF Receive, ServerMessage, watchdog, Session, Watched, GivenUp
<1> QED
  BY <1>1, <1>2, <1>3, <1>4, CallbackIsLine DEF Service

LEMMA DogIsLine ==
  ASSUME AloneInv, LineInv, Dog
  PROVE  [Line!Next]_(Line!vars)
<1>1. ASSUME UNCHANGED <<wsiState, service, registered, GivenUp>>
      PROVE  UNCHANGED Line!vars
  BY <1>1, LineQuiet DEF Session, Watched, service
<1>2. CASE Look \/ CountDown \/ Reconnect
  BY <1>1, <1>2 DEF Look, CountDown, Reconnect, connection, network, GivenUp, GivingUp
<1>3. CASE CheckActive
  BY <1>3, CheckGivesUp DEF Line!Next
<1>4. CASE GiveUp \/ GiveUpClose \/ GiveUpForget \/ GiveUpDelay
  BY <1>1, <1>4 DEF GiveUp, GiveUpClose, GiveUpForget, GiveUpDelay, connection, network, GivenUp,
                    GivingUp
<1>5. CASE GiveUpRequest
  <2>1. CASE Crash
    BY <2>1, LineDies DEF Crash, Line!Next
  <2>2. CASE dogPc' = "forget" /\ UNCHANGED servicePc
    BY <1>1, <1>5, <2>2 DEF GiveUpRequest, connection, service, GivenUp, GivingUp
  <2> QED
    BY <1>5, <2>1, <2>2 DEF GiveUpRequest
<1>6. CASE Connect
  BY <1>6, ConnectTriesAgain DEF Line!Next
<1>7. CASE ConnectActive
  BY <1>1, <1>7 DEF ConnectActive, network, GivenUp, GivingUp
<1> QED
  BY <1>2, <1>3, <1>4, <1>5, <1>6, <1>7 DEF Dog

\* ImplementsLine: however the steps of onOpen, close() and the watchdog's turns
\* interleave, a connection is what its client takes it for: every session is
\* watched from its first moment, ends when it is given up or closed for an
\* error, and is followed by another only when it was given up.
THEOREM ConnectionKeepsLine ==
  ASSUME Unhurried
  PROVE  Spec => ImplementsLine
<1>1. Init => Line!Init
  <2>1. Init => Session = {}
    BY DEF Init, Session
  <2>2. Init => Phase = "none" /\ Watched = FALSE /\ Delayed = FALSE
    BY <2>1 DEF Init, Phase, Watched, Delayed
  <2> QED
    BY <2>2 DEF Init, Line!Init, Stage
<1>2. AloneInv /\ LineInv /\ [Next]_vars => [Line!Next]_(Line!vars)
  <2> SUFFICES ASSUME AloneInv, LineInv, [Next]_vars
               PROVE  [Line!Next]_(Line!vars)
    OBVIOUS
  <2>1. CASE Silence \/ UNCHANGED vars
    BY <2>1, LineQuiet DEF Silence, vars, connection, service, watchdog, network, Session, Watched,
                           GivenUp
  <2> QED
    BY <2>1, ServiceIsLine, DogIsLine DEF Next
<1> QED
  BY <1>1, <1>2, LineInvariant, PTL DEF Spec, ImplementsLine, Line!Spec

=============================================================================
