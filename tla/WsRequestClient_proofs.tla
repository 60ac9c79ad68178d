------------------------ MODULE WsRequestClient_proofs ------------------------
(***************************************************************************)
(* What holds of a request of WsRequestClientImpl for every list of        *)
(* different symbols.                                                      *)
(***************************************************************************)
EXTENDS WsRequestClient, WebSocketConnection_proofs, FiniteSetTheorems

-----------------------------------------------------------------------------
(* The counter of outstanding answers.                                     *)

LEMMA TopicCount == IsFiniteSet(Topic) /\ Cardinality(Topic) = Len(symbols)
<1>1. Len(symbols) \in Nat /\ DOMAIN symbols = 1 .. Len(symbols)
  BY SymbolsAssumption
<1>2. IsFiniteSet(1 .. Len(symbols)) /\ Cardinality(1 .. Len(symbols)) = Len(symbols)
  <2>1. 1 \in Int /\ Len(symbols) \in Int
    BY <1>1
  <2>2. /\ IsFiniteSet(1 .. Len(symbols))
        /\ Cardinality(1 .. Len(symbols))
             = IF 1 > Len(symbols) THEN 0 ELSE Len(symbols) - 1 + 1
    BY ONLY <2>1, FS_Interval, Zenon
  <2> QED
    BY <1>1, <2>2
<1>3. ExistsBijection(1 .. Len(symbols), Topic)
  <2>1. symbols \in Bijection(1 .. Len(symbols), Topic)
    BY <1>1, RequestAssumption, SymbolsAssumption
    DEF Topic, Bijection, Injection, Surjection, IsInjective
  <2> QED
    BY <2>1 DEF ExistsBijection
<1> QED
  BY <1>2, <1>3, FS_Bijection

\* The loop was left, by its condition or by an exception.
Done == {"leave", "ended", "crashed"}

\* Between two messages time and the answers add up; while implCallback has an
\* answer in hand, time still counts it.
CountInv ==
  /\ answered \subseteq Topic
  /\ time \in Int
  /\ servicePc \notin Done =>
       time = Len(symbols) - Cardinality(answered) + (IF servicePc = "data" THEN 1 ELSE 0)

LEMMA AnsweredCount ==
  ASSUME answered \subseteq Topic
  PROVE  IsFiniteSet(answered) /\ Cardinality(answered) \in Nat
BY TopicCount, FS_Subset, FS_CardinalityType

\* Nothing restarts the loop.
LEMMA DoneStays ==
  ASSUME Service, servicePc \in Done
  PROVE  servicePc' \in Done
<1>1. ~StartConnect
  BY DEF StartConnect, Done
<1>2. ASSUME Callback
      PROVE  servicePc' \in Done
  BY <1>2 DEF Callback, OpenLine, OpenTime, OpenClient, OpenRegister, OpenGreet, Handler,
              HandlePing, HandleAuth, HandleQuiet, HandleError, CloseKill, CloseIdle,
              CloseUnregister, Disconnect, EndService, Done
<1>3. ASSUME NEW w \in Wsi
      PROVE  ~(Established(w) \/ Flush(w) \/ Lost(w) \/ \E m \in ServerMessage : Receive(w, m))
  BY DEF Established, Flush, Lost, Receive, Done
<1> QED
  BY <1>1, <1>2, <1>3 DEF Service

LEMMA DogKeepsService ==
  ASSUME Dog
  PROVE  servicePc' \in {servicePc, "crashed"}
BY DEF Dog, Look, CheckActive, GiveUp, GiveUpClose, GiveUpRequest, GiveUpForget, GiveUpDelay, CountDown,
       Reconnect, Connect, ConnectActive, Crash, service

\* time and the answers of a request add up, between any two steps of startReq.
THEOREM CountInvariant == RequestSpec => []CountInv
<1>1. RequestInit => CountInv
  <2>1. Cardinality({}) = 0 /\ Len(symbols) \in Nat
    BY FS_EmptySet, SymbolsAssumption
  <2> QED
    BY <2>1 DEF RequestInit, Init, CountInv
<1>2. CountInv /\ [RequestNext]_requestVars => CountInv'
  <2> SUFFICES ASSUME CountInv, [RequestNext]_requestVars
               PROVE  CountInv'
    OBVIOUS
  <2>0. Len(symbols) \in Nat /\ IsFiniteSet(answered) /\ Cardinality(answered) \in Nat
    BY AnsweredCount, SymbolsAssumption DEF CountInv
  <2>1. ASSUME NEW w \in Wsi, NEW s \in Topic, Answer(w, s)
        PROVE  CountInv'
    <3>1. Cardinality(answered') = Cardinality(answered) + 1
      BY <2>0, <2>1, FS_AddElement DEF Answer
    <3>2. servicePc = "poll" /\ servicePc' = "data"
      BY <2>1 DEF Answer, Receive
    <3> QED
      BY <2>0, <2>1, <3>1, <3>2 DEF Answer, CountInv, Done
  <2>2. CASE ImplCallback
    <3>1. servicePc = "data" /\ servicePc' \in {"poll", "leave"}
      BY <2>2 DEF ImplCallback, HandleQuiet
    <3> QED
      BY <2>0, <2>2, <3>1 DEF ImplCallback, CountInv, Done
  <2>3. CASE OtherService
    BY <2>3, DoneStays DEF OtherService, CountInv
  <2>4. CASE LeaveLoop
    BY <2>4 DEF LeaveLoop, CountInv, Done
  <2>5. CASE Dog /\ UNCHANGED <<time, answered>>
    BY <2>5, DogKeepsService DEF CountInv, Done
  <2>6. CASE Silence /\ UNCHANGED <<time, answered>>
    BY <2>6 DEF Silence, service, CountInv
  <2>7. CASE UNCHANGED requestVars
    BY <2>7 DEF requestVars, vars, service, CountInv
  <2> QED
    BY <2>1, <2>2, <2>3, <2>4, <2>5, <2>6, <2>7 DEF RequestNext
<1> QED
  BY <1>1, <1>2, PTL DEF RequestSpec

\* startReq never comes back for its counter before the callback had the answer
\* for every symbol, whatever the messages, errors and losses in between.
THEOREM ReturnComplete == RequestSpec => ReturnIsComplete
<1>1. CountInv /\ LeaveLoop => answered = Topic
  <2> SUFFICES ASSUME CountInv, LeaveLoop
               PROVE  answered = Topic
    OBVIOUS
  <2>1. IsFiniteSet(answered) /\ Cardinality(answered) \in Nat
    BY AnsweredCount DEF CountInv
  <2>2. Cardinality(answered) = Len(symbols)
    BY <2>1, SymbolsAssumption DEF CountInv, LeaveLoop, Done
  <2> QED
    BY <2>2, TopicCount, FS_Subset DEF CountInv
<1>2. CountInv /\ [RequestNext]_requestVars => [LeaveLoop => answered = Topic]_requestVars
  BY <1>1
<1> QED
  BY <1>2, CountInvariant, PTL DEF RequestSpec, ReturnIsComplete

-----------------------------------------------------------------------------
(* The connection of a request.  startReq's loop has a way out that the    *)
(* connection by itself has not, so what is proved of Spec is not yet      *)
(* proved of RequestSpec: its invariants are, step by step.                *)

LEMMA RequestSteps == RequestNext => Next \/ LeaveLoop
<1>1. Service \/ Dog \/ Silence => Next
  BY DEF Next
<1>2. ASSUME NEW w \in Wsi, NEW s \in Topic, Answer(w, s)
      PROVE  Service
  BY <1>2 DEF Answer, Service, ServerMessage
<1>3. ImplCallback => Service
  BY DEF ImplCallback, Service, Callback
<1>4. OtherService => Service
  BY DEF OtherService
<1> QED
  BY <1>1, <1>2, <1>3, <1>4 DEF RequestNext

LEMMA LoopStep ==
  ASSUME [RequestNext]_requestVars
  PROVE  [Next]_vars \/ LeaveLoop
BY RequestSteps DEF requestVars

LEMMA LeaveKeepsType ==
  ASSUME TypeOK, LeaveLoop
  PROVE  TypeOK'
BY DEF LeaveLoop, TypeOK, ServicePc, connection, watchdog, network

ConnectionInv == ClientInv /\ RequestInv

\* startReq and the callbacks of a request keep what holds of a connection that is
\* not reconnected.
THEOREM ConnectionInvariant == RequestSpec => []ConnectionInv
<1>1. RequestInit => ConnectionInv
  BY ClientInit, RequestInvInit DEF RequestInit, ConnectionInv
<1>2. ConnectionInv /\ [RequestNext]_requestVars => ConnectionInv'
  <2> SUFFICES ASSUME ConnectionInv, [RequestNext]_requestVars
               PROVE  ConnectionInv'
    OBVIOUS
  <2>0. TypeOK /\ ClientInv /\ RequestInv
    BY DEF ConnectionInv, ClientInv
  <2>1. CASE [Next]_vars
    <3>1. TypeOK'
      BY <2>0, <2>1, TypeStep
    <3> QED
      BY <2>0, <2>1, <3>1, ClientStep, RequestStep, RequestAssumption DEF ConnectionInv
  <2>2. CASE LeaveLoop
    <3>1. TypeOK'
      BY <2>0, <2>2, LeaveKeepsType
    <3>2. ClientInv'
      BY <2>0, <2>2, <3>1, ClientUnchanged DEF LeaveLoop, connection, network, Attached
    <3>3. RequestInv'
      BY <2>0, <2>2, <3>1, QuietKeepsRequest
      DEF LeaveLoop, connection, network, watchdog, RequestInv, WatchdogIdle
    <3> QED
      BY <3>2, <3>3 DEF ConnectionInv
  <2> QED
    BY <2>1, <2>2, LoopStep
<1> QED
  BY <1>1, <1>2, PTL DEF RequestSpec

\* A request of a WsRequestClientImpl never reaches a server that has not
\* accepted its signature, wherever startReq leaves its loop.
THEOREM RequestLoopAuthorised == RequestSpec => []SubscribedWhenAuthorised
<1>1. ConnectionInv => SubscribedWhenAuthorised
  BY DEF ConnectionInv, RequestInv
<1> QED
  BY <1>1, ConnectionInvariant, PTL

\* The connection startReq runs implements the contract of SubscriptionSession,
\* up to and including the end of its loop: one attempt, one session, nothing
\* of the request before its signature is accepted, nothing after its end.
THEOREM RequestLoopImplementsSession == RequestSpec => ImplementsSession
<1>1. RequestInit => Contract!Init
  BY ContractInit DEF RequestInit
<1>2. ConnectionInv => ContractInv
  BY RequestIsContract DEF ConnectionInv
<1>3. ContractInv /\ ContractInv' /\ [RequestNext]_requestVars
        => [Contract!Next]_Contract!vars
  <2>1. LeaveLoop => UNCHANGED Contract!vars
    BY QuietIsInvisible DEF LeaveLoop, network
  <2> QED
    BY <2>1, LoopStep, ContractStep
<1> QED
  BY <1>1, <1>2, <1>3, ConnectionInvariant, PTL
  DEF RequestSpec, ImplementsSession, Contract!Spec

=============================================================================
