--------------------------- MODULE WsRequestClient ---------------------------
(***************************************************************************)
(* A request of WsRequestClientImpl: a connection that is not reconnected, *)
(* run by startReq until the callback had the answer for every symbol.     *)
(***************************************************************************)
EXTENDS WebSocketConnection, Integers, Functions

CONSTANT autoClose  \* startReq stops after the last answer

ASSUME RequestAssumption ==
  autoClose \in BOOLEAN /\ isAutoReconnect = FALSE /\ IsInjective(symbols)

VARIABLES time,     \* the answers the request still waits for
          answered  \* the symbols the server answered

requestVars == <<vars, time, answered>>

\* Mutant: a request for several symbols waits for one answer.
RequestInitOne == Init /\ time = 1 /\ answered = {}

RequestInit == Init /\ time = Len(symbols) /\ answered = {}

\* The server answers each message of the connectionHandler at most once.
Answer(w, s) ==
  /\ s \in (sent[w] \cap Topic) \ answered
  /\ Receive(w, "data")
  /\ answered' = answered \cup {s}
  /\ UNCHANGED time

\* implCallback: JsonParser, the caller's Callback, and time-- if neither throws.
ImplCallback ==
  /\ servicePc = "data" /\ HandleQuiet
  /\ time' = IF servicePc' = "poll" THEN time - 1 ELSE time
  /\ UNCHANGED answered

\* Everything else lws_service does.
OtherService ==
  /\ Service /\ "data" \notin {servicePc, servicePc'}
  /\ UNCHANGED <<time, answered>>

\* Mutant: while (!autoClose || time >= 0).
LeaveLoopLate ==
  /\ servicePc = "poll" /\ autoClose /\ time < 0
  /\ servicePc' = "leave"
  /\ UNCHANGED <<connection, serviceWsi, cursor, watchdog, network, time, answered>>

\* while (!autoClose || time), between two calls of lws_service.
LeaveLoop ==
  /\ servicePc = "poll" /\ autoClose /\ time = 0
  /\ servicePc' = "leave"
  /\ UNCHANGED <<connection, serviceWsi, cursor, watchdog, network, time, answered>>

RequestNext == \/ \E w \in Wsi, s \in Topic : Answer(w, s)
               \/ ImplCallback \/ OtherService \/ LeaveLoop
               \/ (Dog \/ Silence) /\ UNCHANGED <<time, answered>>

RequestSpec == RequestInit /\ [][RequestNext]_requestVars

\* startReq tests its condition after every call of lws_service.
FairRequestSpec ==
  RequestSpec /\ DogFairness /\ ServiceFairness /\ SF_requestVars(LeaveLoop)

-----------------------------------------------------------------------------
(* Properties.                                                             *)

\* startReq comes back because of time only when the callback had the answer
\* for every symbol of the request.
ReturnIsComplete == [][LeaveLoop => answered = Topic]_requestVars

\* Once every symbol is answered, startReq comes back: the counter set by the
\* request and the answers counted by implCallback meet at zero.
AnswersEndRequest == autoClose /\ answered = Topic ~> Gone

\* The errorHandler hears of a request that failed, also when it failed
\* because the session could not be opened or was lost.
FailureIsReported ==
  hasErrorHandler /\ servicePc = "disconnect" /\ time # 0 ~> servicePc = "kill" \/ Gone

=============================================================================
