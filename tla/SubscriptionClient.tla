------------------------- MODULE SubscriptionClient --------------------------
(***************************************************************************)
(* A SubscriptionClientImpl: the calls of its user, its connections on one *)
(* lws context, and the list its watchdog walks.  The user's thread becomes*)
(* the service thread in startService (startReq of a request client is the *)
(* same loop); the watchdog reads the list from its own.  WebSocketWatchDog*)
(* inserts and removes without the mutex that the walk holds.              *)
(*                                                                         *)
(* WebSocketConnection has what happens inside one connection; here a      *)
(* connection is its session and its lineStatus, a callback is one step,   *)
(* and a handshake ends before the watchdog's next look at it.             *)
(***************************************************************************)
EXTENDS Naturals, SequencesExt

CONSTANTS Connection,       \* the connections the user may ask for
          NoConnection,     \* the watchdog sleeps
          isAutoReconnect   \* SubscriptionOptions

ASSUME ConnectionAssumption == NoConnection \notin Connection
ASSUME ReconnectAssumption == isAutoReconnect \in BOOLEAN

VARIABLES
  caller,           \* where the user's thread is
  connectionList,   \* of the client, in the order of the subscriptions
  cursor,           \* the iterator of startService over connectionList
  context,          \* the lws_context, "destroyed" when freed but still pointed to
  dog,              \* the watchdog was created
  session,          \* what lws holds for each connection
  lineStatus,
  watched,          \* connectionList of the watchdog
  walk, walkPc,     \* the connection the walk is at, before or after its turn
  dangling          \* the node the walk is at was erased

user == <<caller, connectionList, cursor, context, dog>>
lines == <<session, lineStatus>>
list == <<watched, walk, walkPc, dangling>>
vars == <<user, lines, list>>

Subscribed == Range(connectionList)
Connected(c) == session[c] \in {"open", "closing"}

\* The process ended, or went on in memory that was not its own any more: nothing
\* is said of it from then on.
Gone == caller = "crashed"

TypeOK ==
  /\ caller \in {"idle", "connect", "loop", "deleted", "crashed"}
  /\ connectionList \in Seq(Connection)
  /\ cursor \in 1 .. Len(connectionList) + 1
  /\ context \in {"null", "live", "destroyed"}
  /\ {dog, dangling} \subseteq BOOLEAN
  /\ session \in [Connection -> {"none", "connecting", "open", "closing"}]
  /\ lineStatus \in [Connection -> {"LINE_ACTIVE", "LINE_IDEL", "LINE_DELAY"}]
  /\ watched \in Seq(Connection)
  /\ walk \in Connection \cup {NoConnection}
  /\ walkPc \in {"before", "after"}

Init ==
  /\ caller = "idle" /\ connectionList = <<>> /\ cursor = 1
  /\ context = "null" /\ dog = FALSE
  /\ session = [c \in Connection |-> "none"]
  /\ lineStatus = [c \in Connection |-> "LINE_IDEL"]
  /\ watched = <<>> /\ walk = NoConnection /\ walkPc = "before" /\ dangling = FALSE

-----------------------------------------------------------------------------
(* The user.                                                               *)

\* subscribe*, before startService or from a callback inside it: the context is
\* made once, and a pointer to a freed one is as good as any.
Subscribe(c) ==
  /\ caller \in {"idle", "loop"} /\ c \notin Subscribed
  /\ connectionList' = Append(connectionList, c)
  /\ dog' = TRUE
  /\ context' = IF context = "null" THEN "live" ELSE context
  /\ UNCHANGED <<caller, cursor, lines, list>>

\* Mutant: the iterator does not start at the beginning.
StartServiceEarly ==
  /\ caller = "idle" /\ connectionList # <<>>
  /\ caller' = "connect" /\ cursor' = 0
  /\ UNCHANGED <<connectionList, context, dog, lines, list>>

StartService ==
  /\ caller = "idle" /\ connectionList # <<>>
  /\ caller' = "connect" /\ cursor' = 1
  /\ UNCHANGED <<connectionList, context, dog, lines, list>>

\* connect(), up to lineStatus: a handshake begins, or fails on the spot.
Attempt(c) ==
  /\ context = "live"
  /\ \/ session' = [session EXCEPT ![c] = "none"]
     \/ session' = [session EXCEPT ![c] = "connecting"]
  /\ lineStatus' = [lineStatus EXCEPT ![c] = "LINE_ACTIVE"]
  /\ UNCHANGED caller

\* The same on a context that was freed, which lws_client_connect_via_info gets all
\* the same: it may come back without a session, and anything else is Gone.
AttemptFreed(c) ==
  /\ context = "destroyed"
  /\ \/ /\ session' = [session EXCEPT ![c] = "none"]
        /\ lineStatus' = [lineStatus EXCEPT ![c] = "LINE_ACTIVE"]
        /\ UNCHANGED caller
     \/ caller' = "crashed" /\ UNCHANGED lines

\* The loop over connectionList.
Connect ==
  /\ caller = "connect"
  /\ \/ /\ cursor > Len(connectionList) /\ caller' = "loop"
        /\ UNCHANGED <<cursor, lines>>
     \/ /\ cursor <= Len(connectionList) /\ cursor' = cursor + 1
        /\ Attempt(connectionList[cursor]) \/ AttemptFreed(connectionList[cursor])
  /\ UNCHANGED <<connectionList, context, dog, list>>

\* delete client, through a pointer to SubscriptionClient or WsRequestClient, whose
\* destructors are not virtual: ~SubscriptionClientImpl does not run.  The object
\* is given back to the heap; watchdog, connections and context stay.
Delete ==
  /\ caller = "idle"
  /\ caller' = "deleted"
  /\ UNCHANGED <<connectionList, cursor, context, dog, lines, list>>

-----------------------------------------------------------------------------
(* The service thread.                                                     *)

Position(c) == CHOOSE i \in DOMAIN watched : watched[i] = c

\* Mutant: onConnectionCreated does not look for the connection first.
WatchAgain(c) == watched' = Append(watched, c)

\* Mutant: onConnectionCreated returns at the first entry, whichever it is.
WatchFirst(c) == watched' = IF watched # <<>> THEN watched ELSE Append(watched, c)

Watch(c) == watched' = IF c \in Range(watched) THEN watched ELSE Append(watched, c)

\* list::remove: there is one node to erase (WatchedOnce), or none.
Unwatch(c) ==
  /\ watched' = IF c \in Range(watched) THEN RemoveAt(watched, Position(c)) ELSE watched
  /\ dangling' = (dangling \/ walk = c)

\* onOpen.
Opened(c) ==
  /\ caller = "loop" /\ session[c] = "connecting"
  /\ session' = [session EXCEPT ![c] = "open"]
  /\ lineStatus' = [lineStatus EXCEPT ![c] = "LINE_ACTIVE"]
  /\ Watch(c)
  /\ UNCHANGED <<user, walk, walkPc, dangling>>

\* disconnect(): the handshake failed, or the session is over.
Lost(c) ==
  /\ caller = "loop" /\ session[c] # "none"
  /\ session' = [session EXCEPT ![c] = "none"]
  /\ UNCHANGED <<user, lineStatus, list>>

\* An error message: close().
Error(c) ==
  /\ caller = "loop" /\ Connected(c)
  /\ session' = [session EXCEPT ![c] = "closing"]
  /\ lineStatus' = [lineStatus EXCEPT ![c] = "LINE_IDEL"]
  /\ Unwatch(c)
  /\ UNCHANGED <<user, walk, walkPc>>

\* A callback throws (or the answers of a request are complete): the loop ends
\* and the context with every session on it, whichever connection it was.
LeaveLoop(c) ==
  /\ caller = "loop" /\ Connected(c)
  /\ caller' = "idle" /\ context' = "destroyed"
  /\ session' = [d \in Connection |-> "none"]
  /\ UNCHANGED <<connectionList, cursor, dog, lineStatus, list>>

-----------------------------------------------------------------------------
(* The watchdog: for each node of the list, a turn of its connection.      *)

Wake ==
  /\ dog /\ ~Gone /\ walk = NoConnection /\ watched # <<>>
  /\ walk' = Head(watched) /\ walkPc' = "before" /\ dangling' = FALSE
  /\ UNCHANGED <<user, lines, watched>>

\* reConnect(delay): lost, or silent for too long; "*" closes the session.
GiveUp(c) ==
  /\ lineStatus[c] = "LINE_ACTIVE" /\ isAutoReconnect
  /\ lineStatus' = [lineStatus EXCEPT ![c] = "LINE_DELAY"]
  /\ session' = IF Connected(c) THEN [session EXCEPT ![c] = "closing"] ELSE session
  /\ UNCHANGED caller

\* Mutant: connect() does not test connectStatus.
ReconnectAlways(c) ==
  /\ lineStatus[c] = "LINE_DELAY"
  /\ Attempt(c) \/ AttemptFreed(c)

\* reConnect(), when delayInSecond is down to zero.
Reconnect(c) ==
  /\ lineStatus[c] = "LINE_DELAY" /\ ~Connected(c)
  /\ Attempt(c) \/ AttemptFreed(c)

\* Nothing to do, or not yet.
Pass(c) ==
  /\ lineStatus[c] = "LINE_ACTIVE" => ~isAutoReconnect \/ Connected(c)
  /\ UNCHANGED <<caller, lines>>

Turn ==
  /\ ~Gone /\ walk # NoConnection /\ walkPc = "before"
  /\ session[walk] # "connecting"
  /\ GiveUp(walk) \/ Reconnect(walk) \/ Pass(walk)
  /\ walkPc' = "after"
  /\ UNCHANGED <<connectionList, cursor, context, dog, watched, walk, dangling>>

\* Mutant: the walk ends at the first connection.
AdvanceNever ==
  /\ ~Gone /\ walk # NoConnection /\ walkPc = "after"
  /\ walk' = NoConnection /\ walkPc' = "before" /\ dangling' = FALSE
  /\ UNCHANGED <<user, lines, watched>>

\* ++it, whose node may be gone: then it leads anywhere, or out of the process.
Following == IF dangling THEN Range(watched) \cup {NoConnection}
             ELSE IF Position(walk) = Len(watched) THEN {NoConnection}
             ELSE {watched[Position(walk) + 1]}

Advance ==
  /\ ~Gone /\ walk # NoConnection /\ walkPc = "after"
  /\ \/ walk' \in Following /\ walkPc' = "before" /\ dangling' = FALSE
        /\ UNCHANGED caller
     \/ dangling /\ caller' = "crashed" /\ UNCHANGED <<walk, walkPc, dangling>>
  /\ UNCHANGED <<connectionList, cursor, context, dog, lines, watched>>

-----------------------------------------------------------------------------
User == StartService \/ Connect \/ Delete \/ \E c \in Connection : Subscribe(c)
Service == \E c \in Connection : Opened(c) \/ Lost(c) \/ Error(c) \/ LeaveLoop(c)
Dog == Wake \/ Turn \/ Advance

Next == User \/ Service \/ Dog

Spec == Init /\ [][Next]_vars

\* startService goes through its list, the watchdog through its own, lws ends
\* every handshake and closes what it was told to.  delayInSecond is counted
\* down a turn at a time, so that of many turns one reconnects.  The user owes
\* no call and the server no message.
Due(c) == Opened(c) \/ (session[c] \in {"connecting", "closing"} /\ Lost(c))
FairSpec == /\ Spec /\ WF_vars(Connect) /\ WF_vars(Dog)
            /\ \A c \in Connection : WF_vars(Due(c)) /\ SF_vars(Turn /\ walk = c /\ Reconnect(c))

-----------------------------------------------------------------------------
(* Properties.                                                             *)

\* However often sessions come and go, onConnectionCreated and onClosedNormally
\* keep a connection on the watchdog's list once: it is not judged twice a turn.
WatchedOnce == IsInjective(watched)

\* Every session that was not closed for an error is in the watchdog's care.
OpenIsWatched ==
  \A c \in Connection :
    session[c] = "open" /\ lineStatus[c] # "LINE_IDEL" => c \in Range(watched)

\* A lost connection gets a new attempt whatever errors take the others, or the
\* node under the walk, off the list meanwhile; the attempt may fail at once.
Retried(c) == walk = c /\ walkPc = "after" /\ lineStatus[c] = "LINE_ACTIVE"
LostIsReconnected ==
  \A c \in Connection :
    isAutoReconnect /\ c \in Range(watched) /\ session[c] = "none"
      ~> session[c] # "none" \/ Retried(c) \/ c \notin Range(watched) \/ Gone

\* A connection as WatchedSession has it.  Its first attempt is startService's,
\* whose loop over connectionList came past it, or is over, or was for nothing.
Attempted(c) ==
  \/ caller \in {"loop", "crashed"} \/ context = "destroyed"
  \/ caller = "connect" /\ \E i \in 1 .. cursor - 1 : connectionList[i] = c

Line(c) == INSTANCE WatchedSession WITH
  session <- IF session[c] = "closing" THEN "ending" ELSE session[c],
  attempted <- Attempted(c),
  watched <- c \in Range(watched),
  delayed <- c \in Range(watched) /\ lineStatus[c] = "LINE_DELAY"

\* The connections of a client keep their promises each for itself, although
\* they share a context, a list and two threads: what one goes through, a node
\* erased under the walk or a second startService never gives another a second
\* session, or an attempt it was not given up for.
ImplementsLines ==
  /\ \A c \in Connection : Line(c)!Init
  /\ [][\A c \in Connection : [Line(c)!Next]_(Line(c)!vars)]_vars

\* README.md:251: "If you want to release the memory of client, delete it directly."
\* The watchdog of a client that was deleted opens nothing any more: neither object
\* nor context is there for it.
DeleteReleases ==
  [][caller = "deleted" => ~(Turn /\ Reconnect(walk))]_vars

=============================================================================
