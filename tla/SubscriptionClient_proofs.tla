---------------------- MODULE SubscriptionClient_proofs -----------------------
(***************************************************************************)
(* What holds of a SubscriptionClient for any set of connections, in every *)
(* order of calls, callbacks and turns of the watchdog.                    *)
(***************************************************************************)
EXTENDS SubscriptionClient, SequenceTheorems, TLAPS

-----------------------------------------------------------------------------
(* The list of the watchdog.                                               *)

LEMMA AppendFacts ==
  ASSUME NEW S, NEW s \in Seq(S), NEW e \in S
  PROVE  /\ Append(s, e) \in Seq(S)
         /\ Range(Append(s, e)) = Range(s) \cup {e}
         /\ IsInjective(s) /\ e \notin Range(s) => IsInjective(Append(s, e))
<1> DEFINE t == Append(s, e)
<1>1. t \in Seq(S) /\ Len(t) = Len(s) + 1 /\ t[Len(s) + 1] = e
  OBVIOUS
<1>2. \A i \in 1 .. Len(s) : t[i] = s[i]
  OBVIOUS
<1>3. DOMAIN t = 1 .. Len(s) + 1 /\ DOMAIN s = 1 .. Len(s)
  BY <1>1
<1> HIDE DEF t
<1>4. Range(t) = Range(s) \cup {e}
  BY <1>1, <1>2, <1>3 DEF Range
<1>5. IsInjective(s) /\ e \notin Range(s) => IsInjective(t)
  BY <1>1, <1>2, <1>3 DEF Range, IsInjective
<1> QED
  BY <1>1, <1>4, <1>5 DEF t

LEMMA RemoveAtFacts ==
  ASSUME NEW S, NEW s \in Seq(S), NEW i \in DOMAIN s, IsInjective(s)
  PROVE  /\ RemoveAt(s, i) \in Seq(S)
         /\ Range(RemoveAt(s, i)) = Range(s) \ {s[i]}
         /\ IsInjective(RemoveAt(s, i))
<1> DEFINE t == RemoveAt(s, i)
<1>0. i \in 1 .. Len(s) /\ Len(s) \in Nat /\ DOMAIN s = 1 .. Len(s)
  OBVIOUS
<1> DEFINE u == SubSeq(s, 1, i - 1)
<1> DEFINE v == SubSeq(s, i + 1, Len(s))
<1>a. u \in Seq(S) /\ Len(u) = i - 1 /\ \A j \in 1 .. i - 1 : u[j] = s[j]
  BY <1>0
<1>b. v \in Seq(S) /\ Len(v) = Len(s) - i /\ \A j \in 1 .. Len(s) - i : v[j] = s[i + j]
  BY <1>0
<1>c. t = u \o v
  BY DEF RemoveAt
<1> HIDE DEF t, u, v
<1>d. /\ t \in Seq(S) /\ Len(t) = Len(u) + Len(v)
      /\ \A j \in 1 .. Len(u) + Len(v) : t[j] = IF j <= Len(u) THEN u[j] ELSE v[j - Len(u)]
  BY <1>a, <1>b, <1>c, ConcatProperties, Zenon
<1>e. Len(u) + Len(v) = Len(s) - 1
  BY <1>0, <1>a, <1>b
<1>1. t \in Seq(S) /\ Len(t) = Len(s) - 1
  BY <1>d, <1>e
<1>2. ASSUME NEW j \in 1 .. Len(s) - 1
      PROVE  t[j] = IF j < i THEN s[j] ELSE s[j + 1]
  <2>1. t[j] = IF j <= Len(u) THEN u[j] ELSE v[j - Len(u)]
    BY <1>d, <1>e
  <2>2. CASE j < i
    BY <1>0, <1>a, <2>1, <2>2
  <2>3. CASE ~(j < i)
    <3>1. j - Len(u) \in 1 .. Len(s) - i /\ i + (j - Len(u)) = j + 1
      BY <1>0, <1>a, <2>3
    <3>2. t[j] = v[j - Len(u)]
      BY <1>0, <1>a, <2>1, <2>3
    <3>3. v[j - Len(u)] = s[i + (j - Len(u))]
      BY <1>b, <3>1
    <3> QED
      BY <2>3, <3>1, <3>2, <3>3
  <2> QED
    BY <2>2, <2>3, Zenon
<1>3. DOMAIN t = 1 .. Len(s) - 1
  BY <1>1
<1>4. Range(t) \subseteq Range(s) \ {s[i]}
  BY <1>0, <1>2, <1>3 DEF Range, IsInjective
<1>5. ASSUME NEW k \in 1 .. Len(s), k # i
      PROVE  s[k] \in Range(t)
  <2>1. CASE k < i
    <3>1. k \in DOMAIN t /\ t[k] = s[k]
      BY <1>0, <1>2, <1>3, <2>1
    <3> QED
      BY <3>1 DEF Range
  <2>2. CASE k > i
    <3>1. k - 1 \in DOMAIN t /\ t[k - 1] = s[k]
      BY <1>0, <1>2, <1>3, <2>2
    <3> QED
      BY <3>1 DEF Range
  <2> QED
    BY <1>0, <1>5, <2>1, <2>2
<1>6. Range(s) \ {s[i]} \subseteq Range(t)
  BY <1>0, <1>5 DEF Range
<1>7. IsInjective(t)
  <2> SUFFICES ASSUME NEW j \in 1 .. Len(s) - 1, NEW k \in 1 .. Len(s) - 1, t[j] = t[k]
               PROVE  j = k
    BY <1>3 DEF IsInjective
  <2> DEFINE at(m) == IF m < i THEN m ELSE m + 1
  <2>1. t[j] = s[at(j)] /\ t[k] = s[at(k)]
    BY <1>2
  <2>2. at(j) \in DOMAIN s /\ at(k) \in DOMAIN s
    BY <1>0
  <2>3. at(j) = at(k)
    <3> HIDE DEF at
    <3> QED
      BY <2>1, <2>2 DEF IsInjective
  <2> QED
    BY <1>0, <2>3
<1> QED
  BY <1>1, <1>4, <1>6, <1>7 DEF t

\* The connection a watchdog's step or a callback takes up is on the list where
\* Position says.
LEMMA PositionFacts ==
  ASSUME TypeOK, NEW c \in Range(watched)
  PROVE  Position(c) \in DOMAIN watched /\ watched[Position(c)] = c
BY DEF Position, Range

LEMMA RemoveAtType ==
  ASSUME NEW S, NEW s \in Seq(S), NEW i \in DOMAIN s
  PROVE  RemoveAt(s, i) \in Seq(S)
<1>1. SubSeq(s, 1, i - 1) \in Seq(S) /\ SubSeq(s, i + 1, Len(s)) \in Seq(S)
  OBVIOUS
<1> QED
  BY <1>1, ConcatProperties, Zenon DEF RemoveAt

\* The walk never leaves the list but with the node it was at.
WalkListed == walk # NoConnection /\ ~dangling => walk \in Range(watched)

\* The next node of the walk is one of the list, or its end.
LEMMA FollowingFacts ==
  ASSUME TypeOK, WalkListed
  PROVE  walk # NoConnection => Following \subseteq Range(watched) \cup {NoConnection}
<1> SUFFICES ASSUME walk # NoConnection, ~dangling, Position(walk) # Len(watched)
             PROVE  watched[Position(walk) + 1] \in Range(watched)
  BY DEF Following
<1>1. Position(walk) \in DOMAIN watched
  BY PositionFacts DEF WalkListed
<1>2. Position(walk) + 1 \in DOMAIN watched
  BY <1>1 DEF TypeOK
<1> QED
  BY <1>2 DEF Range

LEMMA WatchFacts ==
  ASSUME TypeOK, NEW c \in Connection, Watch(c)
  PROVE  /\ watched' \in Seq(Connection)
         /\ Range(watched') = Range(watched) \cup {c}
         /\ WatchedOnce => WatchedOnce'
BY AppendFacts DEF TypeOK, Watch, WatchedOnce

LEMMA UnwatchFacts ==
  ASSUME TypeOK, WatchedOnce, NEW c \in Connection, Unwatch(c)
  PROVE  /\ watched' \in Seq(Connection)
         /\ Range(watched') = Range(watched) \ {c}
         /\ WatchedOnce'
<1>1. CASE c \in Range(watched)
  <2>1. watched' = RemoveAt(watched, Position(c))
    BY <1>1 DEF Unwatch
  <2>2. Position(c) \in DOMAIN watched /\ watched[Position(c)] = c
    BY <1>1, PositionFacts
  <2> QED
    BY <2>1, <2>2, RemoveAtFacts DEF TypeOK, WatchedOnce
<1>2. CASE c \notin Range(watched)
  BY <1>2 DEF Unwatch, TypeOK, WatchedOnce
<1> QED
  BY <1>1, <1>2

-----------------------------------------------------------------------------
(* The list, the sessions and the context.                                 *)

ListInv ==
  /\ TypeOK
  /\ WatchedOnce
  /\ WalkListed
  /\ OpenIsWatched

\* connect() that came back, on a live context or on a freed one.
Tried(c) ==
  /\ \/ session' = [session EXCEPT ![c] = "none"]
     \/ context = "live" /\ session' = [session EXCEPT ![c] = "connecting"]
  /\ lineStatus' = [lineStatus EXCEPT ![c] = "LINE_ACTIVE"]
  /\ UNCHANGED caller

LEMMA ConnectCases ==
  ASSUME Connect
  PROVE  /\ caller = "connect" /\ UNCHANGED <<connectionList, context, dog, list>>
         /\ \/ caller' = "loop" /\ UNCHANGED <<cursor, lines>>
            \/ /\ cursor <= Len(connectionList) /\ cursor' = cursor + 1
               /\ \/ Tried(connectionList[cursor]) /\ UNCHANGED caller
                  \/ caller' = "crashed" /\ context = "destroyed" /\ UNCHANGED lines
BY DEF Connect, Attempt, AttemptFreed, Tried

LEMMA ReconnectCases ==
  ASSUME NEW c, Reconnect(c)
  PROVE  /\ lineStatus[c] = "LINE_DELAY" /\ ~Connected(c)
         /\ \/ Tried(c) /\ UNCHANGED caller
            \/ caller' = "crashed" /\ UNCHANGED lines
BY DEF Reconnect, Attempt, AttemptFreed, Tried

LEMMA AttemptFacts ==
  ASSUME TypeOK, NEW c \in Connection, Tried(c)
  PROVE  /\ session' \in [Connection -> {"none", "connecting", "open", "closing"}]
         /\ lineStatus' \in [Connection -> {"LINE_ACTIVE", "LINE_IDEL", "LINE_DELAY"}]
         /\ session'[c] \in {"connecting", "none"}
         /\ \A d \in Connection \ {c} : session'[d] = session[d] /\ lineStatus'[d] = lineStatus[d]
BY DEF TypeOK, Tried

\* A step that leaves the list alone, opens no session and wakes up no line.
LEMMA ListUnchanged ==
  ASSUME ListInv, TypeOK', UNCHANGED list,
         \A c \in Connection : session'[c] = "open" =>
            session[c] = "open" /\ (lineStatus[c] = "LINE_IDEL" => lineStatus'[c] = "LINE_IDEL")
  PROVE  ListInv'
BY DEF ListInv, WatchedOnce, WalkListed, OpenIsWatched, list

LEMMA TypeInit == Init => TypeOK
<1>1. connectionList = <<>> /\ watched = <<>> =>
         connectionList \in Seq(Connection) /\ watched \in Seq(Connection)
         /\ 1 \in 1 .. Len(connectionList) + 1
  OBVIOUS
<1> QED
  BY <1>1 DEF Init, TypeOK

LEMMA TypeStep == TypeOK /\ WalkListed /\ [Next]_vars => TypeOK'
<1> SUFFICES ASSUME TypeOK, WalkListed, [Next]_vars
             PROVE  TypeOK'
  OBVIOUS
<1> USE DEF TypeOK
<1>1. ASSUME NEW c \in Connection, Subscribe(c)
      PROVE  TypeOK'
  <2>1. /\ Append(connectionList, c) \in Seq(Connection)
        /\ Len(Append(connectionList, c)) = Len(connectionList) + 1
    OBVIOUS
  <2>2. cursor \in 1 .. Len(connectionList') + 1
    BY <1>1, <2>1 DEF Subscribe
  <2> QED
    BY <1>1, <2>1, <2>2 DEF Subscribe, lines, list
<1>2. CASE StartService
  BY <1>2 DEF StartService, lines, list
<1>3. CASE Connect
  <2>1. CASE UNCHANGED lines /\ caller' \in {"loop", "crashed"}
    BY <1>3, <2>1, ConnectCases DEF lines, list
  <2>2. CASE /\ cursor <= Len(connectionList) /\ Tried(connectionList[cursor])
             /\ cursor' = cursor + 1 /\ UNCHANGED caller
    <3>1. connectionList[cursor] \in Connection /\ cursor + 1 \in 1 .. Len(connectionList) + 1
      BY <2>2
    <3> QED
      BY <1>3, <2>2, <3>1, AttemptFacts, ConnectCases DEF list
  <2> QED
    BY <1>3, <2>1, <2>2, ConnectCases
<1>4. CASE Delete
  BY <1>4 DEF Delete, lines, list
<1>5. ASSUME NEW c \in Connection, Opened(c)
      PROVE  TypeOK'
  <2>1. watched' \in Seq(Connection)
    BY <1>5, WatchFacts DEF Opened
  <2> QED
    BY <1>5, <2>1 DEF Opened, user
<1>6. ASSUME NEW c \in Connection, Lost(c)
      PROVE  TypeOK'
  BY <1>6 DEF Lost, user, list
<1>7. ASSUME NEW c \in Connection, Error(c)
      PROVE  TypeOK'
  <2>1. watched' \in Seq(Connection)
    BY <1>7, PositionFacts, RemoveAtType DEF Error, Unwatch
  <2>2. dangling' \in BOOLEAN
    BY <1>7 DEF Error, Unwatch
  <2> QED
    BY <1>7, <2>1, <2>2 DEF Error, user
<1>8. ASSUME NEW c \in Connection, LeaveLoop(c)
      PROVE  TypeOK'
  BY <1>8 DEF LeaveLoop, list
<1>9. CASE Wake
  <2>1. watched # <<>> => Head(watched) \in Connection
    OBVIOUS
  <2> QED
    BY <1>9, <2>1 DEF Wake, user, lines
<1>10. CASE Turn
  <2>1. walk \in Connection
    BY <1>10 DEF Turn
  <2>2. CASE GiveUp(walk)
    BY <1>10, <2>1, <2>2 DEF Turn, GiveUp
  <2>3. CASE Reconnect(walk)
    BY <1>10, <2>1, <2>3, AttemptFacts, ReconnectCases DEF Turn, lines
  <2>4. CASE Pass(walk)
    BY <1>10, <2>4 DEF Turn, Pass, lines
  <2> QED
    BY <1>10, <2>2, <2>3, <2>4 DEF Turn
<1>11. CASE Advance
  <2>1. Range(watched) \subseteq Connection
    BY DEF Range
  <2>2. walk' \in Following \cup {walk} /\ walk # NoConnection /\ walkPc' \in {"before", "after"}
    BY <1>11 DEF Advance
  <2>3. walk' \in Connection \cup {NoConnection}
    BY <2>1, <2>2, FollowingFacts
  <2> QED
    BY <1>11, <2>2, <2>3 DEF Advance, lines
<1>12. CASE UNCHANGED vars
  BY <1>12 DEF vars, user, lines, list
<1> QED
  BY <1>1, <1>2, <1>3, <1>4, <1>5, <1>6, <1>7, <1>8, <1>9, <1>10, <1>11, <1>12
  DEF Next, User, Service, Dog

LEMMA ListStep == ListInv /\ [Next]_vars => ListInv'
<1> SUFFICES ASSUME ListInv, [Next]_vars
             PROVE  ListInv'
  OBVIOUS
<1>t. TypeOK /\ TypeOK'
  BY TypeStep DEF ListInv
<1>1. ASSUME NEW c \in Connection, Subscribe(c)
      PROVE  ListInv'
  BY <1>1, <1>t, ListUnchanged DEF Subscribe, lines
<1>2. CASE StartService
  BY <1>2, <1>t, ListUnchanged DEF StartService, lines
<1>3. CASE Connect
  <2>1. CASE UNCHANGED lines
    BY <1>3, <1>t, <2>1, ListUnchanged, ConnectCases DEF lines
  <2>2. CASE cursor <= Len(connectionList) /\ Tried(connectionList[cursor])
    <3>1. connectionList[cursor] \in Connection
      BY <1>t, <2>2 DEF TypeOK
    <3> QED
      BY <1>3, <1>t, <2>2, <3>1, AttemptFacts, ListUnchanged, ConnectCases
  <2> QED
    BY <1>3, <2>1, <2>2, ConnectCases
<1>4. CASE Delete
  BY <1>4, <1>t, ListUnchanged DEF Delete, lines
<1>5. ASSUME NEW c \in Connection, Opened(c)
      PROVE  ListInv'
  <2>1. WatchedOnce' /\ Range(watched') = Range(watched) \cup {c}
    BY <1>5, <1>t, WatchFacts DEF Opened, ListInv
  <2>2. WalkListed'
    BY <1>5, <2>1 DEF Opened, ListInv, WalkListed
  <2>3. OpenIsWatched'
    BY <1>5, <1>t, <2>1 DEF Opened, ListInv, OpenIsWatched, TypeOK
  <2> QED
    BY <1>t, <2>1, <2>2, <2>3 DEF ListInv
<1>6. ASSUME NEW c \in Connection, Lost(c)
      PROVE  ListInv'
  BY <1>6, <1>t, ListUnchanged DEF Lost, TypeOK
<1>7. ASSUME NEW c \in Connection, Error(c)
      PROVE  ListInv'
  <2>1. WatchedOnce' /\ Range(watched') = Range(watched) \ {c}
    BY <1>7, <1>t, UnwatchFacts DEF Error, ListInv
  <2>2. WalkListed'
    BY <1>7, <2>1 DEF Error, Unwatch, ListInv, WalkListed
  <2>3. OpenIsWatched'
    BY <1>7, <1>t, <2>1 DEF Error, ListInv, OpenIsWatched, TypeOK
  <2> QED
    BY <1>t, <2>1, <2>2, <2>3 DEF ListInv
<1>8. ASSUME NEW c \in Connection, LeaveLoop(c)
      PROVE  ListInv'
  BY <1>8, <1>t, ListUnchanged DEF LeaveLoop
<1>9. CASE Wake
  <2>1. Head(watched) \in Range(watched)
    BY <1>9, <1>t DEF Wake, TypeOK, Range
  <2> QED
    BY <1>9, <1>t, <2>1 DEF Wake, ListInv, WatchedOnce, WalkListed, OpenIsWatched, lines
<1>10. CASE Turn
  <2>1. walk \in Connection /\ UNCHANGED <<watched, walk, dangling>>
    BY <1>10, <1>t DEF Turn, TypeOK
  <2>2. OpenIsWatched'
    <3>1. CASE GiveUp(walk)
      BY <1>t, <2>1, <3>1 DEF GiveUp, Connected, ListInv, OpenIsWatched, TypeOK
    <3>2. CASE Reconnect(walk)
      BY <1>t, <2>1, <3>2, AttemptFacts, ReconnectCases DEF ListInv, OpenIsWatched, lines
    <3>3. CASE Pass(walk)
      BY <2>1, <3>3 DEF Pass, ListInv, OpenIsWatched, lines
    <3> QED
      BY <1>10, <3>1, <3>2, <3>3 DEF Turn
  <2> QED
    BY <1>t, <2>1, <2>2 DEF ListInv, WatchedOnce, WalkListed
<1>11. CASE Advance
  <2>1. walk' # NoConnection /\ ~dangling' => walk' \in Range(watched)
    BY <1>11, <1>t, FollowingFacts DEF Advance, ListInv, WalkListed
  <2> QED
    BY <1>11, <1>t, <2>1 DEF Advance, ListInv, WatchedOnce, WalkListed, OpenIsWatched, lines
<1>12. CASE UNCHANGED vars
  BY <1>12, <1>t, ListUnchanged DEF vars, lines
<1> QED
  BY <1>1, <1>2, <1>3, <1>4, <1>5, <1>6, <1>7, <1>8, <1>9, <1>10, <1>11, <1>12
  DEF Next, User, Service, Dog

\* The inductive invariant of the list: no connection twice, no open session off
\* it, and the walk on it but for the node that was erased under it.
THEOREM ListInvariant == Spec => []ListInv
<1>1. Init => ListInv
  BY TypeInit DEF Init, ListInv, WatchedOnce, IsInjective, WalkListed, OpenIsWatched
<1> QED
  BY <1>1, ListStep, PTL DEF Spec

\* TypeOK: caller, cursor and walk stay where the code can be, whatever the
\* user, the callbacks and the watchdog do.
THEOREM TypeCorrect == Spec => []TypeOK
<1>1. ListInv => TypeOK
  BY DEF ListInv
<1> QED
  BY <1>1, ListInvariant, PTL

\* WatchedOnce: onConnectionCreated and onClosedNormally never leave a connection
\* twice on the watchdog's list.
THEOREM AlwaysWatchedOnce == Spec => []WatchedOnce
<1>1. ListInv => WatchedOnce
  BY DEF ListInv
<1> QED
  BY <1>1, ListInvariant, PTL

\* OpenIsWatched: no order of openings, errors and reconnects leaves an open
\* session that the watchdog does not look at.
THEOREM OpenAlwaysWatched == Spec => []OpenIsWatched
<1>1. ListInv => OpenIsWatched
  BY DEF ListInv
<1> QED
  BY <1>1, ListInvariant, PTL

-----------------------------------------------------------------------------
(* Sessions and the context they are on.                                   *)

\* The sessions that are followed here are on a live context: AttemptFreed leaves
\* none behind, or nothing to follow.
SessionsNeedContext ==
  \A c \in Connection : session[c] # "none" => context = "live"

LEMMA ContextStep ==
  TypeOK /\ SessionsNeedContext /\ [Next]_vars => SessionsNeedContext'
<1> SUFFICES ASSUME TypeOK, SessionsNeedContext, [Next]_vars
             PROVE  SessionsNeedContext'
  OBVIOUS
<1> USE DEF SessionsNeedContext
<1>1. ASSUME NEW c \in Connection, Subscribe(c)
      PROVE  SessionsNeedContext'
  BY <1>1 DEF Subscribe, lines
<1>2. CASE StartService \/ Delete \/ Wake \/ Advance
  BY <1>2 DEF StartService, Delete, Wake, Advance, user, lines
<1>3. CASE Connect
  <2>1. CASE UNCHANGED lines
    BY <1>3, <2>1, ConnectCases DEF lines
  <2>2. CASE Tried(connectionList[cursor])
    BY <1>3, <2>2, ConnectCases DEF Tried, TypeOK
  <2> QED
    BY <1>3, <2>1, <2>2, ConnectCases
<1>4. ASSUME NEW c \in Connection, Opened(c) \/ Lost(c) \/ Error(c)
      PROVE  SessionsNeedContext'
  BY <1>4 DEF Opened, Lost, Error, Connected, TypeOK, user
<1>5. ASSUME NEW c \in Connection, LeaveLoop(c)
      PROVE  SessionsNeedContext'
  BY <1>5 DEF LeaveLoop
<1>6. CASE Turn
  <2>1. UNCHANGED context /\ walk \in Connection
    BY <1>6 DEF Turn, TypeOK
  <2>2. CASE GiveUp(walk)
    BY <2>1, <2>2 DEF GiveUp, Connected, TypeOK
  <2>3. CASE Reconnect(walk)
    BY <2>1, <2>3, ReconnectCases DEF Tried, TypeOK, lines
  <2>4. CASE Pass(walk)
    BY <2>1, <2>4 DEF Pass, lines
  <2> QED
    BY <1>6, <2>2, <2>3, <2>4 DEF Turn
<1>7. CASE UNCHANGED vars
  BY <1>7 DEF vars, user, lines
<1> QED
  BY <1>1, <1>2, <1>3, <1>4, <1>5, <1>6, <1>7 DEF Next, User, Service, Dog

LEMMA SessionsOnContext == Spec => []SessionsNeedContext
<1>1. Init => SessionsNeedContext
  BY DEF Init, SessionsNeedContext
<1> QED
  BY <1>1, TypeCorrect, ContextStep, PTL DEF Spec

-----------------------------------------------------------------------------
(* Each connection implements WatchedSession.                              *)

\* Who has a session, or a lineStatus the watchdog acts on, had its attempt; and
\* startService comes past every connection once.
SessionsInv ==
  /\ TypeOK
  /\ SessionsNeedContext
  /\ IsInjective(connectionList)
  /\ \A c \in Connection : session[c] # "none" \/ lineStatus[c] # "LINE_IDEL" => Attempted(c)

\* The chance of a first attempt does not come back.
LEMMA AttemptedStays ==
  ASSUME TypeOK, [Next]_vars, NEW c \in Connection, Attempted(c)
  PROVE  Attempted(c)'
<1>1. ASSUME NEW d \in Connection, Subscribe(d)
      PROVE  Attempted(c)'
  BY <1>1 DEF Subscribe, Attempted
<1>2. CASE StartService \/ Delete
  BY <1>2 DEF StartService, Delete, Attempted
<1>3. CASE Connect
  BY <1>3, ConnectCases DEF Attempted, TypeOK
<1>4. CASE Service
  BY <1>4 DEF Service, Opened, Lost, Error, LeaveLoop, Attempted, user
<1>5. CASE Wake \/ Advance \/ UNCHANGED vars
  BY <1>5 DEF Wake, Advance, vars, Attempted, user
<1>6. CASE Turn
  BY <1>6, ReconnectCases DEF Turn, GiveUp, Pass, Attempted
<1> QED
  BY <1>1, <1>2, <1>3, <1>4, <1>5, <1>6 DEF Next, User, Dog

\* startService has not attempted the connection it comes to before.
LEMMA FirstAttempt ==
  ASSUME SessionsInv, Connect, context # "destroyed", cursor <= Len(connectionList),
         UNCHANGED caller, cursor' = cursor + 1, NEW c, c = connectionList[cursor]
  PROVE  ~Attempted(c) /\ Attempted(c)'
<1>1. caller = "connect" /\ UNCHANGED connectionList
  BY DEF Connect
<1>2. cursor \in 1 .. Len(connectionList) /\ DOMAIN connectionList = 1 .. Len(connectionList)
  BY DEF SessionsInv, TypeOK
<1>3. \A i \in 1 .. cursor - 1 : connectionList[i] # c
  BY <1>2 DEF SessionsInv, IsInjective
<1>4. cursor \in 1 .. cursor' - 1
  BY <1>2
<1>5. ~Attempted(c)
  BY <1>1, <1>3 DEF Attempted
<1>6. Attempted(c)'
  BY <1>1, <1>4 DEF Attempted
<1> QED
  BY <1>5, <1>6

LEMMA SessionsUnchanged ==
  ASSUME SessionsInv, TypeOK', SessionsNeedContext', [Next]_vars,
         UNCHANGED connectionList,
         \A c \in Connection :
           /\ session'[c] # "none" => session[c] # "none" \/ Attempted(c)'
           /\ lineStatus'[c] # "LINE_IDEL" => lineStatus[c] # "LINE_IDEL" \/ Attempted(c)'
  PROVE  SessionsInv'
BY AttemptedStays DEF SessionsInv

LEMMA SessionsStep ==
  ASSUME SessionsInv, TypeOK', SessionsNeedContext', [Next]_vars
  PROVE  SessionsInv'
<1>0. TypeOK
  BY DEF SessionsInv
<1>1. ASSUME NEW c \in Connection, Subscribe(c)
      PROVE  SessionsInv'
  <2>1. IsInjective(connectionList')
    BY <1>0, <1>1, AppendFacts DEF Subscribe, Subscribed, SessionsInv, TypeOK
  <2> QED
    BY <1>0, <1>1, <2>1, AttemptedStays DEF Subscribe, lines, SessionsInv
<1>2. CASE StartService \/ Delete \/ Wake \/ Advance \/ UNCHANGED vars
  BY <1>2, SessionsUnchanged DEF StartService, Delete, Wake, Advance, vars, user, lines
<1>3. CASE Connect
  <2>1. CASE UNCHANGED lines
    BY <1>3, <2>1, SessionsUnchanged, ConnectCases DEF lines
  <2>2. CASE /\ cursor <= Len(connectionList) /\ Tried(connectionList[cursor])
             /\ cursor' = cursor + 1 /\ UNCHANGED caller
    <3>1. PICK c \in Connection : c = connectionList[cursor]
      BY <1>0, <2>2 DEF TypeOK
    <3>2. Attempted(c)'
      <4>1. CASE context = "destroyed"
        BY <1>3, <4>1, ConnectCases DEF Attempted
      <4>2. CASE context # "destroyed"
        BY <1>3, <2>2, <3>1, <4>2, FirstAttempt
      <4> QED
        BY <4>1, <4>2
    <3>3. lineStatus'[c] = "LINE_ACTIVE"
      BY <1>0, <2>2, <3>1 DEF Tried, TypeOK
    <3> QED
      BY <1>0, <1>3, <2>2, <3>1, <3>2, <3>3, AttemptFacts, SessionsUnchanged, ConnectCases
  <2> QED
    BY <1>3, <2>1, <2>2, ConnectCases
<1>4. ASSUME NEW c \in Connection, Opened(c) \/ Lost(c) \/ Error(c) \/ LeaveLoop(c)
      PROVE  SessionsInv'
  <2>1. \A d \in Connection : Attempted(d)'
    BY <1>4 DEF Opened, Lost, Error, LeaveLoop, Attempted, user
  <2>2. UNCHANGED connectionList
    BY <1>4 DEF Opened, Lost, Error, LeaveLoop, user
  <2> QED
    BY <2>1, <2>2, SessionsUnchanged
<1>5. CASE Turn
  <2>1. walk \in Connection /\ UNCHANGED connectionList
    BY <1>0, <1>5 DEF Turn, TypeOK
  <2>2. CASE GiveUp(walk)
    BY <1>0, <2>1, <2>2, SessionsUnchanged DEF GiveUp, Connected, TypeOK
  <2>3. CASE Reconnect(walk)
    <3>1. Attempted(walk)
      BY <2>1, <2>3, ReconnectCases DEF SessionsInv
    <3>2. PICK c \in Connection : c = walk
      BY <2>1
    <3>3. Attempted(c)'
      BY <1>0, <3>1, <3>2, AttemptedStays
    <3>4. CASE Tried(walk)
      BY <1>0, <2>1, <3>1, <3>2, <3>3, <3>4, AttemptFacts, SessionsUnchanged
    <3>5. CASE UNCHANGED lines
      BY <2>1, <3>5, SessionsUnchanged DEF lines
    <3> QED
      BY <2>3, <3>4, <3>5, ReconnectCases
  <2>4. CASE Pass(walk)
    BY <2>1, <2>4, SessionsUnchanged DEF Pass, lines
  <2> QED
    BY <1>5, <2>2, <2>3, <2>4 DEF Turn
<1> QED
  BY <1>1, <1>2, <1>3, <1>4, <1>5 DEF Next, User, Service, Dog

LEMMA SessionsInit == Init => SessionsInv
<1>1. Init => SessionsNeedContext
  BY DEF Init, SessionsNeedContext
<1>2. Init => IsInjective(connectionList)
  BY DEF Init, IsInjective
<1> QED
  BY <1>1, <1>2, TypeInit DEF Init, SessionsInv

\* Subscribing, startService and the watchdog of a client, in any order, give a
\* connection nothing before its first attempt, and that attempt once.
THEOREM SessionsInvariant == Spec => []SessionsInv
<1>1. SessionsInv /\ TypeOK' /\ SessionsNeedContext' /\ [Next]_vars => SessionsInv'
  BY SessionsStep
<1> QED
  BY <1>1, SessionsInit, TypeCorrect, SessionsOnContext, PTL DEF Spec

\* The walk comes to no connection before its first attempt, and the one it is
\* at is on the list, or was closed for an error, while the context lives.
WalkInv ==
  \A c \in Connection :
    /\ ~Attempted(c) => c \notin Range(watched) /\ walk # c
    /\ walk = c /\ context # "destroyed" => c \in Range(watched) \/ lineStatus[c] = "LINE_IDEL"

LEMMA WalkUnchanged ==
  ASSUME TypeOK, WalkInv, [Next]_vars, context' # "destroyed" => context # "destroyed",
         \A c \in Connection :
           /\ c \in Range(watched') => c \in Range(watched) \/ Attempted(c)'
           /\ walk' = c =>
                \/ c \in Range(watched)
                \/ walk = c
           /\ walk' = c /\ context' # "destroyed" =>
                \/ c \in Range(watched') \/ lineStatus'[c] = "LINE_IDEL"
                \/ walk = c /\ (c \in Range(watched) => c \in Range(watched'))
                            /\ (lineStatus[c] = "LINE_IDEL" => lineStatus'[c] = "LINE_IDEL")
  PROVE  WalkInv'
BY AttemptedStays DEF WalkInv

LEMMA WalkStep ==
  ASSUME ListInv, SessionsInv, WalkInv, [Next]_vars
  PROVE  WalkInv'
<1>0. TypeOK
  BY DEF SessionsInv
<1>1. ASSUME NEW c \in Connection, Subscribe(c)
      PROVE  WalkInv'
  BY <1>0, <1>1, WalkUnchanged DEF Subscribe, lines, list
<1>2. CASE StartService \/ Delete \/ UNCHANGED vars
  BY <1>0, <1>2, WalkUnchanged DEF StartService, Delete, vars, user, lines, list
<1>3. CASE Connect
  <2>0. UNCHANGED <<context, watched, walk>>
    BY <1>3, ConnectCases DEF list
  <2>1. CASE UNCHANGED lines
    BY <1>0, <2>0, <2>1, WalkUnchanged DEF lines
  <2>2. CASE context = "destroyed"
    BY <1>0, <2>0, <2>2, WalkUnchanged
  <2>3. CASE context # "destroyed" /\ ~UNCHANGED lines
    <3>1. PICK d \in Connection : d = connectionList[cursor]
      BY <1>0, <1>3, <2>3, ConnectCases DEF TypeOK
    <3>2. /\ Tried(d) /\ cursor <= Len(connectionList) /\ cursor' = cursor + 1
          /\ UNCHANGED caller
      BY <1>3, <2>3, <3>1, ConnectCases
    <3>3. ~Attempted(d)
      BY <1>3, <2>3, <3>1, <3>2, FirstAttempt
    <3>4. walk # d /\ \A c \in Connection \ {d} : UNCHANGED lineStatus[c]
      BY <1>0, <3>2, <3>3, AttemptFacts DEF WalkInv
    <3> QED
      BY <1>0, <2>0, <3>4, WalkUnchanged
  <2> QED
    BY <2>1, <2>2, <2>3
<1>4. ASSUME NEW c \in Connection, Opened(c)
      PROVE  WalkInv'
  <2>1. Range(watched') = Range(watched) \cup {c} /\ UNCHANGED <<walk, context>>
    BY <1>0, <1>4, WatchFacts DEF Opened, user
  <2>2. Attempted(c)' /\ \A d \in Connection \ {c} : UNCHANGED lineStatus[d]
    BY <1>0, <1>4 DEF Opened, user, Attempted, TypeOK
  <2> QED
    BY <1>0, <2>1, <2>2, WalkUnchanged
<1>5. ASSUME NEW c \in Connection, Lost(c) \/ LeaveLoop(c)
      PROVE  WalkInv'
  BY <1>0, <1>5, WalkUnchanged DEF Lost, LeaveLoop, user, list
<1>6. ASSUME NEW c \in Connection, Error(c)
      PROVE  WalkInv'
  <2>1. Range(watched') = Range(watched) \ {c} /\ UNCHANGED <<walk, context>>
    BY <1>0, <1>6, UnwatchFacts DEF Error, user, ListInv
  <2>2. /\ lineStatus'[c] = "LINE_IDEL"
        /\ \A d \in Connection \ {c} : UNCHANGED lineStatus[d]
    BY <1>0, <1>6 DEF Error, TypeOK
  <2> QED
    BY <1>0, <2>1, <2>2, WalkUnchanged
<1>7. CASE Wake \/ Advance
  <2>1. UNCHANGED <<context, lineStatus, watched>>
    BY <1>7 DEF Wake, Advance, user, lines
  <2>2. walk' \in Range(watched) \cup {walk, NoConnection}
    <3>1. CASE Wake
      BY <1>0, <3>1 DEF Wake, TypeOK, Range
    <3>2. CASE Advance
      BY <1>0, <3>2, FollowingFacts DEF Advance, ListInv
    <3> QED
      BY <1>7, <3>1, <3>2
  <2> QED
    BY <1>0, <2>1, <2>2, WalkUnchanged, ConnectionAssumption
<1>8. CASE Turn
  <2>1. walk \in Connection /\ UNCHANGED <<context, watched, walk>>
    BY <1>0, <1>8 DEF Turn, TypeOK
  <2>2. lineStatus[walk] # "LINE_IDEL" \/ UNCHANGED lines
    BY <1>8, ReconnectCases DEF Turn, GiveUp, Pass
  <2> QED
    BY <1>0, <2>1, <2>2, WalkUnchanged DEF WalkInv, lines
<1> QED
  BY <1>1, <1>2, <1>3, <1>4, <1>5, <1>6, <1>7, <1>8 DEF Next, User, Service, Dog

\* What the refinement rests on.
LineInv == ListInv /\ SessionsInv /\ WalkInv

\* The list, the sessions and the walk of a client stay in step at every callback
\* and every turn of its watchdog.
THEOREM LineInvariant == Spec => []LineInv
<1>1. Init => WalkInv
  BY ConnectionAssumption DEF Init, WalkInv, Range
<1>2. ListInv /\ SessionsInv /\ WalkInv /\ [Next]_vars => WalkInv'
  BY WalkStep
<1> QED
  BY <1>1, <1>2, ListInvariant, SessionsInvariant, PTL DEF Spec, LineInv

Listed(c) == c \in Range(watched)

\* A step that shows nothing of c, or begins the loop without it, whose first
\* attempt will then never be.
LEMMA SameLine ==
  ASSUME LineInv, [Next]_vars, NEW c \in Connection, UNCHANGED <<session[c], Listed(c)>>,
         Listed(c) => (lineStatus'[c] = "LINE_DELAY" <=> lineStatus[c] = "LINE_DELAY")
  PROVE  [Line(c)!Next]_(Line(c)!vars)
<1>0. TypeOK /\ SessionsInv
  BY DEF LineInv, SessionsInv
<1>1. Attempted(c) \in BOOLEAN /\ Attempted(c)' \in BOOLEAN
  BY DEF Attempted
<1>2. CASE Attempted(c)' = Attempted(c)
  BY <1>2 DEF Line!vars, Listed
<1>3. CASE Attempted(c)' # Attempted(c)
  <2>1. ~Attempted(c) /\ Attempted(c)'
    BY <1>0, <1>1, <1>3, AttemptedStays
  <2>2. session[c] = "none" /\ session'[c] = "none"
    BY <1>0, <2>1 DEF SessionsInv
  <2> QED
    BY <2>1, <2>2 DEF Line!Next, Line!FirstAttempt, Line!Begin, Listed
<1> QED
  BY <1>2, <1>3

\* What the service thread does, it does after the first attempts.
LEMMA LoopAttempted ==
  ASSUME TypeOK, [Next]_vars, NEW c \in Connection, caller = "loop" \/ context = "destroyed"
  PROVE  Attempted(c) /\ Attempted(c)'
BY AttemptedStays DEF Attempted

\* connect() of startService.
LEMMA ConnectIsLine ==
  ASSUME LineInv, LineInv', [Next]_vars, NEW c \in Connection, Connect
  PROVE  [Line(c)!Next]_(Line(c)!vars)
<1>0. TypeOK /\ SessionsInv /\ SessionsInv' /\ UNCHANGED watched
  BY DEF LineInv, SessionsInv, Connect, list
<1>1. CASE UNCHANGED lines
  BY <1>0, <1>1, SameLine DEF lines, Listed
<1>2. CASE ~UNCHANGED lines
  <2>1. PICK d \in Connection : d = connectionList[cursor]
    BY <1>0, <1>2, ConnectCases DEF TypeOK
  <2>2. /\ Tried(d) /\ cursor <= Len(connectionList) /\ cursor' = cursor + 1
        /\ UNCHANGED <<caller, context>> /\ caller = "connect"
    BY <1>2, <2>1, ConnectCases
  <2>3. CASE c # d
    BY <1>0, <2>2, <2>3, AttemptFacts, SameLine DEF Listed
  <2>4. CASE c = d /\ context = "destroyed"
    <3>1. session'[c] = "none" /\ session[c] = "none"
      BY <1>0, <2>2, <2>4 DEF SessionsInv, SessionsNeedContext
    <3>2. lineStatus'[c] = "LINE_ACTIVE"
      BY <1>0, <2>2, <2>4 DEF Tried, TypeOK
    <3>3. CASE Listed(c) /\ lineStatus[c] = "LINE_DELAY"
      <4>1. Attempted(c) /\ Attempted(c)'
        BY <1>0, <2>4, LoopAttempted
      <4> QED
        BY <1>0, <3>1, <3>2, <3>3, <4>1 DEF Line!Next, Line!TriesAgain, Line!Begin, Listed, Attempted
    <3>4. CASE ~(Listed(c) /\ lineStatus[c] = "LINE_DELAY")
      BY <1>0, <3>1, <3>2, <3>4, SameLine DEF Listed
    <3> QED
      BY <3>3, <3>4
  <2>5. CASE c = d /\ context # "destroyed"
    <3>1. ~Attempted(c) /\ Attempted(c)'
      BY <1>0, <2>1, <2>2, <2>5, FirstAttempt
    <3>2. session[c] = "none" /\ session'[c] \in {"none", "connecting"}
      BY <1>0, <2>2, <2>5, <3>1, AttemptFacts DEF SessionsInv
    <3>3. ~Listed(c)
      BY <3>1 DEF LineInv, WalkInv, Listed
    <3> QED
      BY <1>0, <3>1, <3>2, <3>3 DEF Line!Next, Line!FirstAttempt, Line!Begin, Listed
  <2> QED
    BY <2>3, <2>4, <2>5
<1> QED
  BY <1>1, <1>2

\* onOpen, disconnect(), close(), and the end of the loop.
LEMMA ServiceIsLine ==
  ASSUME LineInv, [Next]_vars, NEW c \in Connection, Service
  PROVE  [Line(c)!Next]_(Line(c)!vars)
<1>0. TypeOK
  BY DEF LineInv, SessionsInv
<1>1. Attempted(c) /\ Attempted(c)'
  BY <1>0, LoopAttempted DEF Service, Opened, Lost, Error, LeaveLoop
<1>2. Attempted(c)' = Attempted(c)
  BY <1>1 DEF Attempted
<1>3. ASSUME NEW d \in Connection, Opened(d)
      PROVE  [Line(c)!Next]_(Line(c)!vars)
  <2>1. Range(watched') = Range(watched) \cup {d}
    BY <1>0, <1>3, WatchFacts DEF Opened
  <2>2. CASE c = d
    <3>1. /\ session[c] = "connecting" /\ session'[c] = "open"
          /\ lineStatus'[c] = "LINE_ACTIVE"
      BY <1>0, <1>3, <2>2 DEF Opened, TypeOK
    <3> QED
      BY <1>2, <2>1, <2>2, <3>1 DEF Line!Next, Line!Opens
  <2>3. CASE c # d
    BY <1>0, <1>3, <2>1, <2>3, SameLine DEF Opened, TypeOK, Listed
  <2> QED
    BY <2>2, <2>3
<1>4. ASSUME NEW d \in Connection, Lost(d) \/ LeaveLoop(d)
      PROVE  [Line(c)!Next]_(Line(c)!vars)
  <2>1. session'[c] \in {session[c], "none"} /\ UNCHANGED <<lineStatus, watched>>
    BY <1>0, <1>4 DEF Lost, LeaveLoop, TypeOK, list
  <2>2. CASE session'[c] = session[c]
    BY <2>1, <2>2, SameLine DEF Listed
  <2>3. CASE session'[c] # session[c]
    BY <1>2, <2>1, <2>3 DEF Line!Next, Line!Ends
  <2> QED
    BY <2>2, <2>3
<1>5. ASSUME NEW d \in Connection, Error(d)
      PROVE  [Line(c)!Next]_(Line(c)!vars)
  <2>1. Range(watched') = Range(watched) \ {d}
    BY <1>0, <1>5, UnwatchFacts DEF Error, LineInv, ListInv
  <2>2. CASE c = d
    <3>1. session[c] \in {"open", "closing"} /\ session'[c] = "closing"
      BY <1>0, <1>5, <2>2 DEF Error, Connected, TypeOK
    <3> QED
      BY <1>2, <2>1, <2>2, <3>1 DEF Line!Next, Line!Fails
  <2>3. CASE c # d
    BY <1>0, <1>5, <2>1, <2>3, SameLine DEF Error, TypeOK, Listed
  <2> QED
    BY <2>2, <2>3
<1> QED
  BY <1>3, <1>4, <1>5 DEF Service

\* reConnect(delay) and reConnect() of the watchdog: of a connection that was
\* taken off its list under the walk it finds nothing to do, or a freed context.
LEMMA TurnIsLine ==
  ASSUME LineInv, LineInv', [Next]_vars, NEW c \in Connection, Turn
  PROVE  [Line(c)!Next]_(Line(c)!vars)
<1>0. TypeOK /\ SessionsInv /\ SessionsInv'
  BY DEF LineInv, SessionsInv
<1>1. PICK d \in Connection : d = walk
  BY <1>0 DEF Turn, TypeOK
<1>2. UNCHANGED <<watched, context, connectionList, cursor>> /\ session[d] # "connecting"
  BY <1>1 DEF Turn
<1>3. CASE UNCHANGED lines
  BY <1>2, <1>3, SameLine DEF lines, Listed
<1>4. CASE GiveUp(d)
  <2>1. /\ lineStatus[d] = "LINE_ACTIVE" /\ lineStatus'[d] = "LINE_DELAY" /\ isAutoReconnect
        /\ session'[d] = IF Connected(d) THEN "closing" ELSE session[d]
        /\ UNCHANGED caller
        /\ \A e \in Connection \ {d} : UNCHANGED <<session[e], lineStatus[e]>>
    BY <1>0, <1>4 DEF GiveUp, TypeOK
  <2>2. CASE c # d
    BY <1>2, <2>1, <2>2, SameLine DEF Listed
  <2>3. CASE c = d /\ Listed(c)
    BY <1>2, <2>1, <2>3 DEF Line!Next, Line!GivesUp, Connected, Listed, Attempted
  <2>4. CASE c = d /\ ~Listed(c)
    <3>1. context = "destroyed"
      BY <1>1, <2>1, <2>4 DEF LineInv, WalkInv, Listed
    <3>2. session[c] = "none" /\ session'[c] = "none"
      BY <1>0, <2>1, <2>4, <3>1 DEF SessionsInv, SessionsNeedContext, Connected
    <3> QED
      BY <1>2, <2>4, <3>2, SameLine DEF Listed
  <2> QED
    BY <2>2, <2>3, <2>4
<1>5. CASE lineStatus[d] = "LINE_DELAY" /\ ~Connected(d) /\ Tried(d) /\ UNCHANGED caller
  <2>1. session[d] = "none" /\ session'[d] \in {"none", "connecting"}
    BY <1>0, <1>2, <1>5, AttemptFacts DEF TypeOK, Connected
  <2>2. lineStatus'[d] = "LINE_ACTIVE"
    BY <1>0, <1>5 DEF Tried, TypeOK
  <2>3. CASE c # d
    BY <1>0, <1>2, <1>5, <2>3, AttemptFacts, SameLine DEF Listed
  <2>4. CASE c = d /\ Listed(c)
    BY <1>2, <1>5, <2>1, <2>2, <2>4
    DEF Line!Next, Line!TriesAgain, Line!Begin, Listed, Attempted
  <2>5. CASE c = d /\ ~Listed(c)
    <3>1. context = "destroyed"
      BY <1>1, <1>5, <2>5 DEF LineInv, WalkInv, Listed
    <3>2. session'[c] = "none"
      BY <1>0, <1>2, <2>5, <3>1 DEF SessionsInv, SessionsNeedContext
    <3> QED
      BY <1>2, <2>1, <2>5, <3>2, SameLine DEF Listed
  <2> QED
    BY <2>3, <2>4, <2>5
<1> QED
  BY <1>1, <1>3, <1>4, <1>5, ReconnectCases DEF Turn, Pass

LEMMA LineStep ==
  ASSUME LineInv, LineInv', [Next]_vars, NEW c \in Connection
  PROVE  [Line(c)!Next]_(Line(c)!vars)
<1>1. CASE UNCHANGED <<lines, watched>>
  BY <1>1, SameLine DEF lines, Listed
<1>2. CASE Connect \/ Service \/ Turn
  BY <1>2, ConnectIsLine, ServiceIsLine, TurnIsLine
<1> QED
  BY <1>1, <1>2
  DEF Next, User, Dog, Subscribe, StartService, Delete, Wake, Advance, vars, list

\* ImplementsLines: each connection of a client implements WatchedSession by
\* itself, for any number of them: what one goes through, a node erased under the
\* walk, and a second startService on the freed context, never give another a
\* second session, or an attempt it was not given up for.
THEOREM ConnectionsKeepLines == Spec => ImplementsLines
<1>1. Init => \A c \in Connection : Line(c)!Init
  BY DEF Init, Line!Init, Attempted, Range
<1>2. LineInv /\ LineInv' /\ [Next]_vars
        => [\A c \in Connection : [Line(c)!Next]_(Line(c)!vars)]_vars
  BY LineStep
<1> QED
  BY <1>1, <1>2, LineInvariant, PTL DEF Spec, ImplementsLines

=============================================================================
