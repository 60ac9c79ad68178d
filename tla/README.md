# huobi_Cpp in TLA+

A verification project for the C++ SDK of the Huobi exchange
(`src/` is the repository): TLA+ modules of its WebSocket side, where two
threads, a socket library and a remote server meet, and of its REST side, where
blocking calls meet an exchange that may answer late or never and share one map
of accounts; configurations that check them with TLC; and theorems that TLAPS
proves for every value of the constants.

## The system

| Part | State | Operations | Interacts with |
|---|---|---|---|
| `WebSocketConnection` | `connectStatus`, `lineStatus`, `client` (the `lws*`), `lastReceivedTime`, `delayInSecond`, `sendBufferList` | `connect`, `onOpen`, `onMessage`, `send`, `flushSendBuffer`, `reConnect`, `disconnect`, `close` | called by lws on the service thread and by the watchdog on its own thread; calls the request's handlers |
| `WebSocketWatchDog` | `connectionList`, one thread | a turn per second over the list; `onConnectionCreated`, `onClosedNormally` from the service thread | reads and writes the connections without their lock |
| `SubscriptionClientImpl` | connections, lws `context`, watchdog | `subscribe*`, `request*`, `startService`, `startReq`, `event_cb` | runs `lws_service` on the caller's thread until a callback throws |
| `WsRequestClientImpl` | a `SubscriptionClientImpl` without reconnects | `request*`: one connection, `startReq` until `time` is 0 | `WebSocketRequest::implCallback` counts `time` down |
| `WebSocketApiImpl`, `Channels`, `ChannelParser` | none | builders of the 21 subscriptions and requests | produce the `WebSocketRequest` of a connection |
| `RestApiImpl` | keys and host | a builder per request: checks, parameters, signature, parser | `InputChecker`, `UrlParamsBuilder`, `ApiSignature`, `AccountsInfoMap` |
| `RestApiInvoke`, `SyncClientImpl` | none | `callSync`, `checkResponse`; one blocking call per operation, a few made of several requests | curl, the JSON layer, the exchange |
| `AccountsInfoMap`, `User` | `userMap`: one map per process from key to accounts, without a lock | `updateUserInfo`, `getUser`, `getAccount` | filled by the constructors of clients with a key; read by builders, and by parsers on service threads |
| `InputChecker` | none | checks of arguments that throw | called by every builder |
| `UrlParamsBuilder`, `ApiSignature` | the parameters of one request | `putUrl`, `putPost`, which drop zero and empty values; the signature, which needs keys | called by every builder |
| JSON layer, `Logger`, enums | none, or a buffer | conversions; `lookup` of a name never fails | used by all of the above |
| libwebsockets, curl, OpenSSL, zlib, the exchange | sockets, sessions | external | modelled from how `src/` uses them |

What is hard on the WebSocket side: `connectStatus`, `lineStatus`,
`client` and the watchdog's list are shared by two threads without a lock; the
mutex of a connection covers its queue only. A reconnect takes the watchdog
several turns, during which lws may open, lose or serve a socket of the same
connection. Closing a session goes through the queue (`"*"`), a writable
callback and its return value. Errors, refused signatures, exceptions of the
caller's callbacks and lost sessions take different ways out, and not all of
them reach anybody.

What is hard on the REST side: the result of `curl_easy_perform` is dropped, so
a call whose answer was lost goes on with an empty one, while the exchange may
still do what it was asked. An argument that is zero or empty is left out of a
request in silence, and the exchange takes that for "all", so that each
builder's checks have to be the right ones for its parameters. Accounts are
looked up in a list that was read when some client was constructed, by other
threads, for other keys, before the exchange opened more of them.

What makes each part correct:

- connection: `client` never dangles; `CONNECTED` is never stale; one session
  at a time; a session subscribes, or ends; what is queued is sent; nothing
  signed is asked before the signature was accepted;
- watchdog: lost and silent sessions are replaced, closed ones are not, and a
  turn that overlaps a callback undoes nothing;
- subscription client: errors are reported and stay with their connection;
  nothing reconnects once the client was deleted;
- request client: `startReq` returns after the last answer, not before, and
  not never;
- `callSync`: a command is sent once, a call that returns was done, one that is
  refused was not; it comes back;
- builders: no command without what narrows it; an account id belongs to the
  caller's user and to what was asked for;
- `SyncClientImpl`: what is made of several requests is returned whole;
- `AccountsInfoMap`: an entry is a list its own user once had, and is there for
  every client that has a key;
- WebSocket builders: the line, the protocol and `time` fit the messages.

## Modules

| Module | Contents |
|---|---|
| `SubscriptionSession` | the abstract specification: what a connection promises its client, as one session after the other |
| `WatchedSession` | the abstract specification of a connection between its client and the watchdog: watched, given up, tried again, closed for good |
| `WebSocketConnection` | one connection, the service thread, the watchdog, the queue, lws and the server |
| `WsRequestClient` | extends it by `startReq`, `implCallback` and `time` |
| `SubscriptionClient` | a client with several connections: its user, its context, and the list its watchdog walks |
| `RestApi` | the REST requests of `RestApiImpl`, one definition per builder, and the checks of `InputChecker` |
| `WebSocketApi` | the 21 subscriptions and requests of `WebSocketApiImpl`, and the protocols of `Channels` |
| `RemoteCall` | the abstract specification: what a blocking command promises the thread that makes it |
| `SyncClient` | extends both catalogues: threads that call, construct clients and run service loops against one exchange and one account map; implements `RemoteCall` |
| `MCConnection`, `MCRequest`, `MCClient`, `MCApi` | instances for TLC |
| `WebSocketConnection_proofs` | theorems of a connection at any timing, and of one that is not reconnected |
| `WebSocketReconnect_proofs` | of one that is, under `promptService` |
| `WebSocketQueue_proofs`, `WebSocketLine_proofs` | of both: the queue, and the refinement of `WatchedSession` |
| `WsRequestClient_proofs`, `SubscriptionClient_proofs`, `SyncClient_proofs`, `WatchedSession_proofs` | theorems of the other modules |

### WebSocketConnection

The variables carry the names of the fields. `silent` stands for
`now - lastReceivedTime > receiveLimitMs`, the only question ever asked of
`lastReceivedTime`; `registered` for the connection's entry in the watchdog's
`connectionList`. `servicePc` and `dogPc` say where each thread is; the other
variables are the network: the state of each socket lws may hold for the
connection (`Wsi`), whether lws owes it a writable callback, and what the
server received on it and accepted.

A step of a thread is what it does between two accesses to a field the other
thread writes. So `onOpen` is six actions (`Established`, `OpenLine`,
`OpenTime`, `OpenClient`, `OpenRegister`, `OpenGreet`), `close` three
(`CloseKill`, `CloseIdle`, `CloseUnregister`), `disconnect` two (`Lost`,
`Disconnect`), a turn of the watchdog `Look` followed by `CheckActive`,
`GiveUp`, `GiveUpClose`, `GiveUpRequest`, `GiveUpForget` and `GiveUpDelay`, or by `CountDown`,
or by `Reconnect`, `Connect` and `ConnectActive`. `send` on the service thread
is one step: the queue is under the mutex, and while the watchdog is between
its push and its `lws_callback_on_writable` (`dogPc = "request"`) it holds that
mutex, so every action that sends or flushes waits.

Choices made in the translation:

- `client` is loaded once in `send()` (line 90 and 91 use the same value): this
  is what an optimised build does on the service thread. On the watchdog the
  load is a step before its use, and a socket freed in between is a crash or
  luck (`GiveUpRequest`). `close()` with a null `client` is a crash.
- A message is a member of `ServerMessage`, one for each branch of `onMessage`;
  the three forms of ping are one. Parsing, signing without keys and the
  caller's callback may throw when `callbackMayThrow`; the exception leaves
  `lws_service`, and with it the loop (`leave`), and destroying the context
  closes the sockets (`EndService`).
- An lws handshake ends in `Established` or in `Lost`; an attempt that fails at
  once calls `disconnect()` before `connect()` goes on (`OpenSocket`).
- A write of lws succeeds or falls short; a short one, or `"*"`, empties the
  queue and closes the socket (`FlushFails`).
- A socket that was told to die (`LWS_TO_KILL_ASYNC`) may still deliver a
  message before lws closes it.
- `MaxBuffer` bounds the queue for pings, answers to signatures and new
  sessions, which the environment can repeat at will; nothing the client does on
  its own is bounded by it.

`promptService` is a timing assumption, off unless a configuration says
otherwise: handshakes and callbacks end before the watchdog's next turn looks
at the connection, that is, within about a second.

### WsRequestClient

`time` starts at the number of messages the request sends and is decremented
after the callback came back; `answered` is what the server answered. `Answer`
is the receipt of an answer, `ImplCallback` the callback with `time--`,
`LeaveLoop` the condition of `startReq`'s loop, tested between two calls of
`lws_service`; everything else is `WebSocketConnection`. A
`WsRequestClientImpl` sets `isAutoReconnect` to false, which the module
assumes.

### SubscriptionClient

Several connections of one `SubscriptionClientImpl`. What happens inside a
connection is `WebSocketConnection`'s affair; here a connection is its session
with lws and its `lineStatus`, a callback is one step, and a handshake ends
before the watchdog's next look. The user's thread (`caller`) subscribes,
connects everything in `connectionList` (`StartService`, `Connect`), becomes the
service thread (`Opened`, `Lost`, `Error`) and comes back when a callback throws
(`LeaveLoop`), with every session closed and the context freed; `context` then
is a dangling pointer, which a later `connect()`, of `startService` or of the
watchdog, hands to `lws_client_connect_via_info` all the same. What that does is
undefined: it may come back without a session, and every other outcome, the end
of the process or a call that goes on in memory of somebody else, is the absorbing
state `crashed`, of which nothing is claimed (`AttemptFreed`, `Gone`).
`startReq` has the same loop and the same end: the last answer of a request is a
`LeaveLoop`, and the next request of that client a `Subscribe` and a
`StartService` on the freed context.

`Delete` is `delete client` by a user who is not in the loop. The factories return
pointers to `SubscriptionClient` and `WsRequestClient`, neither of which has a
virtual destructor, so that the destructor of the implementation never runs. That
`delete` is undefined too; the module has what gcc and glibc make of it: the
object's memory goes back to the heap, and the watchdog, its thread, the
connections and the context stay as they are. None of them refers to the client,
so that the watchdog walks on.

The watchdog walks `watched` a node at a time (`Wake`, `Turn`, `Advance`), and
between two steps `Watch` and `Unwatch` change the list, since they do not take
the mutex of the walk. A node erased under the walk is `dangling`: going on
from it leads to any node, to the end, or out of the process. Two list
operations are never half done at once in this model; a torn `std::list` is
libstdc++'s memory and below its level.

### SubscriptionSession

Four variables: the session (`none`, `connecting`, `open`), whether a first
attempt was made, whether the server accepted the signature, and what it was
asked in this session. `WebSocketConnection` implements it under the mapping
`Phase`, `Accepted`, `Delivered`; the property is `ImplementsSession`.

### WatchedSession

What a connection promises its client and the watchdog together, again in four
variables: the session (`none`, `connecting`, `open`, or `ending` once it was
given up or closed for an error), whether a first attempt was made, whether the
watchdog has it, and whether it was given up. It is the joint of the two
WebSocket models. `SubscriptionClient` takes a callback for one step and a
connection for its session and `lineStatus`; `WebSocketConnection` says what that
stands for, field by field and with both threads in the middle of it. Each
implements `WatchedSession`: the one for every connection it has
(`ImplementsLines`), the other in all its steps (`ImplementsLine`, mapping
`Stage`, `Watched`, `Delayed`), with `onOpen` taking effect when it begins,
`close()` when it kills the socket, and a turn of the watchdog when it found the
connection lost or silent. `WatchedSession` in turn implements the part of
`SubscriptionSession` that does not speak of messages.

### RestApi

A request is a record: its method, whether it is signed, the field by which
`checkResponse` knows its answers (`form`), what its builder checks (`checks`,
from an argument to the values that pass), the arguments put into the query or
the body (`params`), those that choose or fill the path (`path`), and the way
of its parser (`answer`). An argument is `"none"` (zero, empty, a null enum),
`"good"` or `"bad"` (negative, out of range, with a special character): that is
all `InputChecker` and `UrlParamsBuilder` can tell apart. The parsers that only
copy fields are alike (`"value"`, `"list"`); those that look accounts up, read a
first element that may not be there, or read at an index of their own are kept
apart. The records they fill, field names, paths and dates are left out.
`put` says which arguments of a call go out.

### WebSocketApi

A builder is a record as well: the protocol its `connectionHandler` writes
(`channel`), the two flags that choose the line, whether it sends one message
or one per symbol, what it sets `time` to, and the accounts its parser looks up.

### SyncClient

A thread is `"idle"`, in `callSync` (`"sending"`, then `"answered"`), or in the
loop of a feed (`"service"`). `Begin` is an operation as far as its first
request: the checks passed, the account looked up, keys there; `Refuse` is every
way a builder throws before that. The exchange answers (`Serve`), refuses
(`Reject`), or the answer is lost (`Lose`: the 20 seconds of `CURLOPT_TIMEOUT`,
a failed connection, an answer that is not JSON or not the exchange's); then it
may still do what was asked (`Late`), which is followed until the thread's next
call or feed. `checkResponse` and `jsonParser` map an answer to the ways the
code goes on with it, and the operation then goes on (`NextRequest`), ends
(`Conclude`), fills the map (`Update`), fails (`Fail`) or takes the process
with it (`Die`). Where the code's behaviour is undefined, the outcomes are a
choice: garbage or a crash of a parser that reads out of bounds, a crash or no
fields in a null document, which depends on the build's assertions, and the
missing `return` of `getAccountBalance(type)`.

The arguments of a call are the usual ones with at most one unusual value.
Kept of them are `lacks`, the parameters that narrow a command (`Selector`) and
are left out of it, and whether the checks let them pass; this is evaluated once
per operation (`Passing`, `Lacking`), not per call. Accounts are numbered in the
order the exchange opens them; `userMap` holds lists of them. A feed is a
connection whose server answers if it understands the messages, one answer per
message; sessions, errors and signatures are `WebSocketConnection`.

Assumed: an answer the exchange gives has the documented fields, also for each
entry of a batch (`RestApiImpl.cpp:588` and `1602`: one without them throws
`INPUT_ERROR` after the batch was carried out, which a caller takes for a
refusal); the orders of a
batch are alike; a request closes itself (`autoClose`, the default); a user has
at least one account, so that an empty list is no entry; one thread is one user
of its client.

### RemoteCall

Three variables per thread: whether a call is open, how often the exchange did
what it was asked, and what the thread may conclude. A verdict of `"done"` means
once, `"refused"` never, and only after `"unknown"` may it still happen. Queries
are always `"unknown"`: they change nothing. `SyncClient` implements it with
`Phase` and `Verdict`, which reads a return as done, and an error of the
client's checks or of the exchange as refused.

## What TLC checks

| Run | Question | Instance |
|---|---|---|
| `reconnect` | `TypeOK`, `ClientIsAttached`, `ConnectedHasSession`, in every interleaving | public line, reconnects after 1 turn, 2 sockets (symmetric), 1 symbol, queue 2; 0.94 million states |
| `prompt` | `ImplementsSession`, `ImplementsLine`, `OneSession`, `GivenUpIsEnding`, `CloseIsFinal`, and under fairness `LostSessionIsRetried`, `SilentSessionEnds`, `OpenSessionSubscribes` | the same with 2 symbols and `promptService` |
| `signed` | `QueuedIsDue`, `NoTopicBeforeVerdict`, and under fairness `QueueDrains` | signed V2 connection that reconnects, 2 symbols, `promptService`, callbacks that throw, queue 3 |
| `request` | `SubscribedWhenAuthorised`, `ImplementsSession`, `ReturnIsComplete`, and under fairness `AnswersEndRequest` | signed V1 request for 2 symbols, no reconnects, callbacks that throw, queue 3 |
| `client` | `TypeOK`, `WatchedOnce`, `OpenIsWatched`, `ImplementsLines`, and under fairness `LostIsReconnected` | 3 connections that reconnect; 0.12 million states |
| `api` | `TypeOK`, `SnapshotIsPast`, `UserIsKnown`, `OrderReachesItsAccount`, `CommandsAreSpecific`, `FeedIsUnderstood`, `LoopWaitsForAll`, `CompositeIsWhole`, `ImplementsRemoteCall`, and under fairness `CallsEnd` | 2 threads, 2 keys, every operation and feed; 0.17 million states |
| `first_attempt` | violated: `FailedAttemptIsRetried` | public line, `promptService` |
| `no_error_handler` | violated: `ErrorsDoNotEndService` | no `errorHandler`, nothing else throws |
| `refused_auth` | violated: `RefusalIsReported` | signed V2 line |
| `lost_update` | violated: `SilentSessionEnds` without `promptService` | 1 socket, queue 1, no exceptions |
| `request_failure` | violated: `FailureIsReported` | as `request` |
| `delete_client` | violated: `DeleteReleases` | 2 connections |

The bounds. Two sockets let an old session overlap a new one, with a second
handshake under way while the first is pending: the third socket of a longer
overlap meets no state the second does not, because the code distinguishes only
the socket in `client` from the others. A delay of 1 has both branches of
`reConnect()`. Two symbols let a write fall short between them; one symbol
suffices where only the sockets matter. A queue of 2 or 3 holds the
subscriptions together with a pong, or a `"*"` behind a stale message, and on the
signed line what a lost session left (a signature, a subscription, a pong)
before the signature of the next one.
Deadlock is not checked: a process that crashed, or a service that ended, stops.

In `api` one thread uses everything, with a key and without, and the other
constructs clients of its key and of another one: two threads meet in `userMap`
only, so a third writer reaches no entry the second does not. The three accounts
a user can get are a spot account, an isolated margin account and one of a type
`lookup` does not know; asked for are the first two, margin of another pair, and
super-margin. One account opened at any moment makes every list stale once. Two
symbols tell a message per symbol from one in all.

Three connections put one before, one under and one behind the walk, which is
all the list operations distinguish.

The violations are disagreements of code and documentation that came up while
modelling; `PROJECT.json` quotes the lines. `delete_client` shows a client that is
deleted after its loop ended, whose watchdog goes on to reconnect on the freed
context: the README of the SDK has deletion as the way to release a client, and
deletion stops nothing. `lost_update` shows why `prompt` needs its timing
assumption: a turn of the watchdog that overlaps `onOpen` leaves the new session
marked `LINE_DELAY`, and its silence is never noticed.

### Fairness

`DogFairness`: the watchdog is a thread that sleeps a second and goes on, so a
turn that has begun goes on (weak), and a connection that is again and again
there to be looked at is looked at (strong: under `promptService` the moments
between handshakes are when it looks). `ServiceFairness`: a callback that has
begun ends; a pass of `lws_service` serves every socket that is due, so a
handshake that stays pending is decided, a socket told to close is closed and
one that is writable is called back, even if callbacks of others come in
between (strong, per socket). Nothing obliges the server to send or to answer,
or a healthy session to be lost. `FairRequestSpec` adds that `startReq` tests
its condition after every `lws_service`.

`FairSpec` of `SubscriptionClient`: the loop of `startService` and the walk go on
(weak), lws decides handshakes and closes what it was told to (weak), and of the
many turns of a delayed connection one finds `delayInSecond` at zero and
reconnects (strong: the walk comes back to it again and again).

`FairSpec` of `SyncClient`: curl ends every transfer after its timeout (weak
fairness of `Lose`), and a thread that has an answer goes on (weak, `Step`).
The exchange need not answer.

## What is proved

TLAPS checks all of it, for any set of sockets, delay, list of symbols, queue
and flags; the assumptions are the `ASSUME`s of the modules and what a theorem
states.

- `TypeCorrect`: `Spec => []TypeOK`.
- `ClientAlwaysAttached`, `ConnectedAlwaysHasSession`: from the inductive
  invariant `ClientInv`. Neither is inductive alone: while `onOpen` runs, the
  socket it will store must be attached already (`Opening`), and while a loss is
  being handled `connectStatus` must already be `CLOSED` (`Closing`), for then
  `client` is nulled and the socket freed. Most steps are cases of one lemma,
  `ClientUnchanged`.
- `RequestsAuthorised`: without reconnects no topic is written before the
  signature was accepted. `RequestInv` needs that there is one socket
  (`SingleSocket`: the watchdog never gets past `CheckActive`, `WatchdogIdle`),
  that topics are queued only once it is authorised (`TopicsAuthorised`), and
  that a socket starts with nothing (`Fresh`).
- `RequestImplementsSession`: without reconnects every step of a connection is
  a step of `SubscriptionSession` or invisible in it. `ContractInv` is what the
  mapping needs of a connection (one session, which began with nothing); it
  follows from `RequestInv`.
- `AlwaysOneSession` and `ReconnectImplementsSession`: the same with any number of
  reconnects, under `promptService`, the second on public lines. `ReconnectInv`
  says that one socket is in use besides the one whose loss is being handled
  (`SingleLive`), that `CLOSED` leaves at most one that is opening
  (`ClosedIsEmpty`), and that no handshake is under way from the moment a turn of
  the watchdog looked at the connection until it opens a socket itself
  (`TurnAlone`), so that the `CLOSED` it read is still true. The timing assumption
  is used in one step only, `Look`. On a signed line the second does not follow:
  the queue survives a lost session, and so may its subscriptions.
- `CloseAlwaysFinal`: `CloseIsFinal` under `promptService`. `CloseInv` adds to
  `ReconnectInv` that a connection the watchdog has given up has no `client`
  (`DelayedHasNoClient`), so that `close()` for an error that still arrives never
  gets past its first line, and that a session is there while its messages are
  handled (`HandlingHasSession`). `Final` is what holds from `close()` on.

The queue outlives the sessions it is filled for, and `send` asks lws for one
socket at most, the one in `client`. `WebSocketQueue_proofs` and
`WebSocketLine_proofs` treat the two cases of the previous theorems at once,
under `Unhurried`: `promptService`, or no reconnects. `BaseInv` is what they have
in common (an open session has the connection to itself, and none begins while
the watchdog gives one up or opens one); `ClientInv` with `RequestInv`, or with
`CloseInv`, implies it.

- `QueuedAlwaysDue`, `GivenUpAlwaysEnding`: from `DueInv`, over any number of
  sessions. A callback is asked for whatever is queued, but for the steps listed
  in `Unasked`; and while `client` is null, every open session is on its way out,
  with `"*"` in the queue and a callback coming (`Ending`), which is why a message
  sent then needs none of its own. The theorems also assume `Subscribes`: the
  line is signed or there are symbols. Without any, `onOpen` sends nothing, and
  what an earlier session left waits for the next pong; the SDK makes such a
  connection only for an empty list of symbols. Without `Unhurried` both
  properties fail, by the interleaving that `lost_update` shows.
- `NeverTopicBeforeVerdict`: on a signed line that is reconnected, a subscription
  left in the queue may precede the signature of the next session
  (`SubscribedWhenAuthorised` is therefore claimed of lines without reconnects
  only), but none follows it before the server's verdict. `VerdictInv` says so of
  the sockets, `OrderInv` of the queue: a signature in it is of a session whose
  server got none yet, so that nothing of the request joins the queue behind it.
- `ConnectionKeepsLine`: `ImplementsLine`. Two threads write `lineStatus`, `client`
  and the list one field at a time, and the mapping makes one step of `onOpen`, of
  `close()` and of a turn of the watchdog. `AloneInv` and `LineInv` are what it
  needs: a connection that was given up has no handshake before the watchdog's
  next attempt, it is on the list when that attempt comes, and no socket that was
  told to die is given up as well.
- `WatchedImplementsSession`, in `WatchedSession_proofs`.

Of the request client, at any timing, since it does not reconnect:

- `RequestLoopAuthorised`, `RequestLoopImplementsSession`: what `startReq` adds to a
  connection (answers, the callback with `time--`, the loop that ends the service)
  keeps `ClientInv` and `RequestInv` (`ConnectionInvariant`), so that the theorems
  of a connection without reconnects hold of the connection of a request.
- `ReturnComplete`: `startReq` returns for its counter only when every symbol was
  answered. `CountInv` says that `time` and the answers add up, with one to
  spare while an answer is in the callback.

Of a client with any set of connections:

- `AlwaysWatchedOnce`, `OpenAlwaysWatched`, and `TypeCorrect` of
  `SubscriptionClient`, from `ListInv`. It adds
  `WalkListed` to them: the walk is on the list unless its node was erased under
  it, without which the next node would not be one of the list. The lemmas
  `AppendFacts` and `RemoveAtFacts` say what `push_back` and `remove` do to a
  list without duplicates.
- `ConnectionsKeepLines`: `ImplementsLines`. `SessionsInv` says that whoever has a
  session, or a `lineStatus` the watchdog acts on, had its first attempt, which
  does not come back (`AttemptedStays`), because `startService` comes past every
  connection once; and that the sessions followed are on a live context
  (`SessionsOnContext`, a lemma only: it says what the module leaves to `crashed`).
  `WalkInv` says that whoever is watched, or under the walk, had its first attempt
  too, and that a node erased under the walk is of a connection whose `lineStatus`
  gives the watchdog nothing to act on.

For any threads, keys, clients, accounts, menus of operations and feeds
(`SyncClient_proofs`):

- `Invariant`: `Inv` relates a call to its answer and both to the map (`CallInv`,
  `EffectInv` and `UserInv`, over `TypeOK` and the form of a call, `Shape`). An entry
  is a past list (`SnapshotIsPast`) only because the answer of `getAccounts`
  under way already is one, and a client's user is known only because entries
  never become empty, for which the answer must have at least one account, as
  the exchange has. `TypeCorrect`, `SnapshotsPast` and `UsersKnown` follow.
- `OrdersReachTheirAccount`: from `Invariant`, the lookup's lemma (what
  `getAccount` returns matches and is in the list), and `lookup` being the
  identity on the types it knows.
- `CommandsAlwaysSpecific`: the lemma behind it goes through the 25 commands of
  the catalogue: whatever arguments a builder's checks let pass, no account, symbol,
  currency, amount, address, id or action that narrows the command is dropped. A
  builder that loses a check fails this proof. The client order id is excepted, by
  name: `createOrder` may leave it out, and `cancelOrderByClientOrderId` sends none
  for an empty one, unchecked.
- `CompositesWhole`: the requests still to be sent, those sent and the parts
  collected add up, for a list of accounts of any length.
- `FeedsUnderstood`, `LoopsWaitForAll`: from `FeedInvariant`, `time` and the
  answers adding up to the messages, and a lemma over the 21 builders.
- `CallsImplementRemoteCall`: the refinement, step by step; it needs that a lost
  answer leaves `effect` at zero with the request on the wire, and that no
  command is followed by another request of the same call.

Liveness is checked by TLC only, under the fairness above, since neither fairness
nor `ENABLED` is in the prover's reach: `SilentSessionEnds`,
`OpenSessionSubscribes`, `LostSessionIsRetried`, `QueueDrains`,
`AnswersEndRequest`, `LostIsReconnected` and `CallsEnd`. Every other property of a
run that passes is proved, for every value of the constants the theorem allows.
What no theorem covers: a connection that reconnects without `promptService`,
beyond `TypeCorrect`, `ClientAlwaysAttached` and `ConnectedAlwaysHasSession`
(`lost_update` is what happens then), and `ImplementsSession` of a signed line
that is reconnected, which does not hold.

## Not modelled

- The text of queries, bodies and signatures (`UrlParamsBuilder`,
  `ApiSignature`), of channels and of their parsers, and the fields of events
  and answers: conversions without state, abstracted to what their callers can
  tell apart. `InputChecker` is there to the precision of three values.
- `printf`, `Logger`, the clock, `GetHost`, the record types, the enums' tables.
- curl's handles and its global state, which `callSync` takes and releases per
  call: nothing between the two throws;
  memory below the level of one operation on a `std::map` or `std::list`.
- rapidjson, libwebsockets, OpenSSL, zlib, curl: third-party code, external.

Some 7,500 of the repository's 35,000 lines of implementation are the SDK's own
logic; most of the rest is the vendored rapidjson, then record types, examples
and tests. The definitions stand for most of the former and none of the latter.
The hazards of the parts not modelled are in `PROJECT.json` with a note.

## Plan

1. Done: `SubscriptionSession`, `WebSocketConnection`, `WsRequestClient`, and
   their first theorems.
2. Done: `SubscriptionClient` with the watchdog's list, and its safety proved.
3. Done: `RestApi`, `WebSocketApi`, `RemoteCall`, `SyncClient`, and their safety
   proved.
4. Done: with reconnects, one session at a time, the refinement and the finality
   of `close()`, proved under the timing assumption.
5. Done: the queue across sessions, `WatchedSession` with its two implementations,
   and the request loop, proved.
6. `UrlParamsBuilder` and `ApiSignature` as pure operators over small alphabets:
   what is signed is what is sent; `ChannelParser` inverse to `Channels`.
