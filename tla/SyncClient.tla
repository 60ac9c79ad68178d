----------------------------- MODULE SyncClient ------------------------------
(***************************************************************************)
(* Threads of a program that use clients of the SDK against one exchange:  *)
(* the blocking calls of SyncClientImpl through RestApiInvoke::callSync,   *)
(* the constructors that fill AccountsInfoMap, and the service loops whose *)
(* parsers read it.  The map is one per process and has no lock.           *)
(*                                                                         *)
(* A call is a request after the other; a request is checked and signed    *)
(* (Refuse), sent (Issue), decided by the exchange or lost (Serve, Reject, *)
(* Lose), and then parsed.  The exchange moves on meanwhile: it opens      *)
(* accounts, and may do later what a call gave up.                         *)
(***************************************************************************)
EXTENDS RestApi, WebSocketApi, SequencesExt

CONSTANTS Thread,
          Keys, NoKey,     \* access keys; a client made without one
          Access,          \* thread -> the keys its clients are made with
          Menu, Listens,   \* thread -> the operations, the feeds it uses
          Kind,            \* the accounts a user gets, in this order
          Wanted,          \* the types and subtypes asked for
          MaxSymbols,      \* bound: symbols of a feed
          MaxMoves,        \* bound: accounts opened while the program runs
          NoAccount

ASSUME KeyAssumption == NoKey \notin Keys /\ "none" \notin Keys \cup {NoKey}
ASSUME BoundAssumption == MaxMoves \in Nat /\ MaxSymbols \in Nat
ASSUME KindAssumption == Kind \in Seq([type : STRING, subtype : STRING]) /\ Kind # <<>>

VARIABLES
  opened,    \* the exchange: how many accounts the user of a key has
  moves,     \* how often it moved
  userMap,   \* AccountsInfoMap: the accounts by key; an empty list is no entry
  alive,     \* the process was not aborted
  client,    \* the key of the client a thread uses, "none" before it has one
  pc,        \* "idle", "sending", "answered", or "service" in a service loop
  key, op, wanted, todo, \* of the call: key, operation, account wanted, requests left
  request,   \* the RestApi object under way
  wire,      \* the exchange may still carry it out
  sent, parts, \* requests of the call, what those before the last one returned
  effect,    \* how often the command of the last call was carried out
  reply, result, feed

exchange == <<opened, moves>>
process == <<userMap, alive, client>>
call == <<key, op, wanted, todo, request, sent, parts>>
ends == <<effect, result>>
vars == <<exchange, process, pc, call, wire, ends, reply, feed>>

Account == [key : Keys, index : 1 .. Len(Kind)]

\* Mutant: the accounts are counted from 0.
AccountsFromZero(k, m) == [i \in 1 .. m |-> [key |-> k, index |-> i - 1]]

Accounts(k, m) == [i \in 1 .. m |-> [key |-> k, index |-> i]]

AccountType == {"spot", "margin", "otc", "point", "minepool", "etf", "agency", "super-margin"}

\* Of a type it does not know, lookup makes the last one of its map.
lookup(type) == IF type \in AccountType THEN type ELSE "super-margin"

\* Mutant: the subtype never counts.
MatchesType(a, w) == lookup(Kind[a.index].type) = w.type

\* getAccount(accountType, subtype): the subtype counts for margin only.
Matches(a, w) ==
  /\ lookup(Kind[a.index].type) = w.type
  /\ w.type = "margin" => Kind[a.index].subtype = w.subtype

getAccount(list, w) ==
  IF \E i \in DOMAIN list : Matches(list[i], w)
  THEN list[CHOOSE i \in DOMAIN list :
              Matches(list[i], w) /\ \A j \in 1 .. i - 1 : ~ Matches(list[j], w)]
  ELSE NoAccount

Plan(o) ==
  CASE o = "client" -> <<"getAccounts">>
    [] o = "getLastTrade" -> <<"getHistoricalTrade">>
    [] o = "getExchangeInfo" -> <<"getSymbols", "getCurrencies">>
    [] o = "getLastTradeAndBestQuote" -> <<"getBestQuote", "getHistoricalTrade">>
    [] o \in {"getAccountBalance", "getAccountBalanceOfType", "getAccountBalanceOfSubtype"} ->
         <<"getAccounts">>
    [] OTHER -> <<o>>

Composite ==
  {"client", "getLastTrade", "getExchangeInfo", "getLastTradeAndBestQuote", "getAccountBalance",
   "getAccountBalanceOfType", "getAccountBalanceOfSubtype", "getSystemStatus"}
Operations == (Operation \ {"getAccounts", "getBalance"}) \cup Composite

summary == createRequestByGet("text", NoChecks, {}, {}, "value")
RequestOf(name) == IF name = "getSystemStatus" THEN summary ELSE Builder[name]

(***************************************************************************)
(* Arguments: the usual ones, or one of them unusual.  An operation that is*)
(* more than a request of its own hands them on to each.  All that is kept *)
(* of them is whether the checks let them pass, and which of the arguments *)
(* that narrow what a request is about are left out of it.                 *)
(***************************************************************************)
Usual(r) == [a \in Arguments(r) |-> IF "good" \in Allowed(r, a) THEN "good" ELSE "none"]
Inputs(r) ==
  {Usual(r)} \cup {[Usual(r) EXCEPT ![a] = v] : a \in Arguments(r) \ {"account"}, v \in Value}

Selector ==
  {"account", "symbol", "currency", "amount", "address", "etfSymbol", "orderId", "loanId",
   "withdrawId", "ids", "subUid", "action", "clientOrderId"}

Checked(r, args) == \A a \in Arguments(r) : args[a] \in Allowed(r, a)
Lacks(r, args) == {a \in (r.params \cup r.path) \cap Selector : a \in r.path /\ args[a] = "none"}
                    \cup ((r.params \cap Selector) \ put(r, args))

\* Without "in" or "out" etfSwap has no request and writes through a wild pointer.
Wild(o, args) == o = "etfSwap" /\ args.swapType # "good"

ASSUME UseAssumption ==
  \A t \in Thread : Menu[t] \subseteq Operations \ {"client"} /\ Listens[t] \subseteq DOMAIN Feeds

First == [o \in Operations |-> RequestOf(Head(Plan(o)))]
Passing == [o \in Operations |-> {args \in Inputs(First[o]) : Checked(First[o], args)}]
Faulty == {o \in Operations : Passing[o] # Inputs(First[o])}
Lacking ==
  [o \in Operations |->
     IF First[o].method = "GET" THEN {{}}
     ELSE {Lacks(First[o], args) : args \in {x \in Passing[o] : ~ Wild(o, x)}}]

AccountFor(k, r, w) ==
  IF "account" \in r.params /\ k \in Keys THEN getAccount(userMap[k], w) ELSE NoAccount

\* What a builder throws once the checks are passed: the keys come last.
Refusal(k, r, w) ==
  IF "account" \in r.params
  THEN IF k = NoKey THEN "RuntimeError"
       ELSE IF userMap[k] = <<>> THEN "RuntimeError"
       ELSE IF AccountFor(k, r, w) = NoAccount THEN "AccountError" ELSE "none"
  ELSE IF r.signed /\ k = NoKey THEN "KeyMissing" ELSE "none"

NoWish == [type |-> "none", subtype |-> "none"]
NoRequest == [method |-> "none", form |-> "none", answer |-> "none",
              account |-> NoAccount, lacks |-> {}]
NoReply == [body |-> "lost", n |-> 0, about |-> 0]
NoFeed == [channel |-> "none", line |-> "none", lookup |-> "none", request |-> FALSE,
           messages |-> 0, time |-> 0, answered |-> 0]
Nothing == [kind |-> "none", command |-> FALSE]

-----------------------------------------------------------------------------
Init ==
  /\ opened = [k \in Keys |-> 1] /\ moves = 0
  /\ userMap = [k \in Keys |-> <<>>] /\ alive = TRUE
  /\ client = [t \in Thread |-> "none"]
  /\ pc = [t \in Thread |-> "idle"]
  /\ key = [t \in Thread |-> NoKey]
  /\ op = [t \in Thread |-> "none"] /\ wanted = [t \in Thread |-> NoWish]
  /\ todo = [t \in Thread |-> <<>>]
  /\ request = [t \in Thread |-> NoRequest] /\ wire = [t \in Thread |-> FALSE]
  /\ sent = [t \in Thread |-> 0] /\ parts = [t \in Thread |-> <<>>]
  /\ effect = [t \in Thread |-> 0] /\ result = [t \in Thread |-> Nothing]
  /\ reply = [t \in Thread |-> NoReply]
  /\ feed = [t \in Thread |-> NoFeed]

-----------------------------------------------------------------------------
(* Sending.  callSync blocks until curl is done.                           *)

Issue(t, r, account, lacks) ==
  /\ pc' = [pc EXCEPT ![t] = "sending"]
  /\ request' = [request EXCEPT ![t] =
       [method |-> r.method, form |-> r.form, answer |-> r.answer,
        account |-> account, lacks |-> lacks]]
  /\ wire' = [wire EXCEPT ![t] = TRUE]

\* Operation o of a client with key k gets as far as its first request.
Begin(t, k, o, w) ==
  /\ alive /\ pc[t] = "idle" /\ Refusal(k, First[o], w) = "none"
  /\ \E l \in Lacking[o] : Issue(t, First[o], AccountFor(k, First[o], w), l)
  /\ key' = [key EXCEPT ![t] = k]
  /\ op' = [op EXCEPT ![t] = IF o \in Composite THEN o ELSE "one"]
  /\ wanted' = [wanted EXCEPT ![t] = w]
  /\ todo' = [todo EXCEPT ![t] = Tail(Plan(o))]
  /\ sent' = [sent EXCEPT ![t] = 1]
  /\ effect' = [effect EXCEPT ![t] = 0] /\ result' = [result EXCEPT ![t] = Nothing]
  /\ UNCHANGED <<exchange, process, parts, reply, feed>>

\* A client with a key: its constructor asks for the accounts.  One without.
Construct(t) == \E k \in Access[t] \cap Keys : Begin(t, k, "client", NoWish)

ConstructKeyless(t) ==
  /\ alive /\ pc[t] = "idle" /\ NoKey \in Access[t] /\ client[t] # NoKey
  /\ client' = [client EXCEPT ![t] = NoKey]
  /\ UNCHANGED <<exchange, userMap, alive, pc, call, wire, ends, reply, feed>>

\* The account a call is about, where it is about one.
Wishes(o) ==
  IF "account" \in First[o].params
       \/ o \in {"getAccountBalanceOfType", "getAccountBalanceOfSubtype"}
  THEN Wanted ELSE {NoWish}

Call(t) ==
  /\ client[t] # "none"
  /\ \E o \in Menu[t] : \E w \in Wishes(o) : Begin(t, client[t], o, w)

\* The builder throws, before callSync.
Refuse(t) ==
  /\ alive /\ pc[t] = "idle" /\ client[t] # "none"
  /\ \E o \in Menu[t] : \E w \in Wishes(o) :
       \E x \in {Refusal(client[t], First[o], w)} \cup (IF o \in Faulty THEN {"InputError"} ELSE {}) :
         /\ x # "none"
         /\ result' = [result EXCEPT ![t] = [kind |-> x, command |-> First[o].method = "POST"]]
  /\ effect' = [effect EXCEPT ![t] = 0] /\ wire' = [wire EXCEPT ![t] = FALSE]
  /\ UNCHANGED <<exchange, process, pc, call, reply, feed>>

\* The process ends.
Abort ==
  /\ alive' = FALSE
  /\ UNCHANGED <<exchange, userMap, client, pc, call, wire, ends, reply, feed>>

SwapNowhere(t) ==
  /\ alive /\ pc[t] = "idle" /\ client[t] # "none"
  /\ \E o \in Menu[t] : \E args \in Passing[o] : Wild(o, args)
  /\ Abort

-----------------------------------------------------------------------------
(* The exchange.                                                           *)

Move(k) ==
  /\ alive /\ moves < MaxMoves /\ opened[k] < Len(Kind)
  /\ moves' = moves + 1 /\ opened' = [opened EXCEPT ![k] = @ + 1]
  /\ UNCHANGED <<process, pc, call, wire, ends, reply, feed>>

Changes(t) == request[t].method = "POST"

\* What an answer has, as far as its parser depends on it: how many entries, and
\* the account of one of them, 0 if there is none.
Contents(t) ==
  LET own == IF key[t] \in Keys THEN opened[key[t]] ELSE 0 IN
  CASE request[t].answer = "value" -> {<<1, 0>>}
    [] request[t].answer = "accounts" -> {<<own, 0>>}
    [] request[t].answer = "order" -> {<<1, a>> : a \in 1 .. own}
    [] request[t].answer \in {"orders", "loans"} -> {<<1, a>> : a \in 0 .. own}
    [] OTHER -> {<<n, 0>> : n \in 0 .. 1}

\* The exchange does what it is asked and says so.
Serve(t) ==
  /\ alive /\ pc[t] = "sending"
  /\ \E c \in Contents(t) :
       reply' = [reply EXCEPT ![t] = [body |-> "ok", n |-> c[1], about |-> c[2]]]
  /\ effect' = [effect EXCEPT ![t] = IF Changes(t) THEN @ + 1 ELSE @]
  /\ wire' = [wire EXCEPT ![t] = FALSE]
  /\ pc' = [pc EXCEPT ![t] = "answered"]
  /\ UNCHANGED <<exchange, process, call, result, feed>>

\* It refuses: an error, or one without the fields that explain it.
Reject(t) ==
  /\ alive /\ pc[t] = "sending"
  /\ \E b \in {"error", "bare"} : reply' = [reply EXCEPT ![t] = [NoReply EXCEPT !.body = b]]
  /\ wire' = [wire EXCEPT ![t] = FALSE]
  /\ pc' = [pc EXCEPT ![t] = "answered"]
  /\ UNCHANGED <<exchange, process, call, ends, feed>>

\* The 20 seconds of CURLOPT_TIMEOUT pass, the connection fails, or something on
\* the way answers in its place: the exchange may still do what it was asked.
Lose(t) ==
  /\ alive /\ pc[t] = "sending"
  /\ reply' = [reply EXCEPT ![t] = NoReply]
  /\ wire' = [wire EXCEPT ![t] = Changes(t)]
  /\ pc' = [pc EXCEPT ![t] = "answered"]
  /\ UNCHANGED <<exchange, process, call, ends, feed>>

\* It does, after the client stopped to wait.  Nobody follows it beyond the next
\* call or feed of the thread.
Late(t) ==
  /\ alive /\ wire[t] /\ pc[t] # "sending"
  /\ effect' = [effect EXCEPT ![t] = @ + 1]
  /\ wire' = [wire EXCEPT ![t] = FALSE]
  /\ UNCHANGED <<exchange, process, pc, call, result, reply, feed>>

-----------------------------------------------------------------------------
(* The answer.  callSync parses it, checks it and hands it to the parser   *)
(* of the request.                                                         *)

\* Mutant: an answer without fields is taken for a refusal.
LostIsRefused(form, body) ==
  IF body = "ok" THEN {"ok"} ELSE IF body = "bare" THEN {"InputError"} ELSE {"ExecError"}

\* Without an answer, or with one that is not JSON, the document is null: with
\* assertions its first look ends the process, without them it has no fields, as
\* the JSON of something on the way has none that is known.
checkResponse(form, body) ==
  CASE body = "ok"    -> {"ok"}
    [] body = "error" -> {"ExecError"}
    [] body = "bare"  -> {IF form = "code" THEN "RuntimeError" ELSE "InputError"}
    [] body = "lost"  -> {"RuntimeError", "crash"}

Known(k, about) == about = 0 \/ \E i \in DOMAIN userMap[k] : userMap[k][i].index = about

\* "orders" asks the array for a field, which assertions forbid.
jsonParser(answer, n, known) ==
  CASE answer = "first"   -> IF n > 0 THEN {"return"} ELSE {"crash"}
    [] answer = "entries" -> IF n > 0 THEN {"return"} ELSE {"garbage", "crash"}
    [] answer = "skewed"  -> IF n = 0 THEN {"return"} ELSE {"return", "garbage", "crash"}
    [] answer = "ledger"  -> IF n = 0 THEN {"return"} ELSE {"StdError"}
    [] answer \in {"order", "loans"} -> IF known THEN {"return"} ELSE {"InputError"}
    [] answer = "orders"  -> IF known THEN {"return", "crash"} ELSE {"InputError"}
    [] OTHER -> {"return"}

\* What callSync does.  getSystemStatus returns whatever came.
Outcome(t) ==
  IF op[t] = "getSystemStatus" THEN {"text"}
  ELSE IF reply[t].body # "ok" THEN checkResponse(request[t].form, reply[t].body)
  ELSE jsonParser(request[t].answer, reply[t].n,
                  key[t] \in Keys => Known(key[t], reply[t].about))

\* The accounts getAccountBalance picks from the list.
Picked(t) ==
  {i \in 1 .. reply[t].n :
     \/ op[t] = "getAccountBalance"
     \/ /\ lookup(Kind[i].type) = wanted[t].type
        /\ op[t] = "getAccountBalanceOfSubtype" => Kind[i].subtype = wanted[t].subtype}

Picks(t) ==
  /\ op[t] \in {"getAccountBalance", "getAccountBalanceOfType", "getAccountBalanceOfSubtype"}
  /\ request[t].answer = "accounts"

\* Mutant: the loop over the accounts starts at the second.
RestOfTheList(t) ==
  IF ~ Picks(t) THEN todo[t]
  ELSE IF op[t] = "getAccountBalance" THEN [i \in 1 .. reply[t].n - 1 |-> "getBalance"]
  ELSE IF Picked(t) # {} THEN <<"getBalance">> ELSE <<>>

\* The requests that are left: one getBalance for the first of them, or for each.
Rest(t) ==
  IF ~ Picks(t) THEN todo[t]
  ELSE IF op[t] = "getAccountBalance" THEN [i \in 1 .. reply[t].n |-> "getBalance"]
  ELSE IF Picked(t) # {} THEN <<"getBalance">> ELSE <<>>

Unmatched(t) == op[t] # "getAccountBalance" /\ Picks(t) /\ Picked(t) = {}

\* getLastTrade of a list without trades.
NoTrade(t) ==
  op[t] \in {"getLastTrade", "getLastTradeAndBestQuote"} /\ todo[t] = <<>> /\ reply[t].n = 0

\* An operation is over, its objects are gone.
Finish(t, kind) ==
  /\ pc' = [pc EXCEPT ![t] = "idle"]
  /\ result' = [result EXCEPT ![t] = [kind |-> kind, command |-> Changes(t)]]
  /\ key' = [key EXCEPT ![t] = NoKey] /\ op' = [op EXCEPT ![t] = "none"]
  /\ wanted' = [wanted EXCEPT ![t] = NoWish] /\ todo' = [todo EXCEPT ![t] = <<>>]
  /\ request' = [request EXCEPT ![t] = NoRequest]
  /\ sent' = [sent EXCEPT ![t] = 0] /\ parts' = [parts EXCEPT ![t] = <<>>]
  /\ reply' = [reply EXCEPT ![t] = NoReply]
  /\ UNCHANGED <<exchange, alive, wire, effect, feed>>

\* Mutant: a constructor that fails leaves a client behind.
FailConstructs(t) ==
  /\ alive /\ pc[t] = "answered"
  /\ \E x \in Outcome(t) \ {"return", "crash"} : Finish(t, x)
  /\ client' = [client EXCEPT ![t] = IF op[t] = "client" THEN key[t] ELSE @]
  /\ UNCHANGED userMap

\* An exception leaves callSync, or garbage is returned.
Fail(t) ==
  /\ alive /\ pc[t] = "answered"
  /\ \E x \in Outcome(t) \ {"return", "crash"} : Finish(t, x)
  /\ UNCHANGED <<userMap, client>>

\* The process ends, in a parser or behind getAccountBalance(type), which has no
\* return for a type that is not there.
Die(t) ==
  /\ alive /\ pc[t] = "answered"
  /\ \/ "crash" \in Outcome(t)
     \/ "return" \in Outcome(t) /\ Unmatched(t) /\ op[t] = "getAccountBalanceOfType"
  /\ Abort

\* Mutant: a query without an answer is sent again.
NextRequestOrAgain(t) ==
  /\ alive /\ pc[t] = "answered"
  /\ \/ /\ reply[t].body = "lost" /\ ~ Changes(t)
        /\ UNCHANGED <<request, todo, sent, parts>>
     \/ /\ "return" \in Outcome(t) /\ Rest(t) # <<>>
        /\ request' = [request EXCEPT ![t].answer = RequestOf(Head(Rest(t))).answer]
        /\ todo' = [todo EXCEPT ![t] = Tail(Rest(t))]
        /\ sent' = [sent EXCEPT ![t] = @ + 1]
        /\ parts' = [parts EXCEPT ![t] = Append(@, reply[t].n)]
  /\ pc' = [pc EXCEPT ![t] = "sending"] /\ wire' = [wire EXCEPT ![t] = TRUE]
  /\ UNCHANGED <<exchange, process, key, op, wanted, ends, reply, feed>>

\* callSync returns, and the operation goes on with its next request, ...
NextRequest(t) ==
  /\ alive /\ pc[t] = "answered" /\ "return" \in Outcome(t) /\ Rest(t) # <<>>
  /\ Issue(t, RequestOf(Head(Rest(t))), NoAccount, {})
  /\ todo' = [todo EXCEPT ![t] = Tail(Rest(t))]
  /\ sent' = [sent EXCEPT ![t] = @ + 1]
  /\ parts' = [parts EXCEPT ![t] = Append(@, reply[t].n)]
  /\ reply' = [reply EXCEPT ![t] = NoReply]
  /\ UNCHANGED <<exchange, process, key, op, wanted, ends, feed>>

\* ... or ends, ...
Conclude(t) ==
  /\ alive /\ pc[t] = "answered" /\ "return" \in Outcome(t) /\ Rest(t) = <<>>
  /\ op[t] # "client"
  /\ Finish(t, IF NoTrade(t) THEN "InputError"
               ELSE IF ~ Unmatched(t) THEN "return"
               ELSE IF op[t] = "getAccountBalanceOfType" THEN "garbage" ELSE "AccountError")
  /\ UNCHANGED <<userMap, client>>

\* Mutant: the map holds one user, whoever asks.
UpdateAll(t) ==
  /\ alive /\ pc[t] = "answered" /\ "return" \in Outcome(t) /\ op[t] = "client"
  /\ userMap' = [k \in Keys |-> Accounts(key[t], reply[t].n)]
  /\ client' = [client EXCEPT ![t] = key[t]]
  /\ Finish(t, "return")

\* ... or is a constructor, which puts the accounts into the map: updateUserInfo.
Update(t) ==
  /\ alive /\ pc[t] = "answered" /\ "return" \in Outcome(t) /\ op[t] = "client"
  /\ userMap' = [userMap EXCEPT ![key[t]] = Accounts(key[t], reply[t].n)]
  /\ client' = [client EXCEPT ![t] = key[t]]
  /\ Finish(t, "return")

-----------------------------------------------------------------------------
(* Feeds.  The thread that starts one is its service thread until a parser *)
(* throws or all answers are there; the connection below is described in   *)
(* WebSocketConnection, and closes itself after the last answer.           *)

\* WsRequestClientImpl does not start requestCandlestickEvent.
Listen(t) ==
  /\ alive /\ pc[t] = "idle" /\ client[t] # "none"
  /\ \E f \in Listens[t] \ {"requestCandlestickEvent"}, n \in 1 .. MaxSymbols :
       LET r == Feeds[f] IN
       /\ r.isNeedSignature => client[t] # NoKey
       /\ feed' = [feed EXCEPT ![t] =
            [channel |-> r.channel, line |-> path(r), lookup |-> r.lookup,
             request |-> r.request, messages |-> Messages(r, n), time |-> Time(r, n),
             answered |-> 0]]
  /\ pc' = [pc EXCEPT ![t] = "service"]
  /\ effect' = [effect EXCEPT ![t] = 0] /\ wire' = [wire EXCEPT ![t] = FALSE]
  /\ result' = [result EXCEPT ![t] = Nothing]
  /\ UNCHANGED <<exchange, process, call, reply>>

\* The accounts an event may be about.
About(t) ==
  CASE feed[t].lookup = "none" -> {0}
    [] feed[t].lookup = "one"  -> 1 .. opened[client[t]]
    [] feed[t].lookup = "list" -> 0 .. opened[client[t]]

\* The server understood the messages and has an event or an answer.
Speaks(t) ==
  /\ alive /\ pc[t] = "service" /\ Reads(feed[t].line) = feed[t].channel
  /\ feed[t].request => feed[t].answered < feed[t].messages

implCallback(t) ==
  /\ Speaks(t) /\ feed[t].request
  /\ \E a \in About(t) : feed[t].lookup # "none" => Known(client[t], a)
  /\ feed' = [feed EXCEPT ![t].answered = @ + 1, ![t].time = @ - 1]
  /\ UNCHANGED <<exchange, process, pc, call, wire, ends, reply>>

Leave(t) ==
  /\ pc' = [pc EXCEPT ![t] = "idle"] /\ feed' = [feed EXCEPT ![t] = NoFeed]
  /\ UNCHANGED <<exchange, process, call, wire, ends, reply>>

\* An account that is not in the map: the exception leaves lws_service.
Throw(t) ==
  /\ Speaks(t) /\ feed[t].lookup # "none" /\ \E a \in About(t) : ~ Known(client[t], a)
  /\ Leave(t)

LeaveLoop(t) ==
  /\ alive /\ pc[t] = "service" /\ feed[t].request /\ feed[t].time = 0
  /\ Leave(t)

-----------------------------------------------------------------------------
Step(t) == NextRequest(t) \/ Conclude(t) \/ Update(t) \/ Fail(t) \/ Die(t)

Next ==
  \/ \E t \in Thread :
       \/ Construct(t) \/ ConstructKeyless(t) \/ Call(t) \/ Refuse(t) \/ SwapNowhere(t)
       \/ Serve(t) \/ Reject(t) \/ Lose(t) \/ Late(t) \/ Step(t)
       \/ Listen(t) \/ implCallback(t) \/ Throw(t) \/ LeaveLoop(t)
  \/ \E k \in Keys : Move(k)

Spec == Init /\ [][Next]_vars

\* CURLOPT_TIMEOUT ends every transfer; a thread goes on.
FairSpec == Spec /\ \A t \in Thread : WF_vars(Lose(t)) /\ WF_vars(Step(t))

-----------------------------------------------------------------------------
(* Properties.                                                             *)

Busy == {"sending", "answered"}
Bodies == {"ok", "error", "bare", "lost"}
Results == {"none", "return", "text", "garbage", "InputError", "AccountError", "KeyMissing",
            "RuntimeError", "ExecError", "StdError"}

TypeOK ==
  /\ opened \in [Keys -> 1 .. Len(Kind)] /\ moves \in 0 .. MaxMoves
  /\ userMap \in [Keys -> Seq(Account)] /\ alive \in BOOLEAN
  /\ client \in [Thread -> Keys \cup {NoKey, "none"}]
  /\ pc \in [Thread -> {"idle", "sending", "answered", "service"}]
  /\ key \in [Thread -> Keys \cup {NoKey}]
  /\ wire \in [Thread -> BOOLEAN] /\ effect \in [Thread -> 0 .. 1]
  /\ sent \in [Thread -> Nat] /\ parts \in [Thread -> Seq(Nat)]
  /\ result \in [Thread -> [kind : Results, command : BOOLEAN]]
  /\ reply \in [Thread -> [body : Bodies, n : Nat, about : Nat]]

\* AccountsInfoMap.h: the entry of a key is the list of its own user's accounts, as
\* it was at some time: threads that construct clients of several keys, while
\* accounts are opened, never mix the lists or invent an account.
SnapshotIsPast ==
  \A k \in Keys : \E m \in 0 .. opened[k] : userMap[k] = Accounts(k, m)

\* AccountsInfoMap.cpp:14-29: whatever constructors of other threads fail or are
\* under way, getUser finds the user of every client that has a key.
UserIsKnown == \A t \in Thread : client[t] \in Keys => userMap[client[t]] # <<>>

\* RestApiImpl.cpp createOrder, getOpenOrders, cancelOpenOrders: the account id sent is
\* one of the caller's user, of the type asked for and, in isolated margin, of the
\* pair asked for.  (Any type unknown to lookup passes for super-margin.)
OrderReachesItsAccount ==
  \A t \in Thread : pc[t] = "sending" /\ request[t].account # NoAccount =>
    LET a == request[t].account IN
    /\ a.key = key[t] /\ a.index <= opened[key[t]]
    /\ wanted[t].type # "super-margin" => Kind[a.index].type = wanted[t].type
    /\ wanted[t].type = "margin" => Kind[a.index].subtype = wanted[t].subtype

\* UrlParamsBuilder.h:82-128 drops a parameter that is zero or empty without a word,
\* and the exchange reads its absence as "all": no command goes out without the
\* account, symbol, currency, amount or id that narrows it, for the checks of its
\* builder were made for it.  The client order id is the exception: an order may do
\* without, and cancelOrderByClientOrderId (RestApiImpl.cpp:1064) does not check it.
CommandsAreSpecific ==
  \A t \in Thread :
    pc[t] = "sending" /\ Changes(t) => request[t].lacks \subseteq {"clientOrderId"}

\* SyncClientImpl.cpp:63-70, 117-160: what is put together from several requests is
\* returned only when each of them was answered: both halves, and in
\* getAccountBalance a balance for every account of the list.
Whole(t) ==
  /\ reply[t].body = "ok" /\ Len(parts[t]) + 1 = sent[t]
  /\ op[t] \in {"getExchangeInfo", "getLastTradeAndBestQuote"} => sent[t] = 2
  /\ op[t] = "getAccountBalance" => sent[t] = 1 + Head(Append(parts[t], reply[t].n))
  /\ op[t] \in {"getAccountBalanceOfType", "getAccountBalanceOfSubtype"} => sent[t] = 2
CompositeIsWhole ==
  [][\A t \in Thread : pc[t] = "answered" /\ pc'[t] = "idle" /\ result'[t].kind = "return"
       => Whole(t)]_vars

\* WebSocketConnection.cpp:55-66 and WebSocketApiImpl.cpp: the two flags of a builder,
\* which choose the line, and the channel it writes agree: the server of the line
\* reads what the connection sends.
FeedIsUnderstood ==
  \A t \in Thread : pc[t] = "service" => Reads(feed[t].line) = feed[t].channel

\* WebSocketApiImpl.cpp:554-936: time of a request is its number of messages, so that
\* startReq leaves its loop with every symbol answered, not before.
LoopWaitsForAll ==
  \A t \in Thread : pc[t] = "service" /\ feed[t].request /\ feed[t].time = 0 =>
    feed[t].answered = feed[t].messages

\* RestApiInvoke.h:106: CURLOPT_TIMEOUT bounds every request, and no operation
\* sends without end: a call comes back, unless the process was aborted.
CallsEnd == \A t \in Thread : pc[t] \in Busy ~> pc[t] \notin Busy \/ ~ alive

(***************************************************************************)
(* What the thread knows of a command: a return says it was done, an error *)
(* of the client's own or of the exchange that it was not.                 *)
(***************************************************************************)
Phase == [t \in Thread |-> IF pc[t] \in Busy THEN "open" ELSE "idle"]

Verdict(r) ==
  CASE r.kind = "none" -> "none"
    [] r.command /\ r.kind = "return" -> "done"
    [] r.command /\ r.kind \in {"InputError", "AccountError", "KeyMissing", "ExecError"} ->
         "refused"
    [] OTHER -> "unknown"

Remote == INSTANCE RemoteCall WITH phase <- Phase, effect <- effect,
                                   verdict <- [t \in Thread |-> Verdict(result[t])]

\* RestApiInvoke.h:67-126: the code of curl_easy_perform is dropped, and still a command
\* whose answer was lost never returns as if it was done, nor fails as if it was
\* refused; and it is sent once.
ImplementsRemoteCall == Remote!Spec
=============================================================================
