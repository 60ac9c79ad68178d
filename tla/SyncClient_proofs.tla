------------------------- MODULE SyncClient_proofs --------------------------
(***************************************************************************)
(* Proofs about SyncClient, for any set of threads and keys, any menus,    *)
(* accounts and bounds its assumptions allow.  What the catalogues say of  *)
(* every builder comes first; then the inductive invariant Inv, and the    *)
(* properties, each from Inv and an invariant of its own where it needs    *)
(* one.  A step is a Turn of one thread, which leaves the others as they   *)
(* are (Others), or one of the exchange, or the end of the process (Quiet).*)
(***************************************************************************)
EXTENDS SyncClient, SequenceTheorems, WellFoundedInduction, TLAPS

-----------------------------------------------------------------------------
(* The catalogues.                                                         *)

\* A feed whose channel is read on its line, and whose time is its messages.
Sound(r) ==
  /\ Reads(path(r)) = r.channel
  /\ r.request => \/ r.each /\ r.time = "symbols"
                  \/ ~ r.each /\ r.time = "one"

\* Every builder of WebSocketApiImpl is sound.
LEMMA FeedFacts == \A f \in DOMAIN Feeds : Sound(Feeds[f])
<1> DEFINE Lookup == {"none", "one", "list"}
<1>1. \A each \in BOOLEAN, l \in Lookup : Sound(Subscription("market", FALSE, FALSE, each, l))
  BY DEF Sound, Reads, path, Subscription
<1>2. \A each \in BOOLEAN, l \in Lookup : Sound(Subscription("op", TRUE, FALSE, each, l))
  BY DEF Sound, Reads, path, Subscription
<1>3. \A each \in BOOLEAN, l \in Lookup : Sound(Subscription("action", TRUE, TRUE, each, l))
  BY DEF Sound, Reads, path, Subscription
<1>4. \A l \in Lookup : Sound(Request("market", FALSE, TRUE, "symbols", l))
  BY DEF Sound, Reads, path, Request
<1>5. \A l \in Lookup : /\ Sound(Request("op", TRUE, TRUE, "symbols", l))
                        /\ Sound(Request("op", TRUE, FALSE, "one", l))
  BY DEF Sound, Reads, path, Request
<1>6. /\ Sound(subscribeCandlestickEvent) /\ Sound(subscribeTradeEvent)
      /\ Sound(subscribePriceDepthEvent) /\ Sound(subscribe24HTradeStatisticsEvent)
      /\ Sound(subscribeMarketBBOEvent) /\ Sound(subscribeMarketDepthMBP)
      /\ Sound(subscribeMarketDepthMBPrefresh)
  BY <1>1 DEF subscribeCandlestickEvent, subscribeTradeEvent, subscribePriceDepthEvent,
       subscribe24HTradeStatisticsEvent, subscribeMarketBBOEvent, subscribeMarketDepthMBP,
       subscribeMarketDepthMBPrefresh, klineChannel, tradeChannel, priceDepthChannel,
       tradeStatisticsChannel, marketBBOChannel, MarketDepthMBP, MarketDepthMBPrefresh
<1>7. /\ Sound(subscribeOrderUpdateEvent) /\ Sound(subscribeAccountEvent)
      /\ Sound(subscribeOrderUpdateNewEvent)
  BY <1>2 DEF subscribeOrderUpdateEvent, subscribeAccountEvent, subscribeOrderUpdateNewEvent,
       orderChannel, accountChannel, newOrderChannel
<1>8. /\ Sound(subscribeTradeClearingEvent) /\ Sound(subscribeAccountUpdateEvent)
      /\ Sound(subscribeOrderUpdateV2)
  BY <1>3 DEF subscribeTradeClearingEvent, subscribeAccountUpdateEvent, subscribeOrderUpdateV2,
       tradeClearingChannel, accountUpdateChannel, orderUpdateChannel
<1>9. /\ Sound(requestCandlestickEvent) /\ Sound(requestPriceDepthEvent) /\ Sound(requestTradeEvent)
      /\ Sound(request24HTradeStatistics) /\ Sound(requestMarketDepthMBPEvent)
  BY <1>4 DEF requestCandlestickEvent, requestPriceDepthEvent, requestTradeEvent,
       request24HTradeStatistics, requestMarketDepthMBPEvent, klineChannel, tradeChannel,
       priceDepthChannel,
       tradeStatisticsChannel, MarketDepthMBP
<1>10. Sound(requestAccountList) /\ Sound(requestOrdertListEvent) /\ Sound(requestOrdertDetailEvent)
  BY <1>5 DEF requestAccountList, requestOrdertListEvent, requestOrdertDetailEvent,
       accountListChannel, orderListChannel, orderDetailChannel
<1> QED
  BY <1>6, <1>7, <1>8, <1>9, <1>10 DEF Feeds

\* The market is asked by GET.
LEMMA MarketReads == \A n \in DOMAIN Market : Market[n].method = "GET"
BY DEF Market, createRequestByGet, getExchangeTimestamp, getCandlestick, getHistoricalTrade,
  getSymbols, getCurrencies, getBestQuote, getPriceDepth, get24HTradeStatistics,
  getMarketTrade, getMarketTickers, getReferenceCurrencies, getEtfSwapConfig, getETFCandlestick

\* So are accounts, orders and loans.
LEMMA QueryReads == \A n \in DOMAIN Query : Query[n].method = "GET"
<1> DEFINE Gets(r) == r.method = "GET"
<1>1. \A f, c, p, q, a : Gets(createRequestByGetWithSignature(f, c, p, q, a))
  BY DEF createRequestByGetWithSignature
<1> HIDE DEF Gets
<1> SUFFICES \A n \in DOMAIN Query : Gets(Query[n])
  BY DEF Gets
<1> QED
  BY <1>1 DEF Query, getAccounts, getBalance, getWithdrawHistory, getDepositHistory, getLoanHistory,
  getCurrentUserAggregatedBalance, getSpecifyAccountBalance, getEtfSwapHistory,
  getMarginBalanceDetail, getFeeRate, getTransactFeeRate, getLoanInfo,
  getCrossMarginLoanInfo, getDepositAddress, getWithdrawQuota, getAccountHistory,
  getAccountLedger, crossMaginGetLoanOrders, crossMaginGetLoanBalance,
  getSubUserDepositAddress, querySubUserDeposit, getOpenOrders, getOrder,
  getOrderByClientOrderId, getMatchResultsOfOrder, getMatchResults, getHistoricalOrders,
  getOrderHistory

\* Whatever changes something is a POST, and its parser returns whatever it finds.
LEMMA CommandAnswers ==
  \A n \in DOMAIN Command :
    Command[n].method = "POST" /\ Command[n].answer \in {"value", "list"}
<1> DEFINE Posts(r) == r.method = "POST" /\ r.answer \in {"value", "list"}
<1>1. \A f, c, p, q : \A a \in {"value", "list"} :
        Posts(createRequestByPostWithSignature(f, c, p, q, a))
  BY DEF createRequestByPostWithSignature
<1> HIDE DEF Posts
<1> SUFFICES \A n \in DOMAIN Command : Posts(Command[n])
  BY DEF Posts
<1>2. /\ Posts(transfer) /\ Posts(applyLoan) /\ Posts(repayLoan) /\ Posts(withdraw)
      /\ Posts(cancelWithdraw) /\ Posts(transferBetweenParentAndSub)
      /\ Posts(transferBetweenFuturesAndPro)
  BY <1>1 DEF transfer, applyLoan, repayLoan, withdraw, cancelWithdraw,
       transferBetweenParentAndSub, transferBetweenFuturesAndPro
<1>3. /\ Posts(etfSwap) /\ Posts(crossMaginTransferIn) /\ Posts(crossMaginTransferOut)
      /\ Posts(crossMaginApplyLoan) /\ Posts(crossMaginRepayLoan) /\ Posts(subUserManage)
  BY <1>1 DEF etfSwap, crossMaginTransferIn, crossMaginTransferOut, crossMaginApplyLoan,
       crossMaginRepayLoan, subUserManage
<1>4. \A type \in OrderType : Posts(createOrder(type)) /\ Posts(batchOrders(type))
  BY <1>1 DEF createOrder, batchOrders
<1>5. /\ Posts(cancelOrder) /\ Posts(cancelOrders) /\ Posts(cancelOpenOrders)
      /\ Posts(cancelOrderByClientOrderId)
  BY <1>1 DEF cancelOrder, cancelOrders, cancelOpenOrders, cancelOrderByClientOrderId
<1>6. {"limit", "market", "stop", "other"} \subseteq OrderType
  BY DEF OrderType
<1> QED
  BY <1>2, <1>3, <1>4, <1>5, <1>6 DEF Command

\* A request that is a POST is one of Command.
LEMMA BuilderFacts ==
  ASSUME NEW o \in Operation
  PROVE  /\ Builder[o].method \in {"GET", "POST"}
         /\ Builder[o].method = "POST" => o \in DOMAIN Command /\ Builder[o] = Command[o]
<1>1. Builder[o] = IF o \in DOMAIN Market THEN Market[o]
                   ELSE IF o \in DOMAIN Query THEN Query[o] ELSE Command[o]
  BY DEF Builder
<1>2. o \in DOMAIN Market \/ o \in DOMAIN Query \/ o \in DOMAIN Command
  BY DEF Operation
<1> QED
  BY <1>1, <1>2, MarketReads, QueryReads, CommandAnswers

\* The requests an operation goes on with after its first.
Later == {"getHistoricalTrade", "getCurrencies", "getBalance"}

\* They change nothing.
LEMMA LaterFacts ==
  ASSUME NEW n \in Later
  PROVE  RequestOf(n).method = "GET" /\ RequestOf(n).answer = "list"
<1>1. /\ Builder["getHistoricalTrade"] = getHistoricalTrade
      /\ Builder["getCurrencies"] = getCurrencies
      /\ Builder["getBalance"] = getBalance
  BY DEF Builder, Operation, Market, Query
<1> QED
  BY <1>1 DEF Later, RequestOf, getHistoricalTrade, getCurrencies, getBalance,
    createRequestByGet, createRequestByGetWithSignature

\* The first request of an operation; a command has no other.
LEMMA FirstFacts ==
  ASSUME NEW o \in Operations
  PROVE  /\ First[o].method \in {"GET", "POST"}
         /\ First[o].method = "POST" =>
              /\ o \notin Composite /\ o \in DOMAIN Command /\ First[o] = Command[o]
              /\ Tail(Plan(o)) = <<>>
         /\ Tail(Plan(o)) \in Seq(Later)
         /\ o = "client" => First[o].answer = "accounts" /\ Tail(Plan(o)) = <<>>
<1>1. First[o] = RequestOf(Head(Plan(o)))
  BY DEF First
<1>2. CASE o \notin Composite
  <2>1. Plan(o) = <<o>> /\ RequestOf(o) = Builder[o] /\ o \in Operation
    BY <1>2 DEF Plan, RequestOf, Composite, Operations
  <2> QED
    BY <1>1, <1>2, <2>1, BuilderFacts DEF Composite
<1>3. CASE o \in Composite
  <2>1. /\ Builder["getAccounts"] = getAccounts
        /\ Builder["getHistoricalTrade"] = getHistoricalTrade
        /\ Builder["getSymbols"] = getSymbols /\ Builder["getBestQuote"] = getBestQuote
    BY DEF Builder, Operation, Market, Query
  <2>2. First[o].method = "GET" /\ (o = "client" => First[o].answer = "accounts")
    BY <1>1, <1>3, <2>1 DEF Composite, Plan, RequestOf, summary, getAccounts, getHistoricalTrade,
      getSymbols, getBestQuote, createRequestByGet, createRequestByGetWithSignature
  <2>3. Tail(Plan(o)) \in Seq(Later) /\ (o = "client" => Tail(Plan(o)) = <<>>)
    <3>1. \A a, b : Tail(<<a>>) = <<>> /\ Tail(<<a, b>>) = <<b>>
      OBVIOUS
    <3>2. <<>> \in Seq(Later) /\ \A b \in Later : <<b>> \in Seq(Later)
      OBVIOUS
    <3>3. \/ \E a : Plan(o) = <<a>>
          \/ o # "client" /\ \E a, b \in Later \cup {"getSymbols", "getBestQuote"} :
               Plan(o) = <<a, b>> /\ b \in Later
      BY <1>3 DEF Composite, Plan, Later
    <3> QED
      BY <3>1, <3>2, <3>3
  <2> QED
    BY <2>2, <2>3
<1> QED
  BY <1>2, <1>3

-----------------------------------------------------------------------------
(* The inductive invariant.                                                *)

\* What the types of the records in the state are needed for.
Shape ==
  /\ DOMAIN op = Thread /\ DOMAIN wanted = Thread /\ DOMAIN request = Thread
  /\ DOMAIN feed = Thread
  /\ todo \in [Thread -> Seq(Later)]

\* A call that is under way: a command is one request, a constructor asks for the
\* accounts of its key.
CallInv ==
  \A t \in Thread : pc[t] \in Busy =>
    /\ request[t].method \in {"GET", "POST"}
    /\ Changes(t) =>
         op[t] = "one" /\ todo[t] = <<>> /\ request[t].answer \in {"value", "list"}
    /\ op[t] = "client" =>
         key[t] \in Keys /\ todo[t] = <<>> /\ request[t].answer = "accounts"

\* What is known of the effect of a command where its thread is: the exchange has
\* not done it before the answer is there, and may do it later only if it was lost.
EffectAt(t) ==
  /\ pc[t] = "sending" => effect[t] = 0
  /\ pc[t] = "answered" =>
       /\ wire[t] => Changes(t) /\ reply[t].body = "lost" /\ effect[t] = 0
       /\ ~ Changes(t) => effect[t] = 0
       /\ Changes(t) /\ reply[t].body = "ok" => effect[t] = 1
       /\ reply[t].body \in {"error", "bare"} => effect[t] = 0
  /\ pc[t] = "idle" /\ wire[t] => effect[t] = 0 /\ Verdict(result[t]) = "unknown"
  /\ pc[t] = "service" => ~ wire[t]

EffectInv == \A t \in Thread : EffectAt(t)

\* What the map holds, with the list a constructor is about to put there.
UserInv ==
  /\ SnapshotIsPast /\ UserIsKnown
  /\ \A t \in Thread :
       pc[t] = "answered" /\ op[t] = "client" /\ reply[t].body = "ok" =>
         reply[t].n \in 1 .. opened[key[t]]

Inv == TypeOK /\ Shape /\ CallInv /\ EffectInv /\ UserInv

\* The end of an operation keeps the types.
LEMMA FinishType ==
  ASSUME TypeOK, NEW t \in Thread, NEW x \in Results, Finish(t, x)
  PROVE  /\ pc' \in [Thread -> {"idle", "sending", "answered", "service"}]
         /\ key' \in [Thread -> Keys \cup {NoKey}]
         /\ sent' \in [Thread -> Nat] /\ parts' \in [Thread -> Seq(Nat)]
         /\ result' \in [Thread -> [kind : Results, command : BOOLEAN]]
         /\ reply' \in [Thread -> [body : Bodies, n : Nat, about : Nat]]
BY DEF Finish, TypeOK, NoReply, Bodies, Changes

\* callSync ends in one of its results, or the process does.
LEMMA OutcomeType ==
  ASSUME TypeOK, NEW t \in Thread
  PROVE  Outcome(t) \subseteq (Results \ {"none"}) \cup {"crash"}
<1>1. reply[t].body \in Bodies
  BY DEF TypeOK
<1>2. reply[t].body # "ok" =>
        checkResponse(request[t].form, reply[t].body) \subseteq (Results \ {"none"}) \cup {"crash"}
  BY <1>1 DEF checkResponse, Bodies, Results
<1>3. \A answer, n, known :
        jsonParser(answer, n, known) \subseteq (Results \ {"none"}) \cup {"crash"}
  BY DEF jsonParser, Results
<1> QED
  BY <1>2, <1>3 DEF Outcome, Results

\* An operation gets to its first request.
Starts(t, k, o) ==
  /\ k \in Keys \cup {NoKey} /\ o \in Operations
  /\ o = "client" => k \in Keys
  /\ \E w : (o = "client" \/ w \in Wishes(o)) /\ Begin(t, k, o, w)

\* A step of a thread.
Turn(t) ==
  \/ \E k, o : Starts(t, k, o)
  \/ ConstructKeyless(t) \/ Refuse(t) \/ Serve(t) \/ Reject(t) \/ Lose(t) \/ Late(t)
  \/ NextRequest(t) \/ Conclude(t) \/ Update(t) \/ Fail(t)
  \/ Listen(t) \/ implCallback(t)
  \/ pc[t] = "service" /\ Leave(t)

\* There are no other steps.
LEMMA Steps ==
  ASSUME TypeOK, Next
  PROVE  (\E t \in Thread : Turn(t)) \/ (\E k \in Keys : Move(k)) \/ Abort
<1>1. CASE \E k \in Keys : Move(k)
  BY <1>1
<1>2. CASE \E t \in Thread : SwapNowhere(t) \/ Die(t)
  BY <1>2 DEF SwapNowhere, Die
<1>3. ASSUME NEW t \in Thread, Construct(t)
      PROVE  Turn(t)
  <2>1. "client" \in Operations
    BY DEF Operations, Composite
  <2>2. PICK k \in Keys : Begin(t, k, "client", NoWish)
    BY <1>3 DEF Construct
  <2>3. Starts(t, k, "client")
    BY <2>1, <2>2 DEF Starts
  <2> QED
    BY <2>3 DEF Turn
<1>4. ASSUME NEW t \in Thread, Call(t)
      PROVE  Turn(t)
  <2>1. PICK o \in Menu[t] : \E w \in Wishes(o) : Begin(t, client[t], o, w)
    BY <1>4 DEF Call
  <2>2. client[t] \in Keys \cup {NoKey} /\ o \in Operations /\ o # "client"
    BY <1>4, UseAssumption DEF Call, TypeOK
  <2>3. Starts(t, client[t], o)
    BY <2>1, <2>2 DEF Starts
  <2>4. \E k, p : Starts(t, k, p)
    BY <2>3, Zenon
  <2> QED
    BY <2>4 DEF Turn
<1>5. ASSUME NEW t \in Thread, Throw(t) \/ LeaveLoop(t)
      PROVE  Turn(t)
  <2>1. pc[t] = "service" /\ Leave(t)
    BY <1>5 DEF Throw, LeaveLoop, Speaks
  <2> QED
    BY <2>1 DEF Turn
<1>6. ASSUME NEW t \in Thread,
             ConstructKeyless(t) \/ Refuse(t) \/ Serve(t) \/ Reject(t) \/ Lose(t) \/ Late(t)
               \/ NextRequest(t) \/ Conclude(t) \/ Update(t) \/ Fail(t)
               \/ Listen(t) \/ implCallback(t)
      PROVE  Turn(t)
  BY <1>6 DEF Turn
<1> QED
  BY <1>1, <1>2, <1>3, <1>4, <1>5, <1>6 DEF Next, Step

\* Every step keeps the types: the list a constructor stores is one of accounts, and
\* no command is carried out twice.
LEMMA TypeStep ==
  ASSUME Inv, Next
  PROVE  TypeOK'
<1> USE KeyAssumption, BoundAssumption, KindAssumption
<1>t. TypeOK /\ Shape
  BY DEF Inv
<1>1. ASSUME NEW t \in Thread, NEW k, NEW o, Starts(t, k, o)
      PROVE  TypeOK'
  BY <1>1, <1>t DEF Starts, Begin, Issue, TypeOK, Shape, exchange, process, Results, Nothing
<1>2. ASSUME NEW t \in Thread, ConstructKeyless(t)
      PROVE  TypeOK'
  BY <1>2, <1>t DEF ConstructKeyless, TypeOK, exchange, call, ends
<1>3. ASSUME NEW t \in Thread, Refuse(t)
      PROVE  TypeOK'
  BY <1>3, <1>t DEF Refuse, Refusal, TypeOK, exchange, call, process, Results
<1>4. ASSUME Abort
      PROVE  TypeOK'
  BY <1>4, <1>t DEF Abort, TypeOK, exchange, call, ends
<1>5. ASSUME NEW k \in Keys, Move(k)
      PROVE  TypeOK'
  BY <1>5, <1>t DEF Move, TypeOK, call, process, ends
<1>6. ASSUME NEW t \in Thread, Reject(t) \/ Lose(t)
      PROVE  TypeOK'
  <2>1. PICK b \in Bodies : reply' = [reply EXCEPT ![t] = [NoReply EXCEPT !.body = b]]
    BY <1>6 DEF Reject, Lose, NoReply, Bodies
  <2>2. reply' \in [Thread -> [body : Bodies, n : Nat, about : Nat]]
    BY <2>1, <1>t DEF NoReply, TypeOK
  <2>3. /\ wire' \in [Thread -> BOOLEAN]
        /\ pc' \in [Thread -> {"idle", "sending", "answered", "service"}]
    BY <1>6, <1>t DEF Reject, Lose, TypeOK, Changes
  <2> QED
    BY <1>6, <1>t, <2>2, <2>3 DEF Reject, Lose, TypeOK, call, process, ends, exchange
<1>7. ASSUME NEW t \in Thread, Late(t)
      PROVE  TypeOK'
  <2>1. effect[t] = 0
    BY <1>7, <1>t DEF Late, Inv, EffectInv, EffectAt, TypeOK
  <2> QED
    BY <1>7, <1>t, <2>1 DEF Late, TypeOK, call, process, ends, exchange
<1>8. ASSUME NEW t \in Thread, Serve(t)
      PROVE  TypeOK'
  <2>1. \A c \in Contents(t) : c[1] \in Nat /\ c[2] \in Nat
    BY <1>t DEF Contents, TypeOK
  <2>2. PICK c \in Contents(t) :
          reply' = [reply EXCEPT ![t] = [body |-> "ok", n |-> c[1], about |-> c[2]]]
    BY <1>8 DEF Serve
  <2>3. reply' \in [Thread -> [body : Bodies, n : Nat, about : Nat]]
    BY <2>1, <2>2, <1>t DEF TypeOK, Bodies
  <2>4. effect[t] = 0
    BY <1>8, <1>t DEF Serve, Inv, EffectInv, EffectAt, TypeOK
  <2> QED
    BY <1>8, <1>t, <2>3, <2>4 DEF Serve, TypeOK, call, process, exchange
<1>9. ASSUME NEW t \in Thread, Fail(t)
      PROVE  TypeOK'
  <2>1. PICK x \in Results : Finish(t, x)
    BY <1>9, <1>t, OutcomeType DEF Fail
  <2> QED
    BY <1>9, <1>t, <2>1, FinishType DEF Fail, Finish, TypeOK, exchange
<1>10. ASSUME NEW t \in Thread, Conclude(t)
      PROVE  TypeOK'
  <2>1. PICK x \in Results : Finish(t, x)
    BY <1>10, <1>t DEF Conclude, Results
  <2> QED
    BY <1>10, <1>t, <2>1, FinishType DEF Conclude, Finish, TypeOK, exchange
<1>11. ASSUME NEW t \in Thread, Update(t)
      PROVE  TypeOK'
  <2>1. Finish(t, "return") /\ "return" \in Results
    BY <1>11 DEF Update, Results
  <2>2. key[t] \in Keys /\ reply[t].n \in 1 .. opened[key[t]]
    BY <1>11, <1>t DEF Update, Outcome, Inv, CallInv, UserInv, Busy, checkResponse, TypeOK, Bodies
  <2>3. reply[t].n \in 0 .. Len(Kind)
    BY <2>2, <1>t DEF TypeOK
  <2>4. Accounts(key[t], reply[t].n) \in Seq(Account)
    <3>1. Accounts(key[t], reply[t].n) \in [1 .. reply[t].n -> Account]
      BY <2>2, <2>3 DEF Accounts, Account
    <3> QED
      BY <2>3, <3>1, SeqDef
  <2> QED
    BY <1>11, <1>t, <2>1, <2>2, <2>4, FinishType DEF Update, Finish, TypeOK, exchange
<1>12. ASSUME NEW t \in Thread, NextRequest(t)
      PROVE  TypeOK'
  <2>1. reply[t].n \in Nat /\ parts[t] \in Seq(Nat)
    BY <1>t DEF TypeOK
  <2>2. Append(parts[t], reply[t].n) \in Seq(Nat)
    BY <2>1
  <2>3. reply' \in [Thread -> [body : Bodies, n : Nat, about : Nat]]
    BY <1>12, <1>t DEF NextRequest, TypeOK, NoReply, Bodies
  <2> QED
    BY <1>12, <1>t, <2>2, <2>3 DEF NextRequest, Issue, TypeOK, exchange, process, ends
<1>13. ASSUME NEW t \in Thread, Listen(t)
      PROVE  TypeOK'
  BY <1>13, <1>t DEF Listen, TypeOK, exchange, process, call, Nothing, Results
<1>14. ASSUME NEW t \in Thread, implCallback(t)
      PROVE  TypeOK'
  BY <1>14, <1>t DEF implCallback, TypeOK, exchange, process, call, ends
<1>15. ASSUME NEW t \in Thread, Leave(t)
      PROVE  TypeOK'
  BY <1>15, <1>t DEF Leave, TypeOK, exchange, process, call, ends
<1> QED
  BY <1>t, <1>1, <1>2, <1>3, <1>4, <1>5, <1>6, <1>7, <1>8, <1>9, <1>10, <1>11, <1>12,
     <1>13, <1>14, <1>15, Steps DEF Turn

\* What is left to ask is of Later, and as planned unless accounts were picked.
LEMMA RestType ==
  ASSUME TypeOK, Shape, NEW t \in Thread
  PROVE  /\ Rest(t) \in Seq(Later)
         /\ ~ Picks(t) => Rest(t) = todo[t]
<1>1. "getBalance" \in Later /\ reply[t].n \in Nat /\ todo[t] \in Seq(Later)
  BY DEF Later, TypeOK, Shape
<1>2. [i \in 1 .. reply[t].n |-> "getBalance"] \in Seq(Later)
  BY <1>1, SeqDef
<1>3. <<"getBalance">> \in Seq(Later) /\ <<>> \in Seq(Later)
  BY <1>1
<1> QED
  BY <1>1, <1>2, <1>3 DEF Rest

\* Every step keeps the shape of the state ...
LEMMA ShapeStep ==
  ASSUME Inv, Next
  PROVE  Shape'
<1>t. TypeOK /\ Shape
  BY DEF Inv
<1>e. <<>> \in Seq(Later)
  OBVIOUS
<1>1. ASSUME NEW t \in Thread, NEW k, NEW o, Starts(t, k, o)
      PROVE  Shape'
  <2>1. Tail(Plan(o)) \in Seq(Later)
    BY <1>1, FirstFacts DEF Starts
  <2> QED
    BY <1>1, <1>t, <2>1 DEF Starts, Begin, Issue, Shape
<1>2. ASSUME NEW t \in Thread, NEW x, Finish(t, x)
      PROVE  Shape'
  BY <1>2, <1>t, <1>e DEF Finish, Shape
<1>3. ASSUME NEW t \in Thread, NextRequest(t)
      PROVE  Shape'
  <2>1. Rest(t) \in Seq(Later) /\ Rest(t) # <<>>
    BY <1>3, <1>t, RestType DEF NextRequest
  <2>2. Tail(Rest(t)) \in Seq(Later)
    BY <2>1
  <2> QED
    BY <1>3, <1>t, <2>2 DEF NextRequest, Issue, Shape
<1>4. ASSUME NEW t \in Thread,
             ConstructKeyless(t) \/ Refuse(t) \/ Serve(t) \/ Reject(t) \/ Lose(t) \/ Late(t)
      PROVE  Shape'
  BY <1>4, <1>t DEF ConstructKeyless, Refuse, Serve, Reject, Lose, Late, Shape, call
<1>5. ASSUME NEW t \in Thread, Listen(t) \/ implCallback(t) \/ Leave(t)
      PROVE  Shape'
  BY <1>5, <1>t DEF Listen, implCallback, Leave, Shape, call
<1>6. ASSUME Abort \/ \E k \in Keys : Move(k)
      PROVE  Shape'
  BY <1>6, <1>t DEF Abort, Move, Shape, call
<1>7. ASSUME NEW t \in Thread, Fail(t) \/ Conclude(t) \/ Update(t)
      PROVE  Shape'
  BY <1>2, <1>7 DEF Fail, Conclude, Update
<1> QED
  BY <1>t, <1>1, <1>3, <1>4, <1>5, <1>6, <1>7, Steps DEF Turn

\* ... and what is known of the calls.
LEMMA CallStep ==
  ASSUME Inv, Next
  PROVE  CallInv'
<1>t. TypeOK /\ Shape /\ CallInv
  BY DEF Inv
<1>1. ASSUME NEW t \in Thread, NEW k, NEW o, Starts(t, k, o)
      PROVE  CallInv'
  <2>1. First[o].method = "POST" => First[o].answer \in {"value", "list"}
    BY <1>1, FirstFacts, CommandAnswers DEF Starts
  <2>2. /\ First[o].method \in {"GET", "POST"}
        /\ First[o].method = "POST" => o \notin Composite /\ Tail(Plan(o)) = <<>>
        /\ o = "client" => First[o].answer = "accounts" /\ Tail(Plan(o)) = <<>>
    BY <1>1, FirstFacts DEF Starts
  <2>3. /\ pc' = [pc EXCEPT ![t] = "sending"]
        /\ request'[t].method = First[o].method /\ request'[t].answer = First[o].answer
        /\ \A u \in Thread \ {t} : request'[u] = request[u]
        /\ key' = [key EXCEPT ![t] = k] /\ todo' = [todo EXCEPT ![t] = Tail(Plan(o))]
        /\ op' = [op EXCEPT ![t] = IF o \in Composite THEN o ELSE "one"]
    BY <1>1, <1>t DEF Starts, Begin, Issue, Shape
  <2>4. "one" # "client" /\ (o = "client" => k \in Keys)
    BY <1>1 DEF Starts
  <2> QED
    BY <1>t, <2>1, <2>2, <2>3, <2>4 DEF CallInv, Changes, TypeOK, Shape, Busy
<1>2. ASSUME NEW t \in Thread, NEW x, Finish(t, x)
      PROVE  CallInv'
  BY <1>2, <1>t DEF Finish, CallInv, Changes, TypeOK, Shape, Busy
<1>3. ASSUME NEW t \in Thread, NextRequest(t)
      PROVE  CallInv'
  <2>1. Rest(t) \in Seq(Later) /\ Rest(t) # <<>>
    BY <1>3, <1>t, RestType DEF NextRequest
  <2>2. Head(Rest(t)) \in Later
    BY <2>1
  <2>3. RequestOf(Head(Rest(t))).method = "GET"
    BY <2>2, LaterFacts
  <2>4. op[t] # "client"
    BY <1>3, <1>t, RestType DEF NextRequest, CallInv, Picks, Busy
  <2> QED
    BY <1>3, <1>t, <2>3, <2>4 DEF NextRequest, Issue, CallInv, Changes, TypeOK, Shape, Busy
<1>4. ASSUME NEW t \in Thread,
             ConstructKeyless(t) \/ Refuse(t) \/ Serve(t) \/ Reject(t) \/ Lose(t) \/ Late(t)
      PROVE  CallInv'
  BY <1>4, <1>t DEF ConstructKeyless, Refuse, Serve, Reject, Lose, Late, CallInv, call, TypeOK,
    Changes, Busy
<1>5. ASSUME NEW t \in Thread, Listen(t) \/ implCallback(t) \/ Leave(t)
      PROVE  CallInv'
  BY <1>5, <1>t DEF Listen, implCallback, Leave, CallInv, call, TypeOK, Changes, Busy
<1>6. ASSUME Abort \/ \E k \in Keys : Move(k)
      PROVE  CallInv'
  BY <1>6, <1>t DEF Abort, Move, CallInv, call, Changes, Busy
<1>7. ASSUME NEW t \in Thread, Fail(t) \/ Conclude(t) \/ Update(t)
      PROVE  CallInv'
  BY <1>2, <1>7 DEF Fail, Conclude, Update
<1> QED
  BY <1>t, <1>1, <1>3, <1>4, <1>5, <1>6, <1>7, Steps DEF Turn

\* checkResponse tells the answers to a command apart, and its parser never throws.
LEMMA CommandOutcome ==
  ASSUME TypeOK, CallInv, NEW t \in Thread, pc[t] = "answered", Changes(t)
  PROVE  /\ reply[t].body = "ok" => Outcome(t) = {"return"}
         /\ reply[t].body = "error" => Outcome(t) = {"ExecError"}
         /\ reply[t].body = "bare" => Outcome(t) \subseteq {"RuntimeError", "InputError"}
         /\ reply[t].body = "lost" => Outcome(t) = {"RuntimeError", "crash"}
<1>1. op[t] = "one" /\ request[t].answer \in {"value", "list"}
  BY DEF CallInv, Busy
<1>2. \A n, known : jsonParser(request[t].answer, n, known) = {"return"}
  BY <1>1 DEF jsonParser
<1> QED
  BY <1>1, <1>2 DEF Outcome, checkResponse

\* Nothing is returned without an answer of the exchange.
LEMMA ReturnFacts ==
  ASSUME TypeOK, NEW t \in Thread, "return" \in Outcome(t)
  PROVE  reply[t].body = "ok"
<1>1. reply[t].body \in Bodies
  BY DEF TypeOK
<1> QED
  BY <1>1 DEF Outcome, checkResponse, Bodies

\* Nothing of another thread changes.
Same(u) ==
  /\ pc'[u] = pc[u] /\ key'[u] = key[u] /\ op'[u] = op[u] /\ wanted'[u] = wanted[u]
  /\ todo'[u] = todo[u] /\ request'[u] = request[u] /\ sent'[u] = sent[u]
  /\ parts'[u] = parts[u] /\ wire'[u] = wire[u] /\ effect'[u] = effect[u]
  /\ result'[u] = result[u] /\ reply'[u] = reply[u] /\ feed'[u] = feed[u]
  /\ client'[u] = client[u]

\* A turn of one thread leaves the others where they are.
LEMMA Others ==
  ASSUME TypeOK, Shape, NEW t \in Thread, Turn(t), NEW u \in Thread \ {t}
  PROVE  Same(u)
<1> USE DEF Same, TypeOK, Shape
<1>1. CASE \E k, o : Starts(t, k, o)
  BY <1>1 DEF Starts, Begin, Issue, exchange, process
<1>2. ASSUME NEW x, Finish(t, x), client'[u] = client[u]
      PROVE  Same(u)
  BY <1>2 DEF Finish
<1>3. CASE Fail(t) \/ Conclude(t) \/ Update(t)
  BY <1>2, <1>3 DEF Fail, Conclude, Update
<1>4. CASE NextRequest(t)
  BY <1>4 DEF NextRequest, Issue, exchange, process, ends
<1>5. CASE ConstructKeyless(t) \/ Refuse(t)
  BY <1>5 DEF ConstructKeyless, Refuse, exchange, process, call, ends
<1>6. CASE Serve(t) \/ Reject(t) \/ Lose(t) \/ Late(t)
  BY <1>6 DEF Serve, Reject, Lose, Late, exchange, process, call, ends
<1>7. CASE Listen(t) \/ implCallback(t) \/ Leave(t)
  BY <1>7 DEF Listen, implCallback, Leave, exchange, process, call, ends
<1> QED
  BY <1>1, <1>3, <1>4, <1>5, <1>6, <1>7 DEF Turn

\* So do the exchange and the end of the process.
LEMMA Quiet ==
  ASSUME TypeOK, Abort \/ \E k \in Keys : Move(k), NEW u \in Thread
  PROVE  Same(u)
BY DEF Abort, Move, exchange, process, call, ends, Same

\* Every step keeps what is known of the effects.
LEMMA EffectStep ==
  ASSUME Inv, Next
  PROVE  EffectInv'
<1>t. TypeOK /\ Shape /\ CallInv /\ EffectInv
  BY DEF Inv
<1>s. ASSUME NEW u \in Thread, Same(u)
      PROVE  EffectAt(u)'
  BY <1>s, <1>t DEF Same, EffectInv, EffectAt, Changes
<1>1. ASSUME NEW t \in Thread, NEW k, NEW o, Starts(t, k, o)
      PROVE  EffectAt(t)'
  BY <1>1, <1>t DEF Starts, Begin, Issue, EffectAt, TypeOK
<1>2. ASSUME NEW t \in Thread, NEW x \in Results, Finish(t, x), pc[t] = "answered",
             wire[t] => x = "RuntimeError"
      PROVE  EffectAt(t)'
  <2>1. /\ pc'[t] = "idle" /\ UNCHANGED <<wire, effect>>
        /\ result'[t] = [kind |-> x, command |-> Changes(t)]
    BY <1>2, <1>t DEF Finish, TypeOK
  <2>2. wire[t] => effect[t] = 0
    BY <1>2, <1>t DEF EffectInv, EffectAt
  <2>3. x = "RuntimeError" => Verdict(result'[t]) = "unknown"
    BY <2>1 DEF Verdict
  <2> QED
    BY <1>2, <2>1, <2>2, <2>3 DEF EffectAt
<1>3. ASSUME NEW t \in Thread, NextRequest(t)
      PROVE  EffectAt(t)'
  <2>1. ~ Changes(t)
    BY <1>3, <1>t, RestType DEF NextRequest, CallInv, Busy, Picks
  <2>2. effect[t] = 0
    BY <1>3, <1>t, <2>1 DEF NextRequest, EffectInv, EffectAt
  <2> QED
    BY <1>3, <1>t, <2>2 DEF NextRequest, Issue, TypeOK, ends, EffectAt
<1>4. ASSUME NEW t \in Thread, ConstructKeyless(t)
      PROVE  EffectAt(t)'
  BY <1>4, <1>t DEF ConstructKeyless, EffectInv, EffectAt, call, ends, Changes
<1>5. ASSUME NEW t \in Thread, Refuse(t)
      PROVE  EffectAt(t)'
  BY <1>5, <1>t DEF Refuse, EffectAt, TypeOK
<1>6. ASSUME NEW t \in Thread, Serve(t)
      PROVE  EffectAt(t)'
  <2>1. /\ reply'[t].body = "ok" /\ pc'[t] = "answered" /\ ~ wire'[t]
        /\ effect'[t] = IF Changes(t) THEN 1 ELSE 0
        /\ UNCHANGED request
    BY <1>6, <1>t DEF Serve, EffectInv, EffectAt, call, TypeOK
  <2> QED
    BY <2>1 DEF EffectAt, Changes
<1>7. ASSUME NEW t \in Thread, Reject(t) \/ Lose(t)
      PROVE  EffectAt(t)'
  <2>1. effect[t] = 0 /\ UNCHANGED <<effect, request>> /\ pc'[t] = "answered"
    BY <1>7, <1>t DEF Reject, Lose, EffectInv, EffectAt, call, ends, TypeOK
  <2>2. /\ reply'[t].body \in {"error", "bare", "lost"}
        /\ wire'[t] => reply'[t].body = "lost" /\ Changes(t)
    BY <1>7, <1>t DEF Reject, Lose, NoReply, TypeOK
  <2> QED
    BY <2>1, <2>2 DEF EffectAt, Changes
<1>8. ASSUME NEW t \in Thread, Late(t)
      PROVE  EffectAt(t)'
  <2>1. /\ pc[t] # "sending" /\ wire[t] /\ ~ wire'[t] /\ effect[t] = 0 /\ effect'[t] = 1
        /\ UNCHANGED <<pc, request, reply>>
    BY <1>8, <1>t DEF Late, EffectInv, EffectAt, call, TypeOK
  <2>2. pc[t] = "answered" => Changes(t) /\ reply[t].body = "lost"
    BY <1>t, <2>1 DEF EffectInv, EffectAt
  <2> QED
    BY <2>1, <2>2 DEF EffectAt, Changes
<1>9. ASSUME NEW t \in Thread, Listen(t)
      PROVE  EffectAt(t)'
  BY <1>9, <1>t DEF Listen, EffectAt, TypeOK
<1>10. ASSUME NEW t \in Thread, implCallback(t) \/ (pc[t] = "service" /\ Leave(t))
      PROVE  EffectAt(t)'
  BY <1>10, <1>t DEF implCallback, Speaks, Leave, EffectInv, EffectAt, call, ends, TypeOK
<1>11. ASSUME NEW t \in Thread, Fail(t)
      PROVE  EffectAt(t)'
  <2>1. PICK x \in Outcome(t) \ {"return", "crash"} : Finish(t, x)
    BY <1>11 DEF Fail
  <2>2. x \in Results
    BY <1>t, OutcomeType
  <2>3. pc[t] = "answered"
    BY <1>11 DEF Fail
  <2>4. wire[t] => x = "RuntimeError"
    BY <1>t, <2>3, CommandOutcome DEF EffectInv, EffectAt
  <2> QED
    BY <1>2, <2>1, <2>2, <2>3, <2>4
<1>12. ASSUME NEW t \in Thread, Conclude(t) \/ Update(t)
      PROVE  EffectAt(t)'
  <2>1. pc[t] = "answered" /\ "return" \in Outcome(t)
    BY <1>12 DEF Conclude, Update
  <2>2. ~ wire[t]
    BY <1>t, <2>1, ReturnFacts DEF EffectInv, EffectAt
  <2>3. PICK x \in Results : Finish(t, x)
    BY <1>12 DEF Conclude, Update, Results
  <2> QED
    BY <1>2, <2>1, <2>2, <2>3
<1>13. ASSUME NEW t \in Thread, Turn(t)
      PROVE  EffectAt(t)'
  BY <1>13, <1>1, <1>3, <1>4, <1>5, <1>6, <1>7, <1>8, <1>9, <1>10, <1>11, <1>12 DEF Turn
<1>14. ASSUME NEW t \in Thread, Turn(t)
      PROVE  EffectInv'
  BY <1>s, <1>t, <1>13, <1>14, Others DEF EffectInv
<1>15. CASE Abort \/ \E k \in Keys : Move(k)
  BY <1>s, <1>t, <1>15, Quiet DEF EffectInv
<1> QED
  BY <1>t, <1>14, <1>15, Steps

\* Every step keeps what is known of the map: only Update writes it, and the exchange
\* only ever adds accounts behind those of an older list.
LEMMA UserStep ==
  ASSUME Inv, Next
  PROVE  UserInv'
<1>t. TypeOK /\ Shape /\ CallInv /\ UserInv
  BY DEF Inv
<1>o. \A k \in Keys : opened[k] \in Nat
  BY <1>t DEF TypeOK
<1>1. ASSUME NEW t \in Thread, Update(t)
      PROVE  UserInv'
  <2>1. pc[t] = "answered" /\ reply[t].body = "ok" /\ op[t] = "client"
    BY <1>1, <1>t, ReturnFacts DEF Update
  <2>2. key[t] \in Keys /\ reply[t].n \in 1 .. opened[key[t]]
    BY <1>t, <2>1 DEF CallInv, UserInv, Busy
  <2>3. Accounts(key[t], reply[t].n) # <<>>
    BY <1>o, <2>2 DEF Accounts
  <2>4. /\ userMap' = [userMap EXCEPT ![key[t]] = Accounts(key[t], reply[t].n)]
        /\ client' = [client EXCEPT ![t] = key[t]]
        /\ UNCHANGED opened /\ pc' = [pc EXCEPT ![t] = "idle"]
    BY <1>1 DEF Update, Finish, exchange
  <2>5. SnapshotIsPast'
    BY <1>t, <1>o, <2>2, <2>4 DEF UserInv, SnapshotIsPast, TypeOK
  <2>6. UserIsKnown'
    BY <1>t, <2>2, <2>3, <2>4 DEF UserInv, UserIsKnown, TypeOK
  <2>7. \A u \in Thread \ {t} : Same(u)
    BY <1>1, <1>t, Others DEF Turn
  <2>8. pc'[t] = "idle"
    BY <1>t, <2>4 DEF TypeOK
  <2>9. ASSUME NEW u \in Thread, pc'[u] = "answered", op'[u] = "client", reply'[u].body = "ok"
        PROVE  reply'[u].n \in 1 .. opened'[key'[u]]
    BY <1>t, <2>4, <2>7, <2>8, <2>9 DEF UserInv, Same
  <2> QED
    BY <2>5, <2>6, <2>9 DEF UserInv
<1>2. ASSUME NEW t \in Thread, Turn(t), ~ Update(t)
      PROVE  /\ UNCHANGED <<opened, userMap>>
             /\ client'[t] \in Keys => client'[t] = client[t]
  BY <1>2, <1>t, KeyAssumption
     DEF Turn, Starts, Begin, ConstructKeyless, Refuse, Serve, Reject, Lose, Late, NextRequest,
       Conclude, Fail, Finish, Listen, implCallback, Leave, exchange, process, TypeOK
<1>3. ASSUME NEW t \in Thread, Turn(t), ~ Update(t),
             pc'[t] = "answered", op'[t] = "client", reply'[t].body = "ok"
      PROVE  reply'[t].n \in 1 .. opened'[key'[t]]
  <2>1. CASE Serve(t)
    <3>1. PICK c \in Contents(t) :
            reply' = [reply EXCEPT ![t] = [body |-> "ok", n |-> c[1], about |-> c[2]]]
      BY <2>1 DEF Serve
    <3>2. op[t] = "client" /\ pc[t] = "sending" /\ UNCHANGED <<key, opened>>
      BY <1>3, <2>1 DEF Serve, call, exchange
    <3>3. key[t] \in Keys /\ c[1] = opened[key[t]]
      BY <1>t, <3>2 DEF Contents, CallInv, Busy
    <3>4. opened[key[t]] >= 1 /\ opened[key[t]] \in Nat
      BY <1>t, <3>3 DEF TypeOK
    <3> QED
      BY <1>t, <3>1, <3>2, <3>3, <3>4 DEF TypeOK
  <2>2. CASE ~ Serve(t)
    <3>1. ~ (Reject(t) \/ Lose(t))
      BY <1>3, <1>t DEF Reject, Lose, NoReply, TypeOK
    <3>2. pc[t] = "answered" /\ UNCHANGED <<op, key, reply, opened>>
      BY <1>3, <1>t, <2>2, <3>1
         DEF Turn, Starts, Begin, Issue, ConstructKeyless, Refuse, Late, NextRequest, Conclude,
           Fail, Finish, Listen, implCallback, Leave, exchange, call, TypeOK
    <3> QED
      BY <1>3, <1>t, <3>2 DEF UserInv
  <2> QED
    BY <2>1, <2>2
<1>4. ASSUME NEW t \in Thread, Turn(t), ~ Update(t)
      PROVE  UserInv'
  <2>1. \A u \in Thread \ {t} : Same(u)
    BY <1>4, <1>t, Others
  <2>2. SnapshotIsPast'
    BY <1>2, <1>4, <1>t DEF UserInv, SnapshotIsPast
  <2>3. UserIsKnown'
    BY <1>2, <1>4, <1>t, <2>1 DEF UserInv, UserIsKnown, Same
  <2> QED
    BY <1>2, <1>3, <1>4, <1>t, <2>1, <2>2, <2>3 DEF UserInv, Same
<1>5. CASE Abort \/ \E k \in Keys : Move(k)
  <2>1. /\ \A j \in Keys : opened[j] \in Nat /\ opened'[j] \in Nat /\ opened[j] <= opened'[j]
        /\ UNCHANGED <<userMap, client, pc, op, key, reply>>
    <3>1. CASE Abort
      BY <1>o, <3>1 DEF Abort, exchange, call
    <3>2. ASSUME NEW k \in Keys, Move(k)
          PROVE  /\ \A j \in Keys : opened'[j] \in Nat /\ opened[j] <= opened'[j]
                 /\ UNCHANGED <<userMap, client, pc, op, key, reply>>
      BY <1>o, <1>t, <3>2 DEF Move, TypeOK, process, call
    <3> QED
      BY <1>5, <1>o, <3>1, <3>2
  <2>2. SnapshotIsPast'
    BY <1>t, <2>1 DEF UserInv, SnapshotIsPast
  <2> QED
    BY <1>t, <2>1, <2>2 DEF UserInv, UserIsKnown, CallInv, Busy
<1> QED
  BY <1>t, <1>1, <1>4, <1>5, Steps

\* Inv is inductive ...
LEMMA InvStep == Inv /\ [Next]_vars => Inv'
<1> SUFFICES ASSUME Inv, [Next]_vars
             PROVE  Inv'
  OBVIOUS
<1>1. CASE Next
  BY <1>1, TypeStep, ShapeStep, CallStep, EffectStep, UserStep DEF Inv
<1>2. CASE UNCHANGED vars
  <2>1. TypeOK' /\ Shape' /\ CallInv' /\ SnapshotIsPast' /\ UserIsKnown'
    BY <1>2 DEF vars, exchange, process, call, ends, Inv, TypeOK, Shape, CallInv, Changes,
         UserInv,
      SnapshotIsPast, UserIsKnown, Busy
  <2>2. EffectInv'
    BY <1>2 DEF vars, exchange, process, call, ends, Inv, EffectInv, EffectAt, Changes
  <2> QED
    BY <1>2, <2>1, <2>2 DEF vars, exchange, process, call, ends, Inv, UserInv
<1> QED
  BY <1>1, <1>2

\* ... and holds at first.
LEMMA InvInit == Init => Inv
<1> SUFFICES ASSUME Init
             PROVE  Inv
  OBVIOUS
<1> USE KeyAssumption, BoundAssumption, KindAssumption
<1>1. Len(Kind) \in Nat /\ Len(Kind) >= 1
  OBVIOUS
<1>2. TypeOK
  BY <1>1 DEF Init, TypeOK, Nothing, NoReply, Results, Bodies
<1>3. Shape /\ CallInv /\ EffectInv
  BY DEF Init, Shape, CallInv, EffectInv, EffectAt, Busy
<1>4. SnapshotIsPast
  <2>1. \A k \in Keys : Accounts(k, 0) = <<>>
    BY DEF Accounts
  <2> QED
    BY <1>1, <2>1 DEF Init, SnapshotIsPast
<1>5. UserInv
  BY <1>4 DEF Init, UserInv, UserIsKnown
<1> QED
  BY <1>2, <1>3, <1>5 DEF Inv

\* The inductive invariant holds in every reachable state: types, calls, effects of
\* commands and the contents of AccountsInfoMap, whatever the threads do.
THEOREM Invariant == Spec => []Inv
BY InvInit, InvStep, PTL DEF Spec

\* TypeOK: every variable keeps its type; no command is carried out twice.
THEOREM TypeCorrect == Spec => []TypeOK
<1>1. Inv => TypeOK
  BY DEF Inv
<1> QED
  BY <1>1, Invariant, PTL

\* AccountsInfoMap::updateUserInfo: the entry of a key is a list its own user once
\* had, for any number of threads and keys.
THEOREM SnapshotsPast == Spec => []SnapshotIsPast
<1>1. Inv => SnapshotIsPast
  BY DEF Inv, UserInv
<1> QED
  BY <1>1, Invariant, PTL

\* AccountsInfoMap::getUser finds the user of every client that has a key.
THEOREM UsersKnown == Spec => []UserIsKnown
<1>1. Inv => UserIsKnown
  BY DEF Inv, UserInv
<1> QED
  BY <1>1, Invariant, PTL

-----------------------------------------------------------------------------
(* Feeds.                                                                  *)

\* A feed is understood, and its time is the number of answers still to come.
FeedAt(t) ==
  /\ {"time", "answered"} \subseteq DOMAIN feed[t]
  /\ pc[t] = "service" =>
       /\ Reads(feed[t].line) = feed[t].channel
       /\ feed[t].request =>
            /\ feed[t].messages \in Nat /\ feed[t].answered \in Nat
            /\ feed[t].time = feed[t].messages - feed[t].answered

FeedInv == \A t \in Thread : FeedAt(t)

\* Listen begins with a sound feed, implCallback counts both sides.
LEMMA FeedStep == Inv /\ FeedInv /\ [Next]_vars => FeedInv'
<1> SUFFICES ASSUME Inv, FeedInv, [Next]_vars
             PROVE  FeedInv'
  OBVIOUS
<1>t. TypeOK /\ Shape
  BY DEF Inv
<1>s. ASSUME NEW u \in Thread, pc'[u] = pc[u] \/ pc'[u] # "service", feed'[u] = feed[u]
      PROVE  FeedAt(u)'
  BY <1>s DEF FeedInv, FeedAt
<1>1. ASSUME NEW t \in Thread, Listen(t)
      PROVE  FeedAt(t)'
  <2>1. PICK f \in Listens[t], n \in 1 .. MaxSymbols :
          feed' = [feed EXCEPT ![t] =
            [channel |-> Feeds[f].channel, line |-> path(Feeds[f]), lookup |-> Feeds[f].lookup,
             request |-> Feeds[f].request, messages |-> Messages(Feeds[f], n),
             time |-> Time(Feeds[f], n), answered |-> 0]]
    BY <1>1 DEF Listen
  <2>2. Sound(Feeds[f]) /\ n \in Nat
    BY UseAssumption, BoundAssumption, FeedFacts
  <2>3. Feeds[f].request =>
          Messages(Feeds[f], n) \in Nat /\ Time(Feeds[f], n) = Messages(Feeds[f], n)
    BY <2>2 DEF Sound, Messages, Time
  <2> QED
    BY <1>t, <2>1, <2>2, <2>3 DEF FeedAt, Shape, Sound
<1>2. ASSUME NEW t \in Thread, implCallback(t)
      PROVE  FeedAt(t)'
  <2>1. /\ pc[t] = "service" /\ feed[t].request
        /\ feed' = [feed EXCEPT ![t].answered = @ + 1, ![t].time = @ - 1]
    BY <1>2 DEF implCallback, Speaks
  <2>2. feed'[t] = [feed[t] EXCEPT !.answered = @ + 1, !.time = @ - 1]
    BY <1>t, <2>1 DEF Shape
  <2>3. /\ feed'[t].line = feed[t].line /\ feed'[t].channel = feed[t].channel
        /\ feed'[t].request = feed[t].request /\ feed'[t].messages = feed[t].messages
        /\ feed'[t].answered = feed[t].answered + 1 /\ feed'[t].time = feed[t].time - 1
        /\ DOMAIN feed'[t] = DOMAIN feed[t]
    BY <2>2 DEF FeedInv, FeedAt
  <2> QED
    BY <2>1, <2>3 DEF FeedInv, FeedAt
<1>3. ASSUME NEW t \in Thread, pc[t] = "service" /\ Leave(t)
      PROVE  FeedAt(t)'
  BY <1>3, <1>t DEF Leave, NoFeed, FeedAt, Shape, TypeOK
<1>4. ASSUME NEW t \in Thread, Turn(t), ~ Listen(t), ~ implCallback(t),
             ~ (pc[t] = "service" /\ Leave(t))
      PROVE  (pc'[t] = pc[t] \/ pc'[t] # "service") /\ feed'[t] = feed[t]
  BY <1>4, <1>t
     DEF Turn, Starts, Begin, Issue, ConstructKeyless, Refuse, Serve, Reject, Lose, Late,
       NextRequest, Conclude, Update, Fail, Finish, TypeOK
<1>5. ASSUME NEW t \in Thread, Turn(t)
      PROVE  FeedInv'
  <2>1. FeedAt(t)'
    BY <1>s, <1>1, <1>2, <1>3, <1>4, <1>5
  <2>2. \A u \in Thread \ {t} : FeedAt(u)'
    BY <1>s, <1>t, <1>5, Others DEF Same
  <2> QED
    BY <2>1, <2>2 DEF FeedInv
<1>6. CASE Abort \/ \E k \in Keys : Move(k)
  BY <1>s, <1>t, <1>6, Quiet DEF FeedInv, Same
<1>7. CASE UNCHANGED vars
  BY <1>s, <1>7 DEF vars, FeedInv
<1> QED
  BY <1>t, <1>5, <1>6, <1>7, Steps

\* WebSocketRequest::implCallback: time and the answers of a feed add up to its
\* messages at every moment, and its line reads its channel.
THEOREM FeedInvariant == Spec => []FeedInv
<1>1. Init => FeedInv
  BY DEF Init, FeedInv, FeedAt, NoFeed
<1> QED
  BY <1>1, Invariant, FeedStep, PTL DEF Spec

\* WebSocketConnection::connect: the line the two flags choose reads the channel of
\* the feed, for each of the 21 builders.
THEOREM FeedsUnderstood == Spec => []FeedIsUnderstood
<1>1. FeedInv => FeedIsUnderstood
  BY DEF FeedInv, FeedAt, FeedIsUnderstood
<1> QED
  BY <1>1, FeedInvariant, PTL

\* SubscriptionClientImpl::startReq leaves its loop for time = 0 only when every
\* message was answered, for any number of symbols.
THEOREM LoopsWaitForAll == Spec => []LoopWaitsForAll
<1>1. FeedInv => LoopWaitsForAll
  BY DEF FeedInv, FeedAt, LoopWaitsForAll
<1> QED
  BY <1>1, FeedInvariant, PTL

-----------------------------------------------------------------------------
(* The accounts of orders.                                                 *)

\* A set of naturals has a least element.
LEMMA LeastIndex ==
  ASSUME NEW S, S \subseteq Nat, S # {}
  PROVE  \E i \in S : \A j \in S : i <= j
<1> DEFINE R == OpToRel(<, Nat)
<1>1. IsWellFoundedOn(R, Nat)
  BY NatLessThanWellFounded
<1> HIDE DEF R
<1>2. PICK i \in S : \A j \in S : ~ (<<j, i>> \in R)
  BY <1>1, WFMin
<1>3. \A j \in S : ~ (j < i)
  BY <1>2 DEF R, OpToRel
<1> QED
  BY <1>2, <1>3

\* User::getAccount: what it returns is of the list and matches.
LEMMA AccountFacts ==
  ASSUME NEW k \in Keys, NEW m \in Nat, NEW w,
         getAccount(Accounts(k, m), w) # NoAccount
  PROVE  \E i \in 1 .. m :
           /\ getAccount(Accounts(k, m), w) = [key |-> k, index |-> i]
           /\ Matches([key |-> k, index |-> i], w)
<1> DEFINE list == Accounts(k, m)
<1> DEFINE Hit(i) == Matches(list[i], w)
<1> DEFINE First1(i) == Hit(i) /\ \A j \in 1 .. i - 1 : ~ Hit(j)
<1>1. DOMAIN list = 1 .. m /\ \A i \in 1 .. m : list[i] = [key |-> k, index |-> i]
  BY DEF Accounts
<1>2. \E i \in 1 .. m : Hit(i)
  BY <1>1 DEF getAccount
<1>3. PICK i \in 1 .. m : Hit(i) /\ \A j \in {n \in 1 .. m : Hit(n)} : i <= j
  <2> DEFINE S == {n \in 1 .. m : Hit(n)}
  <2> HIDE DEF Hit
  <2>1. S \subseteq Nat /\ S # {}
    BY <1>2
  <2> HIDE DEF S
  <2>2. PICK i \in S : \A j \in S : i <= j
    BY <2>1, LeastIndex
  <2> QED
    BY <2>2 DEF S
<1>4. First1(i)
  <2> HIDE DEF Hit
  <2> QED
    BY <1>3
<1>5. getAccount(list, w) = list[CHOOSE j \in 1 .. m : First1(j)]
  BY <1>1, <1>2 DEF getAccount
<1>6. PICK c \in 1 .. m : c = (CHOOSE j \in 1 .. m : First1(j)) /\ First1(c)
  <2> HIDE DEF First1
  <2> QED
    BY <1>4
<1> QED
  BY <1>1, <1>5, <1>6

\* Accounts are opened, never closed.
LEMMA OpenedGrows ==
  ASSUME TypeOK, [Next]_vars, NEW k \in Keys
  PROVE  opened[k] \in Nat /\ opened'[k] \in Nat /\ opened[k] <= opened'[k]
<1>1. opened[k] \in Nat
  BY DEF TypeOK
<1>2. ASSUME NEW t \in Thread, Turn(t)
      PROVE  UNCHANGED opened
  BY <1>2 DEF Turn, Starts, Begin, ConstructKeyless, Refuse, Serve, Reject, Lose, Late,
    NextRequest, Conclude, Update, Fail, Finish, Listen, implCallback, Leave, exchange
<1>3. CASE Abort
  BY <1>1, <1>3 DEF Abort, exchange
<1>4. ASSUME NEW j \in Keys, Move(j)
      PROVE  opened'[k] \in Nat /\ opened[k] <= opened'[k]
  BY <1>1, <1>4 DEF Move, TypeOK
<1>5. CASE UNCHANGED vars
  BY <1>1, <1>5 DEF vars, exchange
<1> QED
  BY <1>1, <1>2, <1>3, <1>4, <1>5, Steps

\* A request under way that names an account names one its own user has, which matches.
OrderAt(t) ==
  pc[t] = "sending" /\ request[t].account # NoAccount =>
    /\ key[t] \in Keys
    /\ \E i \in 1 .. opened[key[t]] :
         request[t].account = [key |-> key[t], index |-> i]
           /\ Matches([key |-> key[t], index |-> i], wanted[t])

OrderInv == \A t \in Thread : OrderAt(t)

\* The account is looked up in the map, which is a past list of the user's.
LEMMA OrderStep == Inv /\ OrderInv /\ [Next]_vars => OrderInv'
<1> SUFFICES ASSUME Inv, OrderInv, [Next]_vars
             PROVE  OrderInv'
  OBVIOUS
<1>t. TypeOK /\ Shape /\ CallInv /\ UserInv
  BY DEF Inv
<1>o. \A k \in Keys : opened[k] \in Nat /\ opened'[k] \in Nat /\ opened[k] <= opened'[k]
  BY <1>t, OpenedGrows
<1>s. ASSUME NEW u \in Thread, Same(u)
      PROVE  OrderAt(u)'
  <2> SUFFICES ASSUME pc'[u] = "sending", request'[u].account # NoAccount
               PROVE  /\ key'[u] \in Keys
                      /\ \E i \in 1 .. opened'[key'[u]] :
                           request'[u].account = [key |-> key'[u], index |-> i]
                             /\ Matches([key |-> key'[u], index |-> i], wanted'[u])
    BY DEF OrderAt, Matches
  <2>1. /\ pc[u] = "sending" /\ request[u].account # NoAccount
        /\ request'[u] = request[u] /\ key'[u] = key[u] /\ wanted'[u] = wanted[u]
    BY <1>s DEF Same
  <2>2. key[u] \in Keys
    BY <2>1 DEF OrderInv, OrderAt
  <2>3. PICK i \in 1 .. opened[key[u]] :
          /\ request[u].account = [key |-> key[u], index |-> i]
          /\ Matches([key |-> key[u], index |-> i], wanted[u])
    BY <2>1 DEF OrderInv, OrderAt
  <2>4. i \in 1 .. opened'[key[u]]
    BY <1>o, <2>2, <2>3
  <2> QED
    BY <2>1, <2>2, <2>3, <2>4
<1>1. ASSUME NEW t \in Thread, NEW k, NEW o, Starts(t, k, o)
      PROVE  OrderAt(t)'
  <2>1. PICK w : Begin(t, k, o, w)
    BY <1>1 DEF Starts
  <2> DEFINE a == AccountFor(k, First[o], w)
  <2>2. /\ request'[t].account = a /\ key'[t] = k /\ wanted'[t] = w /\ UNCHANGED opened
    BY <1>t, <2>1 DEF Begin, Issue, TypeOK, Shape, exchange
  <2>3. CASE a # NoAccount
    <3>1. k \in Keys /\ a = getAccount(userMap[k], w)
      BY <2>3 DEF AccountFor
    <3>2. PICK m \in 0 .. opened[k] : userMap[k] = Accounts(k, m)
      BY <1>t, <3>1 DEF UserInv, SnapshotIsPast
    <3>3. opened[k] \in Nat /\ m \in Nat
      BY <1>t, <3>1, <3>2 DEF TypeOK
    <3>4. getAccount(Accounts(k, m), w) # NoAccount
      BY <2>3, <3>1, <3>2
    <3>5. PICK i \in 1 .. m :
            /\ getAccount(Accounts(k, m), w) = [key |-> k, index |-> i]
            /\ Matches([key |-> k, index |-> i], w)
      BY <3>1, <3>3, <3>4, AccountFacts
    <3>6. a = [key |-> k, index |-> i] /\ i \in 1 .. opened[k]
      BY <3>1, <3>2, <3>3, <3>5
    <3> QED
      BY <2>2, <3>1, <3>5, <3>6 DEF OrderAt, Matches
  <2> QED
    BY <2>2, <2>3 DEF OrderAt
<1>2. ASSUME NEW t \in Thread, NextRequest(t)
      PROVE  OrderAt(t)'
  BY <1>2, <1>t DEF NextRequest, Issue, Shape, OrderAt
<1>3. ASSUME NEW t \in Thread, Turn(t), ~ (\E k, o : Starts(t, k, o)), ~ NextRequest(t)
      PROVE  OrderAt(t)'
  <2>1. pc'[t] # "sending" \/ (Late(t) /\ pc[t] # "sending") \/ (Same(t) /\ UNCHANGED opened)
        \/ (ConstructKeyless(t) /\ pc[t] # "sending") \/ (Refuse(t) /\ pc[t] # "sending")
    BY <1>3, <1>t
       DEF Turn, ConstructKeyless, Refuse, Serve, Reject, Lose, Late, Conclude, Update, Fail,
         Finish, Listen, implCallback, Speaks, Leave, TypeOK
  <2>2. ASSUME Late(t) \/ ConstructKeyless(t) \/ Refuse(t)
        PROVE  pc' = pc
    BY <2>2 DEF Late, ConstructKeyless, Refuse
  <2>3. pc'[t] # "sending" \/ (Same(t) /\ UNCHANGED opened)
    BY <2>1, <2>2
  <2> QED
    BY <1>s, <2>3 DEF OrderAt
<1>4. ASSUME NEW t \in Thread, Turn(t)
      PROVE  OrderInv'
  <2>1. OrderAt(t)'
    BY <1>1, <1>2, <1>3, <1>4
  <2>2. \A u \in Thread \ {t} : OrderAt(u)'
    BY <1>s, <1>t, <1>4, Others
  <2> QED
    BY <2>1, <2>2 DEF OrderInv
<1>5. CASE Abort \/ \E k \in Keys : Move(k)
  BY <1>s, <1>t, <1>5, Quiet DEF OrderInv
<1>6. CASE UNCHANGED vars
  BY <1>6 DEF vars, call, exchange, OrderInv, OrderAt, Matches
<1> QED
  BY <1>t, <1>4, <1>5, <1>6, Steps

\* RestApiImpl::createOrder, getOpenOrders, cancelOpenOrders: the account of the
\* request is one of the caller's, of the type, and in isolated margin of the pair,
\* asked for.
THEOREM OrdersReachTheirAccount == Spec => []OrderReachesItsAccount
<1>1. Init => OrderInv
  BY DEF Init, OrderInv, OrderAt
<1>2. OrderInv /\ TypeOK => OrderReachesItsAccount
  <2> SUFFICES ASSUME OrderInv, TypeOK, NEW t \in Thread, pc[t] = "sending",
                      request[t].account # NoAccount
               PROVE  LET a == request[t].account IN
                      /\ a.key = key[t] /\ a.index <= opened[key[t]]
                      /\ wanted[t].type # "super-margin" => Kind[a.index].type = wanted[t].type
                      /\ wanted[t].type = "margin" => Kind[a.index].subtype = wanted[t].subtype
    BY DEF OrderReachesItsAccount
  <2>1. key[t] \in Keys /\ opened[key[t]] \in Nat
    BY DEF OrderInv, OrderAt, TypeOK
  <2>2. PICK i \in 1 .. opened[key[t]] :
          /\ request[t].account = [key |-> key[t], index |-> i]
          /\ Matches([key |-> key[t], index |-> i], wanted[t])
    BY DEF OrderInv, OrderAt
  <2> QED
    BY <2>1, <2>2 DEF Matches, lookup
<1> QED
  BY <1>1, <1>2, Invariant, TypeCorrect, OrderStep, PTL DEF Spec

-----------------------------------------------------------------------------
(* Commands and their arguments.                                           *)

\* A builder whose checks keep every argument that narrows its request from being
\* empty, but for a client order id; the account was looked up.
Narrow(r) ==
  \A a \in (r.params \cup r.path) \cap (Selector \ {"clientOrderId"}) :
    IF a \in DOMAIN r.checks THEN "none" \notin r.checks[a] ELSE a = "account"

\* Such a builder leaves nothing else out.
LEMMA NarrowFacts ==
  ASSUME NEW r, Narrow(r), NEW args \in Inputs(r), Checked(r, args)
  PROVE  Lacks(r, args) \subseteq {"clientOrderId"}
<1>1. ASSUME NEW a \in (r.params \cup r.path) \cap (Selector \ {"clientOrderId"})
      PROVE  args[a] # "none"
  <2>1. a \in Arguments(r)
    BY DEF Arguments
  <2>2. CASE a \in DOMAIN r.checks
    <3>1. args[a] \in r.checks[a]
      BY <2>1, <2>2 DEF Checked, Allowed
    <3> QED
      BY <1>1, <2>2, <3>1 DEF Narrow
  <2>3. CASE a \notin DOMAIN r.checks
    <3>1. a = "account"
      BY <1>1, <2>3 DEF Narrow
    <3>2. Usual(r)[a] = "good"
      BY <2>1, <2>3 DEF Usual, Allowed, Value
    <3>3. args = Usual(r) \/ \E b \in Arguments(r) \ {"account"}, v \in Value :
                                args = [Usual(r) EXCEPT ![b] = v]
      BY DEF Inputs
    <3>4. a \in DOMAIN Usual(r)
      BY <2>1 DEF Usual
    <3> QED
      BY <3>1, <3>2, <3>3, <3>4
  <2> QED
    BY <2>2, <2>3
<1> QED
  BY <1>1 DEF Lacks, put

\* Every builder of a command is one.
LEMMA CommandsNarrow == \A n \in DOMAIN Command : Narrow(Command[n])
<1> USE DEF Narrow, Selector, createRequestByPostWithSignature, checkSymbol, checkCurrency,
      checkETF, shouldBiggerThanZero, checkList, shouldNotNull, checkEnumNull, NoChecks
<1>1. Narrow(transfer)
  BY DEF transfer
<1>2. Narrow(applyLoan) /\ Narrow(repayLoan)
  BY DEF applyLoan, repayLoan
<1>3. Narrow(withdraw) /\ Narrow(cancelWithdraw)
  BY DEF withdraw, cancelWithdraw
<1>4. Narrow(transferBetweenParentAndSub) /\ Narrow(transferBetweenFuturesAndPro)
  BY DEF transferBetweenParentAndSub, transferBetweenFuturesAndPro
<1>5. Narrow(etfSwap)
  BY DEF etfSwap
<1>6. Narrow(crossMaginTransferIn) /\ Narrow(crossMaginTransferOut)
  BY DEF crossMaginTransferIn, crossMaginTransferOut
<1>7. Narrow(crossMaginApplyLoan) /\ Narrow(crossMaginRepayLoan) /\ Narrow(subUserManage)
  BY DEF crossMaginApplyLoan, crossMaginRepayLoan, subUserManage
<1>8. \A type \in OrderType : Narrow(createOrder(type))
  BY DEF createOrder, orderParams, orderChecks
<1>9. \A type \in OrderType : Narrow(batchOrders(type))
  BY DEF batchOrders, orderParams, orderChecks
<1>10. Narrow(cancelOrder) /\ Narrow(cancelOrders)
  BY DEF cancelOrder, cancelOrders
<1>11. Narrow(cancelOpenOrders) /\ Narrow(cancelOrderByClientOrderId)
  BY DEF cancelOpenOrders, cancelOrderByClientOrderId
<1>12. {"limit", "market", "stop", "other"} \subseteq OrderType
  BY DEF OrderType
<1> HIDE DEF Narrow
<1> QED
  BY <1>1, <1>2, <1>3, <1>4, <1>5, <1>6, <1>7, <1>8, <1>9, <1>10, <1>11, <1>12 DEF Command

\* So no operation that changes something lacks any other.
LEMMA LackingFacts ==
  ASSUME NEW o \in Operations, First[o].method = "POST", NEW l \in Lacking[o]
  PROVE  l \subseteq {"clientOrderId"}
<1>1. PICK args \in Passing[o] : l = Lacks(First[o], args)
  BY DEF Lacking
<1>2. args \in Inputs(First[o]) /\ Checked(First[o], args)
  BY <1>1 DEF Passing
<1>3. Narrow(First[o])
  BY FirstFacts, CommandsNarrow
<1> QED
  BY <1>1, <1>2, <1>3, NarrowFacts

\* Only the first request of an operation can be a command.
LEMMA SpecificStep == Inv /\ CommandsAreSpecific /\ [Next]_vars => CommandsAreSpecific'
<1> SUFFICES ASSUME Inv, CommandsAreSpecific, [Next]_vars
             PROVE  CommandsAreSpecific'
  OBVIOUS
<1> DEFINE At(t) == pc[t] = "sending" /\ Changes(t) => request[t].lacks \subseteq {"clientOrderId"}
<1>t. TypeOK /\ Shape /\ CallInv
  BY DEF Inv
<1>s. ASSUME NEW u \in Thread, Same(u)
      PROVE  At(u)'
  BY <1>s DEF Same, CommandsAreSpecific, Changes
<1>1. ASSUME NEW t \in Thread, NEW k, NEW o, Starts(t, k, o)
      PROVE  At(t)'
  <2>1. PICK w : Begin(t, k, o, w)
    BY <1>1 DEF Starts
  <2>2. PICK l \in Lacking[o] : Issue(t, First[o], AccountFor(k, First[o], w), l)
    BY <2>1 DEF Begin
  <2>3. request'[t].method = First[o].method /\ request'[t].lacks = l
    BY <1>t, <2>2 DEF Issue, Shape
  <2>4. First[o].method = "POST" => l \subseteq {"clientOrderId"}
    BY <1>1, <2>2, LackingFacts DEF Starts
  <2> QED
    BY <2>3, <2>4 DEF Changes
<1>2. ASSUME NEW t \in Thread, NextRequest(t)
      PROVE  At(t)'
  BY <1>2, <1>t DEF NextRequest, Issue, Shape
<1>3. ASSUME NEW t \in Thread, Turn(t), ~ (\E k, o : Starts(t, k, o)), ~ NextRequest(t)
      PROVE  At(t)'
  <2>1. pc'[t] # "sending" \/ (pc'[t] = pc[t] /\ request'[t] = request[t])
    BY <1>3, <1>t
       DEF Turn, ConstructKeyless, Refuse, Serve, Reject, Lose, Late, Conclude, Update, Fail,
         Finish, Listen, implCallback, Leave, TypeOK, call
  <2> QED
    BY <2>1 DEF CommandsAreSpecific, Changes
<1>4. ASSUME NEW t \in Thread, Turn(t)
      PROVE  CommandsAreSpecific'
  <2>1. At(t)'
    BY <1>1, <1>2, <1>3, <1>4
  <2>2. \A u \in Thread \ {t} : At(u)'
    BY <1>s, <1>t, <1>4, Others
  <2> QED
    BY <2>1, <2>2 DEF CommandsAreSpecific
<1>5. CASE Abort \/ \E k \in Keys : Move(k)
  <2>1. \A u \in Thread : At(u)'
    BY <1>s, <1>t, <1>5, Quiet
  <2> QED
    BY <2>1 DEF CommandsAreSpecific
<1>6. CASE UNCHANGED vars
  BY <1>6 DEF vars, call, CommandsAreSpecific, Changes
<1> QED
  BY <1>t, <1>4, <1>5, <1>6, Steps

\* UrlParamsBuilder drops empty parameters, and still no command of RestApiImpl goes
\* out without an account, symbol, currency, amount, address, id or action that
\* narrows it, whichever argument is unusual; only a client order id may be missing.
THEOREM CommandsAlwaysSpecific == Spec => []CommandsAreSpecific
<1>1. Init => CommandsAreSpecific
  BY DEF Init, CommandsAreSpecific
<1> QED
  BY <1>1, Invariant, SpecificStep, PTL DEF Spec

-----------------------------------------------------------------------------
(* Answers put together from several requests.                             *)

Balances == {"getAccountBalanceOfType", "getAccountBalanceOfSubtype"}

\* How many requests a call has sent and how many it will: of two; one more than
\* there are accounts; one, and the balance of the account picked.
CompositeAt(t) ==
  /\ pc[t] \notin Busy => parts[t] = <<>>
  /\ pc[t] \in Busy =>
       /\ sent[t] = Len(parts[t]) + 1
       /\ op[t] \in {"getExchangeInfo", "getLastTradeAndBestQuote"} => sent[t] + Len(todo[t]) = 2
       /\ op[t] = "getAccountBalance" =>
            \/ parts[t] = <<>> /\ request[t].answer = "accounts" /\ todo[t] = <<>>
            \/ /\ parts[t] # <<>> /\ request[t].answer = "list"
               /\ sent[t] + Len(todo[t]) = 1 + Head(parts[t])
       /\ op[t] \in Balances =>
            \/ parts[t] = <<>> /\ request[t].answer = "accounts" /\ todo[t] = <<>>
            \/ sent[t] = 2 /\ request[t].answer = "list" /\ todo[t] = <<>>

CompositeInv == \A t \in Thread : CompositeAt(t)

\* One request for each of n accounts.
LEMMA BalanceList ==
  ASSUME NEW n \in Nat
  PROVE  /\ [i \in 1 .. n |-> "getBalance"] \in Seq(Later)
         /\ Len([i \in 1 .. n |-> "getBalance"]) = n
<1>1. [i \in 1 .. n |-> "getBalance"] \in [1 .. n -> Later]
  BY DEF Later
<1>2. [i \in 1 .. n |-> "getBalance"] \in Seq(Later)
  BY <1>1, SeqDef
<1> QED
  BY <1>2, LenProperties

\* How they begin.
LEMMA CompositePlan ==
  ASSUME NEW o \in Operations
  PROVE  /\ o \in {"getExchangeInfo", "getLastTradeAndBestQuote"} => Len(Tail(Plan(o))) = 1
         /\ o \in Balances \cup {"getAccountBalance"} =>
              First[o].answer = "accounts" /\ Tail(Plan(o)) = <<>>
<1>1. ASSUME o \in {"getExchangeInfo", "getLastTradeAndBestQuote"}
      PROVE  Len(Tail(Plan(o))) = 1
  <2>1. \A a, b : Len(Tail(<<a, b>>)) = 1
    OBVIOUS
  <2>2. \E a, b : Plan(o) = <<a, b>>
    BY <1>1 DEF Plan
  <2> QED
    BY <2>1, <2>2
<1>2. ASSUME o \in Balances \cup {"getAccountBalance"}
      PROVE  First[o].answer = "accounts" /\ Tail(Plan(o)) = <<>>
  <2>1. Plan(o) = <<"getAccounts">>
    BY <1>2 DEF Plan, Balances
  <2>2. Builder["getAccounts"] = getAccounts
    BY DEF Builder, Operation, Market, Query
  <2>3. First[o] = getAccounts
    BY <2>1, <2>2 DEF First, RequestOf
  <2> QED
    BY <2>1, <2>3 DEF getAccounts, createRequestByGetWithSignature
<1> QED
  BY <1>1, <1>2

\* The next request moves one from those to come to those sent.
LEMMA CompositeNext ==
  ASSUME Inv, NEW t \in Thread, CompositeAt(t), NextRequest(t)
  PROVE  CompositeAt(t)'
<1>t. TypeOK /\ Shape /\ CallInv
  BY DEF Inv
<1>1. /\ pc[t] = "answered" /\ pc'[t] = "sending" /\ Rest(t) # <<>>
      /\ request'[t].answer = RequestOf(Head(Rest(t))).answer
      /\ todo'[t] = Tail(Rest(t)) /\ op'[t] = op[t]
      /\ sent'[t] = sent[t] + 1 /\ parts'[t] = Append(parts[t], reply[t].n)
  BY <1>t DEF NextRequest, Issue, TypeOK, Shape
<1>2. Rest(t) \in Seq(Later)
  BY <1>t, RestType
<1>3. request'[t].answer = "list"
  BY <1>1, <1>2, LaterFacts
<1>4. /\ parts[t] \in Seq(Nat) /\ reply[t].n \in Nat /\ sent[t] \in Nat
      /\ todo[t] \in Seq(Later)
  BY <1>t DEF TypeOK, Shape
<1>5. /\ Len(parts'[t]) = Len(parts[t]) + 1 /\ parts'[t] # <<>>
      /\ parts[t] = <<>> => Head(parts'[t]) = reply[t].n
      /\ parts[t] # <<>> => Head(parts'[t]) = Head(parts[t])
  BY <1>1, <1>4
<1>6. Len(todo'[t]) = Len(Rest(t)) - 1
  BY <1>1, <1>2
<1>7. sent[t] = Len(parts[t]) + 1
  BY <1>1 DEF CompositeAt, Busy
<1>8. CASE Picks(t)
  <2>1. parts[t] = <<>> /\ sent[t] = 1
    BY <1>1, <1>4, <1>7, <1>8 DEF Picks, CompositeAt, Busy, Balances
  <2>2. CASE op[t] = "getAccountBalance"
    <3>1. Len(Rest(t)) = reply[t].n
      BY <1>4, <1>8, <2>2, BalanceList DEF Rest
    <3> QED
      BY <1>1, <1>3, <1>4, <1>5, <1>6, <2>1, <2>2, <3>1 DEF CompositeAt, Busy, Balances
  <2>3. CASE op[t] # "getAccountBalance"
    <3>1. Rest(t) = <<"getBalance">>
      BY <1>1, <1>8, <2>3 DEF Rest
    <3>2. todo'[t] = <<>>
      BY <1>1, <3>1
    <3> QED
      BY <1>1, <1>3, <1>5, <1>8, <2>1, <2>3, <3>2 DEF CompositeAt, Busy, Balances, Picks
  <2> QED
    BY <2>2, <2>3
<1>9. CASE ~ Picks(t)
  <2>1. Rest(t) = todo[t]
    BY <1>9 DEF Rest
  <2>2. op[t] \notin Balances
    BY <1>1, <1>9, <2>1 DEF CompositeAt, Busy, Balances, Picks
  <2>3. CASE op[t] = "getAccountBalance"
    <3>1. /\ parts[t] # <<>>
          /\ sent[t] + Len(todo[t]) = 1 + Head(parts[t])
      BY <1>1, <2>1, <2>3 DEF CompositeAt, Busy
    <3>2. sent'[t] + Len(todo'[t]) = 1 + Head(parts'[t])
      BY <1>1, <1>4, <1>5, <1>6, <2>1, <3>1
    <3> QED
      BY <1>1, <1>3, <1>4, <1>5, <1>7, <2>3, <3>2 DEF CompositeAt, Busy, Balances
  <2>4. CASE op[t] # "getAccountBalance"
    <3>1. sent'[t] = Len(parts'[t]) + 1 /\ pc'[t] \in Busy
      BY <1>1, <1>4, <1>5, <1>7 DEF Busy
    <3>2. sent'[t] + Len(todo'[t]) = sent[t] + Len(todo[t])
      BY <1>1, <1>4, <1>6, <2>1
    <3>3. op[t] \in {"getExchangeInfo", "getLastTradeAndBestQuote"} =>
            sent[t] + Len(todo[t]) = 2
      BY <1>1 DEF CompositeAt, Busy
    <3> QED
      BY <1>1, <2>2, <2>4, <3>1, <3>2, <3>3 DEF CompositeAt
  <2> QED
    BY <2>3, <2>4
<1> QED
  BY <1>8, <1>9

\* Every step keeps the count.
LEMMA CompositeStep == Inv /\ CompositeInv /\ [Next]_vars => CompositeInv'
<1> SUFFICES ASSUME Inv, CompositeInv, [Next]_vars
             PROVE  CompositeInv'
  OBVIOUS
<1>t. TypeOK /\ Shape
  BY DEF Inv
<1>s. ASSUME NEW u \in Thread, parts'[u] = parts[u], sent'[u] = sent[u], op'[u] = op[u],
             todo'[u] = todo[u], request'[u] = request[u], pc'[u] \in Busy <=> pc[u] \in Busy
      PROVE  CompositeAt(u)'
  BY <1>s DEF CompositeInv, CompositeAt
<1>1. ASSUME NEW t \in Thread, NEW k, NEW o, Starts(t, k, o)
      PROVE  CompositeAt(t)'
  <2>1. /\ pc[t] = "idle" /\ pc'[t] = "sending" /\ sent'[t] = 1 /\ parts'[t] = parts[t]
        /\ request'[t].answer = First[o].answer /\ todo'[t] = Tail(Plan(o))
        /\ op'[t] = IF o \in Composite THEN o ELSE "one"
    BY <1>1, <1>t DEF Starts, Begin, Issue, TypeOK, Shape
  <2>2. parts'[t] = <<>> /\ Len(parts'[t]) = 0
    BY <2>1 DEF CompositeInv, CompositeAt, Busy
  <2>3. o \in Operations
    BY <1>1 DEF Starts
  <2>4. /\ o \in {"getExchangeInfo", "getLastTradeAndBestQuote"} => Len(Tail(Plan(o))) = 1
        /\ o \in Balances \cup {"getAccountBalance"} =>
              First[o].answer = "accounts" /\ Tail(Plan(o)) = <<>>
    BY <2>3, CompositePlan
  <2>5. op'[t] = o \/ op'[t] = "one"
    BY <2>1
  <2> QED
    BY <2>1, <2>2, <2>4, <2>5 DEF CompositeAt, Busy, Balances
<1>2. ASSUME NEW t \in Thread, NEW x, Finish(t, x)
      PROVE  CompositeAt(t)'
  BY <1>2, <1>t DEF Finish, CompositeAt, Busy, TypeOK
<1>3. ASSUME NEW t \in Thread, Fail(t) \/ Conclude(t) \/ Update(t)
      PROVE  CompositeAt(t)'
  BY <1>2, <1>3 DEF Fail, Conclude, Update
<1>4. ASSUME NEW t \in Thread, NextRequest(t)
      PROVE  CompositeAt(t)'
  BY <1>4, CompositeNext DEF CompositeInv
<1>5. ASSUME NEW t \in Thread,
             ConstructKeyless(t) \/ Refuse(t) \/ Serve(t) \/ Reject(t) \/ Lose(t) \/ Late(t)
      PROVE  CompositeAt(t)'
  <2>1. pc'[t] \in Busy <=> pc[t] \in Busy
    BY <1>5, <1>t DEF ConstructKeyless, Refuse, Serve, Reject, Lose, Late, Busy, TypeOK
  <2>2. UNCHANGED call
    BY <1>5 DEF ConstructKeyless, Refuse, Serve, Reject, Lose, Late
  <2> QED
    BY <1>s, <2>1, <2>2 DEF call
<1>6. ASSUME NEW t \in Thread, Listen(t) \/ implCallback(t) \/ (pc[t] = "service" /\ Leave(t))
      PROVE  CompositeAt(t)'
  <2>1. pc'[t] \in Busy <=> pc[t] \in Busy
    BY <1>6, <1>t DEF Listen, implCallback, Leave, Busy, TypeOK
  <2>2. UNCHANGED call
    BY <1>6 DEF Listen, implCallback, Leave
  <2> QED
    BY <1>s, <2>1, <2>2 DEF call
<1>7. ASSUME NEW t \in Thread, Turn(t)
      PROVE  CompositeInv'
  <2>1. CompositeAt(t)'
    BY <1>1, <1>3, <1>4, <1>5, <1>6, <1>7 DEF Turn
  <2>2. \A u \in Thread \ {t} : CompositeAt(u)'
    BY <1>s, <1>t, <1>7, Others DEF Same
  <2> QED
    BY <2>1, <2>2 DEF CompositeInv
<1>8. CASE Abort \/ \E k \in Keys : Move(k)
  BY <1>s, <1>t, <1>8, Quiet DEF CompositeInv, Same
<1>9. CASE UNCHANGED vars
  BY <1>s, <1>9 DEF vars, call, CompositeInv
<1> QED
  BY <1>t, <1>7, <1>8, <1>9, Steps

\* What returns has none to come.
LEMMA WholeFacts ==
  ASSUME Inv, NEW t \in Thread, CompositeAt(t), Conclude(t) \/ Update(t),
         result'[t].kind = "return"
  PROVE  Whole(t)
<1>t. TypeOK /\ Shape /\ CallInv
  BY DEF Inv
<1>1. pc[t] = "answered" /\ "return" \in Outcome(t)
  BY DEF Conclude, Update
<1>2. reply[t].body = "ok"
  BY <1>t, <1>1, ReturnFacts
<1>3. /\ parts[t] \in Seq(Nat) /\ reply[t].n \in Nat /\ sent[t] \in Nat
      /\ todo[t] \in Seq(Later) /\ sent[t] = Len(parts[t]) + 1
  BY <1>t, <1>1 DEF TypeOK, Shape, CompositeAt, Busy
<1>4. CASE Update(t)
  BY <1>2, <1>3, <1>4 DEF Update, Whole
<1>5. CASE Conclude(t)
  <2>1. Rest(t) = <<>> /\ ~ Unmatched(t)
    BY <1>5, <1>t DEF Conclude, Finish, TypeOK
  <2>2. ASSUME op[t] \in {"getExchangeInfo", "getLastTradeAndBestQuote"}
        PROVE  sent[t] = 2
    <3>1. todo[t] = <<>>
      BY <2>1, <2>2 DEF Rest, Picks
    <3> QED
      BY <1>1, <1>3, <2>2, <3>1 DEF CompositeAt, Busy
  <2>3. ASSUME op[t] \in Balances
        PROVE  sent[t] = 2
    <3>1. ~ Picks(t)
      BY <2>1, <2>3 DEF Rest, Unmatched, Balances
    <3> QED
      BY <1>1, <2>3, <3>1 DEF CompositeAt, Busy, Picks, Balances
  <2>4. ASSUME op[t] = "getAccountBalance"
        PROVE  sent[t] = 1 + Head(Append(parts[t], reply[t].n))
    <3>1. CASE Picks(t)
      <4>1. parts[t] = <<>>
        BY <1>1, <2>4, <3>1 DEF CompositeAt, Busy, Picks
      <4>2. Rest(t) = [i \in 1 .. reply[t].n |-> "getBalance"]
        BY <2>4, <3>1 DEF Rest
      <4>3. reply[t].n = 0
        BY <1>3, <2>1, <4>2, BalanceList
      <4> QED
        BY <1>3, <4>1, <4>3
    <3>2. CASE ~ Picks(t)
      <4>1. todo[t] = <<>>
        BY <2>1, <3>2 DEF Rest
      <4>2. parts[t] # <<>> /\ sent[t] + Len(todo[t]) = 1 + Head(parts[t])
        BY <1>1, <2>4, <3>2 DEF CompositeAt, Busy, Picks
      <4>3. Head(Append(parts[t], reply[t].n)) = Head(parts[t]) /\ Head(parts[t]) \in Nat
        BY <1>3, <4>2
      <4> QED
        BY <1>3, <4>1, <4>2, <4>3
    <3> QED
      BY <3>1, <3>2
  <2> QED
    BY <1>2, <1>3, <2>2, <2>3, <2>4 DEF Whole, Balances
<1> QED
  BY <1>4, <1>5

\* SyncClientImpl::getExchangeInfo, getLastTradeAndBestQuote, getAccountBalance: what
\* they return was answered in all its parts, for lists of any length.
THEOREM CompositesWhole == Spec => CompositeIsWhole
<1>1. Init => CompositeInv
  BY DEF Init, CompositeInv, CompositeAt, Busy
<1>2. Inv /\ CompositeInv /\ [Next]_vars =>
        [\A t \in Thread : pc[t] = "answered" /\ pc'[t] = "idle" /\ result'[t].kind = "return"
           => Whole(t)]_vars
  <2> SUFFICES ASSUME Inv, CompositeInv, Next, NEW u \in Thread, pc[u] = "answered",
                      pc'[u] = "idle", result'[u].kind = "return"
               PROVE  Whole(u)
    OBVIOUS
  <2>t. TypeOK /\ Shape
    BY DEF Inv
  <2>1. Turn(u)
    <3>1. ASSUME Abort \/ \E k \in Keys : Move(k)
          PROVE  FALSE
      BY <2>t, <3>1, Quiet DEF Same
    <3>2. PICK t \in Thread : Turn(t)
      BY <2>t, <3>1, Steps
    <3>3. t = u
      BY <2>t, <3>2, Others DEF Same
    <3> QED
      BY <3>2, <3>3
  <2>2. ~ Fail(u)
    BY <2>t DEF Fail, Finish, TypeOK
  <2>3. Conclude(u) \/ Update(u)
    BY <2>t, <2>1, <2>2
       DEF Turn, Starts, Begin, Issue, ConstructKeyless, Refuse, Serve, Reject, Lose, Late,
         NextRequest, Listen, implCallback, Speaks, TypeOK
  <2> QED
    BY <2>3, WholeFacts DEF CompositeInv
<1> QED
  BY <1>1, <1>2, Invariant, CompositeStep, PTL DEF Spec, CompositeIsWhole

-----------------------------------------------------------------------------
(* The refinement.                                                         *)

Verdicts == [t \in Thread |-> Verdict(result[t])]

\* What RemoteCall sees of a turn.
LEMMA Seen ==
  ASSUME NEW t \in Thread, \A u \in Thread \ {t} : Same(u)
  PROVE  /\ Phase' = [Phase EXCEPT ![t] = IF pc'[t] \in Busy THEN "open" ELSE "idle"]
         /\ Verdicts' = [Verdicts EXCEPT ![t] = Verdict(result'[t])]
<1>1. \A u \in Thread \ {t} : pc'[u] = pc[u] /\ result'[u] = result[u]
  BY DEF Same
<1>2. Phase' = [Phase EXCEPT ![t] = IF pc'[t] \in Busy THEN "open" ELSE "idle"]
  BY <1>1 DEF Phase, Busy
<1>3. Verdicts' = [u \in Thread |-> Verdict(result'[u])]
  BY DEF Verdicts, Verdict
<1>4. \A u \in Thread \ {t} : Verdict(result'[u]) = Verdict(result[u])
  BY <1>1
<1>5. Verdicts' = [Verdicts EXCEPT ![t] = Verdict(result'[t])]
  BY <1>3, <1>4 DEF Verdicts
<1> QED
  BY <1>2, <1>5

\* callSync returns from a command that was done, throws ExecError or InputError from
\* one that was refused, and RuntimeError where it cannot know.
LEMMA EndFacts ==
  ASSUME Inv, NEW t \in Thread, NEW x \in Results \ {"none"}, Finish(t, x), pc[t] = "answered",
         Changes(t) => x \in Outcome(t)
  PROVE  /\ Verdict(result'[t]) \in {"done", "refused", "unknown"}
         /\ Verdict(result'[t]) = "done" => effect[t] = 1
         /\ Verdict(result'[t]) = "refused" => effect[t] = 0
<1>t. TypeOK /\ CallInv /\ EffectAt(t)
  BY DEF Inv, EffectInv
<1>1. result'[t] = [kind |-> x, command |-> Changes(t)]
  BY <1>t DEF Finish, TypeOK
<1>2. CASE ~ Changes(t)
  <2>1. Verdict(result'[t]) = "unknown"
    BY <1>1, <1>2 DEF Verdict
  <2> QED
    BY <2>1
<1>3. CASE Changes(t)
  <2>1. reply[t].body \in {"ok", "error", "bare", "lost"}
    BY <1>t DEF TypeOK, Bodies
  <2>2. /\ reply[t].body = "ok" => x = "return" /\ effect[t] = 1
        /\ reply[t].body = "error" => x = "ExecError" /\ effect[t] = 0
        /\ reply[t].body = "bare" => x \in {"RuntimeError", "InputError"} /\ effect[t] = 0
        /\ reply[t].body = "lost" => x \in {"RuntimeError", "crash"}
    BY <1>3, <1>t, CommandOutcome DEF EffectAt
  <2>3. "crash" \notin Results
    BY DEF Results
  <2>4. result'[t].kind = x /\ result'[t].command
    BY <1>1, <1>3
  <2> QED
    BY <2>1, <2>2, <2>3, <2>4 DEF Verdict
<1> QED
  BY <1>2, <1>3

\* Every step is one of RemoteCall or invisible in it.
LEMMA RemoteStep == Inv /\ [Next]_vars => [Remote!Next]_Remote!vars
<1> SUFFICES ASSUME Inv, [Next]_vars
             PROVE  Remote!Next \/ UNCHANGED <<Phase, effect, Verdicts>>
  BY DEF Remote!vars, Verdicts
<1>t. TypeOK /\ Shape /\ CallInv /\ EffectInv
  BY DEF Inv
<1>q. ASSUME UNCHANGED <<pc, effect, result>>
      PROVE  UNCHANGED <<Phase, effect, Verdicts>>
  BY <1>q DEF Phase, Verdicts, Verdict
<1>s. ASSUME NEW t \in Thread, Turn(t)
      PROVE  /\ Phase' = [Phase EXCEPT ![t] = IF pc'[t] \in Busy THEN "open" ELSE "idle"]
             /\ Verdicts' = [Verdicts EXCEPT ![t] = Verdict(result'[t])]
  BY <1>s, <1>t, Others, Seen
<1>p. \A t \in Thread : /\ Phase[t] = (IF pc[t] \in Busy THEN "open" ELSE "idle")
                         /\ Verdicts[t] = Verdict(result[t])
  BY DEF Phase, Verdicts
<1>d. Phase = [t \in Thread |-> Phase[t]] /\ Verdicts = [t \in Thread |-> Verdicts[t]]
  BY DEF Phase, Verdicts
<1>1. ASSUME NEW t \in Thread, NEW k, NEW o, Starts(t, k, o)
      PROVE  Remote!Begin(t)
  <2>1. Turn(t)
    BY <1>1 DEF Turn
  <2>2. /\ pc[t] = "idle" /\ pc'[t] = "sending" /\ result'[t] = Nothing
        /\ effect' = [effect EXCEPT ![t] = 0]
    BY <1>1, <1>t DEF Starts, Begin, Issue, TypeOK
  <2>3. Verdict(Nothing) = "none"
    BY DEF Verdict, Nothing
  <2> QED
    BY <1>s, <1>p, <2>1, <2>2, <2>3 DEF Remote!Begin, Busy, Verdicts
<1>2. ASSUME NEW t \in Thread, Refuse(t)
      PROVE  Remote!Refuse(t)
  <2>1. Turn(t)
    BY <1>2 DEF Turn
  <2>2. /\ pc[t] = "idle" /\ UNCHANGED pc
        /\ effect' = [effect EXCEPT ![t] = 0]
    BY <1>2 DEF Refuse, TypeOK
  <2>3. \E x \in {"InputError", "RuntimeError", "AccountError", "KeyMissing"}, c \in BOOLEAN :
          result'[t] = [kind |-> x, command |-> c]
    <3>1. \A k, q, w : Refusal(k, q, w) \in {"none", "RuntimeError", "AccountError", "KeyMissing"}
      BY DEF Refusal
    <3>2. PICK o \in Menu[t] : \E w \in Wishes(o) :
            \E x \in {Refusal(client[t], First[o], w)} \cup
                      (IF o \in Faulty THEN {"InputError"} ELSE {}) :
              /\ x # "none"
              /\ result' = [result EXCEPT ![t] = [kind |-> x, command |-> First[o].method = "POST"]]
      BY <1>2, Zenon DEF Refuse
    <3> DEFINE c == First[o].method = "POST"
    <3>3. c \in BOOLEAN
      OBVIOUS
    <3>4. PICK w \in Wishes(o) :
            \E x \in {Refusal(client[t], First[o], w)} \cup
                      (IF o \in Faulty THEN {"InputError"} ELSE {}) :
              x # "none" /\ result' = [result EXCEPT ![t] = [kind |-> x, command |-> c]]
      BY <3>2
    <3> HIDE DEF c
    <3>5. PICK x : /\ x \in {Refusal(client[t], First[o], w), "InputError"} /\ x # "none"
                   /\ result' = [result EXCEPT ![t] = [kind |-> x, command |-> c]]
      BY <3>4
    <3>6. x \in {"InputError", "RuntimeError", "AccountError", "KeyMissing"}
      BY <3>1, <3>5
    <3>7. result'[t] = [kind |-> x, command |-> c]
      BY <1>t, <3>5 DEF TypeOK
    <3>8. \E d \in BOOLEAN : result'[t] = [kind |-> x, command |-> d]
      BY <3>3, <3>7, Zenon
    <3> QED
      BY <3>6, <3>8, Zenon
  <2>4. Verdict(result'[t]) \in {"refused", "unknown"}
    BY <2>3 DEF Verdict
  <2>5. UNCHANGED Phase
    BY <2>2 DEF Phase
  <2> QED
    BY <1>s, <1>p, <2>1, <2>2, <2>4, <2>5 DEF Remote!Refuse, Busy, Verdicts
<1>3. ASSUME NEW t \in Thread, Serve(t)
      PROVE  Remote!CarryOut(t) \/ UNCHANGED <<Phase, effect, Verdicts>>
  <2>1. pc[t] = "sending" /\ pc' = [pc EXCEPT ![t] = "answered"] /\ UNCHANGED result
    BY <1>3 DEF Serve
  <2>2. UNCHANGED <<Phase, Verdicts>>
    BY <2>1, <1>t DEF Phase, Verdicts, Verdict, TypeOK, Busy
  <2>3. effect[t] = 0 /\ effect' = [effect EXCEPT ![t] = IF Changes(t) THEN 1 ELSE effect[t]]
    <3>1. effect[t] = 0
      BY <1>t, <2>1 DEF EffectInv, EffectAt
    <3>2. effect' = [effect EXCEPT ![t] = IF Changes(t) THEN effect[t] + 1 ELSE effect[t]]
      BY <1>3 DEF Serve
    <3> QED
      BY <3>1, <3>2
  <2>4. CASE Changes(t)
    BY <1>p, <2>1, <2>2, <2>3, <2>4 DEF Remote!CarryOut, Busy, Verdicts
  <2>5. CASE ~ Changes(t)
    <3>1. effect' = effect
      BY <1>t, <2>3, <2>5 DEF TypeOK
    <3> QED
      BY <2>2, <3>1
  <2> QED
    BY <2>4, <2>5
<1>4. ASSUME NEW t \in Thread, Reject(t) \/ Lose(t)
      PROVE  UNCHANGED <<Phase, effect, Verdicts>>
  <2>1. /\ pc[t] = "sending" /\ pc' = [pc EXCEPT ![t] = "answered"]
        /\ UNCHANGED <<result, effect>>
    BY <1>4 DEF Reject, Lose, ends
  <2> QED
    BY <2>1, <1>t DEF Phase, Verdicts, Verdict, TypeOK, Busy
<1>5. ASSUME NEW t \in Thread, Late(t)
      PROVE  Remote!CarryOut(t)
  <2>1. /\ wire[t] /\ pc[t] # "sending" /\ UNCHANGED <<pc, result>>
        /\ effect' = [effect EXCEPT ![t] = effect[t] + 1]
    BY <1>5 DEF Late, call
  <2>2. effect[t] = 0 /\ (pc[t] = "answered" \/ Verdict(result[t]) = "unknown")
    BY <1>t, <2>1 DEF EffectInv, EffectAt, TypeOK
  <2>3. UNCHANGED <<Phase, Verdicts>>
    BY <2>1 DEF Phase, Verdicts, Verdict
  <2>4. effect' = [effect EXCEPT ![t] = 1]
    BY <2>1, <2>2
  <2> QED
    BY <1>p, <2>2, <2>3, <2>4 DEF Remote!CarryOut, Busy, Verdicts
<1>6. ASSUME NEW t \in Thread, Fail(t) \/ Conclude(t) \/ Update(t)
      PROVE  Remote!End(t)
  <2>1. Turn(t)
    BY <1>6 DEF Turn
  <2>2. pc[t] = "answered"
    BY <1>6 DEF Fail, Conclude, Update
  <2>3. PICK x \in Results \ {"none"} : Finish(t, x) /\ (Changes(t) => x \in Outcome(t))
    <3>1. CASE Fail(t)
      BY <1>t, <3>1, OutcomeType DEF Fail
    <3>2. CASE Update(t)
      BY <3>2 DEF Update, Results
    <3>3. CASE Conclude(t)
      <4>1. Changes(t) => ~ NoTrade(t) /\ ~ Unmatched(t)
        BY <1>t, <2>2 DEF CallInv, Busy, NoTrade, Unmatched, Picks
      <4>2. CASE Changes(t)
        <5>1. Finish(t, "return") /\ "return" \in Outcome(t)
          BY <3>3, <4>1, <4>2 DEF Conclude
        <5> QED
          BY <5>1 DEF Results
      <4>3. CASE ~ Changes(t)
        BY <3>3, <4>3 DEF Conclude, Results
      <4> QED
        BY <4>2, <4>3
    <3> QED
      BY <1>6, <3>1, <3>2, <3>3
  <2>4. /\ Verdict(result'[t]) \in {"done", "refused", "unknown"}
        /\ Verdict(result'[t]) = "done" => effect[t] = 1
        /\ Verdict(result'[t]) = "refused" => effect[t] = 0
    BY <2>2, <2>3, EndFacts
  <2>5. pc'[t] = "idle" /\ UNCHANGED effect
    BY <1>t, <2>3 DEF Finish, TypeOK
  <2> QED
    BY <1>s, <1>p, <2>1, <2>2, <2>4, <2>5 DEF Remote!End, Busy, Verdicts
<1>7. ASSUME NEW t \in Thread, Listen(t)
      PROVE  Remote!Forget(t)
  <2>1. Turn(t)
    BY <1>7 DEF Turn
  <2>2. /\ pc[t] = "idle" /\ pc'[t] = "service" /\ result'[t] = Nothing
        /\ effect' = [effect EXCEPT ![t] = 0]
    BY <1>7, <1>t DEF Listen, TypeOK
  <2>3. Verdict(Nothing) = "none"
    BY DEF Verdict, Nothing
  <2>4. Phase' = Phase
    BY <1>s, <1>p, <1>d, <2>1, <2>2 DEF Busy
  <2> QED
    BY <1>s, <1>p, <2>1, <2>2, <2>3, <2>4 DEF Remote!Forget, Busy, Verdicts
<1>8. ASSUME NEW t \in Thread, pc[t] = "service" /\ Leave(t)
      PROVE  UNCHANGED <<Phase, effect, Verdicts>>
  BY <1>8, <1>t DEF Leave, ends, Phase, Verdicts, Verdict, TypeOK, Busy
<1>9. ASSUME NEW t \in Thread, NextRequest(t)
      PROVE  UNCHANGED <<Phase, effect, Verdicts>>
  BY <1>9, <1>t DEF NextRequest, Issue, ends, Phase, Verdicts, Verdict, TypeOK, Busy
<1>10. ASSUME NEW t \in Thread, ConstructKeyless(t) \/ implCallback(t)
      PROVE  UNCHANGED <<Phase, effect, Verdicts>>
  BY <1>10, <1>q DEF ConstructKeyless, implCallback, ends
<1>11. CASE Abort \/ (\E k \in Keys : Move(k)) \/ UNCHANGED vars
  BY <1>11, <1>q DEF Abort, Move, ends, vars
<1>12. ASSUME NEW t \in Thread, Turn(t)
      PROVE  (\E u \in Thread : Remote!Begin(u) \/ Remote!Refuse(u) \/ Remote!Forget(u)
                                  \/ Remote!CarryOut(u) \/ Remote!End(u))
               \/ UNCHANGED <<Phase, effect, Verdicts>>
  BY <1>12, <1>1, <1>2, <1>3, <1>4, <1>5, <1>6, <1>7, <1>8, <1>9, <1>10 DEF Turn
<1> QED
  BY <1>t, <1>11, <1>12, Steps DEF Remote!Next

\* RestApiInvoke::callSync: the blocking calls implement RemoteCall, with lost answers
\* and late effects: no verdict is wrong and no command is carried out twice.
THEOREM CallsImplementRemoteCall == Spec => ImplementsRemoteCall
<1>1. Init => Remote!Init
  BY DEF Init, Remote!Init, Phase, Verdict, Nothing, Busy
<1> QED
  BY <1>1, Invariant, RemoteStep, PTL DEF Spec, ImplementsRemoteCall, Remote!Spec
=============================================================================
