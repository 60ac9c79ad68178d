----------------------------- MODULE WebSocketApi ---------------------------
(***************************************************************************)
(* The subscriptions and requests WebSocketApiImpl builds, one definition  *)
(* per builder: the flags that choose the line and the signature, what its *)
(* connectionHandler sends for n symbols, the count a request sets in time,*)
(* and the accounts its parser looks up.  The symbols have been through    *)
(* parseSymbols of the client.                                             *)
(*                                                                         *)
(* A message is known by the field that names its operation: "sub" or      *)
(* "req" itself, "op", or "action" (Channels).                             *)
(***************************************************************************)
EXTENDS Naturals

Key == {"market", "op", "action"}
Line == {"/ws", "/ws/v1", "/ws/v2"}

\* The key of the messages of a channel.
klineChannel == "market"
tradeChannel == "market"
priceDepthChannel == "market"
tradeStatisticsChannel == "market"
marketBBOChannel == "market"
MarketDepthMBP == "market"
MarketDepthMBPrefresh == "market"
accountChannel == "op"
orderChannel == "op"
newOrderChannel == "op"
accountListChannel == "op"
orderListChannel == "op"
orderDetailChannel == "op"
tradeClearingChannel == "action"
accountUpdateChannel == "action"
orderUpdateChannel == "action"

(***************************************************************************)
(* each: one message per symbol, or one in all.  time: what the counter    *)
(* starts at for n symbols.  lookup: an account per event, per entry of a  *)
(* list, or none.                                                          *)
(***************************************************************************)
Subscription(channel, signed, v2, each, lookup) ==
  [channel |-> channel, isNeedSignature |-> signed, isV2 |-> v2, each |-> each,
   lookup |-> lookup, request |-> FALSE, time |-> "none"]

Request(channel, signed, each, time, lookup) ==
  [channel |-> channel, isNeedSignature |-> signed, isV2 |-> FALSE, each |-> each,
   lookup |-> lookup, request |-> TRUE, time |-> time]

subscribeCandlestickEvent == Subscription(klineChannel, FALSE, FALSE, TRUE, "none")
subscribeTradeEvent == Subscription(tradeChannel, FALSE, FALSE, TRUE, "none")
subscribePriceDepthEvent == Subscription(priceDepthChannel, FALSE, FALSE, TRUE, "none")
subscribe24HTradeStatisticsEvent ==
  Subscription(tradeStatisticsChannel, FALSE, FALSE, TRUE, "none")
subscribeMarketBBOEvent == Subscription(marketBBOChannel, FALSE, FALSE, TRUE, "none")
subscribeMarketDepthMBP == Subscription(MarketDepthMBP, FALSE, FALSE, TRUE, "none")
subscribeMarketDepthMBPrefresh ==
  Subscription(MarketDepthMBPrefresh, FALSE, FALSE, TRUE, "none")

subscribeOrderUpdateEvent == Subscription(orderChannel, TRUE, FALSE, TRUE, "one")
subscribeAccountEvent == Subscription(accountChannel, TRUE, FALSE, FALSE, "list")
subscribeOrderUpdateNewEvent == Subscription(newOrderChannel, TRUE, FALSE, TRUE, "none")
subscribeTradeClearingEvent == Subscription(tradeClearingChannel, TRUE, TRUE, TRUE, "none")
subscribeAccountUpdateEvent == Subscription(accountUpdateChannel, TRUE, TRUE, FALSE, "none")

\* Mutant: the flag of the second version is forgotten.
OrderUpdateV1 == Subscription(orderUpdateChannel, TRUE, FALSE, TRUE, "none")

subscribeOrderUpdateV2 == Subscription(orderUpdateChannel, TRUE, TRUE, TRUE, "none")

requestCandlestickEvent == Request(klineChannel, FALSE, TRUE, "symbols", "none")
requestPriceDepthEvent == Request(priceDepthChannel, FALSE, TRUE, "symbols", "none")
requestTradeEvent == Request(tradeChannel, FALSE, TRUE, "symbols", "none")
request24HTradeStatistics == Request(tradeStatisticsChannel, FALSE, TRUE, "symbols", "none")
requestMarketDepthMBPEvent == Request(MarketDepthMBP, FALSE, TRUE, "symbols", "none")
requestAccountList == Request(accountListChannel, TRUE, FALSE, "one", "none")
\* Mutant: one answer is waited for, however many symbols were asked.
OrderListOnce == Request(orderListChannel, TRUE, TRUE, "one", "list")

requestOrdertListEvent == Request(orderListChannel, TRUE, TRUE, "symbols", "list")
requestOrdertDetailEvent == Request(orderDetailChannel, TRUE, FALSE, "one", "one")

Feeds ==
  [subscribeCandlestickEvent |-> subscribeCandlestickEvent,
   subscribeTradeEvent |-> subscribeTradeEvent,
   subscribePriceDepthEvent |-> subscribePriceDepthEvent,
   subscribe24HTradeStatisticsEvent |-> subscribe24HTradeStatisticsEvent,
   subscribeMarketBBOEvent |-> subscribeMarketBBOEvent,
   subscribeMarketDepthMBP |-> subscribeMarketDepthMBP,
   subscribeMarketDepthMBPrefresh |-> subscribeMarketDepthMBPrefresh,
   subscribeOrderUpdateEvent |-> subscribeOrderUpdateEvent,
   subscribeAccountEvent |-> subscribeAccountEvent,
   subscribeOrderUpdateNewEvent |-> subscribeOrderUpdateNewEvent,
   subscribeTradeClearingEvent |-> subscribeTradeClearingEvent,
   subscribeAccountUpdateEvent |-> subscribeAccountUpdateEvent,
   subscribeOrderUpdateV2 |-> subscribeOrderUpdateV2,
   requestCandlestickEvent |-> requestCandlestickEvent,
   requestPriceDepthEvent |-> requestPriceDepthEvent,
   requestTradeEvent |-> requestTradeEvent,
   request24HTradeStatistics |-> request24HTradeStatistics,
   requestMarketDepthMBPEvent |-> requestMarketDepthMBPEvent,
   requestAccountList |-> requestAccountList,
   requestOrdertListEvent |-> requestOrdertListEvent,
   requestOrdertDetailEvent |-> requestOrdertDetailEvent]

\* The path of the connection.
path(r) ==
  IF r.isNeedSignature THEN IF r.isV2 THEN "/ws/v2" ELSE "/ws/v1" ELSE "/ws"

\* The key the server of a line reads.
Reads(line) == IF line = "/ws" THEN "market" ELSE IF line = "/ws/v1" THEN "op" ELSE "action"

Messages(r, n) == IF r.each THEN n ELSE 1
Time(r, n) == CASE r.time = "none" -> 0 [] r.time = "one" -> 1 [] r.time = "symbols" -> n
=============================================================================
