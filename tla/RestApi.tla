------------------------------ MODULE RestApi -------------------------------
(***************************************************************************)
(* The requests RestApiImpl builds, one definition per builder.  A request *)
(* is what the rest of the client can tell apart: its method, whether it is*)
(* signed, the form of its answers, which values its arguments may have,   *)
(* where each of them goes, and what its parser does with an answer.       *)
(*                                                                         *)
(* A value of an argument is "none" (zero, empty, null), "good", or "bad"  *)
(* (negative, out of range, with a special character).  A check of         *)
(* InputChecker is the set of the values it lets pass; an argument without *)
(* a check may have any.  Dates, paths and spelling are left out.          *)
(***************************************************************************)
EXTENDS Naturals

Value == {"none", "good", "bad"}

checkSymbol == {"good"}
checkCurrency == {"good"}
checkETF == {"good"}
shouldBiggerThanZero == {"good"}
checkList == {"good"}
shouldZero == {"none"}
shouldNotNull == {"good", "bad"}
checkEnumNull == {"good", "bad"}
greaterOrEqual(base) == IF base > 0 THEN {"good"} ELSE {"none", "good"}
checkRange(min) == IF min > 0 THEN {"good"} ELSE {"none", "good"}
checkDate == {"none", "good"}

\* The symbols of a comma-separated list, each through checkSymbol: an empty
\* list has none.
checkEach == {"none", "good"}

NoChecks == [a \in {} |-> Value]

(***************************************************************************)
(* form: the field by which checkResponse knows an answer.  params: the    *)
(* arguments put into the url or the body, path: those that choose or fill *)
(* the path.  "account" stands for the account id looked up with the type  *)
(* and subtype asked for.  answer: the way of the parser,                  *)
(*   "value", "list": fields of data; "accounts": the list of getAccounts; *)
(*   "first": element 0, there or not; "entries": as many as were asked;   *)
(*   "order", "orders", "loans": the accounts of the entries are looked up;*)
(*   "skewed": the inner list is read at the index of the outer one;       *)
(*   "ledger": ids and times go through stoi.                              *)
(***************************************************************************)
createRequestByGet(form, checks, params, path, answer) ==
  [method |-> "GET", signed |-> FALSE, form |-> form, checks |-> checks,
   params |-> params, path |-> path, answer |-> answer]

createRequestByGetWithSignature(form, checks, params, path, answer) ==
  [method |-> "GET", signed |-> TRUE, form |-> form, checks |-> checks,
   params |-> params, path |-> path, answer |-> answer]

createRequestByPostWithSignature(form, checks, params, path, answer) ==
  [method |-> "POST", signed |-> TRUE, form |-> form, checks |-> checks,
   params |-> params, path |-> path, answer |-> answer]

Arguments(r) == DOMAIN r.checks \cup r.params \cup r.path
Allowed(r, a) == IF a \in DOMAIN r.checks THEN r.checks[a] ELSE Value

\* putUrl and putPost leave out an argument that is zero or empty.
put(r, args) == {a \in r.params : args[a] # "none"}

-----------------------------------------------------------------------------
(* The market.                                                             *)

getExchangeTimestamp == createRequestByGet("status", NoChecks, {}, {}, "value")

getCandlestick ==
  createRequestByGet("status", [symbol |-> checkSymbol, size |-> checkRange(1)],
    {"symbol", "interval", "size", "startTime", "endTime"}, {}, "list")

\* fromId is dropped.
getHistoricalTrade ==
  createRequestByGet("status", [symbol |-> checkSymbol, size |-> checkRange(1)],
    {"symbol", "size"}, {}, "list")

getSymbols == createRequestByGet("status", NoChecks, {}, {}, "list")
getCurrencies == createRequestByGet("status", NoChecks, {}, {}, "list")

getBestQuote ==
  createRequestByGet("status", [symbol |-> checkSymbol], {"symbol"}, {}, "first")

\* size is for the parser only.
getPriceDepth ==
  createRequestByGet("status", [symbol |-> checkSymbol, size |-> checkRange(1)],
    {"symbol"}, {}, "entries")

get24HTradeStatistics ==
  createRequestByGet("status", [symbol |-> checkSymbol], {"symbol"}, {}, "value")

getMarketTrade ==
  createRequestByGet("status", [symbol |-> checkSymbol], {"symbol"}, {}, "first")

getMarketTickers == createRequestByGet("status", NoChecks, {}, {}, "list")

getReferenceCurrencies ==
  createRequestByGet("code", NoChecks, {"currency", "authorizedUser"}, {}, "list")

getEtfSwapConfig ==
  createRequestByGet("success", [etfSymbol |-> checkETF], {"etfSymbol"}, {}, "value")

getETFCandlestick ==
  createRequestByGet("success",
    [etfSymbol |-> checkETF, size |-> checkRange(1), interval |-> shouldNotNull],
    {"etfSymbol", "interval", "size"}, {}, "list")

-----------------------------------------------------------------------------
(* Accounts, wallets and loans: what is asked.                             *)

getAccounts == createRequestByGetWithSignature("status", NoChecks, {}, {}, "accounts")
getBalance == createRequestByGetWithSignature("status", NoChecks, {}, {"accountId"}, "list")

getWithdrawHistory ==
  createRequestByGetWithSignature("status",
    [currency |-> checkCurrency, fromId |-> greaterOrEqual(0), size |-> shouldBiggerThanZero],
    {"currency", "fromId", "size", "direct"}, {}, "list")

getDepositHistory ==
  createRequestByGetWithSignature("status",
    [currency |-> checkCurrency, fromId |-> greaterOrEqual(0), size |-> shouldBiggerThanZero],
    {"currency", "fromId", "size", "direct"}, {}, "list")

getLoanHistory ==
  createRequestByGetWithSignature("status", [symbol |-> checkSymbol],
    {"symbol", "startDate", "endDate", "states", "fromId", "direction", "size"}, {}, "loans")

getCurrentUserAggregatedBalance ==
  createRequestByGetWithSignature("status", NoChecks, {}, {}, "list")

getSpecifyAccountBalance ==
  createRequestByGetWithSignature("status", [subId |-> shouldBiggerThanZero], {}, {"subId"}, "list")

\* offset goes through to_string, so that 0 is sent.
getEtfSwapHistory ==
  createRequestByGetWithSignature("success",
    [etfSymbol |-> checkSymbol, size |-> checkRange(1), offset |-> greaterOrEqual(0)],
    {"etfSymbol", "size"}, {"offset"}, "skewed")

getMarginBalanceDetail ==
  createRequestByGetWithSignature("status", [symbol |-> checkSymbol], {"symbol"}, {}, "list")

getFeeRate ==
  createRequestByGetWithSignature("status", [symbols |-> checkEach], {"symbols"}, {}, "list")

getTransactFeeRate ==
  createRequestByGetWithSignature("code", [symbols |-> checkEach], {"symbols"}, {}, "list")

getLoanInfo ==
  createRequestByGetWithSignature("status", [symbols |-> checkEach], {"symbols"}, {}, "list")

getCrossMarginLoanInfo == createRequestByGetWithSignature("status", NoChecks, {}, {}, "list")

getDepositAddress ==
  createRequestByGetWithSignature("code", [currency |-> shouldNotNull], {"currency"}, {}, "list")

getWithdrawQuota ==
  createRequestByGetWithSignature("code", [currency |-> shouldNotNull], {"currency"}, {}, "value")

getAccountHistory ==
  createRequestByGetWithSignature("status", [accountId |-> shouldNotNull],
    {"accountId", "currency", "transactTypes", "startTime", "endTime", "sort", "size"}, {}, "list")

getAccountLedger ==
  createRequestByGetWithSignature("code", [accountId |-> shouldNotNull],
    {"accountId", "currency", "transactTypes", "startTime", "endTime", "sort", "limit", "fromId"},
    {}, "ledger")

crossMaginGetLoanOrders ==
  createRequestByGetWithSignature("status", [startDate |-> checkDate, endDate |-> checkDate],
    {"currency", "startDate", "endDate", "states", "from", "size", "direction", "subUid"},
    {}, "list")

crossMaginGetLoanBalance ==
  createRequestByGetWithSignature("status", NoChecks, {"subUid"}, {}, "value")

getSubUserDepositAddress ==
  createRequestByGetWithSignature("code", NoChecks, {"currency", "subUid"}, {}, "list")

querySubUserDeposit ==
  createRequestByGetWithSignature("code", NoChecks,
    {"currency", "subUid", "startTime", "endTime", "sort", "limit", "fromId"}, {}, "list")

-----------------------------------------------------------------------------
(* Accounts, wallets and loans: what is done.                              *)

\* Between spot and margin, one way or the other, or not at all.
transfer ==
  createRequestByPostWithSignature("status",
    [symbol |-> checkSymbol, currency |-> checkCurrency, amount |-> shouldBiggerThanZero,
     direction |-> {"good"}],
    {"symbol", "currency", "amount"}, {"direction"}, "value")

applyLoan ==
  createRequestByPostWithSignature("status",
    [symbol |-> checkSymbol, currency |-> checkCurrency, amount |-> shouldBiggerThanZero],
    {"symbol", "currency", "amount"}, {}, "value")

repayLoan ==
  createRequestByPostWithSignature("status",
    [loanId |-> shouldBiggerThanZero, amount |-> shouldBiggerThanZero],
    {"amount"}, {"loanId"}, "value")

withdraw ==
  createRequestByPostWithSignature("status",
    [currency |-> checkCurrency, address |-> shouldNotNull, amount |-> shouldBiggerThanZero],
    {"address", "amount", "currency", "fee", "addressTag", "chain"}, {}, "value")

cancelWithdraw ==
  createRequestByPostWithSignature("status",
    [currency |-> checkCurrency, withdrawId |-> shouldBiggerThanZero], {}, {"withdrawId"}, "value")

transferBetweenParentAndSub ==
  createRequestByPostWithSignature("status",
    [currency |-> checkCurrency, amount |-> shouldBiggerThanZero,
     subUid |-> shouldBiggerThanZero, type |-> shouldNotNull],
    {"subUid", "amount", "currency", "type"}, {}, "value")

transferBetweenFuturesAndPro ==
  createRequestByPostWithSignature("status",
    [currency |-> checkCurrency, amount |-> shouldBiggerThanZero],
    {"currency", "type", "amount"}, {}, "value")

\* swapType has no check: without "in" or "out" there is no request.
etfSwap ==
  createRequestByPostWithSignature("success",
    [etfSymbol |-> checkETF, amount |-> shouldBiggerThanZero],
    {"etfSymbol", "amount"}, {"swapType"}, "value")

crossMaginTransferIn ==
  createRequestByPostWithSignature("status",
    [currency |-> checkCurrency, amount |-> shouldBiggerThanZero],
    {"currency", "amount"}, {}, "value")

crossMaginTransferOut ==
  createRequestByPostWithSignature("status",
    [currency |-> checkCurrency, amount |-> shouldBiggerThanZero],
    {"currency", "amount"}, {}, "value")

crossMaginApplyLoan ==
  createRequestByPostWithSignature("status",
    [currency |-> checkCurrency, amount |-> shouldBiggerThanZero],
    {"currency", "amount"}, {}, "value")

crossMaginRepayLoan ==
  createRequestByPostWithSignature("status",
    [orderId |-> shouldNotNull, amount |-> shouldBiggerThanZero], {"amount"}, {"orderId"}, "value")

subUserManage ==
  createRequestByPostWithSignature("code",
    [subUid |-> shouldBiggerThanZero, action |-> checkEnumNull], {"subUid", "action"}, {}, "value")

-----------------------------------------------------------------------------
(* Orders.                                                                 *)

getOpenOrders ==
  createRequestByGetWithSignature("status",
    [symbol |-> checkSymbol, size |-> checkRange(1), accountType |-> shouldNotNull],
    {"account", "symbol", "side", "size", "fromId", "direct"}, {}, "orders")

getOrder ==
  createRequestByGetWithSignature("status",
    [symbol |-> checkSymbol, orderId |-> shouldBiggerThanZero], {}, {"orderId"}, "order")

getOrderByClientOrderId ==
  createRequestByGetWithSignature("status", NoChecks, {"clientOrderId"}, {}, "order")

getMatchResultsOfOrder ==
  createRequestByGetWithSignature("status",
    [symbol |-> checkSymbol, orderId |-> shouldBiggerThanZero], {}, {"orderId"}, "list")

getMatchResults ==
  createRequestByGetWithSignature("status",
    [symbol |-> checkSymbol, size |-> checkRange(0), startDate |-> checkDate,
     endDate |-> checkDate],
    {"symbol", "type", "startDate", "endDate", "from", "size"}, {}, "list")

\* The state goes through checkSymbol too.
getHistoricalOrders ==
  createRequestByGetWithSignature("status",
    [symbol |-> checkSymbol, state |-> checkSymbol, startDate |-> checkDate, endDate |-> checkDate],
    {"symbol", "type", "startDate", "endDate", "startId", "state", "size", "startTime", "endTime"},
    {}, "orders")

getOrderHistory ==
  createRequestByGetWithSignature("status", NoChecks,
    {"symbol", "startTime", "endTime", "direct", "size"}, {}, "orders")

(***************************************************************************)
(* What a new order is checked for depends on its type: a limit order has a*)
(* price, a market order has none, a stop order has its trigger.  Type and *)
(* source are sent with every order.                                       *)
(***************************************************************************)
OrderType == {"limit", "market", "stop", "other"}

priceCheck(type) ==
  CASE type = "limit"  -> [price |-> shouldBiggerThanZero, stopPrice |-> Value, operator |-> Value]
    [] type = "market" -> [price |-> shouldZero, stopPrice |-> Value, operator |-> Value]
    [] type = "stop"   -> [price |-> Value, stopPrice |-> shouldBiggerThanZero,
                           operator |-> checkEnumNull]
    [] OTHER           -> [price |-> Value, stopPrice |-> Value, operator |-> Value]

orderParams ==
  {"account", "amount", "symbol", "price", "clientOrderId", "stopPrice", "operator"}

orderChecks(type) ==
  [symbol |-> checkSymbol, amount |-> shouldBiggerThanZero, price |-> priceCheck(type).price,
   stopPrice |-> priceCheck(type).stopPrice, operator |-> priceCheck(type).operator]

createOrder(type) ==
  createRequestByPostWithSignature("status", orderChecks(type), orderParams, {}, "value")

\* Orders that are alike; the check of the list is an argument of its own.
batchOrders(type) ==
  createRequestByPostWithSignature("status",
    [a \in DOMAIN orderChecks(type) \cup {"orders"} |->
       IF a = "orders" THEN checkList ELSE orderChecks(type)[a]],
    orderParams, {"orders"}, "list")

\* The symbol is checked and not sent.
cancelOrder ==
  createRequestByPostWithSignature("status",
    [symbol |-> checkSymbol, orderId |-> shouldBiggerThanZero], {}, {"orderId"}, "value")

cancelOrders ==
  createRequestByPostWithSignature("status",
    [symbol |-> checkSymbol, ids |-> checkList], {"ids"}, {}, "value")

\* Mutant: without a symbol, the orders of every symbol.
cancelOpenOrdersOfAll ==
  createRequestByPostWithSignature("status",
    [accountType |-> shouldNotNull, size |-> checkRange(0)],
    {"account", "symbol", "side", "size"}, {}, "value")

cancelOpenOrders ==
  createRequestByPostWithSignature("status",
    [accountType |-> shouldNotNull, size |-> checkRange(0), symbol |-> checkSymbol],
    {"account", "symbol", "side", "size"}, {}, "value")

cancelOrderByClientOrderId ==
  createRequestByPostWithSignature("status", NoChecks, {"clientOrderId"}, {}, "value")

-----------------------------------------------------------------------------
(* All of them, by name.                                                   *)

Market ==
  [getExchangeTimestamp |-> getExchangeTimestamp, getCandlestick |-> getCandlestick,
   getHistoricalTrade |-> getHistoricalTrade, getSymbols |-> getSymbols,
   getCurrencies |-> getCurrencies, getBestQuote |-> getBestQuote,
   getPriceDepth |-> getPriceDepth, get24HTradeStatistics |-> get24HTradeStatistics,
   getMarketTrade |-> getMarketTrade, getMarketTickers |-> getMarketTickers,
   getReferenceCurrencies |-> getReferenceCurrencies, getEtfSwapConfig |-> getEtfSwapConfig,
   getETFCandlestick |-> getETFCandlestick]

Query ==
  [getAccounts |-> getAccounts, getBalance |-> getBalance,
   getWithdrawHistory |-> getWithdrawHistory, getDepositHistory |-> getDepositHistory,
   getLoanHistory |-> getLoanHistory,
   getCurrentUserAggregatedBalance |-> getCurrentUserAggregatedBalance,
   getSpecifyAccountBalance |-> getSpecifyAccountBalance,
   getEtfSwapHistory |-> getEtfSwapHistory, getMarginBalanceDetail |-> getMarginBalanceDetail,
   getFeeRate |-> getFeeRate, getTransactFeeRate |-> getTransactFeeRate,
   getLoanInfo |-> getLoanInfo, getCrossMarginLoanInfo |-> getCrossMarginLoanInfo,
   getDepositAddress |-> getDepositAddress, getWithdrawQuota |-> getWithdrawQuota,
   getAccountHistory |-> getAccountHistory, getAccountLedger |-> getAccountLedger,
   crossMaginGetLoanOrders |-> crossMaginGetLoanOrders,
   crossMaginGetLoanBalance |-> crossMaginGetLoanBalance,
   getSubUserDepositAddress |-> getSubUserDepositAddress,
   querySubUserDeposit |-> querySubUserDeposit, getOpenOrders |-> getOpenOrders,
   getOrder |-> getOrder, getOrderByClientOrderId |-> getOrderByClientOrderId,
   getMatchResultsOfOrder |-> getMatchResultsOfOrder, getMatchResults |-> getMatchResults,
   getHistoricalOrders |-> getHistoricalOrders, getOrderHistory |-> getOrderHistory]

Command ==
  [transfer |-> transfer, applyLoan |-> applyLoan, repayLoan |-> repayLoan,
   withdraw |-> withdraw, cancelWithdraw |-> cancelWithdraw,
   transferBetweenParentAndSub |-> transferBetweenParentAndSub,
   transferBetweenFuturesAndPro |-> transferBetweenFuturesAndPro, etfSwap |-> etfSwap,
   crossMaginTransferIn |-> crossMaginTransferIn, crossMaginTransferOut |-> crossMaginTransferOut,
   crossMaginApplyLoan |-> crossMaginApplyLoan, crossMaginRepayLoan |-> crossMaginRepayLoan,
   subUserManage |-> subUserManage,
   createLimitOrder |-> createOrder("limit"), createMarketOrder |-> createOrder("market"),
   createStopOrder |-> createOrder("stop"), createOtherOrder |-> createOrder("other"),
   batchLimitOrders |-> batchOrders("limit"), batchMarketOrders |-> batchOrders("market"),
   batchStopOrders |-> batchOrders("stop"), batchOtherOrders |-> batchOrders("other"),
   cancelOrder |-> cancelOrder, cancelOrders |-> cancelOrders,
   cancelOpenOrders |-> cancelOpenOrders,
   cancelOrderByClientOrderId |-> cancelOrderByClientOrderId]

Operation == DOMAIN Market \cup DOMAIN Query \cup DOMAIN Command
Builder ==
  [n \in Operation |-> IF n \in DOMAIN Market THEN Market[n]
                       ELSE IF n \in DOMAIN Query THEN Query[n] ELSE Command[n]]
=============================================================================
