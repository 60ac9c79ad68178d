---------------------------- MODULE MCConnection ----------------------------
(* Instances of WebSocketConnection for TLC.                               *)
EXTENDS WebSocketConnection, TLC

OneSymbol == <<"btcusdt">>
TwoSymbols == <<"btcusdt", "ethusdt">>

Sockets == Permutations(Wsi)

=============================================================================
