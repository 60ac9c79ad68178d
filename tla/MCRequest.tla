------------------------------ MODULE MCRequest ------------------------------
(* Instances of WsRequestClient for TLC.                                   *)
EXTENDS WsRequestClient

TwoSymbols == <<"btcusdt", "ethusdt">>

=============================================================================
