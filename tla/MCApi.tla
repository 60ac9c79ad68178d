-------------------------------- MODULE MCApi --------------------------------
(* Two threads: one calls everything, with a key and without, the other only *)
(* constructs clients of two keys; the exchange opens accounts as they run.  *)
EXTENDS SyncClient

CONSTANTS t1, t2, k1, k2

MCThread == {t1, t2}
MCKeys == {k1, k2}
MCAccess == t1 :> {NoKey, k1} @@ t2 :> {k1, k2}
MCMenu == t1 :> Operations \ {"client"} @@ t2 :> {}
MCListens == t1 :> DOMAIN Feeds @@ t2 :> {}
MCKind ==
  <<[type |-> "spot", subtype |-> ""], [type |-> "margin", subtype |-> "btcusdt"],
    [type |-> "investment", subtype |-> ""]>>
MCWanted ==
  {[type |-> "spot", subtype |-> ""], [type |-> "margin", subtype |-> "btcusdt"],
   [type |-> "margin", subtype |-> "ethusdt"], [type |-> "super-margin", subtype |-> ""]}
=============================================================================
