------------------------- MODULE SubscriptionSession -------------------------
(***************************************************************************)
(* What a connection promises to the client it works for, in terms of the  *)
(* sessions it has with the server, one after the other: a session opens,  *)
(* is authorised if the request is signed, only then carries the messages  *)
(* of the request, and takes all of that with it when it ends.             *)
(***************************************************************************)
CONSTANTS Topic,            \* the subscriptions or requests to deliver
          isAutoReconnect, isNeedSignature

VARIABLES session,          \* "none", "connecting" or "open"
          attempted,        \* the first attempt was made
          accepted,         \* the server accepted the signature
          delivered         \* what the server got in this session

vars == <<session, attempted, accepted, delivered>>

Init ==
  /\ session = "none" /\ attempted = FALSE
  /\ accepted = FALSE /\ delivered = {}

\* The first attempt may fail at once; later ones are the watchdog's.
Attempt ==
  /\ session = "none" /\ (attempted => isAutoReconnect)
  /\ session' \in {"none", "connecting"}
  /\ attempted' = TRUE
  /\ UNCHANGED <<accepted, delivered>>

Opens ==
  /\ session = "connecting" /\ session' = "open"
  /\ UNCHANGED <<attempted, accepted, delivered>>

Accept ==
  /\ session = "open" /\ isNeedSignature
  /\ accepted' = TRUE
  /\ UNCHANGED <<session, attempted, delivered>>

Deliver ==
  /\ session = "open" /\ (isNeedSignature => accepted)
  /\ \E S \in SUBSET Topic : delivered' = delivered \cup S
  /\ UNCHANGED <<session, attempted, accepted>>

Ends ==
  /\ session # "none" /\ session' = "none"
  /\ accepted' = FALSE /\ delivered' = {}
  /\ UNCHANGED attempted

Next == Attempt \/ Opens \/ Accept \/ Deliver \/ Ends

Spec == Init /\ [][Next]_vars

=============================================================================
