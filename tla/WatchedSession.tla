---------------------------- MODULE WatchedSession -----------------------------
(***************************************************************************)
(* What a connection promises to its client and to the watchdog together:  *)
(* one session after the other, watched from the moment it opens; given up *)
(* by the watchdog, which ends it, and then tried again; or closed for an  *)
(* error, which ends it for good.  It says nothing of what a session       *)
(* carries: that is SubscriptionSession, which it implements otherwise.    *)
(***************************************************************************)
CONSTANT isAutoReconnect

VARIABLES session,    \* "none", "connecting", "open" or "ending"
          attempted,  \* the first attempt was made, or is not to be made any more
          watched,    \* in the watchdog's care
          delayed     \* given up, and to be tried again

vars == <<session, attempted, watched, delayed>>

Init == session = "none" /\ attempted = FALSE /\ watched = FALSE /\ delayed = FALSE

\* An attempt may fail at once.
Begin == session = "none" /\ session' \in {"none", "connecting"}

FirstAttempt ==
  /\ ~attempted /\ Begin
  /\ attempted' = TRUE
  /\ UNCHANGED <<watched, delayed>>

Opens ==
  /\ session = "connecting" /\ session' = "open"
  /\ watched' = TRUE /\ delayed' = FALSE
  /\ UNCHANGED attempted

\* Lost, refused, or ended as it was to be; the watchdog is told nothing.
Ends ==
  /\ session # "none" /\ session' = "none"
  /\ UNCHANGED <<attempted, watched, delayed>>

Fails ==
  /\ session \in {"open", "ending"} /\ session' = "ending"
  /\ watched' = FALSE /\ delayed' = FALSE
  /\ UNCHANGED attempted

GivesUp ==
  /\ isAutoReconnect /\ watched /\ ~delayed /\ session # "connecting"
  /\ session' = IF session = "open" THEN "ending" ELSE session
  /\ delayed' = TRUE
  /\ UNCHANGED <<attempted, watched>>

TriesAgain ==
  /\ watched /\ delayed /\ Begin
  /\ delayed' = FALSE
  /\ UNCHANGED <<attempted, watched>>

\* The process is gone, and everything with it.
Dies ==
  /\ session' = "none" /\ watched' = FALSE /\ delayed' = FALSE
  /\ attempted' = TRUE

Next == FirstAttempt \/ Opens \/ Ends \/ Fails \/ GivesUp \/ TriesAgain \/ Dies

Spec == Init /\ [][Next]_vars

-----------------------------------------------------------------------------
\* The same connection as SubscriptionSession has it.
Contract == INSTANCE SubscriptionSession WITH
  Topic <- {}, isNeedSignature <- FALSE, accepted <- FALSE, delivered <- {},
  session <- IF session = "ending" THEN "open" ELSE session

=============================================================================
