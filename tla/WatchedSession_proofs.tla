------------------------ MODULE WatchedSession_proofs --------------------------
(***************************************************************************)
(* A WatchedSession is a SubscriptionSession of which only the session is  *)
(* seen: what implements the one implements the contract of the other.     *)
(***************************************************************************)
EXTENDS WatchedSession, TLAPS

\* Only a watched connection is given up, and only to be reconnected; whoever has
\* a session was attempted.
WatchInv ==
  /\ session \in {"none", "connecting", "open", "ending"}
  /\ {attempted, watched, delayed} \subseteq BOOLEAN
  /\ session # "none" \/ watched => attempted
  /\ delayed => watched /\ isAutoReconnect

\* The promises of a connection keep the session, its first attempt and the
\* watchdog's care of it in step.
THEOREM WatchInvariant == Spec => []WatchInv
<1>1. Init => WatchInv
  BY DEF Init, WatchInv
<1>2. WatchInv /\ [Next]_vars => WatchInv'
  <2> SUFFICES ASSUME WatchInv, [Next]_vars
               PROVE  WatchInv'
    OBVIOUS
  <2> USE DEF WatchInv
  <2>1. CASE FirstAttempt
    BY <2>1 DEF FirstAttempt, Begin
  <2>2. CASE Opens
    BY <2>2 DEF Opens
  <2>3. CASE Ends
    BY <2>3 DEF Ends
  <2>4. CASE Fails
    BY <2>4 DEF Fails
  <2>5. CASE GivesUp
    BY <2>5 DEF GivesUp
  <2>6. CASE TriesAgain
    BY <2>6 DEF TriesAgain, Begin
  <2>7. CASE Dies
    BY <2>7 DEF Dies
  <2>8. CASE UNCHANGED vars
    BY <2>8 DEF vars
  <2> QED
    BY <2>1, <2>2, <2>3, <2>4, <2>5, <2>6, <2>7, <2>8 DEF Next
<1> QED
  BY <1>1, <1>2, PTL DEF Spec

\* What is given up or closed for an error is, to the subscriber, one session that
\* ends later; a session after the first is there for a reconnect alone.
THEOREM WatchedImplementsSession == Spec => Contract!Spec
<1>1. Init => Contract!Init
  BY DEF Init, Contract!Init
<1>2. WatchInv /\ [Next]_vars => [Contract!Next]_(Contract!vars)
  <2> SUFFICES ASSUME WatchInv, [Next]_vars
               PROVE  [Contract!Next]_(Contract!vars)
    OBVIOUS
  <2>1. CASE FirstAttempt \/ TriesAgain
    BY <2>1 DEF FirstAttempt, TriesAgain, Begin, WatchInv, Contract!Next, Contract!Attempt
  <2>2. CASE Opens
    BY <2>2 DEF Opens, Contract!Next, Contract!Opens
  <2>3. CASE Ends
    BY <2>3 DEF Ends, WatchInv, Contract!Next, Contract!Ends
  <2>4. CASE Fails \/ GivesUp \/ UNCHANGED vars
    BY <2>4 DEF Fails, GivesUp, vars, WatchInv, Contract!vars
  <2>5. CASE Dies
    BY <2>5 DEF Dies, WatchInv, Contract!Next, Contract!Ends, Contract!Attempt, Contract!vars
  <2> QED
    BY <2>1, <2>2, <2>3, <2>4, <2>5 DEF Next
<1> QED
  BY <1>1, <1>2, WatchInvariant, PTL DEF Spec, Contract!Spec

=============================================================================
