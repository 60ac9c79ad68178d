------------------------------ MODULE RemoteCall -----------------------------
(***************************************************************************)
(* What a blocking call that changes something on the exchange promises    *)
(* the thread that makes it: the exchange does it at most once, a call that*)
(* returns was done, a call that was refused was not, and of every other   *)
(* end nothing is known, except that what was asked may still be done.     *)
(***************************************************************************)
EXTENDS Naturals

CONSTANT Thread
VARIABLES phase, effect, verdict
vars == <<phase, effect, verdict>>

Init ==
  /\ phase = [t \in Thread |-> "idle"]
  /\ effect = [t \in Thread |-> 0]
  /\ verdict = [t \in Thread |-> "none"]

Begin(t) ==
  /\ phase[t] = "idle"
  /\ phase' = [phase EXCEPT ![t] = "open"]
  /\ effect' = [effect EXCEPT ![t] = 0]
  /\ verdict' = [verdict EXCEPT ![t] = "none"]

\* An end before anything was sent.
Refuse(t) ==
  /\ phase[t] = "idle"
  /\ effect' = [effect EXCEPT ![t] = 0]
  /\ \E v \in {"refused", "unknown"} : verdict' = [verdict EXCEPT ![t] = v]
  /\ UNCHANGED phase

\* The thread turns to something else.
Forget(t) ==
  /\ phase[t] = "idle"
  /\ effect' = [effect EXCEPT ![t] = 0]
  /\ verdict' = [verdict EXCEPT ![t] = "none"]
  /\ UNCHANGED phase

CarryOut(t) ==
  /\ phase[t] = "open" \/ verdict[t] = "unknown"
  /\ effect[t] = 0
  /\ effect' = [effect EXCEPT ![t] = 1]
  /\ UNCHANGED <<phase, verdict>>

End(t) ==
  /\ phase[t] = "open"
  /\ phase' = [phase EXCEPT ![t] = "idle"]
  /\ \E v \in {"done", "refused", "unknown"} :
       /\ v = "done" => effect[t] = 1
       /\ v = "refused" => effect[t] = 0
       /\ verdict' = [verdict EXCEPT ![t] = v]
  /\ UNCHANGED effect

Next == \E t \in Thread : Begin(t) \/ Refuse(t) \/ Forget(t) \/ CarryOut(t) \/ End(t)

Spec == Init /\ [][Next]_vars
=============================================================================
