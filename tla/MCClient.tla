------------------------------ MODULE MCClient -------------------------------
(* Instances of SubscriptionClient for TLC.                                *)
EXTENDS SubscriptionClient

=============================================================================
