---------------------------- MODULE MCActionQueue ----------------------------
(* An instance of ActionQueue: all actions are of one user on one group,   *)
(* or rights of that user.                                                  *)
EXTENDS ActionQueueInv

CONSTANT user

OneUser == [r \in Registrants |-> user]

\* The hypothesis under which the order is proved.
ASSUME SlowListing
=============================================================================
