------------------------------ MODULE MCBridge ------------------------------
(* One field of each kind for the run of Bridge; BalancedState is copied both
   ways and written by receiveNodeStatus without the mutex. *)
EXTENDS Bridge
=============================================================================
