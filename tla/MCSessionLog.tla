---------------------------- MODULE MCSessionLog ----------------------------
(* The instance of the run Sessions *)
EXTENDS SessionLog
=============================================================================
