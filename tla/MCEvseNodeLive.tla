--------------------------- MODULE MCEvseNodeLive ---------------------------
(* Environments for the runs of EvseNodeLive. *)
EXTENDS EvseNodeLive

\* A node does not regulate: its grid is not looked at
MCNoGrid == [power : {"unknown"}, excess : {FALSE}, others : {0}]

\* ... nor does it ask for current
MCNoAvail == [idle : {FALSE}, charging : {FALSE}]
=============================================================================
