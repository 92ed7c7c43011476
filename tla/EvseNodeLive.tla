---------------------------- MODULE EvseNodeLive ----------------------------
(***************************************************************************)
(* EvseNode with the scheduling of the node's own tasks, stated as in      *)
(* EvseLive.  Nothing is assumed of the master and of the bus.             *)
(***************************************************************************)
EXTENDS EvseNode

VARIABLE ran

liveVars == <<nodeVars, ran>>

LiveInit == NodeInit /\ ran = "none"

LiveNext ==
    \/ Timer10ms /\ UNCHANGED masterVars /\ ran' = "10ms"
    \/ Timer1s /\ UNCHANGED masterVars /\ ran' = "1s"
    \/ NodeNext /\ UNCHANGED ran

Fairness == \A task \in {"10ms", "1s"} : WF_ran(ran' = task)

LiveSpec == LiveInit /\ [][LiveNext]_liveVars /\ Fairness

----------------------------------------------------------------------------
(* Properties                                                              *)

\* A node that hears no master stops charging, or hears one again: the timeout
\* of the broadcasts takes it through CT_NOCOMM and C1 (evse_tick_1s), against
\* every write of an older state that is still to come.
SilenceStopsNode == ctx.MainsMeterTimeout = 0
                       ~> (~ctx.contactor1 \/ ctx.MainsMeterTimeout > 0)

\* The master does not count for ever on a node that charges while the master
\* takes it to be free: either learns what the other believes.
OfflineNodeStops == (ctx.State = "C" /\ copy.State = "A")
                       ~> (ctx.State # "C" \/ copy.State # "A")
=============================================================================
