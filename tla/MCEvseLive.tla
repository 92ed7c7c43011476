----------------------------- MODULE MCEvseLive -----------------------------
(* Environments for the runs of EvseLive. *)
EXTENDS EvseLive

MCGrid(powers, excesses, others) ==
    [power : powers, excess : excesses, others : others]

MCHardGrids == MCGrid({"hard"}, {FALSE}, {0})

\* Every measurement shows a shortage: one that counts, or an excess of the sum
MCShortGrids == MCGrid({"hard"}, BOOLEAN, {0}) \cup MCGrid({"soft"}, {TRUE}, {0})

\* A shortage on the mains, MaxCircuit or the sum of the mains: a car that charges
\* takes more than there is, and evse_is_current_available says so
MCMainsShort == [idle : BOOLEAN, charging : {FALSE}]

\* A shortage on the subpanel alone (MaxCircuitMains)
MCSubpanelShort == [idle : {TRUE}, charging : {TRUE}]
=============================================================================
