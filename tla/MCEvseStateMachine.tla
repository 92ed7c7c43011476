------------------------- MODULE MCEvseStateMachine -------------------------
(* Environments for the runs of EvseStateMachine. *)
EXTENDS EvseStateMachine

MCGrid(powers, excesses, others) ==
    [power : powers, excess : excesses, others : others]

\* A stand-alone EVSE that has power, or a shortage that counts
MCPlainGrids == MCGrid({"ample", "hard"}, {FALSE}, {0})

\* A master alone, with and without a sum-of-mains excess, or short with a node
MCMasterGrids == MCGrid({"ample", "hard", "soft"}, BOOLEAN, {0})
                    \cup MCGrid({"hard", "soft"}, {TRUE}, {1})

\* Any answer, at any time
MCAnyAvail == [idle : BOOLEAN, charging : BOOLEAN]
=============================================================================
