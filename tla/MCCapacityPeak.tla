--------------------------- MODULE MCCapacityPeak ---------------------------
(* Meter readings and clocks for the runs of CapacityPeak. *)
EXTENDS CapacityPeak

\* Export, and consumption within the limit and above it
MCPowers == {-690, 690, 1380}

\* January, and the clock that is not set yet
MCMonths == {[month |-> 1, year |-> 202], [month |-> 1, year |-> 2]}

MCNow == {[month |-> 5, year |-> 2]}
MCLimits == {0, 5000}
MCHouse == {3000}
=============================================================================
