---------------------------- MODULE AtomicState -----------------------------
(***************************************************************************)
(* What callers of the state machine expect of its variables: each         *)
(* operation updates all that it updates at once, from their last values.  *)
(* An update is counted, so one that is lost or repeated shows.            *)
(***************************************************************************)
EXTENDS Naturals

CONSTANT Fields

VARIABLE value      \* how often each was updated

Update == \E F \in SUBSET Fields :
              value' = [f \in Fields |-> IF f \in F THEN value[f] + 1 ELSE value[f]]

Init == value = [f \in Fields |-> 0]

Spec == Init /\ [][Update]_value
=============================================================================
