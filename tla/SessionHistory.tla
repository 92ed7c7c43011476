--------------------------- MODULE SessionHistory ---------------------------
(***************************************************************************)
(* What the session log promises: the last sessions in the order in which  *)
(* they were completed, and that a restart brings back what was kept.      *)
(***************************************************************************)
EXTENDS Sequences, Integers

CONSTANTS Sessions,     \* what may be recorded of a session
          Capacity      \* how many are remembered

VARIABLES recent,       \* the sessions that can be asked for, oldest first
          stored,       \* the sessions that were written last
          valid         \* they can be read back

Latest(seq) == IF Len(seq) > Capacity THEN Tail(seq) ELSE seq

Complete == /\ \E s \in Sessions : recent' = Latest(Append(recent, s))
            /\ UNCHANGED <<stored, valid>>

Store == stored' = recent /\ valid' = TRUE /\ UNCHANGED recent

\* Storing begins, or has not come further: what was stored cannot be read, or it
\* can, although it may not be what was there at the last restart
Tamper == valid' \in BOOLEAN /\ UNCHANGED <<recent, stored>>

Restart == /\ recent' = IF valid THEN stored ELSE <<>>
           /\ UNCHANGED <<stored, valid>>

Init == recent = <<>> /\ stored = <<>> /\ valid \in BOOLEAN

Spec == Init /\ [][Complete \/ Store \/ Tamper \/ Restart]_<<recent, stored, valid>>
=============================================================================
