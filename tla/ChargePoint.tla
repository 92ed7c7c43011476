---------------------------- MODULE ChargePoint ----------------------------
(***************************************************************************)
(* What a charge point promises about its power contactor, whatever the    *)
(* states, timers and handlers it is made of.                              *)
(***************************************************************************)

VARIABLES
    power,      \* "off", "charging", or "stopping": still closed, but the
                \*   car has been told to stop
    access,     \* "ON", "OFF" or "PAUSE"
    fault,      \* a fault other than a shortage of current stands
    diode       \* the car's diode was seen since the cable was last free

vars == <<power, access, fault, diode>>

Permitted == access = "ON" /\ ~fault /\ diode

Init == /\ power = "off" /\ access \in {"OFF", "ON"}
        /\ fault = FALSE /\ diode = FALSE

\* Users, faults and cars come and go
Environment == /\ access' \in {"OFF", "ON", "PAUSE"}
               /\ fault' \in BOOLEAN /\ diode' \in BOOLEAN

\* Charging starts from the open contactor, and is permitted as long as it lasts
Start == power = "off" /\ power' = "charging" /\ Permitted'

Charge == power = "charging" /\ power' = "charging" /\ Permitted'

\* The car is told to stop, and then cut off; it may also be cut off at once
Stop == power = "charging" /\ power' = "stopping"

Open == power # "off" /\ power' = "off"

Wait == power # "charging" /\ power' = power

Next == Environment /\ (Start \/ Charge \/ Stop \/ Open \/ Wait)

\* Told to stop, the car is cut off whether it obeys or not
StopCompletes == power = "stopping" ~> power = "off"

Safety == Init /\ [][Next]_vars

Spec == Safety /\ StopCompletes
=============================================================================
