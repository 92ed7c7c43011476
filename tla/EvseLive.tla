------------------------------ MODULE EvseLive ------------------------------
(***************************************************************************)
(* EvseStateMachine with its scheduling: the 10 ms task, the 1 s task and, *)
(* where the EVSE regulates, the Modbus loop run for ever.                 *)
(*                                                                         *)
(* A run of a task counts as a step even when it changes nothing, for a    *)
(* weakly fair Timer10ms would oblige the car to do something: ENABLED     *)
(* <<Timer10ms>>_vars asks for some reading that changes the state.  So    *)
(* "ran" records which task ran last, and fairness is about "ran" alone.   *)
(***************************************************************************)
EXTENDS EvseStateMachine

VARIABLE ran

Tasks == {"10ms", "1s"} \cup (IF LoadBl < 2 THEN {"modbus"} ELSE {})

liveVars == <<vars, ran>>

LiveInit == Init /\ ran = "none"

\* What no task does happens any time, or never
Outside == \/ RcmOpens \/ RcmTrips \/ RcmReset
           \/ \E access \in AccessChoices : SetAccessTo(access)
           \/ \E mode \in ModeChoices : SetMode(mode)
           \/ \E c2 \in C2Choices : SetEnableC2(c2)
           \/ StopButton \/ MenuExit \/ OcppLimit \/ ModemSoC
           \/ MainsMeterData \/ EVMeterData

LiveNext == \/ Timer10ms /\ ran' = "10ms"
            \/ Timer1s /\ ran' = "1s"
            \/ Regulate /\ ran' = "modbus"
            \/ Outside /\ UNCHANGED ran

\* No task starves.  The 10 ms task runs on only after it has raised RCM_TRIPPED
Fairness == \A task \in Tasks : WF_ran(ran' = task)

LiveSpec == LiveInit /\ [][LiveNext]_liveVars /\ Fairness

----------------------------------------------------------------------------
(* Properties                                                              *)

\* The promise of ChargePoint that is about time: every stop ends with the
\* contactor open, whatever the car does (C1Timer in evse_tick_1s).
StopCompletes == Point!StopCompletes

\* Where every measurement shows a shortage and nobody overrides it, a car that
\* charges is stopped, through the grace period of NoCurrentThreshold or of
\* MaxSumMainsTime, the LESS_6A error and the C1 state ("Will drop below 6 A?
\* Pauses with LESS_6A", guide-owner.md).
LastingShortageStops == ctx.contactor1 ~> ~ctx.contactor1
=============================================================================
