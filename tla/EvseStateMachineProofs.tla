---------------------- MODULE EvseStateMachineProofs ----------------------
(***************************************************************************)
(* Theorems about one controller, for every configuration, every duration  *)
(* and every input of EvseStateMachine.  Base is what every step needs,    *)
(* and keeps: the context is Good, and where no master does, nobody lets   *)
(* power flow between the monitor's opening the contactors and its raising *)
(* the flag (only the 10 ms tick could, and it is the task that the check  *)
(* runs in).  Handled is what every step does to the context; a node whose *)
(* master writes the state (EvseNodeProofs) starts from these two as well. *)
(* Inv adds what holds as long as no master writes.                        *)
(***************************************************************************)
EXTENDS EvseStateMachine, EvseControlProofs

Base == /\ Good(ctx)
        /\ rcm \in {"idle", "opened"} /\ diodeSeen \in BOOLEAN
        /\ LoadBl < 2 /\ rcm = "opened" => ctx.State \notin OnPower

\* What DiodeCheck says is about the car that is there
DiodeKnown == LoadBl < 2 /\ Entitled(ctx) => diodeSeen

Inv == /\ Base /\ DiodeKnown
       /\ Joined(ctx) /\ ~Tripped(ctx)
       /\ ~(LoadBl < 2) => ctx.State \notin OnPower

\* A step begins no charge but from an open contactor, ends one in C1 only, and
\* ends the access with the session; where a master has to, it begins none
Handled == /\ LoadBl < 2 =>
                 /\ ctx'.State = "C" => ctx.State # "C1"
                 /\ ctx'.State = "C1" => ctx.State \in {"C", "C1"}
                 /\ ~ModemEnabled /\ ctx.State # "A" /\ ctx'.State = "A"
                        => ctx'.AccessStatus # "ON"
           /\ ~(LoadBl < 2) => /\ ctx'.State \in OnPower => ctx.State \in OnPower
                               /\ Powered(ctx') => Powered(ctx)
           /\ Joined(ctx) => Joined(ctx')
           /\ Tripped(ctx') => Tripped(ctx) \/ (rcm = "opened" /\ ctx.State \in OnPower)
           /\ DiodeKnown => DiodeKnown'

\* evse_init starts in A with the contactors open, whatever the settings hold.
LEMMA InitInv == Init => Inv
<1> SUFFICES ASSUME NEW mode \in {"NORMAL", "SMART"},
                    NEW c2 \in {"NOT_PRESENT", "ALWAYS_OFF", "AUTO", "ALWAYS_ON"},
                    NEW access \in {"OFF", "ON"}
             PROVE  /\ Good(InitCtx(mode, c2, access))
                    /\ InitCtx(mode, c2, access).State = "A"
                    /\ InitCtx(mode, c2, access).pilotConnected
  <2>1. Init => /\ Good(ctx) /\ ctx.State = "A" /\ ctx.pilotConnected
                /\ rcm = "idle" /\ diodeSeen = FALSE
    BY EnvAssumption DEF Init
  <2> QED BY <2>1 DEF Inv, Base, DiodeKnown, Entitled, Joined, Tripped, OnPower
<1> DEFINE c == InitCtx(mode, c2, access)
<1>1. c \in Ctx
  BY DurationAssumption DEF InitCtx, Ctx, States, ActivationOff
<1>2. /\ c.State = "A" /\ ~c.contactor1 /\ ~c.contactor2
      /\ c.pilotConnected /\ c.ModemStage = 0
  BY DEF InitCtx
<1> HIDE DEF c
<1>3. Good(c)
  BY <1>1, <1>2
  DEF Good, Fit, Wired, Unmastered, Known, Permitted, CommStates, ModemStates, Served, OnPower
<1> QED
  BY <1>2, <1>3 DEF c

\* A transaction that leaves the context Calm, but for the access that it sets.
LEMMA CalmStep ==
    ASSUME Base, NEW access \in {"OFF", "ON", "PAUSE"}, NEW c,
           Calm(WithAccess(ctx, access), c), Becomes(c), UNCHANGED rcm
    PROVE  Base' /\ Handled
<1> DEFINE w == WithAccess(ctx, access)
<1>1. /\ w.State = ctx.State /\ w.ErrorFlags = ctx.ErrorFlags /\ SameCable(ctx, w)
  BY WithAccessFit DEF Base, Good
<1>2. Calm(w, c) /\ ctx' = c /\ rcm' = rcm
      /\ diodeSeen' = (c.State # "A" /\ diodeSeen)
  BY DEF Becomes, Seen
<1> HIDE DEF w
<1>3. Base'
  BY <1>1, <1>2 DEF Base, Calm, Kept
<1>4. /\ Joined(ctx) => Joined(c)
      /\ Tripped(c) => Tripped(ctx)
      /\ Powered(c) => Powered(ctx)
      /\ Entitled(c) => Entitled(ctx)
  BY <1>1, <1>2
  DEF Calm, Kept, Powered, Entitled, Tripped, Joined, SameCable, SameLine
<1>5. DiodeKnown => DiodeKnown'
  BY <1>2, <1>4 DEF DiodeKnown, Entitled, Base
<1>6. /\ c.State \in OnPower => ctx.State = c.State
      /\ c.State = "C1" => ctx.State \in {"C", "C1"}
      /\ LoadBl < 2 /\ ~ModemEnabled /\ ctx.State # "A" /\ c.State = "A"
             => c.AccessStatus # "ON"
  BY <1>1, <1>2 DEF Calm, Kept, Ended
<1> QED
  BY <1>2, <1>3, <1>4, <1>5, <1>6 DEF Handled, OnPower

\* A transaction that leaves the context Calm.
LEMMA CalmSame ==
    ASSUME Base, NEW c, Calm(ctx, c), Becomes(c), UNCHANGED rcm
    PROVE  Base' /\ Handled
<1>1. ctx \in Ctx /\ ctx.AccessStatus \in {"OFF", "ON", "PAUSE"}
  BY DEF Base, Good, Fit, Ctx
<1>2. WithAccess(ctx, ctx.AccessStatus) = ctx
  BY <1>1, Zenon DEF WithAccess, Ctx
<1> QED
  BY <1>1, <1>2, CalmStep

\* Another contactor setting starts and ends nothing.
LEMMA SwitchingCalm == ASSUME NEW c, Good(c) PROVE Calm(c, CheckSwitchingPhases(c))
  BY CheckSwitchingPhasesFit
  DEF Calm, Good, Permitted, MayStay, Kept, Powered, Entitled, Tripped, Joined, Ended,
      SameCable, SameLine

\* The access that setMode gives with a mode
ModeAccess(delayed) == IF delayed THEN "OFF" ELSE "ON"

\* setMode ends or keeps the charge like setAccess.
LEMMA ModeSetCalm ==
    ASSUME NEW c, Good(c), NEW mode \in {"NORMAL", "SMART"}, NEW delayed \in BOOLEAN
    PROVE  Calm(WithAccess(c, ModeAccess(delayed)), ModeSet(c, mode, delayed))
<1> DEFINE w == WithAccess(c, ModeAccess(delayed))
           access == SetAccess(c, ModeAccess(delayed))
           phased == CheckSwitchingPhases(access)
           clear == Clear(phased, "LESS_6A")
           smart == [clear EXCEPT !.MaxSumMainsTimer = 0]
           e == IF mode = "SMART" THEN smart ELSE phased
           d == [e EXCEPT !.ChargeDelay = 0, !.Mode = mode]
<1>1. Calm(w, access)
  BY SetAccessCalm DEF ModeAccess
<1> HIDE DEF access
<1>2. Calm(w, phased) /\ phased \in Ctx
  BY <1>1, SwitchingCalm, CalmTrans DEF Calm, Good, Fit
<1> HIDE DEF phased
<1>3. Eased(phased, clear) /\ clear \in Ctx
  BY <1>2, DropFlagsEased DEF Clear, Eased
<1> HIDE DEF clear
<1>4. Eased(clear, smart)
  BY <1>3, Numbers, Zenon DEF Ctx, Eased
<1> HIDE DEF smart
<1>5. Calm(w, e) /\ e \in Ctx
  BY <1>2, <1>3, <1>4, EasedTrans, EasedCalm, CalmTrans DEF Brisk, Calm, Good, Fit
<1> HIDE DEF e
<1>6. Eased(e, d)
  BY <1>5, Numbers, Zenon DEF Ctx, Eased
<1>7. ModeSet(c, mode, delayed) = d
  BY DEF ModeSet, ModeAccess, e, smart, clear, phased, access
<1> HIDE DEF d
<1> QED
  BY <1>5, <1>6, <1>7, EasedCalm, CalmTrans DEF Brisk, Calm

\* Every step keeps Base and is Handled: one step of the proof per action of Next.
LEMMA NextBase == Base /\ [Next]_vars => Base' /\ Handled
<1> SUFFICES ASSUME Base, [Next]_vars PROVE Base' /\ Handled
  OBVIOUS
<1>0. Good(ctx) /\ Fit(ctx) /\ Permitted(ctx) /\ ctx \in Ctx
  BY DEF Base, Good, Fit
<1>1. CASE Timer10ms
  <2>1. PICK pilot \in PilotReadings, avail \in IdleAvails, grid \in GridReadings :
            Seen(Tick10ms(ctx, pilot, avail, grid), pilot)
    BY <1>1 DEF Timer10ms
  <2>2. pilot \in Pilots /\ avail \in BOOLEAN /\ grid \in Grids
    BY EnvAssumption DEF IdleAvails, Avails
  <2>3. Lawful(ctx, ctx', pilot = "DIODE") /\ (ctx.State = "C1" => ctx'.State # "C")
    BY <1>0, <2>1, <2>2, Tick10msLawful, Tick10msStops DEF Seen
  <2>4. rcm = "idle" /\ rcm' = rcm
        /\ diodeSeen' = (ctx'.State # "A" /\ (diodeSeen \/ pilot = "DIODE"))
    BY <1>1, <2>1 DEF Timer10ms, Seen
  <2>5. Base'
    BY <2>3, <2>4 DEF Base, Lawful
  <2>6. DiodeKnown => DiodeKnown'
    BY <2>3, <2>4 DEF Base, DiodeKnown, Lawful, Entitled
  <2> QED BY <2>3, <2>5, <2>6 DEF Handled, Lawful, Ended
<1>2. CASE Timer1s
  <2>1. PICK temp, avail, pilot, known :
            Becomes(TickModemDisconnect(Tick1s(ctx, temp, avail, known), pilot))
    BY <1>2 DEF Timer1s
  <2>2. Calm(ctx, Tick1s(ctx, temp, avail, known))
    BY <1>0, Tick1sCalm
  <2>3. Calm(ctx, TickModemDisconnect(Tick1s(ctx, temp, avail, known), pilot))
    BY <2>2, TickModemDisconnectCalm, CalmTrans DEF Calm
  <2> QED BY <1>2, <2>1, <2>3, CalmSame DEF Timer1s
<1>3. CASE RcmOpens
  <2>1. PICK c : Becomes(c) /\ Calm(ctx, c) /\ c.State \notin OnPower
    <3>1. Calm(ctx, SetState(ctx, "B1")) /\ SetState(ctx, "B1").State = "B1"
      BY <1>0, StopCalm
    <3>2. ctx.State = "A" => Calm(ctx, ctx)
      BY <1>0, KeptSame DEF Calm
    <3> QED BY <1>3, <3>1, <3>2 DEF RcmOpens, OnPower
  <2>2. rcm' = "opened" /\ diodeSeen' = (c.State # "A" /\ diodeSeen) /\ ctx' = c
    BY <1>3, <2>1 DEF RcmOpens, Becomes, Seen
  <2>3. Base'
    BY <2>1, <2>2 DEF Base, Calm
  <2>4. DiodeKnown => DiodeKnown'
    BY <2>1, <2>2 DEF Base, DiodeKnown, Calm, Kept, Entitled
  <2>5. c.State \in {"A", "B1"} /\ (c.State = "A" => c = ctx)
    <3>1. SetState(ctx, "B1").State = "B1"
      BY <1>0, StopCalm
    <3> QED BY <1>3, <2>2, <3>1 DEF RcmOpens, Becomes, Seen
  <2> QED BY <2>1, <2>2, <2>3, <2>4, <2>5 DEF Handled, Calm, Kept
<1>4. CASE RcmTrips
  <2> DEFINE c == Raise(ctx, "RCM_TRIPPED")
  <2>1. /\ Fit(c) /\ c.State = ctx.State /\ c.AccessStatus = ctx.AccessStatus
        /\ c.ErrorFlags = ctx.ErrorFlags \cup {"RCM_TRIPPED"} /\ SameCable(ctx, c)
    BY <1>0, RaiseFit DEF Faults
  <2> HIDE DEF c
  <2>2. ctx' = c /\ rcm = "opened" /\ rcm' = "idle"
        /\ diodeSeen' = (c.State # "A" /\ diodeSeen)
    BY <1>4 DEF RcmTrips, Becomes, Seen, c
  <2>3. LoadBl < 2 => ctx.State \notin OnPower
    BY <2>2 DEF Base
  <2>4. Base'
    BY <1>0, <2>1, <2>2, <2>3 DEF Base, Good, Permitted, OnPower
  <2>5. DiodeKnown => DiodeKnown'
    BY <2>1, <2>2 DEF Base, DiodeKnown, Entitled, SameCable, SameLine
  <2> QED
    BY <2>1, <2>2, <2>3, <2>4, <2>5
    DEF Handled, Powered, Joined, Tripped, SameCable, SameLine
<1>5. CASE RcmReset
  <2>1. Calm(ctx, Clear(ctx, "RCM_TRIPPED"))
    BY <1>0, DropFlagsEased, EasedCalm DEF Clear, Brisk
  <2> QED BY <1>5, <2>1, CalmSame DEF RcmReset
<1>6. CASE Regulate
  <2>1. PICK grid \in GridReadings, overload \in BOOLEAN :
            Becomes(IF overload
                    THEN [Raise(CalcBalancedCurrent(ctx, grid), "LESS_6A")
                              EXCEPT !.NoCurrent = 0]
                    ELSE CalcBalancedCurrent(ctx, grid))
    BY <1>6 DEF Regulate
  <2> DEFINE c == CalcBalancedCurrent(ctx, grid)
             r == Raise(c, "LESS_6A")
             d == [r EXCEPT !.NoCurrent = 0]
  <2>2. Eased(ctx, c) /\ Fit(c)
    BY <1>0, CalcBalancedCurrentEased, EasedFit, EnvAssumption
  <2> HIDE DEF c
  <2>3. Eased(c, r) /\ r \in Ctx
    BY <2>2, ShortageEased DEF Eased
  <2> HIDE DEF r
  <2>4. Eased(r, d)
    BY <2>3, Numbers, Zenon DEF Ctx, Eased
  <2>5. Becomes(IF overload THEN d ELSE c)
    BY <2>1 DEF d, r, c
  <2> HIDE DEF d
  <2>6. Calm(ctx, d) /\ Calm(ctx, c)
    BY <1>0, <2>2, <2>3, <2>4, EasedTrans, EasedCalm DEF Brisk
  <2> QED BY <1>6, <2>5, <2>6, CalmSame DEF Regulate
<1>7. CASE \E access \in AccessChoices : SetAccessTo(access)
  <2>1. PICK access \in AccessChoices : SetAccessTo(access)
    BY <1>7
  <2>2. access \in {"OFF", "ON", "PAUSE"}
    BY EnvAssumption
  <2>3. Calm(WithAccess(ctx, access), SetAccess(ctx, access))
    BY <1>0, <2>2, SetAccessCalm
  <2> QED BY <2>1, <2>2, <2>3, CalmStep DEF SetAccessTo
<1>8. CASE \E mode \in ModeChoices : SetMode(mode)
  <2>1. PICK mode \in ModeChoices : SetMode(mode)
    BY <1>8
  <2>2. mode \in {"NORMAL", "SMART"}
    BY EnvAssumption
  <2>3. PICK delayed \in BOOLEAN : Becomes(ModeSet(ctx, mode, delayed)) /\ UNCHANGED rcm
    BY <2>1 DEF SetMode
  <2>4. Calm(WithAccess(ctx, ModeAccess(delayed)), ModeSet(ctx, mode, delayed))
    BY <1>0, <2>2, ModeSetCalm
  <2>5. ModeAccess(delayed) \in {"OFF", "ON", "PAUSE"}
    BY DEF ModeAccess
  <2> QED BY <2>3, <2>4, <2>5, CalmStep
<1>9. CASE \E c2 \in C2Choices : SetEnableC2(c2)
  <2>1. PICK c2 \in C2Choices : SetEnableC2(c2)
    BY <1>9
  <2> DEFINE d == [ctx EXCEPT !.EnableC2 = c2]
  <2>2. Eased(ctx, d)
    BY <1>0, EnvAssumption, Zenon DEF Ctx, Eased
  <2>3. Becomes(CheckSwitchingPhases(d)) /\ UNCHANGED rcm
    BY <2>1 DEF SetEnableC2
  <2> HIDE DEF d
  <2>4. Calm(ctx, CheckSwitchingPhases(d))
    BY <1>0, <2>2, EasedCalm, SwitchingCalm, CalmTrans DEF Brisk, Calm
  <2> QED BY <2>3, <2>4, CalmSame
<1>10. CASE StopButton
  <2> DEFINE c == SetState(ctx, "C1")
             d == [c EXCEPT !.ChargeDelay = DelayC1]
  <2>1. Calm(ctx, c) /\ c \in Ctx
    BY <1>0, <1>10, StopCalm DEF StopButton, Calm, Good, Fit
  <2>2. Becomes(d) /\ UNCHANGED rcm
    BY <1>10 DEF StopButton
  <2> HIDE DEF c
  <2>3. Eased(c, d)
    BY <2>1, Durations, Zenon DEF Ctx, Eased
  <2> HIDE DEF d
  <2>4. Calm(ctx, d)
    BY <2>1, <2>3, EasedCalm, CalmTrans DEF Brisk, Calm
  <2> QED BY <2>2, <2>4, CalmSame
<1>11. CASE MenuExit
  <2> DEFINE c == Clear(ctx, "LESS_6A")
             d == [c EXCEPT !.ChargeDelay = 0]
  <2>1. Eased(ctx, c) /\ c \in Ctx
    BY <1>0, DropFlagsEased DEF Clear, Eased
  <2>2. Becomes(d) /\ UNCHANGED rcm
    BY <1>11 DEF MenuExit
  <2> HIDE DEF c
  <2>3. Eased(c, d)
    BY <2>1, Numbers, Zenon DEF Ctx, Eased
  <2> HIDE DEF d
  <2> QED BY <1>0, <2>1, <2>2, <2>3, EasedTrans, EasedCalm, CalmSame DEF Brisk
<1>12. CASE OcppLimit
  <2>1. PICK grid \in GridReadings, avail \in AvailReadings :
          LET c == CalcBalancedCurrent(ctx, grid)
              enough == AvailIn(c, avail)
          IN  Becomes(CASE enough -> [Clear(c, "LESS_6A") EXCEPT !.ChargeDelay = 0]
                        [] ~enough /\ c.State \in {"B", "C"} -> SetPowerUnavailable(c)
                        [] OTHER -> c)
    BY <1>12 DEF OcppLimit
  <2> DEFINE c == CalcBalancedCurrent(ctx, grid)
             enough == AvailIn(c, avail)
             e == Clear(c, "LESS_6A")
             d == [e EXCEPT !.ChargeDelay = 0]
  <2>2. Calm(ctx, c) /\ c \in Ctx
    BY <1>0, CalcBalancedCurrentEased, EasedCalm, EnvAssumption DEF Eased, Brisk
  <2>3. Becomes(CASE enough -> d
                  [] ~enough /\ c.State \in {"B", "C"} -> SetPowerUnavailable(c)
                  [] OTHER -> c)
    BY <2>1
  <2> HIDE DEF c, enough
  <2>4. Eased(c, e) /\ e \in Ctx
    BY <2>2, DropFlagsEased DEF Clear, Eased
  <2> HIDE DEF e
  <2>5. Eased(e, d)
    BY <2>4, Numbers, Zenon DEF Ctx, Eased
  <2> HIDE DEF d
  <2>6. Calm(ctx, d)
    BY <2>2, <2>4, <2>5, EasedTrans, EasedCalm, CalmTrans DEF Brisk, Calm
  <2>7. Calm(ctx, SetPowerUnavailable(c))
    BY <2>2, SetPowerUnavailableCalm, CalmTrans DEF Calm, Good
  <2>8. PICK s : Calm(ctx, s) /\ Becomes(s)
    BY <2>2, <2>3, <2>6, <2>7
  <2> QED BY <1>12, <2>8, CalmSame DEF OcppLimit
<1>13. CASE ModemSoC
  <2>1. Calm(ctx, SetState(ctx, "MODEM_DONE"))
    BY <1>0, <1>13, ModemGoesOn DEF ModemSoC, ModemStates
  <2> QED BY <1>13, <2>1, CalmSame DEF ModemSoC
<1>14. CASE MainsMeterData
  <2>1. Calm(ctx, [ctx EXCEPT !.MainsMeterTimeout = COMM_TIMEOUT])
    <3>1. Eased(ctx, [ctx EXCEPT !.MainsMeterTimeout = COMM_TIMEOUT])
      BY <1>0, Durations, Zenon DEF Ctx, Eased
    <3> QED BY <1>0, <3>1, EasedCalm DEF Brisk
  <2> QED BY <1>14, <2>1, CalmSame DEF MainsMeterData
<1>15. CASE EVMeterData
  <2>1. Calm(ctx, [ctx EXCEPT !.EVMeterTimeout = COMM_EVTIMEOUT])
    <3>1. Eased(ctx, [ctx EXCEPT !.EVMeterTimeout = COMM_EVTIMEOUT])
      BY <1>0, Durations, Zenon DEF Ctx, Eased
    <3> QED BY <1>0, <3>1, EasedCalm DEF Brisk
  <2> QED BY <1>15, <2>1, CalmSame DEF EVMeterData
<1>16. CASE UNCHANGED vars
  BY <1>16
  DEF vars, Base, Handled, DiodeKnown, Good, Fit, Joined, Tripped, Powered, Entitled
<1> QED
  BY <1>1, <1>2, <1>3, <1>4, <1>5, <1>6, <1>7, <1>8, <1>9, <1>10, <1>11, <1>12,
     <1>13, <1>14, <1>15, <1>16 DEF Next

\* Every step keeps Inv.
LEMMA NextInv == Inv /\ [Next]_vars => Inv'
  BY NextBase DEF Inv, Base, Handled

\* Inv holds in every behaviour of the controller.
LEMMA InvHolds == Spec => []Inv
  BY InitInv, NextInv, PTL DEF Spec

\* No timer runs below zero and no field leaves its type, whatever order the
\* tasks and the user's calls come in.
THEOREM TypeCorrect == Spec => []TypeOK
<1>1. Inv => TypeOK
  BY DEF Inv, Base, TypeOK, Good, Fit
<1> QED
  BY <1>1, InvHolds, PTL

\* The main contactor is closed in C and C1 only, and in C always.
THEOREM ContactorsFollow == Spec => []ContactorFollowsState
<1>1. Inv => ContactorFollowsState
  BY DEF Inv, Base, ContactorFollowsState, Good, Fit, Wired, Unmastered, CommStates, OnPower
<1> QED
  BY <1>1, InvHolds, PTL

\* The phases that are counted are the phases that are switched on.
THEOREM PhasesMatch == Spec => []PhasesMatchContactors
<1>1. Inv => PhasesMatchContactors
  BY DEF Inv, Base, PhasesMatchContactors, Good, Fit, Wired
<1> QED
  BY <1>1, InvHolds, PTL

\* No car charges while a fault stands, over the two transactions of a residual
\* current fault as well.
THEOREM FaultStopsCharge == Spec => []NoChargeOnFault
<1>1. Inv => NoChargeOnFault
  BY DEF Inv, Base, NoChargeOnFault, Good, Permitted, Tripped, OnPower
<1> QED
  BY <1>1, InvHolds, PTL

\* Where no master writes the state, no car charges without access.
THEOREM AccessNeeded == ASSUME LoadBl < 2 PROVE Spec => []NoChargeWithoutAccess
<1>1. Inv => NoChargeWithoutAccess
  BY DEF Inv, Base, NoChargeWithoutAccess, Good, Permitted, MayStay
<1> QED
  BY <1>1, InvHolds, PTL

\* Where no master writes the state, no car charges on the diode check of a car
\* that was connected before it.
THEOREM DiodeSeen == ASSUME LoadBl < 2 PROVE Spec => []DiodeSeenBeforeCharge
<1>1. Inv => DiodeSeenBeforeCharge
  BY DEF Inv, DiodeKnown, DiodeSeenBeforeCharge, Entitled
<1> QED
  BY <1>1, InvHolds, PTL

\* Without the modem, nothing reads the pilot line while it is cut.
THEOREM FloatingPilot == ASSUME ~ModemEnabled PROVE Spec => []FloatingPilotIsNotRead
<1>1. Inv => FloatingPilotIsNotRead
  BY DEF Inv, FloatingPilotIsNotRead, Joined
<1> QED
  BY <1>1, InvHolds, PTL

\* With the modem, and no master that writes the state, every car is identified.
THEOREM Identified == ASSUME LoadBl < 2 PROVE Spec => []IdentifiedBeforeCharge
<1>1. Inv => IdentifiedBeforeCharge
  BY DEF Inv, Base, IdentifiedBeforeCharge, Good, Fit, Known, Served
<1> QED
  BY <1>1, InvHolds, PTL

\* Without master and modem, no step to A leaves the access of the session behind:
\* evse_enter_state_a takes it back, over every way there.
THEOREM AccessEnds ==
    ASSUME LoadBl < 2, ~ModemEnabled PROVE Spec => AccessEndsWithSession
<1>1. Inv /\ [Next]_vars =>
          [ctx.State # "A" /\ ctx'.State = "A" => ctx'.AccessStatus # "ON"]_vars
  BY NextBase DEF Inv, Handled
<1> QED
  BY <1>1, InvHolds, PTL DEF Spec, AccessEndsWithSession

\* What ChargePoint sees of a state with Inv
Seeable == /\ ctx.AccessStatus \in {"OFF", "ON", "PAUSE"} /\ diodeSeen \in BOOLEAN
           /\ Power \in {"off", "charging", "stopping"}
           /\ Power = "charging" <=> ctx.State = "C"
           /\ Power = "stopping" <=> ctx.State = "C1"
           /\ Power = "charging" => Point!Permitted

\* Where no master writes the state, the EVSE implements ChargePoint.
THEOREM Implements == ASSUME LoadBl < 2 PROVE Spec => ImplementsChargePoint
<1>1. Init => Point!Init
  BY DEF Init, InitCtx, Point!Init, Power
<1>2. Inv => Seeable
  <2> SUFFICES ASSUME Inv PROVE Seeable
    OBVIOUS
  <2>1. ctx \in Ctx /\ Wired(ctx) /\ Unmastered(ctx) /\ Permitted(ctx) /\ DiodeKnown
    BY DEF Inv, Base, Good, Fit
  <2>2. ctx.AccessStatus \in {"OFF", "ON", "PAUSE"} /\ diodeSeen \in BOOLEAN
    BY <2>1 DEF Inv, Base, Ctx
  <2>3. /\ Power \in {"off", "charging", "stopping"}
        /\ Power = "charging" <=> ctx.State = "C"
        /\ Power = "stopping" <=> ctx.State = "C1"
    BY <2>1 DEF Power, Wired, Unmastered, CommStates
  <2>4. ctx.State = "C" => Point!Permitted
    BY <2>1 DEF Point!Permitted, Permitted, MayStay, DiodeKnown, Entitled
  <2> QED BY <2>2, <2>3, <2>4 DEF Seeable
<1>3. Inv' => Seeable'
  BY <1>2, PTL
<1>4. Inv /\ Inv' /\ [Next]_vars => [Point!Next]_(Point!vars)
  <2> SUFFICES ASSUME Inv, Inv', [Next]_vars PROVE Point!Next
    OBVIOUS
  <2>1. Handled
    BY NextBase DEF Inv
  <2>2. Seeable /\ Seeable'
    BY <1>2, <1>3
  <2>3. Point!Environment
    BY <2>2 DEF Seeable, Point!Environment
  <2>4. /\ Power' = "charging" => Power # "stopping"
        /\ Power' = "stopping" => Power \in {"charging", "stopping"}
    BY <2>1, <2>2 DEF Handled, Seeable
  <2>5. /\ Power' = "charging" => Point!Permitted'
        /\ Power \in {"off", "charging", "stopping"}
        /\ Power' \in {"off", "charging", "stopping"}
    BY <2>2 DEF Seeable
  <2>6. Point!Start \/ Point!Charge \/ Point!Stop \/ Point!Open \/ Point!Wait
    BY <2>4, <2>5
    DEF Point!Start, Point!Charge, Point!Stop, Point!Open, Point!Wait
  <2> QED BY <2>3, <2>6 DEF Point!Next
<1> QED
  BY <1>1, <1>4, InvHolds, PTL DEF Spec, ImplementsChargePoint, Point!Safety
=============================================================================
