-------------------------- MODULE EvseStateMachine --------------------------
(***************************************************************************)
(* One SmartEVSE controller and everything that calls into its state       *)
(* machine: the 10 ms and 1 s tasks, the user (access, mode, contactor     *)
(* setting), the meters, the regulation and the residual current monitor.  *)
(* EvseNode adds the writes of a load balancing master.                    *)
(*                                                                         *)
(* Each bridge transaction (lock, copy in, operate, copy out) is one step; *)
(* what may happen between the copy and a writer that does not take the    *)
(* lock is not in this module.                                             *)
(***************************************************************************)
EXTENDS EvseControl

CONSTANTS
    PilotReadings,      \* what Pilot() may return, a subset of Pilots
    GridReadings,       \* what the regulation may find, a subset of Grids
    AvailReadings,      \* what evse_is_current_available may answer: records of
                        \*   .idle, while the EVSE is not in C, and .charging
    TempReadings,       \* a subset of Temps
    C2Choices,          \* contactor 2 settings the user may select
    Modes,              \* modes the settings may hold
    ModeChoices,        \* modes the user may select
    AccessChoices,      \* access values the user, RFID or OCPP may set
    EvccidReadings,     \* whether the modem may meet a car it knows
    Buttons,            \* "stop": the switch stops a charging car (Switch = 0),
                        \*   "menu": the user may leave the menu of the display
    OcppMode,           \* an OCPP server may limit the current
    RcmPresent          \* RCmon = 1: a residual current monitor is fitted

Avails == [idle : BOOLEAN, charging : BOOLEAN]

ASSUME EnvAssumption ==
    /\ PilotReadings \subseteq Pilots /\ TempReadings \subseteq Temps
    /\ GridReadings \subseteq Grids /\ AvailReadings \subseteq Avails
    /\ C2Choices \subseteq {"NOT_PRESENT", "ALWAYS_OFF", "AUTO", "ALWAYS_ON"}
    /\ Modes \subseteq {"NORMAL", "SMART"} /\ ModeChoices \subseteq Modes
    /\ EvccidReadings \subseteq BOOLEAN /\ Buttons \subseteq {"stop", "menu"}
    /\ OcppMode \in BOOLEAN
    /\ AccessChoices \subseteq {"OFF", "ON", "PAUSE"}
    /\ RcmPresent \in BOOLEAN

VARIABLES
    ctx,        \* g_evse_ctx and the globals it is copied from and to
    rcm,        \* "idle", or "opened": the monitor task opened the
                \*   contactors and has not raised RCM_TRIPPED yet
    diodeSeen   \* history: a diode was seen since the cable was last free

vars == <<ctx, rcm, diodeSeen>>

\* The whole configuration space of the settings kept in flash
Init == /\ \E mode \in Modes, c2 \in C2Choices, access \in {"OFF", "ON"} :
              ctx = InitCtx(mode, c2, access)
        /\ rcm = "idle"
        /\ diodeSeen = FALSE

\* Bookkeeping of the history variable, part of every step
Seen(c, pilot) == /\ ctx' = c
                  /\ diodeSeen' = (c.State # "A" /\ (diodeSeen \/ pilot = "DIODE"))

Becomes(c) == Seen(c, "NOK")

----------------------------------------------------------------------------
(* The tasks                                                               *)

\* The 10 ms tick asks for current only while it is not in C
IdleAvails == {avail.idle : avail \in AvailReadings}

\* Mutant: the residual current check runs in a task of its own
Timer10msAnytime ==
    /\ \E pilot \in PilotReadings, avail \in IdleAvails, grid \in GridReadings :
          Seen(Tick10ms(ctx, pilot, avail, grid), pilot)
    /\ UNCHANGED rcm

\* Timer10ms_singlerun; the same task runs the residual current check below
Timer10ms == /\ rcm = "idle"
             /\ \E pilot \in PilotReadings, avail \in IdleAvails, grid \in GridReadings :
                   Seen(Tick10ms(ctx, pilot, avail, grid), pilot)
             /\ UNCHANGED rcm

\* Only the build with the modem looks at the pilot once a second
Timer1s == /\ \E temp \in TempReadings, avail \in AvailReadings,
                 pilot \in IF ModemEnabled THEN PilotReadings ELSE {"NOK"},
                 known \in IF ModemEnabled THEN EvccidReadings ELSE {TRUE} :
                 Becomes(TickModemDisconnect(Tick1s(ctx, temp, avail, known), pilot))
           /\ UNCHANGED rcm

\* timer10ms_rcm_check: setState and setErrorFlags are two transactions
RcmOpens == /\ RcmPresent /\ rcm = "idle"
            /\ Becomes(IF ctx.State = "A" THEN ctx ELSE SetState(ctx, "B1"))
            /\ rcm' = "opened"

RcmTrips == /\ rcm = "opened"
            /\ Becomes(Raise(ctx, "RCM_TRIPPED"))
            /\ rcm' = "idle"

\* A button press clears the fault once the monitor is quiet
RcmReset == /\ rcm = "idle" /\ "RCM_TRIPPED" \in ctx.ErrorFlags
            /\ Becomes(Clear(ctx, "RCM_TRIPPED"))
            /\ UNCHANGED rcm

\* The end of ModbusRequestLoop: regulate, and trip at twice MaxMains
Regulate == /\ LoadBl < 2
            /\ \E grid \in GridReadings, overload \in BOOLEAN :
                  LET c == CalcBalancedCurrent(ctx, grid)
                  IN  /\ overload => c.Mode = "SMART" /\ grid.power = "hard"
                      /\ Becomes(IF overload
                                 THEN [Raise(c, "LESS_6A") EXCEPT !.NoCurrent = 0]
                                 ELSE c)
            /\ UNCHANGED rcm

----------------------------------------------------------------------------
(* The user and the meters                                                 *)

SetAccessTo(access) == /\ Becomes(SetAccess(ctx, access))
                       /\ UNCHANGED rcm

\* setMode: choosing a mode also grants access, unless a delayed start waits
ModeSet(c, mode, delayed) ==
    LET phased == CheckSwitchingPhases(SetAccess(c, IF delayed THEN "OFF" ELSE "ON"))
        smart  == [Clear(phased, "LESS_6A") EXCEPT !.MaxSumMainsTimer = 0]
    IN  [IF mode = "SMART" THEN smart ELSE phased EXCEPT !.ChargeDelay = 0, !.Mode = mode]

SetMode(mode) ==
    /\ LoadBl < 2 /\ MainsMeterType = "none" => mode = "NORMAL"
    /\ \E delayed \in BOOLEAN : Becomes(ModeSet(ctx, mode, delayed))
    /\ UNCHANGED rcm

\* setItemValue(MENU_C2)
SetEnableC2(c2) == /\ Becomes(CheckSwitchingPhases([ctx EXCEPT !.EnableC2 = c2]))
                   /\ UNCHANGED rcm

\* Button.HandleSwitch and CheckSwitch, with the access function disabled
StopButton == /\ "stop" \in Buttons
              /\ ctx.State = "C"
              /\ Becomes([SetState(ctx, "C1") EXCEPT !.ChargeDelay = DelayC1])
              /\ UNCHANGED rcm

\* Leaving the menu: of the errors, !(NO_ERROR) is the first bit, LESS_6A
MenuExit == /\ "menu" \in Buttons
            /\ Becomes([Clear(ctx, "LESS_6A") EXCEPT !.ChargeDelay = 0])
            /\ UNCHANGED rcm

\* A new limit of the OCPP server
OcppLimit ==
    /\ OcppMode /\ LoadBl = 0
    /\ \E grid \in GridReadings, avail \in AvailReadings :
          LET c == CalcBalancedCurrent(ctx, grid)
              enough == AvailIn(c, avail)
          IN  Becomes(CASE enough -> [Clear(c, "LESS_6A") EXCEPT !.ChargeDelay = 0]
                        [] ~enough /\ c.State \in {"B", "C"} -> SetPowerUnavailable(c)
                        [] OTHER -> c)
    /\ UNCHANGED rcm

\* The car's state of charge is posted: no need to ask the car
ModemSoC == /\ ModemEnabled /\ ctx.State \in {"MODEM_REQUEST", "MODEM_WAIT", "MODEM_DONE"}
            /\ Becomes(SetState(ctx, "MODEM_DONE"))
            /\ UNCHANGED rcm

MainsMeterData == /\ LoadBl < 2 /\ MainsMeterType # "none"
                  /\ Becomes([ctx EXCEPT !.MainsMeterTimeout = COMM_TIMEOUT])
                  /\ UNCHANGED rcm

EVMeterData == /\ EVMeterPresent
               /\ Becomes([ctx EXCEPT !.EVMeterTimeout = COMM_EVTIMEOUT])
               /\ UNCHANGED rcm

----------------------------------------------------------------------------
Next == \/ Timer10ms \/ Timer1s
        \/ RcmOpens \/ RcmTrips \/ RcmReset
        \/ Regulate
        \/ \E access \in AccessChoices : SetAccessTo(access)
        \/ \E mode \in ModeChoices : SetMode(mode)
        \/ \E c2 \in C2Choices : SetEnableC2(c2)
        \/ StopButton \/ MenuExit \/ OcppLimit \/ ModemSoC
        \/ MainsMeterData \/ EVMeterData

Spec == Init /\ [][Next]_vars

----------------------------------------------------------------------------
(* Properties                                                              *)

\* Every field keeps the type of its C variable; the one invariant about types.
TypeOK == ctx \in Ctx /\ rcm \in {"idle", "opened"} /\ diodeSeen \in BOOLEAN

\* The main contactor is closed in C, where the car charges, and in C1, where
\* the car has been told to stop; in no other state, whatever path left C.
ContactorFollowsState ==
    /\ ctx.State = "C" => ctx.contactor1
    /\ ctx.contactor1 => ctx.State \in {"C", "C1"}

\* While power flows, Nr_Of_Phases_Charging is the number of phases that are
\* really switched on: the load balancer divides by it.
PhasesMatchContactors ==
    /\ ctx.contactor2 => ctx.contactor1
    /\ ctx.contactor1 => (ctx.contactor2 <=> ctx.Phases = 3)

\* No car charges while a fault other than a shortage stands: the handlers
\* raise a fault only once, so a missed transition would never be repeated.
NoChargeOnFault == ctx.State = "C" => ctx.ErrorFlags \subseteq {"LESS_6A"}

\* No car charges once its access was revoked or paused.
NoChargeWithoutAccess == ctx.State = "C" => ctx.AccessStatus = "ON"

\* No car charges unless its diode was seen since the cable was last free,
\* over every detour (errors, access, activation, modem) between B and C.
DiodeSeenBeforeCharge == ctx.State = "C" => diodeSeen

\* The pilot line is cut, so that what is read from it means nothing, only in
\* a state that does not read it: B1 and A with PilotDisconnected set ("Pilot is
\* floating, don't check voltage"), and the states of the modem.
FloatingPilotIsNotRead ==
    ~ctx.pilotConnected => \/ ctx.PilotDisconnected /\ ctx.State \in {"A", "B1"}
                           \/ ctx.State \in ModemStates

\* A build with the modem serves no car that it has not identified, and what it
\* learnt of one car is forgotten when the cable is free.
IdentifiedBeforeCharge ==
    ModemEnabled => /\ ctx.State = "C" => ctx.ModemStage = 1
                    /\ ctx.State = "A" => ctx.ModemStage = 0

\* An API meter that keeps sending is not taken for stale: every datum restarts
\* both the 11 s timeout and the longer staleness timer.
StaleMeansNoData == ctx.ApiStale => ctx.MainsMeterTimeout < COMM_TIMEOUT

\* The access that one car was given is not left to the next one.
AccessEndsWithSession ==
    [][ctx.State # "A" /\ ctx'.State = "A" => ctx'.AccessStatus # "ON"]_vars

\* The contactor as ChargePoint sees it
Power == CASE ~ctx.contactor1 -> "off"
           [] ctx.contactor1 /\ ctx.State = "C" -> "charging"
           [] OTHER -> "stopping"

Point == INSTANCE ChargePoint WITH
            power <- Power, access <- ctx.AccessStatus,
            fault <- ~(ctx.ErrorFlags \subseteq {"LESS_6A"}), diode <- diodeSeen

\* The EVSE keeps the promises of ChargePoint about its contactor: a charge begins
\* with the contactor open and when all permits it, it is permitted as long as it
\* lasts, and a car that was told to stop charges no more before it was cut off.
ImplementsChargePoint == Point!Safety
=============================================================================
