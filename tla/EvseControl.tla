---------------------------- MODULE EvseControl ----------------------------
(***************************************************************************)
(* The control part of evse_state_machine.c: what each function of that    *)
(* file does to the context record evse_ctx_t, as operators from a record  *)
(* to a record.  A handler of the program is a chain of if-statements that *)
(* hand the updated context to the next one within the same tick, so a     *)
(* handler is the composition of one operator per if-statement.            *)
(*                                                                         *)
(* Currents are abstracted: whether evse_is_current_available says yes     *)
(* ("avail") and what evse_calc_balanced_current finds on the mains        *)
(* ("grid") are parameters.  BalancedState[0] always equals State and has  *)
(* no field of its own.                                                    *)
(***************************************************************************)
EXTENDS Integers

CONSTANTS
    LoadBl,             \* 0 stand-alone, 1 load balancing master, 2.. node
    ModemEnabled,       \* built with the ISO 15118 modem (MODEM = 1)
    RfidLock,           \* RFIDReader is 1 or 2: access expires in state A
    MainsMeterType,     \* "none", "sensorbox" or "api"
    EVMeterPresent,     \* EVMeterType # 0
    MaxSumMainsTime     \* 0, or the seconds a sum-of-mains excess may last

\* The durations, in ticks of the timer that counts them; the value in the
\* code is given in the comment.  A model scales them down.
CONSTANTS
    Debounce,           \* 10 ms ticks of 6 V (or short) to believe it: 50
    C1Grace,            \* C1Timer: seconds the car gets to stop drawing: 6
    DelayC1,            \* ChargeDelay set by state C1: 15
    DelayB1,            \* ChargeDelay set by state B1: 3
    CHARGEDELAY,        \* ChargeDelay held while LESS_6A is set: 60
    PilotOff,           \* PilotDisconnectTime: 5
    RFIDLOCKTIME,       \* 60
    ActivationDelay,    \* ActivationMode after entering B: 30
    ActivationPulse,    \* ActivationTimer in ACTSTART: 3
    COMM_TIMEOUT,       \* 11
    COMM_EVTIMEOUT,     \* 64
    NoCurrentThreshold, \* 10
    NoCurrentMax,       \* NoCurrent, a uint8_t, stops counting here: 255
    ModemDoneTime,      \* ToModemDoneStateTimer: 60
    ModemLeaveTime,     \* LeaveModemDoneStateTimer: 5
    ModemDeniedTime,    \* LeaveModemDeniedStateTimer: 60
    ApiStaleTime,       \* api_mains_staleness_timer at power-on: 120
    ByteValues          \* StateTimer, a uint8_t, wraps at this value: 256

ActivationOff == 255    \* ActivationMode when disabled

ASSUME ConfigAssumption ==
    /\ LoadBl \in 0..8
    /\ ModemEnabled \in BOOLEAN /\ RfidLock \in BOOLEAN
    /\ EVMeterPresent \in BOOLEAN
    /\ MainsMeterType \in {"none", "sensorbox", "api"}
    /\ MaxSumMainsTime \in Nat

ASSUME DurationAssumption ==
    /\ Debounce \in Nat /\ ByteValues \in Nat /\ ByteValues > Debounce + 1
    /\ DelayC1 \in Nat \ {0} /\ DelayB1 \in Nat \ {0} /\ CHARGEDELAY \in Nat \ {0}
    /\ C1Grace \in Nat /\ PilotOff \in Nat /\ RFIDLOCKTIME \in Nat \ {0}
    /\ ActivationDelay \in Nat /\ ActivationDelay < ActivationOff
    /\ ActivationPulse \in Nat
    /\ COMM_TIMEOUT \in Nat \ {0} /\ COMM_EVTIMEOUT \in Nat \ {0}
    /\ NoCurrentMax \in Nat /\ NoCurrentThreshold \in 1..NoCurrentMax
    /\ ModemDoneTime \in Nat /\ ModemLeaveTime \in Nat
    /\ ModemDeniedTime \in Nat /\ ApiStaleTime \in Nat

----------------------------------------------------------------------------
States == {"A", "B", "C", "COMM_B", "COMM_B_OK", "COMM_C", "COMM_C_OK",
           "ACTSTART", "B1", "C1", "MODEM_REQUEST", "MODEM_WAIT",
           "MODEM_DONE", "MODEM_DENIED"}
ModemStates == {"MODEM_REQUEST", "MODEM_WAIT", "MODEM_DONE", "MODEM_DENIED"}

\* RCM_TEST, Test_IO and BL_FLASH only drive the display and the CH32 self test
Faults == {"LESS_6A", "CT_NOCOMM", "TEMP_HIGH", "EV_NOCOMM", "RCM_TRIPPED"}

Pilots == {"12V", "9V", "6V", "3V", "DIODE", "SHORT", "NOK"}

Ctx == [State : States, Mode : {"NORMAL", "SMART"},
        AccessStatus : {"OFF", "ON", "PAUSE"}, ErrorFlags : SUBSET Faults,
        ChargeDelay : Nat, AccessTimer : Nat, C1Timer : Nat, NoCurrent : Nat,
        ActivationMode : Nat, ActivationTimer : Nat,
        StateTimer : Nat, DiodeCheck : BOOLEAN,
        PilotDisconnected : BOOLEAN, PilotDisconnectTime : Nat,
        MaxSumMainsTimer : Nat, MainsMeterTimeout : Nat, EVMeterTimeout : Nat,
        ApiTimer : Nat, ApiStale : BOOLEAN,
        EnableC2 : {"NOT_PRESENT", "ALWAYS_OFF", "AUTO", "ALWAYS_ON"},
        Phases : {1, 3}, Switching : {"NO_SWITCH", "TO_1P", "TO_3P"},
        ModemStage : {0, 1}, ModemTimer : Nat, DisconnectTimeCounter : Int,
        contactor1 : BOOLEAN, contactor2 : BOOLEAN, pilotConnected : BOOLEAN]

\* evse_init, and the settings read from flash that the constants stand for
InitCtx(mode, c2, access) ==
    [State |-> "A", Mode |-> mode, AccessStatus |-> access, ErrorFlags |-> {},
     ChargeDelay |-> 0, AccessTimer |-> 0, C1Timer |-> 0, NoCurrent |-> 0,
     ActivationMode |-> ActivationOff, ActivationTimer |-> 0,
     StateTimer |-> 0, DiodeCheck |-> FALSE,
     PilotDisconnected |-> FALSE, PilotDisconnectTime |-> 0,
     MaxSumMainsTimer |-> 0, MainsMeterTimeout |-> COMM_TIMEOUT,
     EVMeterTimeout |-> COMM_EVTIMEOUT,
     ApiTimer |-> ApiStaleTime, ApiStale |-> FALSE,
     EnableC2 |-> c2, Phases |-> 3, Switching |-> "NO_SWITCH",
     ModemStage |-> 0, ModemTimer |-> 0, DisconnectTimeCounter |-> -1,
     contactor1 |-> FALSE, contactor2 |-> FALSE, pilotConnected |-> TRUE]

Raise(c, f) == [c EXCEPT !.ErrorFlags = @ \cup {f}]
Clear(c, f) == [c EXCEPT !.ErrorFlags = @ \ {f}]

\* Mutant: a countdown without its guard
DecUnguarded(n) == n - 1

Dec(n) == IF n > 0 THEN n - 1 ELSE 0

----------------------------------------------------------------------------
(* Phases                                                                  *)

\* evse_force_single_phase
ForceSinglePhase(c) == \/ c.EnableC2 = "ALWAYS_OFF"
                       \/ c.EnableC2 = "AUTO" /\ c.Phases = 1

\* Towards p phases: at once when no car is connected, else at the next C
SwitchTo(c, p) ==
    CASE c.Phases = p -> [c EXCEPT !.Switching = "NO_SWITCH"]
      [] c.Phases # p /\ c.State = "A" -> [c EXCEPT !.Phases = p]
      [] OTHER -> [c EXCEPT !.Switching = IF p = 1 THEN "TO_1P" ELSE "TO_3P"]

\* check_switching_phases
CheckSwitchingPhases(c) ==
    CASE c.EnableC2 # "AUTO" -> SwitchTo(c, IF ForceSinglePhase(c) THEN 1 ELSE 3)
      [] c.EnableC2 = "AUTO" /\ c.Mode = "SMART" ->
           [c EXCEPT !.Switching = IF c.Phases # 3 THEN "TO_3P" ELSE "NO_SWITCH"]
      [] OTHER -> c

----------------------------------------------------------------------------
(* State entry: evse_set_state                                             *)

\* Mutants: nothing is opened, or only the main contactor is
OpenNone(c) == c
OpenMainOnly(c) == [c EXCEPT !.contactor1 = FALSE]

OpenContactors(c) == [c EXCEPT !.contactor1 = FALSE, !.contactor2 = FALSE]

\* Mutant: a car unplugged in C1 leaves its access behind
EndsSessionNotC1(c) == c.State \in {"C", "B", "B1"}

\* The states in which a car is there, so that entering A ends its session
EndsSession(c) == c.State \in {"C", "C1", "B", "B1"}

\* Mutant: what the modem learnt of one car is kept for the next
EnterAIdentified(c) ==
    [OpenContactors(c) EXCEPT !.ErrorFlags = @ \ {"LESS_6A"}, !.ChargeDelay = 0,
        !.AccessStatus = IF EndsSession(c) THEN "OFF" ELSE @]

\* evse_enter_state_a
EnterA(c) ==
    LET d == [OpenContactors(c) EXCEPT
                !.ModemStage = 0, !.ErrorFlags = @ \ {"LESS_6A"},
                !.ChargeDelay = 0,
                !.DisconnectTimeCounter = IF ModemEnabled /\ @ = -1 THEN 0 ELSE @]
    IN  IF EndsSession(c)
        THEN [d EXCEPT !.AccessStatus = "OFF", !.AccessTimer = 0]
        ELSE d

\* Mutant: the pilot is cut and nobody remembers to wait for it
EnterB1Unmarked(c) == [OpenContactors(c) EXCEPT !.pilotConnected = FALSE]

EnterB1(c) ==
    LET d == [OpenContactors(c) EXCEPT
                !.ChargeDelay = IF @ = 0 THEN DelayB1 ELSE @]
    IN  IF c.State # "B1" /\ ~c.PilotDisconnected /\ c.AccessStatus = "ON"
        THEN [d EXCEPT !.pilotConnected = FALSE, !.PilotDisconnected = TRUE,
                       !.PilotDisconnectTime = PilotOff]
        ELSE d

EnterB(c) ==
    LET d == OpenContactors(CheckSwitchingPhases(c))
    IN  IF ModemEnabled
        THEN [d EXCEPT !.pilotConnected = TRUE, !.DisconnectTimeCounter = -1]
        ELSE d

EnterC(c) ==
    LET switched == [c EXCEPT !.Phases = CASE c.Switching = "TO_1P" -> 1
                                           [] c.Switching = "TO_3P" -> 3
                                           [] OTHER -> @]
        single   == ForceSinglePhase(switched)
    IN  [switched EXCEPT !.ActivationMode = ActivationOff,
                         !.contactor1 = TRUE, !.contactor2 = ~single,
                         !.Phases = IF single THEN 1 ELSE 3,
                         !.MaxSumMainsTimer = 0, !.Switching = "NO_SWITCH"]

\* The contactors stay closed: the car is asked to stop, and has C1Grace to do so
EnterC1(c) == [c EXCEPT !.C1Timer = C1Grace, !.ChargeDelay = DelayC1]

\* The four modem timers are never live together: one field stands for them
EnterModem(c, s) ==
    CASE s = "MODEM_REQUEST" ->
           [OpenContactors(c) EXCEPT !.ModemTimer = 0, !.pilotConnected = FALSE,
                                     !.DisconnectTimeCounter = -1]
      [] s = "MODEM_WAIT" ->
           [c EXCEPT !.pilotConnected = TRUE, !.ModemTimer = ModemDoneTime]
      [] s = "MODEM_DONE" ->
           [c EXCEPT !.pilotConnected = FALSE, !.ModemTimer = ModemLeaveTime,
                     !.DisconnectTimeCounter = -1]
      [] OTHER -> c

SetState(c, s) ==
    LET entered == CASE s = "A"  -> EnterA(c)
                     [] s = "B1" -> EnterB1(c)
                     [] s = "B"  -> EnterB(c)
                     [] s = "C"  -> EnterC(c)
                     [] s = "C1" -> EnterC1(c)
                     [] s \in ModemStates -> EnterModem(c, s)
                     [] OTHER -> c
    IN  [entered EXCEPT !.State = s]

\* evse_set_power_unavailable
SetPowerUnavailable(c) ==
    CASE c.State = "C" -> SetState(c, "C1")
      [] c.State \in {"A", "C1", "B1"} -> c
      [] OTHER -> SetState(c, "B1")

\* evse_set_access
SetAccess(c, access) ==
    LET d == [c EXCEPT !.AccessStatus = access]
    IN  CASE access # "ON" /\ c.State = "C" -> SetState(d, "C1")
          [] access # "ON" /\ c.State \in {"B"} \cup ModemStates -> SetState(d, "B1")
          [] OTHER -> d

----------------------------------------------------------------------------
(* evse_calc_balanced_current: its effect on the control state.  "grid" is *)
(* what the regulation finds: .power is "ample", a shortage that counts    *)
(* ("hard": MaxMains, MaxCircuit, the subpanel limit or, for a master that *)
(* schedules, nobody can get MinCurrent), one that does not ("soft"), or   *)
(* "unknown" without a new measurement; .excess says that the sum of the   *)
(* phases exceeds MaxSumMains; .others is the number of nodes of this      *)
(* master that charge.                                                     *)

Powers == {"ample", "hard", "soft", "unknown"}
Grids == [power : Powers, excess : BOOLEAN, others : Nat]

\* Phase 3: what is decided before the balance of power is looked at
Regulated(c, grid) ==
    CASE c.Mode = "NORMAL" /\ c.Phases # 3 -> [c EXCEPT !.Switching = "TO_3P"]
      [] c.Mode = "SMART" /\ ~grid.excess -> [c EXCEPT !.MaxSumMainsTimer = 0]
      [] OTHER -> c

\* A shortage: it counts, or starts the timer of MaxSumMains, or is ignored
ShortOfPower(c, grid, active) ==
    LET limited == grid.excess /\ c.Mode = "SMART"
        hard    == grid.power = "hard" \/ (limited /\ MaxSumMainsTime = 0)
        counts  == IF active > 1 THEN grid.power = "hard"
                                 ELSE hard /\ c.Switching # "TO_1P"
        counted ==
            CASE counts -> [c EXCEPT !.NoCurrent = IF @ < NoCurrentMax THEN @ + 1 ELSE @]
              [] ~counts /\ active = 1 /\ limited /\ c.MaxSumMainsTimer = 0 ->
                   [c EXCEPT !.MaxSumMainsTimer = MaxSumMainsTime]
              [] OTHER -> c
    IN  IF counted.NoCurrent >= NoCurrentThreshold /\ c.Mode = "SMART"
        THEN Raise(counted, "LESS_6A") ELSE counted

CalcBalancedCurrent(c, grid) ==
    LET active == grid.others + (IF c.State = "C" THEN 1 ELSE 0)
        d      == Regulated(c, grid)
    IN  CASE active = 0 -> [d EXCEPT !.MaxSumMainsTimer = 0, !.NoCurrent = 0]
          [] active > 0 /\ grid.power = "unknown" -> d
          [] active > 0 /\ grid.power = "ample" ->
               [d EXCEPT !.MaxSumMainsTimer = 0, !.NoCurrent = Dec(@)]
          [] active > 0 /\ grid.power \in {"hard", "soft"} -> ShortOfPower(d, grid, active)

----------------------------------------------------------------------------
(* evse_tick_10ms: one operator per if-statement, in their order.  "avail" *)
(* is what evse_is_current_available answers when it is asked.             *)

MayConnect(c) == /\ c.ErrorFlags = {} /\ c.ChargeDelay = 0
                 /\ c.AccessStatus = "ON" /\ c.State # "COMM_B"

EnterBWith(c) == [SetState(c, "B") EXCEPT !.ActivationMode = ActivationDelay,
                                          !.AccessTimer = 0]

\* A car is there and may be served: lines 1216-1241
Connect(c, avail) ==
    LET d == [c EXCEPT !.DiodeCheck = FALSE]
    IN  CASE LoadBl > 1 -> SetState(d, "COMM_B")
          [] LoadBl <= 1 /\ avail /\ ModemEnabled /\ d.ModemStage = 0 ->
               [SetState(d, "MODEM_REQUEST") EXCEPT
                   !.ActivationMode = ActivationDelay, !.AccessTimer = 0]
          [] LoadBl <= 1 /\ avail /\ ~(ModemEnabled /\ d.ModemStage = 0) -> EnterBWith(d)
          [] OTHER -> Raise(d, "LESS_6A")

\* No car at the cable: lines 1203-1211
Unplugged(c) ==
    LET d == IF RfidLock /\ c.AccessTimer = 0 /\ c.AccessStatus = "ON"
             THEN [c EXCEPT !.AccessTimer = RFIDLOCKTIME] ELSE c
        e == IF d.State # "A" THEN SetState(d, "A") ELSE d
    IN  [e EXCEPT !.ChargeDelay = 0]

TickWaiting(c, pilot, avail) ==
    CASE c.State \notin {"A", "COMM_B", "B1"} -> c
      [] c.State \in {"A", "COMM_B", "B1"} /\ c.PilotDisconnected ->
           IF c.PilotDisconnectTime = 0
           THEN [c EXCEPT !.pilotConnected = TRUE, !.PilotDisconnected = FALSE]
           ELSE c
      [] c.State \in {"A", "COMM_B", "B1"} /\ ~c.PilotDisconnected ->
           CASE pilot = "12V" -> Unplugged(c)
             [] pilot = "9V" /\ MayConnect(c) -> Connect(c, avail)
             [] pilot = "9V" /\ ~MayConnect(c) /\ c.State = "A" /\ c.AccessStatus = "ON" ->
                  SetState(c, "B1")
             [] OTHER -> c

TickCommBOk(c) == IF c.State = "COMM_B_OK" THEN EnterBWith(c) ELSE c

\* Mutants: a check is missing
MayChargeAnybody(c) == /\ c.StateTimer > Debounce /\ c.DiodeCheck
                       /\ c.ErrorFlags = {} /\ c.ChargeDelay = 0
MayChargeNoDiode(c) == /\ c.StateTimer > Debounce /\ c.ErrorFlags = {}
                       /\ c.ChargeDelay = 0 /\ c.AccessStatus = "ON"

MayCharge(c) == /\ c.StateTimer > Debounce /\ c.DiodeCheck
                /\ c.ErrorFlags = {} /\ c.ChargeDelay = 0 /\ c.AccessStatus = "ON"

\* The car asks for power: lines 1261-1285
RequestCharge(c, avail, grid) ==
    CASE LoadBl > 1 -> IF c.State # "COMM_C" THEN SetState(c, "COMM_C") ELSE c
      [] LoadBl <= 1 /\ avail ->
           SetState([CalcBalancedCurrent(c, grid) EXCEPT !.DiodeCheck = FALSE], "C")
      [] OTHER -> Raise(c, "LESS_6A")

TickConnected(c, pilot, avail, grid) ==
    IF c.State \notin {"B", "COMM_C"} THEN c
    ELSE LET timed == [c EXCEPT !.StateTimer = (@ + 1) % ByteValues]
             rest  == [c EXCEPT !.StateTimer = 0]
         IN  CASE pilot = "12V" -> SetState(c, "A")
               [] pilot = "6V" -> IF MayCharge(timed)
                                  THEN RequestCharge(timed, avail, grid) ELSE timed
               [] pilot = "9V" -> IF rest.ActivationMode = 0
                                  THEN [SetState(rest, "ACTSTART") EXCEPT
                                           !.ActivationTimer = ActivationPulse]
                                  ELSE rest
               [] pilot = "DIODE" -> [c EXCEPT !.DiodeCheck = TRUE]
               [] OTHER -> c

\* Mutant: a car that goes on asking for power is taken back
TickStoppingResumed(c, pilot) ==
    IF c.State = "C1" /\ pilot = "6V" /\ c.AccessStatus = "ON" /\ c.ErrorFlags = {}
    THEN SetState(c, "C") ELSE c

TickStopping(c, pilot) ==
    CASE c.State = "C1" /\ pilot = "12V" -> SetState(c, "A")
      [] c.State = "C1" /\ pilot = "9V" -> SetState(c, "B1")
      [] OTHER -> c

TickActStart(c) ==
    IF c.State = "ACTSTART" /\ c.ActivationTimer = 0
    THEN [SetState(c, "B") EXCEPT !.ActivationMode = ActivationOff] ELSE c

TickCommCOk(c) ==
    IF c.State = "COMM_C_OK" THEN SetState([c EXCEPT !.DiodeCheck = FALSE], "C") ELSE c

TickCharging(c, pilot) ==
    IF c.State # "C" THEN c
    ELSE CASE pilot = "12V" -> SetState(c, "A")
           [] pilot = "9V" -> [SetState(c, "B") EXCEPT !.DiodeCheck = FALSE]
           [] pilot = "SHORT" -> IF (c.StateTimer + 1) % ByteValues > Debounce
                                 THEN [SetState(c, "B") EXCEPT !.StateTimer = 0,
                                                               !.DiodeCheck = FALSE]
                                 ELSE [c EXCEPT !.StateTimer = (@ + 1) % ByteValues]
           [] OTHER -> [c EXCEPT !.StateTimer = 0]

Tick10ms(c, pilot, avail, grid) ==
    LET waiting   == TickWaiting(c, pilot, avail)
        granted   == TickCommBOk(waiting)
        connected == TickConnected(granted, pilot, avail, grid)
        stopping  == TickStopping(connected, pilot)
        activated == TickActStart(stopping)
        permitted == TickCommCOk(activated)
    IN  TickCharging(permitted, pilot)

----------------------------------------------------------------------------
(* evse_tick_1s: again one operator per if-statement.  "temp" is TempEVSE  *)
(* against maxTemp: "hot" above it, "cool" more than 10 degrees below it.  *)

Temps == {"cool", "warm", "hot"}

TickActivation(c) ==
    [c EXCEPT !.ActivationMode = IF @ = ActivationOff THEN @ ELSE Dec(@),
              !.ActivationTimer = Dec(@)]

\* The modem talked to the car: "known" is whether RequiredEVCCID is empty or
\* is the EVCCID that the modem has read
LeaveModemDone(c, known) ==
    LET d == [c EXCEPT !.pilotConnected = FALSE]
    IN  IF known
        THEN SetState([d EXCEPT !.ModemStage = 1], "B")
        ELSE SetState([d EXCEPT !.ModemStage = 0, !.ModemTimer = ModemDeniedTime],
                      "MODEM_DENIED")

\* One if-statement of the modem chain: count, or leave state s
ModemStep(c, s, left) ==
    CASE c.State = s /\ c.ModemTimer > 0 -> [c EXCEPT !.ModemTimer = @ - 1]
      [] c.State = s /\ c.ModemTimer = 0 -> left
      [] OTHER -> c

TickModem(c, known) ==
    LET wait   == ModemStep(c, "MODEM_REQUEST", SetState(c, "MODEM_WAIT"))
        done   == ModemStep(wait, "MODEM_WAIT", SetState(wait, "MODEM_DONE"))
        left   == ModemStep(done, "MODEM_DONE", LeaveModemDone(done, known))
        denied == ModemStep(left, "MODEM_DENIED",
                      [SetState(left, "A") EXCEPT !.pilotConnected = TRUE])
    IN  IF ModemEnabled THEN denied ELSE c

\* Mutant: a car that does not obey keeps its power
TickC1Patient(c) ==
    IF c.State = "C1" /\ c.C1Timer > 0 THEN [c EXCEPT !.C1Timer = @ - 1] ELSE c

TickC1(c) ==
    CASE c.State = "C1" /\ c.C1Timer > 0 -> [c EXCEPT !.C1Timer = @ - 1]
      [] c.State = "C1" /\ c.C1Timer = 0 -> SetState(c, "B1")
      [] OTHER -> c

TickMaxSumMains(c) ==
    LET d == [c EXCEPT !.MaxSumMainsTimer = Dec(@)]
        e == IF d.State = "C" THEN SetState(d, "C1") ELSE d
    IN  IF c.MaxSumMainsTimer = 1 THEN Raise(e, "LESS_6A") ELSE d

TickAccessTimer(c) ==
    CASE c.State # "A" -> [c EXCEPT !.AccessTimer = 0]
      [] c.State = "A" /\ c.AccessTimer = 1 -> SetAccess([c EXCEPT !.AccessTimer = 0], "OFF")
      [] OTHER -> [c EXCEPT !.AccessTimer = Dec(@)]

\* "avail" is the answer for the state the EVSE is in: a car that charges is
\* counted by evse_is_current_available, and its current is not base load
AvailIn(c, avail) == IF c.State = "C" THEN avail.charging ELSE avail.idle

\* TEMP_HIGH goes away with hysteresis, LESS_6A as soon as there is current
TickRecover(c, temp, avail) ==
    LET gone == {f \in {"TEMP_HIGH", "LESS_6A"} :
                   \/ f = "TEMP_HIGH" /\ temp = "cool"
                   \/ f = "LESS_6A" /\ LoadBl < 2 /\ AvailIn(c, avail)}
    IN  [c EXCEPT !.ErrorFlags = @ \ gone]

\* Mutant: the flag is raised and the car charges on
FaultFlagOnly(c, f) == Raise(c, f)

Fault(c, f) == SetPowerUnavailable(Raise(c, f))

\* Stale data of an API meter raises no CT_NOCOMM
TickMainsMeter(c) ==
    CASE LoadBl < 2 /\ MainsMeterType = "none" ->
           [c EXCEPT !.MainsMeterTimeout = COMM_TIMEOUT]
      [] /\ c.MainsMeterTimeout = 0 /\ "CT_NOCOMM" \notin c.ErrorFlags
         /\ LoadBl > 1 \/ (MainsMeterType # "none" /\ c.Mode = "SMART") ->
           IF LoadBl < 2 /\ MainsMeterType = "api" /\ ApiStaleTime > 0
           THEN c ELSE Fault(c, "CT_NOCOMM")
      [] OTHER -> [c EXCEPT !.MainsMeterTimeout = Dec(@)]

TickEVMeter(c) ==
    CASE ~EVMeterPresent -> [c EXCEPT !.EVMeterTimeout = COMM_EVTIMEOUT]
      [] /\ EVMeterPresent /\ c.EVMeterTimeout = 0
         /\ "EV_NOCOMM" \notin c.ErrorFlags /\ c.Mode = "SMART" -> Fault(c, "EV_NOCOMM")
      [] OTHER -> [c EXCEPT !.EVMeterTimeout = Dec(@)]

TickCommRecover(c) ==
    LET back == {f \in {"CT_NOCOMM", "EV_NOCOMM"} :
                   \/ f = "CT_NOCOMM" /\ c.MainsMeterTimeout > 0
                   \/ f = "EV_NOCOMM" /\ c.EVMeterTimeout > 0}
    IN  [c EXCEPT !.ErrorFlags = @ \ back]

\* On expiry the code also overwrites MainsMeterIrms, which nothing reads
TickApiStale(c) ==
    LET timer == Dec(c.ApiTimer)
    IN  CASE MainsMeterType = "api" /\ ApiStaleTime > 0 /\ LoadBl < 2 ->
               [c EXCEPT !.ApiTimer = timer, !.ApiStale = timer = 0]
          [] MainsMeterType # "api" -> [c EXCEPT !.ApiStale = FALSE]
          [] OTHER -> c

TickTemperature(c, temp) ==
    IF temp = "hot" /\ "TEMP_HIGH" \notin c.ErrorFlags THEN Fault(c, "TEMP_HIGH") ELSE c

\* Mutant: only a car that does not charge yet is kept waiting
EnforceLess6ADelayOnly(c) ==
    IF "LESS_6A" \in c.ErrorFlags THEN [c EXCEPT !.ChargeDelay = CHARGEDELAY] ELSE c

\* While LESS_6A is set the car is kept waiting
EnforceLess6A(c) ==
    IF "LESS_6A" \in c.ErrorFlags
    THEN [SetPowerUnavailable(c) EXCEPT !.ChargeDelay = CHARGEDELAY] ELSE c

Tick1s(c, temp, avail, known) ==
    LET timed     == TickC1(TickModem(TickActivation(c), known))
        pilot     == [timed EXCEPT !.PilotDisconnectTime = Dec(@)]
        delayed   == [TickMaxSumMains(pilot) EXCEPT !.ChargeDelay = Dec(@)]
        recovered == TickRecover(TickAccessTimer(delayed), temp, avail)
        metered   == TickCommRecover(TickEVMeter(TickMainsMeter(recovered)))
    IN  EnforceLess6A(TickTemperature(TickApiStale(metered), temp))

\* timer1s_modem_disconnect, which Timer1S runs after evse_tick_1s
TickModemDisconnect(c, pilot) ==
    LET n == IF c.DisconnectTimeCounter >= 0 THEN c.DisconnectTimeCounter + 1 ELSE -1
    IN  IF ~ModemEnabled THEN c
        ELSE [c EXCEPT !.DisconnectTimeCounter =
                CASE n > 3 /\ pilot = "12V" -> -1
                  [] n > 3 /\ pilot # "12V" -> 0
                  [] OTHER -> n]
=============================================================================
