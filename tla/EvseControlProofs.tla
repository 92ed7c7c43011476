------------------------- MODULE EvseControlProofs -------------------------
(***************************************************************************)
(* What the operators of EvseControl preserve.  Good(c) gathers what the   *)
(* theorems of EvseStateMachineProofs need of the context c: its type, the *)
(* agreement of the contactors with the state, and, where no master writes *)
(* the state, that only a car that may charge is in C.  Entitled(c) is what *)
(* a diode must have been seen for; an operator that makes a context       *)
(* Entitled found it so, or sees the diode.  Every operator has one lemma; *)
(* a tick is the composition of operators, and so is its proof.            *)
(*                                                                         *)
(* Zenon handles the type of an updated record well and knows no numbers:  *)
(* facts such as 0 \in Nat are steps of their own.                         *)
(***************************************************************************)
EXTENDS EvseControl, TLAPS

CommStates == {"COMM_B", "COMM_B_OK", "COMM_C", "COMM_C_OK"}

\* C, and the state that the next 10 ms tick turns into C
OnPower == {"C", "COMM_C_OK"}

\* Contactors, state and number of phases agree.  A master that answers twice may
\* take a node that is in C already back to COMM_C_OK, for one tick
Wired(c) == /\ c.State = "C" => c.contactor1
            /\ c.contactor1 => c.State \in {"C", "C1", "COMM_C_OK"}
            /\ LoadBl < 2 /\ c.State = "C1" => c.contactor1
            /\ c.contactor2 => c.contactor1
            /\ c.contactor1 => (c.contactor2 <=> c.Phases = 3)

MayStay(c) == c.ErrorFlags \subseteq {"LESS_6A"} /\ c.AccessStatus = "ON"

\* Without a master: no state of its handshake, and none of a modem that is not there
Unmastered(c) == LoadBl < 2 => /\ c.State \notin CommStates
                               /\ ~ModemEnabled => c.State \notin ModemStates

\* No fault stands where power flows, but that of a residual current monitor which
\* raised it late; and without a master only a car with access charges
Permitted(c) ==
    /\ c.State \in OnPower => c.ErrorFlags \subseteq {"LESS_6A", "RCM_TRIPPED"}
    /\ c.State = "C" /\ LoadBl < 2 => MayStay(c)

Tripped(c) == c.State \in OnPower /\ "RCM_TRIPPED" \in c.ErrorFlags

\* Power flows, or the next tick lets it flow
Powered(c) == c.contactor1 \/ c.State \in OnPower

\* Without the modem, the pilot line is cut where its reading is not acted upon
Joined(c) == ~ModemEnabled /\ ~c.pilotConnected =>
                 c.PilotDisconnected /\ c.State \in {"A", "B1"}

\* With it, a car that is served was identified, and a free cable forgets it
Served == {"B", "ACTSTART", "C"}
Known(c) == ModemEnabled /\ LoadBl < 2 =>
                /\ c.State \in Served => c.ModemStage = 1
                /\ c.State = "A" => c.ModemStage = 0

\* Fit(c) is what entering another state needs, Good(c) what a tick leaves
Fit(c) == c \in Ctx /\ Wired(c) /\ Unmastered(c) /\ Known(c)
Good(c) == Fit(c) /\ Permitted(c)

\* A car charges, or DiodeCheck is set and speaks of the car that is there: in A
\* and B1 it may be left from the car before, so a car that connects clears it
Entitled(c) == c.State = "C" \/ (c.DiodeCheck /\ c.State \notin {"A", "B1"})

\* d is c but for timers, flags of the regulation, and faults that went away
Eased(c, d) == /\ d \in Ctx
               /\ d.State = c.State /\ d.AccessStatus = c.AccessStatus
               /\ d.ErrorFlags \subseteq c.ErrorFlags \cup {"LESS_6A"}
               /\ d.contactor1 = c.contactor1 /\ d.contactor2 = c.contactor2
               /\ d.Phases = c.Phases /\ (d.DiodeCheck => c.DiodeCheck)
               /\ d.ModemStage = c.ModemStage
               /\ ~d.pilotConnected => /\ ~c.pilotConnected
                                       /\ c.PilotDisconnected => d.PilotDisconnected

\* d has the diode check, the identification and the pilot line of c
SameLine(c, d) == /\ d.DiodeCheck = c.DiodeCheck /\ d.ModemStage = c.ModemStage
                  /\ d.pilotConnected = c.pilotConnected
                  /\ d.PilotDisconnected = c.PilotDisconnected

\* And its main contactor
SameCable(c, d) == SameLine(c, d) /\ d.contactor1 = c.contactor1

\* Entering these states neither opens nor closes a contactor
Untouched == {"COMM_B", "COMM_B_OK", "COMM_C", "ACTSTART",
              "MODEM_WAIT", "MODEM_DONE", "MODEM_DENIED"}

\* What entering state s asks of c
Enterable(c, s) ==
    /\ s \in Untouched => ~c.contactor1
    /\ s = "C1" /\ LoadBl < 2 => c.contactor1
    /\ s \in CommStates => ~(LoadBl < 2)
    /\ s \in ModemStates /\ LoadBl < 2 => ModemEnabled
    /\ s \in Served /\ ModemEnabled /\ LoadBl < 2 => c.ModemStage = 1

\* What entering state s with power asks of c
Allowed(c, s) ==
    /\ s \in OnPower => c.ErrorFlags \subseteq {"LESS_6A", "RCM_TRIPPED"}
    /\ s = "C" /\ LoadBl < 2 => MayStay(c)

\* The pilot line is not left cut where state s reads it
Cabled(c, s) == \/ ModemEnabled \/ s \in {"A", "B1"}
                \/ s \notin ModemStates /\ c.pilotConnected

\* Without master and modem, only the access given in A outlasts the session
Ended(c, d) == LoadBl < 2 /\ ~ModemEnabled /\ d.State = "A" /\ d.AccessStatus = "ON"
                   => c.State = "A" /\ c.AccessStatus = "ON"

\* From c to d no charge is begun and none is stopped that was not under way, and
\* what was true of the cable is still
Kept(c, d) == /\ d.State \in OnPower => d.State = c.State
              /\ d.State = "C1" => c.State \in {"C", "C1"}
              /\ Powered(d) => Powered(c)
              /\ Entitled(d) => Entitled(c)
              /\ Tripped(d) => Tripped(c)
              /\ Joined(c) => Joined(d)
              /\ Ended(c, d)

\* What the setting of the access alone makes of c
WithAccess(c, access) == [c EXCEPT !.AccessStatus = access]

\* A step of any handler but the 10 ms tick: none of them starts a charge
Calm(c, d) == Good(d) /\ Kept(c, d)

\* Most steps of the 10 ms tick: they do not tell a car to stop either
Brisk(c, d) == Calm(c, d) /\ (d.State = "C1" => c.State = "C1")

\* A step of the 10 ms tick: without a master, it starts no charge of a car whose
\* diode was not seen, before or in this tick; with one, none that was not granted
Lawful(c, d, diode) ==
    /\ Good(d)
    /\ LoadBl < 2 /\ Entitled(d) => Entitled(c) \/ diode
    /\ ~(LoadBl < 2) /\ d.State \in OnPower => c.State \in OnPower
    /\ ~(LoadBl < 2) /\ Powered(d) => Powered(c)
    /\ d.State = "C1" => c.State = "C1"
    /\ Tripped(d) => Tripped(c)
    /\ Joined(c) => Joined(d)
    /\ Ended(c, d)

\* Easing a context keeps its type and its contactors in agreement with the state.
LEMMA EasedFit == ASSUME NEW c, NEW d, Fit(c), Eased(c, d) PROVE Fit(d)
  BY DEF Fit, Eased, Wired, Unmastered, Known

\* Easing a good context keeps it good.
LEMMA EasedGood == ASSUME NEW c, NEW d, Good(c), Eased(c, d) PROVE Good(d)
<1>1. Fit(d)
  BY EasedFit DEF Good
<1>2. Permitted(d)
  BY DEF Good, Eased, Permitted, MayStay
<1> QED
  BY <1>1, <1>2 DEF Good

\* Easing a good context starts no charge.
LEMMA EasedCalm == ASSUME NEW c, NEW d, Good(c), Eased(c, d) PROVE Brisk(c, d)
<1>1. Kept(c, d) /\ (d.State = "C1" => c.State = "C1")
  BY DEF Eased, Kept, OnPower, Powered, Entitled, Tripped, Joined, Ended
<1> QED
  BY <1>1, EasedGood DEF Brisk, Calm

\* Easing is transitive.
LEMMA EasedTrans == ASSUME NEW c, NEW d, NEW e, Eased(c, d), Eased(d, e)
                    PROVE  Eased(c, e)
  BY DEF Eased

\* Calm steps compose: a tick is a chain of them.
LEMMA CalmTrans == ASSUME NEW c, NEW d, NEW e, Calm(c, d), Calm(d, e)
                   PROVE  Calm(c, e)
  BY DEF Calm, Kept, OnPower, Ended

\* So do brisk ones.
LEMMA BriskTrans == ASSUME NEW c, NEW d, NEW e, Brisk(c, d), Brisk(d, e)
                    PROVE  Brisk(c, e)
  BY CalmTrans DEF Brisk

\* Leaving a context as it is keeps it.
LEMMA KeptSame == ASSUME NEW c PROVE Kept(c, c)
  BY DEF Kept, Ended, OnPower

\* A brisk step is a lawful one.
LEMMA BriskLawful ==
    ASSUME NEW c, NEW d, NEW diode, Brisk(c, d)
    PROVE  Lawful(c, d, diode)
  BY DEF Brisk, Calm, Kept, Lawful

\* Lawful steps compose too.
LEMMA LawfulTrans ==
    ASSUME NEW c, NEW d, NEW e, NEW diode, Lawful(c, d, diode), Lawful(d, e, diode)
    PROVE  Lawful(c, e, diode)
  BY DEF Lawful, Ended

\* Dec is the countdown of an unsigned timer: it does not wrap below 0.
LEMMA DecType == ASSUME NEW n \in Nat PROVE Dec(n) \in Nat
  BY DEF Dec

\* The numbers that the handlers assign, for the leaves that Zenon proves.
LEMMA Numbers == 0 \in Nat /\ 1 \in Nat /\ -1 \in Int
  OBVIOUS

----------------------------------------------------------------------------
(* Phases                                                                  *)

\* Asking for another number of phases never changes the phases of a car that
\* is connected (check_switching_phases).
LEMMA SwitchToFit ==
    ASSUME NEW c, Fit(c), NEW p \in {1, 3}
    PROVE  /\ Fit(SwitchTo(c, p))
           /\ SwitchTo(c, p).State = c.State
           /\ SwitchTo(c, p).AccessStatus = c.AccessStatus
           /\ SwitchTo(c, p).ErrorFlags = c.ErrorFlags
           /\ SameCable(c, SwitchTo(c, p))
<1>1. SwitchTo(c, p) \in Ctx
  BY DEF Fit, SwitchTo, Ctx
<1>2. Wired(SwitchTo(c, p))
  BY DEF Fit, SwitchTo, Ctx, Wired
<1>3. /\ SwitchTo(c, p).State = c.State
      /\ SwitchTo(c, p).AccessStatus = c.AccessStatus
      /\ SwitchTo(c, p).ErrorFlags = c.ErrorFlags
      /\ SameCable(c, SwitchTo(c, p))
  BY DEF Fit, SwitchTo, Ctx, SameCable, SameLine
<1> QED
  BY <1>1, <1>2, <1>3 DEF Fit, Unmastered, Known, SameCable, SameLine

\* Another contactor setting or mode disturbs neither the state nor the phases of a
\* connected car (check_switching_phases).
LEMMA CheckSwitchingPhasesFit ==
    ASSUME NEW c, Fit(c)
    PROVE  /\ Fit(CheckSwitchingPhases(c))
           /\ CheckSwitchingPhases(c).State = c.State
           /\ CheckSwitchingPhases(c).AccessStatus = c.AccessStatus
           /\ CheckSwitchingPhases(c).ErrorFlags = c.ErrorFlags
           /\ SameCable(c, CheckSwitchingPhases(c))
<1>1. CASE c.EnableC2 # "AUTO"
  BY <1>1, SwitchToFit DEF CheckSwitchingPhases
<1>2. CASE c.EnableC2 = "AUTO" /\ c.Mode = "SMART"
  <2> DEFINE w == IF c.Phases # 3 THEN "TO_3P" ELSE "NO_SWITCH"
             d == [c EXCEPT !.Switching = w]
  <2>1. c \in Ctx /\ w \in {"NO_SWITCH", "TO_1P", "TO_3P"}
    BY DEF Fit
  <2>2. Eased(c, d) /\ d.ErrorFlags = c.ErrorFlags /\ SameCable(c, d)
    <3> HIDE DEF w
    <3>1. d \in Ctx
      BY <2>1, Zenon DEF Ctx
    <3>2. /\ d.State = c.State /\ d.AccessStatus = c.AccessStatus
          /\ d.ErrorFlags = c.ErrorFlags
          /\ d.contactor1 = c.contactor1 /\ d.contactor2 = c.contactor2
          /\ d.Phases = c.Phases
      BY <2>1, Zenon DEF Ctx
    <3>3. SameCable(c, d)
      BY <2>1, Zenon DEF Ctx, SameCable, SameLine
    <3> QED
      <4> HIDE DEF d
      <4> QED BY <3>1, <3>2, <3>3 DEF Eased, SameCable, SameLine
  <2>3. CheckSwitchingPhases(c) = d
    BY <1>2 DEF CheckSwitchingPhases
  <2> QED
    <3> HIDE DEF d
    <3> QED BY <2>2, <2>3, EasedFit DEF Eased
<1>3. CASE c.EnableC2 = "AUTO" /\ c.Mode # "SMART"
  BY <1>3 DEF CheckSwitchingPhases, SameCable, SameLine
<1> QED
  BY <1>1, <1>2, <1>3

----------------------------------------------------------------------------
(* State entry                                                             *)

\* Opening the contactors changes nothing else.
LEMMA OpenContactorsType ==
    ASSUME NEW c \in Ctx
    PROVE  /\ OpenContactors(c) \in Ctx
           /\ ~OpenContactors(c).contactor1 /\ ~OpenContactors(c).contactor2
  BY DEF OpenContactors, Ctx

\* Unplugging opens both contactors (evse_enter_state_a).
LEMMA EnterAOpens ==
    ASSUME NEW c \in Ctx
    PROVE  /\ EnterA(c) \in Ctx /\ ~EnterA(c).contactor1 /\ ~EnterA(c).contactor2
           /\ EnterA(c).AccessStatus = IF EndsSession(c) THEN "OFF" ELSE c.AccessStatus
<1> DEFINE o == OpenContactors(c)
           n == IF ModemEnabled /\ o.DisconnectTimeCounter = -1
                THEN 0 ELSE o.DisconnectTimeCounter
           d == [o EXCEPT !.ModemStage = 0, !.ErrorFlags = @ \ {"LESS_6A"},
                          !.ChargeDelay = 0, !.DisconnectTimeCounter = n]
           e == [d EXCEPT !.AccessStatus = "OFF", !.AccessTimer = 0]
<1>1. /\ o \in Ctx /\ ~o.contactor1 /\ ~o.contactor2
      /\ o.AccessStatus = c.AccessStatus
  <2>1. o.AccessStatus = c.AccessStatus
    BY Zenon DEF OpenContactors, Ctx
  <2> QED BY <2>1, OpenContactorsType
<1>2. n \in Int
  <2> HIDE DEF o
  <2> QED BY <1>1 DEF Ctx
<1>3. /\ d \in Ctx /\ ~d.contactor1 /\ ~d.contactor2
      /\ d.AccessStatus = c.AccessStatus
  <2> HIDE DEF o, n
  <2> QED BY <1>1, <1>2 DEF Ctx
<1>4. e \in Ctx /\ ~e.contactor1 /\ ~e.contactor2 /\ e.AccessStatus = "OFF"
  <2> HIDE DEF d
  <2> QED BY <1>3 DEF Ctx
<1>5. EnterA(c) = IF EndsSession(c) THEN e ELSE d
  BY DEF EnterA
<1> QED
  <2> HIDE DEF d, e
  <2> QED BY <1>3, <1>4, <1>5

\* Entering B1 opens the contactors, whether or not the pilot is cut.
LEMMA EnterB1Opens ==
    ASSUME NEW c \in Ctx
    PROVE  EnterB1(c) \in Ctx /\ ~EnterB1(c).contactor1 /\ ~EnterB1(c).contactor2
<1>1. EnterB1(c) \in Ctx
  BY DurationAssumption, ZenonT(40) DEF EnterB1, OpenContactors, Ctx
<1>2. ~EnterB1(c).contactor1 /\ ~EnterB1(c).contactor2
  BY DEF EnterB1, OpenContactors, Ctx
<1> QED
  BY <1>1, <1>2

\* Entering B opens the contactors, after the phases to switch to were chosen.
LEMMA EnterBOpens ==
    ASSUME NEW c, Fit(c)
    PROVE  EnterB(c) \in Ctx /\ ~EnterB(c).contactor1 /\ ~EnterB(c).contactor2
<1> DEFINE d == CheckSwitchingPhases(c)
           o == OpenContactors(d)
           e == [o EXCEPT !.pilotConnected = TRUE, !.DisconnectTimeCounter = -1]
<1>1. d \in Ctx
  BY CheckSwitchingPhasesFit DEF Fit
<1>2. o \in Ctx /\ ~o.contactor1 /\ ~o.contactor2
  BY <1>1, OpenContactorsType
<1>3. -1 \in Int
  OBVIOUS
<1>4. e \in Ctx /\ ~e.contactor1 /\ ~e.contactor2
  <2> HIDE DEF o
  <2> QED BY <1>2, <1>3, Zenon DEF Ctx
<1>5. EnterB(c) = IF ModemEnabled THEN e ELSE o
  BY DEF EnterB
<1> QED
  <2> HIDE DEF o, e
  <2> QED BY <1>2, <1>4, <1>5

\* Entering C closes as many contactors as phases are counted.
LEMMA EnterCCloses ==
    ASSUME NEW c \in Ctx
    PROVE  /\ EnterC(c) \in Ctx /\ EnterC(c).contactor1
           /\ EnterC(c).contactor2 <=> EnterC(c).Phases = 3
           /\ EnterC(c).ErrorFlags = c.ErrorFlags
           /\ EnterC(c).AccessStatus = c.AccessStatus
<1> DEFINE p == CASE c.Switching = "TO_1P" -> 1
                  [] c.Switching = "TO_3P" -> 3
                  [] OTHER -> c.Phases
           d == [c EXCEPT !.Phases = p]
           single == ForceSinglePhase(d)
           q == IF single THEN 1 ELSE 3
           double == ~single
           e == [d EXCEPT !.ActivationMode = ActivationOff, !.contactor1 = TRUE,
                          !.contactor2 = double, !.Phases = q,
                          !.MaxSumMainsTimer = 0, !.Switching = "NO_SWITCH"]
<1>1. p \in {1, 3}
  BY DEF Ctx
<1>2. d \in Ctx /\ d.ErrorFlags = c.ErrorFlags /\ d.AccessStatus = c.AccessStatus
  <2> HIDE DEF p
  <2> QED BY <1>1, Zenon DEF Ctx
<1>3. double \in BOOLEAN /\ q \in {1, 3} /\ (q = 3 <=> double)
  BY DEF ForceSinglePhase
<1>4. ActivationOff \in Nat /\ 0 \in Nat
  BY DEF ActivationOff
<1>5. e \in Ctx
  <2> HIDE DEF d, q, double
  <2> QED BY <1>2, <1>3, <1>4, Zenon DEF Ctx
<1>7. /\ e.contactor1 /\ e.contactor2 = double /\ e.Phases = q
      /\ e.ErrorFlags = d.ErrorFlags /\ e.AccessStatus = d.AccessStatus
  <2> HIDE DEF d, q, double
  <2> QED BY <1>2, Zenon DEF Ctx
<1>6. EnterC(c) = e
  BY DEF EnterC
<1> QED
  <2> HIDE DEF d, e, double, q
  <2> QED BY <1>2, <1>3, <1>5, <1>6, <1>7

\* Entering C1 leaves the contactors as they are.
LEMMA EnterC1Keeps ==
    ASSUME NEW c \in Ctx
    PROVE  /\ EnterC1(c) \in Ctx
           /\ EnterC1(c).contactor1 = c.contactor1
           /\ EnterC1(c).contactor2 = c.contactor2 /\ EnterC1(c).Phases = c.Phases
<1>1. C1Grace \in Nat /\ DelayC1 \in Nat
  BY DurationAssumption
<1> QED
  BY <1>1, Zenon DEF EnterC1, Ctx

\* The states of the modem close no contactor.
LEMMA EnterModemKeeps ==
    ASSUME NEW c \in Ctx, NEW s \in ModemStates
    PROVE  /\ EnterModem(c, s) \in Ctx
           /\ EnterModem(c, s).contactor1 => c.contactor1 /\ s # "MODEM_REQUEST"
           /\ EnterModem(c, s).contactor2 => c.contactor2 /\ s # "MODEM_REQUEST"
<1> DEFINE o == OpenContactors(c)
           request == [o EXCEPT !.ModemTimer = 0, !.pilotConnected = FALSE,
                                !.DisconnectTimeCounter = -1]
           wait == [c EXCEPT !.pilotConnected = TRUE, !.ModemTimer = ModemDoneTime]
           done == [c EXCEPT !.pilotConnected = FALSE, !.ModemTimer = ModemLeaveTime,
                             !.DisconnectTimeCounter = -1]
<1>1. -1 \in Int /\ 0 \in Nat /\ ModemDoneTime \in Nat /\ ModemLeaveTime \in Nat
  BY DurationAssumption
<1>2. o \in Ctx /\ ~o.contactor1 /\ ~o.contactor2
  BY OpenContactorsType
<1>3. request \in Ctx /\ ~request.contactor1 /\ ~request.contactor2
  <2> HIDE DEF o
  <2> QED BY <1>1, <1>2, Zenon DEF Ctx
<1>4. wait \in Ctx /\ wait.contactor1 = c.contactor1 /\ wait.contactor2 = c.contactor2
  BY <1>1, Zenon DEF Ctx
<1>5. done \in Ctx /\ done.contactor1 = c.contactor1 /\ done.contactor2 = c.contactor2
  BY <1>1, Zenon DEF Ctx
<1>6. /\ s = "MODEM_REQUEST" => EnterModem(c, s) = request
      /\ s = "MODEM_WAIT" => EnterModem(c, s) = wait
      /\ s = "MODEM_DONE" => EnterModem(c, s) = done
      /\ s = "MODEM_DENIED" => EnterModem(c, s) = c
  BY DEF EnterModem
<1> HIDE DEF o, request, wait, done
<1> QED
  BY <1>3, <1>4, <1>5, <1>6 DEF ModemStates

\* Entering a state leaves the diode check alone, forgets the identification in A only,
\* and cuts the pilot line in B1, where it is remembered, and in the modem's states.
LEMMA EnterCable ==
    ASSUME NEW c, Fit(c), NEW s
    PROVE  /\ EnterA(c).ModemStage = 0
           /\ EnterA(c).DiodeCheck = c.DiodeCheck
           /\ EnterA(c).pilotConnected = c.pilotConnected
           /\ EnterA(c).PilotDisconnected = c.PilotDisconnected
           /\ EnterB1(c).DiodeCheck = c.DiodeCheck /\ EnterB1(c).ModemStage = c.ModemStage
           /\ EnterB1(c).PilotDisconnected \/ SameLine(c, EnterB1(c))
           /\ EnterB(c).DiodeCheck = c.DiodeCheck /\ EnterB(c).ModemStage = c.ModemStage
           /\ c.pilotConnected => EnterB(c).pilotConnected
           /\ SameLine(c, EnterC(c)) /\ SameLine(c, EnterC1(c))
           /\ EnterModem(c, s).DiodeCheck = c.DiodeCheck
           /\ EnterModem(c, s).ModemStage = c.ModemStage
<1>1. c \in Ctx
  BY DEF Fit
<1>2. /\ EnterA(c).ModemStage = 0
      /\ EnterA(c).DiodeCheck = c.DiodeCheck
      /\ EnterA(c).pilotConnected = c.pilotConnected
      /\ EnterA(c).PilotDisconnected = c.PilotDisconnected
  BY <1>1 DEF EnterA, OpenContactors, Ctx
<1>3. /\ EnterB1(c).DiodeCheck = c.DiodeCheck /\ EnterB1(c).ModemStage = c.ModemStage
      /\ EnterB1(c).PilotDisconnected \/ SameLine(c, EnterB1(c))
  BY <1>1 DEF EnterB1, OpenContactors, Ctx, SameLine
<1>4. /\ EnterB(c).DiodeCheck = c.DiodeCheck /\ EnterB(c).ModemStage = c.ModemStage
      /\ c.pilotConnected => EnterB(c).pilotConnected
  <2>1. CheckSwitchingPhases(c) \in Ctx /\ SameCable(c, CheckSwitchingPhases(c))
    BY CheckSwitchingPhasesFit DEF Fit
  <2> QED BY <2>1 DEF EnterB, OpenContactors, Ctx, SameCable, SameLine
<1>5. SameLine(c, EnterC(c))
  BY <1>1 DEF EnterC, Ctx, SameLine
<1>6. SameLine(c, EnterC1(c))
  BY <1>1 DEF EnterC1, Ctx, SameLine
<1>7. EnterModem(c, s).DiodeCheck = c.DiodeCheck /\ EnterModem(c, s).ModemStage = c.ModemStage
  BY <1>1 DEF EnterModem, OpenContactors, Ctx
<1> QED
  BY <1>2, <1>3, <1>4, <1>5, <1>6, <1>7

\* evse_set_state: a state other than C and C1 is entered with the contactors
\* open, either because entering it opens them or because they were open.
LEMMA SetStateFit ==
    ASSUME NEW c, Fit(c), NEW s \in States, Enterable(c, s)
    PROVE  /\ Fit(SetState(c, s)) /\ SetState(c, s).State = s
           /\ SetState(c, s).DiodeCheck = c.DiodeCheck
           /\ s \in OnPower => /\ SetState(c, s).ErrorFlags = c.ErrorFlags
                               /\ SetState(c, s).AccessStatus = c.AccessStatus
           /\ s = "A" => SetState(c, s).AccessStatus =
                             IF EndsSession(c) THEN "OFF" ELSE c.AccessStatus
           /\ Joined(c) /\ Cabled(c, s) => Joined(SetState(c, s))
<1> DEFINE e == CASE s = "A"  -> EnterA(c)
                  [] s = "B1" -> EnterB1(c)
                  [] s = "B"  -> EnterB(c)
                  [] s = "C"  -> EnterC(c)
                  [] s = "C1" -> EnterC1(c)
                  [] s \in ModemStates -> EnterModem(c, s)
                  [] OTHER -> c
           d == [e EXCEPT !.State = s]
<1>1. c \in Ctx /\ Wired(c)
  BY DEF Fit
<1>2. /\ e \in Ctx
      /\ e.contactor1 => s \in {"C", "C1", "COMM_C_OK"}
      /\ e.contactor2 => e.contactor1
      /\ e.contactor1 => (e.contactor2 <=> e.Phases = 3)
      /\ s = "C" => e.contactor1
      /\ s = "C1" /\ LoadBl < 2 => e.contactor1
      /\ s \in OnPower => /\ e.ErrorFlags = c.ErrorFlags
                          /\ e.AccessStatus = c.AccessStatus
      /\ s = "A" => e.AccessStatus = IF EndsSession(c) THEN "OFF" ELSE c.AccessStatus
  <2> USE DEF OnPower
  <2>1. CASE s = "A"
    <3>1. e = EnterA(c)
      BY <2>1 DEF ModemStates
    <3> HIDE DEF e
    <3> QED BY <1>1, <2>1, <3>1, EnterAOpens
  <2>2. CASE s = "B1"
    <3>1. e = EnterB1(c)
      BY <2>2 DEF ModemStates
    <3> HIDE DEF e
    <3> QED BY <1>1, <2>2, <3>1, EnterB1Opens
  <2>3. CASE s = "B"
    <3>1. e = EnterB(c)
      BY <2>3 DEF ModemStates
    <3> HIDE DEF e
    <3> QED BY <1>1, <2>3, <3>1, EnterBOpens
  <2>4. CASE s = "C"
    <3>1. e = EnterC(c)
      BY <2>4 DEF ModemStates
    <3> HIDE DEF e
    <3> QED BY <1>1, <2>4, <3>1, EnterCCloses
  <2>5. CASE s = "C1"
    <3>1. e = EnterC1(c)
      BY <2>5 DEF ModemStates
    <3> HIDE DEF e
    <3> QED BY <1>1, <2>5, <3>1, EnterC1Keeps DEF Wired, Enterable
  <2>6. CASE s \in ModemStates
    <3>1. e = EnterModem(c, s)
      BY <2>6 DEF ModemStates
    <3>2. ~e.contactor1 /\ ~e.contactor2
      BY <1>1, <2>6, <3>1, EnterModemKeeps DEF Enterable, Untouched, Wired, ModemStates
    <3> HIDE DEF e
    <3> QED BY <1>1, <2>6, <3>1, <3>2, EnterModemKeeps DEF ModemStates
  <2>7. CASE s \notin {"A", "B1", "B", "C", "C1"} \cup ModemStates
    <3>1. e = c
      BY <2>7
    <3>2. s = "COMM_C_OK" \/ ~c.contactor1
      BY <2>7 DEF Enterable, Untouched, States, ModemStates
    <3> HIDE DEF e
    <3> QED BY <1>1, <2>7, <3>1, <3>2 DEF Wired, ModemStates
  <2> HIDE DEF e
  <2> QED
    BY <2>1, <2>2, <2>3, <2>4, <2>5, <2>6, <2>7
<1>3. /\ e.DiodeCheck = c.DiodeCheck
      /\ e.ModemStage = IF s = "A" THEN 0 ELSE c.ModemStage
      /\ Joined(c) /\ Cabled(c, s) /\ ~ModemEnabled /\ ~e.pilotConnected =>
             e.PilotDisconnected /\ s \in {"A", "B1"}
  <2>1. CASE s = "A"
    <3>1. e = EnterA(c)
      BY <2>1 DEF ModemStates
    <3> HIDE DEF e
    <3> QED BY <1>1, <2>1, <3>1, EnterCable DEF Joined
  <2>2. CASE s = "B1"
    <3>1. e = EnterB1(c)
      BY <2>2 DEF ModemStates
    <3> HIDE DEF e
    <3> QED BY <1>1, <2>2, <3>1, EnterCable DEF Joined, SameLine
  <2>3. CASE s \notin {"A", "B1"} \cup ModemStates
    <3>1. e = EnterB(c) \/ e = EnterC(c) \/ e = EnterC1(c) \/ e = c
      BY <2>3
    <3> HIDE DEF e
    <3> QED BY <2>3, <3>1, EnterCable DEF SameLine, Cabled
  <2>4. CASE s \in ModemStates
    <3>1. e = EnterModem(c, s) /\ s \notin {"A", "B1"}
      BY <2>4 DEF ModemStates
    <3> HIDE DEF e
    <3> QED BY <2>4, <3>1, EnterCable DEF Cabled
  <2> HIDE DEF e
  <2> QED
    BY <2>1, <2>2, <2>3, <2>4
<1>4. SetState(c, s) = d
  BY DEF SetState
<1> HIDE DEF e
<1>5. d \in Ctx
  BY <1>2, Zenon DEF Ctx
<1>6. /\ d.State = s /\ d.contactor1 = e.contactor1 /\ d.contactor2 = e.contactor2
      /\ d.Phases = e.Phases /\ d.ErrorFlags = e.ErrorFlags
      /\ d.AccessStatus = e.AccessStatus
  BY <1>2, Zenon DEF Ctx
<1>7. SameCable(e, d)
  BY <1>2, Zenon DEF Ctx, SameCable, SameLine
<1> HIDE DEF d
<1>8. Wired(d)
  BY <1>2, <1>6 DEF Wired
<1>9. Unmastered(d) /\ Known(d)
  BY <1>3, <1>6, <1>7 DEF Enterable, Unmastered, Known, SameCable, SameLine, Served
<1>10. Joined(c) /\ Cabled(c, s) => Joined(d)
  BY <1>3, <1>6, <1>7 DEF Joined, SameCable, SameLine
<1> QED
  BY <1>2, <1>3, <1>4, <1>5, <1>6, <1>7, <1>8, <1>9, <1>10 DEF Fit, SameCable, SameLine

\* A state with power is entered without a fault, and without a master with access.
LEMMA SetStateGood ==
    ASSUME NEW c, Fit(c), NEW s \in States, Enterable(c, s), Allowed(c, s)
    PROVE  Good(SetState(c, s))
<1>1. Permitted(SetState(c, s))
  BY SetStateFit DEF Allowed, Permitted, MayStay, OnPower
<1> QED
  BY <1>1, SetStateFit DEF Good

\* Whatever the state, a car may go, or be made to wait; one that charges may be told to
\* stop.  All three keep what was true of the car.
LEMMA StopCalm ==
    ASSUME NEW c, Fit(c), NEW s, s \in {"A", "B1"} \/ (s = "C1" /\ c.State = "C"),
           s = "A" => c.State # "ACTSTART"
    PROVE  Calm(c, SetState(c, s)) /\ SetState(c, s).State = s
<1> DEFINE d == SetState(c, s)
<1>1. s \in States /\ s \notin CommStates \cup ModemStates \cup Served \cup OnPower
  BY DEF States, CommStates, ModemStates, Served, OnPower
<1>2. Enterable(c, s) /\ Allowed(c, s)
  BY <1>1 DEF Enterable, Allowed, Untouched, Fit, Wired, Served, OnPower
<1>3. Joined(c) => Cabled(c, s)
  BY <1>1 DEF Joined, Cabled
<1>4. /\ Good(d) /\ d.State = s /\ d.DiodeCheck = c.DiodeCheck
      /\ s = "A" => d.AccessStatus = IF EndsSession(c) THEN "OFF" ELSE c.AccessStatus
      /\ Joined(c) => Joined(d)
  BY <1>1, <1>2, <1>3, SetStateFit, SetStateGood
<1> HIDE DEF d
<1>5. Ended(c, d)
  <2> SUFFICES ASSUME LoadBl < 2, ~ModemEnabled, s = "A", d.AccessStatus = "ON"
               PROVE  c.State = "A" /\ c.AccessStatus = "ON"
    BY <1>4 DEF Ended
  <2>1. c.State \in {"A", "B", "B1", "C", "C1"}
    BY DEF Fit, Unmastered, Ctx, States, CommStates, ModemStates
  <2> QED BY <1>4, <2>1 DEF EndsSession
<1>6. Entitled(d) => Entitled(c)
  BY <1>4 DEF Entitled
<1>7. Powered(d) => Powered(c)
  BY <1>1, <1>4 DEF Powered, Good, Fit, Wired, OnPower
<1>8. Kept(c, d)
  BY <1>1, <1>4, <1>5, <1>6, <1>7 DEF Kept, Tripped
<1> QED
  BY <1>4, <1>8 DEF Calm, d

\* A car that is served, or waits for the master, may be served on.
LEMMA ServeOn ==
    ASSUME NEW c, Fit(c), c.State \in Served \cup CommStates,
           NEW s \in Served \cup {"COMM_C"},
           s \in {"B", "C"} \/ ~c.contactor1, s = "COMM_C" => ~(LoadBl < 2)
    PROVE  Enterable(c, s) /\ s \in States /\ (Joined(c) => Cabled(c, s))
<1>1. Joined(c) => ModemEnabled \/ c.pilotConnected
  BY DEF Joined, Served, CommStates
<1>2. ModemEnabled /\ LoadBl < 2 => c.ModemStage = 1
  <2>1. SUFFICES ASSUME ModemEnabled, LoadBl < 2 PROVE c.ModemStage = 1
    OBVIOUS
  <2>2. c.State \in Served
    BY <2>1 DEF Fit, Unmastered
  <2> QED BY <2>1, <2>2 DEF Fit, Known
<1>3. s \in States /\ s \notin ModemStates
  BY DEF Served, ModemStates, States
<1> QED
  BY <1>1, <1>2, <1>3 DEF Enterable, Served, CommStates, ModemStates, Untouched, Cabled

\* In a state that closes no contactor they are open already.
LEMMA OpenOutsideC ==
    ASSUME NEW c, Fit(c), c.State \notin {"C", "C1", "COMM_C_OK"}
    PROVE  ~c.contactor1
  BY DEF Fit, Wired

\* Setting a flag leaves everything but the flag as it was.
LEMMA RaiseFit ==
    ASSUME NEW c, Fit(c), NEW f \in Faults
    PROVE  /\ Fit(Raise(c, f)) /\ Raise(c, f).State = c.State
           /\ Raise(c, f).AccessStatus = c.AccessStatus
           /\ Raise(c, f).ErrorFlags = c.ErrorFlags \cup {f}
           /\ SameCable(c, Raise(c, f))
<1> DEFINE flags == c.ErrorFlags \cup {f}
           d == [c EXCEPT !.ErrorFlags = flags]
<1>1. c \in Ctx /\ c.ErrorFlags \in SUBSET Faults
  BY DEF Fit, Ctx
<1>2. flags \in SUBSET Faults
  BY <1>1
<1>3. d \in Ctx
  <2> HIDE DEF flags
  <2> QED BY <1>1, <1>2, Zenon DEF Ctx
<1>4. /\ d.State = c.State /\ d.AccessStatus = c.AccessStatus /\ d.ErrorFlags = flags
      /\ d.contactor1 = c.contactor1 /\ d.contactor2 = c.contactor2
      /\ d.Phases = c.Phases /\ SameCable(c, d)
  <2> HIDE DEF flags
  <2> QED BY <1>1, Zenon DEF Ctx, SameCable, SameLine
<1>5. Raise(c, f) = d
  BY DEF Raise
<1> HIDE DEF d
<1> QED
  BY <1>3, <1>4, <1>5 DEF Fit, Wired, Unmastered, Known, SameCable, SameLine

\* The one flag that does not oblige the handler to stop the car is LESS_6A.
LEMMA ShortageEased ==
    ASSUME NEW c, Fit(c)
    PROVE  Eased(c, Raise(c, "LESS_6A"))
<1> DEFINE d == Raise(c, "LESS_6A")
<1>1. "LESS_6A" \in Faults
  BY DEF Faults
<1>2. /\ d.contactor1 = c.contactor1 /\ d.contactor2 = c.contactor2
      /\ d.Phases = c.Phases
  BY DEF Raise, Fit, Ctx
<1>3. d \in Ctx
  BY <1>1, RaiseFit DEF Fit
<1> QED
  BY <1>1, <1>2, <1>3, RaiseFit DEF Eased, SameCable, SameLine

\* Taking flags away eases.
LEMMA DropFlagsEased ==
    ASSUME NEW c \in Ctx, NEW gone
    PROVE  Eased(c, [c EXCEPT !.ErrorFlags = @ \ gone])
<1> DEFINE flags == c.ErrorFlags \ gone
           d == [c EXCEPT !.ErrorFlags = flags]
<1>1. flags \in SUBSET Faults /\ flags \subseteq c.ErrorFlags
  BY DEF Ctx
<1>2. d \in Ctx
  <2> HIDE DEF flags
  <2> QED BY <1>1, Zenon DEF Ctx
<1>3. /\ d.State = c.State /\ d.AccessStatus = c.AccessStatus /\ d.ErrorFlags = flags
      /\ d.contactor1 = c.contactor1 /\ d.contactor2 = c.contactor2
      /\ d.Phases = c.Phases /\ SameCable(c, d)
  <2> HIDE DEF flags
  <2> QED BY Zenon DEF Ctx, SameCable, SameLine
<1> HIDE DEF d
<1>4. Eased(c, d)
  BY <1>1, <1>2, <1>3 DEF Eased, SameCable, SameLine
<1> QED
  BY <1>4 DEF d

\* Whatever fault stands, a car that charged is told to stop
\* (evse_set_power_unavailable).
LEMMA SetPowerUnavailableCalm ==
    ASSUME NEW c, Fit(c)
    PROVE  Calm(c, SetPowerUnavailable(c)) /\ SetPowerUnavailable(c).State \notin OnPower
<1> USE DEF OnPower
<1>1. CASE c.State = "C"
  BY <1>1, StopCalm DEF SetPowerUnavailable
<1>2. CASE c.State \in {"A", "C1", "B1"}
  <2>1. SetPowerUnavailable(c) = c
    BY <1>2 DEF SetPowerUnavailable
  <2> QED BY <1>2, <2>1, KeptSame DEF Calm, Good, Permitted
<1>3. CASE c.State \notin {"C", "A", "C1", "B1"}
  BY <1>3, StopCalm DEF SetPowerUnavailable
<1> QED
  BY <1>1, <1>2, <1>3

\* A fault is raised and acted upon in one step (evse_tick_1s).
LEMMA FaultCalm ==
    ASSUME NEW c, Fit(c), NEW f \in Faults
    PROVE  Calm(c, Fault(c, f))
<1> DEFINE r == Raise(c, f)
           d == SetPowerUnavailable(r)
<1>1. /\ Fit(r) /\ r.State = c.State /\ r.AccessStatus = c.AccessStatus
      /\ SameCable(c, r)
  BY RaiseFit
<1> HIDE DEF r
<1>2. Calm(r, d) /\ d.State \notin OnPower
  BY <1>1, SetPowerUnavailableCalm
<1>3. Fault(c, f) = d
  BY DEF Fault, d, r
<1> HIDE DEF d
<1> QED
  BY <1>1, <1>2, <1>3 DEF Calm, Kept, Powered, Entitled, Tripped, Joined, Ended, SameCable, SameLine

\* The access alone is not what the state and the contactors depend on.
LEMMA WithAccessFit ==
    ASSUME NEW c, Fit(c), NEW access \in {"OFF", "ON", "PAUSE"}
    PROVE  /\ Fit(WithAccess(c, access)) /\ WithAccess(c, access).State = c.State
           /\ WithAccess(c, access).AccessStatus = access
           /\ WithAccess(c, access).ErrorFlags = c.ErrorFlags
           /\ SameCable(c, WithAccess(c, access))
<1> DEFINE d == WithAccess(c, access)
<1>1. c \in Ctx
  BY DEF Fit
<1>2. d \in Ctx
  BY <1>1, Zenon DEF Ctx, WithAccess
<1>3. /\ d.State = c.State /\ d.AccessStatus = access /\ d.ErrorFlags = c.ErrorFlags
      /\ d.contactor1 = c.contactor1 /\ d.contactor2 = c.contactor2
      /\ d.Phases = c.Phases /\ SameCable(c, d)
  BY <1>1, Zenon DEF Ctx, SameCable, SameLine, WithAccess
<1> HIDE DEF d
<1>4. Fit(d)
  BY <1>2, <1>3 DEF Fit, Wired, Unmastered, Known, SameCable, SameLine
<1> QED
  BY <1>3, <1>4 DEF d

\* Revoking or pausing the access ends the charge (evse_set_access).
LEMMA SetAccessCalm ==
    ASSUME NEW c, Good(c), NEW access \in {"OFF", "ON", "PAUSE"}
    PROVE  Calm(WithAccess(c, access), SetAccess(c, access))
<1> DEFINE d == WithAccess(c, access)
<1>1. /\ Fit(d) /\ d.State = c.State /\ d.AccessStatus = access
      /\ d.ErrorFlags = c.ErrorFlags
  BY WithAccessFit DEF Good
<1>2. SetAccess(c, access) =
        CASE access # "ON" /\ c.State = "C" -> SetState(d, "C1")
          [] access # "ON" /\ c.State \in {"B"} \cup ModemStates -> SetState(d, "B1")
          [] OTHER -> d
  BY DEF SetAccess, WithAccess
<1> SUFFICES Calm(d, SetAccess(c, access))
  OBVIOUS
<1> HIDE DEF d
<1>3. CASE access # "ON" /\ c.State = "C"
  BY <1>1, <1>2, <1>3, StopCalm
<1>4. CASE access # "ON" /\ c.State \in {"B"} \cup ModemStates
  <2>1. SetAccess(c, access) = SetState(d, "B1")
    BY <1>2, <1>4 DEF ModemStates
  <2> QED BY <1>1, <2>1, StopCalm
<1>5. CASE access = "ON" \/ c.State \notin {"C", "B"} \cup ModemStates
  <2>1. SetAccess(c, access) = d
    BY <1>2, <1>5
  <2>2. Permitted(d)
    BY <1>1, <1>5 DEF Good, Permitted, MayStay
  <2> QED BY <1>1, <2>1, <2>2, KeptSame DEF Calm, Good
<1> QED
  BY <1>3, <1>4, <1>5

\* Taking the access back keeps all that was true.
LEMMA RevokeCalm == ASSUME NEW c, Good(c) PROVE Calm(c, SetAccess(c, "OFF"))
<1> DEFINE w == WithAccess(c, "OFF")
           d == SetAccess(c, "OFF")
<1>1. /\ w.State = c.State /\ w.ErrorFlags = c.ErrorFlags /\ SameCable(c, w)
      /\ w.AccessStatus = "OFF"
  BY WithAccessFit DEF Good
<1>2. Calm(w, d)
  BY SetAccessCalm
<1> HIDE DEF w, d
<1>3. Kept(c, d)
  BY <1>1, <1>2 DEF Calm, Kept, Powered, Entitled, Tripped, Joined, Ended, SameCable, SameLine
<1> QED
  BY <1>2, <1>3 DEF Calm, d

----------------------------------------------------------------------------
(* The regulation and evse_tick_10ms                                       *)

\* What the regulation decides before the balance of power eases the context.
LEMMA RegulatedEased ==
    ASSUME NEW c, Fit(c), NEW grid
    PROVE  Eased(c, Regulated(c, grid))
<1>1. c \in Ctx /\ Eased(c, c)
  BY DEF Fit, Eased
<1>2. CASE c.Mode = "NORMAL" /\ c.Phases # 3
  <2>1. Regulated(c, grid) = [c EXCEPT !.Switching = "TO_3P"]
    BY <1>2 DEF Regulated
  <2>2. Eased(c, [c EXCEPT !.Switching = "TO_3P"])
    BY <1>1, ZenonT(40) DEF Ctx, Eased
  <2> QED BY <2>1, <2>2
<1>3. CASE c.Mode = "SMART" /\ ~grid.excess
  <2>1. Regulated(c, grid) = [c EXCEPT !.MaxSumMainsTimer = 0]
    BY <1>3 DEF Regulated
  <2>2. Eased(c, [c EXCEPT !.MaxSumMainsTimer = 0])
    BY <1>1, Numbers, Zenon DEF Ctx, Eased
  <2> QED BY <2>1, <2>2
<1>4. CASE /\ ~(c.Mode = "NORMAL" /\ c.Phases # 3)
           /\ ~(c.Mode = "SMART" /\ ~grid.excess)
  <2>1. Regulated(c, grid) = c
    BY <1>4 DEF Regulated
  <2> QED BY <1>1, <2>1
<1> QED
  BY <1>2, <1>3, <1>4

\* A shortage is counted, timed or flagged, and moves no contactor.
LEMMA ShortOfPowerEased ==
    ASSUME NEW c, Fit(c), NEW grid, NEW active \in Nat
    PROVE  Eased(c, ShortOfPower(c, grid, active))
<1> DEFINE limited == grid.excess /\ c.Mode = "SMART"
           hard == grid.power = "hard" \/ (limited /\ MaxSumMainsTime = 0)
           counts == IF active > 1 THEN grid.power = "hard"
                                   ELSE hard /\ c.Switching # "TO_1P"
           starts == ~counts /\ active = 1 /\ limited /\ c.MaxSumMainsTimer = 0
           n == IF c.NoCurrent < NoCurrentMax THEN c.NoCurrent + 1 ELSE c.NoCurrent
           d == CASE counts -> [c EXCEPT !.NoCurrent = n]
                  [] starts -> [c EXCEPT !.MaxSumMainsTimer = MaxSumMainsTime]
                  [] OTHER -> c
<1>1. c \in Ctx /\ Eased(c, c)
  BY DEF Fit, Eased
<1>2. n \in Nat /\ MaxSumMainsTime \in Nat
  BY <1>1, ConfigAssumption DEF Ctx
<1>3. Eased(c, [c EXCEPT !.NoCurrent = n])
  <2> HIDE DEF n
  <2> QED BY <1>1, <1>2, Zenon DEF Ctx, Eased
<1>4. Eased(c, [c EXCEPT !.MaxSumMainsTimer = MaxSumMainsTime])
  BY <1>1, <1>2, Zenon DEF Ctx, Eased
<1>5. Eased(c, d)
  <2> HIDE DEF counts, n
  <2>1. CASE counts
    BY <1>3, <2>1
  <2>2. CASE starts
    BY <1>4, <2>2
  <2>3. CASE ~counts /\ ~starts
    BY <1>1, <2>3
  <2> QED BY <2>1, <2>2, <2>3
<1>6. ShortOfPower(c, grid, active) =
        IF d.NoCurrent >= NoCurrentThreshold /\ d.Mode = "SMART"
        THEN Raise(d, "LESS_6A") ELSE d
  BY DEF ShortOfPower
<1> HIDE DEF d
<1>7. Eased(c, Raise(d, "LESS_6A"))
  BY <1>5, EasedFit, ShortageEased, EasedTrans
<1> QED
  BY <1>5, <1>6, <1>7

\* The regulation moves neither the state nor a contactor, and raises no fault
\* but LESS_6A (evse_calc_balanced_current).
LEMMA CalcBalancedCurrentEased ==
    ASSUME NEW c, Fit(c), NEW grid \in Grids
    PROVE  Eased(c, CalcBalancedCurrent(c, grid))
<1> DEFINE active == grid.others + (IF c.State = "C" THEN 1 ELSE 0)
           d == Regulated(c, grid)
           idle == [d EXCEPT !.MaxSumMainsTimer = 0, !.NoCurrent = 0]
           ample == [d EXCEPT !.MaxSumMainsTimer = 0, !.NoCurrent = Dec(@)]
<1>1. Eased(c, d) /\ Fit(d) /\ d \in Ctx
  BY RegulatedEased, EasedFit DEF Fit
<1>2. active \in Nat /\ grid.power \in Powers
  BY DEF Grids
<1>3. CalcBalancedCurrent(c, grid) =
        CASE active = 0 -> idle
          [] active > 0 /\ grid.power = "unknown" -> d
          [] active > 0 /\ grid.power = "ample" -> ample
          [] active > 0 /\ grid.power \in {"hard", "soft"} -> ShortOfPower(d, grid, active)
  BY DEF CalcBalancedCurrent
<1> HIDE DEF active, d
<1>4. Eased(d, idle)
  BY <1>1, Numbers, Zenon DEF Ctx, Eased
<1>5. Eased(d, ample)
  BY <1>1, Numbers, DecType, Zenon DEF Ctx, Eased
<1>6. Eased(d, d)
  BY <1>1 DEF Eased
<1>7. Eased(d, ShortOfPower(d, grid, active))
  BY <1>1, <1>2, ShortOfPowerEased
<1> HIDE DEF idle, ample
<1>8. Eased(d, CalcBalancedCurrent(c, grid))
  BY <1>2, <1>3, <1>4, <1>5, <1>6, <1>7 DEF Powers
<1> QED
  BY <1>1, <1>8, EasedTrans

\* The durations that the handlers load into their timers are natural numbers.
LEMMA Durations ==
    /\ ActivationDelay \in Nat /\ ActivationOff \in Nat /\ ActivationPulse \in Nat
    /\ RFIDLOCKTIME \in Nat /\ CHARGEDELAY \in Nat /\ DelayC1 \in Nat
    /\ COMM_TIMEOUT \in Nat /\ COMM_EVTIMEOUT \in Nat /\ ModemDeniedTime \in Nat
  BY DurationAssumption DEF ActivationOff

\* A car that is accepted enters B with open contactors.
LEMMA EnterBWithGood ==
    ASSUME NEW c, Fit(c), Enterable(c, "B")
    PROVE  /\ Good(EnterBWith(c)) /\ EnterBWith(c).State = "B"
           /\ EnterBWith(c).DiodeCheck => c.DiodeCheck
           /\ Joined(c) /\ Cabled(c, "B") => Joined(EnterBWith(c))
<1> DEFINE b == SetState(c, "B")
           d == [b EXCEPT !.ActivationMode = ActivationDelay, !.AccessTimer = 0]
<1>1. /\ Good(b) /\ b.State = "B" /\ b \in Ctx /\ b.DiodeCheck = c.DiodeCheck
      /\ Joined(c) /\ Cabled(c, "B") => Joined(b)
  BY SetStateFit, SetStateGood DEF States, Fit, Allowed, OnPower
<1>2. EnterBWith(c) = d
  BY DEF EnterBWith
<1> HIDE DEF b
<1>3. Eased(b, d)
  BY <1>1, Numbers, Durations, Zenon DEF Ctx, Eased
<1> HIDE DEF d
<1> QED
  BY <1>1, <1>2, <1>3, EasedCalm DEF Brisk, Calm, Kept, Eased

\* A step into a state in which no car charges or stops is brisk if it keeps the
\* diode check, or what it knows of the cable.
LEMMA IdleBrisk ==
    ASSUME NEW c, NEW d, Good(d), d.State \notin OnPower \cup {"A", "C1"},
           Entitled(d) => Entitled(c), Joined(c) => Joined(d)
    PROVE  Brisk(c, d)
<1>1. Powered(d) => Powered(c)
  BY DEF Powered, Good, Fit, Wired, OnPower
<1> QED
  BY <1>1 DEF Brisk, Calm, Kept, Tripped, Ended, OnPower

\* A car that connects closes no contactor, whether there is current for it or not.
LEMMA ConnectBrisk ==
    ASSUME NEW c, Good(c), c.State \in {"A", "COMM_B", "B1"}, ~c.PilotDisconnected,
           NEW avail \in BOOLEAN
    PROVE  Brisk(c, Connect(c, avail))
<1> DEFINE d == [c EXCEPT !.DiodeCheck = FALSE]
           m == SetState(d, "MODEM_REQUEST")
           e == [m EXCEPT !.ActivationMode = ActivationDelay, !.AccessTimer = 0]
<1> USE DEF OnPower
<1>1. Eased(c, d)
  BY Zenon DEF Ctx, Eased, Good, Fit
<1>2. ~d.DiodeCheck /\ d.ModemStage \in {0, 1}
  BY DEF Ctx, Good, Fit
<1>3. Connect(c, avail) =
        CASE LoadBl > 1 -> SetState(d, "COMM_B")
          [] LoadBl <= 1 /\ avail /\ ModemEnabled /\ d.ModemStage = 0 -> e
          [] LoadBl <= 1 /\ avail /\ ~(ModemEnabled /\ d.ModemStage = 0) -> EnterBWith(d)
          [] OTHER -> Raise(d, "LESS_6A")
  BY DEF Connect
<1> HIDE DEF d
<1>4. Fit(d) /\ Good(d) /\ d.State = c.State /\ Brisk(c, d)
  BY <1>1, EasedGood, EasedCalm DEF Good, Eased
<1>5. LoadBl \in Nat
  BY ConfigAssumption
<1>6. /\ ~d.contactor1
      /\ Joined(c) => Joined(d) /\ (ModemEnabled \/ d.pilotConnected)
  BY <1>1, <1>4, OpenOutsideC DEF Brisk, Calm, Kept, Joined, Eased
<1>7. CASE LoadBl > 1
  <2>1. /\ Good(SetState(d, "COMM_B")) /\ SetState(d, "COMM_B").State = "COMM_B"
        /\ SetState(d, "COMM_B").DiodeCheck = d.DiodeCheck
        /\ Joined(c) => Joined(SetState(d, "COMM_B"))
    <3>1. ~(LoadBl < 2)
      BY <1>5, <1>7
    <3>2. Enterable(d, "COMM_B") /\ Allowed(d, "COMM_B")
      BY <1>6, <3>1 DEF Enterable, Allowed, ModemStates, Served
    <3>3. Joined(c) => Cabled(d, "COMM_B")
      BY <1>6 DEF Cabled, ModemStates
    <3> QED BY <1>4, <1>6, <3>2, <3>3, SetStateFit, SetStateGood DEF States
  <2>2. Connect(c, avail) = SetState(d, "COMM_B")
    <3> HIDE DEF e
    <3> QED BY <1>3, <1>5, <1>7
  <2> QED BY <1>2, <2>1, <2>2, IdleBrisk DEF Entitled
<1>8. CASE LoadBl <= 1 /\ avail /\ ModemEnabled /\ d.ModemStage = 0
  <2>1. /\ Good(m) /\ m.State = "MODEM_REQUEST" /\ m \in Ctx
        /\ m.DiodeCheck = d.DiodeCheck
    <3>1. Enterable(d, "MODEM_REQUEST") /\ Allowed(d, "MODEM_REQUEST")
      BY <1>8 DEF Enterable, Allowed, CommStates, Served, Untouched
    <3> QED BY <1>4, <3>1, SetStateFit, SetStateGood DEF States, Good, Fit
  <2>2. Eased(m, e)
    <3> HIDE DEF m
    <3> QED BY <2>1, Numbers, Durations, Zenon DEF Ctx, Eased
  <2>3. Connect(c, avail) = e
    BY <1>3, <1>5, <1>8
  <2> HIDE DEF e, m
  <2>4. Good(e) /\ e.State = "MODEM_REQUEST" /\ ~e.DiodeCheck
    BY <1>2, <2>1, <2>2, EasedGood DEF Eased
  <2> QED BY <1>8, <2>3, <2>4, IdleBrisk DEF Entitled, Joined
<1>9. CASE LoadBl <= 1 /\ avail /\ ~(ModemEnabled /\ d.ModemStage = 0)
  <2>1. Connect(c, avail) = EnterBWith(d)
    BY <1>3, <1>5, <1>9
  <2>2. Enterable(d, "B") /\ (Joined(c) => Cabled(d, "B"))
    BY <1>9, <1>2, <1>6 DEF Enterable, Cabled, CommStates, ModemStates, Untouched
  <2> QED BY <1>4, <1>2, <1>6, <2>1, <2>2, EnterBWithGood, IdleBrisk DEF Entitled
<1>10. CASE LoadBl <= 1 /\ ~avail
  <2>1. Connect(c, avail) = Raise(d, "LESS_6A")
    BY <1>3, <1>5, <1>10
  <2> QED BY <1>4, <2>1, ShortageEased, EasedCalm, BriskTrans
<1> QED
  BY <1>5, <1>7, <1>8, <1>9, <1>10

\* A free cable leads to A, from wherever the EVSE was waiting.
LEMMA UnpluggedBrisk ==
    ASSUME NEW c, Good(c), c.State # "ACTSTART"
    PROVE  Brisk(c, Unplugged(c))
<1> DEFINE t == [c EXCEPT !.AccessTimer = RFIDLOCKTIME]
           d == IF RfidLock /\ c.AccessTimer = 0 /\ c.AccessStatus = "ON" THEN t ELSE c
           e == IF d.State # "A" THEN SetState(d, "A") ELSE d
           f == [e EXCEPT !.ChargeDelay = 0]
<1>1. Eased(c, t) /\ Eased(c, c)
  BY Durations, Zenon DEF Ctx, Eased, Good, Fit
<1>2. Eased(c, d) /\ Brisk(c, d)
  <2> HIDE DEF t
  <2> QED BY <1>1, EasedCalm
<1> HIDE DEF d
<1>3. Calm(d, e) /\ e.State = "A"
  <2>1. Calm(d, SetState(d, "A")) /\ SetState(d, "A").State = "A"
    BY <1>2, StopCalm DEF Brisk, Calm, Good, Eased
  <2>2. Calm(d, d)
    BY <1>2, KeptSame DEF Brisk, Calm
  <2> QED BY <2>1, <2>2
<1> HIDE DEF e
<1>4. Eased(e, f)
  <2>1. e \in Ctx
    BY <1>3 DEF Calm, Good, Fit
  <2> QED BY <2>1, Numbers, Zenon DEF Ctx, Eased
<1>5. Unplugged(c) = f
  BY DEF Unplugged, d, e
<1> HIDE DEF f
<1>6. Brisk(d, e) /\ Brisk(e, f)
  BY <1>3, <1>4, EasedCalm DEF Brisk, Calm
<1> QED
  BY <1>2, <1>5, <1>6, BriskTrans

\* The 10 ms tick in A, COMM_B and B1 keeps the context good.
LEMMA TickWaitingBrisk ==
    ASSUME NEW c, Good(c), NEW pilot \in Pilots, NEW avail \in BOOLEAN
    PROVE  Brisk(c, TickWaiting(c, pilot, avail))
<1> DEFINE joined == [c EXCEPT !.pilotConnected = TRUE, !.PilotDisconnected = FALSE]
<1>1. Eased(c, joined)
  BY Zenon DEF Ctx, Eased, Good, Fit
<1>2. Brisk(c, joined) /\ Brisk(c, c)
  <2> HIDE DEF joined
  <2> QED BY <1>1, EasedCalm, KeptSame DEF Brisk, Calm
<1>3. CASE c.State \notin {"A", "COMM_B", "B1"}
  BY <1>2, <1>3 DEF TickWaiting
<1>4. CASE c.State \in {"A", "COMM_B", "B1"} /\ c.PilotDisconnected
  <2>1. TickWaiting(c, pilot, avail) = IF c.PilotDisconnectTime = 0 THEN joined ELSE c
    BY <1>4 DEF TickWaiting
  <2> HIDE DEF joined
  <2> QED BY <1>2, <2>1
<1>5. CASE c.State \in {"A", "COMM_B", "B1"} /\ ~c.PilotDisconnected
  <2>1. TickWaiting(c, pilot, avail) =
          CASE pilot = "12V" -> Unplugged(c)
            [] pilot = "9V" /\ MayConnect(c) -> Connect(c, avail)
            [] pilot = "9V" /\ ~MayConnect(c) /\ c.State = "A" /\ c.AccessStatus = "ON" ->
                 SetState(c, "B1")
            [] OTHER -> c
    BY <1>5 DEF TickWaiting
  <2>2. CASE pilot = "12V"
    BY <1>5, <2>1, <2>2, UnpluggedBrisk
  <2>3. CASE pilot = "9V" /\ MayConnect(c)
    BY <1>5, <2>1, <2>3, ConnectBrisk
  <2>4. CASE pilot = "9V" /\ ~MayConnect(c) /\ c.State = "A" /\ c.AccessStatus = "ON"
    <3>1. TickWaiting(c, pilot, avail) = SetState(c, "B1")
      BY <2>1, <2>4
    <3> QED BY <3>1, StopCalm DEF Brisk, Good
  <2>5. CASE /\ pilot # "12V" /\ ~(pilot = "9V" /\ MayConnect(c))
             /\ ~(/\ pilot = "9V" /\ ~MayConnect(c)
                  /\ c.State = "A" /\ c.AccessStatus = "ON")
    BY <1>2, <2>1, <2>5
  <2> QED BY <2>2, <2>3, <2>4, <2>5
<1> QED
  BY <1>3, <1>4, <1>5

\* The answer of the master to COMM_B leads to B.
LEMMA TickCommBOkBrisk == ASSUME NEW c, Good(c) PROVE Brisk(c, TickCommBOk(c))
<1>1. CASE c.State = "COMM_B_OK"
  <2>1. Fit(c) /\ Enterable(c, "B") /\ (Joined(c) => Cabled(c, "B"))
    BY <1>1, ServeOn DEF Good, CommStates, Served
  <2> QED BY <1>1, <2>1, EnterBWithGood, IdleBrisk DEF TickCommBOk, Entitled, OnPower
<1>2. CASE c.State # "COMM_B_OK"
  BY <1>2, KeptSame DEF TickCommBOk, Brisk, Calm
<1> QED
  BY <1>1, <1>2

\* The only step that lets a car charge when no master does: without a fault,
\* with access, with the diode seen, and from evse_tick_10ms.
LEMMA RequestChargeLawful ==
    ASSUME NEW c, Good(c), c.State \in {"B", "COMM_C"}, MayCharge(c),
           NEW avail \in BOOLEAN, NEW grid \in Grids, NEW diode
    PROVE  Lawful(c, RequestCharge(c, avail, grid), diode)
<1> DEFINE b == CalcBalancedCurrent(c, grid)
           d == [b EXCEPT !.DiodeCheck = FALSE]
           e == SetState(d, "C")
<1>1. Fit(c) /\ Eased(c, b) /\ b \in Ctx /\ LoadBl \in Nat
  BY CalcBalancedCurrentEased, ConfigAssumption DEF Good, Eased
<1>2. Eased(b, d)
  <2> HIDE DEF b
  <2> QED BY <1>1, Zenon DEF Ctx, Eased
<1>3. RequestCharge(c, avail, grid) =
        CASE LoadBl > 1 -> IF c.State # "COMM_C" THEN SetState(c, "COMM_C") ELSE c
          [] LoadBl <= 1 /\ avail -> e
          [] OTHER -> Raise(c, "LESS_6A")
  BY DEF RequestCharge
<1> HIDE DEF b, d
<1>4. Entitled(c)
  BY DEF MayCharge, Entitled
<1>5. CASE LoadBl > 1
  <2>1. ~c.contactor1 /\ ~(LoadBl < 2)
    BY <1>1, <1>5, OpenOutsideC
  <2>2. Brisk(c, SetState(c, "COMM_C"))
    <3>1. /\ Enterable(c, "COMM_C") /\ Allowed(c, "COMM_C") /\ "COMM_C" \in States
          /\ Joined(c) => Cabled(c, "COMM_C")
      BY <1>1, <2>1, ServeOn DEF Served, CommStates, Allowed, OnPower
    <3>2. /\ Good(SetState(c, "COMM_C")) /\ SetState(c, "COMM_C").State = "COMM_C"
          /\ Joined(c) => Joined(SetState(c, "COMM_C"))
      BY <1>1, <3>1, SetStateFit, SetStateGood
    <3> QED BY <1>4, <3>2, IdleBrisk DEF OnPower
  <2>3. Brisk(c, c)
    BY KeptSame DEF Brisk, Calm
  <2>4. Brisk(c, RequestCharge(c, avail, grid))
    <3> HIDE DEF e
    <3> QED BY <1>1, <1>3, <1>5, <2>2, <2>3
  <2> QED BY <2>4, BriskLawful
<1>6. CASE LoadBl <= 1 /\ avail
  <2>1. /\ Fit(d) /\ MayStay(d) /\ d.State = c.State /\ Eased(c, d)
        /\ d.ErrorFlags \subseteq {"LESS_6A"}
    BY <1>1, <1>2, EasedFit, EasedTrans DEF MayCharge, MayStay, Eased
  <2>2. Joined(c) => Joined(d)
    BY <2>1, EasedCalm DEF Brisk, Calm, Kept
  <2>3. Enterable(d, "C") /\ Allowed(d, "C") /\ "C" \in States /\ (Joined(d) => Cabled(d, "C"))
    BY <2>1, ServeOn DEF Served, CommStates, Allowed
  <2>4. /\ Good(e) /\ e.State = "C" /\ e.ErrorFlags = d.ErrorFlags
        /\ Joined(c) => Joined(e)
    BY <2>1, <2>2, <2>3, SetStateFit, SetStateGood DEF OnPower
  <2>5. RequestCharge(c, avail, grid) = e /\ LoadBl < 2
    <3> HIDE DEF e
    <3> QED BY <1>1, <1>3, <1>6
  <2> HIDE DEF e
  <2> QED BY <1>4, <2>1, <2>4, <2>5 DEF Lawful, Tripped, Ended
<1>7. CASE LoadBl <= 1 /\ ~avail
  <2>1. RequestCharge(c, avail, grid) = Raise(c, "LESS_6A")
    <3> HIDE DEF e
    <3> QED BY <1>1, <1>3, <1>7
  <2> QED BY <1>1, <2>1, ShortageEased, EasedCalm, BriskLawful
<1> QED
  BY <1>1, <1>5, <1>6, <1>7

\* The 10 ms tick in B and COMM_C lets only a permitted car charge.
LEMMA TickConnectedLawful ==
    ASSUME NEW c, Good(c), NEW pilot \in Pilots, NEW avail \in BOOLEAN, NEW grid \in Grids
    PROVE  Lawful(c, TickConnected(c, pilot, avail, grid), pilot = "DIODE")
<1> DEFINE diode == pilot = "DIODE"
           n == (c.StateTimer + 1) % ByteValues
           timed == [c EXCEPT !.StateTimer = n]
           rest == [c EXCEPT !.StateTimer = 0]
           act == SetState(rest, "ACTSTART")
           start == [act EXCEPT !.ActivationTimer = ActivationPulse]
           seen == [c EXCEPT !.DiodeCheck = TRUE]
<1> USE DEF OnPower
<1>1. c \in Ctx /\ Fit(c)
  BY DEF Good, Fit
<1>2. n \in Nat
  <2>1. c.StateTimer \in Nat /\ ByteValues \in Nat \ {0}
    BY <1>1, DurationAssumption DEF Ctx
  <2> QED BY <2>1
<1>3. Eased(c, timed)
  <2> HIDE DEF n
  <2> QED BY <1>1, <1>2, Zenon DEF Ctx, Eased
<1>4. Eased(c, rest)
  BY <1>1, Numbers, Zenon DEF Ctx, Eased
<1>5. Good(seen) /\ Lawful(c, seen, TRUE)
  <2>1. seen \in Ctx
    BY <1>1, Zenon DEF Ctx
  <2>2. /\ seen.State = c.State /\ seen.AccessStatus = c.AccessStatus
        /\ seen.ErrorFlags = c.ErrorFlags /\ seen.Phases = c.Phases
        /\ seen.contactor1 = c.contactor1 /\ seen.contactor2 = c.contactor2
        /\ seen.ModemStage = c.ModemStage /\ seen.pilotConnected = c.pilotConnected
        /\ seen.PilotDisconnected = c.PilotDisconnected
    BY <1>1, Zenon DEF Ctx
  <2> HIDE DEF seen
  <2>3. Good(seen)
    BY <2>1, <2>2 DEF Good, Fit, Wired, Unmastered, Known, Permitted, MayStay
  <2> QED
    BY <2>2, <2>3 DEF Lawful, Powered, Joined, Tripped, Ended
<1> HIDE DEF timed, rest, seen
<1>6. CASE c.State \notin {"B", "COMM_C"}
  BY <1>6 DEF TickConnected, Lawful, Ended
<1>7. CASE c.State \in {"B", "COMM_C"}
  <2>1. TickConnected(c, pilot, avail, grid) =
          CASE pilot = "12V" -> SetState(c, "A")
            [] pilot = "6V" -> IF MayCharge(timed)
                               THEN RequestCharge(timed, avail, grid) ELSE timed
            [] pilot = "9V" -> IF rest.ActivationMode = 0 THEN start ELSE rest
            [] pilot = "DIODE" -> seen
            [] OTHER -> c
    BY <1>7 DEF TickConnected, timed, rest, seen
  <2>2. Lawful(c, SetState(c, "A"), diode)
    <3>1. Brisk(c, SetState(c, "A"))
      BY <1>1, <1>7, StopCalm DEF Brisk
    <3> QED BY <3>1, BriskLawful
  <2>3. /\ Brisk(c, timed) /\ timed.State = c.State
        /\ Brisk(c, rest) /\ rest.State = c.State /\ Good(rest) /\ Good(timed)
    BY <1>3, <1>4, EasedCalm DEF Eased, Brisk, Calm
  <2>4. MayCharge(timed) => Lawful(c, RequestCharge(timed, avail, grid), diode)
    <3> SUFFICES ASSUME MayCharge(timed)
                 PROVE  Lawful(c, RequestCharge(timed, avail, grid), diode)
      OBVIOUS
    <3>1. Lawful(timed, RequestCharge(timed, avail, grid), diode)
      BY <1>7, <2>3, RequestChargeLawful
    <3> QED BY <2>3, <3>1, BriskLawful, LawfulTrans
  <2>5. Good(act) /\ act \in Ctx /\ act.State = "ACTSTART" /\ Brisk(rest, act)
    <3>1. ~rest.contactor1 /\ Fit(rest)
      BY <1>7, <2>3, OpenOutsideC DEF Good
    <3>2. /\ Enterable(rest, "ACTSTART") /\ "ACTSTART" \in States
          /\ Joined(rest) => Cabled(rest, "ACTSTART")
      BY <1>7, <2>3, <3>1, ServeOn DEF Served, CommStates
    <3>3. Allowed(rest, "ACTSTART")
      BY DEF Allowed
    <3>4. /\ Good(act) /\ act.State = "ACTSTART" /\ act.DiodeCheck = rest.DiodeCheck
          /\ Joined(rest) => Joined(act)
      BY <3>1, <3>2, <3>3, SetStateFit, SetStateGood
    <3>5. Entitled(act) => Entitled(rest)
      BY <1>7, <2>3, <3>4 DEF Entitled
    <3> QED BY <3>4, <3>5, IdleBrisk DEF Good, Fit
  <2>6. Eased(act, start)
    <3> HIDE DEF act
    <3> QED BY <2>5, Durations, Zenon DEF Ctx, Eased
  <2> HIDE DEF act, start
  <2>7. Brisk(c, start)
    BY <2>3, <2>5, <2>6, EasedCalm, BriskTrans
  <2>8. Brisk(c, c)
    BY KeptSame DEF Brisk, Calm
  <2>9. /\ Lawful(c, start, diode) /\ Lawful(c, rest, diode)
        /\ Lawful(c, timed, diode) /\ Lawful(c, c, diode)
    BY <2>3, <2>7, <2>8, BriskLawful
  <2> QED
    BY <1>5, <2>1, <2>2, <2>4, <2>9
<1> QED
  BY <1>6, <1>7

\* The 10 ms tick in C1 opens the contactors of a car that stopped drawing.
LEMMA TickStoppingBrisk ==
    ASSUME NEW c, Good(c), NEW pilot \in Pilots
    PROVE  /\ Brisk(c, TickStopping(c, pilot))
           /\ c.State = "C1" => TickStopping(c, pilot).State \in {"A", "B1", "C1"}
<1>1. /\ c.State = "C1" => Calm(c, SetState(c, "A"))
      /\ c.State = "C1" => SetState(c, "A").State = "A"
      /\ Calm(c, SetState(c, "B1")) /\ SetState(c, "B1").State = "B1"
  BY StopCalm DEF Good
<1>2. Calm(c, c)
  BY KeptSame DEF Calm
<1> QED
  BY <1>1, <1>2 DEF TickStopping, Brisk

\* The 10 ms tick in ACTSTART goes back to B.
LEMMA TickActStartBrisk == ASSUME NEW c, Good(c) PROVE Brisk(c, TickActStart(c))
<1> DEFINE b == SetState(c, "B")
           d == [b EXCEPT !.ActivationMode = ActivationOff]
<1>1. TickActStart(c) = IF c.State = "ACTSTART" /\ c.ActivationTimer = 0 THEN d ELSE c
  BY DEF TickActStart
<1>2. CASE c.State = "ACTSTART"
  <2>1. Fit(c) /\ Enterable(c, "B") /\ "B" \in States /\ (Joined(c) => Cabled(c, "B"))
    BY <1>2, ServeOn DEF Good, Served
  <2>2. /\ Good(b) /\ b \in Ctx /\ b.State = "B" /\ b.DiodeCheck = c.DiodeCheck
        /\ Joined(c) => Joined(b)
    BY <2>1, SetStateFit, SetStateGood DEF Good, Fit, Allowed, OnPower
  <2> HIDE DEF b
  <2>3. Eased(b, d) /\ Brisk(c, b)
    <3>1. Eased(b, d)
      BY <2>2, Durations, Zenon DEF Ctx, Eased
    <3>2. Entitled(b) => Entitled(c)
      BY <1>2, <2>2 DEF Entitled
    <3> QED BY <2>2, <3>1, <3>2, IdleBrisk DEF OnPower
  <2> HIDE DEF d
  <2>4. Brisk(c, d) /\ Brisk(c, c)
    BY <2>2, <2>3, EasedCalm, BriskTrans, KeptSame DEF Brisk, Calm
  <2> QED BY <1>1, <2>4
<1>3. CASE c.State # "ACTSTART"
  BY <1>1, <1>3, KeptSame DEF Brisk, Calm
<1> QED
  BY <1>2, <1>3

\* COMM_C_OK is the answer of a master, so this step needs one.
LEMMA TickCommCOkLawful ==
    ASSUME NEW c, Good(c), NEW diode
    PROVE  /\ Lawful(c, TickCommCOk(c), diode)
           /\ c.State # "COMM_C_OK" => TickCommCOk(c) = c
<1> DEFINE d == [c EXCEPT !.DiodeCheck = FALSE]
           e == SetState(d, "C")
<1> USE DEF OnPower
<1>1. Eased(c, d)
  BY Zenon DEF Ctx, Eased, Good, Fit
<1>2. TickCommCOk(c) = IF c.State = "COMM_C_OK" THEN e ELSE c
  BY DEF TickCommCOk
<1> HIDE DEF d
<1>3. CASE c.State = "COMM_C_OK"
  <2>1. ~(LoadBl < 2)
    BY <1>3 DEF Good, Fit, Unmastered, CommStates
  <2>2. Good(d) /\ Fit(d) /\ d.State = "COMM_C_OK" /\ Brisk(c, d)
    BY <1>1, <1>3, EasedCalm DEF Brisk, Calm, Good, Eased
  <2>3. Enterable(d, "C") /\ "C" \in States /\ (Joined(d) => Cabled(d, "C"))
    BY <2>2, ServeOn DEF Served, CommStates
  <2>4. Allowed(d, "C")
    BY <2>1, <2>2 DEF Allowed, Good, Permitted
  <2>5. /\ Good(e) /\ e.State = "C" /\ e.ErrorFlags = d.ErrorFlags
        /\ Joined(d) => Joined(e)
    BY <2>2, <2>3, <2>4, SetStateFit, SetStateGood
  <2> HIDE DEF e
  <2> QED BY <1>2, <1>3, <2>1, <2>2, <2>5
           DEF Lawful, Brisk, Calm, Kept, Powered, Tripped, Ended
<1>4. CASE c.State # "COMM_C_OK"
  BY <1>2, <1>4 DEF Lawful, Ended
<1> QED
  BY <1>2, <1>3, <1>4

\* The 10 ms tick in C keeps a charging car, or opens its contactors.
LEMMA TickChargingBrisk ==
    ASSUME NEW c, Good(c), NEW pilot \in Pilots
    PROVE  Brisk(c, TickCharging(c, pilot)) /\ (c.State # "C" => TickCharging(c, pilot) = c)
<1> DEFINE b == SetState(c, "B")
           n == (c.StateTimer + 1) % ByteValues
           stopped == [b EXCEPT !.DiodeCheck = FALSE]
           short == [b EXCEPT !.StateTimer = 0, !.DiodeCheck = FALSE]
           timed == [c EXCEPT !.StateTimer = n]
           rest == [c EXCEPT !.StateTimer = 0]
<1>1. c \in Ctx /\ Fit(c)
  BY DEF Good, Fit
<1>2. n \in Nat
  <2>1. c.StateTimer \in Nat /\ ByteValues \in Nat \ {0}
    BY <1>1, DurationAssumption DEF Ctx
  <2> QED BY <2>1
<1>3. TickCharging(c, pilot) =
        IF c.State # "C" THEN c
        ELSE CASE pilot = "12V" -> SetState(c, "A")
               [] pilot = "9V" -> stopped
               [] pilot = "SHORT" -> IF n > Debounce THEN short ELSE timed
               [] OTHER -> rest
  BY DEF TickCharging
<1> HIDE DEF n
<1>4. CASE c.State = "C"
  <2>1. Brisk(c, SetState(c, "A"))
    BY <1>1, <1>4, StopCalm DEF Brisk
  <2>2. /\ Good(b) /\ b \in Ctx /\ b.State = "B"
        /\ Joined(c) => Joined(b)
    <3>1. Enterable(c, "B") /\ "B" \in States /\ (Joined(c) => Cabled(c, "B"))
      BY <1>1, <1>4, ServeOn DEF Served
    <3> QED BY <1>1, <3>1, SetStateFit, SetStateGood DEF Good, Fit, Allowed, OnPower
  <2> HIDE DEF b
  <2>3. Brisk(c, b)
    BY <1>4, <2>2, IdleBrisk DEF OnPower, Entitled
  <2>4. Eased(b, stopped) /\ Eased(b, short)
    BY <2>2, Numbers, ZenonT(40) DEF Ctx, Eased
  <2>5. Eased(c, timed) /\ Eased(c, rest)
    BY <1>1, <1>2, Numbers, Zenon DEF Ctx, Eased
  <2> HIDE DEF stopped, short, timed, rest
  <2>6. Brisk(c, stopped) /\ Brisk(c, short) /\ Brisk(c, timed) /\ Brisk(c, rest)
    BY <2>2, <2>3, <2>4, <2>5, EasedCalm, BriskTrans
  <2> QED BY <1>3, <1>4, <2>1, <2>6
<1>5. CASE c.State # "C"
  BY <1>3, <1>5, KeptSame DEF Brisk, Calm
<1> QED
  BY <1>4, <1>5

\* The whole of evse_tick_10ms: the chain of its if-statements keeps the context good,
\* and lets no car charge whose diode was not seen.
LEMMA Tick10msLawful ==
    ASSUME NEW c, Good(c), NEW pilot \in Pilots, NEW avail \in BOOLEAN, NEW grid \in Grids
    PROVE  Lawful(c, Tick10ms(c, pilot, avail, grid), pilot = "DIODE")
<1> DEFINE waiting   == TickWaiting(c, pilot, avail)
           granted   == TickCommBOk(waiting)
           connected == TickConnected(granted, pilot, avail, grid)
           stopping  == TickStopping(connected, pilot)
           activated == TickActStart(stopping)
           permitted == TickCommCOk(activated)
           diode     == pilot = "DIODE"
<1>1. Lawful(c, waiting, diode)
  BY TickWaitingBrisk, BriskLawful
<1> HIDE DEF waiting
<1>2. Lawful(c, granted, diode)
  BY <1>1, TickCommBOkBrisk, BriskLawful, LawfulTrans DEF Lawful
<1> HIDE DEF granted
<1>3. Lawful(c, connected, diode)
  BY <1>2, TickConnectedLawful, LawfulTrans DEF Lawful
<1> HIDE DEF connected
<1>4. Lawful(c, stopping, diode)
  BY <1>3, TickStoppingBrisk, BriskLawful, LawfulTrans DEF Lawful
<1> HIDE DEF stopping
<1>5. Lawful(c, activated, diode)
  BY <1>4, TickActStartBrisk, BriskLawful, LawfulTrans DEF Lawful
<1> HIDE DEF activated
<1>6. Lawful(c, permitted, diode)
  BY <1>5, TickCommCOkLawful, LawfulTrans DEF Lawful
<1> HIDE DEF permitted
<1>7. Lawful(c, TickCharging(permitted, pilot), diode)
  BY <1>6, TickChargingBrisk, BriskLawful, LawfulTrans DEF Lawful
<1> QED
  BY <1>7 DEF Tick10ms, permitted, activated, stopping, connected, granted, waiting

\* A car that has been told to stop does not charge again within the same tick.
LEMMA Tick10msStops ==
    ASSUME NEW c, Good(c), c.State = "C1",
           NEW pilot \in Pilots, NEW avail \in BOOLEAN, NEW grid \in Grids
    PROVE  Tick10ms(c, pilot, avail, grid).State # "C"
<1> DEFINE d == TickStopping(c, pilot)
<1>1. /\ TickWaiting(c, pilot, avail) = c /\ TickCommBOk(c) = c
      /\ TickConnected(c, pilot, avail, grid) = c
  BY DEF TickWaiting, TickCommBOk, TickConnected
<1>2. Good(d) /\ d.State \in {"A", "B1", "C1"}
  BY TickStoppingBrisk DEF Brisk, Calm
<1>3. Tick10ms(c, pilot, avail, grid) = TickCharging(TickCommCOk(TickActStart(d)), pilot)
  BY <1>1 DEF Tick10ms
<1> HIDE DEF d
<1>4. TickActStart(d) = d
  BY <1>2 DEF TickActStart
<1>5. TickCommCOk(d) = d
  BY <1>2 DEF TickCommCOk
<1>6. TickCharging(d, pilot) = d
  BY <1>2 DEF TickCharging
<1> QED
  BY <1>2, <1>3, <1>4, <1>5, <1>6

----------------------------------------------------------------------------
(* evse_tick_1s                                                            *)

\* The activation timers count down and stop at 0.
LEMMA TickActivationCalm == ASSUME NEW c, Good(c) PROVE Calm(c, TickActivation(c))
<1> DEFINE n == IF c.ActivationMode = ActivationOff THEN c.ActivationMode
                                                    ELSE Dec(c.ActivationMode)
           m == Dec(c.ActivationTimer)
           d == [c EXCEPT !.ActivationMode = n, !.ActivationTimer = m]
<1>1. c \in Ctx
  BY DEF Good, Fit
<1>2. n \in Nat /\ m \in Nat
  BY <1>1, DecType DEF Ctx
<1>3. Eased(c, d)
  <2> HIDE DEF n, m
  <2> QED BY <1>1, <1>2, Zenon DEF Ctx, Eased
<1>4. TickActivation(c) = d
  BY DEF TickActivation
<1> HIDE DEF d
<1> QED
  BY <1>3, <1>4, EasedCalm DEF Brisk

\* The modem leads to B or to MODEM_DENIED, never to C.
LEMMA LeaveModemDoneCalm ==
    ASSUME ModemEnabled, NEW c, Good(c), c.State = "MODEM_DONE", NEW known
    PROVE  Calm(c, LeaveModemDone(c, known))
<1> DEFINE d == [c EXCEPT !.pilotConnected = FALSE]
           met == [d EXCEPT !.ModemStage = 1]
           unmet == [d EXCEPT !.ModemStage = 0, !.ModemTimer = ModemDeniedTime]
           Cut(e) == /\ e \in Ctx /\ e.State = c.State /\ e.DiodeCheck = c.DiodeCheck
                     /\ e.contactor1 = c.contactor1 /\ e.contactor2 = c.contactor2
                     /\ e.Phases = c.Phases
<1>1. c \in Ctx /\ ~c.contactor1
  BY OpenOutsideC DEF Good, Fit
<1>2. LeaveModemDone(c, known) = IF known THEN SetState(met, "B")
                                          ELSE SetState(unmet, "MODEM_DENIED")
  BY DEF LeaveModemDone
<1>3. Cut(d) /\ 0 \in {0, 1} /\ 1 \in {0, 1}
  BY <1>1, Zenon DEF Ctx
<1> HIDE DEF d
<1>4. Cut(met) /\ met.ModemStage = 1 /\ Cut(unmet)
  BY <1>3, Durations, Zenon DEF Ctx
<1> HIDE DEF met, unmet
<1>5. Fit(met) /\ Fit(unmet)
  BY <1>4 DEF Good, Fit, Wired, Unmastered, Known, Served
<1>6. /\ Good(SetState(met, "B")) /\ SetState(met, "B").State = "B"
      /\ SetState(met, "B").DiodeCheck = c.DiodeCheck
  <2>1. Enterable(met, "B") /\ Allowed(met, "B")
    BY <1>4 DEF Enterable, Allowed, OnPower, CommStates, ModemStates, Untouched
  <2> QED BY <1>4, <1>5, <2>1, SetStateFit, SetStateGood DEF States
<1>7. /\ Good(SetState(unmet, "MODEM_DENIED"))
      /\ SetState(unmet, "MODEM_DENIED").State = "MODEM_DENIED"
      /\ SetState(unmet, "MODEM_DENIED").DiodeCheck = c.DiodeCheck
  <2>1. Enterable(unmet, "MODEM_DENIED") /\ Allowed(unmet, "MODEM_DENIED")
    BY <1>1, <1>4 DEF Enterable, Allowed, OnPower, CommStates, Served
  <2> QED BY <1>4, <1>5, <2>1, SetStateFit, SetStateGood DEF States
<1> QED
  BY <1>2, <1>6, <1>7, IdleBrisk DEF Brisk, Entitled, OnPower, Joined

\* From one of its states the modem enters another.
LEMMA ModemGoesOn ==
    ASSUME ModemEnabled, NEW c, Good(c), c.State \in ModemStates, NEW s \in ModemStates
    PROVE  Calm(c, SetState(c, s))
<1>1. Fit(c) /\ ~c.contactor1
  BY OpenOutsideC DEF Good, ModemStates
<1>2. Enterable(c, s) /\ Allowed(c, s) /\ s \in States
  BY <1>1 DEF Enterable, Allowed, OnPower, CommStates, Served, ModemStates, States
<1>3. /\ Good(SetState(c, s)) /\ SetState(c, s).State = s
      /\ SetState(c, s).DiodeCheck = c.DiodeCheck
  BY <1>1, <1>2, SetStateFit, SetStateGood
<1> QED
  BY <1>3, IdleBrisk DEF Brisk, Entitled, ModemStates, OnPower, Joined

\* One if-statement of the modem chain counts or leaves its state.
LEMMA ModemStepCalm ==
    ASSUME NEW c, Good(c), NEW s, NEW left, c.State = s => Calm(c, left)
    PROVE  Calm(c, ModemStep(c, s, left))
<1> DEFINE n == c.ModemTimer - 1
           d == [c EXCEPT !.ModemTimer = n]
<1>1. c \in Ctx /\ c.ModemTimer \in Nat /\ Calm(c, c)
  BY KeptSame DEF Good, Fit, Ctx, Calm
<1>2. CASE c.State = s /\ c.ModemTimer > 0
  <2>1. n \in Nat
    BY <1>1, <1>2
  <2>2. Eased(c, d)
    <3> HIDE DEF n
    <3> QED BY <1>1, <2>1, Zenon DEF Ctx, Eased
  <2>3. ModemStep(c, s, left) = d
    BY <1>2 DEF ModemStep
  <2> HIDE DEF d
  <2> QED BY <2>2, <2>3, EasedCalm DEF Brisk
<1>3. CASE c.State = s /\ c.ModemTimer = 0
  BY <1>3 DEF ModemStep
<1>4. CASE c.State # s
  BY <1>1, <1>4 DEF ModemStep
<1> QED
  BY <1>1, <1>2, <1>3, <1>4

\* The whole modem chain starts no charge.
LEMMA TickModemCalm == ASSUME NEW c, Good(c), NEW known PROVE Calm(c, TickModem(c, known))
<1> DEFINE wait   == ModemStep(c, "MODEM_REQUEST", SetState(c, "MODEM_WAIT"))
           done   == ModemStep(wait, "MODEM_WAIT", SetState(wait, "MODEM_DONE"))
           left   == ModemStep(done, "MODEM_DONE", LeaveModemDone(done, known))
           a      == SetState(left, "A")
           free   == [a EXCEPT !.pilotConnected = TRUE]
           denied == ModemStep(left, "MODEM_DENIED", free)
<1>0. TickModem(c, known) = IF ModemEnabled THEN denied ELSE c
  BY DEF TickModem
<1>1. CASE ~ModemEnabled
  BY <1>0, <1>1, KeptSame DEF Calm
<1>6. SUFFICES ASSUME ModemEnabled PROVE Calm(c, denied)
  BY <1>0, <1>1
<1>2. Calm(c, wait)
  <2>1. c.State = "MODEM_REQUEST" => Calm(c, SetState(c, "MODEM_WAIT"))
    BY <1>6, ModemGoesOn DEF ModemStates
  <2> QED BY <2>1, ModemStepCalm
<1> HIDE DEF wait
<1>3. Calm(wait, done)
  <2>1. wait.State = "MODEM_WAIT" => Calm(wait, SetState(wait, "MODEM_DONE"))
    BY <1>6, <1>2, ModemGoesOn DEF Calm, ModemStates
  <2> QED BY <1>2, <2>1, ModemStepCalm DEF Calm
<1> HIDE DEF done
<1>4. Calm(done, left)
  BY <1>6, <1>3, LeaveModemDoneCalm, ModemStepCalm DEF Calm
<1> HIDE DEF left
<1>5. Calm(left, denied)
  <2>1. SUFFICES left.State = "MODEM_DENIED" => Calm(left, free)
    BY <1>4, ModemStepCalm DEF Calm
  <2>2. SUFFICES ASSUME left.State = "MODEM_DENIED" PROVE Calm(left, free)
    BY <2>1
  <2>3. Calm(left, a) /\ a \in Ctx
    BY <1>4, <2>2, StopCalm DEF Calm, Good, Fit
  <2>4. Eased(a, free)
    <3> HIDE DEF a
    <3> QED BY <2>3, Zenon DEF Ctx, Eased
  <2> HIDE DEF free, a
  <2> QED BY <2>3, <2>4, EasedCalm, CalmTrans DEF Calm, Brisk
<1> HIDE DEF denied
<1> QED
  BY <1>2, <1>3, <1>4, <1>5, CalmTrans

\* C1 ends in B1 with the contactors open when its timer has run out.
LEMMA TickC1Calm == ASSUME NEW c, Good(c) PROVE Calm(c, TickC1(c))
<1> DEFINE n == c.C1Timer - 1
           d == [c EXCEPT !.C1Timer = n]
<1>1. c \in Ctx /\ c.C1Timer \in Nat /\ Calm(c, c)
  BY KeptSame DEF Good, Fit, Ctx, Calm
<1>2. CASE c.State = "C1" /\ c.C1Timer > 0
  <2>1. n \in Nat
    BY <1>1, <1>2
  <2>2. Eased(c, d)
    <3> HIDE DEF n
    <3> QED BY <1>1, <2>1, Zenon DEF Ctx, Eased
  <2>3. TickC1(c) = d
    BY <1>2 DEF TickC1
  <2> HIDE DEF d
  <2> QED BY <2>2, <2>3, EasedCalm DEF Brisk
<1>3. CASE c.State = "C1" /\ c.C1Timer = 0
  <2>1. TickC1(c) = SetState(c, "B1")
    BY <1>3 DEF TickC1
  <2> QED BY <2>1, StopCalm DEF Good
<1>4. CASE c.State # "C1"
  BY <1>1, <1>4 DEF TickC1
<1> QED
  BY <1>1, <1>2, <1>3, <1>4

\* An excess of the sum of the mains that lasted too long ends the charge.
LEMMA TickMaxSumMainsCalm ==
    ASSUME NEW c, Good(c)
    PROVE  Calm(c, TickMaxSumMains(c))
<1> DEFINE n == Dec(c.MaxSumMainsTimer)
           d == [c EXCEPT !.MaxSumMainsTimer = n]
           e == IF d.State = "C" THEN SetState(d, "C1") ELSE d
<1>1. c \in Ctx /\ c.MaxSumMainsTimer \in Nat
  BY DEF Good, Fit, Ctx
<1>2. n \in Nat
  BY <1>1, DecType
<1>3. Eased(c, d)
  <2> HIDE DEF n
  <2> QED BY <1>1, <1>2, Zenon DEF Ctx, Eased
<1>4. TickMaxSumMains(c) = IF c.MaxSumMainsTimer = 1 THEN Raise(e, "LESS_6A") ELSE d
  BY DEF TickMaxSumMains
<1> HIDE DEF d
<1>5. Calm(c, d)
  BY <1>3, EasedCalm DEF Brisk
<1>6. Calm(d, e)
  <2>1. CASE d.State = "C"
    <3>1. Calm(d, SetState(d, "C1"))
      BY <1>5, <2>1, StopCalm DEF Calm, Good
    <3> QED BY <2>1, <3>1
  <2>2. CASE d.State # "C"
    BY <1>5, <2>2, KeptSame DEF Calm
  <2> QED BY <2>1, <2>2
<1> HIDE DEF e
<1>7. Calm(e, Raise(e, "LESS_6A"))
  BY <1>6, ShortageEased, EasedCalm DEF Brisk, Calm, Good
<1> QED
  BY <1>4, <1>5, <1>6, <1>7, CalmTrans

\* The access that ran out is taken back by evse_set_access.
LEMMA TickAccessTimerCalm ==
    ASSUME NEW c, Good(c)
    PROVE  Calm(c, TickAccessTimer(c))
<1> DEFINE n == Dec(c.AccessTimer)
           expired == [c EXCEPT !.AccessTimer = 0]
           timed == [c EXCEPT !.AccessTimer = n]
<1>1. c \in Ctx /\ n \in Nat
  BY DecType DEF Good, Fit, Ctx
<1>2. Eased(c, expired) /\ Eased(c, timed)
  <2> HIDE DEF n
  <2> QED BY <1>1, Numbers, Zenon DEF Ctx, Eased
<1>3. TickAccessTimer(c) =
        CASE c.State # "A" -> expired
          [] c.State = "A" /\ c.AccessTimer = 1 -> SetAccess(expired, "OFF")
          [] OTHER -> timed
  BY DEF TickAccessTimer
<1> HIDE DEF expired, timed
<1>4. Calm(c, expired) /\ Calm(c, timed)
  BY <1>2, EasedCalm DEF Brisk
<1>5. Calm(c, SetAccess(expired, "OFF"))
  BY <1>4, RevokeCalm, CalmTrans DEF Calm
<1> QED
  BY <1>3, <1>4, <1>5

\* Recovering from an error starts no charge by itself.
LEMMA TickRecoverCalm ==
    ASSUME NEW c, Good(c), NEW temp, NEW avail
    PROVE  Calm(c, TickRecover(c, temp, avail))
<1>1. Eased(c, TickRecover(c, temp, avail))
  BY DropFlagsEased DEF TickRecover, Good, Fit
<1> QED
  BY <1>1, EasedCalm DEF Brisk

\* A silent mains meter ends the charge, or counts down.
LEMMA TickMainsMeterCalm ==
    ASSUME NEW c, Good(c)
    PROVE  Calm(c, TickMainsMeter(c))
<1> DEFINE n == Dec(c.MainsMeterTimeout)
           full == [c EXCEPT !.MainsMeterTimeout = COMM_TIMEOUT]
           timed == [c EXCEPT !.MainsMeterTimeout = n]
           none == LoadBl < 2 /\ MainsMeterType = "none"
           expired == /\ c.MainsMeterTimeout = 0 /\ "CT_NOCOMM" \notin c.ErrorFlags
                      /\ LoadBl > 1 \/ (MainsMeterType # "none" /\ c.Mode = "SMART")
           api == LoadBl < 2 /\ MainsMeterType = "api" /\ ApiStaleTime > 0
<1>1. c \in Ctx /\ n \in Nat /\ LoadBl \in Nat
  BY DecType, ConfigAssumption DEF Good, Fit, Ctx
<1>2. Eased(c, full) /\ Eased(c, timed)
  <2> HIDE DEF n
  <2> QED BY <1>1, Durations, Zenon DEF Ctx, Eased
<1>3. TickMainsMeter(c) = CASE none -> full
                            [] expired -> IF api THEN c ELSE Fault(c, "CT_NOCOMM")
                            [] OTHER -> timed
  BY DEF TickMainsMeter
<1>4. ~(none /\ expired)
  BY <1>1
<1> HIDE DEF full, timed, none, expired, api
<1>5. Calm(c, full) /\ Calm(c, timed) /\ Calm(c, c)
  BY <1>2, EasedCalm, KeptSame DEF Brisk, Calm
<1>6. Calm(c, Fault(c, "CT_NOCOMM"))
  BY FaultCalm DEF Faults, Good
<1> QED
  BY <1>3, <1>4, <1>5, <1>6

\* A silent EV meter ends the charge, or counts down.
LEMMA TickEVMeterCalm ==
    ASSUME NEW c, Good(c)
    PROVE  Calm(c, TickEVMeter(c))
<1> DEFINE n == Dec(c.EVMeterTimeout)
           full == [c EXCEPT !.EVMeterTimeout = COMM_EVTIMEOUT]
           timed == [c EXCEPT !.EVMeterTimeout = n]
           expired == /\ EVMeterPresent /\ c.EVMeterTimeout = 0
                      /\ "EV_NOCOMM" \notin c.ErrorFlags /\ c.Mode = "SMART"
<1>1. c \in Ctx /\ n \in Nat
  BY DecType DEF Good, Fit, Ctx
<1>2. Eased(c, full) /\ Eased(c, timed)
  <2> HIDE DEF n
  <2> QED BY <1>1, Durations, Zenon DEF Ctx, Eased
<1>3. TickEVMeter(c) = CASE ~EVMeterPresent -> full
                         [] expired -> Fault(c, "EV_NOCOMM")
                         [] OTHER -> timed
  BY DEF TickEVMeter
<1>4. expired => EVMeterPresent
  OBVIOUS
<1> HIDE DEF full, timed, expired
<1>5. Calm(c, full) /\ Calm(c, timed)
  BY <1>2, EasedCalm DEF Brisk
<1>6. Calm(c, Fault(c, "EV_NOCOMM"))
  BY FaultCalm DEF Faults, Good
<1> QED
  BY <1>3, <1>4, <1>5, <1>6

\* A meter that is back starts no charge by itself.
LEMMA TickCommRecoverCalm ==
    ASSUME NEW c, Good(c)
    PROVE  Calm(c, TickCommRecover(c))
<1>1. Eased(c, TickCommRecover(c))
  BY DropFlagsEased DEF TickCommRecover, Good, Fit
<1> QED
  BY <1>1, EasedCalm DEF Brisk

\* The staleness of API data touches two fields of its own.
LEMMA TickApiStaleCalm ==
    ASSUME NEW c, Good(c)
    PROVE  Calm(c, TickApiStale(c))
<1> DEFINE n == Dec(c.ApiTimer)
           stale == n = 0
           counted == [c EXCEPT !.ApiTimer = n, !.ApiStale = stale]
           fresh == [c EXCEPT !.ApiStale = FALSE]
<1>1. c \in Ctx /\ n \in Nat /\ stale \in BOOLEAN
  BY DecType DEF Good, Fit, Ctx
<1>2. Eased(c, counted) /\ Eased(c, fresh)
  <2> HIDE DEF n, stale
  <2> QED BY <1>1, ZenonT(40) DEF Ctx, Eased
<1>3. TickApiStale(c) =
        CASE MainsMeterType = "api" /\ ApiStaleTime > 0 /\ LoadBl < 2 -> counted
          [] MainsMeterType # "api" -> fresh
          [] OTHER -> c
  BY DEF TickApiStale
<1> HIDE DEF counted, fresh
<1>4. Calm(c, counted) /\ Calm(c, fresh) /\ Calm(c, c)
  BY <1>2, EasedCalm, KeptSame DEF Brisk, Calm
<1> QED
  BY <1>3, <1>4

\* Overheating ends the charge.
LEMMA TickTemperatureCalm ==
    ASSUME NEW c, Good(c), NEW temp
    PROVE  Calm(c, TickTemperature(c, temp))
<1>1. Calm(c, c) /\ Calm(c, Fault(c, "TEMP_HIGH"))
  BY FaultCalm, KeptSame DEF Faults, Calm, Good
<1> QED
  BY <1>1 DEF TickTemperature

\* A shortage that stands takes the car out of C within a second.
LEMMA EnforceLess6ACalm ==
    ASSUME NEW c, Good(c)
    PROVE  Calm(c, EnforceLess6A(c))
<1> DEFINE d == SetPowerUnavailable(c)
           e == [d EXCEPT !.ChargeDelay = CHARGEDELAY]
<1>1. Calm(c, d) /\ d \in Ctx
  BY SetPowerUnavailableCalm DEF Calm, Good, Fit
<1>2. EnforceLess6A(c) = IF "LESS_6A" \in c.ErrorFlags THEN e ELSE c
  BY DEF EnforceLess6A
<1> HIDE DEF d
<1>3. Eased(d, e)
  BY <1>1, Durations, Zenon DEF Ctx, Eased
<1> HIDE DEF e
<1>4. Calm(c, e) /\ Calm(c, c)
  BY <1>1, <1>3, EasedCalm, CalmTrans, KeptSame DEF Calm, Brisk
<1> QED
  BY <1>2, <1>4

\* The whole of evse_tick_1s keeps the context good and starts no charge.
LEMMA Tick1sCalm ==
    ASSUME NEW c, Good(c), NEW temp, NEW avail, NEW known
    PROVE  Calm(c, Tick1s(c, temp, avail, known))
<1> DEFINE active == TickActivation(c)
           modem == TickModem(active, known)
           timed == TickC1(modem)
           n == Dec(timed.PilotDisconnectTime)
           pilot == [timed EXCEPT !.PilotDisconnectTime = n]
           summed == TickMaxSumMains(pilot)
           m == Dec(summed.ChargeDelay)
           delayed == [summed EXCEPT !.ChargeDelay = m]
           access == TickAccessTimer(delayed)
           recovered == TickRecover(access, temp, avail)
           mains == TickMainsMeter(recovered)
           ev == TickEVMeter(mains)
           metered == TickCommRecover(ev)
           stale == TickApiStale(metered)
           warm == TickTemperature(stale, temp)
<1>1. Calm(c, active)
  BY TickActivationCalm
<1> HIDE DEF active
<1>2. Calm(c, modem)
  BY <1>1, TickModemCalm, CalmTrans DEF Calm
<1> HIDE DEF modem
<1>3. Calm(c, timed) /\ timed \in Ctx
  BY <1>2, TickC1Calm, CalmTrans DEF Calm, Good, Fit
<1> HIDE DEF timed
<1>4. Calm(c, pilot)
  <2>1. n \in Nat
    BY <1>3, DecType DEF Ctx
  <2>2. Eased(timed, pilot)
    <3> HIDE DEF n
    <3> QED BY <1>3, <2>1, Zenon DEF Ctx, Eased
  <2> HIDE DEF pilot
  <2> QED BY <1>3, <2>2, EasedCalm, CalmTrans DEF Brisk, Calm
<1> HIDE DEF pilot
<1>5. Calm(c, summed) /\ summed \in Ctx
  BY <1>4, TickMaxSumMainsCalm, CalmTrans DEF Calm, Good, Fit
<1> HIDE DEF summed
<1>6. Calm(c, delayed)
  <2>1. m \in Nat
    BY <1>5, DecType DEF Ctx
  <2>2. Eased(summed, delayed)
    <3> HIDE DEF m
    <3> QED BY <1>5, <2>1, Zenon DEF Ctx, Eased
  <2> HIDE DEF delayed
  <2> QED BY <1>5, <2>2, EasedCalm, CalmTrans DEF Brisk, Calm
<1> HIDE DEF delayed
<1>7. Calm(c, access)
  BY <1>6, TickAccessTimerCalm, CalmTrans DEF Calm
<1> HIDE DEF access
<1>8. Calm(c, recovered)
  BY <1>7, TickRecoverCalm, CalmTrans DEF Calm
<1> HIDE DEF recovered
<1>9. Calm(c, mains)
  BY <1>8, TickMainsMeterCalm, CalmTrans DEF Calm
<1> HIDE DEF mains
<1>10. Calm(c, ev)
  BY <1>9, TickEVMeterCalm, CalmTrans DEF Calm
<1> HIDE DEF ev
<1>11. Calm(c, metered)
  BY <1>10, TickCommRecoverCalm, CalmTrans DEF Calm
<1> HIDE DEF metered
<1>12. Calm(c, stale)
  BY <1>11, TickApiStaleCalm, CalmTrans DEF Calm
<1> HIDE DEF stale
<1>13. Calm(c, warm)
  BY <1>12, TickTemperatureCalm, CalmTrans DEF Calm
<1> HIDE DEF warm
<1>14. Calm(c, EnforceLess6A(warm))
  BY <1>13, EnforceLess6ACalm, CalmTrans DEF Calm
<1>15. Tick1s(c, temp, avail, known) = EnforceLess6A(warm)
  BY DEF Tick1s, warm, stale, metered, ev, mains, recovered, access, delayed,
         summed, pilot, timed, modem, active
<1> QED
  BY <1>14, <1>15

\* The disconnect counter of the modem build touches a field of its own.
LEMMA TickModemDisconnectCalm ==
    ASSUME NEW c, Good(c), NEW pilot
    PROVE  Calm(c, TickModemDisconnect(c, pilot))
<1> DEFINE n == IF c.DisconnectTimeCounter >= 0 THEN c.DisconnectTimeCounter + 1 ELSE -1
           m == CASE n > 3 /\ pilot = "12V" -> -1
                  [] n > 3 /\ pilot # "12V" -> 0
                  [] OTHER -> n
           d == [c EXCEPT !.DisconnectTimeCounter = m]
<1>1. c \in Ctx /\ c.DisconnectTimeCounter \in Int
  BY DEF Good, Fit, Ctx
<1>2. m \in Int
  BY <1>1
<1>3. TickModemDisconnect(c, pilot) = IF ~ModemEnabled THEN c ELSE d
  BY DEF TickModemDisconnect
<1> HIDE DEF m
<1>4. Eased(c, d)
  BY <1>1, <1>2, Zenon DEF Ctx, Eased
<1> HIDE DEF d
<1> QED
  BY <1>3, <1>4, EasedCalm, KeptSame DEF Brisk, Calm
=============================================================================
