----------------------------- MODULE PowerShare -----------------------------
(***************************************************************************)
(* Power sharing, as the master sees it: it admits EVSEs, divides the      *)
(* current in every cycle of the bus, pauses some when it does not suffice *)
(* and rotates among them (evse_calc_balanced_current, the priority        *)
(* scheduler, processAllNodeStates and the end of ModbusRequestLoop).      *)
(*                                                                         *)
(* The regulation of the total (phases 3 to 4b) is an input: room is what  *)
(* it found to be available for all cars together, and may change at any   *)
(* time.  Polling a node and answering its request are one step, since     *)
(* only answered requests count as current; EVSEs that are neither ready   *)
(* (B) nor charging (C) are in "A".                                        *)
(***************************************************************************)
EXTENDS Distribution

CONSTANTS
    Rooms,              \* currents that may be available
    Strategies,         \* PrioStrategy, a setting
    IdleTimeout,        \* seconds, a setting
    RotationInterval,   \* in seconds here, 0: none; a setting
    NoCurrentThreshold, \* cycles without current until LESS_6A
    Settling            \* cycles after which the smoothing must have ended

ASSUME ShareAssumption ==
    /\ Rooms \subseteq Nat /\ IdleTimeout \in Nat /\ RotationInterval \in Nat
    /\ NoCurrentThreshold \in Nat \ {0} /\ Settling \in Nat \ {0}
    /\ \A n \in Evses : Settling * MaxDelta >= BalancedMax[n]

VARIABLES
    BalancedState,  \* "A", "B", "C"
    Balanced, BalancedPrev,
    ScheduleState,  \* "INACTIVE", "ACTIVE", "PAUSED"
    ConnectedTime,  \* the rank of the times in the code, 0: never
    IdleTimer,      \* up to IdleTimeout
    RotationTimer, NoCurrent,
    Less6A,         \* LESS_6A in the master's ErrorFlags
    Fresh,          \* phasesLastUpdateFlag: the mains were measured
    PrioStrategy,
    room,           \* IsetBalanced, before it is raised to the minimum
    offering,       \* the EVSEs whose pilot offers their car a current
    calm            \* history: cycles since something other than them changed

vars == <<BalancedState, Balanced, BalancedPrev, ScheduleState, ConnectedTime,
          IdleTimer, RotationTimer, NoCurrent, Less6A, Fresh, PrioStrategy, room,
          offering, calm>>

Master == 1
ChargingIn(state) == {n \in Evses : state[n] = "C"}
Charging == ChargingIn(BalancedState)
Order(state, connected) == Sorted(ChargingIn(state), connected, PrioStrategy)

\* evse_is_current_available: one more EVSE at the minimum
IsCurrentAvailable ==
    Min({Cardinality(Charging) + 1, N}) * MinCurrent <= room

\* A node that is told to charge with nothing stops (STATE_C1).  The master only
\* calls SetCurrent, and less than 6 A is no valid duty cycle: 6 A is used instead
Offering(balanced) == {n \in Charging : n = Master \/ balanced[n] > 0}

----------------------------------------------------------------------------
(* evse_calc_balanced_current, phases 2 and 5                              *)

\* Too little for all: the scheduler gives out the minimum in order, and what is
\* left to all that are marked active, whether they still charge or not
Shared(state, balanced) ==
    LET charging == ChargingIn(state)
        s == Scheduled(Order(state, ConnectedTime), charging, room)
        sched == [n \in Evses |-> CASE n \in s.active -> "ACTIVE"
                                    [] n \in charging \ s.active -> "PAUSED"
                                    [] OTHER -> ScheduleState[n]]
        minima == [n \in Evses |-> CASE n \in s.active -> MinCurrent
                                     [] n \in charging \ s.active -> 0
                                     [] OTHER -> balanced[n]]
        active == {n \in Evses : sched[n] = "ACTIVE"}
    IN  [balanced |-> Handout(minima, active, s.left), sched |-> sched,
         idle |-> IdleTimer, noCurrent |-> IF active = {} THEN NoCurrent + 1 ELSE NoCurrent]

\* A single EVSE gets the minimum, and its shortage counts, if it is a hard one
Alone(state, balanced, hard) ==
    [balanced |-> Divided(balanced, ChargingIn(state), MinCurrent),
     sched |-> ScheduleState, idle |-> IdleTimer,
     noCurrent |-> IF hard THEN NoCurrent + 1 ELSE NoCurrent]

Plenty(state, balanced) ==
    LET charging == ChargingIn(state)
    IN  [balanced |-> Divided(balanced, charging,
                              Min({room, Total(BalancedMax, charging)})),
         sched |-> [n \in Evses |-> IF n \in charging THEN "ACTIVE"
                                                      ELSE ScheduleState[n]],
         idle |-> [n \in Evses |-> IF n \in charging THEN 0 ELSE IdleTimer[n]],
         noCurrent |-> Max({NoCurrent - 1, 0})]

Division(state, balanced, hard) ==
    LET count == Cardinality(ChargingIn(state))
        short == room < count * MinCurrent
    IN  CASE short /\ count > 1 -> Shared(state, balanced)
          [] short /\ count = 1 -> Alone(state, balanced, hard)
          [] OTHER -> Plenty(state, balanced)

\* joins: mod = 1, a new EVSE joins and all currents are set at once.  Without a
\* new measurement nothing is divided.  state and balanced: the arrays before.
\* overload: after it, at the end of a cycle, twice the mains current trips at once
Calc(joins, state, balanced, hard, overload) ==
    LET charging == ChargingIn(state)
        short == room < Cardinality(charging) * MinCurrent
        r == Division(state, balanced, hard)
        divided == IF joins THEN r.balanced
                   ELSE Clamped(r.balanced, BalancedPrev, charging)
    IN  /\ Fresh' = FALSE
        /\ IF charging # {} /\ Fresh
           THEN /\ Balanced' = divided /\ BalancedPrev' = divided
                /\ ScheduleState' = r.sched /\ IdleTimer' = r.idle
                /\ NoCurrent' = IF overload THEN 0 ELSE Min({r.noCurrent, NoCurrentThreshold})
                /\ Less6A' = \/ Less6A \/ overload
                             \/ short /\ r.noCurrent >= NoCurrentThreshold
           ELSE /\ Balanced' = balanced
                /\ NoCurrent' = IF charging = {} \/ overload THEN 0 ELSE NoCurrent
                /\ Less6A' = (Less6A \/ overload)
                /\ UNCHANGED <<BalancedPrev, ScheduleState, IdleTimer>>

----------------------------------------------------------------------------
(* The cycle of the bus                                                    *)

Unregulated == UNCHANGED <<BalancedPrev, ScheduleState, IdleTimer, NoCurrent,
                           Less6A, Fresh>>
UnchangedSchedule == UNCHANGED <<ConnectedTime, RotationTimer, PrioStrategy, room>>

\* A node reports that it stopped charging or is not ready any more: its car
\* did, or it was told to charge with nothing
Leave(n) ==
    /\ n # Master /\ calm' = 0
    /\ \E s \in {"A", "B"} :
          /\ \/ BalancedState[n] = "C" /\ (n \in offering \/ s = "A")
             \/ BalancedState[n] = "B" /\ s = "A"
          /\ BalancedState' = [BalancedState EXCEPT ![n] = s]
          /\ offering' = offering \ {n}
    /\ UNCHANGED Balanced /\ Unregulated /\ UnchangedSchedule

\* A node is not heard of any more (requestNodeStatus)
Offline(n) ==
    /\ n # Master /\ BalancedState[n] # "A" /\ calm' = 0
    /\ BalancedState' = [BalancedState EXCEPT ![n] = "A"]
    /\ Balanced' = [Balanced EXCEPT ![n] = 0]
    /\ offering' = offering \ {n}
    /\ Unregulated /\ UnchangedSchedule

\* STATE_COMM_B: a node asks to become ready
AskB(n) ==
    /\ n # Master /\ BalancedState[n] = "A" /\ calm' = 0
    /\ BalancedState' = [BalancedState EXCEPT ![n] = IF IsCurrentAvailable THEN "B" ELSE @]
    /\ Balanced' = [Balanced EXCEPT ![n] = IF IsCurrentAvailable THEN MinCurrent ELSE 0]
    /\ UNCHANGED offering /\ Unregulated /\ UnchangedSchedule

\* STATE_COMM_C: a node asks to charge
AskC(n) ==
    /\ n # Master /\ BalancedState[n] = "B" /\ calm' = 0
    /\ IF IsCurrentAvailable
       THEN /\ BalancedState' = [BalancedState EXCEPT ![n] = "C"]
            /\ Calc(TRUE, BalancedState', [Balanced EXCEPT ![n] = 0], FALSE, FALSE)
            /\ offering' = offering \cup {n}
       ELSE /\ Balanced' = [Balanced EXCEPT ![n] = 0]
            /\ UNCHANGED <<BalancedState, offering>> /\ Unregulated
    /\ UnchangedSchedule

\* The master's own car: evse_tick_10ms
MasterB ==
    /\ BalancedState[Master] = "A" /\ ~Less6A /\ calm' = 0
    /\ IF IsCurrentAvailable
       THEN /\ BalancedState' = [BalancedState EXCEPT ![Master] = "B"]
            /\ Balanced' = [Balanced EXCEPT ![Master] = MinCurrent]
            /\ UNCHANGED Less6A
       ELSE /\ Less6A' = TRUE /\ UNCHANGED <<BalancedState, Balanced>>
    /\ UNCHANGED <<BalancedPrev, ScheduleState, IdleTimer, NoCurrent, Fresh, offering>>
    /\ UnchangedSchedule

\* The currents are calculated before the state is C, so for the others alone
MasterC ==
    /\ BalancedState[Master] = "B" /\ ~Less6A /\ calm' = 0
    /\ IF IsCurrentAvailable
       THEN /\ Calc(TRUE, BalancedState, [Balanced EXCEPT ![Master] = MinCurrent],
                    FALSE, FALSE)
            /\ BalancedState' = [BalancedState EXCEPT ![Master] = "C"]
            /\ offering' = offering \cup {Master}
       ELSE /\ Less6A' = TRUE
            /\ UNCHANGED <<BalancedState, Balanced, BalancedPrev, ScheduleState,
                           IdleTimer, NoCurrent, Fresh, offering>>
    /\ UnchangedSchedule

MasterLeave ==
    /\ BalancedState[Master] # "A" /\ calm' = 0
    /\ BalancedState' = [BalancedState EXCEPT ![Master] = "A"]
    /\ offering' = offering \ {Master}
    /\ UNCHANGED Balanced /\ Unregulated /\ UnchangedSchedule

\* A measurement of the mains, and what may be drawn now
Measure ==
    /\ Fresh' = TRUE
    /\ \E r \in Rooms : /\ room' = r
                        /\ calm' = IF r = room THEN calm ELSE 0
                        /\ r # room \/ ~Fresh
    /\ UNCHANGED <<BalancedState, Balanced, BalancedPrev, ScheduleState, IdleTimer,
                   NoCurrent, Less6A, ConnectedTime, RotationTimer, PrioStrategy, offering>>

\* The end of the cycle: the currents are calculated and broadcast.  A node that
\* is told 0 stops charging; the master sets its own duty cycle
Regulate ==
    /\ \E hard, overload \in BOOLEAN :
          /\ overload => hard
          /\ Calc(FALSE, BalancedState, Balanced, hard, overload)
    /\ offering' = Offering(Balanced')
    /\ calm' = IF Fresh THEN Min({calm + 1, Settling}) ELSE calm
    /\ UNCHANGED BalancedState /\ UnchangedSchedule

----------------------------------------------------------------------------
(* evse_schedule_tick_1s                                                   *)

\* Ranks of the times of connection; who charges for the first time comes last
Connected(state) ==
    LET old == {ConnectedTime[n] : n \in {m \in ChargingIn(state) : ConnectedTime[m] # 0}}
    IN  [n \in Evses |->
            IF state[n] # "C" THEN 0
            ELSE IF ConnectedTime[n] = 0 THEN Cardinality(old) + 1
                 ELSE Cardinality({t \in old : t <= ConnectedTime[n]})]

First(seq, Test(_)) == seq[Min({i \in DOMAIN seq : Test(seq[i])})]

\* The next that is paused, in order of priority, after n if there is one there
\* (afterwards) or from the start
Successor(n, order, sched, afterwards) ==
    LET at == Min({i \in DOMAIN order : order[i] = n})
        Waits(m) == m # n /\ sched[m] = "PAUSED"
        later == {i \in DOMAIN order : i > at /\ Waits(order[i])}
    IN  CASE afterwards /\ later # {} -> order[Min(later)]
          [] OTHER -> First(order, Waits)

\* n is paused and next marked active; its current comes with the regulation
Rotate(n, next, sched, idle) ==
    /\ ScheduleState' = [[sched EXCEPT ![n] = "PAUSED"] EXCEPT ![next] = "ACTIVE"]
    /\ IdleTimer' = [idle EXCEPT ![next] = 0]
    /\ Balanced' = [Balanced EXCEPT ![n] = 0]
    /\ RotationTimer' = RotationInterval

\* draws: the EV meter, one for all, measures 1 A or more
Schedule(state, draws) ==
    LET connected == Connected(state)
        sched == [n \in Evses |-> IF state[n] = "C" THEN ScheduleState[n] ELSE "INACTIVE"]
        active == {n \in Evses : sched[n] = "ACTIVE"}
        idle == [n \in Evses |-> IF n \in active THEN Min({IdleTimer[n] + 1, IdleTimeout})
                                                 ELSE IdleTimer[n]]
        due == {n \in active : idle[n] >= IdleTimeout}
        unused == {n \in due : ~(Balanced[n] > 0 /\ draws)}
        \* an EVSE in use that is looked at before an unused one starts the timer
        used == {n \in due \ unused : unused = {} \/ n < Min(unused)}
        timer == IF RotationTimer = 0 /\ used # {} THEN RotationInterval
                                                   ELSE RotationTimer
        order == Order(state, connected)
    IN  /\ ConnectedTime' = connected
        /\ CASE active = {} \/ ~\E n \in Evses : sched[n] = "PAUSED" ->
                    /\ ScheduleState' = sched
                    /\ UNCHANGED <<Balanced, IdleTimer, RotationTimer>>
             [] OTHER ->
                    CASE unused # {} ->
                            LET n == Min(unused)
                            IN  Rotate(n, Successor(n, order, sched, FALSE), sched, idle)
                      [] unused = {} /\ timer = 1 ->
                            LET n == Min(active)
                            IN  Rotate(n, Successor(n, order, sched, TRUE), sched, idle)
                      [] OTHER ->
                            /\ RotationTimer' = Max({timer - 1, 0})
                            /\ ScheduleState' = sched /\ IdleTimer' = idle
                            /\ UNCHANGED Balanced

\* evse_tick_1s of the master: LESS_6A is cleared when there is current, stops
\* the master's car otherwise; then the scheduler
Tick ==
    /\ Less6A' = (Less6A /\ ~IsCurrentAvailable)
    /\ BalancedState' = [BalancedState EXCEPT ![Master] = IF Less6A' THEN "A" ELSE @]
    /\ offering' = IF Less6A' THEN offering \ {Master} ELSE offering
    /\ \E draws \in BOOLEAN : Schedule(BalancedState', draws)
    /\ calm' = IF UNCHANGED <<BalancedState, Balanced, ScheduleState, ConnectedTime>>
               THEN calm ELSE 0
    /\ UNCHANGED <<BalancedPrev, NoCurrent, Fresh, PrioStrategy, room>>

----------------------------------------------------------------------------

Init ==
    /\ BalancedState = [n \in Evses |-> "A"]
    /\ Balanced = [n \in Evses |-> 0] /\ BalancedPrev = [n \in Evses |-> 0]
    /\ ScheduleState = [n \in Evses |-> "INACTIVE"]
    /\ ConnectedTime = [n \in Evses |-> 0] /\ IdleTimer = [n \in Evses |-> 0]
    /\ RotationTimer = 0 /\ NoCurrent = 0 /\ Less6A = FALSE /\ Fresh = TRUE
    /\ PrioStrategy \in Strategies /\ room \in Rooms
    /\ offering = {} /\ calm = 0

Next ==
    \/ \E n \in Evses : Leave(n)
    \/ \E n \in Evses : Offline(n)
    \/ \E n \in Evses : AskB(n)
    \/ \E n \in Evses : AskC(n)
    \/ MasterB \/ MasterC \/ MasterLeave
    \/ Measure \/ Regulate \/ Tick

Spec == Init /\ [][Next]_vars

----------------------------------------------------------------------------
(* Properties                                                              *)

TypeOK ==
    /\ BalancedState \in [Evses -> {"A", "B", "C"}]
    /\ Balanced \in [Evses -> Nat] /\ BalancedPrev \in [Evses -> Nat]
    /\ \A n \in Evses : Balanced[n] <= BalancedMax[n]
    /\ ScheduleState \in [Evses -> {"INACTIVE", "ACTIVE", "PAUSED"}]
    /\ ConnectedTime \in [Evses -> 0 .. N]
    /\ IdleTimer \in [Evses -> 0 .. IdleTimeout]
    /\ RotationTimer \in 0 .. RotationInterval
    /\ NoCurrent \in 0 .. NoCurrentThreshold
    /\ Less6A \in BOOLEAN /\ Fresh \in BOOLEAN
    /\ PrioStrategy \in Strategies /\ room \in Rooms
    /\ offering \subseteq Evses /\ calm \in 0 .. Settling

\* Nothing but the regulation has happened for so many cycles that smoothing is
\* over, and no EVSE that stopped charging is still marked active
Settled == /\ calm = Settling /\ Charging # {}
           /\ \A n \in Evses \ Charging : ScheduleState[n] # "ACTIVE"

Short == room < Cardinality(Charging) * MinCurrent
Served == {n \in Charging : ScheduleState[n] = "ACTIVE"}

\* Smoothing may leave the sum of the currents above what is available, for a
\* while: it ends, and all of the room is divided, as far as the EVSEs that are
\* served can take it (evse_handout_surplus and the division in two passes)
RoomIsShared ==
    Settled /\ (Cardinality(Charging) > 1 \/ ~Short)
        => Total(Balanced, Charging) = Min({room, Total(BalancedMax, Served)})

\* Of two EVSEs that are served one has more only by the rest of the division, or
\* where the other has its maximum
SharesAreEven ==
    Settled => \A m, n \in Served :
                  Balanced[m] > Balanced[n] + 1 => Balanced[n] = BalancedMax[n]

\* In a shortage nobody is paused in favour of one whom he goes before, nor while
\* there is a minimum left, and nobody who is served gets less than the minimum
PauseIsInOrder ==
    Settled =>
        /\ \A n \in Served : Balanced[n] >= MinCurrent
        /\ \A m \in Charging \ Served, n \in Served :
              ~Before(m, n, Charging, ConnectedTime, PrioStrategy)
        /\ Short /\ Cardinality(Charging) > 1 => Cardinality(Served) = room \div MinCurrent

\* A paused EVSE does not offer its car a current
PausedOffersNothing ==
    Settled => \A n \in offering : ScheduleState[n] # "PAUSED"
=============================================================================
