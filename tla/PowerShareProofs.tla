-------------------------- MODULE PowerShareProofs --------------------------
(***************************************************************************)
(* Theorems about PowerShare for every number of EVSEs, all maxima and all *)
(* settings: the currents keep to the maxima, and once the master's cycles *)
(* are undisturbed for long enough all of the room is shared, evenly and   *)
(* in order of priority.                                                   *)
(***************************************************************************)
EXTENDS PowerShare, DistributionProofs

\* What smoothing starts from keeps to the maxima as well
IInv == TypeOK /\ \A n \in Evses : BalancedPrev[n] <= BalancedMax[n]

Currents == {b \in [Evses -> Nat] : \A n \in Evses : b[n] <= BalancedMax[n]}
States == [Evses -> {"A", "B", "C"}]
Schedulings == [Evses -> {"INACTIVE", "ACTIVE", "PAUSED"}]

LEMMA Assumed ==
    /\ N \in Nat \ {0} /\ MinCurrent \in Nat \ {0} /\ MaxDelta \in Nat \ {0}
    /\ BalancedMax \in [Evses -> Nat] /\ \A n \in Evses : MinCurrent <= BalancedMax[n]
    /\ Rooms \subseteq Nat /\ IdleTimeout \in Nat /\ RotationInterval \in Nat
    /\ NoCurrentThreshold \in Nat \ {0} /\ Settling \in Nat \ {0}
    /\ Master \in Evses /\ Evses = 1 .. N
<1>1. \A n \in Evses : BalancedMax[n] \in Nat /\ BalancedMax[n] >= MinCurrent
  BY DistributionAssumption
<1> QED
  BY <1>1, DistributionAssumption, ShareAssumption DEF Master, Evses

LEMMA MinIsBetween ==
    ASSUME NEW a \in Nat, NEW b \in Nat
    PROVE  Min({a, b}) \in 0 .. b /\ Min({a, b}) \in 0 .. a
BY MinOfTwo

LEMMA ClampIs ==
    ASSUME NEW b \in Nat, NEW p \in Nat, NEW d \in Nat
    PROVE  Max({Min({b, p + d}), p - d, 0}) =
               IF b > p + d THEN p + d ELSE IF b < p - d THEN p - d ELSE b
<1> DEFINE a == Min({b, p + d})
           v == IF b > p + d THEN p + d ELSE IF b < p - d THEN p - d ELSE b
           T == {a, p - d, 0}
<1>1. a = IF b <= p + d THEN b ELSE p + d
  BY MinOfTwo
<1> HIDE DEF a
<1>2. v \in T /\ \A y \in T : y <= v
  BY <1>1
<1>3. \A y \in T : y \in Int
  BY <1>1
<1> HIDE DEF v, T
<1>4. v \in T /\ v \in Int
  BY <1>2, <1>3
<1>5. Max(T) \in T /\ \A y \in T : y <= Max(T)
  BY <1>2 DEF Max
<1>6. Max(T) = v
  BY <1>2, <1>3, <1>5
<1> QED
  BY <1>6 DEF v, T, a

(* Smoothing goes towards the new current, by MaxDelta at most *)
LEMMA ClampedIs ==
    ASSUME NEW b \in [Evses -> Nat], NEW p \in [Evses -> Nat], NEW charging
    PROVE  Clamped(b, p, charging) =
               [n \in Evses |->
                   IF n \in charging /\ p[n] # 0
                   THEN IF b[n] > p[n] + MaxDelta THEN p[n] + MaxDelta
                        ELSE IF b[n] < p[n] - MaxDelta THEN p[n] - MaxDelta ELSE b[n]
                   ELSE b[n]]
<1>1. \A n \in Evses : Max({Min({b[n], p[n] + MaxDelta}), p[n] - MaxDelta, 0}) =
          IF b[n] > p[n] + MaxDelta THEN p[n] + MaxDelta
          ELSE IF b[n] < p[n] - MaxDelta THEN p[n] - MaxDelta ELSE b[n]
  BY ClampIs, Assumed
<1> QED
  BY <1>1 DEF Clamped

LEMMA ClampedType ==
    ASSUME NEW b \in Currents, NEW p \in Currents, NEW charging
    PROVE  Clamped(b, p, charging) \in Currents
<1> DEFINE c == Clamped(b, p, charging)
<1>1. b \in [Evses -> Nat] /\ p \in [Evses -> Nat]
  BY DEF Currents
<1>2. c = [n \in Evses |-> c[n]] /\ \A n \in Evses : c[n] =
          IF n \in charging /\ p[n] # 0
          THEN IF b[n] > p[n] + MaxDelta THEN p[n] + MaxDelta
               ELSE IF b[n] < p[n] - MaxDelta THEN p[n] - MaxDelta ELSE b[n]
          ELSE b[n]
  BY <1>1, ClampedIs
<1> HIDE DEF c
<1>3. \A n \in Evses : c[n] \in Nat /\ c[n] <= BalancedMax[n]
  <2> SUFFICES ASSUME NEW n \in Evses PROVE c[n] \in Nat /\ c[n] <= BalancedMax[n]
    OBVIOUS
  <2>1. /\ b[n] \in Nat /\ p[n] \in Nat /\ BalancedMax[n] \in Nat /\ MaxDelta \in Nat
        /\ b[n] <= BalancedMax[n] /\ p[n] <= BalancedMax[n]
    BY Assumed DEF Currents
  <2> QED
    BY <1>2, <2>1
<1> QED
  BY <1>2, <1>3 DEF Currents, c

----------------------------------------------------------------------------
(* Types                                                                   *)

(* What the scheduler and the division start from *)
Known == /\ ConnectedTime \in [Evses -> Nat] /\ ScheduleState \in Schedulings
         /\ IdleTimer \in [Evses -> 0 .. IdleTimeout] /\ NoCurrent \in Nat
         /\ room \in Nat

Results == [balanced : Currents, sched : Schedulings,
            idle : [Evses -> 0 .. IdleTimeout], noCurrent : Nat]

LEMMA SharedType ==
    ASSUME Known, NEW state \in States, NEW balanced \in Currents
    PROVE  Shared(state, balanced) \in Results
<1> DEFINE charging == ChargingIn(state)
           order == Order(state, ConnectedTime)
           s == Scheduled(order, charging, room)
           sched == [n \in Evses |-> CASE n \in s.active -> "ACTIVE"
                                       [] n \in charging \ s.active -> "PAUSED"
                                       [] OTHER -> ScheduleState[n]]
           minima == [n \in Evses |-> CASE n \in s.active -> MinCurrent
                                        [] n \in charging \ s.active -> 0
                                        [] OTHER -> balanced[n]]
           active == {n \in Evses : sched[n] = "ACTIVE"}
           bal == Handout(minima, active, s.left)
           count == IF active = {} THEN NoCurrent + 1 ELSE NoCurrent
<1>1. charging \in SUBSET Evses /\ IsOrder(order)
  BY SortIsOrder DEF Known, ChargingIn, Order
<1>2. Shared(state, balanced) = [balanced |-> bal, sched |-> sched, idle |-> IdleTimer,
                                 noCurrent |-> count]
  BY DEF Shared
<1> HIDE DEF charging, order
<1>3. s.active \subseteq charging /\ s.left \in Nat
  BY <1>1, MinimumInOrder DEF Known
<1> HIDE DEF s
<1>4. sched \in Schedulings
  BY DEF Known, Schedulings
<1>5. minima \in [Evses -> Nat] /\ \A n \in Evses : minima[n] <= BalancedMax[n]
  BY Assumed DEF Currents
<1>6. active \in SUBSET Evses /\ count \in Nat
  BY DEF Known
<1> HIDE DEF sched, minima, active, count
<1>7. /\ bal \in [Evses -> Nat] /\ \A n \in Evses \ active : bal[n] = minima[n]
      /\ \A n \in active : bal[n] <= BalancedMax[n]
  BY <1>3, <1>5, <1>6, SurplusIsShared
<1> HIDE DEF bal
<1>8. bal \in Currents
  BY <1>5, <1>6, <1>7 DEF Currents
<1> QED
  BY <1>2, <1>4, <1>6, <1>8 DEF Known, Results

(* EVSEs that charge can take the minimum each *)
LEMMA MinimumFits ==
    ASSUME NEW S \in SUBSET Evses
    PROVE  /\ Total(BalancedMax, S) \in Nat
           /\ MinCurrent * Cardinality(S) <= Total(BalancedMax, S)
<1> DEFINE c == [n \in Evses |-> MinCurrent]
<1>1. c \in [Evses -> Nat] /\ \A n \in S : c[n] = MinCurrent
  BY Assumed
<1>2. \A n \in Evses \cap S : c[n] <= BalancedMax[n]
  BY Assumed
<1> HIDE DEF c
<1>3. Total(c, S) = MinCurrent * Cardinality(S)
  BY <1>1, TotalOfEqual, Assumed
<1>4. Total(BalancedMax, S) \in Nat /\ Total(c, S) <= Total(BalancedMax, S)
  BY <1>1, <1>2, TotalGrows, Assumed
<1> QED
  BY <1>3, <1>4

LEMMA DividedType ==
    ASSUME NEW balanced \in Currents, NEW S \in SUBSET Evses, NEW amount \in Nat,
           amount <= Total(BalancedMax, S)
    PROVE  Divided(balanced, S, amount) \in Currents
<1> DEFINE d == Divided(balanced, S, amount)
<1>1. balanced \in [Evses -> Nat] /\ \A n \in Evses : balanced[n] <= BalancedMax[n]
  BY DEF Currents
<1>2. IsFairDivision(d, S, amount) /\ \A n \in Evses \ S : d[n] = balanced[n]
  BY <1>1, DivisionIsFair
<1> HIDE DEF d
<1>3. d \in [Evses -> Nat] /\ \A n \in S : d[n] <= BalancedMax[n]
  BY <1>2 DEF IsFairDivision
<1>4. \A n \in Evses : d[n] <= BalancedMax[n]
  BY <1>1, <1>2, <1>3
<1>5. d \in Currents
  BY <1>3, <1>4 DEF Currents
<1> QED
  BY <1>5 DEF d

LEMMA AloneType ==
    ASSUME Known, NEW state \in States, NEW balanced \in Currents, NEW hard,
           Cardinality(ChargingIn(state)) = 1
    PROVE  Alone(state, balanced, hard) \in Results
<1> DEFINE S == ChargingIn(state)
           bal == Divided(balanced, S, MinCurrent)
<1>1. S \in SUBSET Evses
  BY DEF ChargingIn
<1>2. MinCurrent \in Nat /\ MinCurrent <= Total(BalancedMax, S)
  <2>1. Cardinality(S) = 1
    OBVIOUS
  <2> HIDE DEF S
  <2> QED
    BY <1>1, <2>1, MinimumFits, Assumed
<1>3. Alone(state, balanced, hard) =
          [balanced |-> bal, sched |-> ScheduleState, idle |-> IdleTimer,
           noCurrent |-> IF hard THEN NoCurrent + 1 ELSE NoCurrent]
  BY DEF Alone
<1> HIDE DEF S
<1>4. bal \in Currents
  BY <1>1, <1>2, DividedType
<1> HIDE DEF bal
<1> QED
  BY <1>3, <1>4 DEF Known, Results

(* What is divided without a shortage is what they can take, if that is less *)
LEMMA PlentyAmount ==
    ASSUME NEW r \in Nat, NEW S \in SUBSET Evses
    PROVE  LET amount == Min({r, Total(BalancedMax, S)})
           IN  amount \in Nat /\ amount <= Total(BalancedMax, S)
<1> DEFINE t == Total(BalancedMax, S)
<1>1. t \in Nat
  BY MinimumFits
<1> HIDE DEF t
<1>2. Min({r, t}) \in 0 .. t
  BY <1>1, MinIsBetween
<1>3. Min({r, t}) \in Nat /\ Min({r, t}) <= t
  BY <1>1, <1>2
<1> QED
  BY <1>3 DEF t

LEMMA PlentyType ==
    ASSUME Known, NEW state \in States, NEW balanced \in Currents
    PROVE  Plenty(state, balanced) \in Results
<1> DEFINE S == ChargingIn(state)
           amount == Min({room, Total(BalancedMax, S)})
           bal == Divided(balanced, S, amount)
           sched == [n \in Evses |-> IF n \in S THEN "ACTIVE" ELSE ScheduleState[n]]
           idle == [n \in Evses |-> IF n \in S THEN 0 ELSE IdleTimer[n]]
           count == Max({NoCurrent - 1, 0})
<1>1. S \in SUBSET Evses
  BY DEF ChargingIn
<1>2. Plenty(state, balanced) = [balanced |-> bal, sched |-> sched, idle |-> idle,
                                 noCurrent |-> count]
  BY DEF Plenty
<1> HIDE DEF S
<1>3. amount \in Nat /\ amount <= Total(BalancedMax, S)
  BY <1>1, PlentyAmount DEF Known
<1> HIDE DEF amount
<1>4. bal \in Currents
  BY <1>1, <1>3, DividedType
<1>5. sched \in Schedulings
  BY DEF Known, Schedulings
<1>6. idle \in [Evses -> 0 .. IdleTimeout]
  BY Assumed DEF Known
<1>7. count \in Nat
  BY MaxOfTwo DEF Known
<1> HIDE DEF bal, sched, idle, count
<1> QED
  BY <1>2, <1>4, <1>5, <1>6, <1>7 DEF Results

LEMMA DivisionType ==
    ASSUME Known, NEW state \in States, NEW balanced \in Currents, NEW hard
    PROVE  Division(state, balanced, hard) \in Results
<1> DEFINE count == Cardinality(ChargingIn(state))
           short == room < count * MinCurrent
           r == Division(state, balanced, hard)
<1>1. CASE short /\ count > 1
  <2>1. r = Shared(state, balanced)
    BY <1>1 DEF Division
  <2> QED
    BY <2>1, SharedType
<1>2. CASE short /\ count = 1
  <2>1. r = Alone(state, balanced, hard)
    BY <1>2 DEF Division
  <2> QED
    BY <1>2, <2>1, AloneType
<1>3. CASE ~(short /\ count > 1) /\ ~(short /\ count = 1)
  <2>1. r = Plenty(state, balanced)
    BY <1>3 DEF Division
  <2> QED
    BY <2>1, PlentyType
<1> QED
  BY <1>1, <1>2, <1>3

(* The currents and the counters after a division, and without one *)
LEMMA CalcType ==
    ASSUME IInv, NEW joins, NEW state \in States, NEW balanced \in Currents, NEW hard,
           NEW overload \in BOOLEAN, Calc(joins, state, balanced, hard, overload)
    PROVE  /\ Balanced' \in Currents /\ BalancedPrev' \in Currents
           /\ ScheduleState' \in Schedulings
           /\ IdleTimer' \in [Evses -> 0 .. IdleTimeout]
           /\ NoCurrent' \in 0 .. NoCurrentThreshold
           /\ Less6A' \in BOOLEAN /\ Fresh' \in BOOLEAN
<1> DEFINE S == ChargingIn(state)
           r == Division(state, balanced, hard)
           divided == IF joins THEN r.balanced ELSE Clamped(r.balanced, BalancedPrev, S)
           short == room < Cardinality(S) * MinCurrent
<1>1. Known
  <2>1. /\ ConnectedTime \in [Evses -> 0 .. N] /\ 0 .. N \in SUBSET Nat
        /\ NoCurrent \in 0 .. NoCurrentThreshold /\ room \in Rooms /\ Rooms \subseteq Nat
    BY Assumed DEF IInv, TypeOK
  <2>2. ConnectedTime \in [Evses -> Nat]
    BY <2>1
  <2>3. NoCurrent \in Nat /\ room \in Nat
    BY <2>1, Assumed
  <2> QED
    BY <2>2, <2>3 DEF IInv, TypeOK, Known, Schedulings
<1>2. r \in Results
  BY <1>1, DivisionType
<1>3. /\ r.balanced \in Currents /\ r.sched \in Schedulings
      /\ r.idle \in [Evses -> 0 .. IdleTimeout] /\ r.noCurrent \in Nat
  BY <1>2 DEF Results
<1>4. BalancedPrev \in Currents
  BY DEF IInv, TypeOK, Currents
<1>5. divided \in Currents
  BY <1>3, <1>4, ClampedType
<1>6. Min({r.noCurrent, NoCurrentThreshold}) \in 0 .. NoCurrentThreshold
  BY <1>3, MinIsBetween, Assumed
<1>7. /\ ScheduleState \in Schedulings /\ IdleTimer \in [Evses -> 0 .. IdleTimeout]
      /\ NoCurrent \in 0 .. NoCurrentThreshold /\ NoCurrentThreshold \in Nat
      /\ Less6A \in BOOLEAN
  BY Assumed DEF IInv, TypeOK, Schedulings
<1>8. /\ Fresh' = FALSE
      /\ IF S # {} /\ Fresh
         THEN /\ Balanced' = divided /\ BalancedPrev' = divided
              /\ ScheduleState' = r.sched /\ IdleTimer' = r.idle
              /\ NoCurrent' = IF overload THEN 0 ELSE Min({r.noCurrent, NoCurrentThreshold})
              /\ Less6A' = \/ Less6A \/ overload
                           \/ short /\ r.noCurrent >= NoCurrentThreshold
         ELSE /\ Balanced' = balanced
              /\ NoCurrent' = IF S = {} \/ overload THEN 0 ELSE NoCurrent
              /\ Less6A' = (Less6A \/ overload)
              /\ UNCHANGED <<BalancedPrev, ScheduleState, IdleTimer>>
  BY Zenon DEF Calc
<1> HIDE DEF divided, r, S, short
<1>9. CASE S # {} /\ Fresh
  <2>1. /\ Balanced' \in Currents /\ BalancedPrev' \in Currents
        /\ ScheduleState' \in Schedulings
        /\ IdleTimer' \in [Evses -> 0 .. IdleTimeout]
    BY <1>3, <1>5, <1>8, <1>9
  <2>2. NoCurrent' \in 0 .. NoCurrentThreshold
    <3>1. NoCurrent' = IF overload THEN 0 ELSE Min({r.noCurrent, NoCurrentThreshold})
      BY <1>8, <1>9
    <3>2. 0 \in 0 .. NoCurrentThreshold
      BY <1>7
    <3> QED
      BY <1>6, <3>1, <3>2
  <2>3. Less6A' \in BOOLEAN /\ Fresh' \in BOOLEAN
    BY <1>7, <1>8, <1>9
  <2> QED
    BY <2>1, <2>2, <2>3
<1>10. CASE ~(S # {} /\ Fresh)
  <2>1. /\ Balanced' \in Currents /\ BalancedPrev' \in Currents
        /\ ScheduleState' \in Schedulings
        /\ IdleTimer' \in [Evses -> 0 .. IdleTimeout]
    BY <1>4, <1>7, <1>8, <1>10
  <2>2. NoCurrent' \in 0 .. NoCurrentThreshold
    <3>1. NoCurrent' = IF S = {} \/ overload THEN 0 ELSE NoCurrent
      BY <1>8, <1>10
    <3>2. 0 \in 0 .. NoCurrentThreshold
      BY <1>7
    <3> QED
      BY <1>7, <3>1, <3>2
  <2>3. Less6A' \in BOOLEAN /\ Fresh' \in BOOLEAN
    BY <1>7, <1>8, <1>10
  <2> QED
    BY <2>1, <2>2, <2>3
<1> QED
  BY <1>9, <1>10

(* The times of connection have ranks up to N: whoever charges for the first time *)
(* is not among those with a rank                                                *)
LEMMA ConnectedType ==
    ASSUME ConnectedTime \in [Evses -> 0 .. N], NEW state \in States
    PROVE  Connected(state) \in [Evses -> 0 .. N]
<1> DEFINE M == {m \in ChargingIn(state) : ConnectedTime[m] # 0}
           old == {ConnectedTime[m] : m \in M}
           f == [m \in M |-> ConnectedTime[m]]
           rank(n) == IF state[n] # "C" THEN 0
                      ELSE IF ConnectedTime[n] = 0 THEN Cardinality(old) + 1
                           ELSE Cardinality({t \in old : t <= ConnectedTime[n]})
<1>1. N \in Nat /\ N > 0
  BY Assumed
<1>2. M \in SUBSET Evses /\ \A m \in M : ConnectedTime[m] # 0
  BY DEF ChargingIn
<1>3. Connected(state) = [n \in Evses |-> rank(n)]
  BY DEF Connected
<1> HIDE DEF M
<1>4. IsFiniteSet(M) /\ Cardinality(M) \in 0 .. N
  BY <1>2, Counted
<1>5. f \in Surjection(M, old)
  BY DEF Surjection
<1>6. IsFiniteSet(old) /\ Cardinality(old) <= Cardinality(M)
  <2> HIDE DEF f, old
  <2> QED
    BY <1>4, <1>5, FS_Surjection
<1>7. Cardinality(old) \in Nat
  BY <1>6, FS_CardinalityType
<1>8. ASSUME NEW n \in Evses PROVE rank(n) \in 0 .. N
  <2>1. CASE state[n] # "C"
    BY <1>1, <2>1
  <2>2. CASE state[n] = "C" /\ ConnectedTime[n] = 0
    <3>1. n \notin M
      BY <1>2, <2>2
    <3>2. M \cup {n} \in SUBSET Evses
      BY <1>2
    <3>3. Cardinality(M \cup {n}) = Cardinality(M) + 1
      BY <1>4, <3>1, FS_AddElement
    <3>4. Cardinality(M \cup {n}) \in 0 .. N
      BY <3>2, Counted
    <3>5. rank(n) = Cardinality(old) + 1
      BY <2>2
    <3> HIDE DEF rank, old
    <3> QED
      BY <1>1, <1>4, <1>6, <1>7, <3>3, <3>4, <3>5
  <2>3. CASE state[n] = "C" /\ ConnectedTime[n] # 0
    <3> DEFINE T == {t \in old : t <= ConnectedTime[n]}
    <3>1. rank(n) = Cardinality(T)
      BY <2>3
    <3>2. T \in SUBSET old
      OBVIOUS
    <3> HIDE DEF rank, old, T
    <3>3. IsFiniteSet(T) /\ Cardinality(T) <= Cardinality(old)
      BY <1>6, <3>2, FS_Subset
    <3>4. Cardinality(T) \in Nat
      BY <3>3, FS_CardinalityType
    <3> QED
      BY <1>1, <1>4, <1>6, <1>7, <3>1, <3>3, <3>4
  <2> QED
    BY <2>1, <2>2, <2>3
<1> HIDE DEF rank
<1> QED
  BY <1>3, <1>8

Idling == [Evses -> 0 .. IdleTimeout]

LEMMA RotateType ==
    ASSUME Balanced \in Currents, NEW sched \in Schedulings, NEW idle \in Idling,
           NEW n, NEW next, Rotate(n, next, sched, idle)
    PROVE  /\ ScheduleState' \in Schedulings /\ IdleTimer' \in Idling
           /\ Balanced' \in Currents /\ RotationTimer' \in 0 .. RotationInterval
<1>1. ScheduleState' \in Schedulings
  BY DEF Rotate, Schedulings
<1>2. IdleTimer' \in Idling
  <2>1. 0 \in 0 .. IdleTimeout
    BY Assumed
  <2>2. idle \in [Evses -> 0 .. IdleTimeout] /\ IdleTimer' = [idle EXCEPT ![next] = 0]
    BY DEF Rotate, Idling
  <2> QED
    BY <2>1, <2>2 DEF Idling
<1>3. Balanced' \in Currents
  <2>1. Balanced \in [Evses -> Nat] /\ \A m \in Evses : Balanced[m] <= BalancedMax[m]
    BY DEF Currents
  <2>2. Balanced' = [Balanced EXCEPT ![n] = 0]
    BY DEF Rotate
  <2>3. Balanced' \in [Evses -> Nat]
    BY <2>1, <2>2
  <2>4. \A m \in Evses : Balanced'[m] <= BalancedMax[m]
    BY <2>1, <2>2, Assumed
  <2> QED
    BY <2>3, <2>4 DEF Currents
<1>4. RotationTimer' \in 0 .. RotationInterval
  BY Assumed DEF Rotate
<1> QED
  BY <1>1, <1>2, <1>3, <1>4

LEMMA ScheduleType ==
    ASSUME IInv, NEW state \in States, NEW draws, Schedule(state, draws)
    PROVE  /\ ConnectedTime' \in [Evses -> 0 .. N]
           /\ ScheduleState' \in Schedulings /\ IdleTimer' \in Idling
           /\ Balanced' \in Currents /\ RotationTimer' \in 0 .. RotationInterval
<1> DEFINE connected == Connected(state)
           sched == [n \in Evses |-> IF state[n] = "C" THEN ScheduleState[n] ELSE "INACTIVE"]
           active == {n \in Evses : sched[n] = "ACTIVE"}
           idle == [n \in Evses |-> IF n \in active THEN Min({IdleTimer[n] + 1, IdleTimeout})
                                                    ELSE IdleTimer[n]]
           due == {n \in active : idle[n] >= IdleTimeout}
           unused == {n \in due : ~(Balanced[n] > 0 /\ draws)}
           used == {n \in due \ unused : unused = {} \/ n < Min(unused)}
           timer == IF RotationTimer = 0 /\ used # {} THEN RotationInterval
                                                      ELSE RotationTimer
           order == Order(state, connected)
           waits == \E n \in Evses : sched[n] = "PAUSED"
           first == Successor(Min(unused), order, sched, FALSE)
           second == Successor(Min(active), order, sched, TRUE)
<1>1. /\ Balanced \in Currents /\ IdleTimer \in Idling /\ ScheduleState \in Schedulings
      /\ RotationTimer \in 0 .. RotationInterval /\ RotationInterval \in Nat
      /\ ConnectedTime \in [Evses -> 0 .. N]
  BY Assumed DEF IInv, TypeOK, Currents, Idling, Schedulings
<1>2. connected \in [Evses -> 0 .. N]
  BY <1>1, ConnectedType
<1>3. sched \in Schedulings
  BY <1>1 DEF Schedulings
<1>4. idle \in Idling
  <2>1. \A n \in Evses : IdleTimer[n] \in 0 .. IdleTimeout
    BY <1>1 DEF Idling
  <2>2. \A n \in Evses : Min({IdleTimer[n] + 1, IdleTimeout}) \in 0 .. IdleTimeout
    BY <2>1, MinIsBetween, Assumed
  <2> HIDE DEF active
  <2> QED
    BY <2>1, <2>2 DEF Idling
<1>5. timer \in 0 .. RotationInterval
  BY <1>1
<1>6. Max({timer - 1, 0}) \in 0 .. RotationInterval
  <2> HIDE DEF timer
  <2> QED
    BY <1>1, <1>5, MaxOfTwo
<1>7. ConnectedTime' = connected
  BY DEF Schedule
<1>8. \/ /\ ScheduleState' = sched
         /\ UNCHANGED <<Balanced, IdleTimer, RotationTimer>>
      \/ Rotate(Min(unused), first, sched, idle)
      \/ Rotate(Min(active), second, sched, idle)
      \/ /\ RotationTimer' = Max({timer - 1, 0})
         /\ ScheduleState' = sched /\ IdleTimer' = idle
         /\ UNCHANGED Balanced
  BY Zenon DEF Schedule
<1> HIDE DEF connected, sched, active, idle, due, unused, used, timer, order, first, second
<1>9. CASE ScheduleState' = sched /\ UNCHANGED <<Balanced, IdleTimer, RotationTimer>>
  BY <1>1, <1>2, <1>3, <1>7, <1>9
<1>10. CASE Rotate(Min(unused), first, sched, idle)
  BY <1>1, <1>2, <1>3, <1>4, <1>7, <1>10, RotateType
<1>11. CASE Rotate(Min(active), second, sched, idle)
  BY <1>1, <1>2, <1>3, <1>4, <1>7, <1>11, RotateType
<1>12. CASE /\ RotationTimer' = Max({timer - 1, 0})
            /\ ScheduleState' = sched /\ IdleTimer' = idle
            /\ UNCHANGED Balanced
  BY <1>1, <1>2, <1>3, <1>4, <1>6, <1>7, <1>12
<1> QED
  BY <1>8, <1>9, <1>10, <1>11, <1>12

(* The start, and every step, keep the types and the maxima; the states are a part *)
(* of their own, as Calc takes the ones after the step                            *)
CurrentsOK == Balanced \in Currents /\ BalancedPrev \in Currents

ScheduleOK == /\ ScheduleState \in Schedulings /\ ConnectedTime \in [Evses -> 0 .. N]
              /\ IdleTimer \in Idling /\ RotationTimer \in 0 .. RotationInterval
              /\ PrioStrategy \in Strategies

CountersOK == /\ NoCurrent \in 0 .. NoCurrentThreshold /\ Less6A \in BOOLEAN
              /\ Fresh \in BOOLEAN /\ room \in Rooms /\ calm \in 0 .. Settling

PilotsOK == BalancedState \in States /\ offering \in SUBSET Evses

LEMMA InvParts ==
    IInv <=> CurrentsOK /\ ScheduleOK /\ CountersOK /\ PilotsOK
<1>1. TypeOK /\ (\A n \in Evses : BalancedPrev[n] <= BalancedMax[n])
         => CurrentsOK /\ ScheduleOK /\ CountersOK /\ PilotsOK
  BY DEF TypeOK, Currents, Schedulings, Idling, States,
         CurrentsOK, ScheduleOK, CountersOK, PilotsOK
<1>2. CurrentsOK /\ ScheduleOK /\ CountersOK /\ PilotsOK
         => TypeOK /\ \A n \in Evses : BalancedPrev[n] <= BalancedMax[n]
  BY DEF TypeOK, Currents, Schedulings, Idling, States,
         CurrentsOK, ScheduleOK, CountersOK, PilotsOK
<1> QED
  BY <1>1, <1>2 DEF IInv

LEMMA InvPartsNext ==
    IInv' <=> CurrentsOK' /\ ScheduleOK' /\ CountersOK' /\ PilotsOK'
BY InvParts, PTL

(* Admission sets one current: to the minimum or to nothing *)
LEMMA OneCurrent ==
    ASSUME NEW b \in Currents, NEW n \in Evses, NEW c \in {0, MinCurrent}
    PROVE  [b EXCEPT ![n] = c] \in Currents
<1> DEFINE d == [b EXCEPT ![n] = c]
<1>1. b \in [Evses -> Nat] /\ \A m \in Evses : b[m] <= BalancedMax[m]
  BY DEF Currents
<1>2. c \in Nat /\ \A m \in Evses : c <= BalancedMax[m] /\ BalancedMax[m] \in Nat
  BY Assumed
<1>3. d \in [Evses -> Nat]
  BY <1>1, <1>2
<1>4. \A m \in Evses : d[m] <= BalancedMax[m]
  BY <1>1, <1>2
<1> QED
  BY <1>3, <1>4 DEF Currents

LEMMA OneState ==
    ASSUME NEW states \in States, NEW n, NEW s \in {"A", "B", "C"}
    PROVE  [states EXCEPT ![n] = s] \in States
BY DEF States

LEMMA InitInv == Init => IInv
<1> SUFFICES ASSUME Init PROVE IInv
  OBVIOUS
<1>1. CurrentsOK
  <2>1. [n \in Evses |-> 0] \in Currents
    BY Assumed DEF Currents
  <2> QED
    BY <2>1 DEF Init, CurrentsOK
<1>2. ScheduleOK
  <2>1. 0 \in 0 .. N /\ 0 \in 0 .. IdleTimeout /\ 0 \in 0 .. RotationInterval
    BY Assumed
  <2> QED
    BY <2>1 DEF Init, ScheduleOK, Schedulings, Idling
<1>3. CountersOK
  <2>1. 0 \in 0 .. NoCurrentThreshold /\ 0 \in 0 .. Settling
    BY Assumed
  <2> QED
    BY <2>1 DEF Init, CountersOK
<1>4. PilotsOK
  BY DEF Init, PilotsOK, States
<1> QED
  BY <1>1, <1>2, <1>3, <1>4, InvParts

LEMMA NextInv == IInv /\ [Next]_vars => IInv'
<1> SUFFICES ASSUME IInv, [Next]_vars PROVE IInv'
  OBVIOUS
<1> USE DEF Unregulated, UnchangedSchedule
<1>0. /\ CurrentsOK /\ ScheduleOK /\ CountersOK /\ PilotsOK
      /\ Balanced \in Currents /\ BalancedState \in States /\ Master \in Evses
      /\ 0 \in 0 .. Settling
  BY InvParts, Assumed DEF CurrentsOK, PilotsOK
<1>1. ASSUME NEW n \in Evses, Leave(n) PROVE IInv'
  <2>1. CurrentsOK' /\ ScheduleOK'
    BY <1>0, <1>1 DEF Leave, CurrentsOK, ScheduleOK
  <2>2. CountersOK'
    BY <1>0, <1>1 DEF Leave, CountersOK
  <2>3. PilotsOK'
    <3>1. PICK s \in {"A", "B"} : /\ BalancedState' = [BalancedState EXCEPT ![n] = s]
                                  /\ offering' = offering \ {n}
      BY <1>1 DEF Leave
    <3>2. BalancedState' \in States
      BY <1>0, <3>1, OneState
    <3> QED
      BY <1>0, <3>1, <3>2 DEF PilotsOK
  <2> QED
    BY <2>1, <2>2, <2>3, InvPartsNext
<1>2. ASSUME NEW n \in Evses, Offline(n) PROVE IInv'
  <2>1. CurrentsOK' /\ ScheduleOK'
    BY <1>0, <1>2, OneCurrent DEF Offline, CurrentsOK, ScheduleOK
  <2>2. CountersOK'
    BY <1>0, <1>2 DEF Offline, CountersOK
  <2>3. PilotsOK'
    BY <1>0, <1>2, OneState DEF Offline, PilotsOK
  <2> QED
    BY <2>1, <2>2, <2>3, InvPartsNext
<1>3. ASSUME NEW n \in Evses, AskB(n) PROVE IInv'
  <2>1. BalancedState' \in States
    <3>1. \A m \in Evses : BalancedState[m] \in {"A", "B", "C"}
      BY <1>0 DEF States
    <3>2. BalancedState' = [BalancedState EXCEPT ![n] = IF IsCurrentAvailable THEN "B" ELSE @]
      BY <1>3 DEF AskB
    <3> QED
      BY <1>0, <3>1, <3>2, OneState
  <2>2. Balanced' \in Currents
    <3>1. Balanced' = [Balanced EXCEPT ![n] = IF IsCurrentAvailable THEN MinCurrent ELSE 0]
      BY <1>3 DEF AskB
    <3> QED
      BY <1>0, <3>1, OneCurrent
  <2>3. CurrentsOK' /\ ScheduleOK'
    BY <1>0, <1>3, <2>2 DEF AskB, CurrentsOK, ScheduleOK
  <2>4. CountersOK'
    BY <1>0, <1>3 DEF AskB, CountersOK
  <2>5. PilotsOK'
    BY <1>0, <1>3, <2>1 DEF AskB, PilotsOK
  <2> QED
    BY <2>3, <2>4, <2>5, InvPartsNext
<1>4. ASSUME NEW n \in Evses, AskC(n) PROVE IInv'
  <2>1. CASE IsCurrentAvailable
    <3>1. /\ BalancedState' = [BalancedState EXCEPT ![n] = "C"]
          /\ Calc(TRUE, BalancedState', [Balanced EXCEPT ![n] = 0], FALSE, FALSE)
          /\ offering' = offering \cup {n} /\ calm' = 0
          /\ UNCHANGED <<ConnectedTime, RotationTimer, PrioStrategy, room>>
      BY <1>4, <2>1 DEF AskC
    <3>2. BalancedState' \in States /\ [Balanced EXCEPT ![n] = 0] \in Currents
      BY <1>0, <3>1, OneState, OneCurrent
    <3>3. /\ Balanced' \in Currents /\ BalancedPrev' \in Currents
          /\ ScheduleState' \in Schedulings /\ IdleTimer' \in Idling
          /\ NoCurrent' \in 0 .. NoCurrentThreshold
          /\ Less6A' \in BOOLEAN /\ Fresh' \in BOOLEAN
      <4> DEFINE e == BalancedState'
      <4>1. Calc(TRUE, e, [Balanced EXCEPT ![n] = 0], FALSE, FALSE)
        BY <3>1
      <4> HIDE DEF e
      <4> QED
        BY <3>2, <4>1, CalcType DEF Idling, e
    <3>4. CurrentsOK' /\ ScheduleOK'
      BY <1>0, <3>1, <3>3 DEF CurrentsOK, ScheduleOK
    <3>5. CountersOK' /\ PilotsOK'
      BY <1>0, <3>1, <3>2, <3>3 DEF CountersOK, PilotsOK
    <3> QED
      BY <3>4, <3>5, InvPartsNext
  <2>2. CASE ~IsCurrentAvailable
    <3>1. CurrentsOK' /\ ScheduleOK'
      BY <1>0, <1>4, <2>2, OneCurrent DEF AskC, CurrentsOK, ScheduleOK
    <3>2. CountersOK' /\ PilotsOK'
      BY <1>0, <1>4, <2>2 DEF AskC, CountersOK, PilotsOK
    <3> QED
      BY <3>1, <3>2, InvPartsNext
  <2> QED
    BY <2>1, <2>2
<1>5. ASSUME MasterB PROVE IInv'
  <2>1. CurrentsOK' /\ ScheduleOK'
    BY <1>0, <1>5, OneCurrent DEF MasterB, CurrentsOK, ScheduleOK
  <2>2. CountersOK'
    BY <1>0, <1>5 DEF MasterB, CountersOK
  <2>3. PilotsOK'
    BY <1>0, <1>5, OneState DEF MasterB, PilotsOK
  <2> QED
    BY <2>1, <2>2, <2>3, InvPartsNext
<1>6. ASSUME MasterC PROVE IInv'
  <2>1. CASE IsCurrentAvailable
    <3>1. /\ BalancedState' = [BalancedState EXCEPT ![Master] = "C"]
          /\ Calc(TRUE, BalancedState, [Balanced EXCEPT ![Master] = MinCurrent], FALSE, FALSE)
          /\ offering' = offering \cup {Master} /\ calm' = 0
          /\ UNCHANGED <<ConnectedTime, RotationTimer, PrioStrategy, room>>
      BY <1>6, <2>1 DEF MasterC
    <3>2. BalancedState' \in States /\ [Balanced EXCEPT ![Master] = MinCurrent] \in Currents
      BY <1>0, <3>1, OneState, OneCurrent
    <3>3. /\ Balanced' \in Currents /\ BalancedPrev' \in Currents
          /\ ScheduleState' \in Schedulings /\ IdleTimer' \in Idling
          /\ NoCurrent' \in 0 .. NoCurrentThreshold
          /\ Less6A' \in BOOLEAN /\ Fresh' \in BOOLEAN
      BY <1>0, <3>1, <3>2, CalcType DEF Idling
    <3>4. CurrentsOK' /\ ScheduleOK'
      BY <1>0, <3>1, <3>3 DEF CurrentsOK, ScheduleOK
    <3>5. CountersOK' /\ PilotsOK'
      BY <1>0, <3>1, <3>2, <3>3 DEF CountersOK, PilotsOK
    <3> QED
      BY <3>4, <3>5, InvPartsNext
  <2>2. CASE ~IsCurrentAvailable
    <3>1. CurrentsOK' /\ ScheduleOK'
      BY <1>0, <1>6, <2>2 DEF MasterC, CurrentsOK, ScheduleOK
    <3>2. CountersOK' /\ PilotsOK'
      BY <1>0, <1>6, <2>2 DEF MasterC, CountersOK, PilotsOK
    <3> QED
      BY <3>1, <3>2, InvPartsNext
  <2> QED
    BY <2>1, <2>2
<1>7. ASSUME MasterLeave PROVE IInv'
  <2>1. CurrentsOK' /\ ScheduleOK'
    BY <1>0, <1>7 DEF MasterLeave, CurrentsOK, ScheduleOK
  <2>2. CountersOK' /\ PilotsOK'
    BY <1>0, <1>7, OneState DEF MasterLeave, CountersOK, PilotsOK
  <2> QED
    BY <2>1, <2>2, InvPartsNext
<1>8. ASSUME Measure PROVE IInv'
  <2>1. CurrentsOK' /\ ScheduleOK' /\ PilotsOK'
    BY <1>0, <1>8 DEF Measure, CurrentsOK, ScheduleOK, PilotsOK
  <2>2. CountersOK'
    BY <1>0, <1>8 DEF Measure, CountersOK
  <2> QED
    BY <2>1, <2>2, InvPartsNext
<1>9. ASSUME Regulate PROVE IInv'
  <2>1. PICK hard, overload \in BOOLEAN :
           Calc(FALSE, BalancedState, Balanced, hard, overload)
    BY <1>9 DEF Regulate
  <2>2. /\ Balanced' \in Currents /\ BalancedPrev' \in Currents
        /\ ScheduleState' \in Schedulings /\ IdleTimer' \in Idling
        /\ NoCurrent' \in 0 .. NoCurrentThreshold
        /\ Less6A' \in BOOLEAN /\ Fresh' \in BOOLEAN
    BY <1>0, <2>1, CalcType DEF Idling
  <2>3. CurrentsOK' /\ ScheduleOK'
    BY <1>0, <1>9, <2>2 DEF Regulate, CurrentsOK, ScheduleOK
  <2>4. calm' \in 0 .. Settling
    <3>1. calm \in 0 .. Settling /\ Settling \in Nat /\ calm + 1 \in Nat
      BY <1>0, Assumed DEF CountersOK
    <3>2. Min({calm + 1, Settling}) \in 0 .. Settling
      BY <3>1, MinIsBetween
    <3> QED
      BY <1>9, <3>1, <3>2 DEF Regulate
  <2>5. CountersOK'
    BY <1>0, <1>9, <2>2, <2>4 DEF Regulate, CountersOK
  <2>6. PilotsOK'
    BY <1>0, <1>9 DEF Regulate, PilotsOK, Offering, Charging, ChargingIn
  <2> QED
    BY <2>3, <2>5, <2>6, InvPartsNext
<1>10. ASSUME Tick PROVE IInv'
  <2>1. BalancedState' \in States
    <3>1. \A m \in Evses : BalancedState[m] \in {"A", "B", "C"}
      BY <1>0 DEF States
    <3>2. BalancedState' = [BalancedState EXCEPT ![Master] = IF Less6A' THEN "A" ELSE @]
      BY <1>10 DEF Tick
    <3> QED
      BY <1>0, <3>1, <3>2, OneState
  <2>2. PICK draws \in BOOLEAN : Schedule(BalancedState', draws)
    BY <1>10 DEF Tick
  <2>3. /\ ConnectedTime' \in [Evses -> 0 .. N]
        /\ ScheduleState' \in Schedulings /\ IdleTimer' \in Idling
        /\ Balanced' \in Currents /\ RotationTimer' \in 0 .. RotationInterval
    <3> DEFINE e == BalancedState'
    <3>1. e \in States /\ Schedule(e, draws)
      BY <2>1, <2>2
    <3> HIDE DEF e
    <3> QED
      BY <3>1, ScheduleType
  <2>4. CurrentsOK' /\ ScheduleOK'
    BY <1>0, <1>10, <2>3 DEF Tick, CurrentsOK, ScheduleOK
  <2>5. /\ Less6A' \in BOOLEAN /\ calm' \in {0, calm} /\ offering' \in SUBSET Evses
        /\ UNCHANGED <<NoCurrent, Fresh, room>>
    BY <1>0, <1>10 DEF Tick, CountersOK, PilotsOK
  <2>6. CountersOK' /\ PilotsOK'
    BY <1>0, <2>1, <2>5 DEF CountersOK, PilotsOK
  <2> QED
    BY <2>4, <2>6, InvPartsNext
<1>11. ASSUME UNCHANGED vars PROVE IInv'
  BY <1>11 DEF vars, IInv, TypeOK
<1> QED
  BY <1>1, <1>2, <1>3, <1>4, <1>5, <1>6, <1>7, <1>8, <1>9, <1>10, <1>11 DEF Next

(* However EVSEs join, leave, are paused and rotated, no current is ever negative or *)
(* above what its EVSE may get, and every rank, timer and counter keeps to its range *)
THEOREM TypeCorrect == Spec => []TypeOK
<1>1. IInv => TypeOK
  BY DEF IInv
<1> QED
  BY <1>1, InitInv, NextInv, PTL DEF Spec

----------------------------------------------------------------------------
(* The division as a function of the state of the EVSEs and of what is available: *)
(* what it aims at, and whom it marks                                            *)

Serving(state, connected, strategy, available) ==
    Scheduled(Sorted(ChargingIn(state), connected, strategy), ChargingIn(state), available)

IsShort(state, available) == available < Cardinality(ChargingIn(state)) * MinCurrent
IsShared(state, available) ==
    IsShort(state, available) /\ Cardinality(ChargingIn(state)) > 1

Minima(state, balanced, active) ==
    [n \in Evses |-> CASE n \in active -> MinCurrent
                       [] n \in ChargingIn(state) \ active -> 0
                       [] OTHER -> balanced[n]]

Amount(state, available) ==
    IF IsShort(state, available) THEN MinCurrent
    ELSE Min({available, Total(BalancedMax, ChargingIn(state))})

Target(state, balanced, connected, strategy, available) ==
    LET s == Serving(state, connected, strategy, available)
    IN  IF IsShared(state, available)
        THEN Handout(Minima(state, balanced, s.active), s.active, s.left)
        ELSE Divided(balanced, ChargingIn(state), Amount(state, available))

Marked(state, sched, connected, strategy, available) ==
    LET charging == ChargingIn(state)
        active == IF IsShared(state, available)
                  THEN Serving(state, connected, strategy, available).active
                  ELSE charging
    IN  IF IsShort(state, available) /\ Cardinality(charging) = 1 THEN sched
        ELSE [n \in Evses |-> CASE n \in active -> "ACTIVE"
                                [] n \in charging \ active -> "PAUSED"
                                [] OTHER -> sched[n]]

NoStray(state, sched) == \A n \in Evses \ ChargingIn(state) : sched[n] # "ACTIVE"

(* Whom the scheduler serves: in order, and as many as there are minima *)
LEMMA ServingIs ==
    ASSUME NEW state \in States, NEW connected \in [Evses -> Nat], NEW strategy,
           NEW available \in Nat
    PROVE  LET s == Serving(state, connected, strategy, available)
               S == ChargingIn(state)
           IN  /\ S \in SUBSET Evses /\ s.active \subseteq S /\ s.left \in Nat
               /\ s.left + MinCurrent * Cardinality(s.active) = available
               /\ s.active # S => s.left < MinCurrent
               /\ \A m \in S \ s.active, n \in s.active :
                     ~Before(m, n, S, connected, strategy)
<1> DEFINE S == ChargingIn(state)
           order == Sorted(S, connected, strategy)
           s == Scheduled(order, S, available)
<1>1. S \in SUBSET Evses
  BY DEF ChargingIn
<1> HIDE DEF S
<1>2. /\ IsOrder(order)
      /\ \A i, j \in Evses : i < j => ~Before(order[j], order[i], S, connected, strategy)
  BY SortIsOrder
<1> HIDE DEF order
<1>3. /\ s.active \subseteq S /\ s.left \in Nat
      /\ s.left + MinCurrent * Cardinality(s.active) = available
      /\ s.active # S => s.left < MinCurrent
      /\ \A i, j \in Evses : i < j /\ order[i] \in S /\ order[j] \in s.active
                                => order[i] \in s.active
  BY <1>1, <1>2, MinimumInOrder
<1> HIDE DEF s
<1>4. ASSUME NEW m \in S \ s.active, NEW n \in s.active
      PROVE  ~Before(m, n, S, connected, strategy)
  <2>1. PICK i \in Evses : order[i] = m
    BY <1>1, <1>2 DEF IsOrder
  <2>2. PICK j \in Evses : order[j] = n
    BY <1>1, <1>2, <1>3 DEF IsOrder
  <2>3. i # j /\ ~ (i < j)
    BY <1>3, <2>1, <2>2
  <2>4. j < i
    BY <2>3, Assumed
  <2> QED
    BY <1>2, <2>1, <2>2, <2>4
<1>5. Serving(state, connected, strategy, available) = s
  BY DEF Serving, s, order, S
<1> QED
  BY <1>1, <1>3, <1>4, <1>5 DEF S

LEMMA MinimaIs ==
    ASSUME NEW state \in States, NEW balanced \in Currents, NEW active,
           active \subseteq ChargingIn(state)
    PROVE  LET minima == Minima(state, balanced, active)
           IN  /\ minima \in [Evses -> Nat]
               /\ \A n \in Evses : minima[n] <= BalancedMax[n]
               /\ \A n \in active : minima[n] = MinCurrent
               /\ \A n \in ChargingIn(state) \ active : minima[n] = 0
               /\ \A n \in Evses \ ChargingIn(state) : minima[n] = balanced[n]
<1> DEFINE S == ChargingIn(state)
<1>1. S \in SUBSET Evses
  BY DEF ChargingIn
<1>2. active \subseteq S
  OBVIOUS
<1>3. balanced \in [Evses -> Nat] /\ \A n \in Evses : balanced[n] <= BalancedMax[n]
  BY DEF Currents
<1>4. Minima(state, balanced, active) =
          [n \in Evses |-> CASE n \in active -> MinCurrent
                             [] n \in S \ active -> 0
                             [] OTHER -> balanced[n]]
  BY DEF Minima
<1> HIDE DEF S
<1>5. /\ MinCurrent \in Nat
      /\ \A n \in Evses : MinCurrent <= BalancedMax[n] /\ BalancedMax[n] \in Nat
  BY Assumed
<1>6. /\ Minima(state, balanced, active) \in [Evses -> Nat]
      /\ \A n \in Evses : Minima(state, balanced, active)[n] <= BalancedMax[n]
  BY <1>1, <1>2, <1>3, <1>4, <1>5
<1>7. /\ \A n \in active : Minima(state, balanced, active)[n] = MinCurrent
      /\ \A n \in S \ active : Minima(state, balanced, active)[n] = 0
      /\ \A n \in Evses \ S : Minima(state, balanced, active)[n] = balanced[n]
  BY <1>1, <1>2, <1>4
<1> QED
  BY <1>6, <1>7 DEF S

(* The division is this function, when nobody who left is still marked active *)
LEMMA DivisionIs ==
    ASSUME Known, NEW state \in States, NEW balanced \in Currents, NEW hard,
           ChargingIn(state) # {}
    PROVE  LET r == Division(state, balanced, hard)
           IN  /\ r.sched = Marked(state, ScheduleState, ConnectedTime, PrioStrategy, room)
               /\ NoStray(state, ScheduleState) =>
                     r.balanced = Target(state, balanced, ConnectedTime, PrioStrategy, room)
<1> DEFINE S == ChargingIn(state)
           s == Serving(state, ConnectedTime, PrioStrategy, room)
           r == Division(state, balanced, hard)
           mark == Marked(state, ScheduleState, ConnectedTime, PrioStrategy, room)
           target == Target(state, balanced, ConnectedTime, PrioStrategy, room)
           sched == [n \in Evses |-> CASE n \in s.active -> "ACTIVE"
                                       [] n \in S \ s.active -> "PAUSED"
                                       [] OTHER -> ScheduleState[n]]
<1>1. S \in SUBSET Evses /\ Cardinality(S) \in Nat /\ Cardinality(S) # 0
  BY Counted, Assumed DEF ChargingIn
<1>2. s.active \subseteq S
  BY ServingIs DEF Known
<1>3. IsShort(state, room) <=> room < Cardinality(S) * MinCurrent
  BY DEF IsShort
<1>4. CASE IsShared(state, room)
  <2>1. r = Shared(state, balanced) /\ Cardinality(S) # 1
    BY <1>1, <1>4 DEF Division, IsShared, IsShort
  <2>2. mark = sched
    BY <1>4, <2>1 DEF Marked
  <2>3. r.sched = sched
    BY <2>1 DEF Shared, Serving, Order
  <2>4. ASSUME NoStray(state, ScheduleState)
        PROVE  r.balanced = target
    <3>1. {n \in Evses : sched[n] = "ACTIVE"} = s.active
      <4> HIDE DEF s
      <4> QED
        BY <1>1, <1>2, <2>4 DEF NoStray
    <3>2. r.balanced = Handout(Minima(state, balanced, s.active),
                               {n \in Evses : sched[n] = "ACTIVE"}, s.left)
      BY <2>1 DEF Shared, Serving, Order, Minima
    <3>3. target = Handout(Minima(state, balanced, s.active), s.active, s.left)
      BY <1>4 DEF Target
    <3> QED
      BY <3>1, <3>2, <3>3
  <2> QED
    BY <2>2, <2>3, <2>4
<1>5. CASE IsShort(state, room) /\ ~IsShared(state, room)
  <2>1. Cardinality(S) = 1
    BY <1>1, <1>5 DEF IsShared
  <2>2. r = Alone(state, balanced, hard)
    BY <1>5, <2>1 DEF Division, IsShort
  <2>3. mark = ScheduleState
    BY <1>5, <2>1 DEF Marked
  <2>4. target = Divided(balanced, S, MinCurrent)
    BY <1>5 DEF Target, Amount
  <2> QED
    BY <2>2, <2>3, <2>4 DEF Alone
<1>6. CASE ~IsShort(state, room)
  <2>1. r = Plenty(state, balanced)
    BY <1>6 DEF Division, IsShort
  <2>2. mark = [n \in Evses |-> IF n \in S THEN "ACTIVE" ELSE ScheduleState[n]]
    BY <1>6 DEF Marked, IsShared
  <2>3. target = Divided(balanced, S, Min({room, Total(BalancedMax, S)}))
    BY <1>6 DEF Target, Amount, IsShared
  <2> QED
    BY <2>1, <2>2, <2>3 DEF Plenty
<1> QED
  BY <1>4, <1>5, <1>6 DEF IsShared

(* What is divided in two passes can be taken, and has a minimum for each *)
LEMMA AmountFits ==
    ASSUME NEW state \in States, NEW available \in Nat,
           ChargingIn(state) # {}, ~IsShared(state, available)
    PROVE  LET S == ChargingIn(state)
               amount == Amount(state, available)
           IN  /\ S \in SUBSET Evses /\ amount \in Nat
               /\ amount <= Total(BalancedMax, S)
               /\ MinCurrent * Cardinality(S) <= amount
<1> DEFINE S == ChargingIn(state)
           amount == Amount(state, available)
           total == Total(BalancedMax, S)
           least == MinCurrent * Cardinality(S)
<1>1. S \in SUBSET Evses /\ Cardinality(S) \in Nat /\ Cardinality(S) # 0
  BY Counted, Assumed DEF ChargingIn
<1>2. IsShort(state, available) <=> available < Cardinality(S) * MinCurrent
  BY DEF IsShort
<1>3. IsShort(state, available) => Cardinality(S) = 1 /\ amount = MinCurrent
  BY <1>1 DEF IsShared, Amount
<1>4. ~IsShort(state, available) => amount = Min({available, total})
  BY DEF Amount
<1> HIDE DEF S, amount
<1>5. total \in Nat /\ least <= total
  BY <1>1, MinimumFits
<1>6. least \in Nat /\ least = Cardinality(S) * MinCurrent
  BY <1>1, Assumed
<1>7. CASE IsShort(state, available)
  <2>1. least = MinCurrent /\ amount = MinCurrent
    BY <1>3, <1>7, Assumed
  <2> HIDE DEF least, total
  <2> QED
    BY <1>1, <1>5, <1>6, <2>1 DEF S, amount, least, total
<1>8. CASE ~IsShort(state, available)
  <2>1. least <= available
    BY <1>2, <1>6, <1>8, Assumed
  <2> HIDE DEF least, total
  <2>2. amount = IF available <= total THEN available ELSE total
    BY <1>4, <1>5, <1>8, MinOfTwo
  <2>3. amount \in Nat /\ amount <= total /\ least <= amount
    BY <1>5, <2>1, <2>2
  <2> QED
    BY <1>1, <2>3 DEF S, amount, least, total
<1> QED
  BY <1>7, <1>8

(* What the division aims at keeps to the maxima and concerns those who charge *)
LEMMA TargetIs ==
    ASSUME NEW state \in States, NEW balanced \in Currents,
           NEW connected \in [Evses -> Nat], NEW strategy, NEW available \in Nat,
           ChargingIn(state) # {}
    PROVE  LET target == Target(state, balanced, connected, strategy, available)
           IN  /\ target \in Currents
               /\ \A n \in Evses \ ChargingIn(state) : target[n] = balanced[n]
<1> DEFINE S == ChargingIn(state)
           target == Target(state, balanced, connected, strategy, available)
           s == Serving(state, connected, strategy, available)
           minima == Minima(state, balanced, s.active)
<1>1. S \in SUBSET Evses
  BY DEF ChargingIn
<1>2. CASE IsShared(state, available)
  <2>1. s.active \subseteq S /\ s.left \in Nat
    BY ServingIs
  <2>2. target = Handout(minima, s.active, s.left)
    BY <1>2 DEF Target
  <2> HIDE DEF s
  <2>3. /\ minima \in [Evses -> Nat] /\ \A n \in Evses : minima[n] <= BalancedMax[n]
        /\ \A n \in Evses \ S : minima[n] = balanced[n]
    BY <2>1, MinimaIs
  <2> HIDE DEF minima, S, target
  <2>4. s.active \in SUBSET Evses
    BY <1>1, <2>1
  <2>5. /\ target \in [Evses -> Nat]
        /\ \A n \in Evses \ s.active : target[n] = minima[n]
        /\ \A n \in s.active : target[n] <= BalancedMax[n]
    <3> DEFINE active == s.active
               left == s.left
    <3>1. active \in SUBSET Evses /\ left \in Nat /\ target = Handout(minima, active, left)
      BY <2>1, <2>2, <2>4
    <3> HIDE DEF active, left
    <3>2. \A n \in active : minima[n] <= BalancedMax[n]
      BY <2>3, <3>1
    <3> DEFINE bal == Handout(minima, active, left)
    <3>3. minima \in [Evses -> Nat]
      BY <2>3
    <3>4. /\ bal \in [Evses -> Nat]
          /\ \A n \in Evses \ active : bal[n] = minima[n]
          /\ \A n \in active : bal[n] <= BalancedMax[n]
      BY <3>1, <3>2, <3>3, SurplusIsShared
    <3> HIDE DEF bal
    <3> QED
      BY <3>1, <3>4 DEF active, bal
  <2>6. target \in Currents
    BY <2>3, <2>5 DEF Currents
  <2>7. \A n \in Evses \ S : target[n] = balanced[n]
    BY <2>1, <2>3, <2>5
  <2> QED
    BY <2>6, <2>7 DEF S, target
<1>3. CASE ~IsShared(state, available)
  <2> DEFINE amount == Amount(state, available)
  <2>1. target = Divided(balanced, S, amount)
    BY <1>3 DEF Target
  <2>2. amount \in Nat /\ amount <= Total(BalancedMax, S)
    BY <1>3, AmountFits
  <2>3. balanced \in [Evses -> Nat]
    BY DEF Currents
  <2> HIDE DEF S, amount, target
  <2>4. target \in Currents
    BY <1>1, <2>1, <2>2, DividedType
  <2>5. \A n \in Evses \ S : target[n] = balanced[n]
    BY <1>1, <2>1, <2>2, <2>3, DivisionIsFair
  <2> QED
    BY <2>4, <2>5 DEF S, target
<1> QED
  BY <1>2, <1>3

(* The aim does not move when those who charge get nearer to it *)
LEMMA TargetStays ==
    ASSUME NEW state \in States, NEW balanced \in Currents, NEW other \in Currents,
           NEW connected, NEW strategy, NEW available \in Nat,
           ChargingIn(state) # {},
           \A n \in Evses \ ChargingIn(state) : balanced[n] = other[n]
    PROVE  Target(state, balanced, connected, strategy, available)
               = Target(state, other, connected, strategy, available)
<1> DEFINE S == ChargingIn(state)
<1>1. S \in SUBSET Evses
  BY DEF ChargingIn
<1>2. balanced \in [Evses -> Nat] /\ other \in [Evses -> Nat]
  BY DEF Currents
<1>3. CASE IsShared(state, available)
  <2> DEFINE s == Serving(state, connected, strategy, available)
  <2>1. Minima(state, balanced, s.active) = Minima(state, other, s.active)
    <3> DEFINE a == s.active
    <3> HIDE DEF a
    <3> QED
      BY DEF Minima
  <2> QED
    BY <1>3, <2>1 DEF Target
<1>4. CASE ~IsShared(state, available)
  <2> DEFINE amount == Amount(state, available)
  <2>1. amount \in Nat
    BY <1>4, AmountFits
  <2> HIDE DEF amount
  <2>2. Divided(balanced, S, amount) = Divided(other, S, amount)
    BY <1>1, <1>2, <2>1, DivisionForgets
  <2> QED
    BY <1>4, <2>2 DEF Target, amount
<1> QED
  BY <1>3, <1>4

(* The marks are set for those who charge, and setting them again changes nothing *)
LEMMA MarkedIs ==
    ASSUME NEW state \in States, NEW sched \in Schedulings, NEW connected \in [Evses -> Nat],
           NEW strategy, NEW available \in Nat
    PROVE  LET mark == Marked(state, sched, connected, strategy, available)
           IN  /\ \A n \in Evses \ ChargingIn(state) : mark[n] = sched[n]
               /\ Marked(state, mark, connected, strategy, available) = mark
<1> DEFINE S == ChargingIn(state)
           active == IF IsShared(state, available)
                     THEN Serving(state, connected, strategy, available).active
                     ELSE S
           Marking(f) == [n \in Evses |-> CASE n \in active -> "ACTIVE"
                                            [] n \in S \ active -> "PAUSED"
                                            [] OTHER -> f[n]]
<1>1. active \subseteq S
  BY ServingIs
<1>2. CASE IsShort(state, available) /\ Cardinality(S) = 1
  BY <1>2 DEF Marked
<1>3. CASE ~(IsShort(state, available) /\ Cardinality(S) = 1)
  <2>1. /\ Marked(state, sched, connected, strategy, available) = Marking(sched)
        /\ Marked(state, Marking(sched), connected, strategy, available)
               = Marking(Marking(sched))
    BY <1>3 DEF Marked
  <2> HIDE DEF S, active
  <2>2. Marking(Marking(sched)) = Marking(sched)
    OBVIOUS
  <2>3. \A n \in Evses \ S : Marking(sched)[n] = sched[n]
    BY <1>1
  <2> HIDE DEF Marking
  <2> QED
    BY <2>1, <2>2, <2>3 DEF S
<1> QED
  BY <1>2, <1>3

(* A current is near to its aim, after so many cycles: there, or so much nearer *)
Near(b, t, gone, max) ==
    b = t \/ (b - t + gone <= max /\ t - b + gone <= max)

LEMMA ClampNears ==
    ASSUME NEW p \in Nat, NEW t \in Nat, NEW max \in Nat, NEW gone \in Nat, NEW d \in Nat,
           p <= max, t <= max, Near(p, t, gone, max)
    PROVE  Near(IF t > p + d THEN p + d ELSE IF t < p - d THEN p - d ELSE t,
                t, gone + d, max)
BY DEF Near

LEMMA CyclesGrow ==
    ASSUME NEW k \in Nat, NEW j \in Nat, j <= k + 1, NEW d \in Nat
    PROVE  k * d \in Nat /\ j * d \in Nat /\ j * d <= k * d + d
<1>1. k * d \in Nat /\ j * d \in Nat /\ (k + 1) * d = k * d + d
  OBVIOUS
<1>2. j * d <= (k + 1) * d
  OBVIOUS
<1> QED
  BY <1>1, <1>2

----------------------------------------------------------------------------
(* The currents go to what the division aims at                            *)

Aim == Target(BalancedState, Balanced, ConnectedTime, PrioStrategy, room)
Marks == Marked(BalancedState, ScheduleState, ConnectedTime, PrioStrategy, room)

Undisturbed == calm > 0 /\ Charging # {} /\ NoStray(BalancedState, ScheduleState)

NearAim(b, t, k) == \A n \in Evses : Near(b[n], t[n], k * MaxDelta, BalancedMax[n])

(* While nothing but the regulation happens, the marks are those of the division, *)
(* smoothing starts from the present currents, and every cycle brings each of     *)
(* them by MaxDelta nearer to its aim                                             *)
Converging ==
    Undisturbed => /\ BalancedPrev = Balanced /\ ScheduleState = Marks
                   /\ NearAim(Balanced, Aim, calm)

(* One cycle of smoothing *)
LEMMA CycleNears ==
    ASSUME NEW p \in Currents, NEW t \in Currents, NEW S, NEW k \in Nat, NEW j \in Nat,
           j <= k + 1, NearAim(p, t, k)
    PROVE  NearAim(Clamped(t, p, S), t, j)
<1> DEFINE c == Clamped(t, p, S)
<1>1. /\ p \in [Evses -> Nat] /\ t \in [Evses -> Nat]
      /\ \A n \in Evses : p[n] <= BalancedMax[n] /\ t[n] <= BalancedMax[n]
  BY DEF Currents
<1>2. \A n \in Evses : c[n] =
          IF n \in S /\ p[n] # 0
          THEN IF t[n] > p[n] + MaxDelta THEN p[n] + MaxDelta
               ELSE IF t[n] < p[n] - MaxDelta THEN p[n] - MaxDelta ELSE t[n]
          ELSE t[n]
  BY <1>1, ClampedIs
<1> HIDE DEF c
<1>3. MaxDelta \in Nat
  BY Assumed
<1>4. k * MaxDelta \in Nat /\ j * MaxDelta \in Nat /\ j * MaxDelta <= k * MaxDelta + MaxDelta
  BY <1>3, CyclesGrow
<1> DEFINE gone == k * MaxDelta
           then == j * MaxDelta
<1>5. gone \in Nat /\ then \in Nat /\ then <= gone + MaxDelta
  BY <1>4
<1>6. \A n \in Evses : Near(p[n], t[n], gone, BalancedMax[n])
  BY DEF NearAim
<1> HIDE DEF gone, then
<1>7. ASSUME NEW n \in Evses PROVE Near(c[n], t[n], then, BalancedMax[n])
  <2> DEFINE max == BalancedMax[n]
             b == p[n]
             a == t[n]
  <2>1. /\ b \in Nat /\ a \in Nat /\ max \in Nat /\ b <= max /\ a <= max
        /\ Near(b, a, gone, max)
    BY <1>1, <1>6, Assumed
  <2>2. c[n] = a \/ c[n] = IF a > b + MaxDelta THEN b + MaxDelta
                           ELSE IF a < b - MaxDelta THEN b - MaxDelta ELSE a
    BY <1>2
  <2>3. c[n] \in Int
    BY <1>3, <2>1, <2>2
  <2> HIDE DEF max, b, a
  <2>4. Near(c[n], a, gone + MaxDelta, max)
    <3>1. CASE c[n] = a
      BY <3>1 DEF Near
    <3>2. CASE c[n] = IF a > b + MaxDelta THEN b + MaxDelta
                      ELSE IF a < b - MaxDelta THEN b - MaxDelta ELSE a
      BY <1>3, <1>5, <2>1, <3>2, ClampNears
    <3> QED
      BY <2>2, <3>1, <3>2
  <2>5. Near(c[n], a, then, max)
    BY <1>3, <1>5, <2>1, <2>3, <2>4 DEF Near
  <2> QED
    BY <2>5 DEF max, a
<1> QED
  BY <1>7 DEF NearAim, c, then

LEMMA NearAtFirst ==
    ASSUME NEW p \in Currents, NEW t \in Currents
    PROVE  NearAim(p, t, 0)
<1>1. \A n \in Evses : /\ p[n] \in Nat /\ t[n] \in Nat /\ BalancedMax[n] \in Nat
                       /\ p[n] <= BalancedMax[n] /\ t[n] <= BalancedMax[n]
  BY Assumed DEF Currents
<1>2. 0 * MaxDelta = 0
  BY Assumed
<1> QED
  BY <1>1, <1>2 DEF NearAim, Near

LEMMA InvIsKnown ==
    ASSUME IInv
    PROVE  /\ Known /\ BalancedState \in States /\ Balanced \in Currents
           /\ BalancedPrev \in Currents /\ ConnectedTime \in [Evses -> Nat]
           /\ ScheduleState \in Schedulings /\ room \in Nat /\ calm \in Nat
<1>1. /\ CurrentsOK /\ ScheduleOK /\ CountersOK /\ PilotsOK
  BY InvParts
<1>2. ConnectedTime \in [Evses -> Nat]
  <2>1. ConnectedTime \in [Evses -> 0 .. N] /\ 0 .. N \in SUBSET Nat
    BY <1>1, Assumed DEF ScheduleOK
  <2> QED
    BY <2>1
<1>3. NoCurrent \in Nat /\ room \in Nat /\ calm \in Nat
  <2>1. /\ NoCurrent \in 0 .. NoCurrentThreshold /\ room \in Rooms /\ Rooms \subseteq Nat
        /\ calm \in 0 .. Settling /\ Settling \in Nat /\ NoCurrentThreshold \in Nat
    BY <1>1, Assumed DEF CountersOK
  <2> QED
    BY <2>1
<1> QED
  BY <1>1, <1>2, <1>3 DEF Known, CurrentsOK, ScheduleOK, PilotsOK, Idling

(* Nothing that the division depends on changes *)
LEMMA ConvergingStays ==
    ASSUME Converging, calm' \in {0, calm},
           UNCHANGED <<BalancedState, Balanced, BalancedPrev, ScheduleState, ConnectedTime,
                       PrioStrategy, room>>
    PROVE  Converging'
BY DEF Converging, Undisturbed, Charging, NoStray, Marks, Aim

LEMMA RegulateConverges ==
    ASSUME IInv, Converging, Regulate
    PROVE  Converging'
<1> DEFINE S == Charging
           aim == Aim
<1>1. /\ Known /\ BalancedState \in States /\ Balanced \in Currents
      /\ BalancedPrev \in Currents /\ ConnectedTime \in [Evses -> Nat]
      /\ ScheduleState \in Schedulings /\ room \in Nat /\ calm \in Nat
  BY InvIsKnown
<1>2. /\ UNCHANGED <<BalancedState, ConnectedTime, PrioStrategy, room>>
      /\ calm' = IF Fresh THEN Min({calm + 1, Settling}) ELSE calm
  BY DEF Regulate, UnchangedSchedule
<1>3. PICK hard, overload \in BOOLEAN : Calc(FALSE, BalancedState, Balanced, hard, overload)
  BY DEF Regulate
<1>4. CASE ~Fresh
  <2>1. UNCHANGED <<Balanced, BalancedPrev, ScheduleState>>
    BY <1>3, <1>4 DEF Calc
  <2> QED
    BY <1>2, <1>4, <2>1, ConvergingStays
<1>5. CASE S = {}
  <2>1. Charging' = {}
    BY <1>2, <1>5 DEF Charging
  <2> QED
    BY <2>1 DEF Converging, Undisturbed
<1>6. CASE Fresh /\ S # {}
  <2> DEFINE r == Division(BalancedState, Balanced, hard)
  <2>1. /\ Balanced' = Clamped(r.balanced, BalancedPrev, S) /\ BalancedPrev' = Balanced'
        /\ ScheduleState' = r.sched
    BY <1>3, <1>6 DEF Calc, Charging
  <2>2. ScheduleState' = Marks
    BY <1>1, <1>6, <2>1, DivisionIs DEF Marks, Charging
  <2>3. /\ \A n \in Evses \ S : ScheduleState'[n] = ScheduleState[n]
        /\ ScheduleState' = Marks'
    <3>1. Marks' = Marked(BalancedState, Marks, ConnectedTime, PrioStrategy, room)
      BY <1>2, <2>2 DEF Marks
    <3> QED
      BY <1>1, <2>2, <3>1, MarkedIs DEF Marks, Charging
  <2> SUFFICES ASSUME Undisturbed'
               PROVE  NearAim(Balanced', Aim', calm')
    BY <2>1, <2>3 DEF Converging
  <2>4. NoStray(BalancedState, ScheduleState)
    BY <1>2, <2>3 DEF Undisturbed, NoStray, Charging
  <2>5. aim = r.balanced
    BY <1>1, <1>6, <2>4, DivisionIs DEF Charging, Aim
  <2>6. aim \in Currents /\ \A n \in Evses \ S : aim[n] = Balanced[n]
    BY <1>1, <1>6, TargetIs DEF Aim, Charging
  <2>7. Balanced' = Clamped(aim, BalancedPrev, S)
    BY <2>1, <2>5
  <2>8. \A n \in Evses \ S : Balanced'[n] = Balanced[n]
    BY <2>6, <2>7 DEF Clamped
  <2>9. Balanced' \in Currents
    BY <1>1, <2>6, <2>7, ClampedType
  <2>10. Aim' = aim
    <3> DEFINE other == Balanced'
    <3>1. other \in Currents /\ \A n \in Evses \ S : Balanced[n] = other[n]
      BY <2>8, <2>9
    <3>2. Aim' = Target(BalancedState, other, ConnectedTime, PrioStrategy, room)
      BY <1>2 DEF Aim
    <3> HIDE DEF other
    <3>3. Target(BalancedState, Balanced, ConnectedTime, PrioStrategy, room)
              = Target(BalancedState, other, ConnectedTime, PrioStrategy, room)
      BY <1>1, <1>6, <3>1, TargetStays DEF Charging
    <3> QED
      BY <3>2, <3>3 DEF Aim
  <2> HIDE DEF aim, r
  <2>11. NearAim(BalancedPrev, aim, calm)
    <3>1. CASE calm = 0
      BY <1>1, <2>6, <3>1, NearAtFirst
    <3>2. CASE calm # 0
      <4>1. Undisturbed
        BY <1>1, <1>6, <2>4, <3>2 DEF Undisturbed
      <4> QED
        BY <4>1 DEF Converging, aim
    <3> QED
      BY <3>1, <3>2
  <2>12. calm' \in Nat /\ calm' <= calm + 1
    <3>1. calm + 1 \in Nat /\ Settling \in Nat
      BY <1>1, Assumed
    <3>2. Min({calm + 1, Settling}) \in 0 .. calm + 1
      BY <3>1, MinIsBetween
    <3> QED
      BY <1>1, <1>2, <1>6, <3>2
  <2>13. NearAim(Clamped(aim, BalancedPrev, S), aim, calm')
    <3> DEFINE j == calm'
    <3>1. j \in Nat /\ j <= calm + 1
      BY <2>12
    <3> HIDE DEF j
    <3>2. NearAim(Clamped(aim, BalancedPrev, S), aim, j)
      BY <1>1, <2>6, <2>11, <3>1, CycleNears
    <3> QED
      BY <3>2 DEF j
  <2> QED
    BY <2>7, <2>10, <2>13
<1> QED
  BY <1>4, <1>5, <1>6

LEMMA InitConverging == Init => Converging
<1>1. Init => ~ (calm > 0)
  BY DEF Init
<1> QED
  BY <1>1 DEF Converging, Undisturbed

LEMMA NextConverging == IInv /\ Converging /\ [Next]_vars => Converging'
<1> SUFFICES ASSUME IInv, Converging, [Next]_vars PROVE Converging'
  OBVIOUS
<1>1. ASSUME calm' = 0 PROVE Converging'
  BY <1>1 DEF Converging, Undisturbed
<1>2. ASSUME NEW n \in Evses, Leave(n) \/ Offline(n) \/ AskB(n) \/ AskC(n) PROVE Converging'
  <2>1. calm' = 0
    BY <1>2 DEF Leave, Offline, AskB, AskC
  <2> QED
    BY <1>1, <2>1
<1>3. CASE MasterB \/ MasterC \/ MasterLeave
  <2>1. calm' = 0
    BY <1>3 DEF MasterB, MasterC, MasterLeave
  <2> QED
    BY <1>1, <2>1
<1>4. CASE Measure
  <2>1. CASE room' = room
    <3>1. /\ calm' \in {0, calm}
          /\ UNCHANGED <<BalancedState, Balanced, BalancedPrev, ScheduleState, ConnectedTime,
                         PrioStrategy, room>>
      BY <1>4, <2>1 DEF Measure
    <3> QED
      BY <3>1, ConvergingStays
  <2>2. CASE room' # room
    BY <1>1, <1>4, <2>2 DEF Measure
  <2> QED
    BY <2>1, <2>2
<1>5. CASE Regulate
  BY <1>5, RegulateConverges
<1>6. CASE Tick
  <2>1. calm' = IF UNCHANGED <<BalancedState, Balanced, ScheduleState, ConnectedTime>>
                THEN calm ELSE 0
    BY <1>6 DEF Tick
  <2>2. CASE UNCHANGED <<BalancedState, Balanced, ScheduleState, ConnectedTime>>
    <3>1. UNCHANGED <<BalancedPrev, PrioStrategy, room>> /\ calm' = calm
      BY <1>6, <2>1, <2>2 DEF Tick
    <3> QED
      BY <2>2, <3>1, ConvergingStays
  <2>3. CASE ~UNCHANGED <<BalancedState, Balanced, ScheduleState, ConnectedTime>>
    BY <1>1, <2>1, <2>3
  <2> QED
    BY <2>2, <2>3
<1>7. CASE UNCHANGED vars
  BY <1>7, ConvergingStays DEF vars
<1> QED
  BY <1>2, <1>3, <1>4, <1>5, <1>6, <1>7 DEF Next

----------------------------------------------------------------------------
(* What is there when smoothing is over                                    *)

LEMMA SettledAtAim ==
    ASSUME IInv, Converging, Settled
    PROVE  Balanced = Aim /\ ScheduleState = Marks
<1>1. calm = Settling /\ Settling \in Nat \ {0} /\ Charging # {}
  BY Assumed DEF Settled
<1>2. NoStray(BalancedState, ScheduleState)
  BY DEF Settled, NoStray, Charging
<1>3. ScheduleState = Marks /\ NearAim(Balanced, Aim, calm)
  BY <1>1, <1>2 DEF Converging, Undisturbed
<1>4. Balanced \in Currents /\ Aim \in Currents
  BY <1>1, InvIsKnown, TargetIs DEF Aim, Charging
<1> DEFINE aim == Aim
           gone == Settling * MaxDelta
<1>5. /\ Balanced \in [Evses -> Nat] /\ aim \in [Evses -> Nat]
      /\ \A n \in Evses : BalancedMax[n] \in Nat
  BY <1>4, Assumed DEF Currents
<1>6. \A n \in Evses : Near(Balanced[n], aim[n], gone, BalancedMax[n])
  BY <1>1, <1>3 DEF NearAim
<1>7. gone \in Nat /\ \A n \in Evses : BalancedMax[n] <= gone
  <2>1. gone \in Nat
    BY <1>1, Assumed
  <2>2. \A n \in Evses : gone >= BalancedMax[n]
    BY ShareAssumption
  <2> HIDE DEF gone
  <2> QED
    BY <1>5, <2>1, <2>2
<1> HIDE DEF aim, gone
<1>8. ASSUME NEW n \in Evses PROVE Balanced[n] = aim[n]
  <2>1. /\ Balanced[n] \in Nat /\ aim[n] \in Nat /\ BalancedMax[n] \in Nat
        /\ BalancedMax[n] <= gone /\ Near(Balanced[n], aim[n], gone, BalancedMax[n])
    BY <1>5, <1>6, <1>7
  <2> QED
    BY <1>7, <2>1 DEF Near
<1>9. Balanced = aim
  BY <1>5, <1>8
<1> QED
  BY <1>3, <1>9 DEF aim

Servings == Serving(BalancedState, ConnectedTime, PrioStrategy, room)

(* In a shortage for several: those that are marked are served in order, have a  *)
(* minimum each, and their currents are even and use up what is available        *)
LEMMA SettledShortage ==
    ASSUME IInv, Converging, Settled, IsShared(BalancedState, room)
    PROVE  /\ Served = Servings.active
           /\ Total(Balanced, Charging) = Min({room, Total(BalancedMax, Served)})
           /\ \A n \in Served : MinCurrent <= Balanced[n] /\ Balanced[n] <= BalancedMax[n]
           /\ EvenBut(Balanced, Served, 1)
<1> DEFINE S == ChargingIn(BalancedState)
           active == Servings.active
           left == Servings.left
           minima == Minima(BalancedState, Balanced, active)
           bal == Handout(minima, active, left)
<1>1. /\ Known /\ BalancedState \in States /\ Balanced \in Currents
      /\ ConnectedTime \in [Evses -> Nat]
      /\ ScheduleState \in Schedulings /\ room \in Nat
  BY InvIsKnown
<1>2. Balanced = Aim /\ ScheduleState = Marks /\ Charging = S
  BY SettledAtAim DEF Charging
<1>3. Balanced = bal
  BY <1>2 DEF Aim, Target, Servings
<1>4. /\ S \in SUBSET Evses /\ active \subseteq S /\ left \in Nat
      /\ left + MinCurrent * Cardinality(active) = room
  BY <1>1, ServingIs DEF Servings
<1>5. /\ minima \in [Evses -> Nat] /\ \A n \in Evses : minima[n] <= BalancedMax[n]
      /\ \A n \in active : minima[n] = MinCurrent
      /\ \A n \in S \ active : minima[n] = 0
  BY <1>1, <1>4, MinimaIs
<1>6. Served = active
  <2>1. Cardinality(S) # 1
    BY <1>4, Counted DEF IsShared
  <2>2. Marks = [n \in Evses |-> CASE n \in active -> "ACTIVE"
                                   [] n \in S \ active -> "PAUSED"
                                   [] OTHER -> ScheduleState[n]]
    BY <2>1 DEF Marks, Marked, Servings
  <2> HIDE DEF active
  <2>3. \A n \in S : ScheduleState[n] = "ACTIVE" <=> n \in active
    BY <1>2, <1>4, <2>2
  <2> QED
    BY <1>2, <1>4, <2>3 DEF Served
<1> HIDE DEF S, active, left, minima, bal
<1>7. active \in SUBSET Evses
  BY <1>4
<1>8. EvenBut(minima, active, 0)
  BY <1>5, <1>7, Assumed DEF EvenBut
<1>9. /\ bal \in [Evses -> Nat]
      /\ \A n \in Evses \ active : bal[n] = minima[n]
      /\ \A n \in active : minima[n] <= bal[n] /\ bal[n] <= BalancedMax[n]
      /\ Total(bal, active) = Min({Total(minima, active) + left, Total(BalancedMax, active)})
      /\ EvenBut(bal, active, 1)
  <2>1. \A n \in active : minima[n] <= BalancedMax[n]
    BY <1>5, <1>7
  <2> QED
    BY <1>4, <1>5, <1>7, <1>8, <2>1, SurplusIsShared DEF bal
<1>10. Total(minima, active) + left = room
  <2>1. MinCurrent \in Nat /\ Cardinality(active) \in Nat
    BY <1>7, Counted, Assumed
  <2>2. Total(minima, active) = MinCurrent * Cardinality(active)
    BY <1>5, <1>7, <2>1, TotalOfEqual
  <2> QED
    BY <1>4, <2>1, <2>2
<1>11. Total(bal, S) = Total(bal, active)
  <2>1. Master \in Evses /\ 0 \in Int
    BY Assumed
  <2>2. \A n \in Evses : Plus(bal, S, n) = Plus(bal, active, n)
    BY <1>4, <1>5, <1>9 DEF Plus
  <2>3. \A n \in Evses : Plus(bal, active, n) \in Nat
    BY <1>9 DEF Plus
  <2>4. Plus(bal, S, Master) = Plus(bal, active, Master) + 0
    BY <2>1, <2>2, <2>3
  <2>5. Total(bal, active) \in Nat /\ Total(bal, S) = Total(bal, active) + 0
    BY <1>9, <2>1, <2>2, <2>4, TotalDiffers
  <2> QED
    BY <2>5
<1>12. Total(Balanced, Charging) = Min({room, Total(BalancedMax, Served)})
  BY <1>2, <1>3, <1>6, <1>9, <1>10, <1>11
<1>13. \A n \in Served : MinCurrent <= Balanced[n] /\ Balanced[n] <= BalancedMax[n]
  BY <1>3, <1>5, <1>6, <1>9
<1> QED
  BY <1>3, <1>6, <1>9, <1>12, <1>13 DEF active

(* Otherwise the present currents are a fair division among all that charge *)
LEMMA SettledDivision ==
    ASSUME IInv, Converging, Settled, ~IsShared(BalancedState, room)
    PROVE  LET amount == Amount(BalancedState, room)
           IN  /\ IsFairDivision(Balanced, Charging, amount)
               /\ Charging \in SUBSET Evses /\ amount \in Nat
               /\ MinCurrent * Cardinality(Charging) <= amount
<1> DEFINE S == ChargingIn(BalancedState)
           amount == Amount(BalancedState, room)
<1>1. /\ BalancedState \in States /\ Balanced \in Currents /\ room \in Nat
  BY InvIsKnown
<1>2. Balanced = Aim /\ Charging = S /\ S # {}
  BY SettledAtAim DEF Charging, Settled
<1>3. Balanced = Divided(Balanced, S, amount)
  BY <1>2 DEF Aim, Target
<1>4. /\ S \in SUBSET Evses /\ amount \in Nat /\ amount <= Total(BalancedMax, S)
      /\ MinCurrent * Cardinality(S) <= amount
  BY <1>1, <1>2, AmountFits
<1>5. Balanced \in [Evses -> Nat]
  BY <1>1 DEF Currents
<1> HIDE DEF S, amount
<1>6. IsFairDivision(Divided(Balanced, S, amount), S, amount)
  BY <1>4, <1>5, DivisionIsFair
<1>7. IsFairDivision(Balanced, S, amount)
  BY <1>3, <1>6
<1> QED
  BY <1>2, <1>4, <1>7 DEF amount

(* Who has less than the minimum in an even division is given less than the      *)
(* average, so that there is no minimum for each                                 *)
LEMMA FairGivesMinimum ==
    ASSUME NEW bal, NEW S \in SUBSET Evses, NEW amount \in Nat,
           IsFairDivision(bal, S, amount), MinCurrent * Cardinality(S) <= amount
    PROVE  \A n \in S : bal[n] >= MinCurrent
<1>1. /\ bal \in [Evses -> Nat] /\ Total(bal, S) = amount
      /\ \A m, n \in S : bal[m] > bal[n] + 1 => bal[n] = BalancedMax[n]
  BY DEF IsFairDivision
<1>2. MinCurrent \in Nat \ {0} /\ Cardinality(S) \in Nat
  BY Counted, Assumed
<1> SUFFICES ASSUME NEW n \in S, ~ (bal[n] >= MinCurrent) PROVE FALSE
  OBVIOUS
<1>3. n \in Evses /\ BalancedMax[n] \in Nat /\ BalancedMax[n] >= MinCurrent
  BY Assumed
<1>4. \A m \in S : bal[m] <= MinCurrent
  BY <1>1, <1>2, <1>3
<1> DEFINE c == [m \in Evses |-> MinCurrent]
           d == [m \in Evses |-> IF m = n THEN MinCurrent - 1 ELSE MinCurrent]
<1>5. c \in [Evses -> Nat] /\ d \in [Evses -> Nat] /\ \A m \in S : c[m] = MinCurrent
  BY <1>2
<1>6. \A m \in Evses \cap S : bal[m] <= d[m]
  BY <1>1, <1>2, <1>3, <1>4
<1>7. Plus(d, S, n) = Plus(c, S, n) + (-1)
  BY <1>2, <1>3 DEF Plus
<1>8. \A m \in Evses : m # n => Plus(d, S, m) = Plus(c, S, m)
  BY DEF Plus
<1> HIDE DEF c, d
<1>9. Total(c, S) = MinCurrent * Cardinality(S)
  BY <1>2, <1>5, TotalOfEqual
<1>10. Total(c, S) \in Nat /\ Total(d, S) = Total(c, S) + (-1)
  BY <1>3, <1>5, <1>7, <1>8, TotalDiffers
<1>11. Total(bal, S) <= Total(d, S) /\ Total(bal, S) \in Nat
  BY <1>1, <1>5, <1>6, TotalGrows
<1> DEFINE least == MinCurrent * Cardinality(S)
<1>12. Total(c, S) = least /\ least <= amount
  BY <1>9
<1> HIDE DEF least
<1> QED
  BY <1>1, <1>10, <1>11, <1>12

----------------------------------------------------------------------------
(* The theorems                                                            *)

LEMMA SettledRoom == IInv /\ Converging => RoomIsShared
<1> SUFFICES ASSUME IInv, Converging, Settled, Cardinality(Charging) > 1 \/ ~Short
             PROVE  Total(Balanced, Charging) = Min({room, Total(BalancedMax, Served)})
  BY DEF RoomIsShared
<1>1. Short <=> IsShort(BalancedState, room)
  BY DEF Short, IsShort, Charging
<1>2. CASE IsShared(BalancedState, room)
  BY <1>2, SettledShortage
<1>3. CASE ~IsShared(BalancedState, room)
  <2>1. ~IsShort(BalancedState, room)
    BY <1>1, <1>3 DEF IsShared, Charging
  <2>2. Total(Balanced, Charging) = Min({room, Total(BalancedMax, Charging)})
    <3>1. Total(Balanced, Charging) = Amount(BalancedState, room)
      BY <1>3, SettledDivision DEF IsFairDivision
    <3> QED
      BY <2>1, <3>1 DEF Amount, Charging
  <2>3. Served = Charging
    <3>1. Marks = [n \in Evses |-> CASE n \in Charging -> "ACTIVE"
                                     [] n \in Charging \ Charging -> "PAUSED"
                                     [] OTHER -> ScheduleState[n]]
      BY <1>3, <2>1 DEF Marks, Marked, Charging
    <3>2. \A n \in Charging : ScheduleState[n] = "ACTIVE"
      BY <3>1, SettledAtAim DEF Charging, ChargingIn
    <3> QED
      BY <3>2 DEF Served
  <2> QED
    BY <2>2, <2>3
<1> QED
  BY <1>2, <1>3

LEMMA SettledEven == IInv /\ Converging => SharesAreEven
<1> SUFFICES ASSUME IInv, Converging, Settled, NEW m \in Served, NEW n \in Served,
                    Balanced[m] > Balanced[n] + 1
             PROVE  Balanced[n] = BalancedMax[n]
  BY DEF SharesAreEven
<1>1. m \in Charging /\ n \in Charging /\ m \in Evses /\ n \in Evses
  BY DEF Served, Charging, ChargingIn
<1>2. CASE IsShared(BalancedState, room)
  <2>1. EvenBut(Balanced, Served, 1) /\ Balanced[n] <= BalancedMax[n]
    BY <1>2, SettledShortage
  <2>2. Balanced[n] \in Nat /\ Balanced[m] \in Nat /\ BalancedMax[n] \in Nat
    BY <1>1, InvIsKnown, Assumed DEF Currents
  <2>3. Balanced[n] < BalancedMax[n] => Balanced[m] <= Balanced[n] + 1
    BY <2>1 DEF EvenBut
  <2> QED
    BY <2>1, <2>2, <2>3
<1>3. CASE ~IsShared(BalancedState, room)
  BY <1>1, <1>3, SettledDivision DEF IsFairDivision
<1> QED
  BY <1>2, <1>3

LEMMA SettledOrder == IInv /\ Converging => PauseIsInOrder
<1> SUFFICES ASSUME IInv, Converging, Settled
             PROVE  /\ \A n \in Served : Balanced[n] >= MinCurrent
                    /\ \A m \in Charging \ Served, n \in Served :
                          ~Before(m, n, Charging, ConnectedTime, PrioStrategy)
                    /\ Short /\ Cardinality(Charging) > 1 =>
                          Cardinality(Served) = room \div MinCurrent
  BY DEF PauseIsInOrder
<1>1. Short <=> IsShort(BalancedState, room)
  BY DEF Short, IsShort, Charging
<1>2. /\ BalancedState \in States /\ Balanced \in Currents /\ room \in Nat
      /\ ConnectedTime \in [Evses -> Nat]
  BY InvIsKnown
<1>3. Charging \in SUBSET Evses /\ Served \in SUBSET Charging
  BY DEF Served, Charging, ChargingIn
<1>4. CASE IsShared(BalancedState, room)
  <2> DEFINE left == Servings.left
             k == Cardinality(Served)
  <2>1. Served = Servings.active /\ \A n \in Served : MinCurrent <= Balanced[n]
    BY <1>4, SettledShortage
  <2>2. /\ left \in Nat /\ left + MinCurrent * k = room
        /\ Served # Charging => left < MinCurrent
        /\ \A m \in Charging \ Served, n \in Served :
              ~Before(m, n, Charging, ConnectedTime, PrioStrategy)
    BY <1>2, <2>1, ServingIs DEF Servings, Charging
  <2>3. k = room \div MinCurrent
    <3>1. k \in Nat /\ MinCurrent \in Nat \ {0} /\ Cardinality(Charging) \in Nat
      BY <1>3, Counted, Assumed
    <3>2. Served # Charging
      <4>1. room < Cardinality(Charging) * MinCurrent
        BY <1>4 DEF IsShared, IsShort, Charging
      <4> QED
        BY <2>2, <3>1, <4>1
    <3> HIDE DEF left, k
    <3>3. left < MinCurrent
      BY <2>2, <3>2
    <3>4. /\ room \div MinCurrent \in Nat
          /\ room \div MinCurrent >= k <=> k * MinCurrent <= room
          /\ room \div MinCurrent >= k + 1 <=> (k + 1) * MinCurrent <= room
      BY <1>2, <3>1, DivBounds
    <3>5. k * MinCurrent + left = room /\ (k + 1) * MinCurrent = k * MinCurrent + MinCurrent
          /\ k * MinCurrent \in Nat
      BY <2>2, <3>1
    <3>6. k * MinCurrent <= room /\ ~ ((k + 1) * MinCurrent <= room)
      BY <1>2, <2>2, <3>1, <3>3, <3>5
    <3> QED
      BY <3>1, <3>4, <3>6
  <2>4. \A n \in Served : Balanced[n] >= MinCurrent
    <3>1. \A n \in Served : Balanced[n] \in Nat /\ MinCurrent \in Nat
      BY <1>2, <1>3, Assumed DEF Currents
    <3> QED
      BY <2>1, <3>1
  <2> QED
    BY <2>2, <2>3, <2>4
<1>5. CASE ~IsShared(BalancedState, room)
  <2>1. \A n \in Charging : Balanced[n] >= MinCurrent
    BY <1>5, SettledDivision, FairGivesMinimum
  <2>2. ~ (Short /\ Cardinality(Charging) > 1)
    BY <1>1, <1>5 DEF IsShared, Charging
  <2>3. ASSUME NEW m \in Charging \ Served, NEW n \in Served PROVE FALSE
    <3>1. CASE IsShort(BalancedState, room) /\ Cardinality(Charging) = 1
      <4>1. m \in Charging /\ n \in Charging \ {m}
        BY <1>3, <2>3
      <4>2. Cardinality(Charging \ {m}) = 0 /\ Charging \ {m} \in SUBSET Evses
        BY <1>3, <3>1, <4>1, Counted
      <4> QED
        BY <4>1, <4>2, Counted
    <3>2. CASE ~(IsShort(BalancedState, room) /\ Cardinality(Charging) = 1)
      <4>1. Marks = [i \in Evses |-> CASE i \in Charging -> "ACTIVE"
                                       [] i \in Charging \ Charging -> "PAUSED"
                                       [] OTHER -> ScheduleState[i]]
        BY <1>5, <3>2 DEF Marks, Marked, Charging
      <4>2. ScheduleState[m] = "ACTIVE"
        BY <1>3, <4>1, SettledAtAim
      <4> QED
        BY <4>2 DEF Served
    <3> QED
      BY <3>1, <3>2
  <2> QED
    BY <1>3, <2>1, <2>2, <2>3
<1> QED
  BY <1>4, <1>5

LEMMA Converges == Spec => [](IInv /\ Converging)
BY InitInv, NextInv, InitConverging, NextConverging, PTL DEF Spec

(* Settling cycles after the last disturbance the sum of the currents is what is   *)
(* available, or all that the EVSEs that are served can take                       *)
THEOREM SharesTheRoom == Spec => []RoomIsShared
BY Converges, SettledRoom, PTL

(* Then one of two EVSEs that are served has more than the other only by the rest  *)
(* of the division, unless the other has its maximum                               *)
THEOREM SharesEvenly == Spec => []SharesAreEven
BY Converges, SettledEven, PTL

(* Then nobody is paused in favour of one whom he goes before, nor while there is  *)
(* a minimum left, and nobody who is served has less than the minimum              *)
THEOREM PausesInOrder == Spec => []PauseIsInOrder
BY Converges, SettledOrder, PTL
=============================================================================
