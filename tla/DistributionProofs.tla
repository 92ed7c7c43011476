------------------------- MODULE DistributionProofs -------------------------
(***************************************************************************)
(* What the loops of Distribution compute, for every number of EVSEs and    *)
(* all currents.  The induction over the passes of a loop comes from the    *)
(* least number of a set (WFMin): a loop is a function on 0 .. M, and a     *)
(* step of it a function too.                                              *)
(***************************************************************************)
EXTENDS Distribution, FiniteSetTheorems, WellFoundedInduction, TLAPS

(* A set of numbers has a least one *)
LEMMA Least ==
    ASSUME NEW T \in SUBSET Nat, T # {}
    PROVE  \E x \in T : \A y \in T : x <= y
<1> DEFINE R == OpToRel(<, Nat)
<1>1. \A x, y \in Nat : y < x => <<y, x>> \in R
  BY DEF OpToRel
<1>2. \E x \in T : \A y \in T : ~ (<<y, x>> \in R)
  BY NatLessThanWellFounded, WFMin, T \subseteq Nat, Zenon
<1> HIDE DEF R
<1>3. PICK x \in T : \A y \in T : ~ (<<y, x>> \in R)
  BY <1>2
<1>4. ASSUME NEW y \in T PROVE x <= y
  <2>1. x \in Nat /\ y \in Nat /\ ~ (y < x)
    BY <1>1, <1>3
  <2> QED
    BY <2>1
<1> QED
  BY <1>3, <1>4

(* What is true before a loop and is kept by its passes is true after them *)
LEMMA Induct ==
    ASSUME NEW M \in Nat, NEW S, 0 \in S, \A n \in 0 .. M - 1 : n \in S => n + 1 \in S
    PROVE  \A n \in 0 .. M : n \in S
<1> DEFINE T == (0 .. M) \ S
<1> SUFFICES ASSUME T # {} PROVE FALSE
  OBVIOUS
<1>1. PICK x \in T : \A y \in T : x <= y
  <2>1. T \in SUBSET Nat
    OBVIOUS
  <2> HIDE DEF T
  <2> QED
    BY <2>1, Least
<1>2. x # 0 /\ x - 1 \in 0 .. M - 1 /\ x - 1 \in S
  BY <1>1
<1>3. x - 1 + 1 = x
  BY <1>1
<1> QED
  BY <1>1, <1>2, <1>3

(* The ways to go through M passes: the state after each of them *)
Passes(M, S) == [1 .. M -> [S -> S]]
Loops(M, S, init, step) ==
    {f \in [0 .. M -> S] : f[0] = init /\ \A n \in 1 .. M : f[n] = step[n][f[n - 1]]}

(* There is always one, the function that a recursive definition means *)
LEMMA LoopExists ==
    ASSUME NEW M \in Nat, NEW S, NEW init \in S, NEW step \in Passes(M, S)
    PROVE  Loops(M, S, init, step) # {}
<1>0. step \in [1 .. M -> [S -> S]]
  BY DEF Passes
<1> DEFINE Upto(n, f) == /\ f \in [0 .. M -> S] /\ f[0] = init
                         /\ \A k \in 1 .. n : f[k] = step[k][f[k - 1]]
           G == {n \in 0 .. M : \E f \in [0 .. M -> S] : Upto(n, f)}
<1>1. 0 \in G
  <2> DEFINE f == [n \in 0 .. M |-> init]
  <2>1. f \in [0 .. M -> S] /\ f[0] = init /\ 1 .. 0 = {}
    OBVIOUS
  <2> HIDE DEF f
  <2> QED
    BY <2>1
<1>2. ASSUME NEW n \in 0 .. M - 1, n \in G
      PROVE  n + 1 \in G
  <2>1. PICK f \in [0 .. M -> S] : Upto(n, f)
    BY <1>2
  <2> DEFINE g == [f EXCEPT ![n + 1] = step[n + 1][f[n]]]
  <2>2. n + 1 \in 1 .. M /\ f[n] \in S
    OBVIOUS
  <2>3. g \in [0 .. M -> S] /\ g[0] = init
    BY <1>0, <2>1, <2>2
  <2>4. ASSUME NEW k \in 1 .. n + 1
        PROVE  g[k] = step[k][g[k - 1]]
    <3>1. g[k - 1] = f[k - 1] /\ n + 1 - 1 = n
      BY <2>2
    <3>2. CASE k = n + 1
      BY <2>2, <3>1, <3>2
    <3>3. CASE k # n + 1
      BY <2>1, <3>1, <3>3
    <3> QED
      BY <3>2, <3>3
  <2> HIDE DEF g
  <2>5. Upto(n + 1, g)
    BY <2>3, <2>4
  <2> QED
    BY <2>2, <2>3, <2>5
<1>3. M \in G
  <2> HIDE DEF G
  <2>1. \A n \in 0 .. M : n \in G
    BY <1>1, <1>2, Induct
  <2> QED
    BY <2>1
<1>4. PICK f \in [0 .. M -> S] : Upto(M, f)
  BY <1>3
<1> QED
  BY <1>4 DEF Loops

(* What begins with init and goes on with step, as long as it is in S, is a loop *)
GoesOn(g, M, S, init, step) ==
    /\ g = [n \in 0 .. M |-> g[n]] /\ g[0] = init
    /\ \A n \in 1 .. M : g[n - 1] \in S => g[n] = step[n][g[n - 1]]

LEMMA LoopIsThis ==
    ASSUME NEW M \in Nat, NEW S, NEW init \in S, NEW step \in Passes(M, S), NEW g,
           GoesOn(g, M, S, init, step)
    PROVE  g \in [0 .. M -> S]
<1> DEFINE G == {n \in 0 .. M : g[n] \in S}
<1>1. 0 \in G
  BY DEF GoesOn
<1>2. ASSUME NEW n \in 0 .. M - 1, n \in G
      PROVE  n + 1 \in G
  <2> DEFINE k == n + 1
  <2>1. k \in 1 .. M /\ k \in 0 .. M /\ k - 1 = n /\ g[n] \in S
    BY <1>2
  <2> HIDE DEF k
  <2>2. g[k] = step[k][g[n]]
    BY <2>1 DEF GoesOn
  <2>3. step \in [1 .. M -> [S -> S]]
    BY DEF Passes
  <2>4. g[k] \in S
    BY <2>1, <2>2, <2>3
  <2> QED
    BY <2>1, <2>4 DEF k
<1>3. \A n \in 0 .. M : n \in G
  <2> HIDE DEF G
  <2> QED
    BY <1>1, <1>2, Induct
<1> QED
  BY <1>3 DEF GoesOn

----------------------------------------------------------------------------
(* Sums                                                                     *)

Plus(bal, S, n) == IF n \in S THEN bal[n] ELSE 0

(* A sum grows by one EVSE at a time *)
LEMMA TotalsSteps ==
    ASSUME NEW bal \in [Evses -> Nat], NEW S
    PROVE  /\ Totals(bal, S) \in [0 .. N -> Nat]
           /\ Totals(bal, S)[0] = 0
           /\ \A n \in Evses : Totals(bal, S)[n] = Totals(bal, S)[n - 1] + Plus(bal, S, n)
<1> DEFINE step == [n \in 1 .. N |-> [x \in Nat |-> x + Plus(bal, S, n)]]
           IsTotal(f) == f = [n \in 0 .. N |-> IF n = 0 THEN 0 ELSE f[n - 1] + Plus(bal, S, n)]
<1>1. N \in Nat /\ \A n \in 1 .. N : Plus(bal, S, n) \in Nat
  BY DistributionAssumption DEF Plus, Evses
<1>2. /\ step \in Passes(N, Nat) /\ 0 \in Nat
      /\ \A n \in 1 .. N, x \in Nat : step[n][x] = x + Plus(bal, S, n)
  BY <1>1 DEF Passes
<1> HIDE DEF step
<1>3. PICK f \in [0 .. N -> Nat] : f[0] = 0 /\ \A n \in 1 .. N : f[n] = step[n][f[n - 1]]
  <2>1. Loops(N, Nat, 0, step) # {}
    BY <1>1, <1>2, LoopExists
  <2> QED
    BY <2>1 DEF Loops
<1>4. IsTotal(f)
  <2>1. ASSUME NEW n \in 1 .. N PROVE f[n] = f[n - 1] + Plus(bal, S, n)
    <3>1. f[n - 1] \in Nat
      BY <1>1
    <3> QED
      BY <1>2, <1>3, <3>1
  <2>2. ASSUME NEW n \in 0 .. N
        PROVE  f[n] = IF n = 0 THEN 0 ELSE f[n - 1] + Plus(bal, S, n)
    BY <1>1, <1>3, <2>1
  <2> QED
    BY <2>2
<1>5. IsTotal(Totals(bal, S))
  <2>1. Totals(bal, S) = CHOOSE g : IsTotal(g)
    BY DEF Totals, Plus
  <2> HIDE DEF IsTotal
  <2> QED
    BY <1>4, <2>1
<1> DEFINE t == Totals(bal, S)
<1> HIDE DEF t
<1>6. t = [n \in 0 .. N |-> IF n = 0 THEN 0 ELSE t[n - 1] + Plus(bal, S, n)]
  BY <1>5 DEF t
<1>7. t[0] = 0 /\ \A n \in 1 .. N : t[n] = t[n - 1] + Plus(bal, S, n)
  BY <1>1, <1>6
<1>8. \A n \in 0 .. N : t[n] \in Nat
  <2> DEFINE G == {n \in 0 .. N : t[n] \in Nat}
  <2>1. 0 \in G
    BY <1>1, <1>7
  <2>2. ASSUME NEW n \in 0 .. N - 1, n \in G PROVE n + 1 \in G
    <3>1. n + 1 \in 1 .. N /\ n + 1 - 1 = n /\ t[n] \in Nat
      BY <1>1, <2>2
    <3>2. t[n + 1] = t[n] + Plus(bal, S, n + 1)
      BY <1>7, <3>1
    <3> QED
      BY <1>1, <3>1, <3>2
  <2> HIDE DEF G
  <2>3. \A n \in 0 .. N : n \in G
    BY <1>1, <2>1, <2>2, Induct
  <2> QED
    BY <2>3 DEF G
<1> QED
  <2>1. t \in [0 .. N -> Nat]
    BY <1>6, <1>8
  <2> QED
    BY <1>7, <2>1 DEF t, Evses
(* Two sums that differ at one EVSE, at most, differ by as much *)
LEMMA TotalDiffers ==
    ASSUME NEW bal \in [Evses -> Nat], NEW S, NEW other \in [Evses -> Nat], NEW T,
           NEW m \in Evses, NEW d \in Int,
           Plus(other, T, m) = Plus(bal, S, m) + d,
           \A n \in Evses : n # m => Plus(other, T, n) = Plus(bal, S, n)
    PROVE  Total(bal, S) \in Nat /\ Total(other, T) = Total(bal, S) + d
<1> DEFINE t == Totals(bal, S)
           u == Totals(other, T)
           G == {n \in 0 .. N : u[n] = t[n] + (IF n < m THEN 0 ELSE d)}
<1>1. N \in Nat /\ m \in 1 .. N
  BY DistributionAssumption DEF Evses
<1>2. /\ t \in [0 .. N -> Nat] /\ t[0] = 0
      /\ \A n \in 1 .. N : t[n] = t[n - 1] + Plus(bal, S, n)
  BY TotalsSteps DEF Evses
<1>3. /\ u \in [0 .. N -> Nat] /\ u[0] = 0
      /\ \A n \in 1 .. N : u[n] = u[n - 1] + Plus(other, T, n)
  BY TotalsSteps DEF Evses
<1> HIDE DEF t, u
<1>4. 0 \in G
  BY <1>1, <1>2, <1>3
<1>5. ASSUME NEW n \in 0 .. N - 1, n \in G
      PROVE  n + 1 \in G
  <2>1. n \in 0 .. N /\ n + 1 \in 1 .. N /\ n + 1 - 1 = n /\ t[n] \in Nat /\ u[n] \in Nat
    BY <1>1, <1>2, <1>3
  <2>2. /\ t[n + 1] = t[n] + Plus(bal, S, n + 1)
        /\ u[n + 1] = u[n] + Plus(other, T, n + 1)
    BY <1>2, <1>3, <2>1
  <2>3. Plus(bal, S, n + 1) \in Nat /\ Plus(other, T, n + 1) \in Nat
    BY <2>1 DEF Plus, Evses
  <2>4. CASE n + 1 = m
    BY <1>1, <1>5, <2>1, <2>2, <2>3, <2>4
  <2>5. CASE n + 1 # m
    <3>1. Plus(other, T, n + 1) = Plus(bal, S, n + 1)
      BY <2>1, <2>5 DEF Evses
    <3>2. n < m <=> n + 1 < m
      BY <1>1, <2>5
    <3> QED
      BY <1>1, <1>5, <2>1, <2>2, <2>3, <3>1, <3>2
  <2> QED
    BY <2>4, <2>5
<1>6. N \in G
  <2> HIDE DEF G
  <2>1. \A n \in 0 .. N : n \in G
    BY <1>1, <1>4, <1>5, Induct
  <2> QED
    BY <1>1, <2>1
<1> QED
  BY <1>1, <1>2, <1>3, <1>6 DEF t, u, Total

(* A sum of smaller numbers is smaller *)
LEMMA TotalGrows ==
    ASSUME NEW bal \in [Evses -> Nat], NEW other \in [Evses -> Nat], NEW S,
           \A n \in Evses \cap S : bal[n] <= other[n]
    PROVE  Total(bal, S) \in Nat /\ Total(other, S) \in Nat
           /\ Total(bal, S) <= Total(other, S)
<1> DEFINE t == Totals(bal, S)
           u == Totals(other, S)
           G == {n \in 0 .. N : t[n] <= u[n]}
<1>1. N \in Nat
  BY DistributionAssumption
<1>2. /\ t \in [0 .. N -> Nat] /\ t[0] = 0
      /\ \A n \in 1 .. N : t[n] = t[n - 1] + Plus(bal, S, n)
  BY TotalsSteps DEF Evses
<1>3. /\ u \in [0 .. N -> Nat] /\ u[0] = 0
      /\ \A n \in 1 .. N : u[n] = u[n - 1] + Plus(other, S, n)
  BY TotalsSteps DEF Evses
<1> HIDE DEF t, u
<1>4. 0 \in G
  BY <1>1, <1>2, <1>3
<1>5. ASSUME NEW n \in 0 .. N - 1, n \in G
      PROVE  n + 1 \in G
  <2>1. n \in 0 .. N /\ n + 1 \in 1 .. N /\ n + 1 - 1 = n /\ t[n] \in Nat /\ u[n] \in Nat
    BY <1>1, <1>2, <1>3
  <2>2. /\ t[n + 1] = t[n] + Plus(bal, S, n + 1)
        /\ u[n + 1] = u[n] + Plus(other, S, n + 1)
    BY <1>2, <1>3, <2>1
  <2>3. /\ Plus(bal, S, n + 1) \in Nat /\ Plus(other, S, n + 1) \in Nat
        /\ Plus(bal, S, n + 1) <= Plus(other, S, n + 1)
    BY <2>1 DEF Plus, Evses
  <2> QED
    BY <1>5, <2>1, <2>2, <2>3
<1>6. N \in G
  <2> HIDE DEF G
  <2>1. \A n \in 0 .. N : n \in G
    BY <1>1, <1>4, <1>5, Induct
  <2> QED
    BY <1>1, <2>1
<1> QED
  BY <1>1, <1>2, <1>3, <1>6 DEF t, u, Total

(* A sum of equal numbers is their product with their number *)
LEMMA TotalOfEqual ==
    ASSUME NEW bal \in [Evses -> Nat], NEW S \in SUBSET Evses, NEW c \in Nat,
           \A n \in S : bal[n] = c
    PROVE  Total(bal, S) = c * Cardinality(S)
<1> DEFINE t == Totals(bal, S)
           U(n) == S \cap (1 .. n)
           G == {n \in 0 .. N : t[n] = c * Cardinality(U(n))}
<1>1. N \in Nat
  BY DistributionAssumption
<1>2. /\ t \in [0 .. N -> Nat] /\ t[0] = 0
      /\ \A n \in 1 .. N : t[n] = t[n - 1] + Plus(bal, S, n)
  BY TotalsSteps DEF Evses
<1> HIDE DEF t
<1>3. 0 \in G
  <2>1. U(0) = {}
    OBVIOUS
  <2> HIDE DEF U
  <2>2. Cardinality(U(0)) = 0 /\ c * 0 = 0
    BY <2>1, FS_EmptySet
  <2> QED
    BY <1>1, <1>2, <2>2
<1>4. ASSUME NEW n \in 0 .. N - 1, n \in G
      PROVE  n + 1 \in G
  <2>1. n \in 0 .. N /\ n + 1 \in 1 .. N /\ n + 1 - 1 = n /\ t[n] \in Nat
    BY <1>1, <1>2
  <2>2. t[n + 1] = t[n] + Plus(bal, S, n + 1)
    BY <1>2, <2>1
  <2>3. IsFiniteSet(U(n)) /\ Cardinality(U(n)) \in Nat
    <3>1. IsFiniteSet(1 .. n)
      BY <2>1, FS_Interval
    <3> QED
      BY <3>1, FS_Subset, FS_CardinalityType, U(n) \subseteq 1 .. n
  <2>4. CASE n + 1 \in S
    <3>1. U(n + 1) = U(n) \cup {n + 1} /\ n + 1 \notin U(n)
      BY <2>1, <2>4
    <3> HIDE DEF U
    <3>2. Cardinality(U(n + 1)) = Cardinality(U(n)) + 1
      BY <2>3, <3>1, FS_AddElement
    <3>3. Plus(bal, S, n + 1) = c
      BY <2>4 DEF Plus
    <3>4. c * (Cardinality(U(n)) + 1) = c * Cardinality(U(n)) + c
      BY <2>3
    <3> QED
      BY <1>4, <2>1, <2>2, <3>2, <3>3, <3>4
  <2>5. CASE n + 1 \notin S
    <3>1. U(n + 1) = U(n)
      BY <2>1, <2>5
    <3>2. Plus(bal, S, n + 1) = 0
      BY <2>5 DEF Plus
    <3> HIDE DEF U
    <3> QED
      BY <1>4, <2>1, <2>2, <3>1, <3>2
  <2> QED
    BY <2>4, <2>5
<1>5. N \in G
  <2> HIDE DEF G
  <2>1. \A n \in 0 .. N : n \in G
    BY <1>1, <1>3, <1>4, Induct
  <2> QED
    BY <1>1, <2>1
<1>6. U(N) = S
  BY DEF Evses
<1> QED
  BY <1>5, <1>6 DEF t, Total
----------------------------------------------------------------------------
(* evse_schedule_priority                                                   *)

Allocations == [active : SUBSET Evses, left : Nat]

AllocationPass(order, charging, i, s) ==
    IF order[i] \in charging /\ s.left >= MinCurrent
    THEN [active |-> s.active \cup {order[i]}, left |-> s.left - MinCurrent]
    ELSE s

IsScheduling(f, order, charging, available) ==
    /\ f \in [0 .. N -> Allocations]
    /\ f[0] = [active |-> {}, left |-> available]
    /\ \A i \in Evses : f[i] = AllocationPass(order, charging, i, f[i - 1])

LEMMA SchedulesSteps ==
    ASSUME NEW order \in [Evses -> Evses], NEW charging \in SUBSET Evses,
           NEW available \in Nat
    PROVE  IsScheduling(Schedules(order, charging, available), order, charging, available)
<1> DEFINE Body(i, s) == AllocationPass(order, charging, i, s)
           init == [active |-> {}, left |-> available]
           step == [i \in 1 .. N |-> [s \in Allocations |-> Body(i, s)]]
           IsLoop(f) == f = [i \in 0 .. N |-> IF i = 0 THEN init ELSE Body(i, f[i - 1])]
<1>1. /\ N \in Nat /\ init \in Allocations
      /\ \A i \in 1 .. N, s \in Allocations : Body(i, s) \in Allocations
  <2>1. ASSUME NEW i \in Evses, NEW s \in Allocations PROVE Body(i, s) \in Allocations
    <3>1. s.left \in Nat /\ s.active \in SUBSET Evses /\ order[i] \in Evses
      BY DEF Allocations
    <3>2. s.left >= MinCurrent => s.left - MinCurrent \in Nat
      BY <3>1, DistributionAssumption
    <3> QED
      BY <3>1, <3>2 DEF AllocationPass, Allocations
  <2>2. N \in Nat /\ init \in Allocations
    BY DistributionAssumption DEF Allocations
  <2> QED
    BY <2>1, <2>2 DEF Evses
<1>2. Schedules(order, charging, available) = CHOOSE f : IsLoop(f)
  BY DEF Schedules, AllocationPass
<1> HIDE DEF Body, init
<1>3. /\ step \in Passes(N, Allocations)
      /\ \A i \in 1 .. N, s \in Allocations : step[i][s] = Body(i, s)
  BY <1>1 DEF Passes
<1> HIDE DEF step
<1>4. PICK f \in [0 .. N -> Allocations] :
          f[0] = init /\ \A i \in 1 .. N : f[i] = step[i][f[i - 1]]
  <2>1. Loops(N, Allocations, init, step) # {}
    BY <1>1, <1>3, LoopExists
  <2> QED
    BY <2>1 DEF Loops
<1>5. IsLoop(f)
  <2>1. \A i \in 1 .. N : f[i - 1] \in Allocations /\ f[i] = Body(i, f[i - 1])
    BY <1>1, <1>3, <1>4
  <2>2. \A i \in 0 .. N : f[i] = IF i = 0 THEN init ELSE Body(i, f[i - 1])
    BY <1>1, <1>4, <2>1
  <2> QED
    BY <2>2
<1> DEFINE g == Schedules(order, charging, available)
<1>6. IsLoop(g)
  <2> HIDE DEF IsLoop
  <2> QED
    BY <1>2, <1>5
<1> HIDE DEF g
<1>7. /\ g = [i \in 0 .. N |-> g[i]] /\ g[0] = init
      /\ \A i \in 1 .. N : g[i] = Body(i, g[i - 1])
  BY <1>1, <1>6
<1>8. g \in [0 .. N -> Allocations]
  <2>1. GoesOn(g, N, Allocations, init, step)
    BY <1>3, <1>7 DEF GoesOn
  <2> QED
    BY <1>1, <1>3, <2>1, LoopIsThis
<1> QED
  BY <1>7, <1>8 DEF g, Body, init, Evses, IsScheduling

IsOrder(order) ==
    /\ order \in [Evses -> Evses]
    /\ \A i, j \in Evses : order[i] = order[j] => i = j
    /\ \A n \in Evses : \E i \in Evses : order[i] = n

(* The scheduler gives the minimum to EVSEs that charge, from what is there; it  *)
(* stops only where less than a minimum is left, and never serves an EVSE while  *)
(* it lets another wait that comes before it (evse_schedule_priority)            *)
THEOREM MinimumInOrder ==
    ASSUME NEW order, IsOrder(order), NEW charging \in SUBSET Evses,
           NEW available \in Nat
    PROVE  LET s == Scheduled(order, charging, available)
           IN  /\ s.active \subseteq charging
               /\ s.left \in Nat
               /\ s.left + MinCurrent * Cardinality(s.active) = available
               /\ s.active # charging => s.left < MinCurrent
               /\ \A i, j \in Evses : i < j /\ order[i] \in charging /\ order[j] \in s.active
                                         => order[i] \in s.active
<1> DEFINE f == Schedules(order, charging, available)
           seen(i) == {j \in Evses : j <= i}
           Good(i, s) ==
               /\ s.active \subseteq {order[j] : j \in seen(i)} \cap charging
               /\ s.left + MinCurrent * Cardinality(s.active) = available
               /\ \A j \in seen(i) : order[j] \in charging \ s.active => s.left < MinCurrent
               /\ \A j, k \in seen(i) : j < k /\ order[j] \in charging /\ order[k] \in s.active
                                          => order[j] \in s.active
           G == {i \in 0 .. N : Good(i, f[i])}
<1>0. N \in Nat /\ MinCurrent \in Nat \ {0} /\ Evses = 1 .. N
  BY DistributionAssumption DEF Evses
<1>a. order \in [Evses -> Evses]
  BY DEF IsOrder
<1>1. /\ f \in [0 .. N -> Allocations]
      /\ f[0] = [active |-> {}, left |-> available]
      /\ \A i \in Evses : f[i] = AllocationPass(order, charging, i, f[i - 1])
  <2>1. IsScheduling(f, order, charging, available)
    BY <1>a, SchedulesSteps
  <2> QED
    BY <2>1 DEF IsScheduling
<1> HIDE DEF f
<1>2. 0 \in G
  <2>1. Cardinality({}) = 0 /\ MinCurrent * 0 = 0 /\ seen(0) = {}
    BY <1>0, FS_EmptySet
  <2> HIDE DEF seen
  <2>2. Good(0, [active |-> {}, left |-> available])
    BY <2>1
  <2>3. f[0] = [active |-> {}, left |-> available]
    BY <1>1
  <2> HIDE DEF Good
  <2>4. Good(0, f[0])
    BY <2>2, <2>3
  <2> QED
    BY <1>0, <2>4
<1>3. ASSUME NEW n \in 0 .. N - 1, n \in G
      PROVE  n + 1 \in G
  <2> DEFINE i == n + 1
             s == f[n]
             t == f[i]
             w == order[i]
  <2>1. /\ i \in Evses /\ i \in 0 .. N /\ i - 1 = n /\ n \in 0 .. N
        /\ seen(i) = seen(n) \cup {i} /\ \A j \in seen(n) : j < i
    <3>1. i \in Evses /\ i \in 0 .. N /\ i - 1 = n /\ n \in 0 .. N
      BY <1>0
    <3>2. \A j \in Evses : (j <= i <=> j <= n \/ j = i) /\ (j <= n => j < i)
      BY <1>0
    <3> QED
      BY <3>1, <3>2
  <2>2. /\ s \in Allocations /\ s.left \in Nat /\ s.active \in SUBSET Evses /\ w \in Evses
        /\ t = AllocationPass(order, charging, i, s)
    BY <1>1, <1>a, <2>1 DEF Allocations
  <2>3. Good(n, s)
    BY <1>3
  <2> HIDE DEF i, s, t, w, seen
  <2>4. w \notin {order[j] : j \in seen(n)}
    BY <2>1 DEF w, seen, IsOrder
  <2>5. CASE w \in charging /\ s.left >= MinCurrent
    <3>1. t = [active |-> s.active \cup {w}, left |-> s.left - MinCurrent]
      BY <2>2, <2>5 DEF AllocationPass, w
    <3>2. w \notin s.active /\ IsFiniteSet(s.active) /\ Cardinality(s.active) \in Nat
      <4>1. IsFiniteSet(Evses)
        BY <1>0, FS_Interval
      <4> QED
        BY <2>2, <2>3, <2>4, <4>1, FS_Subset, FS_CardinalityType
    <3>3. Cardinality(t.active) = Cardinality(s.active) + 1
      BY <3>1, <3>2, FS_AddElement
    <3>4. MinCurrent * Cardinality(t.active) = MinCurrent * Cardinality(s.active) + MinCurrent
      BY <1>0, <3>2, <3>3
    <3>5. t.left + MinCurrent * Cardinality(t.active) = available
      BY <1>0, <2>2, <2>3, <3>1, <3>2, <3>4
    <3>6. \A j \in seen(n) : order[j] \in charging => order[j] \in s.active
      <4> SUFFICES ASSUME NEW j \in seen(n), order[j] \in charging \ s.active PROVE FALSE
        OBVIOUS
      <4>1. s.left < MinCurrent
        BY <2>3
      <4> QED
        BY <1>0, <2>2, <2>5, <4>1
    <3>7. \A j \in seen(i) : order[j] \in charging => order[j] \in t.active
      BY <2>1, <3>1, <3>6 DEF w
    <3>8. t.active \subseteq {order[j] : j \in seen(i)} \cap charging
      BY <2>1, <2>3, <2>5, <3>1 DEF w
    <3> QED
      BY <2>1, <3>5, <3>7, <3>8 DEF t
  <2>6. CASE ~ (w \in charging /\ s.left >= MinCurrent)
    <3>1. t = s
      BY <2>2, <2>6 DEF AllocationPass, w
    <3>2. order[i] \notin s.active
      BY <2>3, <2>4 DEF w
    <3>3. s.active \subseteq {order[j] : j \in seen(i)} \cap charging
      BY <2>1, <2>3
    <3>4. \A j \in seen(i) : order[j] \in charging \ s.active => s.left < MinCurrent
      <4> SUFFICES ASSUME NEW j \in seen(i), order[j] \in charging \ s.active
                   PROVE  s.left < MinCurrent
        OBVIOUS
      <4>1. CASE j = i
        BY <1>0, <2>2, <2>6, <4>1 DEF w
      <4>2. CASE j \in seen(n)
        BY <2>3, <4>2
      <4> QED
        BY <2>1, <4>1, <4>2
    <3>5. \A j, k \in seen(i) : j < k /\ order[j] \in charging /\ order[k] \in s.active
                                  => order[j] \in s.active
      BY <2>1, <2>3, <3>2 DEF seen
    <3> QED
      BY <2>1, <2>3, <3>1, <3>3, <3>4, <3>5 DEF t
  <2> QED
    BY <2>5, <2>6 DEF i
<1>4. Good(N, f[N]) /\ f[N] \in Allocations
  <2>1. \A n \in 0 .. N : n \in G
    <3> HIDE DEF G
    <3> QED
      BY <1>0, <1>2, <1>3, Induct
  <2>2. N \in G
    BY <1>0, <2>1
  <2> HIDE DEF Good
  <2> QED
    BY <1>0, <1>1, <2>2
<1>5. seen(N) = Evses /\ f[N] = Scheduled(order, charging, available)
  BY <1>0 DEF f, Scheduled
<1>6. \A n \in Evses : \E i \in Evses : order[i] = n
  BY DEF IsOrder
<1> DEFINE r == f[N]
<1>7. r \in Allocations /\ Good(N, r) /\ r = Scheduled(order, charging, available)
  BY <1>4, <1>5
<1> HIDE DEF r
<1>8. r.left \in Nat /\ r.active \in SUBSET Evses
  BY <1>7 DEF Allocations
<1>9. /\ r.active \subseteq charging
      /\ r.left + MinCurrent * Cardinality(r.active) = available
      /\ \A j \in Evses : order[j] \in charging \ r.active => r.left < MinCurrent
      /\ \A j, k \in Evses : j < k /\ order[j] \in charging /\ order[k] \in r.active
                                => order[j] \in r.active
  <2> HIDE DEF seen
  <2>1. Good(N, r) /\ seen(N) = Evses
    BY <1>5, <1>7
  <2> QED
    BY <2>1
<1>10. r.active # charging => r.left < MinCurrent
  <2> SUFFICES ASSUME r.active # charging PROVE r.left < MinCurrent
    OBVIOUS
  <2>1. PICK n \in charging : n \notin r.active
    BY <1>9
  <2>2. PICK j \in Evses : order[j] = n
    BY <1>6, <2>1
  <2> QED
    BY <1>9, <2>1, <2>2
<1> QED
  BY <1>7, <1>8, <1>9, <1>10

----------------------------------------------------------------------------
(* The division without shortage                                            *)

LEMMA DivBounds ==
    ASSUME NEW x \in Nat, NEW k \in Nat \ {0}
    PROVE  /\ x \div k \in Nat
           /\ (x \div k) * k <= x
           /\ x < (x \div k) * k + k
           /\ \A a \in Nat : x \div k >= a <=> a * k <= x
OBVIOUS

LEMMA MinIsIn ==
    ASSUME NEW T \in SUBSET Evses, T # {}
    PROVE  Min(T) \in T
<1>1. T \in SUBSET Nat
  BY DistributionAssumption DEF Evses
<1>2. \E x \in T : \A y \in T : x <= y
  BY <1>1, Least
<1> QED
  BY <1>2 DEF Min

(* The number of EVSEs in a set, and in the set without one of them *)
LEMMA Counted ==
    ASSUME NEW T \in SUBSET Evses
    PROVE  /\ IsFiniteSet(T) /\ Cardinality(T) \in 0 .. N
           /\ Cardinality(T) = 0 <=> T = {}
           /\ \A n \in T : Cardinality(T \ {n}) = Cardinality(T) - 1
<1>1. N \in Nat /\ IsFiniteSet(Evses) /\ Cardinality(Evses) = N
  BY DistributionAssumption, FS_Interval DEF Evses
<1>2. IsFiniteSet(T) /\ Cardinality(T) \in Nat /\ Cardinality(T) <= N
  BY <1>1, FS_Subset, FS_CardinalityType
<1> QED
  BY <1>1, <1>2, FS_EmptySet, FS_RemoveElement

Divisions == [bal : [Evses -> Nat], left : Nat, open : SUBSET Evses]

Full(s) == {n \in s.open : s.left \div Cardinality(s.open) >= BalancedMax[n]}

CappingPass(k, s) ==
    IF Full(s) = {} THEN s
    ELSE [bal |-> [s.bal EXCEPT ![Min(Full(s))] = BalancedMax[Min(Full(s))]],
          left |-> s.left - BalancedMax[Min(Full(s))], open |-> s.open \ {Min(Full(s))}]

(* Who is full can have its maximum *)
LEMMA FullFits ==
    ASSUME NEW s \in Divisions, NEW n \in s.open
    PROVE  /\ n \in Full(s) <=> BalancedMax[n] * Cardinality(s.open) <= s.left
           /\ n \in Full(s) => BalancedMax[n] <= s.left
<1>1. /\ s.open \in SUBSET Evses /\ s.left \in Nat /\ n \in Evses /\ BalancedMax[n] \in Nat
      /\ Cardinality(s.open) \in Nat \ {0}
  BY Counted, DistributionAssumption DEF Divisions
<1>2. n \in Full(s) <=> BalancedMax[n] * Cardinality(s.open) <= s.left
  BY <1>1, DivBounds DEF Full
<1>3. BalancedMax[n] <= BalancedMax[n] * Cardinality(s.open)
  BY <1>1
<1> QED
  BY <1>1, <1>2, <1>3


IsCapping(f, balanced, charging, amount) ==
    /\ f \in [0 .. N -> Divisions]
    /\ f[0] = [bal |-> balanced, left |-> amount, open |-> charging]
    /\ \A k \in 1 .. N : f[k] = CappingPass(k, f[k - 1])

LEMMA CappingsSteps ==
    ASSUME NEW balanced \in [Evses -> Nat], NEW charging \in SUBSET Evses,
           NEW amount \in Nat
    PROVE  IsCapping(Cappings(balanced, charging, amount), balanced, charging, amount)
<1> DEFINE Body(k, s) == CappingPass(k, s)
           init == [bal |-> balanced, left |-> amount, open |-> charging]
           step == [k \in 1 .. N |-> [s \in Divisions |-> Body(k, s)]]
           IsLoop(f) == f = [k \in 0 .. N |-> IF k = 0 THEN init ELSE Body(k, f[k - 1])]
<1>1. /\ N \in Nat /\ init \in Divisions
      /\ \A k \in 1 .. N, s \in Divisions : Body(k, s) \in Divisions
  <2>1. ASSUME NEW s \in Divisions PROVE CappingPass(0, s) \in Divisions
    <3>1. CASE Full(s) # {}
      <4> DEFINE n == Min(Full(s))
      <4>1. s.open \in SUBSET Evses /\ s.left \in Nat /\ s.bal \in [Evses -> Nat]
        BY DEF Divisions
      <4>2. n \in Full(s) /\ n \in s.open
        BY <3>1, <4>1, MinIsIn DEF Full
      <4> HIDE DEF n
      <4>3. n \in Evses /\ BalancedMax[n] \in Nat /\ s.left - BalancedMax[n] \in Nat
        BY <4>1, <4>2, FullFits, DistributionAssumption
      <4>4. /\ [s.bal EXCEPT ![n] = BalancedMax[n]] \in [Evses -> Nat]
            /\ s.open \ {n} \in SUBSET Evses
        BY <4>1, <4>3
      <4> QED
        BY <3>1, <4>3, <4>4 DEF CappingPass, Divisions, n
    <3> QED
      BY <3>1 DEF CappingPass
  <2>2. N \in Nat /\ init \in Divisions
    BY DistributionAssumption DEF Divisions
  <2> QED
    BY <2>1, <2>2 DEF CappingPass
<1>2. Cappings(balanced, charging, amount) = CHOOSE f : IsLoop(f)
  BY DEF Cappings, CappingPass, Full
<1> HIDE DEF Body, init
<1>3. /\ step \in Passes(N, Divisions)
      /\ \A k \in 1 .. N, s \in Divisions : step[k][s] = Body(k, s)
  BY <1>1 DEF Passes
<1> HIDE DEF step
<1>4. PICK f \in [0 .. N -> Divisions] :
          f[0] = init /\ \A k \in 1 .. N : f[k] = step[k][f[k - 1]]
  <2>1. Loops(N, Divisions, init, step) # {}
    BY <1>1, <1>3, LoopExists
  <2> QED
    BY <2>1 DEF Loops
<1>5. IsLoop(f)
  <2>1. \A k \in 1 .. N : f[k - 1] \in Divisions /\ f[k] = Body(k, f[k - 1])
    BY <1>1, <1>3, <1>4
  <2>2. \A k \in 0 .. N : f[k] = IF k = 0 THEN init ELSE Body(k, f[k - 1])
    BY <1>1, <1>4, <2>1
  <2> QED
    BY <2>2
<1> DEFINE g == Cappings(balanced, charging, amount)
<1>6. IsLoop(g)
  <2> HIDE DEF IsLoop
  <2> QED
    BY <1>2, <1>5
<1> HIDE DEF g
<1>7. /\ g = [k \in 0 .. N |-> g[k]] /\ g[0] = init
      /\ \A k \in 1 .. N : g[k] = Body(k, g[k - 1])
  <2>1. \A k \in 0 .. N : g[k] = IF k = 0 THEN init ELSE Body(k, g[k - 1])
    BY <1>6
  <2>2. g = [k \in 0 .. N |-> g[k]]
    BY <1>6
  <2> HIDE DEF IsLoop
  <2>3. g[0] = init /\ \A k \in 1 .. N : k \in 0 .. N /\ k # 0
    BY <1>1, <2>1
  <2> QED
    BY <2>1, <2>2, <2>3
<1>8. g \in [0 .. N -> Divisions]
  <2>1. GoesOn(g, N, Divisions, init, step)
    BY <1>3, <1>7 DEF GoesOn
  <2> QED
    BY <1>1, <1>3, <2>1, LoopIsThis
<1> QED
  BY <1>7, <1>8 DEF g, Body, init, IsCapping

(* What the passes keep: who is out of the division has its maximum, which is no  *)
(* more than the average of the others, and all that is given out comes from the  *)
(* amount                                                                        *)
CappedSoFar(s, balanced, charging, amount) ==
    /\ s.open \subseteq charging
    /\ \A n \in Evses \ charging : s.bal[n] = balanced[n]
    /\ Total(s.bal, charging \ s.open) + s.left = amount
    /\ \A n \in charging \ s.open : /\ s.bal[n] = BalancedMax[n]
                                    /\ BalancedMax[n] * Cardinality(s.open) <= s.left

LEMMA CappingKeeps ==
    ASSUME NEW balanced \in [Evses -> Nat], NEW charging \in SUBSET Evses,
           NEW amount \in Nat, NEW s \in Divisions, CappedSoFar(s, balanced, charging, amount)
    PROVE  CappedSoFar(CappingPass(0, s), balanced, charging, amount)
<1> DEFINE t == CappingPass(0, s)
           n == Min(Full(s))
<1> SUFFICES ASSUME Full(s) # {} PROVE CappedSoFar(t, balanced, charging, amount)
  BY DEF CappingPass
<1>1. /\ s.open \in SUBSET Evses /\ s.left \in Nat /\ s.bal \in [Evses -> Nat]
      /\ n \in s.open /\ n \in Full(s)
  BY MinIsIn DEF Divisions, Full
<1>2. t = [bal |-> [s.bal EXCEPT ![n] = BalancedMax[n]], left |-> s.left - BalancedMax[n],
           open |-> s.open \ {n}]
  BY DEF CappingPass
<1> HIDE DEF n, t
<1> DEFINE b == BalancedMax[n]
           k == Cardinality(s.open)
<1>3. /\ n \in Evses /\ b \in Nat /\ b <= s.left /\ b * k <= s.left
      /\ k \in Nat \ {0} /\ Cardinality(t.open) = k - 1
  <2>1. n \in Evses /\ b \in Nat /\ b <= s.left /\ b * k <= s.left
    BY <1>1, FullFits, DistributionAssumption
  <2>2. k \in Nat \ {0} /\ Cardinality(s.open \ {n}) = k - 1
    BY <1>1, Counted
  <2> QED
    BY <1>2, <2>1, <2>2
<1>4. /\ t.bal \in [Evses -> Nat] /\ t.bal[n] = b /\ \A m \in Evses : m # n => t.bal[m] = s.bal[m]
      /\ t.left = s.left - b /\ t.open = s.open \ {n}
  BY <1>1, <1>2, <1>3
<1> HIDE DEF b, k
<1>5. t.open \subseteq charging /\ \A m \in Evses \ charging : t.bal[m] = balanced[m]
  BY <1>1, <1>4 DEF CappedSoFar
<1>6. Total(t.bal, charging \ t.open) + t.left = amount
  <2>1. Plus(t.bal, charging \ t.open, n) = Plus(s.bal, charging \ s.open, n) + b
    BY <1>1, <1>3, <1>4 DEF Plus, CappedSoFar
  <2>2. \A m \in Evses : m # n =>
            Plus(t.bal, charging \ t.open, m) = Plus(s.bal, charging \ s.open, m)
    BY <1>4 DEF Plus
  <2>3. /\ Total(s.bal, charging \ s.open) \in Nat
        /\ Total(t.bal, charging \ t.open) = Total(s.bal, charging \ s.open) + b
    <3> DEFINE S == charging \ s.open
               T == charging \ t.open
               bal == s.bal
               other == t.bal
    <3>1. /\ bal \in [Evses -> Nat] /\ other \in [Evses -> Nat] /\ n \in Evses /\ b \in Int
          /\ Plus(other, T, n) = Plus(bal, S, n) + b
          /\ \A m \in Evses : m # n => Plus(other, T, m) = Plus(bal, S, m)
      <4>1. bal \in [Evses -> Nat] /\ other \in [Evses -> Nat] /\ n \in Evses /\ b \in Int
        BY <1>1, <1>3, <1>4
      <4>2. Plus(other, T, n) = Plus(bal, S, n) + b
        BY <2>1
      <4>3. \A m \in Evses : m # n => Plus(other, T, m) = Plus(bal, S, m)
        BY <2>2
      <4> HIDE DEF S, T, bal, other
      <4> QED
        BY <4>1, <4>2, <4>3
    <3> HIDE DEF S, T, bal, other
    <3>2. Total(bal, S) \in Nat /\ Total(other, T) = Total(bal, S) + b
      BY <3>1, TotalDiffers
    <3> QED
      BY <3>2 DEF S, T, bal, other
  <2>4. Total(s.bal, charging \ s.open) + s.left = amount
    BY DEF CappedSoFar
  <2> QED
    BY <1>1, <1>3, <1>4, <2>3, <2>4
<1>7. ASSUME NEW m \in charging \ t.open
      PROVE  t.bal[m] = BalancedMax[m] /\ BalancedMax[m] * Cardinality(t.open) <= t.left
  <2> DEFINE c == BalancedMax[m]
  <2>0. c \in Nat
    BY DistributionAssumption
  <2>1. t.bal[m] = c /\ c * k <= s.left
    <3>1. CASE m = n
      BY <1>3, <1>4, <3>1 DEF b
    <3>2. CASE m # n
      BY <1>4, <3>2 DEF CappedSoFar, k
    <3> QED
      BY <3>1, <3>2
  <2> HIDE DEF c
  <2>2. c * (k - 1) <= s.left - b
    BY <1>1, <1>3, <2>0, <2>1
  <2> QED
    BY <1>3, <1>4, <2>1, <2>2 DEF c
<1> QED
  BY <1>5, <1>6, <1>7 DEF CappedSoFar

(* After the passes each of the others has a maximum above the average *)
LEMMA Capped ==
    ASSUME NEW balanced \in [Evses -> Nat], NEW charging \in SUBSET Evses,
           NEW amount \in Nat
    PROVE  LET s == Cappings(balanced, charging, amount)[N]
           IN  s \in Divisions /\ CappedSoFar(s, balanced, charging, amount) /\ Full(s) = {}
<1> DEFINE f == Cappings(balanced, charging, amount)
           Good(k, s) == /\ CappedSoFar(s, balanced, charging, amount)
                         /\ Full(s) = {} \/ Cardinality(s.open) + k <= N
           G == {k \in 0 .. N : Good(k, f[k])}
<1>0. N \in Nat
  BY DistributionAssumption
<1>1. IsCapping(f, balanced, charging, amount)
  BY CappingsSteps
<1>2. /\ f \in [0 .. N -> Divisions]
      /\ f[0] = [bal |-> balanced, left |-> amount, open |-> charging]
      /\ \A k \in 1 .. N : f[k] = CappingPass(k, f[k - 1])
  BY <1>1 DEF IsCapping
<1> HIDE DEF f
<1>3. 0 \in G
  <2> DEFINE s == f[0]
  <2>1. s.bal = balanced /\ s.left = amount /\ s.open = charging
    BY <1>2
  <2> HIDE DEF s
  <2>2. charging \ s.open = {} /\ Total(s.bal, {}) = 0
    <3>1. 0 * Cardinality({}) = 0
      BY FS_EmptySet
    <3>2. Total(s.bal, {}) = 0 * Cardinality({})
      BY <2>1, TotalOfEqual
    <3> QED
      BY <2>1, <3>1, <3>2
  <2>3. Cardinality(s.open) + 0 <= N
    BY <1>0, <2>1, Counted
  <2>4. CappedSoFar(s, balanced, charging, amount)
    BY <2>1, <2>2 DEF CappedSoFar
  <2> QED
    BY <1>0, <2>3, <2>4 DEF s
<1>4. ASSUME NEW n \in 0 .. N - 1, n \in G
      PROVE  n + 1 \in G
  <2> DEFINE k == n + 1
             s == f[n]
             t == f[k]
  <2>1. k \in 1 .. N /\ k \in 0 .. N /\ k - 1 = n /\ n \in 0 .. N
    BY <1>0
  <2>2. s \in Divisions /\ t = CappingPass(k, s)
    BY <1>2, <2>1
  <2>3. CappedSoFar(s, balanced, charging, amount) /\ (Full(s) = {} \/ Cardinality(s.open) + n <= N)
    BY <1>4
  <2> HIDE DEF s, t
  <2>4. CappedSoFar(t, balanced, charging, amount)
    <3>1. t = CappingPass(0, s)
      BY <2>2 DEF CappingPass
    <3> QED
      BY <2>2, <2>3, <3>1, CappingKeeps
  <2>5. Full(t) = {} \/ Cardinality(t.open) + k <= N
    <3>1. CASE Full(s) = {}
      BY <2>2, <3>1 DEF CappingPass
    <3>2. CASE Full(s) # {}
      <4>1. s.open \in SUBSET Evses /\ Min(Full(s)) \in s.open
        BY <2>2, <3>2, MinIsIn DEF Divisions, Full
      <4>2. t.open = s.open \ {Min(Full(s))}
        BY <2>2, <3>2 DEF CappingPass
      <4>3. Cardinality(s.open) \in Nat /\ Cardinality(t.open) = Cardinality(s.open) - 1
        BY <4>1, <4>2, Counted
      <4> QED
        BY <1>0, <2>1, <2>3, <3>2, <4>3
    <3> QED
      BY <3>1, <3>2
  <2> HIDE DEF k
  <2>6. k \in G
    BY <2>1, <2>4, <2>5 DEF t
  <2> QED
    BY <2>6 DEF k
<1>5. N \in G
  <2> HIDE DEF G
  <2>1. \A n \in 0 .. N : n \in G
    BY <1>0, <1>3, <1>4, Induct
  <2> QED
    BY <1>0, <2>1
<1>6. f[N] \in Divisions
  BY <1>0, <1>2
<1>7. Full(f[N]) = {}
  <2>1. CASE Cardinality(f[N].open) + N <= N
    <3>1. f[N].open \in SUBSET Evses
      BY <1>6 DEF Divisions
    <3>2. f[N].open = {}
      BY <1>0, <2>1, <3>1, Counted
    <3> QED
      BY <3>2 DEF Full
  <2> QED
    BY <1>5, <2>1
<1> QED
  BY <1>5, <1>6, <1>7 DEF f

Part(r) == r.left \div Cardinality(r.open)

PartPass(n, r) ==
    IF n \notin r.open THEN r
    ELSE [bal |-> [r.bal EXCEPT ![n] = Part(r)], left |-> r.left - Part(r),
          open |-> r.open \ {n}]

(* The part of an average of a is a, or a + 1 where all can have as much, and the *)
(* rest has the same average                                                     *)
LEMMA PartIsEven ==
    ASSUME NEW left \in Nat, NEW k \in Nat \ {0}, NEW part, part = left \div k
    PROVE  /\ part \in Nat /\ left - part \in Nat
           /\ \A a \in Nat : a * k <= left /\ left <= (a + 1) * k =>
                  /\ part \in {a, a + 1}
                  /\ a * (k - 1) <= left - part /\ left - part <= (a + 1) * (k - 1)
<1>1. /\ part \in Nat /\ part * k <= left /\ left < part * k + k
      /\ \A a \in Nat : part >= a <=> a * k <= left
  BY DivBounds
<1>2. left - part \in Nat
  <2>1. part <= part * k
    BY <1>1
  <2> QED
    BY <1>1, <2>1
<1>3. ASSUME NEW a \in Nat, a * k <= left, left <= (a + 1) * k
      PROVE  /\ part \in {a, a + 1}
             /\ a * (k - 1) <= left - part /\ left - part <= (a + 1) * (k - 1)
  <2>1. /\ a * (k - 1) = a * k - a /\ (a + 1) * (k - 1) = (a + 1) * k - (a + 1)
        /\ (a + 1) * k = a * k + k /\ a * k \in Nat
    OBVIOUS
  <2>2. part >= a
    BY <1>1, <1>3
  <2>3. CASE part = a
    BY <1>1, <1>3, <2>1, <2>3
  <2>4. CASE part > a
    <3>1. part >= a + 1 /\ (a + 1) * k <= left
      BY <1>1, <2>4
    <3>2. left = (a + 1) * k
      BY <1>3, <3>1
    <3>3. part <= a + 1
      <4>1. (a + 2) * k = (a + 1) * k + k
        OBVIOUS
      <4>2. ~ ((a + 2) * k <= left)
        BY <2>1, <3>2, <4>1
      <4> QED
        BY <1>1, <4>2
    <3> QED
      BY <1>1, <2>1, <3>1, <3>2, <3>3
  <2> QED
    BY <1>1, <2>2, <2>3, <2>4
<1> QED
  BY <1>1, <1>2, <1>3

IsParting(f, start) ==
    /\ f \in [0 .. N -> Divisions]
    /\ f[0] = start
    /\ \A n \in 1 .. N : f[n] = PartPass(n, f[n - 1])

LEMMA PartsSteps ==
    ASSUME NEW start \in Divisions
    PROVE  IsParting(Parts(start), start)
<1> DEFINE Body(n, s) == PartPass(n, s)
           init == start
           step == [n \in 1 .. N |-> [s \in Divisions |-> Body(n, s)]]
           IsLoop(f) == f = [n \in 0 .. N |-> IF n = 0 THEN init ELSE Body(n, f[n - 1])]
<1>1. /\ N \in Nat /\ init \in Divisions
      /\ \A n \in 1 .. N, s \in Divisions : Body(n, s) \in Divisions
  <2>1. ASSUME NEW n \in 1 .. N, NEW s \in Divisions PROVE PartPass(n, s) \in Divisions
    <3>1. s.open \in SUBSET Evses /\ s.left \in Nat /\ s.bal \in [Evses -> Nat]
      BY DEF Divisions
    <3>2. CASE n \in s.open
      <4>1. Cardinality(s.open) \in Nat \ {0}
        BY <3>1, <3>2, Counted
      <4>2. Part(s) \in Nat /\ s.left - Part(s) \in Nat
        BY <3>1, <4>1, PartIsEven DEF Part
      <4>3. [s.bal EXCEPT ![n] = Part(s)] \in [Evses -> Nat] /\ s.open \ {n} \in SUBSET Evses
        BY <3>1, <4>2
      <4> QED
        BY <3>2, <4>2, <4>3 DEF PartPass, Divisions
    <3> QED
      BY <3>2 DEF PartPass
  <2>2. N \in Nat /\ init \in Divisions
    BY DistributionAssumption
  <2> QED
    BY <2>1, <2>2
<1>2. Parts(start) = CHOOSE f : IsLoop(f)
  BY DEF Parts, PartPass, Part
<1> HIDE DEF Body, init
<1>3. /\ step \in Passes(N, Divisions)
      /\ \A n \in 1 .. N, s \in Divisions : step[n][s] = Body(n, s)
  BY <1>1 DEF Passes
<1> HIDE DEF step
<1>4. PICK f \in [0 .. N -> Divisions] :
          f[0] = init /\ \A n \in 1 .. N : f[n] = step[n][f[n - 1]]
  <2>1. Loops(N, Divisions, init, step) # {}
    BY <1>1, <1>3, LoopExists
  <2> QED
    BY <2>1 DEF Loops
<1>5. IsLoop(f)
  <2>1. \A n \in 1 .. N : f[n - 1] \in Divisions /\ f[n] = Body(n, f[n - 1])
    BY <1>1, <1>3, <1>4
  <2>2. \A n \in 0 .. N : f[n] = IF n = 0 THEN init ELSE Body(n, f[n - 1])
    BY <1>1, <1>4, <2>1
  <2> QED
    BY <2>2
<1> DEFINE g == Parts(start)
<1>6. IsLoop(g)
  <2> HIDE DEF IsLoop
  <2> QED
    BY <1>2, <1>5
<1> HIDE DEF g
<1>7. /\ g = [n \in 0 .. N |-> g[n]] /\ g[0] = init
      /\ \A n \in 1 .. N : g[n] = Body(n, g[n - 1])
  <2>1. \A n \in 0 .. N : g[n] = IF n = 0 THEN init ELSE Body(n, g[n - 1])
    BY <1>6
  <2>2. g = [n \in 0 .. N |-> g[n]]
    BY <1>6
  <2> HIDE DEF IsLoop
  <2>3. g[0] = init /\ \A n \in 1 .. N : n \in 0 .. N /\ n # 0
    BY <1>1, <2>1
  <2> QED
    BY <2>1, <2>2, <2>3
<1>8. g \in [0 .. N -> Divisions]
  <2>1. GoesOn(g, N, Divisions, init, step)
    BY <1>3, <1>7 DEF GoesOn
  <2> QED
    BY <1>1, <1>3, <2>1, LoopIsThis
<1> QED
  BY <1>7, <1>8 DEF g, Body, init, IsParting


(* The second pass gives all that is left to those who are still in, each the    *)
(* average or 1 more                                                             *)
LEMMA PartsAreEven ==
    ASSUME NEW start \in Divisions, NEW charging \in SUBSET Evses,
           start.open \subseteq charging, NEW a \in Nat,
           a * Cardinality(start.open) <= start.left,
           start.left <= (a + 1) * Cardinality(start.open)
    PROVE  LET bal == Parts(start)[N].bal
           IN  /\ bal \in [Evses -> Nat]
               /\ \A n \in start.open : bal[n] \in {a, a + 1}
               /\ \A n \in Evses \ start.open : bal[n] = start.bal[n]
               /\ Total(bal, charging) =
                      Total(start.bal, charging \ start.open) + start.left
<1> DEFINE f == Parts(start)
           sum == Total(start.bal, charging \ start.open) + start.left
           Good(n, r) ==
               /\ r.open = {m \in start.open : m > n}
               /\ \A m \in start.open \ r.open : r.bal[m] \in {a, a + 1}
               /\ \A m \in Evses \ start.open : r.bal[m] = start.bal[m]
               /\ a * Cardinality(r.open) <= r.left
               /\ r.left <= (a + 1) * Cardinality(r.open)
               /\ Total(r.bal, charging \ r.open) + r.left = sum
           G == {n \in 0 .. N : Good(n, f[n])}
<1>0. N \in Nat /\ Evses = 1 .. N /\ start.open \in SUBSET Evses
  BY DistributionAssumption DEF Evses, Divisions
<1>1. IsParting(f, start)
  BY PartsSteps
<1>2. /\ f \in [0 .. N -> Divisions]
      /\ f[0] = start
      /\ \A n \in 1 .. N : f[n] = PartPass(n, f[n - 1])
  BY <1>1 DEF IsParting
<1> HIDE DEF f, sum
<1>3. 0 \in G
  <2>1. start.open = {m \in start.open : m > 0}
    BY <1>0
  <2>2. Good(0, start)
    BY <2>1 DEF sum
  <2>3. Good(0, f[0])
    BY <1>2, <2>2
  <2> HIDE DEF Good
  <2> QED
    BY <1>0, <2>3
<1>4. ASSUME NEW i \in 0 .. N - 1, i \in G
      PROVE  i + 1 \in G
  <2> DEFINE n == i + 1
             r == f[i]
             t == f[n]
  <2>1. n \in 1 .. N /\ n \in 0 .. N /\ n - 1 = i /\ i \in 0 .. N /\ n \in Evses
    BY <1>0
  <2>2. /\ r \in Divisions /\ t = PartPass(n, r)
        /\ r.left \in Nat /\ r.bal \in [Evses -> Nat] /\ r.open \in SUBSET Evses
    BY <1>2, <2>1 DEF Divisions
  <2>3. Good(i, r)
    BY <1>4
  <2>4. \A m \in start.open : (m > i <=> m > n \/ m = n) /\ ~ (n > n)
    BY <1>0, <2>1
  <2> HIDE DEF n, r, t
  <2>5. CASE n \notin r.open
    <3>1. t = r
      BY <2>2, <2>5 DEF PartPass
    <3>2. r.open = {m \in start.open : m > n}
      BY <2>3, <2>4, <2>5
    <3>3. Good(n, r)
      BY <2>3, <3>2
    <3>4. Good(n, t)
      BY <3>1, <3>3
    <3> HIDE DEF Good
    <3> QED
      BY <2>1, <3>4 DEF n, t
  <2>6. CASE n \in r.open
    <3> DEFINE part == Part(r)
               k == Cardinality(r.open)
    <3>1. k \in Nat \ {0} /\ Cardinality(r.open \ {n}) = k - 1
      BY <2>2, <2>6, Counted
    <3>2. /\ part \in Nat /\ r.left - part \in Nat /\ part \in {a, a + 1}
          /\ a * (k - 1) <= r.left - part /\ r.left - part <= (a + 1) * (k - 1)
      <4>1. a * k <= r.left /\ r.left <= (a + 1) * k
        BY <2>3
      <4> DEFINE left == r.left
      <4>2. part = left \div k /\ left \in Nat /\ a * k <= left /\ left <= (a + 1) * k
        BY <2>2, <4>1 DEF Part
      <4> HIDE DEF part, k, left
      <4>3. /\ part \in Nat /\ left - part \in Nat /\ part \in {a, a + 1}
            /\ a * (k - 1) <= left - part /\ left - part <= (a + 1) * (k - 1)
        BY <3>1, <4>2, PartIsEven
      <4> QED
        BY <4>3 DEF left
    <3>3. t = [bal |-> [r.bal EXCEPT ![n] = part], left |-> r.left - part, open |-> r.open \ {n}]
      BY <2>2, <2>6 DEF PartPass
    <3> HIDE DEF part, k
    <3>4. /\ t.bal \in [Evses -> Nat] /\ t.bal[n] = part
          /\ \A m \in Evses : m # n => t.bal[m] = r.bal[m]
          /\ t.left = r.left - part /\ t.open = r.open \ {n}
      BY <2>1, <2>2, <3>2, <3>3
    <3>5. t.open = {m \in start.open : m > n}
      BY <2>3, <2>4, <3>4
    <3>6. \A m \in start.open \ t.open : t.bal[m] \in {a, a + 1}
      BY <1>0, <2>3, <3>2, <3>4
    <3>7. \A m \in Evses \ start.open : t.bal[m] = start.bal[m]
      BY <2>3, <2>6, <3>4
    <3>8. a * Cardinality(t.open) <= t.left /\ t.left <= (a + 1) * Cardinality(t.open)
      BY <3>1, <3>2, <3>4
    <3>9. Total(t.bal, charging \ t.open) + t.left = sum
      <4> DEFINE S == charging \ r.open
                 T == charging \ t.open
                 bal == r.bal
                 other == t.bal
      <4>1. bal \in [Evses -> Nat] /\ other \in [Evses -> Nat] /\ n \in Evses /\ part \in Int
        BY <2>1, <2>2, <3>2, <3>4
      <4>2. Plus(other, T, n) = Plus(bal, S, n) + part
        BY <2>3, <2>6, <3>2, <3>4 DEF Plus
      <4>3. \A m \in Evses : m # n => Plus(other, T, m) = Plus(bal, S, m)
        BY <3>4 DEF Plus
      <4>4. Total(bal, S) + r.left = sum
        BY <2>3
      <4> HIDE DEF S, T, bal, other
      <4>5. Total(bal, S) \in Nat /\ Total(other, T) = Total(bal, S) + part
        BY <4>1, <4>2, <4>3, TotalDiffers
      <4>6. Total(other, T) + t.left = sum
        BY <2>2, <3>2, <3>4, <4>4, <4>5
      <4> QED
        BY <4>6 DEF T, other
    <3>10. Good(n, t)
      BY <3>5, <3>6, <3>7, <3>8, <3>9
    <3> HIDE DEF Good
    <3> QED
      BY <2>1, <3>10 DEF n, t
  <2> QED
    BY <2>5, <2>6
<1>5. Good(N, f[N])
  <2> HIDE DEF Good
  <2>1. \A n \in 0 .. N : n \in G
    <3> HIDE DEF G
    <3> QED
      BY <1>0, <1>3, <1>4, Induct
  <2> QED
    BY <1>0, <2>1
<1> DEFINE r == f[N]
<1>6. r.bal \in [Evses -> Nat] /\ r.left \in Nat
  BY <1>0, <1>2 DEF Divisions
<1>7. r.open = {}
  BY <1>0, <1>5
<1>8. r.left = 0 /\ charging \ r.open = charging
  <2>1. Cardinality(r.open) = 0 /\ (a + 1) * 0 = 0
    BY <1>7, FS_EmptySet
  <2> QED
    BY <1>5, <1>6, <1>7, <2>1
<1>9. Total(r.bal, charging) = sum
  <2>1. Total(r.bal, charging) \in Nat
    BY <1>6, TotalGrows
  <2>2. Total(r.bal, charging) + 0 = sum
    BY <1>5, <1>8
  <2> QED
    BY <2>1, <2>2
<1> QED
  BY <1>5, <1>6, <1>7, <1>9 DEF f, sum

(* A fair division of an amount: nobody gets more than its maximum, all of the   *)
(* amount is given, and who has 1 more than another has what that one cannot take *)
IsFairDivision(bal, S, amount) ==
    /\ bal \in [Evses -> Nat]
    /\ \A n \in S : bal[n] <= BalancedMax[n]
    /\ Total(bal, S) = amount
    /\ \A m, n \in S : bal[m] > bal[n] + 1 => bal[n] = BalancedMax[n]

(* The two passes of evse_calc_balanced_current divide fairly among the EVSEs that *)
(* charge what these can take, and leave the others alone                         *)
THEOREM DivisionIsFair ==
    ASSUME NEW balanced \in [Evses -> Nat], NEW charging \in SUBSET Evses,
           NEW amount \in Nat, amount <= Total(BalancedMax, charging)
    PROVE  /\ IsFairDivision(Divided(balanced, charging, amount), charging, amount)
           /\ \A n \in Evses \ charging : Divided(balanced, charging, amount)[n] = balanced[n]
<1> DEFINE s == Cappings(balanced, charging, amount)[N]
           bal == Parts(s)[N].bal
           k == Cardinality(s.open)
<1>1. /\ s \in Divisions /\ CappedSoFar(s, balanced, charging, amount) /\ Full(s) = {}
      /\ bal = Divided(balanced, charging, amount)
  BY Capped DEF Divided
<1> HIDE DEF s
<1>2. /\ s.left \in Nat /\ s.open \in SUBSET Evses /\ s.open \subseteq charging
      /\ s.bal \in [Evses -> Nat] /\ BalancedMax \in [Evses -> Nat]
      /\ k \in Nat /\ (k = 0 <=> s.open = {})
  <2>1. s.left \in Nat /\ s.open \in SUBSET Evses /\ s.bal \in [Evses -> Nat]
    BY <1>1 DEF Divisions
  <2>2. k \in Nat /\ (k = 0 <=> s.open = {})
    BY <2>1, Counted
  <2>3. s.open \subseteq charging
    BY <1>1 DEF CappedSoFar
  <2> QED
    BY <2>1, <2>2, <2>3, DistributionAssumption
<1> HIDE DEF bal, k
\* The average of those who are not capped
<1> DEFINE Average(a) == a * k <= s.left /\ s.left <= (a + 1) * k
           Between(a) == /\ \A n \in charging \ s.open : k # 0 => BalancedMax[n] <= a
                         /\ \A n \in s.open : a + 1 <= BalancedMax[n]
<1>3. \E a \in Nat : Average(a) /\ Between(a)
  <2>1. CASE k # 0
    <3> DEFINE a == s.left \div k
    <3>1. /\ a \in Nat /\ a * k <= s.left /\ s.left < a * k + k /\ (a + 1) * k = a * k + k
          /\ \A c \in Nat : a >= c <=> c * k <= s.left
      <4>1. s.left \in Nat /\ k \in Nat \ {0}
        BY <1>2, <2>1
      <4>2. /\ a \in Nat /\ a * k <= s.left /\ s.left < a * k + k
            /\ \A c \in Nat : a >= c <=> c * k <= s.left
        BY <4>1, DivBounds
      <4> HIDE DEF a
      <4>3. (a + 1) * k = a * k + k
        BY <4>1, <4>2
      <4> QED
        BY <4>2, <4>3
    <3> HIDE DEF a
    <3>2. \A n \in charging \ s.open : BalancedMax[n] <= a
      <4> SUFFICES ASSUME NEW n \in charging \ s.open PROVE BalancedMax[n] <= a
        OBVIOUS
      <4>1. BalancedMax[n] \in Nat /\ BalancedMax[n] * k <= s.left
        BY <1>1, <1>2 DEF CappedSoFar, k
      <4> QED
        BY <3>1, <4>1
    <3>3. \A n \in s.open : a + 1 <= BalancedMax[n]
      <4> SUFFICES ASSUME NEW n \in s.open PROVE a + 1 <= BalancedMax[n]
        OBVIOUS
      <4>1. BalancedMax[n] \in Nat /\ ~ (BalancedMax[n] * k <= s.left)
        BY <1>1, <1>2, FullFits DEF k
      <4> QED
        BY <3>1, <4>1
    <3> QED
      BY <1>2, <3>1, <3>2, <3>3
  <2>2. CASE k = 0
    <3> DEFINE other == s.bal
    <3>1. s.open = {} /\ charging \ s.open = charging
      BY <1>2, <2>2
    <3>2. Total(other, charging) + s.left = amount
      BY <1>1, <3>1 DEF CappedSoFar
    <3>3. \A n \in Evses \cap charging : BalancedMax[n] <= other[n]
      BY <1>1, <1>2, <3>1 DEF CappedSoFar
    <3>4. other \in [Evses -> Nat] /\ BalancedMax \in [Evses -> Nat]
      BY <1>2
    <3> HIDE DEF other
    <3>5. /\ Total(other, charging) \in Nat /\ Total(BalancedMax, charging) \in Nat
          /\ Total(BalancedMax, charging) <= Total(other, charging)
      BY <3>3, <3>4, TotalGrows
    <3>6. s.left = 0
      BY <1>2, <3>2, <3>5
    <3>7. 0 * k <= s.left /\ s.left <= (0 + 1) * k
      BY <2>2, <3>6
    <3> QED
      BY <2>2, <3>1, <3>7
  <2> QED
    BY <2>1, <2>2
<1> HIDE DEF Average, Between
<1>4. PICK a \in Nat : Average(a) /\ Between(a)
  BY <1>3
<1>5. /\ bal \in [Evses -> Nat]
      /\ \A n \in s.open : bal[n] \in {a, a + 1}
      /\ \A n \in Evses \ s.open : bal[n] = s.bal[n]
      /\ Total(bal, charging) = Total(s.bal, charging \ s.open) + s.left
  BY <1>1, <1>2, <1>4, PartsAreEven DEF bal, k, Average
<1>6. \A n \in charging \ s.open : bal[n] = BalancedMax[n]
  BY <1>1, <1>5 DEF CappedSoFar
<1>7. Total(bal, charging) = amount
  BY <1>1, <1>5 DEF CappedSoFar
<1>8. \A n \in Evses \ charging : bal[n] = balanced[n]
  BY <1>1, <1>2, <1>5 DEF CappedSoFar
<1>9. \A n \in charging : bal[n] <= BalancedMax[n]
  <2> SUFFICES ASSUME NEW n \in charging PROVE bal[n] <= BalancedMax[n]
    OBVIOUS
  <2>1. BalancedMax[n] \in Nat
    BY <1>2
  <2>2. CASE n \in s.open
    <3>1. a + 1 <= BalancedMax[n]
      BY <1>4, <2>2 DEF Between
    <3>2. bal[n] \in {a, a + 1}
      BY <1>5, <2>2, Zenon
    <3> QED
      BY <2>1, <3>1, <3>2
  <2>3. CASE n \notin s.open
    BY <1>6, <2>1, <2>3
  <2> QED
    BY <2>2, <2>3
<1>10. ASSUME NEW m \in charging, NEW n \in charging, bal[m] > bal[n] + 1
       PROVE  bal[n] = BalancedMax[n]
  <2> SUFFICES ASSUME n \in s.open PROVE FALSE
    BY <1>6
  <2>1. k # 0
    BY <1>2
  <2>2. bal[m] <= a + 1
    <3>1. CASE m \in s.open
      BY <1>5, <3>1
    <3>2. CASE m \notin s.open
      BY <1>2, <1>4, <1>6, <2>1, <3>2 DEF Between
    <3> QED
      BY <3>1, <3>2
  <2> QED
    BY <1>5, <1>10, <2>2
<1> QED
  BY <1>1, <1>5, <1>7, <1>8, <1>9, <1>10 DEF IsFairDivision

(* Two divisions that agree but for the currents that are still to be set *)
Agree(s, t) == /\ s.left = t.left /\ s.open = t.open
               /\ \A n \in Evses \ s.open : s.bal[n] = t.bal[n]

LEMMA PassesAgree ==
    ASSUME NEW s \in Divisions, NEW t \in Divisions, Agree(s, t), NEW n \in Evses
    PROVE  /\ Agree(CappingPass(n, s), CappingPass(n, t))
           /\ Agree(PartPass(n, s), PartPass(n, t))
<1>1. /\ s.open \in SUBSET Evses /\ s.bal \in [Evses -> Nat] /\ t.bal \in [Evses -> Nat]
      /\ s.left = t.left /\ s.open = t.open
      /\ \A m \in Evses \ s.open : s.bal[m] = t.bal[m]
  BY DEF Divisions, Agree
<1>2. Full(s) = Full(t) /\ Full(s) \subseteq s.open /\ Part(s) = Part(t)
  BY <1>1 DEF Full, Part
<1>3. Agree(CappingPass(n, s), CappingPass(n, t))
  <2>1. CASE Full(s) = {}
    BY <1>2, <2>1 DEF CappingPass
  <2>2. CASE Full(s) # {}
    <3> DEFINE m == Min(Full(s))
    <3>1. /\ CappingPass(n, s) = [bal |-> [s.bal EXCEPT ![m] = BalancedMax[m]],
                                  left |-> s.left - BalancedMax[m], open |-> s.open \ {m}]
          /\ CappingPass(n, t) = [bal |-> [t.bal EXCEPT ![m] = BalancedMax[m]],
                                  left |-> t.left - BalancedMax[m], open |-> t.open \ {m}]
      BY <1>2, <2>2 DEF CappingPass
    <3> HIDE DEF m
    <3> QED
      BY <1>1, <3>1 DEF Agree
  <2> QED
    BY <2>1, <2>2
<1>4. Agree(PartPass(n, s), PartPass(n, t))
  <2>1. CASE n \notin s.open
    BY <1>1, <2>1 DEF PartPass
  <2>2. CASE n \in s.open
    <3> DEFINE part == Part(s)
    <3>1. /\ PartPass(n, s) = [bal |-> [s.bal EXCEPT ![n] = part],
                               left |-> s.left - part, open |-> s.open \ {n}]
          /\ PartPass(n, t) = [bal |-> [t.bal EXCEPT ![n] = part],
                               left |-> t.left - part, open |-> t.open \ {n}]
      BY <1>1, <1>2, <2>2 DEF PartPass
    <3> HIDE DEF part
    <3> QED
      BY <1>1, <3>1 DEF Agree
  <2> QED
    BY <2>1, <2>2
<1> QED
  BY <1>3, <1>4

(* The second pass leaves nobody out *)
LEMMA PartsSetAll ==
    ASSUME NEW start \in Divisions
    PROVE  Parts(start)[N] \in Divisions /\ Parts(start)[N].open = {}
<1> DEFINE f == Parts(start)
           G == {n \in 0 .. N : \A m \in f[n].open : m > n}
<1>1. N \in Nat /\ Evses = 1 .. N
  BY DistributionAssumption DEF Evses
<1>2. IsParting(f, start)
  BY PartsSteps
<1> HIDE DEF f
<1>3. /\ f \in [0 .. N -> Divisions]
      /\ \A n \in 1 .. N : f[n] = PartPass(n, f[n - 1])
  BY <1>2 DEF IsParting
<1>4. \A n \in 0 .. N : f[n] \in Divisions /\ f[n].open \in SUBSET Evses
  BY <1>3 DEF Divisions
<1>5. 0 \in G
  BY <1>1, <1>4
<1>6. ASSUME NEW i \in 0 .. N - 1, i \in G PROVE i + 1 \in G
  <2> DEFINE n == i + 1
  <2>1. n \in 1 .. N /\ n \in 0 .. N /\ n - 1 = i /\ i \in 0 .. N
    BY <1>1
  <2>2. f[n] = PartPass(n, f[i])
    BY <1>3, <2>1
  <2>3. f[n].open = f[i].open \ {n}
    BY <2>2 DEF PartPass
  <2>4. \A m \in f[i].open : m > i /\ m \in Nat
    BY <1>1, <1>4, <1>6, <2>1
  <2> QED
    BY <1>1, <2>1, <2>3, <2>4
<1>7. N \in G
  <2> HIDE DEF G
  <2>1. \A n \in 0 .. N : n \in G
    BY <1>1, <1>5, <1>6, Induct
  <2> QED
    BY <1>1, <2>1
<1>8. f[N] \in Divisions /\ f[N].open = {}
  BY <1>1, <1>4, <1>7
<1> QED
  BY <1>8 DEF f

(* The division does not depend on the currents before it of those it divides among *)
LEMMA DivisionForgets ==
    ASSUME NEW balanced \in [Evses -> Nat], NEW other \in [Evses -> Nat],
           NEW charging \in SUBSET Evses, NEW amount \in Nat,
           \A n \in Evses \ charging : balanced[n] = other[n]
    PROVE  Divided(balanced, charging, amount) = Divided(other, charging, amount)
<1> DEFINE f == Cappings(balanced, charging, amount)
           g == Cappings(other, charging, amount)
           F == {k \in 0 .. N : Agree(f[k], g[k])}
           p == Parts(f[N])
           q == Parts(g[N])
           P == {k \in 0 .. N : Agree(p[k], q[k])}
<1>1. N \in Nat /\ Evses = 1 .. N /\ \A i \in 0 .. N - 1 : i + 1 \in 1 .. N /\ (i + 1) - 1 = i
  BY DistributionAssumption DEF Evses
<1>2. IsCapping(f, balanced, charging, amount) /\ IsCapping(g, other, charging, amount)
  BY CappingsSteps
<1> HIDE DEF f, g
<1>3. /\ f \in [0 .. N -> Divisions] /\ g \in [0 .. N -> Divisions]
      /\ f[0] = [bal |-> balanced, left |-> amount, open |-> charging]
      /\ g[0] = [bal |-> other, left |-> amount, open |-> charging]
      /\ \A k \in 1 .. N : f[k] = CappingPass(k, f[k - 1])
      /\ \A k \in 1 .. N : g[k] = CappingPass(k, g[k - 1])
  BY <1>2 DEF IsCapping
<1>4. 0 \in F
  <2>1. Agree(f[0], g[0])
    BY <1>3 DEF Agree
  <2> QED
    BY <1>1, <2>1
<1>5. ASSUME NEW i \in 0 .. N - 1, i \in F PROVE i + 1 \in F
  <2> DEFINE n == i + 1
  <2>1. n \in 1 .. N /\ n \in 0 .. N /\ n - 1 = i /\ i \in 0 .. N /\ n \in Evses
    BY <1>1
  <2>2. f[i] \in Divisions /\ g[i] \in Divisions /\ Agree(f[i], g[i])
    BY <1>3, <1>5, <2>1
  <2>3. f[n] = CappingPass(n, f[i]) /\ g[n] = CappingPass(n, g[i])
    BY <1>3, <2>1
  <2> HIDE DEF n
  <2>4. Agree(f[n], g[n])
    BY <2>1, <2>2, <2>3, PassesAgree
  <2>5. n \in F
    BY <2>1, <2>4
  <2> QED
    BY <2>5 DEF n
<1>6. f[N] \in Divisions /\ g[N] \in Divisions /\ Agree(f[N], g[N])
  <2> HIDE DEF F
  <2>1. \A k \in 0 .. N : k \in F
    BY <1>1, <1>4, <1>5, Induct
  <2> USE DEF F
  <2> QED
    BY <1>1, <1>3, <2>1
<1>7. IsParting(p, f[N]) /\ IsParting(q, g[N])
  BY <1>6, PartsSteps
<1>8. p[N] \in Divisions /\ p[N].open = {} /\ q[N] \in Divisions
  BY <1>6, PartsSetAll
<1> HIDE DEF p, q
<1>9. /\ p \in [0 .. N -> Divisions] /\ q \in [0 .. N -> Divisions]
      /\ p[0] = f[N] /\ q[0] = g[N]
      /\ \A k \in 1 .. N : p[k] = PartPass(k, p[k - 1])
      /\ \A k \in 1 .. N : q[k] = PartPass(k, q[k - 1])
  BY <1>7 DEF IsParting
<1>10. 0 \in P
  BY <1>1, <1>6, <1>9
<1>11. ASSUME NEW i \in 0 .. N - 1, i \in P PROVE i + 1 \in P
  <2> DEFINE n == i + 1
  <2>1. n \in 1 .. N /\ n \in 0 .. N /\ n - 1 = i /\ i \in 0 .. N /\ n \in Evses
    BY <1>1
  <2>2. p[i] \in Divisions /\ q[i] \in Divisions /\ Agree(p[i], q[i])
    BY <1>9, <1>11, <2>1
  <2>3. p[n] = PartPass(n, p[i]) /\ q[n] = PartPass(n, q[i])
    BY <1>9, <2>1
  <2> HIDE DEF n
  <2>4. Agree(p[n], q[n])
    BY <2>1, <2>2, <2>3, PassesAgree
  <2>5. n \in P
    BY <2>1, <2>4
  <2> QED
    BY <2>5 DEF n
<1>12. Agree(p[N], q[N])
  <2> HIDE DEF P
  <2>1. \A k \in 0 .. N : k \in P
    BY <1>1, <1>10, <1>11, Induct
  <2> USE DEF P
  <2> QED
    BY <1>1, <2>1
<1>13. p[N].bal = q[N].bal
  <2>1. p[N].bal \in [Evses -> Nat] /\ q[N].bal \in [Evses -> Nat]
    BY <1>8 DEF Divisions
  <2>2. \A n \in Evses : p[N].bal[n] = q[N].bal[n]
    BY <1>8, <1>12 DEF Agree
  <2> QED
    BY <2>1, <2>2
<1> QED
  BY <1>13 DEF Divided, f, g, p, q

----------------------------------------------------------------------------
(* evse_handout_surplus                                                     *)

LEMMA MinOfTwo ==
    ASSUME NEW a \in Int, NEW b \in Int
    PROVE  Min({a, b}) = IF a <= b THEN a ELSE b
BY DEF Min

LEMMA MaxOfTwo ==
    ASSUME NEW a \in Int, NEW b \in Int
    PROVE  Max({a, b}) = IF a <= b THEN b ELSE a
BY DEF Max

LEMMA MinOfThree ==
    ASSUME NEW a \in Int, NEW b \in Int, NEW c \in Int
    PROVE  /\ Min({a, b, c}) \in {a, b, c}
           /\ Min({a, b, c}) <= a /\ Min({a, b, c}) <= b /\ Min({a, b, c}) <= c
<1>1. \E x \in {a, b, c} : \A y \in {a, b, c} : x <= y
  <2>1. CASE a <= b /\ a <= c
    BY <2>1
  <2>2. CASE b <= a /\ b <= c
    BY <2>2
  <2>3. CASE c <= a /\ c <= b
    BY <2>3
  <2> QED
    BY <2>1, <2>2, <2>3
<1> QED
  BY <1>1 DEF Min

Handouts == [bal : [Evses -> Nat], left : Nat, open : SUBSET Evses, progress : BOOLEAN]

Headroom(n, r) == BalancedMax[n] - r.bal[n]
Gain(share, n, r) == Min({share, Headroom(n, r), r.left})

VisitPass(share, n, r) ==
    CASE n \notin r.open -> r
      [] n \in r.open /\ Headroom(n, r) <= 0 -> [r EXCEPT !.open = @ \ {n}, !.progress = TRUE]
      [] n \in r.open /\ Headroom(n, r) > 0 /\ Gain(share, n, r) <= 0 -> r
      [] OTHER -> [bal |-> [r.bal EXCEPT ![n] = @ + Gain(share, n, r)],
                   left |-> r.left - Gain(share, n, r),
                   open |-> IF Gain(share, n, r) = Headroom(n, r) THEN r.open \ {n} ELSE r.open,
                   progress |-> TRUE]

(* A visit gives an EVSE something of what is left, and no more than the share or *)
(* its maximum                                                                   *)
Visited(share, n, r, t) ==
    /\ t.open \subseteq r.open /\ r.open \subseteq t.open \cup {n}
    /\ \A m \in Evses \ {n} : t.bal[m] = r.bal[m]
    /\ t.bal[n] >= r.bal[n] /\ t.bal[n] <= r.bal[n] + share
    /\ t.left = r.left - (t.bal[n] - r.bal[n])
    /\ t.bal[n] <= BalancedMax[n]
    /\ n \notin t.open => t.bal[n] = BalancedMax[n]
    /\ t.bal[n] \in {BalancedMax[n], r.bal[n] + share} \/ t.bal[n] = r.bal[n] + r.left
    /\ r.progress \/ r.left > 0 => t.progress
    /\ r.left > 0 => t.left < r.left \/ n \notin t.open

LEMMA VisitGives ==
    ASSUME NEW share \in Nat \ {0}, NEW r \in Handouts, NEW n \in r.open,
           r.bal[n] <= BalancedMax[n]
    PROVE  /\ VisitPass(share, n, r) \in Handouts
           /\ Visited(share, n, r, VisitPass(share, n, r))
<1> DEFINE t == VisitPass(share, n, r)
           room == Headroom(n, r)
           add == Gain(share, n, r)
<1>1. /\ r.bal \in [Evses -> Nat] /\ r.left \in Nat /\ r.open \in SUBSET Evses
      /\ r.progress \in BOOLEAN /\ n \in Evses /\ r.bal[n] \in Nat /\ BalancedMax[n] \in Nat
      /\ r = [bal |-> r.bal, left |-> r.left, open |-> r.open, progress |-> r.progress]
  BY DistributionAssumption DEF Handouts
<1>2. /\ room \in Nat /\ room = BalancedMax[n] - r.bal[n] /\ add \in Nat
      /\ add \in {share, room, r.left} /\ add <= share /\ add <= room /\ add <= r.left
  <2>1. room \in Nat /\ room = BalancedMax[n] - r.bal[n]
    BY <1>1 DEF Headroom
  <2> HIDE DEF room
  <2>2. add = Min({share, room, r.left})
    BY DEF Gain, room
  <2> HIDE DEF add
  <2> QED
    BY <1>1, <2>1, <2>2, MinOfThree
<1> HIDE DEF room, add
<1>3. CASE room = 0
  <2>1. t = [r EXCEPT !.open = @ \ {n}, !.progress = TRUE]
    BY <1>2, <1>3 DEF VisitPass, room
  <2>2. t.bal = r.bal /\ t.left = r.left /\ t.open = r.open \ {n} /\ t.progress = TRUE
    BY <1>1, <2>1
  <2>3. t \in Handouts
    BY <1>1, <2>1 DEF Handouts
  <2> HIDE DEF t
  <2>4. r.bal[n] = BalancedMax[n]
    BY <1>1, <1>2, <1>3
  <2> QED
    BY <1>1, <2>2, <2>3, <2>4 DEF Visited, t
<1>4. CASE room > 0 /\ add = 0
  <2>1. t = r
    BY <1>2, <1>4 DEF VisitPass, room, add
  <2>2. r.left = 0
    BY <1>1, <1>2, <1>4
  <2> HIDE DEF t
  <2>3. Visited(share, n, r, r)
    BY <1>1, <2>2 DEF Visited
  <2> QED
    BY <2>1, <2>3 DEF t
<1>5. CASE room > 0 /\ add > 0
  <2>1. t = [bal |-> [r.bal EXCEPT ![n] = @ + add], left |-> r.left - add,
             open |-> IF add = room THEN r.open \ {n} ELSE r.open, progress |-> TRUE]
    BY <1>2, <1>5 DEF VisitPass, room, add
  <2> HIDE DEF t
  <2>2. /\ t.bal \in [Evses -> Nat] /\ t.bal[n] = r.bal[n] + add
        /\ \A m \in Evses \ {n} : t.bal[m] = r.bal[m]
        /\ t.left = r.left - add /\ t.left \in Nat /\ t.progress = TRUE
        /\ t.open = IF add = room THEN r.open \ {n} ELSE r.open
    BY <1>1, <1>2, <2>1
  <2>3. t \in Handouts
    BY <1>1, <2>1, <2>2 DEF Handouts
  <2>4. Visited(share, n, r, t)
    BY <1>1, <1>2, <1>5, <2>2 DEF Visited
  <2> QED
    BY <2>3, <2>4 DEF t
<1> QED
  BY <1>2, <1>3, <1>4, <1>5

IsVisiting(f, start, share) ==
    /\ f \in [0 .. N -> Handouts]
    /\ f[0] = [start EXCEPT !.progress = FALSE]
    /\ \A n \in 1 .. N : f[n] = VisitPass(share, n, f[n - 1])

LEMMA VisitsSteps ==
    ASSUME NEW start \in Handouts, NEW share \in Nat \ {0}
    PROVE  IsVisiting(Visits(start, share), start, share)
<1> DEFINE Body(n, s) == VisitPass(share, n, s)
           init == [start EXCEPT !.progress = FALSE]
           step == [n \in 1 .. N |-> [s \in Handouts |-> Body(n, s)]]
           IsLoop(f) == f = [n \in 0 .. N |-> IF n = 0 THEN init ELSE Body(n, f[n - 1])]
<1>1. /\ N \in Nat /\ init \in Handouts
      /\ \A n \in 1 .. N, s \in Handouts : Body(n, s) \in Handouts
  <2>1. ASSUME NEW n \in 1 .. N, NEW s \in Handouts PROVE VisitPass(share, n, s) \in Handouts
    <3>1. /\ s.bal \in [Evses -> Nat] /\ s.left \in Nat /\ s.open \in SUBSET Evses
          /\ n \in Evses /\ s.bal[n] \in Nat /\ BalancedMax[n] \in Nat
      BY DistributionAssumption DEF Handouts, Evses
    <3>2. CASE n \notin s.open
      BY <3>2 DEF VisitPass
    <3>3. CASE n \in s.open /\ s.bal[n] <= BalancedMax[n]
      BY <3>3, VisitGives
    <3>4. CASE n \in s.open /\ s.bal[n] > BalancedMax[n]
      <4>1. Headroom(n, s) <= 0 /\ ~ (Headroom(n, s) > 0)
        BY <3>1, <3>4 DEF Headroom
      <4>2. VisitPass(share, n, s) = [s EXCEPT !.open = @ \ {n}, !.progress = TRUE]
        BY <3>4, <4>1 DEF VisitPass
      <4> QED
        BY <4>2 DEF Handouts
    <3> QED
      BY <3>1, <3>2, <3>3, <3>4
  <2>2. init \in Handouts
    BY DEF Handouts
  <2>3. N \in Nat
    BY DistributionAssumption
  <2> QED
    BY <2>1, <2>2, <2>3
<1>2. Visits(start, share) = CHOOSE f : IsLoop(f)
  BY DEF Visits, VisitPass, Headroom, Gain
<1> HIDE DEF Body, init
<1>3. /\ step \in Passes(N, Handouts)
      /\ \A n \in 1 .. N, s \in Handouts : step[n][s] = Body(n, s)
  BY <1>1 DEF Passes
<1> HIDE DEF step
<1>4. PICK f \in [0 .. N -> Handouts] :
          f[0] = init /\ \A n \in 1 .. N : f[n] = step[n][f[n - 1]]
  <2>1. Loops(N, Handouts, init, step) # {}
    BY <1>1, <1>3, LoopExists
  <2> QED
    BY <2>1 DEF Loops
<1>5. IsLoop(f)
  <2>1. \A n \in 1 .. N : f[n - 1] \in Handouts /\ f[n] = Body(n, f[n - 1])
    BY <1>1, <1>3, <1>4
  <2>2. \A n \in 0 .. N : f[n] = IF n = 0 THEN init ELSE Body(n, f[n - 1])
    BY <1>1, <1>4, <2>1
  <2> QED
    BY <2>2
<1> DEFINE g == Visits(start, share)
<1>6. IsLoop(g)
  <2> HIDE DEF IsLoop
  <2> QED
    BY <1>2, <1>5
<1> HIDE DEF g
<1>7. /\ g = [n \in 0 .. N |-> g[n]] /\ g[0] = init
      /\ \A n \in 1 .. N : g[n] = Body(n, g[n - 1])
  <2>1. \A n \in 0 .. N : g[n] = IF n = 0 THEN init ELSE Body(n, g[n - 1])
    BY <1>6
  <2>2. g = [n \in 0 .. N |-> g[n]]
    BY <1>6
  <2> HIDE DEF IsLoop
  <2>3. g[0] = init /\ \A n \in 1 .. N : n \in 0 .. N /\ n # 0
    BY <1>1, <2>1
  <2> QED
    BY <2>1, <2>2, <2>3
<1>8. g \in [0 .. N -> Handouts]
  <2>1. GoesOn(g, N, Handouts, init, step)
    BY <1>3, <1>7 DEF GoesOn
  <2> QED
    BY <1>1, <1>3, <2>1, LoopIsThis
<1> QED
  BY <1>7, <1>8 DEF g, Body, init, IsVisiting

(* What can be handed out: nobody has more than its maximum, and who is not open  *)
(* any more has that                                                             *)
Limited(s, active) ==
    /\ s \in Handouts /\ s.open \subseteq active
    /\ \A n \in active : s.bal[n] <= BalancedMax[n]
    /\ \A n \in active \ s.open : s.bal[n] = BalancedMax[n]

(* A round gives each open EVSE the share or what it can take, but for the last 1s *)
RoundGives(s, t, active, share) ==
    /\ Limited(t, active) /\ t.open \subseteq s.open /\ t.left <= s.left
    /\ \A n \in Evses \ s.open : t.bal[n] = s.bal[n]
    /\ \A n \in s.open :
          /\ s.bal[n] <= t.bal[n] /\ t.bal[n] <= s.bal[n] + share
          /\ t.bal[n] \in {BalancedMax[n], s.bal[n] + share} \/ (t.left = 0 /\ share = 1)
    /\ Total(t.bal, active) + t.left = Total(s.bal, active) + s.left
    /\ t.progress /\ (t.left < s.left \/ t.open # s.open)

LEMMA VisitsGive ==
    ASSUME NEW active \in SUBSET Evses, NEW s, Limited(s, active), s.left > 0, s.open # {},
           NEW share \in Nat \ {0}, share = 1 \/ share * Cardinality(s.open) <= s.left
    PROVE  RoundGives(s, Visits(s, share)[N], active, share)
<1> DEFINE f == Visits(s, share)
           rest(n) == {m \in s.open : m > n}
           sum == Total(s.bal, active) + s.left
           Typed(r) == Limited(r, active) /\ r.open \subseteq s.open /\ r.left <= s.left
           Untouched(n, r) ==
               /\ rest(n) \subseteq r.open
               /\ \A m \in rest(n) \cup (Evses \ s.open) : r.bal[m] = s.bal[m]
           Given(n, r) == \A m \in s.open \ rest(n) :
               /\ s.bal[m] <= r.bal[m] /\ r.bal[m] <= s.bal[m] + share
               /\ r.bal[m] \in {BalancedMax[m], s.bal[m] + share} \/ (r.left = 0 /\ share = 1)
           Enough(n, r) == share = 1 \/ share * Cardinality(rest(n)) <= r.left
           Kept(r) == Total(r.bal, active) + r.left = sum
           Moved(n, r) == IF rest(n) = s.open THEN r.left = s.left /\ r.open = s.open
                          ELSE r.progress /\ (r.left < s.left \/ r.open # s.open)
           Good(n, r) == /\ Typed(r) /\ Untouched(n, r) /\ Given(n, r) /\ Enough(n, r)
                         /\ Kept(r) /\ Moved(n, r)
           G == {n \in 0 .. N : Good(n, f[n])}
<1>0. /\ N \in Nat /\ Evses = 1 .. N /\ s \in Handouts
      /\ s.open \in SUBSET Evses /\ s.bal \in [Evses -> Nat] /\ s.left \in Nat \ {0}
      /\ BalancedMax \in [Evses -> Nat] /\ s.open \subseteq active
  BY DistributionAssumption DEF Evses, Limited, Handouts
<1>1. IsVisiting(f, s, share)
  BY <1>0, VisitsSteps
<1>2. /\ f \in [0 .. N -> Handouts]
      /\ f[0] = [s EXCEPT !.progress = FALSE]
      /\ \A n \in 1 .. N : f[n] = VisitPass(share, n, f[n - 1])
  BY <1>1 DEF IsVisiting
<1> HIDE DEF f, sum
<1>3. 0 \in G
  <2> DEFINE r == f[0]
  <2>1. r \in Handouts /\ r.bal = s.bal /\ r.left = s.left /\ r.open = s.open
    <3>1. /\ [s EXCEPT !.progress = FALSE] \in Handouts
          /\ [s EXCEPT !.progress = FALSE].bal = s.bal
          /\ [s EXCEPT !.progress = FALSE].left = s.left
          /\ [s EXCEPT !.progress = FALSE].open = s.open
      BY <1>0 DEF Handouts
    <3> QED
      BY <1>2, <3>1
  <2> HIDE DEF r
  <2>2. rest(0) = s.open
    BY <1>0
  <2> HIDE DEF rest
  <2>3. Typed(r)
    BY <1>0, <2>1 DEF Limited
  <2>4. Untouched(0, r) /\ Given(0, r)
    BY <1>0, <2>1, <2>2
  <2>5. Enough(0, r) /\ Kept(r) /\ Moved(0, r)
    BY <2>1, <2>2 DEF sum
  <2>6. Good(0, r)
    BY <2>3, <2>4, <2>5
  <2> HIDE DEF Good
  <2> QED
    BY <1>0, <2>6 DEF r
<1>4. ASSUME NEW i \in 0 .. N - 1, i \in G
      PROVE  i + 1 \in G
  <2> DEFINE n == i + 1
             r == f[i]
             t == f[n]
  <2>1. /\ n \in 1 .. N /\ n \in 0 .. N /\ n - 1 = i /\ i \in 0 .. N /\ n \in Evses
        /\ \A m \in s.open : (m > i <=> m > n \/ m = n) /\ ~ (n > n)
    <3>1. n \in 1 .. N /\ n \in 0 .. N /\ n - 1 = i /\ i \in 0 .. N /\ n \in Evses
      BY <1>0
    <3>2. n \in Int /\ i \in Int /\ n = i + 1 /\ \A m \in s.open : m \in Int
      BY <1>0, <3>1
    <3> HIDE DEF n
    <3>3. \A m \in s.open : (m > i <=> m > n \/ m = n) /\ ~ (n > n)
      BY <3>2
    <3> QED
      BY <3>1, <3>3
  <2>2. Good(i, r)
    BY <1>4
  <2>3. t = VisitPass(share, n, r)
    BY <1>2, <2>1
  <2>4. /\ r \in Handouts /\ r.open \in SUBSET Evses /\ r.bal \in [Evses -> Nat] /\ r.left \in Nat
        /\ r.progress \in BOOLEAN
    BY <2>2 DEF Limited, Handouts
  <2>5. /\ rest(i) = rest(n) \cup (s.open \cap {n}) /\ n \notin rest(n)
        /\ rest(n) \subseteq s.open
    BY <2>1
  <2> HIDE DEF n, r, t, rest, Good
  <2>6. CASE n \notin s.open
    <3>1. t = r
      BY <2>2, <2>3, <2>6 DEF VisitPass, Good
    <3>2. rest(i) = rest(n)
      BY <2>5, <2>6
    <3>3. Good(n, r)
      BY <2>2, <3>2 DEF Good
    <3>4. Good(n, t)
      BY <3>1, <3>3
    <3> QED
      BY <2>1, <3>4 DEF n, t
  <2>7. CASE n \in s.open
    <3>1. n \in rest(i) /\ n \in r.open /\ r.bal[n] = s.bal[n] /\ r.bal[n] <= BalancedMax[n]
      BY <1>0, <2>2, <2>5, <2>7 DEF Good, Limited
    <3>2. t \in Handouts /\ Visited(share, n, r, t)
      BY <2>3, <2>4, <3>1, VisitGives
    <3>3. /\ t.open \in SUBSET Evses /\ t.bal \in [Evses -> Nat] /\ t.left \in Nat
          /\ t.open \subseteq r.open /\ r.open \subseteq t.open \cup {n}
          /\ \A m \in Evses \ {n} : t.bal[m] = r.bal[m]
      BY <3>2 DEF Handouts, Visited
    <3> DEFINE gain == t.bal[n] - r.bal[n]
    <3>4. /\ gain \in Nat /\ gain <= share /\ t.left = r.left - gain /\ t.left <= r.left
          /\ t.bal[n] = r.bal[n] + gain
      BY <2>1, <2>4, <3>2, <3>3 DEF Visited
    <3> HIDE DEF gain
    <3>5. Typed(t)
      <4>1. r.open \subseteq s.open /\ r.left <= s.left /\ Limited(r, active)
        BY <2>2 DEF Good
      <4>2. ASSUME NEW m \in active
            PROVE  t.bal[m] <= BalancedMax[m] /\ (m \notin t.open => t.bal[m] = BalancedMax[m])
        <5>1. CASE m = n
          BY <3>2, <5>1 DEF Visited
        <5>2. CASE m # n
          BY <3>3, <4>1, <5>2 DEF Limited
        <5> QED
          BY <5>1, <5>2
      <4>3. Limited(t, active)
        BY <1>0, <3>2, <3>3, <4>1, <4>2 DEF Limited
      <4>4. t.left <= s.left
        BY <1>0, <2>4, <3>3, <3>4, <4>1
      <4>5. t.open \subseteq s.open
        BY <3>3, <4>1
      <4> QED
        BY <4>3, <4>4, <4>5
    <3>6. Untouched(n, t)
      <4>1. Untouched(i, r)
        BY <2>2 DEF Good
      <4>2. rest(n) \subseteq t.open
        BY <2>5, <3>3, <4>1
      <4>3. \A m \in rest(n) \cup (Evses \ s.open) : m \in Evses \ {n} /\ r.bal[m] = s.bal[m]
        BY <1>0, <2>5, <2>7, <4>1
      <4> QED
        BY <3>3, <4>2, <4>3
    <3>7. t.bal[n] \in {BalancedMax[n], s.bal[n] + share} \/ (t.left = 0 /\ share = 1)
      <4>1. CASE t.bal[n] \in {BalancedMax[n], r.bal[n] + share}
        BY <3>1, <4>1
      <4>2. CASE t.bal[n] = r.bal[n] + r.left
        <5>1. r.bal[n] \in Nat
          BY <2>1, <2>4
        <5>2. gain = r.left /\ t.left = 0
          BY <2>4, <3>4, <4>2, <5>1
        <5>3. CASE share * Cardinality(rest(i)) <= r.left
          <6>1. Cardinality(rest(i)) \in Nat \ {0}
            <7>1. rest(i) \in SUBSET Evses
              BY <1>0 DEF rest
            <7> QED
              BY <3>1, <7>1, Counted
          <6>2. share <= share * Cardinality(rest(i))
            BY <6>1
          <6>3. share * Cardinality(rest(i)) \in Nat
            BY <6>1
          <6>4. share <= r.left
            BY <2>4, <5>3, <6>2, <6>3
          <6>5. gain = share
            BY <2>4, <3>4, <5>2, <6>4
          <6> QED
            BY <3>1, <3>4, <6>5
        <5> QED
          BY <2>2, <5>2, <5>3 DEF Good
      <4> QED
        BY <3>2, <4>1, <4>2 DEF Visited
    <3>8. Given(n, t)
      <4> SUFFICES ASSUME NEW m \in s.open \ rest(n)
                   PROVE  /\ s.bal[m] <= t.bal[m] /\ t.bal[m] <= s.bal[m] + share
                          /\ \/ t.bal[m] \in {BalancedMax[m], s.bal[m] + share}
                             \/ t.left = 0 /\ share = 1
        OBVIOUS
      <4>1. CASE m = n
        <5>1. s.bal[n] \in Nat
          BY <1>0, <2>1
        <5> QED
          BY <3>1, <3>4, <3>7, <4>1, <5>1
      <4>2. CASE m # n
        <5>1. m \in s.open \ rest(i) /\ t.bal[m] = r.bal[m]
          BY <1>0, <2>5, <3>3, <4>2
        <5>2. Given(i, r)
          BY <2>2 DEF Good
        <5>3. r.left = 0 => t.left = 0
          BY <2>4, <3>3, <3>4
        <5> QED
          BY <5>1, <5>2, <5>3
      <4> QED
        BY <4>1, <4>2
    <3>9. Enough(n, t)
      <4> DEFINE c == Cardinality(rest(i))
      <4>1. CASE share * c <= r.left
        <5>1. rest(i) \in SUBSET Evses /\ rest(n) = rest(i) \ {n}
          BY <1>0, <2>5 DEF rest
        <5>2. c \in Nat \ {0} /\ Cardinality(rest(n)) = c - 1
          BY <3>1, <5>1, Counted
        <5> HIDE DEF c
        <5>3. share * (c - 1) = share * c - share /\ share * c \in Nat
          BY <5>2
        <5>4. share * c - share <= r.left - gain
          BY <2>4, <3>4, <4>1, <5>3
        <5> QED
          BY <3>4, <5>2, <5>3, <5>4
      <4> QED
        BY <2>2, <4>1 DEF Good
    <3>10. Kept(t)
      <4> DEFINE bal == r.bal
                 other == t.bal
      <4>1. bal \in [Evses -> Nat] /\ other \in [Evses -> Nat] /\ n \in Evses /\ gain \in Int
        BY <2>1, <2>4, <3>3, <3>4
      <4>2. Plus(other, active, n) = Plus(bal, active, n) + gain
        BY <1>0, <2>7, <3>4 DEF Plus
      <4>3. \A m \in Evses : m # n => Plus(other, active, m) = Plus(bal, active, m)
        BY <3>3 DEF Plus
      <4>4. Total(bal, active) + r.left = sum
        BY <2>2 DEF Good
      <4> HIDE DEF bal, other
      <4>5. Total(bal, active) \in Nat /\ Total(other, active) = Total(bal, active) + gain
        BY <4>1, <4>2, <4>3, TotalDiffers
      <4>6. Total(other, active) + t.left = sum
        BY <2>4, <3>3, <3>4, <4>4, <4>5
      <4> QED
        BY <4>6 DEF other
    <3>11. Moved(n, t)
      <4>1. rest(n) # s.open
        BY <2>5, <2>7
      <4>2. CASE r.left > 0 /\ n \notin t.open
        BY <2>7, <3>2, <4>1, <4>2 DEF Visited
      <4>3. CASE r.left > 0 /\ t.left < r.left
        <5>1. t.left < s.left
          BY <1>0, <2>2, <2>4, <3>3, <4>3 DEF Good
        <5> QED
          BY <3>2, <4>1, <4>3, <5>1 DEF Visited
      <4>4. CASE r.left = 0
        <5>1. r.progress
          BY <1>0, <2>2, <4>4 DEF Good
        <5>2. t.left < s.left
          BY <1>0, <2>4, <3>3, <3>4, <4>4
        <5> QED
          BY <3>2, <4>1, <5>1, <5>2 DEF Visited
      <4>5. r.left = 0 \/ r.left > 0
        BY <2>4
      <4> QED
        BY <3>2, <4>2, <4>3, <4>4, <4>5 DEF Visited
    <3>12. Good(n, t)
      BY <3>5, <3>6, <3>8, <3>9, <3>10, <3>11 DEF Good
    <3> QED
      BY <2>1, <3>12 DEF n, t
  <2> QED
    BY <2>6, <2>7
<1>5. Good(N, f[N])
  <2> HIDE DEF Good
  <2>1. \A n \in 0 .. N : n \in G
    <3> HIDE DEF G
    <3> QED
      BY <1>0, <1>3, <1>4, Induct
  <2> QED
    BY <1>0, <2>1
<1>6. rest(N) = {} /\ rest(N) # s.open
  BY <1>0
<1> HIDE DEF rest
<1> QED
  BY <1>5, <1>6 DEF RoundGives, f, sum

Share(s) == Max({1, s.left \div Cardinality(s.open)})

LEMMA ShareFits ==
    ASSUME NEW s \in Handouts, s.open # {}
    PROVE  /\ Share(s) \in Nat \ {0}
           /\ Share(s) = 1 \/ Share(s) * Cardinality(s.open) <= s.left
<1> DEFINE k == Cardinality(s.open)
           d == s.left \div k
<1>1. s.left \in Nat /\ k \in Nat \ {0}
  BY Counted DEF Handouts
<1>2. d \in Nat /\ d * k <= s.left
  BY <1>1, DivBounds
<1>3. Share(s) = IF 1 <= d THEN d ELSE 1
  BY <1>2, MaxOfTwo DEF Share
<1> HIDE DEF d, k
<1> QED
  BY <1>2, <1>3 DEF k

RoundPass(k, s) == IF s.left <= 0 \/ ~s.progress \/ s.open = {} THEN s ELSE Round(s)

LEMMA RoundPassType ==
    ASSUME NEW s \in Handouts, NEW k
    PROVE  RoundPass(k, s) \in Handouts
<1> SUFFICES ASSUME s.open # {} PROVE Round(s) \in Handouts
  BY DEF RoundPass
<1>1. IsVisiting(Visits(s, Share(s)), s, Share(s))
  BY ShareFits, VisitsSteps
<1>2. N \in 0 .. N
  BY DistributionAssumption
<1> QED
  BY <1>1, <1>2 DEF IsVisiting, Round, Share

IsHandingOut(f, balanced, active, surplus) ==
    /\ f \in [0 .. surplus + N -> Handouts]
    /\ f[0] = [bal |-> balanced, left |-> surplus, open |-> active, progress |-> TRUE]
    /\ \A k \in 1 .. surplus + N : f[k] = RoundPass(k, f[k - 1])

LEMMA RoundsSteps ==
    ASSUME NEW balanced \in [Evses -> Nat], NEW active \in SUBSET Evses,
           NEW surplus \in Nat
    PROVE  IsHandingOut(Rounds(balanced, active, surplus), balanced, active, surplus)
<1> DEFINE Body(k, s) == RoundPass(k, s)
           init == [bal |-> balanced, left |-> surplus, open |-> active, progress |-> TRUE]
           step == [k \in 1 .. surplus + N |-> [s \in Handouts |-> Body(k, s)]]
           IsLoop(f) == f = [k \in 0 .. surplus + N |-> IF k = 0 THEN init ELSE Body(k, f[k - 1])]
<1>1. /\ surplus + N \in Nat /\ init \in Handouts
      /\ \A k \in 1 .. surplus + N, s \in Handouts : Body(k, s) \in Handouts
  <2>1. \A k \in 1 .. surplus + N, s \in Handouts : Body(k, s) \in Handouts
    BY RoundPassType
  <2>2. surplus + N \in Nat /\ init \in Handouts
    BY DistributionAssumption DEF Handouts
  <2> QED
    BY <2>1, <2>2
<1>2. Rounds(balanced, active, surplus) = CHOOSE f : IsLoop(f)
  BY DEF Rounds, RoundPass
<1> HIDE DEF Body, init
<1>3. /\ step \in Passes(surplus + N, Handouts)
      /\ \A k \in 1 .. surplus + N, s \in Handouts : step[k][s] = Body(k, s)
  BY <1>1 DEF Passes
<1> HIDE DEF step
<1>4. PICK f \in [0 .. surplus + N -> Handouts] :
          f[0] = init /\ \A k \in 1 .. surplus + N : f[k] = step[k][f[k - 1]]
  <2>1. Loops(surplus + N, Handouts, init, step) # {}
    BY <1>1, <1>3, LoopExists
  <2> QED
    BY <2>1 DEF Loops
<1>5. IsLoop(f)
  <2>1. \A k \in 1 .. surplus + N : f[k - 1] \in Handouts /\ f[k] = Body(k, f[k - 1])
    BY <1>1, <1>3, <1>4
  <2>2. \A k \in 0 .. surplus + N : f[k] = IF k = 0 THEN init ELSE Body(k, f[k - 1])
    BY <1>1, <1>4, <2>1
  <2> QED
    BY <2>2
<1> DEFINE g == Rounds(balanced, active, surplus)
<1>6. IsLoop(g)
  <2> HIDE DEF IsLoop
  <2> QED
    BY <1>2, <1>5
<1> HIDE DEF g
<1>7. /\ g = [k \in 0 .. surplus + N |-> g[k]] /\ g[0] = init
      /\ \A k \in 1 .. surplus + N : g[k] = Body(k, g[k - 1])
  <2>1. \A k \in 0 .. surplus + N : g[k] = IF k = 0 THEN init ELSE Body(k, g[k - 1])
    BY <1>6
  <2>2. g = [k \in 0 .. surplus + N |-> g[k]]
    BY <1>6
  <2> HIDE DEF IsLoop
  <2>3. g[0] = init /\ \A k \in 1 .. surplus + N : k \in 0 .. surplus + N /\ k # 0
    BY <1>1, <2>1
  <2> QED
    BY <2>1, <2>2, <2>3
<1>8. g \in [0 .. surplus + N -> Handouts]
  <2>1. GoesOn(g, surplus + N, Handouts, init, step)
    BY <1>3, <1>7 DEF GoesOn
  <2> QED
    BY <1>1, <1>3, <2>1, LoopIsThis
<1> QED
  BY <1>7, <1>8 DEF g, Body, init, IsHandingOut

(* Nobody who could take more has less than another, by more than slack *)
EvenBut(bal, S, slack) ==
    \A m, n \in S : bal[n] < BalancedMax[n] => bal[m] <= bal[n] + slack

LEMMA RoundKeepsEven ==
    ASSUME NEW active \in SUBSET Evses, NEW s, Limited(s, active), NEW t,
           NEW share \in Nat \ {0}, RoundGives(s, t, active, share),
           EvenBut(s.bal, active, 0)
    PROVE  EvenBut(t.bal, active, IF t.left = 0 THEN 1 ELSE 0)
<1> SUFFICES ASSUME NEW m \in active, NEW n \in active, t.bal[n] < BalancedMax[n]
             PROVE  t.bal[m] <= t.bal[n] + (IF t.left = 0 THEN 1 ELSE 0)
  BY DEF EvenBut
<1>1. /\ s.bal[m] \in Nat /\ s.bal[n] \in Nat /\ t.bal[m] \in Nat /\ t.bal[n] \in Nat
      /\ BalancedMax[n] \in Nat /\ m \in Evses /\ n \in Evses
  BY DistributionAssumption DEF RoundGives, Limited, Handouts
<1>2. n \in s.open
  <2>1. n \in active \ s.open => t.bal[n] = BalancedMax[n]
    BY <1>1 DEF RoundGives, Limited
  <2> QED
    BY <1>1, <2>1
<1>3. /\ s.bal[n] <= t.bal[n]
      /\ t.bal[n] = s.bal[n] + share \/ (t.left = 0 /\ share = 1)
  BY <1>1, <1>2 DEF RoundGives
<1>4. s.bal[m] <= s.bal[n]
  <2>1. s.bal[n] < BalancedMax[n]
    BY <1>1, <1>3
  <2>2. s.bal[m] <= s.bal[n] + 0
    BY <2>1 DEF EvenBut
  <2> QED
    BY <1>1, <2>2
<1>5. t.bal[m] <= s.bal[m] + share
  <2>1. CASE m \in s.open
    BY <2>1 DEF RoundGives
  <2>2. CASE m \notin s.open
    <3>1. t.bal[m] = s.bal[m]
      BY <1>1, <2>2 DEF RoundGives
    <3> QED
      BY <1>1, <3>1
  <2> QED
    BY <2>1, <2>2
<1> QED
  BY <1>1, <1>3, <1>4, <1>5

(* The rounds of evse_handout_surplus end; they give out the surplus as far as    *)
(* the active EVSEs can take it, take nothing from anybody, and from equal        *)
(* currents make equal ones, but for a rest of 1                                 *)
THEOREM SurplusIsShared ==
    ASSUME NEW balanced \in [Evses -> Nat], NEW active \in SUBSET Evses, NEW surplus \in Nat,
           \A n \in active : balanced[n] <= BalancedMax[n]
    PROVE  LET bal == Handout(balanced, active, surplus)
           IN  /\ bal \in [Evses -> Nat]
               /\ \A n \in Evses \ active : bal[n] = balanced[n]
               /\ \A n \in active : balanced[n] <= bal[n] /\ bal[n] <= BalancedMax[n]
               /\ Total(bal, active) = Min({Total(balanced, active) + surplus,
                                           Total(BalancedMax, active)})
               /\ EvenBut(balanced, active, 0) => EvenBut(bal, active, 1)
<1> DEFINE M == surplus + N
           f == Rounds(balanced, active, surplus)
           sum == Total(balanced, active) + surplus
           Ended(s) == s.left = 0 \/ s.open = {}
           Good(k, s) ==
               /\ Limited(s, active) /\ s.progress
               /\ \A n \in Evses \ active : s.bal[n] = balanced[n]
               /\ \A n \in active : balanced[n] <= s.bal[n]
               /\ Total(s.bal, active) + s.left = sum
               /\ Ended(s) \/ s.left + Cardinality(s.open) + k <= M
               /\ EvenBut(balanced, active, 0) =>
                      EvenBut(s.bal, active, IF s.left = 0 THEN 1 ELSE 0)
           G == {k \in 0 .. M : Good(k, f[k])}
<1>0. /\ N \in Nat /\ M \in Nat /\ BalancedMax \in [Evses -> Nat]
  BY DistributionAssumption
<1>1. IsHandingOut(f, balanced, active, surplus)
  BY RoundsSteps
<1>2. /\ f \in [0 .. M -> Handouts]
      /\ f[0] = [bal |-> balanced, left |-> surplus, open |-> active, progress |-> TRUE]
      /\ \A k \in 1 .. M : f[k] = RoundPass(k, f[k - 1])
  BY <1>1 DEF IsHandingOut
<1> HIDE DEF f, sum
<1>3. 0 \in G
  <2> DEFINE r == f[0]
  <2>1. /\ r \in Handouts /\ r.bal = balanced /\ r.left = surplus /\ r.open = active
        /\ r.progress
    <3>1. r = [bal |-> balanced, left |-> surplus, open |-> active, progress |-> TRUE]
      BY <1>2
    <3> HIDE DEF r
    <3> QED
      BY <3>1 DEF Handouts
  <2> HIDE DEF r
  <2>2. Limited(r, active)
    BY <2>1 DEF Limited
  <2>3. r.left + Cardinality(r.open) + 0 <= M
    BY <1>0, <2>1, Counted
  <2>4. ASSUME EvenBut(balanced, active, 0)
        PROVE  EvenBut(r.bal, active, IF r.left = 0 THEN 1 ELSE 0)
    <3>1. \A m, n \in active : /\ balanced[m] \in Nat /\ balanced[n] \in Nat
                               /\ balanced[n] < BalancedMax[n] => balanced[m] <= balanced[n] + 0
      BY <2>4 DEF EvenBut
    <3> QED
      BY <2>1, <3>1 DEF EvenBut
  <2>5. \A n \in active : balanced[n] <= r.bal[n]
    BY <2>1
  <2>6. Good(0, r)
    BY <2>1, <2>2, <2>3, <2>4, <2>5 DEF sum
  <2> HIDE DEF Good
  <2> QED
    BY <1>0, <2>6 DEF r
<1>4. ASSUME NEW i \in 0 .. M - 1, i \in G
      PROVE  i + 1 \in G
  <2> DEFINE k == i + 1
             s == f[i]
             t == f[k]
  <2>1. k \in 1 .. M /\ k \in 0 .. M /\ k - 1 = i /\ i \in 0 .. M
    BY <1>0
  <2>2. Good(i, s)
    BY <1>4
  <2>3. t = RoundPass(k, s)
    BY <1>2, <2>1
  <2>4. /\ s \in Handouts /\ s.left \in Nat /\ s.open \in SUBSET Evses /\ s.bal \in [Evses -> Nat]
    BY <2>2 DEF Limited, Handouts
  <2> HIDE DEF k, s, t, Good, M
  <2>5. CASE Ended(s)
    <3>1. t = s
      BY <2>3, <2>4, <2>5 DEF RoundPass
    <3>2. Good(k, s)
      BY <2>2, <2>5 DEF Good
    <3>3. Good(k, t)
      BY <3>1, <3>2
    <3> QED
      BY <2>1, <3>3 DEF k, t
  <2>6. CASE ~ Ended(s)
    <3>1. s.left > 0 /\ s.open # {} /\ s.progress /\ Limited(s, active)
      BY <2>2, <2>4, <2>6 DEF Good
    <3>2. t = Visits(s, Share(s))[N]
      <4>1. t = Round(s)
        BY <2>3, <2>4, <3>1 DEF RoundPass
      <4> QED
        BY <4>1 DEF Round, Share
    <3> DEFINE share == Share(s)
    <3>3. share \in Nat \ {0} /\ RoundGives(s, t, active, share)
      BY <2>4, <3>1, <3>2, ShareFits, VisitsGive
    <3> HIDE DEF share
    <3>4. /\ t \in Handouts /\ t.left \in Nat /\ t.open \in SUBSET Evses /\ t.bal \in [Evses -> Nat]
      BY <3>3 DEF RoundGives, Limited, Handouts
    <3>5. Limited(t, active) /\ t.progress
      BY <3>3 DEF RoundGives
    <3>6. \A n \in Evses \ active : t.bal[n] = balanced[n]
      BY <2>2, <3>1, <3>3 DEF RoundGives, Limited, Good
    <3>7. ASSUME NEW n \in active PROVE balanced[n] <= t.bal[n]
      <4>1. balanced[n] \in Nat /\ s.bal[n] \in Nat /\ t.bal[n] \in Nat /\ balanced[n] <= s.bal[n]
        BY <2>2, <2>4, <3>4 DEF Good
      <4>2. s.bal[n] <= t.bal[n]
        <5>1. n \in s.open => s.bal[n] <= t.bal[n]
          BY <3>3 DEF RoundGives
        <5>2. n \notin s.open => s.bal[n] = t.bal[n]
          BY <3>3 DEF RoundGives
        <5> QED
          BY <4>1, <5>1, <5>2
      <4> QED
        BY <4>1, <4>2
    <3>8. Total(t.bal, active) + t.left = sum
      BY <2>2, <3>3 DEF RoundGives, Good
    <3>9. s.left + Cardinality(s.open) + i <= M
      BY <2>2, <2>6 DEF Good
    <3>10. t.left + Cardinality(t.open) + k <= M
      <4>1. t.open \subseteq s.open /\ t.left <= s.left /\ (t.left < s.left \/ t.open # s.open)
        BY <3>3 DEF RoundGives
      <4>2. Cardinality(t.open) \in Nat /\ Cardinality(s.open) \in Nat
        BY <2>4, <3>4, Counted
      <4>3. CASE t.open = s.open
        BY <1>0, <2>1, <2>4, <3>4, <3>9, <4>1, <4>2, <4>3 DEF k
      <4>4. CASE t.open # s.open
        <5>1. PICK n \in s.open : n \notin t.open
          BY <4>1, <4>4
        <5>2. Cardinality(s.open \ {n}) = Cardinality(s.open) - 1 /\ IsFiniteSet(s.open \ {n})
          BY <2>4, Counted
        <5>3. Cardinality(t.open) <= Cardinality(s.open \ {n})
          BY <4>1, <5>1, <5>2, FS_Subset
        <5> QED
          BY <1>0, <2>1, <2>4, <3>4, <3>9, <4>1, <4>2, <5>2, <5>3 DEF k
      <4> QED
        BY <4>3, <4>4
    <3>11. ASSUME EvenBut(balanced, active, 0)
           PROVE  EvenBut(t.bal, active, IF t.left = 0 THEN 1 ELSE 0)
      <4>1. EvenBut(s.bal, active, 0)
        BY <2>2, <3>1, <3>11 DEF Good
      <4> QED
        BY <3>1, <3>3, <4>1, RoundKeepsEven
    <3>12. Good(k, t)
      BY <3>5, <3>6, <3>7, <3>8, <3>10, <3>11 DEF Good
    <3> QED
      BY <2>1, <3>12 DEF k, t
  <2> QED
    BY <2>5, <2>6
<1> DEFINE s == f[M]
           bal == s.bal
<1>5. Good(M, s)
  <2> HIDE DEF Good, M
  <2>1. \A k \in 0 .. M : k \in G
    <3> HIDE DEF G
    <3> QED
      BY <1>0, <1>3, <1>4, Induct
  <2> QED
    BY <1>0, <2>1
<1>6. /\ s.left \in Nat /\ s.open \in SUBSET Evses /\ bal \in [Evses -> Nat]
      /\ \A n \in active : bal[n] <= BalancedMax[n]
      /\ \A n \in active \ s.open : bal[n] = BalancedMax[n]
  BY <1>5 DEF Limited, Handouts
<1>7. bal = Handout(balanced, active, surplus)
  BY DEF Handout, f
<1> HIDE DEF s, M
<1>8. Ended(s)
  <2>1. CASE s.left + Cardinality(s.open) + M <= M
    <3>1. Cardinality(s.open) \in Nat
      BY <1>6, Counted
    <3>2. s.left = 0
      BY <1>0, <1>6, <2>1, <3>1
    <3> QED
      BY <3>2
  <2> QED
    BY <1>5, <2>1
<1> HIDE DEF bal
<1>9. /\ Total(bal, active) \in Nat /\ Total(BalancedMax, active) \in Nat
      /\ Total(bal, active) <= Total(BalancedMax, active)
      /\ Total(bal, active) + s.left = sum
  <2>1. Total(bal, active) + s.left = sum
    BY <1>5 DEF bal
  <2> QED
    BY <1>0, <1>6, <2>1, TotalGrows
<1>10. Total(bal, active) = Min({sum, Total(BalancedMax, active)})
  <2>1. CASE s.left = 0
    BY <1>9, <2>1, MinOfTwo
  <2>2. CASE s.open = {}
    <3>1. \A n \in Evses \cap active : BalancedMax[n] <= bal[n]
      BY <1>0, <1>6, <2>2
    <3>2. Total(BalancedMax, active) <= Total(bal, active)
      BY <1>0, <1>6, <3>1, TotalGrows
    <3> QED
      BY <1>6, <1>9, <3>2, MinOfTwo
  <2> QED
    BY <1>8, <2>1, <2>2
<1>11. ASSUME EvenBut(balanced, active, 0) PROVE EvenBut(bal, active, 1)
  <2>1. EvenBut(bal, active, IF s.left = 0 THEN 1 ELSE 0)
    BY <1>5, <1>11 DEF bal
  <2>2. \A n \in active : bal[n] \in Nat
    BY <1>6
  <2> QED
    BY <2>1, <2>2 DEF EvenBut
<1> QED
  BY <1>5, <1>6, <1>7, <1>10, <1>11 DEF bal, sum

----------------------------------------------------------------------------
(* evse_sort_priority                                                       *)

LEMMA MaxIsIn ==
    ASSUME NEW k \in Nat, NEW T \in SUBSET (0 .. k), T # {}
    PROVE  Max(T) \in T /\ \A y \in T : y <= Max(T)
<1> DEFINE U == {k - x : x \in T}
<1>1. U \in SUBSET Nat /\ U # {}
  <2>1. \A x \in T : k - x \in Nat
    OBVIOUS
  <2>2. PICK x \in T : TRUE
    OBVIOUS
  <2>3. k - x \in U
    BY Zenon
  <2>4. U \in SUBSET Nat
    BY <2>1
  <2> QED
    BY <2>3, <2>4
<1>2. PICK u \in U : \A y \in U : u <= y
  <2> HIDE DEF U
  <2> QED
    BY <1>1, Least
<1>3. PICK x \in T : u = k - x
  BY <1>2
<1>4. \A y \in T : y <= x
  <2> SUFFICES ASSUME NEW y \in T PROVE y <= x
    OBVIOUS
  <2>1. k - y \in U
    BY Zenon
  <2>2. k - x <= k - y
    BY <1>2, <1>3, <2>1
  <2> QED
    BY <2>2
<1>5. \E z \in T : \A y \in T : y <= z
  BY <1>4
<1> QED
  BY <1>5 DEF Max

(* The comparison of the code is a strict weak order, whatever the times are *)
LEMMA BeforeIsOrder ==
    ASSUME NEW charging, NEW connected \in [Evses -> Nat], NEW strategy,
           NEW a \in Evses, NEW b \in Evses, NEW c \in Evses
    PROVE  /\ Before(a, b, charging, connected, strategy)
                  => ~ Before(b, a, charging, connected, strategy)
           /\ ~ (\/ Before(a, b, charging, connected, strategy)
                 \/ Before(b, c, charging, connected, strategy))
                  => ~ Before(a, c, charging, connected, strategy)
<1> DEFINE By(x, y) == Before(x, y, charging, connected, strategy)
<1>1. /\ connected[a] \in Nat /\ connected[b] \in Nat /\ connected[c] \in Nat
      /\ a \in Nat /\ b \in Nat /\ c \in Nat
  BY DistributionAssumption DEF Evses
<1>2. CASE strategy = "FIRST_CONNECTED"
  <2>1. \A x, y \in {a, b, c} : By(x, y) <=>
           IF (x \in charging) # (y \in charging) THEN x \in charging
           ELSE connected[x] # 0 /\ (connected[y] = 0 \/ connected[x] < connected[y])
    BY <1>2 DEF Before
  <2> HIDE DEF By
  <2>2. (By(a, b) => ~ By(b, a)) /\ (~ By(a, b) /\ ~ By(b, c) => ~ By(a, c))
    BY <1>1, <2>1
  <2> QED
    BY <2>2 DEF By
<1>3. CASE strategy = "LAST_CONNECTED"
  <2>1. \A x, y \in {a, b, c} : By(x, y) <=>
           IF (x \in charging) # (y \in charging) THEN x \in charging
           ELSE connected[x] > connected[y]
    BY <1>3 DEF Before
  <2> HIDE DEF By
  <2>2. (By(a, b) => ~ By(b, a)) /\ (~ By(a, b) /\ ~ By(b, c) => ~ By(a, c))
    BY <1>1, <2>1
  <2> QED
    BY <2>2 DEF By
<1>4. CASE strategy \notin {"FIRST_CONNECTED", "LAST_CONNECTED"}
  <2>1. \A x, y \in {a, b, c} : By(x, y) <=>
           IF (x \in charging) # (y \in charging) THEN x \in charging
           ELSE x < y
    BY <1>4 DEF Before
  <2> HIDE DEF By
  <2>2. (By(a, b) => ~ By(b, a)) /\ (~ By(a, b) /\ ~ By(b, c) => ~ By(a, c))
    BY <1>1, <2>1
  <2> QED
    BY <2>2 DEF By
<1> QED
  BY <1>2, <1>3, <1>4

Stop(charging, connected, strategy, key, prio) ==
    Max({0} \cup {i \in 1 .. key - 1 : ~Before(key, prio[i], charging, connected, strategy)})

InsertionPass(charging, connected, strategy, key, prio) ==
    [i \in Evses |->
        IF i <= Stop(charging, connected, strategy, key, prio) \/ i > key THEN prio[i]
        ELSE IF i = Stop(charging, connected, strategy, key, prio) + 1 THEN key ELSE prio[i - 1]]

(* A key stops below one that it does not go in front of, and all that it passes *)
(* come after it                                                                 *)
LEMMA StopIsPlace ==
    ASSUME NEW charging, NEW connected, NEW strategy, NEW key \in Evses, NEW prio
    PROVE  LET m == Stop(charging, connected, strategy, key, prio)
           IN  /\ m \in 0 .. key - 1
               /\ m # 0 => ~Before(key, prio[m], charging, connected, strategy)
               /\ \A i \in 1 .. key - 1 :
                     i > m => Before(key, prio[i], charging, connected, strategy)
<1> DEFINE T == {i \in 1 .. key - 1 : ~Before(key, prio[i], charging, connected, strategy)}
           m == Max({0} \cup T)
<1>1. key \in Nat \ {0} /\ T \subseteq 1 .. key - 1
  BY DistributionAssumption DEF Evses
<1>2. \A i \in 1 .. key - 1 : i \in T <=> ~Before(key, prio[i], charging, connected, strategy)
  OBVIOUS
<1>3. m = Stop(charging, connected, strategy, key, prio)
  BY DEF Stop
<1> HIDE DEF T
<1>4. m \in {0} \cup T /\ \A y \in {0} \cup T : y <= m
  <2>1. {0} \cup T \in SUBSET (0 .. key - 1) /\ {0} \cup T # {} /\ key - 1 \in Nat
    BY <1>1
  <2> QED
    BY <2>1, MaxIsIn
<1> HIDE DEF m
<1>5. m \in 0 .. key - 1 /\ (m # 0 => m \in T)
  BY <1>1, <1>4
<1>6. \A i \in 1 .. key - 1 : i > m => i \notin T
  BY <1>1, <1>4, <1>5
<1> QED
  BY <1>1, <1>2, <1>3, <1>5, <1>6

IsInserting(f, charging, connected, strategy) ==
    /\ f \in [0 .. N -> [Evses -> Evses]]
    /\ f[0] = [i \in Evses |-> i]
    /\ \A key \in 1 .. N : f[key] = InsertionPass(charging, connected, strategy, key, f[key - 1])

LEMMA InsertionsSteps ==
    ASSUME NEW charging, NEW connected, NEW strategy
    PROVE  IsInserting(Insertions(charging, connected, strategy), charging, connected, strategy)
<1> DEFINE Body(key, s) == InsertionPass(charging, connected, strategy, key, s)
           init == [i \in Evses |-> i]
           step == [key \in 1 .. N |-> [s \in [Evses -> Evses] |-> Body(key, s)]]
           IsLoop(f) == f = [key \in 0 .. N |-> IF key = 0 THEN init ELSE Body(key, f[key - 1])]
<1>1. /\ N \in Nat /\ init \in [Evses -> Evses]
      /\ \A key \in 1 .. N, s \in [Evses -> Evses] : Body(key, s) \in [Evses -> Evses]
  <2>1. ASSUME NEW key \in 1 .. N, NEW s \in [Evses -> Evses] PROVE Body(key, s) \in [Evses -> Evses]
    <3> DEFINE m == Stop(charging, connected, strategy, key, s)
    <3>1. m \in 0 .. key - 1 /\ key \in Evses /\ Evses = 1 .. N /\ N \in Nat
      BY DistributionAssumption, StopIsPlace DEF Evses
    <3>2. Body(key, s) = [i \in Evses |-> IF i <= m \/ i > key THEN s[i]
                                         ELSE IF i = m + 1 THEN key ELSE s[i - 1]]
      BY DEF InsertionPass
    <3> HIDE DEF m, Body
    <3>3. \A i \in Evses : ~ (i <= m \/ i > key) /\ i # m + 1 => i - 1 \in Evses
      BY <3>1
    <3>4. \A i \in Evses : (IF i <= m \/ i > key THEN s[i]
                             ELSE IF i = m + 1 THEN key ELSE s[i - 1]) \in Evses
      BY <3>1, <3>3
    <3> QED
      BY <3>2, <3>4
  <2>2. N \in Nat /\ init \in [Evses -> Evses]
    BY DistributionAssumption
  <2> QED
    BY <2>1, <2>2
<1>2. Insertions(charging, connected, strategy) = CHOOSE f : IsLoop(f)
  BY DEF Insertions, InsertionPass, Stop
<1> HIDE DEF Body, init
<1>3. /\ step \in Passes(N, [Evses -> Evses])
      /\ \A key \in 1 .. N, s \in [Evses -> Evses] : step[key][s] = Body(key, s)
  BY <1>1 DEF Passes
<1> HIDE DEF step
<1>4. PICK f \in [0 .. N -> [Evses -> Evses]] :
          f[0] = init /\ \A key \in 1 .. N : f[key] = step[key][f[key - 1]]
  <2>1. Loops(N, [Evses -> Evses], init, step) # {}
    BY <1>1, <1>3, LoopExists
  <2> QED
    BY <2>1 DEF Loops
<1>5. IsLoop(f)
  <2>1. \A key \in 1 .. N : f[key - 1] \in [Evses -> Evses] /\ f[key] = Body(key, f[key - 1])
    BY <1>1, <1>3, <1>4
  <2>2. \A key \in 0 .. N : f[key] = IF key = 0 THEN init ELSE Body(key, f[key - 1])
    BY <1>1, <1>4, <2>1
  <2> QED
    BY <2>2
<1> DEFINE g == Insertions(charging, connected, strategy)
<1>6. IsLoop(g)
  <2> HIDE DEF IsLoop
  <2> QED
    BY <1>2, <1>5
<1> HIDE DEF g
<1>7. /\ g = [key \in 0 .. N |-> g[key]] /\ g[0] = init
      /\ \A key \in 1 .. N : g[key] = Body(key, g[key - 1])
  <2>1. \A key \in 0 .. N : g[key] = IF key = 0 THEN init ELSE Body(key, g[key - 1])
    BY <1>6
  <2>2. g = [key \in 0 .. N |-> g[key]]
    BY <1>6
  <2> HIDE DEF IsLoop
  <2>3. g[0] = init /\ \A key \in 1 .. N : key \in 0 .. N /\ key # 0
    BY <1>1, <2>1
  <2> QED
    BY <2>1, <2>2, <2>3
<1>8. g \in [0 .. N -> [Evses -> Evses]]
  <2>1. GoesOn(g, N, [Evses -> Evses], init, step)
    BY <1>3, <1>7 DEF GoesOn
  <2> QED
    BY <1>1, <1>3, <2>1, LoopIsThis
<1> QED
  BY <1>7, <1>8 DEF g, Body, init, IsInserting

(* evse_sort_priority yields an order of all EVSEs in which nobody comes after one *)
(* that it goes in front of, whatever the strategy and the times of connection    *)
THEOREM SortIsOrder ==
    ASSUME NEW charging, NEW connected \in [Evses -> Nat], NEW strategy
    PROVE  LET order == Sorted(charging, connected, strategy)
           IN  /\ IsOrder(order)
               /\ \A i, j \in Evses : i < j =>
                     ~ Before(order[j], order[i], charging, connected, strategy)
<1> DEFINE f == Insertions(charging, connected, strategy)
           Goes(x, y) == Before(x, y, charging, connected, strategy)
           Good(k, p) == /\ p \in [Evses -> Evses]
                         /\ \A i \in Evses : i > k => p[i] = i
                         /\ \A i, j \in Evses : p[i] = p[j] => i = j
                         /\ \A n \in Evses : \E i \in Evses : p[i] = n
                         /\ \A i, j \in Evses : i < j /\ j <= k => ~ Goes(p[j], p[i])
           G == {k \in 0 .. N : Good(k, f[k])}
<1>0. N \in Nat /\ Evses = 1 .. N
  BY DistributionAssumption DEF Evses
<1>1. IsInserting(f, charging, connected, strategy)
  BY InsertionsSteps
<1>2. /\ f \in [0 .. N -> [Evses -> Evses]]
      /\ f[0] = [i \in Evses |-> i]
      /\ \A k \in 1 .. N : f[k] = InsertionPass(charging, connected, strategy, k, f[k - 1])
  BY <1>1 DEF IsInserting
<1> HIDE DEF f
<1>a. \A x, y \in Evses : Goes(x, y) => ~ Goes(y, x)
  BY BeforeIsOrder
<1>3. \A x, y, z \in Evses : ~ (Goes(x, y) \/ Goes(y, z)) => ~ Goes(x, z)
  BY BeforeIsOrder
<1> HIDE DEF Goes
<1>4. 0 \in G
  <2> DEFINE p == [i \in Evses |-> i]
  <2>1. p \in [Evses -> Evses] /\ \A i \in Evses : p[i] = i
    OBVIOUS
  <2> HIDE DEF p
  <2>2. \A i, j \in Evses : ~ (i < j /\ j <= 0)
    BY <1>0
  <2>3. Good(0, p)
    BY <2>1, <2>2
  <2>4. f[0] = p
    BY <1>2 DEF p
  <2> HIDE DEF Good
  <2>5. Good(0, f[0])
    BY <2>3, <2>4
  <2> QED
    BY <1>0, <2>5
<1>5. ASSUME NEW n \in 0 .. N - 1, n \in G
      PROVE  n + 1 \in G
  <2> DEFINE key == n + 1
             p == f[n]
             q == f[key]
             m == Stop(charging, connected, strategy, key, p)
  <2>1. key \in Evses /\ key \in 0 .. N /\ key - 1 = n /\ n \in 0 .. N /\ key \in 1 .. N
    BY <1>0
  <2>2. Good(n, p)
    BY <1>5
  <2>3. q = InsertionPass(charging, connected, strategy, key, p)
    BY <1>2, <2>1
  <2> HIDE DEF key, p, q
  <2>4. /\ m \in 0 .. key - 1
        /\ m # 0 => ~ Goes(key, p[m])
        /\ \A i \in 1 .. key - 1 : i > m => Goes(key, p[i])
    BY <2>1, StopIsPlace DEF Goes
  <2>5. q = [i \in Evses |-> IF i <= m \/ i > key THEN p[i]
                             ELSE IF i = m + 1 THEN key ELSE p[i - 1]]
    BY <2>3 DEF InsertionPass
  <2> HIDE DEF m
  <2>6. /\ p \in [Evses -> Evses] /\ p[key] = key
        /\ \A i \in Evses : i > key => p[i] = i
    <3>1. key > n /\ \A i \in Evses : i > key => i > n
      BY <1>0, <2>1
    <3> QED
      BY <2>1, <2>2, <3>1
  \* Where the EVSEs of p are in q
  <2> DEFINE To(i) == IF i <= m \/ i > key THEN i ELSE IF i = key THEN m + 1 ELSE i + 1
  <2>7. ASSUME NEW i \in Evses
        PROVE  /\ To(i) \in Evses /\ q[To(i)] = p[i]
               /\ \E h \in Evses : To(h) = i
    <3>1. /\ N \in Nat /\ Evses = 1 .. N /\ key \in 1 .. N
          /\ m \in Nat /\ m < key /\ i \in 1 .. N
      BY <1>0, <2>1, <2>4
    <3>2. CASE i <= m \/ i > key
      BY <1>0, <2>5, <3>1, <3>2
    <3>3. CASE i > m /\ i <= key
      <4>1. To(i) \in Evses /\ To(i) > m /\ To(i) <= key
        BY <1>0, <3>1, <3>3
      <4>2. q[To(i)] = IF To(i) = m + 1 THEN key ELSE p[To(i) - 1]
        BY <1>0, <2>5, <3>1, <4>1
      <4>3. q[To(i)] = p[i]
        <5>1. CASE i = key
          BY <2>6, <3>1, <4>2, <5>1
        <5>2. CASE i # key
          <6>1. To(i) = i + 1 /\ To(i) # m + 1 /\ To(i) - 1 = i
            BY <3>1, <3>3, <5>2
          <6> QED
            BY <4>2, <6>1
        <5> QED
          BY <5>1, <5>2
      <4>4. \E h \in Evses : To(h) = i
        <5>1. CASE i = m + 1
          <6>1. To(key) = i
            BY <3>1, <5>1
          <6> QED
            BY <2>1, <6>1
        <5>2. CASE i # m + 1
          <6>1. i - 1 \in Evses /\ To(i - 1) = i
            BY <1>0, <3>1, <3>3, <5>2
          <6> QED
            BY <6>1
        <5> QED
          BY <5>1, <5>2
      <4> QED
        BY <4>1, <4>3, <4>4
    <3> QED
      BY <3>1, <3>2, <3>3
  <2>8. \A h, i \in Evses : To(h) = To(i) => h = i
    BY <1>0, <2>1, <2>4
  <2>9. ASSUME NEW h \in Evses, NEW i \in Evses, To(h) < To(i), To(i) <= key
        PROVE  ~ Goes(p[i], p[h])
    <3>1. /\ N \in Nat /\ key \in 1 .. N
          /\ m \in Nat /\ m < key /\ i \in 1 .. N /\ h \in 1 .. N /\ key - 1 = n /\ n \in Nat
      BY <1>0, <2>1, <2>4
    <3>2. i <= key /\ h <= key
      BY <2>9, <3>1
    <3>3. CASE i # key /\ h # key
      <4>1. h < i /\ i <= n
        BY <2>9, <3>1, <3>2, <3>3
      <4> QED
        BY <2>2, <4>1
    <3>4. CASE i = key /\ h # key
      <4>1. h <= m /\ m # 0 /\ m \in Evses /\ m <= n
        BY <1>0, <2>9, <3>1, <3>2, <3>4
      <4>2. ~ Goes(key, p[m]) /\ p[i] = key
        BY <2>4, <2>6, <3>4, <4>1
      <4>3. CASE h = m
        BY <4>2, <4>3
      <4>4. CASE h # m
        <5>1. ~ Goes(p[m], p[h])
          <6>1. h < m
            BY <3>1, <4>1, <4>4
          <6> QED
            BY <2>2, <4>1, <6>1
        <5>2. p[m] \in Evses /\ p[h] \in Evses
          BY <2>6, <4>1
        <5> QED
          BY <1>3, <2>1, <4>2, <5>1, <5>2
      <4> QED
        BY <4>3, <4>4
    <3>5. CASE i # key /\ h = key
      <4>1. i > m /\ i \in 1 .. key - 1
        BY <2>9, <3>1, <3>2, <3>5
      <4>2. Goes(key, p[i]) /\ p[h] = key
        BY <2>4, <2>6, <3>5, <4>1
      <4>3. p[i] \in Evses
        BY <2>6
      <4> QED
        BY <1>a, <2>1, <4>2, <4>3
    <3>6. ~ (i = key /\ h = key)
      BY <2>9, <3>1
    <3> QED
      BY <3>3, <3>4, <3>5, <3>6
  <2>10. Good(key, q)
    <3>1. q \in [Evses -> Evses]
      <4>1. \A i \in Evses : q[i] \in Evses
        BY <2>6, <2>7
      <4> HIDE DEF To
      <4> QED
        BY <2>5, <4>1
    <3>2. \A i \in Evses : i > key => q[i] = i
      BY <2>5, <2>6
    <3> HIDE DEF To
    <3>3. ASSUME NEW i \in Evses, NEW j \in Evses, q[i] = q[j] PROVE i = j
      <4>1. PICK g \in Evses : To(g) = i
        BY <2>7
      <4>2. PICK h \in Evses : To(h) = j
        BY <2>7
      <4>3. p[g] = p[h]
        BY <2>7, <3>3, <4>1, <4>2
      <4>4. g = h
        BY <2>2, <4>3
      <4> QED
        BY <4>1, <4>2, <4>4
    <3>4. ASSUME NEW x \in Evses PROVE \E i \in Evses : q[i] = x
      <4>1. PICK i \in Evses : p[i] = x
        BY <2>2
      <4> QED
        BY <2>7, <4>1
    <3>5. ASSUME NEW i \in Evses, NEW j \in Evses, i < j, j <= key PROVE ~ Goes(q[j], q[i])
      <4>1. PICK g \in Evses : To(g) = i
        BY <2>7
      <4>2. PICK h \in Evses : To(h) = j
        BY <2>7
      <4>3. ~ Goes(p[h], p[g])
        BY <2>9, <3>5, <4>1, <4>2
      <4> QED
        BY <2>7, <4>1, <4>2, <4>3
    <3> QED
      BY <3>1, <3>2, <3>3, <3>4, <3>5
  <2> HIDE DEF Good
  <2> QED
    BY <2>1, <2>10 DEF key, q
<1>6. Good(N, f[N])
  <2> HIDE DEF Good
  <2>1. \A n \in 0 .. N : n \in G
    <3> HIDE DEF G
    <3> QED
      BY <1>0, <1>4, <1>5, Induct
  <2> QED
    BY <1>0, <2>1
<1>7. \A j \in Evses : j <= N
  BY <1>0
<1> QED
  BY <1>6, <1>7 DEF f, Sorted, IsOrder, Goes
=============================================================================
