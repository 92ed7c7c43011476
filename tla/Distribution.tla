---------------------------- MODULE Distribution ----------------------------
(***************************************************************************)
(* How the master divides current: the arithmetic of                       *)
(* evse_calc_balanced_current and of the priority scheduler, as functions  *)
(* of the master's arrays.  EVSE 1 is the master (index 0 in the code).    *)
(***************************************************************************)
EXTENDS Integers, FiniteSetsExt

CONSTANTS
    N,              \* NR_EVSES: 8
    MinCurrent,     \* lowest current of a car, 6 A
    BalancedMax,    \* what each EVSE may get at most
    MaxDelta        \* MAX_DELTA_PER_CYCLE: 3 A

Evses == 1 .. N

ASSUME DistributionAssumption ==
    /\ N \in Nat \ {0} /\ MinCurrent \in Nat \ {0} /\ MaxDelta \in Nat \ {0}
    /\ BalancedMax \in [Evses -> Nat]
    /\ \A n \in Evses : BalancedMax[n] >= MinCurrent

(* A loop is a function: from the number of its passes to the state after them *)

\* The sums of bal over the members of S up to each EVSE
Totals(bal, S) ==
    LET total[n \in 0 .. N] ==
            IF n = 0 THEN 0 ELSE total[n - 1] + (IF n \in S THEN bal[n] ELSE 0)
    IN  total

Total(bal, S) == Totals(bal, S)[N]

----------------------------------------------------------------------------
(* evse_sort_priority                                                      *)

\* Does key go in front of other?  An EVSE that charges first, then by strategy:
\* who connected first or last, 0 meaning never, or by address
Before(key, other, charging, connected, strategy) ==
    LET c == connected[key]
        d == connected[other]
    IN  IF (key \in charging) # (other \in charging) THEN key \in charging
        ELSE CASE strategy = "FIRST_CONNECTED" -> c # 0 /\ (d = 0 \/ c < d)
               [] strategy = "LAST_CONNECTED"  -> c > d
               [] OTHER                        -> key < other

\* Mutant: the order of the addresses is left as it is
Sorted_Identity(charging, connected, strategy) == [i \in Evses |-> i]

\* Insertion sort: key moves up to the last one that it does not go in front of
Insertions(charging, connected, strategy) ==
    LET sorted[key \in 0 .. N] ==
            IF key = 0 THEN [i \in Evses |-> i]
            ELSE LET prio == sorted[key - 1]
                     stop == Max({0} \cup {i \in 1 .. key - 1 :
                                 ~Before(key, prio[i], charging, connected, strategy)})
                 IN  [i \in Evses |-> IF i <= stop \/ i > key THEN prio[i]
                                      ELSE IF i = stop + 1 THEN key ELSE prio[i - 1]]
    IN  sorted

Sorted(charging, connected, strategy) == Insertions(charging, connected, strategy)[N]

----------------------------------------------------------------------------
(* evse_schedule_priority: the minimum to each in order, as far as it goes *)

\* Mutant: what an EVSE was given is not taken from what is left
Scheduled_Kept(order, charging, available) ==
    [active |-> IF available >= MinCurrent THEN charging ELSE {}, left |-> available]

Schedules(order, charging, available) ==
    LET after[i \in 0 .. N] ==
            IF i = 0 THEN [active |-> {}, left |-> available]
            ELSE LET s == after[i - 1]
                 IN  IF order[i] \in charging /\ s.left >= MinCurrent
                     THEN [active |-> s.active \cup {order[i]}, left |-> s.left - MinCurrent]
                     ELSE s
    IN  after

Scheduled(order, charging, available) == Schedules(order, charging, available)[N]

----------------------------------------------------------------------------
(* evse_handout_surplus: equal shares, in rounds, until all are at their maximum *)

\* A round: every EVSE that is not capped gets the share, if there is still so
\* much and it may have so much
Visits(s, share) ==
    LET after[n \in 0 .. N] ==
            IF n = 0 THEN [s EXCEPT !.progress = FALSE]
            ELSE LET r == after[n - 1]
                     room == BalancedMax[n] - r.bal[n]
                     add == Min({share, room, r.left})
                 IN  CASE n \notin r.open -> r
                       [] n \in r.open /\ room <= 0 ->
                              [r EXCEPT !.open = @ \ {n}, !.progress = TRUE]
                       [] n \in r.open /\ room > 0 /\ add <= 0 -> r
                       [] OTHER -> [bal |-> [r.bal EXCEPT ![n] = @ + add],
                                    left |-> r.left - add,
                                    open |-> IF add = room THEN r.open \ {n} ELSE r.open,
                                    progress |-> TRUE]
    IN  after

Round(s) == Visits(s, Max({1, s.left \div Cardinality(s.open)}))[N]

\* A round hands out 1 at least or finds an EVSE at its maximum: there are never
\* more rounds than these
Rounds(balanced, active, surplus) ==
    LET after[k \in 0 .. surplus + N] ==
            IF k = 0 THEN [bal |-> balanced, left |-> surplus, open |-> active,
                           progress |-> TRUE]
            ELSE LET s == after[k - 1]
                 IN  IF s.left <= 0 \/ ~s.progress \/ s.open = {} THEN s ELSE Round(s)
    IN  after

Handout(balanced, active, surplus) == Rounds(balanced, active, surplus)[surplus + N].bal

----------------------------------------------------------------------------
(* The division without shortage                                           *)

\* The first pass: who can get no more than the average gets the maximum, and
\* the pass starts again
Cappings(balanced, charging, amount) ==
    LET after[k \in 0 .. N] ==
            IF k = 0 THEN [bal |-> balanced, left |-> amount, open |-> charging]
            ELSE LET s == after[k - 1]
                     full == {n \in s.open :
                              s.left \div Cardinality(s.open) >= BalancedMax[n]}
                     n == Min(full)
                 IN  IF full = {} THEN s
                     ELSE [bal |-> [s.bal EXCEPT ![n] = BalancedMax[n]],
                           left |-> s.left - BalancedMax[n], open |-> s.open \ {n}]
    IN  after

\* The second pass: the others divide what is left
Parts(s) ==
    LET after[n \in 0 .. N] ==
            IF n = 0 THEN s
            ELSE LET r == after[n - 1]
                     part == r.left \div Cardinality(r.open)
                 IN  IF n \notin r.open THEN r
                     ELSE [bal |-> [r.bal EXCEPT ![n] = part], left |-> r.left - part,
                           open |-> r.open \ {n}]
    IN  after

\* Mutant: each takes what it can get, and not its part
Divided_Greedy(balanced, charging, amount) ==
    LET Taken(n) == Total(BalancedMax, {m \in charging : m < n})
    IN  [n \in Evses |-> IF n \in charging
                         THEN Max({0, Min({BalancedMax[n], amount - Taken(n)})})
                         ELSE balanced[n]]

Divided(balanced, charging, amount) ==
    Parts(Cappings(balanced, charging, amount)[N])[N].bal

\* Mutant: the step is taken whether the new current is so far away or not
Clamped_Overshoot(balanced, prev, charging) ==
    [n \in Evses |->
        IF n \in charging /\ prev[n] # 0
        THEN IF balanced[n] >= prev[n] THEN prev[n] + MaxDelta
                                      ELSE Max({prev[n] - MaxDelta, 0})
        ELSE balanced[n]]

\* Distribution smoothing: who had a current before goes towards the new one in
\* steps of MaxDelta
Clamped(balanced, prev, charging) ==
    [n \in Evses |->
        IF n \in charging /\ prev[n] # 0
        THEN Max({Min({balanced[n], prev[n] + MaxDelta}), prev[n] - MaxDelta, 0})
        ELSE balanced[n]]
=============================================================================
