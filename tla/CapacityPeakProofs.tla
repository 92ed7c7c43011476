------------------------- MODULE CapacityPeakProofs -------------------------
(***************************************************************************)
(* What CapacityPeak promises, for a window of any length, any limits and  *)
(* any power the meter may measure.                                        *)
(***************************************************************************)
EXTENDS CapacityPeak, TLAPS

\* The division of C, of a number that is not negative, does not exceed what
\* was divided
LEMMA QuotientBound ==
    ASSUME NEW a \in Nat, NEW b \in Nat \ {0}
    PROVE  /\ CDiv(a, b) \in Nat
           /\ b * CDiv(a, b) <= a
BY SMT DEF CDiv

\* The division of C yields an integer
LEMMA QuotientType ==
    ASSUME NEW a \in Int, NEW b \in Nat \ {0}
    PROVE  CDiv(a, b) \in Int
BY SMT DEF CDiv

\* Drawing one share of b shares leaves b - 1 of them
LEMMA ShareBound ==
    ASSUME NEW a \in Nat, NEW b \in Nat \ {0}, NEW p \in Int,
           p <= CDiv(a, b)
    PROVE  p <= a
<1> DEFINE q == CDiv(a, b)
<1>1. q \in Nat /\ b * q <= a
  BY QuotientBound
<1> HIDE DEF q
<1>2. \E c \in Nat : b = c + 1
  <2>1. b - 1 \in Nat /\ b = (b - 1) + 1
    BY SMT
  <2> QED
    BY <2>1
<1>3. PICK c \in Nat : b = c + 1
  BY <1>2
<1>4. c * q >= 0 /\ c * q \in Nat
  BY <1>1, SMT
<1>5. b * q = c * q + q
  BY <1>1, <1>3, SMT
<1>6. q <= a
  BY <1>1, <1>4, <1>5, SMT
<1> QED
  BY <1>1, <1>6, SMT DEF q

\* A conversion to int16_t stays in its range, and never raises a number that is
\* not negative
LEMMA Int16Bound ==
    ASSUME NEW x \in Int
    PROVE  /\ ToInt16(x) \in Int16
           /\ x >= 0 => ToInt16(x) <= x
<1>1. ToInt16(x) \in Int /\ -32768 <= ToInt16(x) /\ ToInt16(x) <= 32767
  BY SMT DEF ToInt16
<1>2. ASSUME x >= 0 PROVE ToInt16(x) <= x
  <2>1. x + 32768 \in Nat
    BY <1>2, SMT
  <2> QED
    BY <2>1, SMT DEF ToInt16
<1> QED
  BY <1>1, <1>2, SMT DEF Int16

\* Deciamperes stand for no more watts than they were computed from, on one, two
\* or three phases, and also when they do not fit (capacity_headroom_to_da)
LEMMA DeciamperesBound ==
    ASSUME NEW w \in Int, NEW phases \in 1 .. 3
    PROVE  /\ HeadroomDa(w, phases) \in Int16
           /\ w >= 0 => HeadroomDa(w, phases) * 23 * phases <= w
<1> DEFINE x == CDiv(w * 10, 230 * phases)
<1>1. w * 10 \in Int /\ 230 * phases \in Nat \ {0}
  BY SMT
<1>2. x \in Int
  BY <1>1, QuotientType
<1> HIDE DEF x
<1>3. ToInt16(x) \in Int16 /\ (x >= 0 => ToInt16(x) <= x)
  BY <1>2, Int16Bound
<1>4. PICK i \in Int : i = ToInt16(x) /\ i \in Int16
  BY <1>3, SMT DEF Int16
<1>5. ASSUME w >= 0
      PROVE  i * 23 * phases <= w
  <2>1. w * 10 \in Nat
    BY <1>5, SMT
  <2>2. x \in Nat /\ (230 * phases) * x <= w * 10
    BY <1>1, <2>1, QuotientBound DEF x
  <2>3. PICK n \in Nat : n = x
    BY <2>2
  <2>4. (230 * phases) * n <= w * 10 /\ i <= n
    BY <1>3, <1>4, <2>2, <2>3, SMT
  <2>5. CASE phases = 1
    BY <2>4, <2>5, SMT
  <2>6. CASE phases = 2
    BY <2>4, <2>6, SMT
  <2>7. CASE phases = 3
    BY <2>4, <2>7, SMT
  <2> QED
    BY <2>5, <2>6, <2>7, SMT
<1>6. HeadroomDa(w, phases) = i
  BY <1>4 DEF HeadroomDa, x
<1> QED
  BY <1>4, <1>5, <1>6

(***************************************************************************)
(* The invariant.  As long as the window is kept, the budget is not used   *)
(* up, and what the regulation was granted is no more than the headroom.   *)
(***************************************************************************)
Budget ==
    /\ window.elapsed = 0 => window.acc = 0
    /\ watched.kept => window.acc <= limit * Window

Granted ==
    watched.fresh /\ (window.elapsed = 0 \/ watched.kept)
        => watched.grant <= Headroom(window)

BestMonth ==
    \/ watched.best = NoBest
    \/ watched.best.at = [month |-> monthly.month, year |-> monthly.year]

IInv == TypeOK /\ BestMonth /\ Budget /\ Granted /\ WindowWithinLimit /\ PeakCoversMonth

\* The headroom is an integer, and not negative while the budget lasts
LEMMA HeadroomType ==
    ASSUME TypeOK, NEW w \in [acc : Int, elapsed : 0 .. Window - 1, avg : Int,
                              valid : BOOLEAN]
    PROVE  /\ Headroom(w) \in Int
           /\ w.acc <= limit * Window => Headroom(w) >= 0
<1>1. limit \in Nat /\ Window \in Nat \ {0} /\ w.acc \in Int
      /\ w.elapsed \in 0 .. Window - 1
  BY CapacityAssumption DEF TypeOK
<1>2. CASE w.elapsed = 0
  BY <1>1, <1>2, SMT DEF Headroom
<1>3. CASE w.elapsed # 0
  <2>1. Headroom(w) = CDiv(limit * Window - w.acc, Window - w.elapsed)
    BY <1>1, <1>3, SMT DEF Headroom
  <2>2. PICK b \in Nat \ {0} : b = Window - w.elapsed
    BY <1>1, <1>3, SMT
  <2>3. PICK a \in Int : a = limit * Window - w.acc
    BY <1>1, SMT
  <2>4. CDiv(a, b) \in Int
    BY QuotientType
  <2>5. ASSUME w.acc <= limit * Window PROVE CDiv(a, b) >= 0
    <3>1. limit * Window \in Nat
      BY <1>1, SMT
    <3>2. a \in Nat
      BY <1>1, <2>3, <2>5, <3>1, SMT
    <3> QED
      BY <3>2, QuotientBound, SMT
  <2> QED
    BY <2>1, <2>2, <2>3, <2>4, <2>5
<1> QED
  BY <1>2, <1>3

\* The state that a tick leaves has its types
LEMMA TickType ==
    ASSUME TypeOK, NEW power \in Powers, NEW at \in Months, NEW phases \in 1 .. 3,
           Tick(power, at, phases)
    PROVE  TypeOK'
<1>1. limit \in Nat /\ limit > 0 /\ Window \in Nat \ {0} /\ power \in Int
      /\ at \in [month : Nat, year : Nat]
  BY CapacityAssumption DEF TypeOK, Tick
<1>2. window' \in [acc : Int, elapsed : 0 .. Window - 1, avg : Int, valid : BOOLEAN]
  <2>1. window.acc + power \in Int
    BY <1>1, SMT DEF TypeOK
  <2>2. CDiv(window.acc + power, Window) \in Int
    BY <1>1, <2>1, QuotientType
  <2>3. CASE window.elapsed + 1 >= Window
    <3>1. window' = [acc |-> 0, elapsed |-> 0,
                     avg |-> CDiv(window.acc + power, Window), valid |-> TRUE]
      BY <2>3 DEF Tick, Accumulated
    <3>2. 0 \in 0 .. Window - 1 /\ 0 \in Int
      BY <1>1, SMT
    <3> QED
      BY <2>2, <3>1, <3>2
  <2>4. CASE ~(window.elapsed + 1 >= Window)
    <3>1. window' = [window EXCEPT !.acc = window.acc + power,
                                   !.elapsed = window.elapsed + 1]
      BY <2>4 DEF Tick, Accumulated
    <3>2. window.elapsed + 1 \in 0 .. Window - 1
      BY <1>1, <2>4, SMT DEF TypeOK
    <3> QED
      BY <2>1, <3>1, <3>2, Zenon DEF TypeOK
  <2> QED
    BY <2>3, <2>4
<1>3. monthly' \in [peak : Nat, month : Nat, year : Nat]
  <2>1. OfMonth(at) \in [peak : Nat, month : Nat, year : Nat]
    BY <1>1 DEF OfMonth, TypeOK
  <2>2. window'.avg \in Int
    BY <1>2
  <2>3. monthly' = WithPeak(OfMonth(at), window')
    BY DEF Tick
  <2>4. CASE window'.elapsed = 0 /\ window'.avg > OfMonth(at).peak
    <3>1. monthly' = [OfMonth(at) EXCEPT !.peak = window'.avg]
      BY <2>3, <2>4 DEF WithPeak
    <3>2. OfMonth(at).peak \in Nat
      BY <2>1
    <3>3. window'.avg \in Nat
      BY <2>2, <2>4, <3>2, SMT
    <3> QED
      BY <2>1, <3>1, <3>3, Zenon
  <2>5. CASE ~(window'.elapsed = 0 /\ window'.avg > OfMonth(at).peak)
    BY <2>1, <2>3, <2>5 DEF WithPeak
  <2> QED
    BY <2>4, <2>5
<1>4. headroom' \in Int16
  <2>1. Headroom(window') \in Int
    BY <1>2, HeadroomType
  <2> QED
    BY <2>1, DeciamperesBound DEF Tick
<1>5. watched' \in [fresh : BOOLEAN, grant : Int, kept : BOOLEAN, held : BOOLEAN,
                    best : [at : Months \cup {NoBest.at}, avg : Nat]]
  <2> DEFINE kept == /\ window.elapsed = 0 \/ watched.kept
                     /\ watched.fresh /\ power <= watched.grant
             held == IF window'.elapsed = 0 THEN kept ELSE watched.held
  <2>1. watched' = [fresh |-> TRUE, grant |-> headroom' * 23 * phases,
                    kept |-> kept, held |-> held, best |-> Best(at, window')]
    BY DEF Tick, Watch
  <2>2. headroom' * 23 * phases \in Int
    <3>1. headroom' \in Int
      BY <1>4, SMT DEF Int16
    <3> QED
      BY <3>1, SMT
  <2>3. kept \in BOOLEAN
    BY Zenon DEF TypeOK
  <2>4. held \in BOOLEAN
    BY <2>3, Zenon DEF TypeOK
  <2>5. Best(at, window') \in [at : Months \cup {NoBest.at}, avg : Nat]
    <3> DEFINE a == IF watched.best.at = at THEN watched.best.avg ELSE 0
               b == IF window'.elapsed = 0 /\ window'.avg > a THEN window'.avg ELSE a
    <3>1. watched.best.avg \in Nat
      BY DEF TypeOK
    <3>2. a \in Nat
      BY <3>1, SMT
    <3>3. window'.avg \in Int
      BY <1>2
    <3>4. b \in Nat
      BY <3>2, <3>3, SMT
    <3>5. Best(at, window') = [at |-> at, avg |-> b]
      BY DEF Best
    <3> HIDE DEF b
    <3> QED
      BY <3>4, <3>5
  <2> HIDE DEF kept, held
  <2> QED
    BY <2>1, <2>2, <2>3, <2>4, <2>5
<1> QED
  BY <1>2, <1>3, <1>4, <1>5 DEF Tick, TypeOK

\* A second that keeps to what was granted leaves a budget for the rest of the
\* window, and a window all of whose seconds did ends within the limit
LEMMA KeptSecond ==
    ASSUME IInv, limit > 0, NEW power \in Int,
           window.elapsed = 0 \/ watched.kept, watched.fresh,
           power <= watched.grant
    PROVE  window.acc + power <= limit * Window
<1>1. limit \in Nat /\ Window \in Nat \ {0} /\ window.acc \in Int
      /\ window.elapsed \in 0 .. Window - 1 /\ watched.grant \in Int
  BY CapacityAssumption DEF IInv, TypeOK
<1>2. Headroom(window) \in Int /\ power <= Headroom(window)
  <2>1. window \in [acc : Int, elapsed : 0 .. Window - 1, avg : Int, valid : BOOLEAN]
    BY DEF IInv, TypeOK
  <2>2. Headroom(window) \in Int
    BY <2>1, HeadroomType DEF IInv
  <2> QED
    BY <1>1, <2>2, SMT DEF IInv, Granted
<1>3. limit * Window \in Nat
  BY <1>1, SMT
<1>4. window.acc <= limit * Window
  BY <1>1, <1>3, SMT DEF IInv, Budget
<1>5. CASE window.elapsed = 0
  <2>1. power <= limit /\ window.acc = 0
    BY <1>1, <1>2, <1>5 DEF Headroom, IInv, Budget
  <2>2. PICK c \in Nat : Window = c + 1
    <3>1. Window - 1 \in Nat /\ Window = (Window - 1) + 1
      BY <1>1, SMT
    <3> QED
      BY <3>1
  <2>3. limit * c \in Nat /\ limit * Window = limit * c + limit
    BY <1>1, <2>2, SMT
  <2> QED
    BY <1>1, <2>1, <2>3, SMT
<1>6. CASE window.elapsed # 0
  <2>1. Headroom(window) = CDiv(limit * Window - window.acc, Window - window.elapsed)
    BY <1>1, <1>6, SMT DEF Headroom
  <2>2. PICK b \in Nat \ {0} : b = Window - window.elapsed
    BY <1>1, <1>6, SMT
  <2>3. PICK a \in Nat : a = limit * Window - window.acc
    BY <1>1, <1>3, <1>4, SMT
  <2>4. power <= CDiv(a, b)
    BY <1>2, <2>1, <2>2, <2>3
  <2>5. power <= a
    BY <2>4, ShareBound
  <2> QED
    BY <1>1, <1>3, <2>3, <2>5, SMT
<1> QED
  BY <1>5, <1>6

\* An average of a total within the budget is within the limit
LEMMA AverageBound ==
    ASSUME NEW l \in Nat, NEW w \in Nat \ {0}, NEW acc \in Int, acc <= l * w
    PROVE  CDiv(acc, w) <= l
<1>1. CASE acc < 0
  <2>1. -acc \in Nat /\ CDiv(acc, w) = -((-acc) \div w)
    BY <1>1, SMT DEF CDiv
  <2>2. (-acc) \div w \in Nat
    BY <2>1, SMT
  <2> QED
    BY <2>1, <2>2, SMT
<1>2. CASE acc >= 0
  <2>1. acc \in Nat /\ CDiv(acc, w) = acc \div w
    BY <1>2, SMT DEF CDiv
  <2>2. acc \div w \in Nat /\ w * (acc \div w) <= acc
    BY <2>1, SMT
  <2>3. PICK q \in Nat : q = acc \div w
    BY <2>2
  <2>4. w * q <= l * w
    BY <2>2, <2>3, SMT
  <2>5. q <= l
    BY <2>4, SMT
  <2> QED
    BY <2>1, <2>3, <2>5
<1> QED
  BY <1>1, <1>2, SMT

\* A tick keeps the invariant
LEMMA TickInv ==
    ASSUME IInv, NEW power \in Powers, NEW at \in Months, NEW phases \in 1 .. 3,
           Tick(power, at, phases)
    PROVE  IInv'
<1>1. TypeOK'
  BY TickType DEF IInv
<1>2. limit \in Nat /\ limit > 0 /\ Window \in Nat \ {0} /\ power \in Int
      /\ limit' = limit /\ window.acc + power \in Int
      /\ window.elapsed \in 0 .. Window - 1
  BY CapacityAssumption, SMT DEF IInv, TypeOK, Tick
<1> DEFINE kept == /\ window.elapsed = 0 \/ watched.kept
                   /\ watched.fresh /\ power <= watched.grant
<1>3. /\ watched'.kept = kept /\ watched'.fresh
      /\ watched'.grant = headroom' * 23 * phases
      /\ watched'.held = IF window'.elapsed = 0 THEN kept ELSE watched.held
      /\ watched'.best = Best(at, window')
  BY DEF Tick, Watch
<1>4. kept => window.acc + power <= limit * Window
  BY <1>2, KeptSecond
<1> HIDE DEF kept
<1>5. \/ /\ window'.elapsed = 0 /\ window'.acc = 0
         /\ window'.avg = CDiv(window.acc + power, Window)
      \/ /\ window'.elapsed = window.elapsed + 1
         /\ window'.acc = window.acc + power
         /\ window'.avg = window.avg
  BY DEF Tick, Accumulated, IInv, TypeOK
<1>6. Budget'
  <2>1. limit * Window >= 0
    BY <1>2, SMT
  <2> QED
    BY <1>2, <1>3, <1>4, <1>5, <2>1, SMT DEF Budget
<1>7. Granted'
  <2>1. SUFFICES ASSUME window'.elapsed = 0 \/ kept
                 PROVE  watched'.grant <= Headroom(window)'
    BY <1>3 DEF Granted
  <2>2. window'.acc <= limit * Window
    <3>1. limit * Window >= 0
      BY <1>2, SMT
    <3> QED
      BY <1>2, <1>4, <1>5, <2>1, <3>1, SMT
  <2>3. window' \in [acc : Int, elapsed : 0 .. Window - 1, avg : Int, valid : BOOLEAN]
    BY <1>1 DEF TypeOK
  <2>4. Headroom(window') \in Int /\ Headroom(window') >= 0
    BY <2>2, <2>3, HeadroomType DEF IInv
  <2>5. HeadroomDa(Headroom(window'), phases) * 23 * phases <= Headroom(window')
    BY <2>4, DeciamperesBound
  <2>6. Headroom(window)' = Headroom(window')
    BY <1>2 DEF Headroom
  <2> QED
    BY <1>3, <2>5, <2>6 DEF Tick
<1>8. WindowWithinLimit'
  <2>1. CASE window'.elapsed = 0
    <3>1. SUFFICES ASSUME kept PROVE window'.avg <= limit
      BY <1>2, <1>3, <2>1 DEF WindowWithinLimit
    <3>2. window'.avg = CDiv(window.acc + power, Window)
      BY <1>2, <1>5, <2>1, SMT
    <3> QED
      BY <1>2, <1>4, <3>1, <3>2, AverageBound
  <2>2. CASE window'.elapsed # 0
    BY <1>2, <1>3, <1>5, <2>2 DEF WindowWithinLimit, IInv
  <2> QED
    BY <2>1, <2>2
<1>9. PeakCoversMonth'
  <2> DEFINE m == OfMonth(at)
             a == IF watched.best.at = at THEN watched.best.avg ELSE 0
  <2>1. monthly' = WithPeak(m, window')
    BY DEF Tick
  <2>2. watched'.best.avg = IF window'.elapsed = 0 /\ window'.avg > a
                            THEN window'.avg ELSE a
    BY <1>3 DEF Best
  <2>3. m.peak \in Nat /\ a \in Nat /\ window'.avg \in Int
        /\ m \in [peak : Nat, month : Nat, year : Nat]
    BY <1>1, CapacityAssumption, SMT DEF IInv, TypeOK, OfMonth
  <2>4. a <= m.peak
    <3>1. CASE watched.best.at = at
      <4>1. a = watched.best.avg /\ watched.best.avg <= monthly.peak
        BY <3>1 DEF IInv, PeakCoversMonth
      <4>2. CASE watched.best = NoBest
        BY <2>3, <4>1, <4>2, SMT DEF NoBest
      <4>3. CASE watched.best.at = [month |-> monthly.month, year |-> monthly.year]
        <5>1. m = monthly
          BY <3>1, <4>3 DEF OfMonth
        <5> QED
          BY <4>1, <5>1
      <4> QED
        BY <4>2, <4>3 DEF IInv, BestMonth
    <3>2. CASE watched.best.at # at
      BY <2>3, <3>2, SMT
    <3> QED
      BY <3>1, <3>2
  <2> HIDE DEF a, m
  <2>5. monthly'.peak = IF window'.elapsed = 0 /\ window'.avg > m.peak
                        THEN window'.avg ELSE m.peak
    BY <2>1, <2>3 DEF WithPeak
  <2> QED
    BY <2>2, <2>3, <2>4, <2>5, SMT DEF PeakCoversMonth
<1>10. BestMonth'
  <2>1. watched'.best.at = at
    BY <1>3 DEF Best
  <2>2. OfMonth(at).month = at.month /\ OfMonth(at).year = at.year
        /\ OfMonth(at) \in [peak : Nat, month : Nat, year : Nat]
        /\ at \in [month : Nat, year : Nat]
    BY CapacityAssumption DEF OfMonth, IInv, TypeOK
  <2>3. monthly' = WithPeak(OfMonth(at), window')
    BY DEF Tick
  <2>4. monthly'.month = at.month /\ monthly'.year = at.year
    BY <2>2, <2>3 DEF WithPeak
  <2> QED
    BY <2>1, <2>2, <2>4 DEF BestMonth
<1> QED
  BY <1>1, <1>6, <1>7, <1>8, <1>9, <1>10 DEF IInv

----------------------------------------------------------------------------

\* The other steps keep the invariant: no limit, a new one, a save, a restart
LEMMA OtherInv ==
    ASSUME IInv,
           \/ TickDisabled
           \/ \E l \in Limits : SetLimit(l)
           \/ Save
           \/ Boot
           \/ UNCHANGED vars
    PROVE  IInv'
<1>1. CASE TickDisabled
  <2>1. watched' = [watched EXCEPT !.fresh = FALSE]
    BY <1>1 DEF TickDisabled
  <2>2. /\ watched'.fresh = FALSE /\ watched'.kept = watched.kept
        /\ watched'.held = watched.held /\ watched'.best = watched.best
    BY <2>1 DEF IInv, TypeOK
  <2>3. TypeOK'
    <3>1. Unlimited \in Int16
      BY SMT DEF Unlimited, Int16
    <3>2. watched' \in [fresh : BOOLEAN, grant : Int, kept : BOOLEAN, held : BOOLEAN,
                        best : [at : Months \cup {NoBest.at}, avg : Nat]]
      BY <2>1, Zenon DEF IInv, TypeOK
    <3> QED
      BY <1>1, <3>1, <3>2 DEF TickDisabled, IInv, TypeOK
  <2> QED
    BY <1>1, <2>2, <2>3 DEF TickDisabled, IInv, Budget, Granted,
       WindowWithinLimit, PeakCoversMonth, BestMonth
<1>2. CASE \E l \in Limits : SetLimit(l)
  <2>1. PICK l \in Limits : SetLimit(l)
    BY <1>2
  <2>2. watched' = [fresh |-> FALSE, grant |-> 0, kept |-> FALSE, held |-> FALSE,
                    best |-> watched.best]
    BY <2>1 DEF SetLimit, Unwatched
  <2>3. TypeOK'
    <3>1. watched.best \in [at : Months \cup {NoBest.at}, avg : Nat]
      BY DEF IInv, TypeOK
    <3>2. watched' \in [fresh : BOOLEAN, grant : Int, kept : BOOLEAN, held : BOOLEAN,
                        best : [at : Months \cup {NoBest.at}, avg : Nat]]
      BY <2>2, <3>1
    <3> QED
      BY <2>1, <3>2 DEF SetLimit, IInv, TypeOK
  <2> QED
    BY <2>1, <2>2, <2>3 DEF SetLimit, IInv, Budget, Granted,
       WindowWithinLimit, PeakCoversMonth, BestMonth
<1>3. CASE Save
  BY <1>3 DEF Save, IInv, TypeOK, Budget, Granted, WindowWithinLimit,
     PeakCoversMonth, BestMonth, Headroom
<1>4. CASE Boot
  <2>1. Unlimited \in Int16
    BY SMT DEF Unlimited, Int16
  <2>2. window' \in [acc : Int, elapsed : 0 .. Window - 1, avg : Int, valid : BOOLEAN]
    <3>1. 0 \in 0 .. Window - 1
      BY CapacityAssumption, SMT
    <3> QED
      BY <1>4, <3>1 DEF Boot, NewWindow
  <2>3. TypeOK'
    <3>1. watched' \in [fresh : BOOLEAN, grant : Int, kept : BOOLEAN, held : BOOLEAN,
                        best : [at : Months \cup {NoBest.at}, avg : Nat]]
      <4>1. NoBest \in [at : Months \cup {NoBest.at}, avg : Nat]
        BY DEF NoBest
      <4> QED
        BY <1>4, <4>1 DEF Boot, Unwatched
    <3>2. monthly' \in [peak : Nat, month : Nat, year : Nat] /\ limit' \in Limits
      BY <1>4 DEF Boot, IInv, TypeOK
    <3> QED
      BY <1>4, <2>1, <2>2, <3>1, <3>2 DEF Boot, IInv, TypeOK
  <2>4. monthly'.peak \in Nat
    BY <2>3 DEF TypeOK
  <2> QED
    BY <1>4, <2>3, <2>4, SMT DEF Boot, Unwatched, NewWindow, NoBest, IInv, Budget,
       Granted, WindowWithinLimit, PeakCoversMonth, BestMonth
<1>5. CASE UNCHANGED vars
  BY <1>5 DEF vars, IInv, TypeOK, Budget, Granted, WindowWithinLimit,
     PeakCoversMonth, BestMonth, Headroom
<1> QED
  BY <1>1, <1>2, <1>3, <1>4, <1>5

\* The freshly flashed controller satisfies the invariant
LEMMA InitInv == Init => IInv
<1>1. 0 \in 0 .. Window - 1 /\ 0 \in Limits
  BY CapacityAssumption, SMT
<1>2. Unlimited \in Int16
  BY SMT DEF Unlimited, Int16
<1> QED
  BY <1>1, <1>2, SMT DEF Init, IInv, TypeOK, NewWindow, Unwatched, NoBest, Budget,
     Granted, WindowWithinLimit, PeakCoversMonth, BestMonth

\* The invariant holds in every state of the capacity tariff, for every window
\* length, setting and meter reading
THEOREM Invariance == Spec => []IInv
<1>1. Init => IInv
  BY InitInv
<1>2. IInv /\ [Next]_vars => IInv'
  BY TickInv, OtherInv DEF Next
<1> QED
  BY <1>1, <1>2, PTL DEF Spec

\* A house that keeps to the headroom it is told ends its window within the limit
\* (capacity_get_headroom_w and capacity_headroom_to_da), whatever the limit:
\* also where the deciamperes wrap, they never promise more than there is
THEOREM WindowLimit == Spec => []WindowWithinLimit
BY Invariance, PTL DEF IInv

\* The monthly peak covers every window of the clock's month (capacity_tick_1s)
THEOREM PeakCovers == Spec => []PeakCoversMonth
BY Invariance, PTL DEF IInv

\* Types, and a window that is never found complete (capacity_tick_1s)
THEOREM TypeCorrect == Spec => []TypeOK
BY Invariance, PTL DEF IInv
=============================================================================
