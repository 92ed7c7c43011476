---------------------------- MODULE CapacityPeak ----------------------------
(***************************************************************************)
(* The capacity tariff (capacity_peak.c and its callers): the mains power  *)
(* is averaged over windows of 15 minutes, the highest average of the      *)
(* month is kept, and what may still be drawn in the window without going  *)
(* over the limit is handed to the current regulation, in deciamperes.     *)
(***************************************************************************)
EXTENDS Integers

CONSTANTS
    Window,     \* CAPACITY_WINDOW_SECONDS: 900
    Limits,     \* settings of CapacityLimit in watts, 0: disabled
    Powers,     \* what the mains meter may measure, in watts
    Months      \* what the clock may show: [month, year], 1970 until it is set

ASSUME CapacityAssumption ==
    /\ Window \in Nat \ {0}
    /\ Limits \subseteq Nat /\ 0 \in Limits
    /\ Powers \subseteq Int
    /\ Months \subseteq [month : Nat, year : Nat]

VARIABLES
    limit,          \* CapacityLimit and limit_w, always set together
    window,         \* capacity_window_t
    monthly,        \* capacity_monthly_t
    headroom,       \* CapacityHeadroom_da
    nvs,            \* what write_settings saved of it
    watched         \* history: see below

vars == <<limit, window, monthly, headroom, nvs, watched>>

Unlimited == 32767                      \* INT16_MAX
Int16 == {i \in Int : -32768 <= i /\ i <= 32767}
ToInt16(x) == ((x + 32768) % 65536) - 32768

\* The division of C rounds towards zero
CDiv(a, b) == IF a >= 0 THEN a \div b ELSE -((-a) \div b)

NewWindow == [acc |-> 0, elapsed |-> 0, avg |-> 0, valid |-> FALSE]

(***************************************************************************)
(* History, that the code does not keep.  grant: the watts CapacityHeadroom *)
(* stands for, if it was computed under this limit; kept: each second of   *)
(* this window kept to the grant before it; held: the last window was kept; *)
(* best: the clock's month, and the highest window that ended in it so far *)
(***************************************************************************)
NoBest == [at |-> [month |-> 0, year |-> 0], avg |-> 0]
Unwatched == [fresh |-> FALSE, grant |-> 0, kept |-> FALSE, held |-> FALSE,
              best |-> NoBest]

----------------------------------------------------------------------------
(* Plausible bugs, that the properties must notice                         *)

\* the current of one phase is taken for that of all
HeadroomDa_OnePhase(watts, phases) == ToInt16(CDiv(watts * 10, 230))

\* the month is looked at after the window: what ended with it is forgotten
WithPeak_Unordered(m, w) ==
    IF w.elapsed = 0 /\ w.avg > m.peak /\ m = monthly
    THEN [m EXCEPT !.peak = w.avg] ELSE m

\* the window is closed a second late
Accumulated_Late(power) ==
    LET acc == window.acc + power IN
    IF window.elapsed + 1 > Window
    THEN [acc |-> 0, elapsed |-> 0, avg |-> CDiv(acc, Window), valid |-> TRUE]
    ELSE [window EXCEPT !.acc = acc, !.elapsed = @ + 1]

----------------------------------------------------------------------------
(* capacity_get_headroom_w, capacity_headroom_to_da                        *)

Headroom(w) ==
    CASE w.elapsed = 0      -> limit
      [] w.elapsed = Window -> limit - CDiv(w.acc, Window)
      [] OTHER              -> CDiv(limit * Window - w.acc, Window - w.elapsed)

HeadroomDa(watts, phases) == ToInt16(CDiv(watts * 10, 230 * phases))

----------------------------------------------------------------------------
(* capacity_tick_1s: the month, the window, the peak                       *)

OfMonth(at) ==
    IF monthly.month = at.month /\ monthly.year = at.year THEN monthly
    ELSE [peak |-> 0, month |-> at.month, year |-> at.year]

Accumulated(power) ==
    LET acc == window.acc + power IN
    IF window.elapsed + 1 >= Window
    THEN [acc |-> 0, elapsed |-> 0, avg |-> CDiv(acc, Window), valid |-> TRUE]
    ELSE [window EXCEPT !.acc = acc, !.elapsed = @ + 1]

WithPeak(m, w) ==
    IF w.elapsed = 0 /\ w.avg > m.peak THEN [m EXCEPT !.peak = w.avg] ELSE m

Best(at, w) ==
    LET avg == IF watched.best.at = at THEN watched.best.avg ELSE 0
    IN  [at |-> at, avg |-> IF w.elapsed = 0 /\ w.avg > avg THEN w.avg ELSE avg]

Watch(power, at, phases) ==
    LET kept == /\ window.elapsed = 0 \/ watched.kept
                /\ watched.fresh /\ power <= watched.grant
    IN  [fresh |-> TRUE, grant |-> headroom' * 23 * phases, kept |-> kept,
         held |-> IF window'.elapsed = 0 THEN kept ELSE watched.held,
         best |-> Best(at, window')]

\* Timer1S, with a limit: the second is booked, then the headroom computed
Tick(power, at, phases) ==
    /\ limit > 0
    /\ window' = Accumulated(power)
    /\ monthly' = WithPeak(OfMonth(at), Accumulated(power))
    /\ headroom' = HeadroomDa(Headroom(window'), phases)
    /\ watched' = Watch(power, at, phases)
    /\ UNCHANGED <<limit, nvs>>

\* Timer1S, without a limit: nothing is booked
TickDisabled ==
    /\ limit = 0 /\ headroom' = Unlimited
    /\ watched' = [watched EXCEPT !.fresh = FALSE]
    /\ UNCHANGED <<limit, window, monthly, nvs>>

\* The menu, MQTT or REST sets the limit (capacity_set_limit); the window goes
\* on with what it has, and the headroom is computed with the next second
SetLimit(l) ==
    /\ l # limit /\ limit' = l
    /\ watched' = [Unwatched EXCEPT !.best = watched.best]
    /\ UNCHANGED <<window, monthly, headroom, nvs>>

\* write_settings: the peak and its month, not the year
Save ==
    /\ nvs' = [limit |-> limit, peak |-> monthly.peak, month |-> monthly.month]
    /\ UNCHANGED <<limit, window, monthly, headroom, watched>>

\* A restart: read_settings, and capacity_init around the monthly peak
Boot ==
    /\ limit' = nvs.limit
    /\ monthly' = [peak |-> nvs.peak, month |-> nvs.month, year |-> 0]
    /\ window' = NewWindow /\ headroom' = Unlimited /\ watched' = Unwatched
    /\ UNCHANGED nvs

Init ==
    /\ limit = 0 /\ window = NewWindow /\ headroom = Unlimited
    /\ monthly = [peak |-> 0, month |-> 0, year |-> 0]
    /\ nvs = [limit |-> 0, peak |-> 0, month |-> 0]
    /\ watched = Unwatched

Next ==
    \/ \E power \in Powers, at \in Months, phases \in 1 .. 3 :
          Tick(power, at, phases)
    \/ TickDisabled
    \/ \E l \in Limits : SetLimit(l)
    \/ Save
    \/ Boot

Spec == Init /\ [][Next]_vars

----------------------------------------------------------------------------
(* Properties                                                              *)

\* The code's state has its types; the window is never found complete, and the
\* headroom fits the int16_t it is kept in
TypeOK ==
    /\ limit \in Limits
    /\ window \in [acc : Int, elapsed : 0 .. Window - 1, avg : Int, valid : BOOLEAN]
    /\ monthly \in [peak : Nat, month : Nat, year : Nat]
    /\ headroom \in Int16
    /\ nvs \in [limit : Limits, peak : Nat, month : Nat]
    /\ watched \in [fresh : BOOLEAN, grant : Int, kept : BOOLEAN, held : BOOLEAN,
                    best : [at : Months \cup {NoBest.at}, avg : Nat]]

\* A house that in every second keeps to the headroom it was told, in rounded
\* deciamperes on any number of phases, ends the window within the limit: the
\* headrooms of 900 seconds add up to the budget (capacity_get_headroom_w)
WindowWithinLimit == watched.held => window.avg <= limit

\* No window that ended since the start in the month the clock shows is above the
\* monthly peak, also one that ends in the second the month changes, and after
\* the clock was set (capacity_tick_1s resets the peak before it books)
PeakCoversMonth == watched.best.avg <= monthly.peak

\* As long as there is budget left in the window the regulation is not told to
\* reduce the current (capacity_headroom_to_da: watts in deciamperes)
BudgetIsNotDeficit ==
    watched.fresh /\ window.acc <= limit * Window => headroom >= 0
=============================================================================
