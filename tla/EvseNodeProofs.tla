--------------------------- MODULE EvseNodeProofs ---------------------------
(***************************************************************************)
(* Theorems about a node and its master, for every configuration, bus and  *)
(* user.  The master answers out of a copy of the node's registers that    *)
(* may be out of date; NodeInv says how far it may be.  What power flows   *)
(* (OnPower, Powered) only ever comes from a frame of the master, so       *)
(* whatever else the node does leaves the copy as true as it was.          *)
(***************************************************************************)
EXTENDS EvseNode, EvseStateMachineProofs

\* A state with power is in the copy too, or the node's current there is 0
CopyKnows == ctx.State \in OnPower =>
                 copy.State \in OnPower \/ (copy.State = "A" /\ ~granted)

\* The copy never shows a car that has not asked yet where power flows
CopyIsNew == copy.State \in Untouched => ~Powered(ctx)

\* The frame carries the state of the copy, or grants what the copy had asked for
FrameGrants ==
    \A w \in frame : /\ w.State \in OnPower => copy.State \in OnPower
                     /\ w.State # copy.State => /\ w.State \in {"COMM_B_OK", "COMM_C_OK"}
                                                /\ ~Powered(ctx)

MasterTypeOK == /\ stage \in Stages /\ copy \in Copies /\ online \in 0..OnlineMax
                /\ granted \in BOOLEAN /\ masterMode \in {"NORMAL", "SMART"}
                /\ frame \subseteq Frames /\ (\A v, w \in frame : v = w)
                /\ frame # {} => stage = "regulate"

\* Without a monitor, no flag of one stands where power flows
Quiet == ~RcmPresent => rcm = "idle" /\ ~Tripped(ctx)

NodeInv == /\ Base /\ MasterTypeOK
           /\ CopyKnows /\ CopyIsNew /\ FrameGrants /\ Quiet

\* A step of the node that lets no power flow that did not
Subdued(c, d) == /\ Good(d)
                 /\ d.State \in OnPower => c.State \in OnPower
                 /\ Powered(d) => Powered(c)

\* The node has a master, so most of what is said where there is none is void.
LEMMA HasMaster == ~(LoadBl < 2)
  BY NodeAssumption, ConfigAssumption

\* A Calm step is Subdued.
LEMMA CalmSubdued ==
    ASSUME NEW c, NEW d, Calm(c, d)
    PROVE  Subdued(c, d) /\ (Tripped(d) => Tripped(c))
  BY DEF Calm, Kept, Subdued

\* Subdued steps compose.
LEMMA SubduedTrans ==
    ASSUME NEW c, NEW d, NEW e, Subdued(c, d), Subdued(d, e)
    PROVE  Subdued(c, e)
  BY DEF Subdued

----------------------------------------------------------------------------
(* What the master writes                                                  *)

\* A written state is one that the node can enter (setItemValue STATUS_STATE).
LEMMA StateWrittenFit ==
    ASSUME NEW c, Fit(c), NEW s \in States, s \in Untouched => ~c.contactor1
    PROVE  Fit(StateWritten(c, s)) /\ StateWritten(c, s).State = s
<1>1. Enterable(c, s)
  BY HasMaster DEF Enterable
<1> QED
  BY <1>1, SetStateFit DEF StateWritten

\* Written errors stop the node, and no errors let it go on (STATUS_ERROR).
LEMMA ErrorsWrittenCalm ==
    ASSUME NEW c, Fit(c), NEW errors \in SUBSET Faults
    PROVE  Calm(c, ErrorsWritten(c, errors)) /\ ~Tripped(ErrorsWritten(c, errors))
<1> DEFINE d == [c EXCEPT !.ErrorFlags = errors]
           t == [d EXCEPT !.MainsMeterTimeout = 0]
           e == IF "CT_NOCOMM" \in errors THEN t ELSE d
           p == SetPowerUnavailable(e)
           f == [p EXCEPT !.ChargeDelay = CHARGEDELAY]
<1>0. c \in Ctx
  BY DEF Fit
<1>1. /\ d \in Ctx /\ d.State = c.State /\ d.AccessStatus = c.AccessStatus
      /\ d.ErrorFlags = errors /\ d.Phases = c.Phases
      /\ d.contactor2 = c.contactor2 /\ SameCable(c, d)
  BY <1>0, Zenon DEF Ctx, SameCable, SameLine
<1> HIDE DEF d
<1>2. /\ t \in Ctx /\ t.State = d.State /\ t.AccessStatus = d.AccessStatus
      /\ t.Phases = d.Phases
      /\ t.contactor2 = d.contactor2 /\ SameCable(d, t)
  BY <1>1, Numbers, Zenon DEF Ctx, SameCable, SameLine
<1> HIDE DEF t
<1>3. /\ e \in Ctx /\ e.State = c.State /\ e.AccessStatus = c.AccessStatus
      /\ e.Phases = c.Phases
      /\ e.contactor2 = c.contactor2 /\ SameCable(c, e)
  BY <1>1, <1>2 DEF SameCable, SameLine
<1> HIDE DEF e
<1>4. Fit(d) /\ Fit(e)
  BY <1>1, <1>3 DEF Fit, Wired, Unmastered, Known, SameCable, SameLine
<1>5. CASE errors = {}
  <2>1. Good(d) /\ ~Tripped(d)
    BY <1>1, <1>4, <1>5, HasMaster DEF Good, Permitted, Tripped
  <2>2. Kept(c, d)
    BY <1>1, <2>1, HasMaster
    DEF Kept, Powered, Entitled, Joined, Ended, SameCable, SameLine
  <2>3. ErrorsWritten(c, errors) = d
    BY <1>5 DEF ErrorsWritten, d
  <2> QED BY <2>1, <2>2, <2>3 DEF Calm
<1>6. CASE errors # {}
  <2>1. Calm(e, p) /\ p.State \notin OnPower /\ p \in Ctx
    BY <1>4, SetPowerUnavailableCalm DEF Calm, Good, Fit
  <2> HIDE DEF p
  <2>2. Eased(p, f) /\ f.State = p.State
    BY <2>1, Durations, Zenon DEF Ctx, Eased
  <2>3. ErrorsWritten(c, errors) = f
    BY <1>6 DEF ErrorsWritten, f, p, e, t, d
  <2> HIDE DEF f
  <2>4. Calm(e, f) /\ ~Tripped(f)
    BY <2>1, <2>2, EasedCalm, CalmTrans DEF Brisk, Calm, Tripped
  <2>5. Kept(c, f)
    BY <1>3, <2>4, HasMaster
    DEF Calm, Kept, Powered, Entitled, Joined, Ended, SameCable, SameLine
  <2> QED BY <2>3, <2>4, <2>5 DEF Calm
<1> QED
  BY <1>5, <1>6

\* A written mode is set like a user's, and lets no power flow (STATUS_MODE).
LEMMA ModeWrittenSubdued ==
    ASSUME NEW c, Good(c), NEW mode \in {"NORMAL", "SMART", "same"}
    PROVE  /\ Subdued(c, ModeWritten(c, mode))
           /\ Tripped(ModeWritten(c, mode)) => Tripped(c)
<1>1. CASE mode \in {"same", c.Mode}
  BY <1>1 DEF ModeWritten, Subdued
<1>2. CASE mode \notin {"same", c.Mode}
  <2> DEFINE w == WithAccess(c, ModeAccess(FALSE))
             d == ModeSet(c, mode, FALSE)
  <2>1. Calm(w, d)
    BY <1>2, ModeSetCalm
  <2>2. w.State = c.State /\ w.ErrorFlags = c.ErrorFlags /\ SameCable(c, w)
    BY WithAccessFit DEF Good, ModeAccess
  <2>3. ModeWritten(c, mode) = d
    BY <1>2 DEF ModeWritten
  <2> HIDE DEF w, d
  <2>4. Subdued(w, d) /\ (Tripped(d) => Tripped(w))
    BY <2>1, CalmSubdued
  <2> QED
    BY <2>2, <2>3, <2>4 DEF Subdued, Powered, Tripped, SameCable
<1> QED
  BY <1>1, <1>2
\* What a frame makes of the node: its state was written, and whatever power flows
\* then, flows by that (WriteMultipleItemValueResponse).
LEMMA WriteLeaves ==
    ASSUME NodeInv, WriteArrives
    PROVE  \E w \in frame : /\ Good(ctx') /\ ~Tripped(ctx')
                            /\ ctx'.State \in OnPower => w.State \in OnPower
                            /\ w.State \in Untouched \cup {"COMM_B_OK"} => ~Powered(ctx')
                            /\ rcm' = rcm /\ diodeSeen' \in BOOLEAN
<1>1. PICK w \in frame :
          Becomes(ModeWritten(ErrorsWritten(StateWritten(ctx, w.State), w.ErrorFlags), w.Mode))
  BY DEF WriteArrives
<1> DEFINE s == StateWritten(ctx, w.State)
           e == ErrorsWritten(s, w.ErrorFlags)
           m == ModeWritten(e, w.Mode)
<1>2. /\ w.State \in States /\ w.ErrorFlags \in SUBSET Faults
      /\ w.Mode \in {"NORMAL", "SMART", "same"}
  BY DEF NodeInv, MasterTypeOK, Frames
<1>3. Fit(ctx) /\ diodeSeen \in BOOLEAN
  BY DEF NodeInv, Base, Good
<1>4. w.State \in Untouched => ~ctx.contactor1
  BY DEF NodeInv, CopyIsNew, FrameGrants, Powered
<1>5. Fit(s) /\ s.State = w.State
  BY <1>2, <1>3, <1>4, StateWrittenFit
<1> HIDE DEF s
<1>6. Subdued(s, e) /\ ~Tripped(e)
  BY <1>2, <1>5, ErrorsWrittenCalm, CalmSubdued
<1> HIDE DEF e
<1>7. Subdued(e, m) /\ ~Tripped(m)
  BY <1>2, <1>6, ModeWrittenSubdued DEF Subdued
<1> HIDE DEF m
<1>8. Subdued(s, m)
  BY <1>6, <1>7, SubduedTrans
<1>9. ctx' = m /\ rcm' = rcm /\ diodeSeen' \in BOOLEAN
  BY <1>1, <1>3 DEF WriteArrives, Becomes, Seen, m, e, s
<1>10. w.State \in Untouched \cup {"COMM_B_OK"} => ~Powered(s)
  BY <1>5 DEF Fit, Wired, Powered, Untouched, OnPower
<1> QED
  BY <1>5, <1>7, <1>8, <1>9, <1>10 DEF Subdued

----------------------------------------------------------------------------
(* The invariant                                                           *)

\* Node and master start in A, and have not spoken yet.
LEMMA NodeInitInv == NodeInit => NodeInv
<1> SUFFICES ASSUME NodeInit PROVE NodeInv
  OBVIOUS
<1>1. Base /\ ~Tripped(ctx) /\ rcm = "idle"
  BY InitInv DEF NodeInit, Inv, Init
<1>2. ctx.State = "A"
  BY DEF NodeInit, Init, InitCtx
<1>3. MasterTypeOK
  <2>1. 0 \in 0..OnlineMax
    BY NodeAssumption
  <2> QED
    BY <2>1, EnvAssumption DEF NodeInit, MasterTypeOK, Stages, Copies, States, Faults
<1> QED
  BY <1>1, <1>2, <1>3
  DEF NodeInit, NodeInv, CopyKnows, CopyIsNew, FrameGrants, Quiet, OnPower, Untouched

\* What the node does on its own, or is told without a frame, leaves what the
\* master knows as true as it was.
LEMMA SubduedKnown ==
    ASSUME NodeInv, Subdued(ctx, ctx'), UNCHANGED <<copy, frame>>,
           granted' = granted \/ copy.State # "A"
    PROVE  CopyKnows' /\ CopyIsNew' /\ FrameGrants'
<1>1. CopyKnows'
  BY DEF NodeInv, Subdued, CopyKnows
<1>2. CopyIsNew'
  BY DEF NodeInv, Subdued, CopyIsNew
<1>3. FrameGrants'
  BY DEF NodeInv, Subdued, FrameGrants
<1> QED
  BY <1>1, <1>2, <1>3

\* Without a monitor, none trips.
LEMMA StaysIdle ==
    ASSUME Next, rcm = "idle", ~RcmPresent
    PROVE  rcm' = "idle"
  BY DEF Next, Timer10ms, Timer1s, RcmOpens, RcmTrips, RcmReset, Regulate, SetAccessTo,
         SetMode, SetEnableC2, StopButton, MenuExit, OcppLimit, ModemSoC, MainsMeterData,
         EVMeterData

\* The node's own steps.
LEMMA LocalInv == ASSUME NodeInv, Local PROVE NodeInv'
<1>1. Base' /\ Handled
  BY NextBase DEF NodeInv, Local
<1>2. Subdued(ctx, ctx')
  BY <1>1, HasMaster DEF Base, Handled, Subdued
<1>3. UNCHANGED <<stage, copy, online, granted, masterMode, frame>>
  BY DEF Local, masterVars
<1>4. CopyKnows' /\ CopyIsNew' /\ FrameGrants'
  BY <1>2, <1>3, SubduedKnown
<1>5. Quiet'
  <2> SUFFICES ASSUME ~RcmPresent PROVE rcm' = "idle" /\ ~Tripped(ctx')
    BY DEF Quiet
  <2> QED BY <1>1, StaysIdle DEF NodeInv, Quiet, Local, Handled
<1>6. MasterTypeOK'
  BY <1>3 DEF NodeInv, MasterTypeOK
<1> QED
  BY <1>1, <1>4, <1>5, <1>6 DEF NodeInv

\* The node hears a broadcast: a transaction that is Calm.
LEMMA HeardInv ==
    ASSUME NodeInv, NEW c, Calm(ctx, c), Becomes(c), UNCHANGED <<rcm, copy, frame>>,
           granted' = granted \/ copy.State # "A", MasterTypeOK'
    PROVE  NodeInv'
<1>1. Base' /\ Handled
  BY CalmSame DEF NodeInv
<1>2. Subdued(ctx, ctx')
  BY <1>1, HasMaster DEF Base, Handled, Subdued
<1>3. CopyKnows' /\ CopyIsNew' /\ FrameGrants'
  BY <1>2, SubduedKnown
<1>4. Quiet'
  BY <1>1 DEF NodeInv, Quiet, Handled
<1> QED
  BY <1>1, <1>3, <1>4 DEF NodeInv

\* Poll: afterwards the copy is the node's, or one poll older.
LEMMA PollInv == ASSUME NodeInv, Poll PROVE NodeInv'
<1>1. /\ UNCHANGED <<ctx, rcm, diodeSeen, masterMode, frame>>
      /\ stage = "poll" /\ stage' = "process"
  BY DEF Poll, vars
<1>2. frame = {}
  BY <1>1 DEF NodeInv, MasterTypeOK
<1>3. /\ online \in 0..OnlineMax /\ Dec(online) \in 0..OnlineMax
      /\ OnlineMax \in 0..OnlineMax
  BY NodeAssumption DEF NodeInv, MasterTypeOK, Dec
<1>4. ctx \in Ctx /\ Wired(ctx)
  BY DEF NodeInv, Base, Good, Fit
<1>5. CASE /\ copy' = [copy EXCEPT !.State = IF online = 1 THEN "A" ELSE @]
           /\ granted' = (granted /\ online # 1)
           /\ online' = Dec(online)
  <2>1. /\ copy \in Copies /\ "A" \in States
    BY DEF NodeInv, MasterTypeOK, States
  <2>2. copy' \in Copies /\ copy'.State = IF online = 1 THEN "A" ELSE copy.State
    BY <1>5, <2>1 DEF Copies
  <2>3. MasterTypeOK'
    BY <1>1, <1>2, <1>3, <1>5, <2>2 DEF NodeInv, MasterTypeOK, Stages
  <2>4. CopyKnows' /\ CopyIsNew'
    <3>1. ctx' = ctx /\ CopyKnows /\ CopyIsNew /\ granted' = (granted /\ online # 1)
      BY <1>1, <1>5 DEF NodeInv
    <3>2. CASE online = 1
      BY <2>2, <3>1, <3>2 DEF CopyKnows, CopyIsNew, Untouched
    <3>3. CASE online # 1
      BY <2>2, <3>1, <3>3 DEF CopyKnows, CopyIsNew
    <3> QED BY <3>2, <3>3
  <2> QED
    BY <1>1, <1>2, <2>3, <2>4 DEF NodeInv, Base, FrameGrants, Quiet
<1>6. CASE \E menu \in BOOLEAN :
             /\ copy' = [State |-> ctx.State, ErrorFlags |-> ctx.ErrorFlags,
                         Mode |-> ctx.Mode,
                         NodeNewMode |-> copy.NodeNewMode
                                         \/ (ctx.Mode # masterMode /\ ~menu)]
             /\ granted' = (granted /\ online # 1)
             /\ online' = OnlineMax
  <2>1. copy.NodeNewMode \in BOOLEAN
    BY DEF NodeInv, MasterTypeOK, Copies
  <2>2. copy' \in Copies /\ copy'.State = ctx.State
    BY <1>4, <1>6, <2>1 DEF Copies, Ctx
  <2>3. MasterTypeOK'
    BY <1>1, <1>2, <1>3, <1>6, <2>2 DEF NodeInv, MasterTypeOK, Stages
  <2>4. CopyKnows' /\ CopyIsNew'
    BY <1>1, <1>4, <2>2 DEF CopyKnows, CopyIsNew, Wired, Powered, Untouched, OnPower
  <2> QED
    BY <1>1, <1>2, <2>3, <2>4 DEF NodeInv, Base, FrameGrants, Quiet
<1> QED
  BY <1>5, <1>6 DEF Poll

\* Process: the frame grants what the copy asks for, or repeats the copy.
LEMMA ProcessInv ==
    ASSUME NodeInv, NEW current \in BOOLEAN, NEW nocomm \in BOOLEAN,
           NEW refused \in BOOLEAN, Process(current, nocomm, refused)
    PROVE  NodeInv'
<1> DEFINE errors == AnsweredErrors(current, nocomm)
           granting == current /\ copy.State \in {"COMM_B", "COMM_C"}
           mode == IF copy.NodeNewMode /\ ~refused THEN copy.Mode ELSE masterMode
           state == CASE granting /\ copy.State = "COMM_B" -> "B"
                      [] granting /\ copy.State = "COMM_C" -> "C"
                      [] OTHER -> copy.State
           answer == CASE granting /\ copy.State = "COMM_B" -> "COMM_B_OK"
                       [] granting /\ copy.State = "COMM_C" -> "COMM_C_OK"
                       [] OTHER -> copy.State
           w == [State |-> answer, ErrorFlags |-> errors,
                 Mode |-> IF copy.Mode # mode THEN mode ELSE "same"]
<1>1. /\ copy \in Copies /\ copy.State \in States /\ copy.ErrorFlags \in SUBSET Faults
      /\ copy.Mode \in {"NORMAL", "SMART"} /\ masterMode \in {"NORMAL", "SMART"}
      /\ granted \in BOOLEAN
  BY DEF NodeInv, MasterTypeOK, Copies
<1>2. errors \in SUBSET Faults
  BY <1>1 DEF AnsweredErrors, Faults
<1>3. mode \in {"NORMAL", "SMART"} /\ state \in States /\ answer \in States
  BY <1>1 DEF States
<1>4. /\ answer # state => /\ answer \in {"COMM_B_OK", "COMM_C_OK"}
                           /\ copy.State \in Untouched
      /\ answer \in OnPower => state \in OnPower
      /\ copy.State \in OnPower \cup {"A"} => state = copy.State
      /\ state \in Untouched => copy.State \in Untouched
  BY DEF Untouched, OnPower
<1>5. /\ copy' = [copy EXCEPT !.ErrorFlags = errors, !.NodeNewMode = FALSE,
                              !.State = state]
      /\ granted' = (IF copy.State \in {"COMM_B", "COMM_C"} THEN current ELSE granted)
      /\ frame' \in {{}, {w}}
      /\ masterMode' = mode /\ stage' = "regulate"
      /\ UNCHANGED <<ctx, rcm, diodeSeen, online>>
  BY DEF Process, vars
<1> HIDE DEF errors, mode, state, answer, w
<1>6. copy' \in Copies /\ copy'.State = state
  BY <1>1, <1>2, <1>3, <1>5, Zenon DEF Copies
<1>7. w \in Frames /\ w.State = answer
  BY <1>2, <1>3 DEF Frames, w
<1>8. MasterTypeOK'
  BY <1>1, <1>3, <1>5, <1>6, <1>7 DEF NodeInv, MasterTypeOK, Stages
<1>9. CopyKnows'
  BY <1>4, <1>5, <1>6 DEF NodeInv, CopyKnows
<1>10. CopyIsNew'
  BY <1>4, <1>5, <1>6 DEF NodeInv, CopyIsNew
<1>11. FrameGrants'
  BY <1>4, <1>5, <1>6, <1>7 DEF NodeInv, FrameGrants, CopyIsNew
<1> QED
  BY <1>5, <1>8, <1>9, <1>10, <1>11 DEF NodeInv, Base, Quiet

\* A frame reaches the node, which is then what the master granted at most.
LEMMA WriteInv == ASSUME NodeInv, WriteArrives PROVE NodeInv'
<1>1. PICK w \in frame : /\ Good(ctx') /\ ~Tripped(ctx')
                         /\ ctx'.State \in OnPower => w.State \in OnPower
                         /\ w.State \in Untouched \cup {"COMM_B_OK"} => ~Powered(ctx')
                         /\ rcm' = rcm /\ diodeSeen' \in BOOLEAN
  BY WriteLeaves
<1>2. frame' = {} /\ UNCHANGED <<stage, copy, online, granted, masterMode>>
  BY DEF WriteArrives
<1>3. Base' /\ Quiet'
  BY <1>1, HasMaster DEF NodeInv, Base, Quiet
<1>4. MasterTypeOK' /\ FrameGrants'
  BY <1>2 DEF NodeInv, MasterTypeOK, FrameGrants
<1>5. CopyKnows'
  BY <1>1, <1>2 DEF NodeInv, CopyKnows, FrameGrants
<1>6. CopyIsNew'
  <2> SUFFICES ASSUME copy.State \in Untouched PROVE ~Powered(ctx')
    BY <1>2 DEF CopyIsNew
  <2>1. copy.State \notin OnPower
    BY DEF Untouched, OnPower
  <2> QED BY <1>1, <2>1 DEF NodeInv, FrameGrants, OnPower
<1> QED
  BY <1>3, <1>4, <1>5, <1>6 DEF NodeInv

\* Every step keeps NodeInv: one step of the proof per action of NodeNext.
LEMMA NodeNextInv == NodeInv /\ [NodeNext]_nodeVars => NodeInv'
<1> SUFFICES ASSUME NodeInv, [NodeNext]_nodeVars PROVE NodeInv'
  OBVIOUS
<1>0. Good(ctx) /\ Fit(ctx) /\ ctx \in Ctx
  BY DEF NodeInv, Base, Good, Fit
<1>1. CASE Local
  BY <1>1, LocalInv
<1>2. CASE Poll
  BY <1>2, PollInv
<1>3. CASE \E current, nocomm, refused \in BOOLEAN : Process(current, nocomm, refused)
  BY <1>3, ProcessInv
<1>4. CASE Skip
  BY <1>4
  DEF Skip, vars, NodeInv, MasterTypeOK, Stages, Base, CopyKnows, CopyIsNew, FrameGrants, Quiet
<1>5. CASE MasterUser
  <2>1. masterMode' \in {"NORMAL", "SMART"}
    BY <1>5, EnvAssumption DEF MasterUser
  <2> QED
    BY <1>5, <2>1
    DEF MasterUser, vars, NodeInv, MasterTypeOK, Base, CopyKnows, CopyIsNew, FrameGrants, Quiet
<1>6. CASE WriteArrives
  BY <1>6, WriteInv
<1>7. CASE WriteLost
  BY <1>7
  DEF WriteLost, vars, NodeInv, MasterTypeOK, Base, CopyKnows, CopyIsNew, FrameGrants, Quiet
<1>8. CASE Broadcast
  <2> DEFINE d == IF ~granted' /\ ctx.State = "C" THEN SetState(ctx, "C1") ELSE ctx
             c == [d EXCEPT !.MainsMeterTimeout = COMM_TIMEOUT]
  <2>1. /\ Becomes(c) /\ UNCHANGED <<rcm, copy, online, masterMode, frame>>
        /\ stage' = "poll" /\ frame = {}
        /\ granted' \in BOOLEAN /\ (granted' = granted \/ copy.State # "A")
    BY <1>8 DEF Broadcast, EndOfCycle, CurrentReceived, NodeInv, MasterTypeOK
  <2>2. Calm(ctx, d) /\ d \in Ctx
    BY <1>0, StopCalm, KeptSame DEF Calm, Good, Fit
  <2> HIDE DEF d
  <2>3. Eased(d, c)
    BY <2>2, Durations, Zenon DEF Ctx, Eased
  <2> HIDE DEF c
  <2>4. Calm(ctx, c)
    BY <2>2, <2>3, EasedCalm, CalmTrans DEF Brisk, Calm
  <2>5. MasterTypeOK'
    BY <2>1 DEF NodeInv, MasterTypeOK, Stages
  <2> QED BY <2>1, <2>4, <2>5, HeardInv
<1>9. CASE NoBroadcast
  BY <1>9
  DEF NoBroadcast, EndOfCycle, vars, NodeInv, MasterTypeOK, Stages, Base, CopyKnows,
      CopyIsNew, FrameGrants, Quiet
<1>10. CASE TripBroadcast
  <2>1. PICK errors \in MasterFlags : Becomes(ErrorsWritten(ctx, errors \cup {"LESS_6A"}))
    BY <1>10 DEF TripBroadcast
  <2>2. errors \cup {"LESS_6A"} \in SUBSET Faults
    BY NodeAssumption DEF Faults
  <2>3. Calm(ctx, ErrorsWritten(ctx, errors \cup {"LESS_6A"}))
    BY <1>0, <2>2, ErrorsWrittenCalm
  <2>4. UNCHANGED <<rcm, stage, copy, online, granted, masterMode, frame>>
    BY <1>10 DEF TripBroadcast, masterVars
  <2>5. MasterTypeOK'
    BY <2>4 DEF NodeInv, MasterTypeOK
  <2> QED BY <2>1, <2>3, <2>4, <2>5, HeardInv
<1>11. CASE UNCHANGED nodeVars
  BY <1>11
  DEF nodeVars, vars, masterVars, NodeInv, MasterTypeOK, Base, CopyKnows, CopyIsNew,
      FrameGrants, Quiet
<1> QED
  BY <1>1, <1>2, <1>3, <1>4, <1>5, <1>6, <1>7, <1>8, <1>9, <1>10, <1>11 DEF NodeNext

\* NodeInv holds in every behaviour of node, bus and master.
LEMMA NodeInvHolds == NodeSpec => []NodeInv
  BY NodeInitInv, NodeNextInv, PTL DEF NodeSpec

----------------------------------------------------------------------------
(* The theorems                                                            *)

\* Every field of the node and every register of the master's copy keeps its type,
\* and at most one frame is under way.
THEOREM NodeTypeCorrect == NodeSpec => []NodeTypeOK
<1>1. NodeInv => NodeTypeOK
  BY DEF NodeInv, Base, MasterTypeOK, NodeTypeOK, TypeOK, Good, Fit
<1> QED
  BY <1>1, NodeInvHolds, PTL

\* A node that charges is one that the master counts, or stops with its next
\* broadcast: whatever is lost, late or out of date.
THEOREM ChargingIsKnown == NodeSpec => []NodeChargingIsKnown
<1>1. NodeInv => NodeChargingIsKnown
  BY DEF NodeInv, CopyKnows, NodeChargingIsKnown, OnPower
<1> QED
  BY <1>1, NodeInvHolds, PTL

\* The contactor of a node is closed in C, C1 and on the way back to C only, whatever
\* states the master writes.
THEOREM NodeContactors == NodeSpec => []NodeContactorFollows
<1>1. NodeInv => NodeContactorFollows
  BY DEF NodeInv, Base, Good, Fit, Wired, NodeContactorFollows
<1> QED
  BY <1>1, NodeInvHolds, PTL

\* A node counts the phases that are switched on.
THEOREM NodePhases == NodeSpec => []PhasesMatchContactors
<1>1. NodeInv => PhasesMatchContactors
  BY DEF NodeInv, Base, Good, Fit, Wired, PhasesMatchContactors
<1> QED
  BY <1>1, NodeInvHolds, PTL

\* A node without a residual current monitor never charges with a fault, although
\* the master overwrites its faults with older ones.
THEOREM NodeFaultStops == ASSUME ~RcmPresent PROVE NodeSpec => []NoChargeOnFault
<1>1. NodeInv => NoChargeOnFault
  BY DEF NodeInv, Base, Quiet, Good, Permitted, Tripped, NoChargeOnFault, OnPower
<1> QED
  BY <1>1, NodeInvHolds, PTL
=============================================================================
