---------------------------- MODULE BridgeProofs ----------------------------
(***************************************************************************)
(* The bridge of evse_bridge.cpp, for any number of tasks and fields: a    *)
(* call is one step for all fields that are written under the mutex, and   *)
(* for the settings.                                                       *)
(***************************************************************************)
EXTENDS Bridge, TLAPS

\* Of those between lock and unlock there is one, and it holds the mutex
Exclusive == \A t \in Tasks : pc[t] \in Inside <=> mutex = t

\* Between the two copies the context holds the fields that nobody else may write;
\* before the copy out it may be ahead of them
Guarded == TwoWay \ Direct
Faithful == \A t \in Tasks : pc[t] = "operate" =>
                \A f \in Guarded : ctx[f] = global[f]

IInv == TypeOK /\ Exclusive /\ Faithful

----------------------------------------------------------------------------

\* Init has what the invariant says: nobody is inside
LEMMA InitInv == Init => IInv
<1> SUFFICES ASSUME Init PROVE IInv
    OBVIOUS
<1> USE DEF Init
<1>1. TypeOK
    BY DEF TypeOK
<1>2. Exclusive
    BY BridgeAssumption DEF Exclusive, Inside
<1>3. Faithful
    BY DEF Faithful
<1> QED BY <1>1, <1>2, <1>3 DEF IInv

\* Each step of a call, and a write without the mutex, keeps the types
LEMMA TypeStep == IInv /\ [Next]_vars => TypeOK'
<1> SUFFICES ASSUME IInv, [Next]_vars PROVE TypeOK'
    OBVIOUS
<1> USE DEF IInv, TypeOK, Goto
<1>1. ASSUME NEW t \in Tasks, Call(t) PROVE TypeOK'
    BY <1>1 DEF Call
<1>2. ASSUME NEW t \in Tasks, Lock(t) PROVE TypeOK'
    BY <1>2 DEF Lock
<1>3. ASSUME NEW t \in Tasks, CopyIn(t) PROVE TypeOK'
    BY <1>3 DEF CopyIn, Fields, Globals
<1>4. ASSUME NEW t \in Tasks, Peek(t) PROVE TypeOK'
    BY <1>4 DEF Peek
<1>5. ASSUME NEW t \in Tasks, Operate(t) PROVE TypeOK'
    BY <1>5 DEF Operate
<1>6. ASSUME NEW t \in Tasks, Ask(t) PROVE TypeOK'
    BY <1>6 DEF Ask
<1>7. ASSUME NEW t \in Tasks, CopyOut(t) PROVE TypeOK'
    BY <1>7 DEF CopyOut, Fields, Globals
<1>8. ASSUME NEW t \in Tasks, Unlock(t) PROVE TypeOK'
    BY <1>8 DEF Unlock
<1>9. CASE WriteDirectly
    BY <1>9, BridgeAssumption DEF WriteDirectly
<1>10. CASE UNCHANGED vars
    BY <1>10 DEF vars
<1> QED BY <1>1, <1>2, <1>3, <1>4, <1>5, <1>6, <1>7, <1>8, <1>9, <1>10 DEF Next, Transact

\* The mutex is given to a task that was outside, and taken from the one inside
LEMMA ExclusiveStep == IInv /\ [Next]_vars => Exclusive'
<1> SUFFICES ASSUME IInv, [Next]_vars PROVE Exclusive'
    OBVIOUS
<1> USE BridgeAssumption DEF IInv, TypeOK, Goto, Exclusive, Inside
<1>1. ASSUME NEW t \in Tasks, Call(t) PROVE Exclusive'
    BY <1>1 DEF Call
<1>2. ASSUME NEW t \in Tasks, Lock(t) PROVE Exclusive'
    BY <1>2 DEF Lock
<1>3. ASSUME NEW t \in Tasks, CopyIn(t) PROVE Exclusive'
    BY <1>3 DEF CopyIn
<1>4. ASSUME NEW t \in Tasks, Peek(t) PROVE Exclusive'
    BY <1>4 DEF Peek
<1>5. ASSUME NEW t \in Tasks, Operate(t) PROVE Exclusive'
    BY <1>5 DEF Operate
<1>6. ASSUME NEW t \in Tasks, Ask(t) PROVE Exclusive'
    BY <1>6 DEF Ask
<1>7. ASSUME NEW t \in Tasks, CopyOut(t) PROVE Exclusive'
    BY <1>7 DEF CopyOut
<1>8. ASSUME NEW t \in Tasks, Unlock(t) PROVE Exclusive'
    BY <1>8 DEF Unlock
<1>9. CASE WriteDirectly
    BY <1>9 DEF WriteDirectly
<1>10. CASE UNCHANGED vars
    BY <1>10 DEF vars
<1> QED BY <1>1, <1>2, <1>3, <1>4, <1>5, <1>6, <1>7, <1>8, <1>9, <1>10 DEF Next, Transact

\* Nobody else can operate, and a write without the mutex is of other fields
LEMMA FaithfulStep == IInv /\ [Next]_vars => Faithful'
<1> SUFFICES ASSUME IInv, [Next]_vars PROVE Faithful'
    OBVIOUS
<1>0. \A s, t \in Tasks : pc[s] \in Inside /\ pc[t] \in Inside => s = t
    BY DEF IInv, Exclusive
<1> USE DEF IInv, TypeOK, Goto, Faithful, Inside
<1>1. ASSUME NEW t \in Tasks, Call(t) PROVE Faithful'
    BY <1>1 DEF Call
<1>2. ASSUME NEW t \in Tasks, Lock(t) PROVE Faithful'
    BY <1>2 DEF Lock
<1>3. ASSUME NEW t \in Tasks, CopyIn(t) PROVE Faithful'
    BY <1>3 DEF CopyIn, Guarded, Globals, Fields
<1>4. ASSUME NEW t \in Tasks, Peek(t) PROVE Faithful'
    BY <1>4 DEF Peek
<1>5. ASSUME NEW t \in Tasks, Operate(t) PROVE Faithful'
    <2> SUFFICES ASSUME NEW s \in Tasks, pc'[s] = "operate" PROVE FALSE
        OBVIOUS
    <2>1. s # t
        BY <1>5 DEF Operate
    <2>2. pc[s] = "operate" /\ pc[t] = "operate"
        BY <1>5, <2>1 DEF Operate
    <2> QED BY <1>0, <2>1, <2>2
<1>6. ASSUME NEW t \in Tasks, Ask(t) PROVE Faithful'
    BY <1>6 DEF Ask
<1>7. ASSUME NEW t \in Tasks, CopyOut(t) PROVE Faithful'
    <2> SUFFICES ASSUME NEW s \in Tasks, pc'[s] = "operate" PROVE FALSE
        OBVIOUS
    <2>1. s # t
        BY <1>7 DEF CopyOut
    <2>2. pc[s] = "operate" /\ pc[t] = "copyout"
        BY <1>7, <2>1 DEF CopyOut
    <2> QED BY <1>0, <2>1, <2>2
<1>8. ASSUME NEW t \in Tasks, Unlock(t) PROVE Faithful'
    BY <1>8 DEF Unlock
<1>9. CASE WriteDirectly
    BY <1>9, BridgeAssumption DEF WriteDirectly, Guarded, Globals
<1>10. CASE UNCHANGED vars
    BY <1>10 DEF vars
<1> QED BY <1>1, <1>2, <1>3, <1>4, <1>5, <1>6, <1>7, <1>8, <1>9, <1>10 DEF Next, Transact

\* The invariant holds in every behaviour of the bridge
THEOREM Invariance == Spec => []IInv
<1>1. IInv /\ [Next]_vars => IInv'
    BY TypeStep, ExclusiveStep, FaithfulStep DEF IInv
<1> QED BY InitInv, <1>1, PTL DEF Spec

\* The types of the globals, the context and the mutex
THEOREM TypeCorrect == Spec => []TypeOK
<1>1. IInv => TypeOK
    BY DEF IInv
<1> QED BY Invariance, <1>1, PTL

\* Every operation of the state machine works on the values that the rest of the
\* program sees (the copy in under the mutex)
THEOREM TrueSnapshot == Spec => []SnapshotIsTrue
<1>1. IInv => SnapshotIsTrue
    BY BridgeAssumption DEF IInv, Faithful, SnapshotIsTrue, Guarded, Globals
<1> QED BY Invariance, <1>1, PTL

----------------------------------------------------------------------------
(* Each call is one step, at its operation                                 *)

\* A field that only code under the mutex writes, a setting or one of the context
LEMMA KeptFields == \A f \in Kept : \/ f \in Settings
                                    \/ f \in Inner /\ f \notin Globals
                                    \/ f \in Guarded /\ f \notin Settings \cup Inner
BY BridgeAssumption DEF Kept, Fields, Globals, Guarded

\* The step that commits is Operate; a setting is updated where it is written
LEMMA StepIsUpdate == IInv /\ [Next]_vars => [Atomic!Update]_Shown
<1> SUFFICES ASSUME IInv, [Next]_vars PROVE Atomic!Update \/ Shown' = Shown
    OBVIOUS
<1>0. \A s, t \in Tasks : pc[s] \in Inside /\ pc[t] \in Inside => s = t
    BY DEF IInv, Exclusive
<1> USE DEF Goto
<1>1. ASSUME NEW t \in Tasks, Call(t) \/ Lock(t) \/ Peek(t) \/ Ask(t) \/ Unlock(t)
      PROVE Shown' = Shown
    <2>1. Committing' = Committing
        BY <1>1 DEF Committing, Call, Lock, Peek, Ask, Unlock, IInv, TypeOK
    <2>2. UNCHANGED <<global, ctx>>
        BY <1>1 DEF Call, Lock, Peek, Ask, Unlock
    <2> QED BY <2>1, <2>2 DEF Shown
<1>2. ASSUME NEW t \in Tasks, CopyIn(t) PROVE Shown' = Shown
    <2>1. ~Committing /\ ~Committing'
        BY <1>0, <1>2 DEF Committing, CopyIn, IInv, TypeOK, Inside
    <2>2. global' = global /\ \A f \in Inner : ctx'[f] = ctx[f]
        BY <1>2, BridgeAssumption DEF CopyIn, Fields
    <2>3. \A f \in Kept : Shown'[f] = Shown[f]
        BY <2>1, <2>2, KeptFields DEF Shown
    <2> QED BY <2>3 DEF Shown
<1>3. ASSUME NEW t \in Tasks, Operate(t) PROVE Atomic!Update
    <2>1. ~Committing /\ Committing'
        BY <1>0, <1>3 DEF Committing, Operate, IInv, TypeOK, Inside
    <2>2. PICK F \in SUBSET (TwoWay \cup Inner) :
             ctx' = [f \in Fields |-> IF f \in F THEN ctx[f] + 1 ELSE ctx[f]]
        BY <1>3 DEF Operate
    <2>3. \A f \in Guarded : ctx[f] = global[f]
        BY <1>3 DEF Operate, IInv, Faithful
    <2>4. global' = global
        BY <1>3 DEF Operate
    <2>5. \A f \in Kept : Shown'[f] = IF f \in F \cap Kept THEN Shown[f] + 1 ELSE Shown[f]
        BY <2>1, <2>2, <2>3, <2>4, KeptFields, BridgeAssumption
           DEF Shown, Kept, Globals, Guarded
    <2>6. Shown' = [f \in Kept |-> IF f \in F \cap Kept THEN Shown[f] + 1 ELSE Shown[f]]
        BY <2>5 DEF Shown
    <2> QED BY <2>6 DEF Atomic!Update
<1>4. ASSUME NEW t \in Tasks, CopyOut(t) PROVE Shown' = Shown
    <2>1. Committing /\ ~Committing'
        BY <1>0, <1>4 DEF Committing, CopyOut, IInv, TypeOK, Inside
    <2>2. ctx' = ctx /\ \A f \in Globals : global'[f] = IF f \in TwoWay THEN ctx[f] ELSE global[f]
        BY <1>4 DEF CopyOut
    <2>3. \A f \in Kept : Shown'[f] = Shown[f]
        BY <2>1, <2>2, KeptFields, BridgeAssumption DEF Shown, Globals, Guarded
    <2> QED BY <2>3 DEF Shown
<1>5. CASE WriteDirectly
    <2>1. PICK d \in Direct : global' = [global EXCEPT ![d] = @ + 1]
        BY <1>5 DEF WriteDirectly
    <2>2. ctx' = ctx /\ Committing' = Committing
        BY <1>5 DEF WriteDirectly, Committing
    <2>3. \A f \in Kept : Shown'[f] = IF f \in {d} \cap Settings THEN Shown[f] + 1 ELSE Shown[f]
        BY <2>1, <2>2, KeptFields, BridgeAssumption DEF Shown, Globals, Guarded, IInv, TypeOK
    <2>4. Shown' = [f \in Kept |-> IF f \in {d} \cap Settings THEN Shown[f] + 1 ELSE Shown[f]]
        BY <2>3 DEF Shown
    <2>5. {d} \cap Settings \in SUBSET Kept
        BY BridgeAssumption DEF Kept, Fields, Globals
    <2> QED BY <2>4, <2>5 DEF Atomic!Update
<1>6. CASE UNCHANGED vars
    BY <1>6 DEF vars, Committing, Shown
<1> QED BY <1>1, <1>2, <1>3, <1>4, <1>5, <1>6 DEF Next, Transact

\* The bridge implements the one-step calls of AtomicState: no update of a field that
\* is written under the mutex, and none of a setting, is lost or made twice
THEOREM Implements == Spec => ImplementsAtomic
<1>1. Init => Atomic!Init
    BY KeptFields, BridgeAssumption
       DEF Init, Atomic!Init, Shown, Committing, Kept, Fields, Globals, Guarded
<1> QED BY Invariance, <1>1, StepIsUpdate, PTL DEF Spec, ImplementsAtomic, Atomic!Spec
=============================================================================
