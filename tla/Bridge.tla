------------------------------- MODULE Bridge -------------------------------
(***************************************************************************)
(* evse_bridge.cpp: the state machine works on a context, the rest of the  *)
(* program on global variables.  Each call takes the mutex, copies the     *)
(* globals in, operates, copies what the state machine owns out, and gives *)
(* the mutex back (setState, setAccess, the ticks and eight more, all in   *)
(* the same form).  Other code writes globals without the mutex.           *)
(*                                                                         *)
(* The value of a field is the number of its updates; an update reads the  *)
(* old value, as a timer or a flag of errors does.  Each copy holds a      *)
(* spinlock and is one step.                                               *)
(***************************************************************************)
EXTENDS Naturals

CONSTANTS
    Tasks,      \* that call the state machine: 10 ms, 1 s, 100 ms, loop
    TwoWay,     \* fields that are copied in and out: State, ErrorFlags, ...
    Settings,   \* fields that are only copied in: MaxCurrent, EnableC2, ...
    Inner,      \* fields of the context alone: StateTimer, DiodeCheck, ...
    Direct,     \* those of the globals that are also written without the mutex
    MaxUpdates, \* bound of the updates of one field
    NoTask

Globals == TwoWay \cup Settings
Fields == Globals \cup Inner

ASSUME BridgeAssumption ==
    /\ TwoWay \cap Settings = {} /\ Globals \cap Inner = {}
    /\ Settings \subseteq Direct /\ Direct \subseteq Globals
    /\ NoTask \notin Tasks /\ MaxUpdates \in Nat

VARIABLES
    global,     \* the global variables
    ctx,        \* g_evse_ctx
    mutex,      \* evse_ctx_mutex: who holds it
    pc          \* what each task is about to do

vars == <<global, ctx, mutex, pc>>

Goto(t, label) == pc' = [pc EXCEPT ![t] = label]

----------------------------------------------------------------------------

Call(t) == /\ pc[t] = "idle" /\ Goto(t, "lock")
           /\ UNCHANGED <<global, ctx, mutex>>

\* Mutant: the mutex is not waited for
Lock_Nowait(t) == /\ pc[t] = "lock" /\ Goto(t, "copyin") /\ mutex' = t
                  /\ UNCHANGED <<global, ctx>>

\* evse_bridge_lock
Lock(t) == /\ pc[t] = "lock" /\ mutex = NoTask
           /\ mutex' = t /\ Goto(t, "copyin")
           /\ UNCHANGED <<global, ctx>>

\* Mutant: the context is built anew from the globals
CopyIn_Anew(t) == /\ pc[t] = "copyin" /\ Goto(t, "operate")
                  /\ ctx' = [f \in Globals |-> global[f]]
                  /\ UNCHANGED <<global, mutex>>

\* evse_sync_globals_to_ctx
CopyIn(t) == /\ pc[t] = "copyin" /\ Goto(t, "operate")
             /\ ctx' = [f \in Fields |-> IF f \in Globals THEN global[f] ELSE ctx[f]]
             /\ UNCHANGED <<global, mutex>>

\* The sampler of the diagnostics reads the context and copies nothing
Peek(t) == /\ pc[t] = "copyin" /\ Goto(t, "unlock")
           /\ UNCHANGED <<global, ctx, mutex>>

\* The operation reads everything and updates what it will of its own fields
Operate(t) ==
    /\ pc[t] = "operate" /\ Goto(t, "copyout")
    /\ \E F \in SUBSET (TwoWay \cup Inner) :
          /\ \A f \in F : ctx[f] < MaxUpdates
          /\ ctx' = [f \in Fields |-> IF f \in F THEN ctx[f] + 1 ELSE ctx[f]]
    /\ UNCHANGED <<global, mutex>>

\* Force_Single_Phase_Charging asks, and copies nothing out
Ask(t) == /\ pc[t] = "operate" /\ Goto(t, "unlock")
          /\ UNCHANGED <<global, ctx, mutex>>

\* Mutant: the settings are copied out too
CopyOut_Settings(t) == /\ pc[t] = "copyout" /\ Goto(t, "unlock")
                       /\ global' = [f \in Globals |-> ctx[f]]
                       /\ UNCHANGED <<ctx, mutex>>

\* evse_sync_ctx_to_globals
CopyOut(t) == /\ pc[t] = "copyout" /\ Goto(t, "unlock")
              /\ global' = [f \in Globals |-> IF f \in TwoWay THEN ctx[f] ELSE global[f]]
              /\ UNCHANGED <<ctx, mutex>>

\* Mutant: the mutex is not given back
Unlock_Forgotten(t) == /\ pc[t] = "unlock" /\ Goto(t, "idle")
                       /\ UNCHANGED <<global, ctx, mutex>>

\* evse_bridge_unlock
Unlock(t) == /\ pc[t] = "unlock" /\ Goto(t, "idle")
             /\ mutex' = NoTask
             /\ UNCHANGED <<global, ctx>>

\* A menu, a message or a node's answer, without the mutex
WriteDirectly ==
    /\ \E f \in Direct : /\ global[f] < MaxUpdates
                         /\ global' = [global EXCEPT ![f] = @ + 1]
    /\ UNCHANGED <<ctx, mutex, pc>>

----------------------------------------------------------------------------

Init ==
    /\ global = [f \in Globals |-> 0] /\ ctx = [f \in Fields |-> 0]
    /\ mutex = NoTask /\ pc = [t \in Tasks |-> "idle"]

Transact(t) == Lock(t) \/ CopyIn(t) \/ Peek(t) \/ Operate(t) \/ Ask(t)
               \/ CopyOut(t) \/ Unlock(t)

Next ==
    \/ \E t \in Tasks : Call(t) \/ Transact(t)
    \/ WriteDirectly

\* A task that has begun goes on.  The mutex of FreeRTOS goes to a task that waits
\* for it, and the tasks that take it sleep in between: who waits gets it
Fairness == \A t \in Tasks : WF_vars(Transact(t)) /\ SF_vars(Lock(t))

Spec == Init /\ [][Next]_vars /\ Fairness

----------------------------------------------------------------------------
(* Properties                                                              *)

TypeOK ==
    /\ global \in [Globals -> Nat] /\ ctx \in [Fields -> Nat]
    /\ mutex \in Tasks \cup {NoTask}
    /\ pc \in [Tasks -> {"idle", "lock", "copyin", "operate", "copyout", "unlock"}]

\* The context that an operation works on is what everybody else sees, but for the
\* variables that others write without asking
Inside == {"copyin", "operate", "copyout", "unlock"}
SnapshotIsTrue ==
    \A t \in Tasks : pc[t] = "operate" =>
        \A f \in Globals \ Direct : ctx[f] = global[f]

\* Guarded fields and settings behave as if each call were one step: no update of
\* them is lost or made twice, whatever the tasks interleave
Committing == \E t \in Tasks : pc[t] = "copyout"
Kept == Fields \ (TwoWay \cap Direct)
Shown == [f \in Kept |-> IF f \in Inner \/ (f \in TwoWay /\ Committing) THEN ctx[f]
                                                                      ELSE global[f]]
Atomic == INSTANCE AtomicState WITH Fields <- Kept, value <- Shown
ImplementsAtomic == Atomic!Spec

\* Every call returns: nobody keeps the mutex, and nobody waits for ever
CallsReturn == \A t \in Tasks : pc[t] = "lock" ~> pc[t] = "idle"
=============================================================================
