------------------------------ MODULE EvseNode ------------------------------
(***************************************************************************)
(* A node (LoadBl > 1) and its load balancing master, over the bus.  The   *)
(* node is EvseStateMachine.  The master is what main.cpp does about one   *)
(* node in every cycle of ModbusRequestLoop: it reads the node's registers *)
(* into a copy (BalancedState, BalancedError), later in the cycle answers  *)
(* the request it finds in the copy by writing the registers, and at the   *)
(* end broadcasts the currents.                                            *)
(*                                                                         *)
(* The bus is half duplex: the master sends one frame and goes on when it  *)
(* is answered or timed out, so at most one write is under way, and it may *)
(* be lost.  Whatever the node does between the reading of its registers   *)
(* and the arrival of the write is not seen by the master.                 *)
(***************************************************************************)
EXTENDS EvseStateMachine

CONSTANTS
    OnlineMax,      \* unanswered polls until a node is offline: 5
    MasterFlags     \* what the master's ErrorFlags may be in a broadcast

ASSUME NodeAssumption ==
    /\ LoadBl > 1 /\ OnlineMax \in Nat \ {0}
    /\ MasterFlags \subseteq SUBSET Faults

VARIABLES
    stage,      \* where the master is in its cycle
    copy,       \* the master's copy of the node's registers
    online,     \* Node[].Online
    granted,    \* Balanced[] of the node is not 0
    masterMode, \* the master's Mode
    frame       \* the write on its way to the node: a set of at most one

masterVars == <<stage, copy, online, granted, masterMode, frame>>
nodeVars == <<vars, masterVars>>

Stages == {"poll", "process", "regulate"}
Copies == [State : States, ErrorFlags : SUBSET Faults, Mode : {"NORMAL", "SMART"},
           NodeNewMode : BOOLEAN]
Frames == [State : States, ErrorFlags : SUBSET Faults,
           Mode : {"NORMAL", "SMART", "same"}]

NodeInit == /\ Init
            /\ stage = "poll" /\ online = 0 /\ granted = FALSE
            /\ masterMode \in Modes /\ frame = {}
            /\ copy = [State |-> "A", ErrorFlags |-> {}, Mode |-> "NORMAL",
                       NodeNewMode |-> FALSE]

----------------------------------------------------------------------------
(* The master                                                              *)

\* requestNodeStatus, and the answer of the node (receiveNodeStatus) or none.
\* A mode that differs from the master's is to be adopted, unless the master's
\* user is in the menu
Poll ==
    /\ stage = "poll" /\ stage' = "process"
    /\ \/ /\ copy' = [copy EXCEPT !.State = IF online = 1 THEN "A" ELSE @]
          /\ granted' = (granted /\ online # 1)
          /\ online' = Dec(online)
       \/ \E menu \in BOOLEAN :
             /\ copy' = [State |-> ctx.State, ErrorFlags |-> ctx.ErrorFlags,
                         Mode |-> ctx.Mode,
                         NodeNewMode |-> copy.NodeNewMode
                                         \/ (ctx.Mode # masterMode /\ ~menu)]
             /\ granted' = (granted /\ online # 1)
             /\ online' = OnlineMax
    /\ UNCHANGED <<vars, masterMode, frame>>

\* The errors of the copy after processAllNodeStates looked at them
AnsweredErrors(current, nocomm) ==
    (IF current THEN copy.ErrorFlags \ {"LESS_6A"} ELSE copy.ErrorFlags)
    \cup (IF nocomm THEN {"CT_NOCOMM"} ELSE {})
    \cup (IF ~current /\ copy.State \in {"COMM_B", "COMM_C"} THEN {"LESS_6A"} ELSE {})

\* processAllNodeStates: "current" is IsCurrentAvailable, "nocomm" whether the
\* master itself is in CT_NOCOMM, "refused" whether its setMode refuses the mode.
\* Whatever the reason of a write, it carries the state of the copy
Process(current, nocomm, refused) ==
    LET errors  == AnsweredErrors(current, nocomm)
        granting == current /\ copy.State \in {"COMM_B", "COMM_C"}
        mode    == IF copy.NodeNewMode /\ ~refused THEN copy.Mode ELSE masterMode
        write   == granting \/ errors # copy.ErrorFlags \/ copy.Mode # mode
    IN  /\ stage = "process" /\ stage' = "regulate"
        /\ online > 0
        /\ masterMode' = mode
        /\ copy' = [copy EXCEPT !.ErrorFlags = errors, !.NodeNewMode = FALSE,
                                !.State = CASE granting /\ @ = "COMM_B" -> "B"
                                            [] granting /\ @ = "COMM_C" -> "C"
                                            [] OTHER -> @]
        /\ granted' = IF copy.State \in {"COMM_B", "COMM_C"} THEN current ELSE granted
        /\ frame' = IF ~write THEN {}
                    ELSE {[State |-> CASE granting /\ copy.State = "COMM_B" -> "COMM_B_OK"
                                      [] granting /\ copy.State = "COMM_C" -> "COMM_C_OK"
                                      [] OTHER -> copy.State,
                          ErrorFlags |-> errors,
                          Mode |-> IF copy.Mode # mode THEN mode ELSE "same"]}
        /\ UNCHANGED <<vars, online>>

Skip == /\ stage = "process" /\ online = 0
        /\ stage' = "regulate"
        /\ UNCHANGED <<vars, copy, online, granted, masterMode, frame>>

\* Mutant: a node that does not charge gets a current too
EndOfCycleForAll == /\ stage = "regulate" /\ frame = {}
                    /\ stage' = "poll" /\ granted' \in BOOLEAN
                    /\ UNCHANGED <<copy, online, masterMode, frame>>

\* The end of the cycle: only a node that charges gets a new current, and
\* without mains data nothing is broadcast
EndOfCycle == /\ stage = "regulate" /\ frame = {}
              /\ stage' = "poll"
              /\ granted' \in IF copy.State = "C" THEN BOOLEAN ELSE {granted}
              /\ UNCHANGED <<copy, online, masterMode, frame>>

MasterUser == /\ masterMode' \in ModeChoices
              /\ UNCHANGED <<vars, stage, copy, online, granted, frame>>

----------------------------------------------------------------------------
(* What reaches the node                                                   *)

\* setItemValue(STATUS_STATE)
StateWritten(c, s) == IF s # c.State THEN SetState(c, s) ELSE c

\* setItemValue(STATUS_ERROR)
ErrorsWritten(c, errors) ==
    LET d == [c EXCEPT !.ErrorFlags = errors]
        e == IF "CT_NOCOMM" \in errors THEN [d EXCEPT !.MainsMeterTimeout = 0] ELSE d
    IN  IF errors = {} THEN d
        ELSE [SetPowerUnavailable(e) EXCEPT !.ChargeDelay = CHARGEDELAY]

\* setItemValue(STATUS_MODE)
ModeWritten(c, mode) ==
    IF mode \in {"same", c.Mode} THEN c ELSE ModeSet(c, mode, FALSE)

\* WriteMultipleItemValueResponse: the registers one after the other
WriteArrives ==
    /\ \E w \in frame :
          Becomes(ModeWritten(ErrorsWritten(StateWritten(ctx, w.State),
                                            w.ErrorFlags), w.Mode))
    /\ frame' = {}
    /\ UNCHANGED <<rcm, stage, copy, online, granted, masterMode>>

WriteLost == /\ frame # {} /\ frame' = {}
             /\ UNCHANGED <<vars, stage, copy, online, granted, masterMode>>

\* Mutant: a current of 0 is taken for a sign of life and no more
CurrentNotedOnly(c, positive) == [c EXCEPT !.MainsMeterTimeout = COMM_TIMEOUT]

\* HandleModbusRequest, register 0x0020: a current of 0 stops the car
CurrentReceived(c, positive) ==
    LET d == IF ~positive /\ c.State = "C" THEN SetState(c, "C1") ELSE c
    IN  [d EXCEPT !.MainsMeterTimeout = COMM_TIMEOUT]

\* The broadcast of the currents reaches the node
Broadcast == /\ EndOfCycle
             /\ Becomes(CurrentReceived(ctx, granted'))
             /\ UNCHANGED rcm

\* It does not: it was lost, or not sent because the master is in CT_NOCOMM
NoBroadcast == EndOfCycle /\ UNCHANGED vars

\* The master trips at twice MaxMains and broadcasts its ErrorFlags
TripBroadcast ==
    /\ stage = "regulate" /\ frame = {}
    /\ \E errors \in MasterFlags : Becomes(ErrorsWritten(ctx, errors \cup {"LESS_6A"}))
    /\ UNCHANGED <<rcm, masterVars>>

----------------------------------------------------------------------------
Local == Next /\ UNCHANGED masterVars

NodeNext ==
    \/ Local
    \/ Poll
    \/ \E current, nocomm, refused \in BOOLEAN : Process(current, nocomm, refused)
    \/ Skip \/ MasterUser
    \/ WriteArrives \/ WriteLost
    \/ Broadcast \/ NoBroadcast \/ TripBroadcast

NodeSpec == NodeInit /\ [][NodeNext]_nodeVars

----------------------------------------------------------------------------
(* Properties                                                              *)

NodeTypeOK == /\ TypeOK
              /\ stage \in Stages /\ copy \in Copies /\ online \in 0..OnlineMax
              /\ granted \in BOOLEAN /\ masterMode \in {"NORMAL", "SMART"}
              /\ frame \subseteq Frames /\ (\A v, w \in frame : v = w)

\* The main contactor of a node is closed in C, and in C1, where the car was told to
\* stop.  A node that is in C already may be answered once more (COMM_C_OK), and goes
\* back to C with the next 10 ms tick.
NodeContactorFollows ==
    /\ ctx.State = "C" => ctx.contactor1
    /\ ctx.contactor1 => ctx.State \in {"C", "C1", "COMM_C_OK"}

\* A node that charges is a node the master counts, or one whose current is 0,
\* so that the next broadcast stops it: over lost polls, lost writes and writes
\* of a state that is out of date.
NodeChargingIsKnown ==
    ctx.State = "C" => copy.State \in {"C", "COMM_C_OK"} \/ ~granted

\* A tripped residual current monitor stays tripped until a button is pressed
\* ("Press any button to reset the error", operation.md).
RcmStaysTripped ==
    [][("RCM_TRIPPED" \in ctx.ErrorFlags /\ "RCM_TRIPPED" \notin ctx'.ErrorFlags)
          => RcmReset]_nodeVars
=============================================================================
