----------------------------- MODULE SessionLog -----------------------------
(***************************************************************************)
(* The log of charge sessions: session_log.c, its storage in NVS, its      *)
(* publication over MQTT, and the tasks that call it.  The 10 ms task      *)
(* starts and ends sessions, stores and publishes them; the 1 s task       *)
(* repeats a publication that found no connection; the loop task marks a   *)
(* session of OCPP.  The power may fail between any two steps.             *)
(*                                                                         *)
(* A record is its session_id, which is 0 once OCPP manages the session.   *)
(***************************************************************************)
EXTENDS Integers, Sequences

CONSTANTS
    SESSION_HISTORY_MAX,
    MaxId,      \* bound: no session starts with a greater identifier
    None,       \* no record
    Torn        \* a record of which parts are of one session, parts of another

ASSUME LogAssumption ==
    /\ SESSION_HISTORY_MAX \in Nat \ {0} /\ MaxId \in Nat \ {0}
    /\ None \notin Nat /\ Torn \notin Nat /\ Torn # None

VARIABLES
    s_active, s_last, s_next_id,
    s_history, s_history_head, s_history_count,
    nvs,            \* SessHistCnt, SessHistNID, SessHistData
    ResetKwh,       \* EVMeter.ResetKwh # 0
    State,          \* "A", "B", "C"
    ocpp_session_marked,
    connected,      \* MQTTclient.connected
    pending,        \* session_publish_pending
    pc,             \* what each task is about to do
    json,           \* what each task has read of s_last
    retained,       \* the record that the broker retains
    disturbed,      \* history: see EndSession and Disconnect
    failures        \* history: of the power while storing, since it was last done

log == <<s_active, s_last, s_next_id>>
ring == <<s_history, s_history_head, s_history_count>>
car == <<ResetKwh, State>>
mqtt == <<connected, pending, json, retained, disturbed>>
vars == <<log, ring, nvs, car, ocpp_session_marked, pc, mqtt, failures>>

Ids == 0 .. MaxId
Slots == 0 .. SESSION_HISTORY_MAX - 1
Tasks == {"Timer10ms", "Timer1S"}

----------------------------------------------------------------------------
(* The ring                                                                *)

\* Mutant: the ring is read from slot 0, as before it wraps
Export_FromZero == [k \in 1 .. s_history_count |-> s_history[k - 1]]

\* session_history_export, with all there is: oldest first
Export ==
    [k \in 1 .. s_history_count |->
        s_history[(s_history_head + SESSION_HISTORY_MAX - s_history_count + k - 1)
                      % SESSION_HISTORY_MAX]]

\* Mutant: the position runs past the last slot
Push_NoWrap(record) ==
    /\ s_history' = [s_history EXCEPT ![s_history_head] = record]
    /\ s_history_head' = s_history_head + 1
    /\ s_history_count' = IF s_history_count < SESSION_HISTORY_MAX
                          THEN s_history_count + 1 ELSE s_history_count

\* history_push
Push(record) ==
    /\ s_history' = [s_history EXCEPT ![s_history_head] = record]
    /\ s_history_head' = (s_history_head + 1) % SESSION_HISTORY_MAX
    /\ s_history_count' = IF s_history_count < SESSION_HISTORY_MAX
                          THEN s_history_count + 1 ELSE s_history_count

----------------------------------------------------------------------------
(* NVS: three values, each written by itself                               *)

\* Mutant: the identifier is written last
Writes_NextLast == <<"count", "data", "next">>

\* session_persist_history: the values in the order in which they are written
Writes == <<"count", "next", "data">>

AfterWrite(value) ==
    LET i == CHOOSE j \in 1 .. 3 : Writes[j] = value
    IN  IF i = 3 THEN "check" ELSE Writes[i + 1]

Put(value) ==
    /\ pc["Timer10ms"] = value
    /\ pc' = [pc EXCEPT !["Timer10ms"] = AfterWrite(value)]
    /\ nvs' = CASE value = "count" -> [nvs EXCEPT !.count = s_history_count]
                [] value = "next"  -> [nvs EXCEPT !.next = s_next_id]
                [] OTHER -> IF s_history_count = 0 THEN nvs
                                                   ELSE [nvs EXCEPT !.data = Export]
    /\ failures' = IF value = Writes[3] /\ s_history_count > 0 /\ failures = 1
                   THEN 0 ELSE failures
    /\ UNCHANGED <<log, ring, car, ocpp_session_marked, mqtt>>

\* session_restore_history_from_nvs: a blob of another length is not used
Restorable == IF nvs.count = Len(nvs.data) THEN nvs.data ELSE <<>>

\* Mutant: as if the newest record came first
Refill_NewestFirst(records) ==
    /\ s_history' = [i \in Slots |->
                        IF i < Len(records) THEN records[Len(records) - i] ELSE None]
    /\ s_history_head' = Len(records) % SESSION_HISTORY_MAX
    /\ s_history_count' = Len(records)

\* session_history_restore: the records are pushed in their order
Refill(records) ==
    /\ s_history' = [i \in Slots |-> IF i < Len(records) THEN records[i + 1] ELSE None]
    /\ s_history_head' = Len(records) % SESSION_HISTORY_MAX
    /\ s_history_count' = Len(records)

\* setup: session_init, session_restore_history_from_nvs
Restart ==
    /\ s_active' = None /\ s_last' = None
    /\ Refill(Restorable)
    /\ s_next_id' = IF Restorable # <<>> /\ nvs.next > 1 THEN nvs.next ELSE 1
    /\ ResetKwh' = TRUE /\ State' = "A"
    /\ ocpp_session_marked' = FALSE
    /\ connected' = FALSE /\ pending' = FALSE /\ disturbed' = FALSE
    /\ pc' = [t \in Tasks |-> "idle"] /\ json' = [t \in Tasks |-> None]
    /\ failures' = IF pc["Timer10ms"] \in {Writes[2], Writes[3]} /\ failures < 2
                   THEN failures + 1 ELSE failures
    /\ UNCHANGED <<nvs, retained>>

----------------------------------------------------------------------------
(* The 10 ms task: timer10ms_ev_metering                                   *)

Ready == pc["Timer10ms"] = "idle"

\* The first C since the car was plugged in starts a session, if the time is
\* known by then (session_start)
Charge ==
    /\ Ready /\ State # "C" /\ State' = "C" /\ ResetKwh' = FALSE
    /\ \E synced \in BOOLEAN :
          IF ResetKwh /\ synced
          THEN /\ s_next_id <= MaxId
               /\ s_active' = s_next_id /\ s_next_id' = s_next_id + 1
               /\ UNCHANGED s_last
          ELSE UNCHANGED log
    /\ UNCHANGED <<ring, nvs, ocpp_session_marked, pc, mqtt, failures>>

Pause ==
    /\ Ready /\ State = "C" /\ State' = "B"
    /\ UNCHANGED <<log, ring, nvs, ResetKwh, ocpp_session_marked, pc, mqtt, failures>>

\* A and 12 V: the session ends.  One that was short is dropped (session_end),
\* but all the rest is done
Unplug ==
    /\ Ready /\ State # "A" /\ State' = "A" /\ ResetKwh' = TRUE
    /\ IF s_active = None
       THEN UNCHANGED <<s_active, pc>>
       ELSE \/ /\ s_active' = None
               /\ pc' = [pc EXCEPT !["Timer10ms"] = Writes[1]]
            \/ /\ pc' = [pc EXCEPT !["Timer10ms"] = "end"]
               /\ UNCHANGED s_active
    /\ UNCHANGED <<s_last, s_next_id, ring, nvs, ocpp_session_marked, mqtt, failures>>

\* session_end of a session that counts.  s_last is torn until this is done
EndSession ==
    /\ pc["Timer10ms"] = "end"
    /\ s_active' = None /\ s_last' = s_active
    /\ Push(s_active)
    /\ pc' = [pc EXCEPT !["Timer10ms"] = Writes[1]]
    \* the 1 s task may already have read, or still clear the request of, another
    /\ disturbed' = (pc["Timer1S"] # "idle")
    /\ UNCHANGED <<s_next_id, nvs, car, ocpp_session_marked, connected, pending,
                   json, retained, failures>>

----------------------------------------------------------------------------
(* mqttPublishSessionComplete, in the 10 ms task and again in the 1 s task *)

\* Mutant: a publication that finds no connection is given up
Publish_Once ==
    /\ pc["Timer10ms"] = "check"
    /\ pc' = [pc EXCEPT !["Timer10ms"] = IF connected THEN "read" ELSE "idle"]
    /\ UNCHANGED <<log, ring, nvs, car, ocpp_session_marked, mqtt, failures>>

Publish ==
    /\ pc["Timer10ms"] = "check"
    /\ IF connected THEN /\ pc' = [pc EXCEPT !["Timer10ms"] = "read"]
                         /\ UNCHANGED pending
                    ELSE /\ pc' = [pc EXCEPT !["Timer10ms"] = "idle"]
                         /\ pending' = TRUE
    /\ UNCHANGED <<log, ring, nvs, car, ocpp_session_marked, connected, json,
                   retained, disturbed, failures>>

\* mqttPublishData
Retry ==
    /\ pc["Timer1S"] = "idle" /\ pending /\ connected
    /\ pc' = [pc EXCEPT !["Timer1S"] = "read"]
    /\ UNCHANGED <<log, ring, nvs, car, ocpp_session_marked, mqtt, failures>>

Read(t) ==
    /\ pc[t] = "read"
    /\ pc' = [pc EXCEPT ![t] = IF s_last = None THEN "idle" ELSE "send"]
    /\ \E seen \in {s_last} \cup (IF pc["Timer10ms"] = "end" THEN {s_active, Torn} ELSE {}) :
          json' = [json EXCEPT ![t] = IF s_last = None THEN None ELSE seen]
    /\ UNCHANGED <<log, ring, nvs, car, ocpp_session_marked, connected, pending,
                   retained, disturbed, failures>>

\* publish looks at the connection again, and tells nobody
Send(t) ==
    /\ pc[t] = "send"
    /\ pc' = [pc EXCEPT ![t] = "clear"]
    /\ retained' = IF connected THEN json[t] ELSE retained
    /\ UNCHANGED <<log, ring, nvs, car, ocpp_session_marked, connected, pending,
                   json, disturbed, failures>>

Clear(t) ==
    /\ pc[t] = "clear"
    /\ pc' = [pc EXCEPT ![t] = "idle"]
    /\ pending' = FALSE /\ json' = [json EXCEPT ![t] = None]
    /\ UNCHANGED <<log, ring, nvs, car, ocpp_session_marked, connected, retained,
                   disturbed, failures>>

----------------------------------------------------------------------------
(* The others                                                              *)

\* ocppLoop, with a transaction that runs
OcppMark ==
    /\ s_active # None /\ ~ocpp_session_marked
    /\ s_active' = 0 /\ ocpp_session_marked' = TRUE
    /\ UNCHANGED <<s_last, s_next_id, ring, nvs, car, pc, mqtt, failures>>

OcppUnmark ==
    /\ s_active = None /\ ocpp_session_marked /\ ocpp_session_marked' = FALSE
    /\ UNCHANGED <<log, ring, nvs, car, pc, mqtt, failures>>

Connect ==
    /\ ~connected /\ connected' = TRUE
    /\ UNCHANGED <<log, ring, nvs, car, ocpp_session_marked, pc, pending, json,
                   retained, disturbed, failures>>

\* A publication that is under way may be lost with the connection
Disconnect ==
    /\ connected /\ connected' = FALSE
    /\ disturbed' = (disturbed \/ \E t \in Tasks : pc[t] \in {"read", "send", "clear"})
    /\ UNCHANGED <<log, ring, nvs, car, ocpp_session_marked, pc, pending, json, retained, failures>>

----------------------------------------------------------------------------

Init ==
    /\ s_active = None /\ s_last = None /\ s_next_id = 1
    /\ s_history = [i \in Slots |-> None]
    /\ s_history_head = 0 /\ s_history_count = 0
    /\ nvs = [count |-> 0, next |-> 1, data |-> <<>>]
    /\ ResetKwh = TRUE /\ State = "A" /\ ocpp_session_marked = FALSE
    /\ connected = FALSE /\ pending = FALSE /\ disturbed = FALSE
    /\ pc = [t \in Tasks |-> "idle"] /\ json = [t \in Tasks |-> None]
    /\ retained = None /\ failures = 0

Store == \E value \in {"count", "next", "data"} : Put(value)

Timer10ms == Store \/ EndSession \/ Publish
             \/ Read("Timer10ms") \/ Send("Timer10ms") \/ Clear("Timer10ms")
Timer1S == Retry \/ Read("Timer1S") \/ Send("Timer1S") \/ Clear("Timer1S")

Next ==
    \/ Charge \/ Pause \/ Unplug
    \/ Timer10ms \/ Timer1S
    \/ OcppMark \/ OcppUnmark
    \/ Connect \/ Disconnect
    \/ Restart

\* The tasks end what they have begun, and the 1 s task looks again and again.
\* Nothing is assumed of the car, the connection, OCPP and the power
Fairness == WF_vars(Timer10ms) /\ WF_vars(Timer1S)

Spec == Init /\ [][Next]_vars /\ Fairness

----------------------------------------------------------------------------
(* Properties                                                              *)

TypeOK ==
    /\ s_active \in Ids \cup {None} /\ s_last \in Ids \cup {None}
    /\ s_next_id \in 1 .. MaxId + 1
    /\ s_history \in [Slots -> Ids \cup {None}]
    /\ s_history_head \in Slots /\ s_history_count \in 0 .. SESSION_HISTORY_MAX
    /\ nvs \in [count : 0 .. SESSION_HISTORY_MAX, next : 1 .. MaxId + 1, data : Seq(Ids)]
    /\ Len(nvs.data) <= SESSION_HISTORY_MAX
    /\ ResetKwh \in BOOLEAN /\ State \in {"A", "B", "C"}
    /\ ocpp_session_marked \in BOOLEAN
    /\ connected \in BOOLEAN /\ pending \in BOOLEAN /\ disturbed \in BOOLEAN
    /\ pc["Timer10ms"] \in {"idle", "end", "count", "next", "data", "check",
                            "read", "send", "clear"}
    /\ pc["Timer1S"] \in {"idle", "read", "send", "clear"}
    /\ DOMAIN pc = Tasks
    /\ json \in [Tasks -> Ids \cup {None, Torn}]
    /\ retained \in Ids \cup {None, Torn} /\ failures \in 0 .. 2

Increasing(seq) == \A i, j \in 1 .. Len(seq) : i < j /\ seq[i] # 0 /\ seq[j] # 0
                                                   => seq[i] < seq[j]

\* No identifier is given twice: the sessions in the log that OCPP does not manage
\* have increasing identifiers and the next one is greater, although the power may
\* fail between any two writes.  Only if it does so twice before the records
\* are written may the number of the second time be that of what is there still
IdsIncrease ==
    failures < 2 => /\ Increasing(Export)
                    /\ \A i \in 1 .. Len(Export) : Export[i] < s_next_id

\* While nothing is being written, what a restart brings back is what there is
NothingToLose ==
    pc["Timer10ms"] \notin {"count", "next", "data"} => Restorable = Export

\* The ring and its storage are a bounded sequence
History == INSTANCE SessionHistory WITH
    Sessions <- Ids, Capacity <- SESSION_HISTORY_MAX,
    recent <- Export, stored <- nvs.data, valid <- (nvs.count = Len(nvs.data))
ImplementsHistory == History!Spec

\* The last session reaches the broker, if the connection lasts, now or after it
\* is there again, unless a connection was lost in the middle of a publication, or
\* the session ended in the middle of the retry for the one before
LastIsReported ==
    \A r \in Ids :
        (s_last = r /\ connected /\ ~disturbed)
            ~> (retained = r \/ s_last # r \/ ~connected \/ disturbed)
=============================================================================
