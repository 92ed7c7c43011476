-------------------------- MODULE SessionLogProofs --------------------------
(***************************************************************************)
(* Theorems about the session log, for a ring of every size, every number  *)
(* of sessions, and the power failing between any two steps.  The ring is  *)
(* a bounded sequence (PushExports, RefillExports); on that rest the two   *)
(* invariants: RingInv, for what a restart brings back, and IdInv, for the *)
(* identifiers.                                                            *)
(***************************************************************************)
EXTENDS SessionLog, SequenceTheorems, TLAPS

----------------------------------------------------------------------------
(* The ring is a sequence                                                  *)

\* What the slots and the two counters of the ring must be
Filled == /\ s_history_count \in 0 .. SESSION_HISTORY_MAX /\ s_history_head \in Slots
          /\ s_history \in [Slots -> Ids \cup {None}]
          /\ \A i \in Slots : i < s_history_count => s_history[i] \in Ids
          /\ s_history_count < SESSION_HISTORY_MAX => s_history_head = s_history_count

\* The slot of the k-th oldest record: the ring has wrapped when it is full
SlotOf(k) == CASE s_history_count < SESSION_HISTORY_MAX -> k - 1
               [] /\ s_history_count = SESSION_HISTORY_MAX
                  /\ s_history_head + k - 1 < SESSION_HISTORY_MAX -> s_history_head + k - 1
               [] OTHER -> s_history_head + k - 1 - SESSION_HISTORY_MAX

Exported == /\ Export \in Seq(Ids) /\ Len(Export) = s_history_count
            /\ \A k \in 1 .. s_history_count : Export[k] = s_history[SlotOf(k)]

\* A position in a ring wraps at most once.
LEMMA Wraps ==
    ASSUME NEW M \in Nat \ {0}, NEW x \in Nat, x < M + M
    PROVE  x % M = IF x < M THEN x ELSE x - M
<1>1. CASE x < M
  BY <1>1
<1>2. CASE x >= M
  <2>1. x - M \in 0 .. M - 1 /\ x = M * 1 + (x - M)
    BY <1>2
  <2> QED BY <2>1
<1> QED
  BY <1>1, <1>2

\* So does one in this ring.
LEMMA RingWraps ==
    \A x \in Nat : x < SESSION_HISTORY_MAX + SESSION_HISTORY_MAX =>
        x % SESSION_HISTORY_MAX = IF x < SESSION_HISTORY_MAX THEN x
                                                            ELSE x - SESSION_HISTORY_MAX
  BY Wraps, LogAssumption

\* The export is the records that were pushed, oldest first (session_history_export).
LEMMA ExportSlots == Filled => Exported
<1> SUFFICES ASSUME Filled PROVE Exported
  OBVIOUS
<1> DEFINE M == SESSION_HISTORY_MAX
           at(k) == (s_history_head + M - s_history_count + k - 1) % M
<1>1. M \in Nat \ {0} /\ s_history_count \in 0 .. M /\ s_history_head \in 0 .. M - 1
  BY LogAssumption DEF Filled, Slots
<1>2. ASSUME NEW k \in 1 .. s_history_count
      PROVE  at(k) = SlotOf(k) /\ SlotOf(k) \in Slots /\ s_history[SlotOf(k)] \in Ids
  <2>1. CASE s_history_count < M
    <3>1. s_history_head = s_history_count
      BY <2>1 DEF Filled
    <3>2. s_history_head + M - s_history_count + k - 1 = M + (k - 1)
      BY <1>1, <3>1
    <3>3. (M + (k - 1)) % M = k - 1
      <4>1. M + (k - 1) \in Nat /\ M + (k - 1) < M + M /\ ~(M + (k - 1) < M)
            /\ M + (k - 1) - M = k - 1
        BY <1>1, <2>1
      <4> QED BY <1>1, <4>1, RingWraps
    <3> QED BY <1>1, <2>1, <3>2, <3>3 DEF Filled, SlotOf, Slots
  <2>2. CASE s_history_count = M
    <3>1. s_history_head + M - s_history_count + k - 1 = s_history_head + k - 1
      BY <1>1, <2>2
    <3>2. /\ s_history_head + k - 1 \in Nat /\ s_history_head + k - 1 < M + M
      BY <1>1, <2>2
    <3>3. (s_history_head + k - 1) % M = IF s_history_head + k - 1 < M
                                         THEN s_history_head + k - 1
                                         ELSE s_history_head + k - 1 - M
      BY <1>1, <3>2, RingWraps
    <3>4. at(k) = SlotOf(k)
      BY <1>1, <2>2, <3>1, <3>3 DEF SlotOf
    <3>5. SlotOf(k) \in Slots
      BY <1>1, <2>2 DEF SlotOf, Slots
    <3> QED BY <1>1, <2>2, <3>4, <3>5 DEF Filled, Slots
  <2> QED BY <1>1, <2>1, <2>2
<1>3. Export = [k \in 1 .. s_history_count |-> s_history[at(k)]]
  BY DEF Export
<1> HIDE DEF at
<1>4. \A k \in 1 .. s_history_count : Export[k] = s_history[SlotOf(k)] /\ Export[k] \in Ids
  BY <1>2, <1>3
<1>5. Export \in [1 .. s_history_count -> Ids]
  BY <1>3, <1>4
<1>6. Export \in Seq(Ids) /\ Len(Export) = s_history_count
  BY <1>1, <1>5
<1> QED
  BY <1>4, <1>6 DEF Exported

\* Nothing is exported of an empty ring.
LEMMA ExportNothing == s_history_count = 0 => Export = <<>>
  BY DEF Export

\* A record that is pushed is the newest, and the oldest goes if there is no room
\* (history_push).
LEMMA PushExports ==
    ASSUME Filled, NEW record \in Ids, Push(record)
    PROVE  /\ Filled' /\ s_history_count' > 0
           /\ Export' = History!Latest(Append(Export, record))
<1> DEFINE M == SESSION_HISTORY_MAX
           new == Append(Export, record)
<1>1. M \in Nat \ {0} /\ s_history_count \in 0 .. M /\ s_history_head \in 0 .. M - 1
  BY LogAssumption DEF Filled, Slots
<1>2. /\ s_history' = [s_history EXCEPT ![s_history_head] = record]
      /\ s_history_head' = IF s_history_head + 1 < M THEN s_history_head + 1 ELSE 0
      /\ s_history_count' = IF s_history_count < M THEN s_history_count + 1
                                                   ELSE s_history_count
  <2>1. (s_history_head + 1) % M = IF s_history_head + 1 < M THEN s_history_head + 1
                                                            ELSE s_history_head + 1 - M
    <3>1. s_history_head + 1 \in Nat /\ s_history_head + 1 < M + M
      BY <1>1
    <3> QED BY <1>1, <3>1, RingWraps
  <2> QED BY <1>1, <2>1 DEF Push
<1>3. Filled'
  BY <1>1, <1>2 DEF Filled, Slots
<1>4. Exported /\ Exported'
  <2>1. Filled' => Exported'
    BY ExportSlots, PTL
  <2> QED BY <1>3, <2>1, ExportSlots
<1>5. /\ new \in Seq(Ids) /\ Len(new) = s_history_count + 1
      /\ \A k \in 1 .. s_history_count : new[k] = s_history[SlotOf(k)]
      /\ new[s_history_count + 1] = record
  BY <1>1, <1>4 DEF Exported
<1> HIDE DEF new
<1>6. CASE s_history_count < M
  <2>1. \A k \in 1 .. s_history_count + 1 : Export'[k] = new[k]
    <3> SUFFICES ASSUME NEW k \in 1 .. s_history_count + 1 PROVE Export'[k] = new[k]
      OBVIOUS
    <3>1. Export'[k] = s_history'[k - 1]
      <4>1. SlotOf(k)' = k - 1
        BY <1>1, <1>2, <1>6 DEF SlotOf, Filled
      <4> QED BY <1>2, <1>4, <1>6, <4>1 DEF Exported
    <3>2. s_history'[k - 1] = IF k = s_history_count + 1 THEN record ELSE s_history[k - 1]
      BY <1>1, <1>2, <1>6 DEF Filled, Slots
    <3>3. k # s_history_count + 1 => new[k] = s_history[k - 1]
      BY <1>1, <1>5, <1>6 DEF SlotOf
    <3> QED BY <1>5, <3>1, <3>2, <3>3
  <2>2. Export' = new
    BY <1>1, <1>2, <1>4, <1>5, <1>6, <2>1, SeqEqual DEF Exported
  <2> QED
    BY <1>1, <1>2, <1>3, <1>5, <1>6, <2>2 DEF History!Latest, new
<1>7. CASE s_history_count = M
  <2>1. /\ new # <<>> /\ Tail(new) \in Seq(Ids) /\ Len(Tail(new)) = M
        /\ \A k \in 1 .. M : Tail(new)[k] = new[k + 1]
    BY <1>1, <1>5, <1>7
  <2>2. \A k \in 1 .. M : Export'[k] = Tail(new)[k]
    <3> SUFFICES ASSUME NEW k \in 1 .. M PROVE Export'[k] = new[k + 1]
      BY <2>1
    <3>1. Export'[k] = s_history'[SlotOf(k)']
      BY <1>2, <1>4, <1>7 DEF Exported
    <3>2. CASE k < M
      <4>1. SlotOf(k)' = SlotOf(k + 1) /\ SlotOf(k + 1) # s_history_head
            /\ SlotOf(k + 1) \in Slots
        BY <1>1, <1>2, <1>7, <3>2 DEF SlotOf, Slots
      <4>2. s_history'[SlotOf(k + 1)] = s_history[SlotOf(k + 1)]
        BY <1>2, <4>1 DEF Filled
      <4> QED BY <1>1, <1>5, <1>7, <3>1, <3>2, <4>1, <4>2
    <3>3. CASE k = M
      <4>1. SlotOf(k)' = s_history_head /\ s_history_head \in Slots
        BY <1>1, <1>2, <1>7, <3>3 DEF SlotOf, Slots
      <4> QED BY <1>2, <1>5, <1>7, <3>1, <3>3, <4>1 DEF Filled
    <3> QED BY <1>1, <3>2, <3>3
  <2>3. Export' = Tail(new)
    BY <1>1, <1>2, <1>4, <1>7, <2>1, <2>2, SeqEqual DEF Exported
  <2> QED
    BY <1>1, <1>2, <1>3, <1>5, <1>7, <2>3 DEF History!Latest, new
<1> QED
  BY <1>1, <1>6, <1>7

\* A restart fills the ring with the records in their order (session_history_restore).
LEMMA RefillExports ==
    ASSUME NEW records \in Seq(Ids), Len(records) <= SESSION_HISTORY_MAX, Refill(records)
    PROVE  Filled' /\ Export' = records /\ s_history_count' = Len(records)
<1> DEFINE M == SESSION_HISTORY_MAX
<1>1. M \in Nat \ {0} /\ Len(records) \in 0 .. M
  BY LogAssumption
<1>2. /\ s_history' = [i \in Slots |-> IF i < Len(records) THEN records[i + 1] ELSE None]
      /\ s_history_head' = IF Len(records) < M THEN Len(records) ELSE 0
      /\ s_history_count' = Len(records)
  <2>1. Len(records) % M = IF Len(records) < M THEN Len(records) ELSE Len(records) - M
    BY <1>1, RingWraps
  <2> QED BY <1>1, <2>1 DEF Refill
<1>3. \A i \in Slots : i < Len(records) => s_history'[i] = records[i + 1] /\ records[i + 1] \in Ids
  BY <1>1, <1>2, ElementOfSeq DEF Slots
<1>4. Filled'
  <2>1. s_history' \in [Slots -> Ids \cup {None}]
    BY <1>2, <1>3
  <2> QED BY <1>1, <1>2, <1>3, <2>1 DEF Filled, Slots
<1>5. Exported'
  <2>1. Filled' => Exported'
    BY ExportSlots, PTL
  <2> QED BY <1>4, <2>1
<1>6. \A k \in 1 .. Len(records) : Export'[k] = records[k]
  <2> SUFFICES ASSUME NEW k \in 1 .. Len(records) PROVE Export'[k] = records[k]
    OBVIOUS
  <2>1. SlotOf(k)' = k - 1 /\ k - 1 \in Slots
    BY <1>1, <1>2 DEF SlotOf, Slots
  <2>2. Export'[k] = s_history'[SlotOf(k)']
    BY <1>2, <1>5 DEF Exported
  <2>3. s_history'[k - 1] = records[k]
    BY <1>1, <1>3, <2>1
  <2> QED BY <2>1, <2>2, <2>3
<1> QED
  BY <1>2, <1>4, <1>5, <1>6, SeqEqual DEF Exported

----------------------------------------------------------------------------
(* The ring and its storage                                                *)

\* Some, but not all of the three values are written
Storing == pc["Timer10ms"] \in {"next", "data"}
Writing == pc["Timer10ms"] = "count" \/ Storing

\* Types, and what they need: only a session that there is can end
Typed == TypeOK /\ Filled /\ (pc["Timer10ms"] = "end" => s_active # None)

\* The records of one session are written at a time, and nothing changes meanwhile
RingInv == /\ Typed
           /\ Storing => nvs.count = s_history_count
           /\ pc["Timer10ms"] = "data" => nvs.next = s_next_id
           /\ ~Writing => Restorable = Export

\* The order of the writes: the count, the next identifier, the records.
LEMMA WriteOrder ==
    /\ AfterWrite("count") = "next" /\ AfterWrite("next") = "data"
    /\ AfterWrite("data") = "check"
<1>1. ASSUME NEW value \in {"count", "next", "data"}, NEW i \in 1 .. 3, Writes[i] = value
      PROVE  (CHOOSE j \in 1 .. 3 : Writes[j] = value) = i
  BY <1>1 DEF Writes
<1>2. Writes[1] = "count" /\ Writes[2] = "next" /\ Writes[3] = "data"
  BY DEF Writes
<1> QED
  BY <1>1, <1>2 DEF AfterWrite

\* The 10 ms task goes from one write to the next.
LEMMA PutStep ==
    ASSUME TypeOK, NEW value \in {"count", "next", "data"}, Put(value)
    PROVE  /\ pc["Timer10ms"] = value /\ DOMAIN pc' = Tasks
           /\ pc'["Timer10ms"] = CASE value = "count" -> "next"
                                   [] value = "next" -> "data"
                                   [] OTHER -> "check"
           /\ pc'["Timer1S"] = pc["Timer1S"]
  BY WriteOrder DEF Put, TypeOK, Tasks

\* What can be read back is a sequence that fits the ring.
LEMMA RestorableFits ==
    ASSUME TypeOK
    PROVE  /\ Restorable \in Seq(Ids) /\ Len(Restorable) <= SESSION_HISTORY_MAX
           /\ Len(Restorable) \in Nat /\ nvs.data \in Seq(Ids)
  BY LogAssumption DEF TypeOK, Restorable

\* A ring that is left alone stays as it is.
LEMMA RingKept == Filled /\ UNCHANGED ring => Filled'
  BY DEF ring, Filled

\* The log starts empty.
LEMMA InitTyped == Init => Typed
<1> SUFFICES ASSUME Init PROVE Typed
  OBVIOUS
<1>1. Filled
  BY LogAssumption DEF Init, Filled, Slots
<1>2. pc["Timer10ms"] = "idle" /\ pc["Timer1S"] = "idle" /\ DOMAIN pc = Tasks
  BY DEF Init, Tasks
<1>3. /\ nvs \in [count : 0 .. SESSION_HISTORY_MAX, next : 1 .. MaxId + 1, data : Seq(Ids)]
      /\ Len(nvs.data) <= SESSION_HISTORY_MAX
  BY LogAssumption DEF Init
<1>4. json \in [Tasks -> Ids \cup {None, Torn}]
  BY DEF Init
<1>5. TypeOK
  BY <1>1, <1>2, <1>3, <1>4, LogAssumption DEF Init, Filled, TypeOK
<1> QED
  BY <1>1, <1>2, <1>5 DEF Typed

\* Every step keeps the types: the handlers of the car, the writes, the publication.
LEMMA NextTyped == Typed /\ [Next]_vars => Typed'
<1> SUFFICES ASSUME Typed, [Next]_vars PROVE Typed'
  OBVIOUS
<1>0. TypeOK /\ Filled
  BY DEF Typed
<1> USE DEF log, ring, car, mqtt
<1>1. CASE Charge
  <2>1. Filled'
    BY <1>0, <1>1, RingKept DEF Charge
  <2>2. /\ s_active' \in Ids \cup {None} /\ s_next_id' \in 1 .. MaxId + 1
        /\ s_last' = s_last
    BY <1>0, <1>1, LogAssumption DEF Charge, TypeOK, Ids
  <2>3. State' = "C" /\ ResetKwh' = FALSE
    BY <1>1 DEF Charge
  <2>4. /\ pc["Timer10ms"] = "idle"
        /\ UNCHANGED <<ring, nvs, ocpp_session_marked, pc, mqtt, failures>>
    BY <1>1 DEF Charge, Ready
  <2>5. TypeOK'
    BY <1>0, <2>2, <2>3, <2>4 DEF TypeOK
  <2> QED BY <2>1, <2>4, <2>5 DEF Typed
<1>2. CASE Pause
  BY <1>0, <1>2 DEF Pause, Typed, TypeOK, Filled, Ready
<1>3. CASE Unplug
  BY <1>0, <1>3 DEF Unplug, Typed, TypeOK, Filled, Ready, Writes, Tasks
<1>4. CASE \E value \in {"count", "next", "data"} : Put(value)
  <2>1. PICK value \in {"count", "next", "data"} : Put(value)
    BY <1>4
  <2>2. Export \in Seq(Ids) /\ Len(Export) <= SESSION_HISTORY_MAX
    BY <1>0, ExportSlots, LogAssumption DEF Filled, Exported
  <2>3. /\ nvs' \in [count : 0 .. SESSION_HISTORY_MAX, next : 1 .. MaxId + 1, data : Seq(Ids)]
        /\ Len(nvs'.data) <= SESSION_HISTORY_MAX
    BY <1>0, <2>1, <2>2 DEF Put, TypeOK
  <2>4. failures' \in 0 .. 2
    BY <1>0, <2>1 DEF Put, TypeOK
  <2>5. /\ pc'["Timer10ms"] \in {"next", "data", "check"}
        /\ pc'["Timer1S"] = pc["Timer1S"] /\ DOMAIN pc' = Tasks
    BY <1>0, <2>1, PutStep
  <2>6. UNCHANGED <<log, ring, car, ocpp_session_marked, mqtt>>
    BY <2>1 DEF Put
  <2> QED BY <1>0, <2>3, <2>4, <2>5, <2>6 DEF Typed, TypeOK, Filled
<1>5. CASE EndSession
  <2>1. s_active \in Ids
    BY <1>0, <1>5 DEF EndSession, Typed, TypeOK
  <2>2. Filled'
    BY <1>0, <1>5, <2>1, PushExports DEF EndSession
  <2> QED BY <1>0, <1>5, <2>1, <2>2 DEF EndSession, Typed, TypeOK, Filled, Tasks, Writes
<1>6. CASE Publish
  <2>1. Filled'
    BY <1>0, <1>6, RingKept DEF Publish
  <2>2. /\ pc'["Timer10ms"] \in {"read", "idle"} /\ pc'["Timer1S"] = pc["Timer1S"]
        /\ DOMAIN pc' = Tasks
    BY <1>0, <1>6 DEF Publish, TypeOK, Tasks
  <2>3. pending' \in BOOLEAN
    BY <1>0, <1>6, Zenon DEF Publish, TypeOK
  <2>4. UNCHANGED <<log, ring, nvs, car, ocpp_session_marked, connected, json,
                    retained, disturbed, failures>>
    BY <1>6 DEF Publish
  <2>5. TypeOK'
    BY <1>0, <2>2, <2>3, <2>4 DEF TypeOK
  <2> QED BY <2>1, <2>2, <2>5 DEF Typed
<1>7. CASE Retry
  BY <1>0, <1>7 DEF Retry, Typed, TypeOK, Filled, Tasks
<1>8. CASE \E t \in Tasks : Read(t)
  <2>1. PICK t \in Tasks : Read(t)
    BY <1>8
  <2>2. json' \in [Tasks -> Ids \cup {None, Torn}]
    BY <1>0, <2>1 DEF Read, TypeOK
  <2> QED BY <1>0, <2>1, <2>2 DEF Read, Typed, TypeOK, Filled, Tasks
<1>9. CASE \E t \in Tasks : Send(t)
  BY <1>0, <1>9 DEF Send, Typed, TypeOK, Filled, Tasks
<1>10. CASE \E t \in Tasks : Clear(t)
  <2>1. PICK t \in Tasks : Clear(t)
    BY <1>10
  <2>2. json' \in [Tasks -> Ids \cup {None, Torn}]
    BY <1>0, <2>1 DEF Clear, TypeOK
  <2>3. Filled'
    BY <1>0, <2>1, RingKept DEF Clear
  <2>4. \A u \in Tasks : pc'[u] = pc[u] \/ pc'[u] = "idle"
    BY <1>0, <2>1 DEF Clear, TypeOK
  <2>5. DOMAIN pc' = Tasks
    BY <1>0, <2>1 DEF Clear, TypeOK
  <2>6. UNCHANGED <<log, ring, nvs, car, ocpp_session_marked, connected, retained,
                    disturbed, failures>>
    BY <2>1 DEF Clear
  <2>7. pending' \in BOOLEAN
    BY <2>1 DEF Clear
  <2>8. /\ pc'["Timer10ms"] \in {"idle", "end", "count", "next", "data", "check",
                                 "read", "send", "clear"}
        /\ pc'["Timer1S"] \in {"idle", "read", "send", "clear"}
    BY <1>0, <2>4 DEF Tasks, TypeOK
  <2>9. TypeOK'
    BY <1>0, <2>2, <2>5, <2>6, <2>7, <2>8 DEF TypeOK
  <2>10. pc'["Timer10ms"] = "end" => pc["Timer10ms"] = "end" /\ s_active' = s_active
    BY <2>4, <2>6 DEF Tasks
  <2> QED BY <2>3, <2>9, <2>10 DEF Typed
<1>11. CASE OcppMark
  BY <1>0, <1>11, LogAssumption DEF OcppMark, Typed, TypeOK, Filled, Ids
<1>12. CASE OcppUnmark \/ Connect \/ Disconnect
  <2>1. Filled'
    BY <1>0, <1>12, RingKept DEF OcppUnmark, Connect, Disconnect
  <2>2. /\ ocpp_session_marked' \in BOOLEAN /\ connected' \in BOOLEAN
        /\ disturbed' \in BOOLEAN
    BY <1>0, <1>12, Zenon DEF OcppUnmark, Connect, Disconnect, TypeOK
  <2>3. UNCHANGED <<log, ring, nvs, car, pc, pending, json, retained, failures>>
    BY <1>12 DEF OcppUnmark, Connect, Disconnect
  <2>4. TypeOK'
    BY <1>0, <2>2, <2>3 DEF TypeOK
  <2> QED BY <2>1, <2>3, <2>4 DEF Typed
<1>13. CASE Restart
  <2>1. Refill(Restorable)
    BY <1>13 DEF Restart
  <2>2. Filled'
    BY <1>0, <2>1, RestorableFits, RefillExports
  <2>3. s_next_id' \in 1 .. MaxId + 1 /\ failures' \in 0 .. 2
    BY <1>0, <1>13, LogAssumption DEF Restart, TypeOK
  <2> QED BY <1>0, <1>13, <2>2, <2>3 DEF Restart, Typed, TypeOK, Filled, Tasks
<1>14. CASE UNCHANGED vars
  BY <1>0, <1>14 DEF vars, Typed, TypeOK, Filled
<1> QED
  BY <1>1, <1>2, <1>3, <1>4, <1>5, <1>6, <1>7, <1>8, <1>9, <1>10, <1>11, <1>12, <1>13,
     <1>14 DEF Next, Timer10ms, Timer1S, Store, Tasks

\* A step that leaves the ring and the storage alone: it does not come in the
\* middle of the writes, or it is of another task and gives no identifier.
LEMMA RingQuiet ==
    ASSUME RingInv, Typed', UNCHANGED <<ring, nvs>>,
           \/ pc'["Timer10ms"] = "count"
           \/ ~Writing /\ ~Writing'
           \/ pc'["Timer10ms"] = pc["Timer10ms"] /\ s_next_id' = s_next_id
    PROVE  RingInv'
<1>1. Restorable' = Restorable /\ Export' = Export
  BY DEF Restorable, Export, ring
<1> QED
  BY <1>1 DEF RingInv, Writing, Storing, ring

\* Every step keeps the ring and its storage together.
LEMMA NextRing == RingInv /\ [Next]_vars => RingInv'
<1> SUFFICES ASSUME RingInv, [Next]_vars PROVE RingInv'
  OBVIOUS
<1>0. Typed /\ Typed' /\ TypeOK /\ Filled
  BY NextTyped DEF RingInv, Typed
<1>1. CASE Charge \/ Pause
  BY <1>0, <1>1, RingQuiet DEF Charge, Pause, Ready, Writing, Storing
<1>2. CASE Unplug
  <2>1. ~Writing /\ UNCHANGED <<ring, nvs>>
    BY <1>2 DEF Unplug, Ready, Writing, Storing
  <2>2. pc'["Timer10ms"] \in {"count", "end", "idle"}
    BY <1>0, <1>2 DEF Unplug, Ready, TypeOK, Writes, Tasks
  <2> QED BY <1>0, <2>1, <2>2, RingQuiet DEF Writing, Storing
<1>3. CASE Put("count")
  <2>1. nvs' = [nvs EXCEPT !.count = s_history_count] /\ UNCHANGED ring
    BY <1>3 DEF Put
  <2>2. nvs'.count = s_history_count
    BY <1>0, <2>1 DEF TypeOK
  <2>3. pc'["Timer10ms"] = "next"
    BY <1>0, <1>3, PutStep
  <2> QED BY <1>0, <2>1, <2>2, <2>3 DEF RingInv, Writing, Storing, ring
<1>4. CASE Put("next")
  <2>1. /\ nvs' = [nvs EXCEPT !.next = s_next_id] /\ UNCHANGED <<ring, log>>
        /\ pc["Timer10ms"] = "next"
    BY <1>4 DEF Put
  <2>2. nvs'.next = s_next_id /\ nvs'.count = nvs.count
    BY <1>0, <2>1 DEF TypeOK
  <2>3. pc'["Timer10ms"] = "data"
    BY <1>0, <1>4, PutStep
  <2> QED BY <1>0, <2>1, <2>2, <2>3 DEF RingInv, Writing, Storing, ring, log
<1>5. CASE Put("data")
  <2>1. /\ nvs' = IF s_history_count = 0 THEN nvs ELSE [nvs EXCEPT !.data = Export]
        /\ UNCHANGED ring /\ pc["Timer10ms"] = "data"
    BY <1>5 DEF Put
  <2>2. nvs.count = s_history_count /\ Len(Export) = s_history_count
    BY <1>0, <2>1, ExportSlots DEF RingInv, Storing, Exported
  <2>3. pc'["Timer10ms"] = "check" /\ Export' = Export
    BY <1>0, <1>5, <2>1, PutStep DEF Export, ring
  <2>4. Restorable' = Export
    <3>1. CASE s_history_count = 0
      <4>1. Export = <<>> /\ nvs' = nvs /\ nvs.count = 0
        BY <2>1, <2>2, <3>1, ExportNothing
      <4>2. nvs.data \in Seq(Ids)
        BY <1>0 DEF TypeOK
      <4> QED BY <4>1, <4>2 DEF Restorable
    <3>2. CASE s_history_count # 0
      <4>1. nvs'.data = Export /\ nvs'.count = s_history_count
        BY <1>0, <2>1, <2>2, <3>2 DEF TypeOK
      <4> QED BY <2>2, <4>1 DEF Restorable
    <3> QED BY <3>1, <3>2
  <2> QED BY <1>0, <2>3, <2>4 DEF RingInv, Writing, Storing
<1>6. CASE EndSession
  <2>1. pc'["Timer10ms"] = "count"
    BY <1>0, <1>6 DEF EndSession, Writes, TypeOK, Tasks
  <2> QED BY <1>0, <2>1 DEF RingInv, Writing, Storing
<1>7. CASE Publish
  <2>1. ~Writing /\ UNCHANGED <<ring, nvs>> /\ pc'["Timer10ms"] \in {"read", "idle"}
    BY <1>0, <1>7 DEF Publish, Writing, Storing, TypeOK, Tasks
  <2> QED BY <1>0, <2>1, RingQuiet DEF Writing, Storing
<1>8. ASSUME NEW t \in Tasks, Read(t) \/ Send(t) \/ Clear(t) PROVE RingInv'
  <2>1. UNCHANGED <<ring, nvs, s_next_id>> /\ pc[t] \in {"read", "send", "clear"}
    BY <1>8 DEF Read, Send, Clear, log
  <2>2. CASE t = "Timer10ms"
    <3>1. pc'["Timer10ms"] \in {"idle", "send", "clear"}
      BY <1>0, <1>8, <2>2 DEF Read, Send, Clear, TypeOK, Tasks
    <3> QED BY <1>0, <2>1, <2>2, <3>1, RingQuiet DEF Writing, Storing
  <2>3. CASE t # "Timer10ms"
    <3>1. pc'["Timer10ms"] = pc["Timer10ms"]
      BY <1>0, <1>8, <2>3 DEF Read, Send, Clear, TypeOK, Tasks
    <3> QED BY <1>0, <2>1, <3>1, RingQuiet
  <2> QED BY <2>2, <2>3
<1>9. CASE Retry
  <2>1. pc'["Timer10ms"] = pc["Timer10ms"]
    BY <1>0, <1>9 DEF Retry, TypeOK, Tasks
  <2> QED BY <1>0, <1>9, <2>1, RingQuiet DEF Retry, log
<1>10. CASE OcppMark \/ OcppUnmark \/ Connect \/ Disconnect
  BY <1>0, <1>10, RingQuiet DEF OcppMark, OcppUnmark, Connect, Disconnect, log
<1>11. CASE Restart
  <2>1. Refill(Restorable) /\ pc'["Timer10ms"] = "idle" /\ nvs' = nvs
    BY <1>11 DEF Restart, Tasks
  <2>2. Restorable' = Restorable /\ Export' = Restorable
    BY <1>0, <2>1, RestorableFits, RefillExports DEF Restorable
  <2> QED BY <1>0, <2>1, <2>2 DEF RingInv, Writing, Storing
<1>12. CASE UNCHANGED vars
  BY <1>0, <1>12, RingQuiet DEF vars, log
<1> QED
  BY <1>1, <1>2, <1>3, <1>4, <1>5, <1>6, <1>7, <1>8, <1>9, <1>10, <1>11, <1>12
     DEF Next, Timer10ms, Timer1S, Store, Tasks

\* The invariant holds of every behaviour.
LEMMA RingHolds == Spec => []RingInv
<1>1. Init => RingInv
  <2> SUFFICES ASSUME Init PROVE RingInv
    OBVIOUS
  <2>1. Typed /\ pc["Timer10ms"] = "idle" /\ nvs.data = <<>> /\ s_history_count = 0
    BY InitTyped DEF Init, Tasks
  <2>2. Restorable = <<>> /\ Export = <<>>
    BY <2>1, ExportNothing DEF Restorable
  <2> QED BY <2>1, <2>2 DEF RingInv, Writing, Storing
<1> QED
  BY <1>1, NextRing, PTL DEF Spec

\* Of every behaviour the log has its types: the position is in the ring, and no
\* identifier of a record is greater than the last one given.
THEOREM TypeCorrect == Spec => []TypeOK
<1>1. RingInv => TypeOK
  BY DEF RingInv, Typed
<1> QED
  BY <1>1, RingHolds, PTL

\* While session_persist_history is not at work, a restart restores exactly the
\* records that are in the ring, whatever power failures there have been.
THEOREM NothingLost == Spec => []NothingToLose
<1>1. RingInv => NothingToLose
  BY DEF RingInv, NothingToLose, Writing, Storing
<1> QED
  BY <1>1, RingHolds, PTL

\* The ring of session_log.c and its three values in NVS implement a bounded
\* sequence of sessions, of which a restart restores all or nothing.
THEOREM Implements == Spec => ImplementsHistory
<1>1. Init => History!Init
  BY ExportNothing DEF Init, History!Init
<1>2. RingInv /\ [Next]_vars =>
        [History!Complete \/ History!Store \/ History!Tamper \/ History!Restart]_
            <<Export, nvs.data, nvs.count = Len(nvs.data)>>
  <2> SUFFICES ASSUME RingInv, [Next]_vars
               PROVE  \/ History!Complete \/ History!Store \/ History!Tamper
                      \/ History!Restart
                      \/ UNCHANGED <<Export, nvs.data, nvs.count = Len(nvs.data)>>
    OBVIOUS
  <2>0. Typed /\ TypeOK /\ Filled
    BY DEF RingInv, Typed
  <2>1. CASE UNCHANGED <<ring, nvs>>
    BY <2>1 DEF Export, ring
  <2>2. CASE EndSession
    <3>1. s_active \in Ids /\ Push(s_active) /\ nvs' = nvs
      BY <2>0, <2>2 DEF EndSession, Typed, TypeOK
    <3>2. Export' = History!Latest(Append(Export, s_active))
      BY <2>0, <3>1, PushExports
    <3> QED BY <3>1, <3>2 DEF History!Complete
  <2>3. CASE Put("count")
    <3>1. nvs'.data = nvs.data /\ Export' = Export
      BY <2>0, <2>3 DEF Put, TypeOK, Export, ring
    <3> QED BY <3>1 DEF History!Tamper
  <2>4. CASE Put("next")
    <3>1. nvs'.data = nvs.data /\ nvs'.count = nvs.count /\ Export' = Export
      BY <2>0, <2>4 DEF Put, TypeOK, Export, ring
    <3> QED BY <3>1
  <2>5. CASE Put("data")
    <3>1. Export' = Export /\ nvs.count = s_history_count /\ Len(Export) = s_history_count
      BY <2>0, <2>5, ExportSlots DEF Put, Export, ring, RingInv, Storing, Exported
    <3>2. CASE s_history_count = 0
      BY <2>5, <3>1, <3>2 DEF Put
    <3>3. CASE s_history_count # 0
      <4>1. nvs'.data = Export /\ nvs'.count = nvs.count
        BY <2>0, <2>5, <3>3 DEF Put, TypeOK
      <4> QED BY <3>1, <4>1 DEF History!Store
    <3> QED BY <3>2, <3>3
  <2>6. CASE Restart
    <3>1. Refill(Restorable) /\ nvs' = nvs
      BY <2>6 DEF Restart
    <3>2. Export' = Restorable
      BY <2>0, <3>1, RestorableFits, RefillExports
    <3> QED BY <3>1, <3>2 DEF History!Restart, Restorable
  <2> QED
    BY <2>1, <2>2, <2>3, <2>4, <2>5, <2>6
       DEF Next, Timer10ms, Timer1S, Store, Charge, Pause, Unplug, Publish, Retry, Read,
           Send, Clear, OcppMark, OcppUnmark, Connect, Disconnect, vars
<1> QED
  BY <1>1, <1>2, RingHolds, PTL DEF Spec, ImplementsHistory, History!Spec

----------------------------------------------------------------------------
(* The identifiers                                                         *)

\* The records have increasing identifiers, all of them less than n
Free(seq, n) == Increasing(seq) /\ \A i \in 1 .. Len(seq) : seq[i] < n

\* The next identifier is free, and so is that of the session that runs when it ends
NextFree == /\ Free(Export, s_next_id)
            /\ s_active \in Nat \ {0} => s_active < s_next_id /\ Free(Export, s_active)

\* What was written last is whole, and may be read back with either identifier
Stored == /\ Free(nvs.data, nvs.next) /\ Free(nvs.data, s_next_id)
          /\ ~Storing => nvs.count = Len(nvs.data)
          /\ s_history_count = 0 => nvs.data = <<>>

\* After one failure between two writes the records may be older than the
\* identifier, which does no harm.  After a second one the identifier may be that
\* of a log which the first had already lost
IdInv == /\ failures < 2 => NextFree
         /\ failures = 0 => Stored
         /\ failures = 1 /\ ~Storing /\ nvs.count = Len(nvs.data) => Free(nvs.data, nvs.next)

\* A greater identifier is free too.
LEMMA FreeAbove ==
    ASSUME NEW seq \in Seq(Ids), NEW n \in Nat, Free(seq, n)
    PROVE  Free(seq, n + 1)
<1>1. \A i \in 1 .. Len(seq) : seq[i] \in Nat
  BY ElementOfSeq, LogAssumption DEF Ids
<1> QED
  BY <1>1 DEF Free

\* Of no records every identifier is free.
LEMMA FreeOfNone == \A n : Free(<<>>, n)
  BY DEF Free, Increasing

\* A session that ends with a free identifier leaves the greater ones free, also
\* when the oldest record goes and when OCPP has taken its identifier.
LEMMA FreeLatest ==
    ASSUME NEW seq \in Seq(Ids), NEW record \in Ids, NEW n \in Nat, Free(seq, n),
           record < n, record # 0 => Free(seq, record)
    PROVE  Free(History!Latest(Append(seq, record)), n)
<1> DEFINE new == Append(seq, record)
<1>1. /\ Len(new) = Len(seq) + 1 /\ Len(seq) \in Nat /\ new \in Seq(Ids)
      /\ \A i \in 1 .. Len(seq) : new[i] = seq[i]
      /\ new[Len(seq) + 1] = record
  OBVIOUS
<1>2. \A i \in 1 .. Len(seq) : seq[i] \in Nat
  BY ElementOfSeq, LogAssumption DEF Ids
<1>3. record \in Nat
  BY LogAssumption DEF Ids
<1> HIDE DEF new
<1>4. Free(new, n)
  <2>1. \A i \in 1 .. Len(new) : new[i] < n
    <3> SUFFICES ASSUME NEW i \in 1 .. Len(new) PROVE new[i] < n
      OBVIOUS
    <3>1. i \in 1 .. Len(seq) \/ i = Len(seq) + 1
      BY <1>1
    <3> QED BY <1>1, <3>1 DEF Free
  <2>2. Increasing(new)
    <3> SUFFICES ASSUME NEW i \in 1 .. Len(new), NEW j \in 1 .. Len(new),
                        i < j, new[i] # 0, new[j] # 0
                 PROVE  new[i] < new[j]
      BY DEF Increasing
    <3>1. i \in 1 .. Len(seq)
      BY <1>1
    <3>2. CASE j \in 1 .. Len(seq)
      BY <1>1, <3>1, <3>2 DEF Free, Increasing
    <3>3. CASE j = Len(seq) + 1
      BY <1>1, <3>1, <3>3 DEF Free
    <3> QED BY <1>1, <3>2, <3>3
  <2> QED BY <2>1, <2>2 DEF Free
<1>5. Free(Tail(new), n)
  <2>1. /\ Len(Tail(new)) = Len(seq)
        /\ \A i \in 1 .. Len(seq) : Tail(new)[i] = new[i + 1] /\ i + 1 \in 1 .. Len(new)
    BY <1>1
  <2>2. Increasing(Tail(new))
    <3> SUFFICES ASSUME NEW i \in 1 .. Len(seq), NEW j \in 1 .. Len(seq), i < j,
                        new[i + 1] # 0, new[j + 1] # 0
                 PROVE  new[i + 1] < new[j + 1]
      BY <2>1 DEF Increasing
    <3>1. i + 1 \in 1 .. Len(new) /\ j + 1 \in 1 .. Len(new) /\ i + 1 < j + 1
      BY <1>1
    <3> QED BY <1>4, <3>1 DEF Free, Increasing
  <2> QED BY <1>4, <2>1, <2>2 DEF Free
<1> QED
  BY <1>4, <1>5 DEF History!Latest, new

\* A step that gives no identifier, and neither writes nor leaves the middle of the
\* writes.
LEMMA IdQuiet ==
    ASSUME IdInv, UNCHANGED <<ring, nvs, s_next_id, failures>>,
           s_active' \in {s_active, None, 0}, Storing => Storing'
    PROVE  IdInv'
<1>1. Export' = Export
  BY DEF Export, ring
<1>2. NextFree => NextFree'
  BY <1>1, LogAssumption DEF NextFree, Free, Increasing
<1>3. Stored => Stored'
  BY DEF Stored, Free, Increasing, ring
<1>4. Free(nvs.data, nvs.next) => Free(nvs.data, nvs.next)'
  BY DEF Free, Increasing
<1> QED
  BY <1>2, <1>3, <1>4 DEF IdInv

\* A restart takes up the identifiers where they were written.
LEMMA IdRestart == Typed /\ IdInv /\ Restart => IdInv'
<1> SUFFICES ASSUME Typed, IdInv, Restart PROVE IdInv'
  OBVIOUS
<1>0. TypeOK /\ Filled
  BY DEF Typed
<1>1. /\ Export' = Restorable /\ s_history_count' = Len(Restorable) /\ nvs' = nvs
      /\ s_active' = None /\ ~Storing'
  BY <1>0, RestorableFits, RefillExports DEF Restart, Storing, Tasks
<1>2. s_next_id' = IF Restorable # <<>> THEN nvs.next ELSE 1
  BY <1>0 DEF Restart, TypeOK
<1>3. failures \in 0 .. 2 /\ failures' = IF Storing /\ failures < 2 THEN failures + 1 ELSE failures
  BY <1>0 DEF Restart, Storing, Writes, TypeOK
<1>4. failures < 2 /\ nvs.count = Len(nvs.data) /\ (Storing => failures = 0)
        => Free(nvs.data, nvs.next)
  BY <1>3 DEF IdInv, Stored
<1>5. failures' < 2 => NextFree'
  <2> SUFFICES ASSUME failures' < 2 PROVE Free(Export', s_next_id')
    BY <1>1, LogAssumption DEF NextFree, Free, Increasing
  <2>1. CASE Restorable = <<>>
    BY <1>1, <2>1, FreeOfNone
  <2>2. CASE Restorable # <<>>
    <3>1. Restorable = nvs.data /\ nvs.count = Len(nvs.data)
      BY <2>2 DEF Restorable
    <3>2. Free(nvs.data, nvs.next)
      BY <1>3, <1>4, <3>1
    <3> QED BY <1>1, <1>2, <2>2, <3>1, <3>2
  <2> QED BY <2>1, <2>2
<1>6. failures' = 0 => Stored'
  <2> SUFFICES ASSUME failures = 0, ~Storing PROVE Stored'
    BY <1>3
  <2>1. Restorable = nvs.data /\ nvs.count = Len(nvs.data) /\ Free(nvs.data, nvs.next)
    BY DEF IdInv, Stored, Restorable
  <2>2. Free(nvs.data, s_next_id')
    BY <1>2, <2>1, FreeOfNone
  <2>3. s_history_count' = 0 => nvs.data = <<>>
    BY <1>0, <1>1, <2>1 DEF TypeOK
  <2>4. Free(nvs.data, nvs.next)' /\ Free(nvs.data, s_next_id)'
    BY <1>1, <2>1, <2>2 DEF Free, Increasing
  <2> QED BY <1>1, <2>1, <2>3, <2>4 DEF Stored
<1>7. failures' = 1 /\ nvs.count = Len(nvs.data) => Free(nvs.data, nvs.next)'
  <2>1. Free(nvs.data, nvs.next) => Free(nvs.data, nvs.next)'
    BY <1>1 DEF Free, Increasing
  <2> QED BY <1>3, <1>4, <2>1
<1> QED
  BY <1>1, <1>5, <1>6, <1>7 DEF IdInv

\* The records replace the older ones once the identifier is written.
LEMMA IdStore == RingInv /\ Typed' /\ IdInv /\ Put("data") => IdInv'
<1> SUFFICES ASSUME RingInv, Typed', IdInv, Put("data") PROVE IdInv'
  OBVIOUS
<1>0. TypeOK /\ Filled
  BY DEF RingInv, Typed
<1>1. /\ nvs.count = s_history_count /\ nvs.next = s_next_id
      /\ Storing /\ UNCHANGED <<log, ring>> /\ Export' = Export
  BY DEF Put, RingInv, Storing, log, ring, Export
<1>2. ~Storing' /\ Len(Export) = s_history_count
  BY <1>0, PutStep, ExportSlots DEF Storing, Exported
<1>3. NextFree => NextFree'
  BY <1>1 DEF NextFree, Free, Increasing, log
<1>4. CASE s_history_count = 0
  <2>1. nvs' = nvs /\ failures' = failures
    BY <1>4 DEF Put, Writes
  <2>2. nvs.data \in Seq(Ids) /\ (nvs.count = Len(nvs.data) => nvs.data = <<>>)
    BY <1>0, <1>1, <1>4 DEF TypeOK
  <2>3. Stored => Stored'
    BY <1>1, <1>4, <2>1, <2>2 DEF Stored, Free, Increasing, ring, log
  <2>4. nvs'.count = Len(nvs'.data) => Free(nvs.data, nvs.next)'
    BY <2>1, <2>2 DEF Free, Increasing
  <2> QED BY <1>3, <2>1, <2>3, <2>4 DEF IdInv
<1>5. CASE s_history_count # 0
  <2>1. nvs'.data = Export /\ nvs'.next = s_next_id /\ nvs'.count = s_history_count
    BY <1>0, <1>1, <1>5 DEF Put, TypeOK
  <2>2. failures \in 0 .. 2 /\ failures' = IF failures = 1 THEN 0 ELSE failures
    BY <1>0, <1>5 DEF Put, Writes, Filled, TypeOK
  <2>3. NextFree => Stored'
    <3> SUFFICES ASSUME Free(Export, s_next_id) PROVE Stored'
      BY DEF NextFree
    <3>1. Free(nvs.data, nvs.next)' /\ Free(nvs.data, s_next_id)'
      BY <1>1, <2>1 DEF Free, Increasing, log
    <3> QED BY <1>1, <1>2, <1>5, <2>1, <3>1 DEF Stored, ring
  <2> QED BY <1>3, <2>2, <2>3 DEF IdInv
<1> QED
  BY <1>4, <1>5

\* Every step keeps the identifiers apart.
LEMMA NextIds == RingInv /\ IdInv /\ [Next]_vars => IdInv'
<1> SUFFICES ASSUME RingInv, IdInv, [Next]_vars PROVE IdInv'
  OBVIOUS
<1>0. Typed /\ Typed' /\ TypeOK /\ Filled
  BY NextTyped DEF RingInv, Typed
<1>1. CASE Charge
  <2>1. /\ UNCHANGED <<ring, nvs, failures>> /\ ~Storing /\ ~Storing'
        /\ \/ UNCHANGED <<s_active, s_next_id>>
           \/ s_active' = s_next_id /\ s_next_id' = s_next_id + 1
    BY <1>1 DEF Charge, Ready, Storing, log
  <2>2. CASE UNCHANGED <<s_active, s_next_id>>
    BY <2>1, <2>2, IdQuiet
  <2>3. CASE s_active' = s_next_id /\ s_next_id' = s_next_id + 1
    <3>1. Export' = Export /\ Export \in Seq(Ids) /\ nvs.data \in Seq(Ids)
          /\ s_next_id \in Nat \ {0}
      BY <1>0, <2>1, ExportSlots, LogAssumption DEF Export, ring, TypeOK, Exported
    <3>2. NextFree => NextFree'
      <4> SUFFICES ASSUME Free(Export, s_next_id)
                   PROVE  Free(Export, s_next_id)' /\ Free(Export, s_active)'
                          /\ s_active' < s_next_id'
        BY DEF NextFree
      <4>1. Free(Export, s_next_id + 1)
        BY <3>1, FreeAbove
      <4>2. Free(Export, s_next_id)' /\ Free(Export, s_active)'
        BY <2>3, <3>1, <4>1 DEF Free, Increasing
      <4> QED BY <2>3, <3>1, <4>2
    <3>3. Stored => Stored'
      <4> SUFFICES ASSUME Stored PROVE Stored'
        OBVIOUS
      <4>1. Free(nvs.data, s_next_id + 1)
        BY <3>1, FreeAbove DEF Stored
      <4>2. Free(nvs.data, nvs.next)' /\ Free(nvs.data, s_next_id)'
        BY <2>1, <2>3, <4>1 DEF Stored, Free, Increasing
      <4> QED BY <2>1, <4>2 DEF Stored, ring
    <3>4. Free(nvs.data, nvs.next) => Free(nvs.data, nvs.next)'
      BY <2>1 DEF Free, Increasing
    <3> QED BY <2>1, <3>2, <3>3, <3>4 DEF IdInv
  <2> QED BY <2>1, <2>2, <2>3
<1>2. CASE Pause
  BY <1>2, IdQuiet DEF Pause, Storing, log
<1>3. CASE Unplug
  BY <1>3, IdQuiet DEF Unplug, Ready, Storing
<1>4. CASE Put("count") \/ Put("next")
  <2>1. /\ nvs'.data = nvs.data /\ UNCHANGED <<log, ring, failures>> /\ Storing'
        /\ nvs'.next \in {nvs.next, s_next_id}
    BY <1>0, <1>4, PutStep DEF Put, Writes, TypeOK, Storing
  <2>2. NextFree => NextFree'
    BY <2>1 DEF NextFree, Free, Increasing, log, ring, Export
  <2>3. Stored => Stored'
    <3> SUFFICES ASSUME Stored PROVE Stored'
      OBVIOUS
    <3>1. Free(nvs.data, nvs.next)' /\ Free(nvs.data, s_next_id)'
      BY <2>1 DEF Stored, Free, Increasing, log
    <3> QED BY <2>1, <3>1 DEF Stored, ring
  <2> QED BY <2>1, <2>2, <2>3 DEF IdInv
<1>5. CASE Put("data")
  BY <1>0, <1>5, IdStore
<1>6. CASE EndSession
  <2>1. /\ s_active \in Ids /\ Push(s_active) /\ s_active' = None
        /\ UNCHANGED <<s_next_id, nvs, failures>> /\ ~Storing /\ ~Storing'
    <3>1. pc'["Timer10ms"] = "count"
      BY <1>0, <1>6 DEF EndSession, Writes, TypeOK, Tasks
    <3> QED BY <1>0, <1>6, <3>1 DEF EndSession, Typed, TypeOK, Storing
  <2>2. Export' = History!Latest(Append(Export, s_active)) /\ s_history_count' > 0
    BY <1>0, <2>1, PushExports
  <2>3. Export \in Seq(Ids) /\ s_next_id \in Nat \ {0}
    BY <1>0, ExportSlots, LogAssumption DEF Exported, TypeOK
  <2>4. NextFree => NextFree'
    <3> SUFFICES ASSUME NextFree PROVE Free(Export, s_next_id)'
      BY <2>1, LogAssumption DEF NextFree
    <3>1. s_active < s_next_id /\ (s_active # 0 => Free(Export, s_active))
      BY <2>1, <2>3, LogAssumption DEF NextFree, Ids
    <3>2. Free(Export', s_next_id)
      BY <2>1, <2>2, <2>3, <3>1, FreeLatest DEF NextFree
    <3> QED BY <2>1, <3>2 DEF Free, Increasing
  <2>5. Stored => Stored'
    BY <2>1, <2>2 DEF Stored, Free, Increasing
  <2>6. Free(nvs.data, nvs.next) => Free(nvs.data, nvs.next)'
    BY <2>1 DEF Free, Increasing
  <2> QED BY <2>1, <2>4, <2>5, <2>6 DEF IdInv
<1>7. CASE Publish
  <2>1. ~Storing
    BY <1>7 DEF Publish, Storing
  <2> QED BY <1>7, <2>1, IdQuiet DEF Publish, log
<1>8. ASSUME NEW t \in Tasks, Read(t) \/ Send(t) \/ Clear(t) PROVE IdInv'
  <2>1. UNCHANGED <<log, ring, nvs, failures>>
    BY <1>8 DEF Read, Send, Clear
  <2>2. Storing => Storing'
    BY <1>0, <1>8 DEF Read, Send, Clear, Storing, TypeOK, Tasks
  <2> QED BY <2>1, <2>2, IdQuiet DEF log
<1>9. CASE Retry
  <2>1. Storing => Storing'
    BY <1>0, <1>9 DEF Retry, Storing, TypeOK, Tasks
  <2> QED BY <1>9, <2>1, IdQuiet DEF Retry, log
<1>10. CASE OcppMark \/ OcppUnmark \/ Connect \/ Disconnect
  BY <1>10, IdQuiet DEF OcppMark, OcppUnmark, Connect, Disconnect, log, Storing
<1>11. CASE Restart
  BY <1>0, <1>11, IdRestart
<1>12. CASE UNCHANGED vars
  BY <1>12, IdQuiet DEF vars, log, Storing
<1> QED
  BY <1>1, <1>2, <1>3, <1>4, <1>5, <1>6, <1>7, <1>8, <1>9, <1>10, <1>11, <1>12
     DEF Next, Timer10ms, Timer1S, Store, Tasks

\* The sessions of the log that OCPP does not manage have increasing identifiers,
\* all less than the next one, whatever the size of the ring and wherever the power
\* fails, unless it does so in the middle of the writes twice in a row
\* (session_persist_history, session_restore_history_from_nvs).
THEOREM IdsGrow == Spec => []IdsIncrease
<1>1. Init => IdInv
  <2> SUFFICES ASSUME Init PROVE IdInv
    OBVIOUS
  <2>1. Export = <<>> /\ nvs.data = <<>> /\ s_active = None
    BY ExportNothing DEF Init
  <2>2. NextFree
    BY <2>1, FreeOfNone, LogAssumption DEF NextFree
  <2>3. nvs.count = 0 /\ Stored
    BY <2>1, FreeOfNone DEF Init, Stored
  <2> QED BY <2>1, <2>2, <2>3, FreeOfNone DEF IdInv
<1>2. RingInv /\ IdInv => IdsIncrease
  BY DEF IdInv, NextFree, Free, IdsIncrease
<1> QED
  BY <1>1, <1>2, RingHolds, NextIds, PTL DEF Spec
=============================================================================
