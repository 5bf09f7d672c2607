------------------------ MODULE MPSCRingBufferProofs ------------------------
(***************************************************************************)
(* Machine-checked proofs about MPSCRingBuffer, for any number of          *)
(* producers, any capacity above one and any number of calls: its          *)
(* inductive invariant, what a refusal and a miss mean, and that it        *)
(* implements the channel.                                                 *)
(***************************************************************************)
EXTENDS MPSCRingBuffer, TLAPS

-----------------------------------------------------------------------------
(* Slots.  Two tickets less than Capacity apart never share a slot. *)

\* Indexing the buffer with i % Capacity stays inside the array.
LEMMA SlotInRange ==
    ASSUME NEW i \in Nat
    PROVE  Slot(i) \in Slots
  BY CapacityAssumption DEF Slot, Slots

\* Division by the capacity, in the form the solver can use.
LEMMA SlotQuotient ==
    ASSUME NEW i \in Nat
    PROVE  /\ i \div Capacity \in Nat
           /\ i = Capacity * (i \div Capacity) + Slot(i)
  BY CapacityAssumption DEF Slot

LEMMA NextMultiple ==
    ASSUME NEW x \in Nat, NEW y \in Nat, x < y
    PROVE  Capacity * y >= Capacity * x + Capacity
  BY CapacityAssumption

\* Two tickets of one window of Capacity tickets have different slots.
LEMMA SlotDistinct ==
    ASSUME NEW i \in Nat, NEW j \in Nat, i < j, j < i + Capacity
    PROVE  Slot(i) # Slot(j)
<1> DEFINE x == i \div Capacity
           y == j \div Capacity
<1> SUFFICES ASSUME Slot(i) = Slot(j)
             PROVE  FALSE
    OBVIOUS
<1>1. x \in Nat /\ i = Capacity * x + Slot(i)
    BY SlotQuotient
<1>2. y \in Nat /\ j = Capacity * y + Slot(j)
    BY SlotQuotient
<1>3. Slot(i) \in Nat /\ Slot(j) \in Nat
    BY SlotInRange, CapacityAssumption DEF Slots
<1> HIDE DEF x, y
<1>4. CASE x < y
  <2>1. Capacity * y >= Capacity * x + Capacity
      BY NextMultiple, <1>1, <1>2, <1>4
  <2>2. QED
      BY <2>1, <1>1, <1>2, <1>3, CapacityAssumption
<1>5. CASE y < x
  <2>1. Capacity * x >= Capacity * y + Capacity
      BY NextMultiple, <1>1, <1>2, <1>5
  <2>2. QED
      BY <2>1, <1>1, <1>2, <1>3, CapacityAssumption
<1>6. CASE x = y
    BY <1>1, <1>2, <1>6, CapacityAssumption
<1>7. QED
    BY <1>1, <1>2, <1>4, <1>5, <1>6

\* The ticket that follows the window reuses the slot of its first ticket.
LEMMA SlotReused ==
    ASSUME NEW i \in Nat
    PROVE  Slot(i + Capacity) = Slot(i)
<1> DEFINE x == i \div Capacity
           y == (i + Capacity) \div Capacity
<1>1. x \in Nat /\ i = Capacity * x + Slot(i)
    BY SlotQuotient
<1>2. i + Capacity \in Nat
    BY CapacityAssumption
<1>3. y \in Nat /\ i + Capacity = Capacity * y + Slot(i + Capacity)
    BY <1>2, SlotQuotient
<1>4. /\ Slot(i) \in 0 .. Capacity - 1
      /\ Slot(i + Capacity) \in 0 .. Capacity - 1
    BY <1>2, SlotInRange DEF Slots
<1>5. Capacity * (x + 1) = Capacity * x + Capacity
    BY <1>1, CapacityAssumption
<1> HIDE DEF x, y
<1> DEFINE z == x + 1
<1>6. z \in Nat /\ i + Capacity = Capacity * z + Slot(i)
    BY <1>1, <1>4, <1>5, CapacityAssumption
<1> HIDE DEF z
<1>7. CASE z < y
  <2>1. Capacity * y >= Capacity * z + Capacity
      BY NextMultiple, <1>3, <1>6, <1>7
  <2>2. QED
      BY <2>1, <1>3, <1>4, <1>6, CapacityAssumption
<1>8. CASE y < z
  <2>1. Capacity * z >= Capacity * y + Capacity
      BY NextMultiple, <1>3, <1>6, <1>8
  <2>2. QED
      BY <2>1, <1>3, <1>4, <1>6, CapacityAssumption
<1>9. CASE y = z
    BY <1>3, <1>4, <1>6, <1>9, CapacityAssumption
<1>10. QED
    BY <1>3, <1>6, <1>7, <1>8, <1>9

-----------------------------------------------------------------------------
(* Types *)

LEMMA TypeInit == Init => TypeOK
<1> SUFFICES ASSUME Init
             PROVE  TypeOK
    OBVIOUS
<1>1. <<>> \in Seq(Values \cup {NoValue})
    OBVIOUS
<1>2. 0 \in 0 .. MaxCalls /\ 0 \in 0 .. MaxClears
    BY BoundAssumption
<1>3. QED
    BY <1>1, <1>2 DEF Init, TypeOK

LEMMA TypeStep == TypeOK /\ [Next]_vars => TypeOK'
<1> SUFFICES ASSUME TypeOK, [Next]_vars
             PROVE  TypeOK'
    OBVIOUS
<1> USE CapacityAssumption, BoundAssumption DEF TypeOK
<1>1. ASSUME NEW p \in Producer, Call(p)
      PROVE  TypeOK'
  <2>1. calls[p] + 1 \in 1 .. MaxCalls
      BY <1>1 DEF Call
  <2>2. val' \in [Producer -> Values \cup {NoValue}]
      BY <1>1, <2>1 DEF Call, Values
  <2>3. Full \in BOOLEAN
      BY DEF Full
  <2>4. QED
      BY <1>1, <2>1, <2>2, <2>3
      DEF Call, counters, cells, consumerVars, observerVars
<1>2. ASSUME NEW p \in Producer, LoadHead(p)
      PROVE  TypeOK'
    BY <1>2 DEF LoadHead, counters, cells, consumerVars, observerVars
<1>3. ASSUME NEW p \in Producer, LoadTail(p)
      PROVE  TypeOK'
    BY <1>3 DEF LoadTail, counters, cells, consumerVars, observerVars
<1>4. ASSUME NEW p \in Producer, Claim(p)
      PROVE  TypeOK'
    BY <1>4 DEF Claim, cells, consumerVars, observerVars
<1>5. ASSUME NEW p \in Producer, Retry(p)
      PROVE  TypeOK'
    BY <1>5 DEF Retry, counters, cells, consumerVars, observerVars
<1>6. ASSUME NEW p \in Producer, Write(p)
      PROVE  TypeOK'
    BY <1>6 DEF Write, counters, consumerVars, observerVars
<1>7. ASSUME NEW p \in Producer, PublishCell(p)
      PROVE  TypeOK'
    BY <1>7 DEF PublishCell, counters, consumerVars, observerVars
<1>8. CASE PopLoadHead
    BY <1>8 DEF PopLoadHead, counters, cells, producerVars, observerVars
<1>9. CASE PopCheck
    BY <1>9 DEF PopCheck, counters, cells, producerVars, observerVars
<1>10. CASE PopMove
  <2>1. value[Slot(ch)] \in Values \cup {NoValue}
      BY SlotInRange
  <2>2. QED
      BY <1>10, <2>1 DEF PopMove, counters, producerVars, observerVars
<1>11. CASE PopRelease
    BY <1>11 DEF PopRelease, counters, producerVars, observerVars
<1>12. CASE PopAdvance
    BY <1>12 DEF PopAdvance, cells, producerVars, observerVars
<1>13. CASE Clear
    BY <1>13 DEF Clear, producerVars, observerVars
<1>14. CASE EmptyLoadHead
    BY <1>14 DEF EmptyLoadHead, counters, cells, producerVars, consumerVars
<1>15. CASE EmptyLoadTail
    BY <1>15 DEF EmptyLoadTail, counters, cells, producerVars, consumerVars
<1>16. CASE UNCHANGED vars
    BY <1>16 DEF vars, counters, cells, producerVars, consumerVars, observerVars
<1>17. QED
    BY <1>1, <1>2, <1>3, <1>4, <1>5, <1>6, <1>7, <1>8, <1>9, <1>10, <1>11,
       <1>12, <1>13, <1>14, <1>15, <1>16
    DEF Next, TryPush, TryPop

\* Every variable of the ring buffer keeps its type, in every reachable state.
THEOREM TypeCorrect == Spec => []TypeOK
<1>1. QED
    BY TypeInit, TypeStep, PTL DEF Spec

-----------------------------------------------------------------------------
(* The inductive invariant *)

LEMMA InvInit == Init => RingInv
<1> SUFFICES ASSUME Init
             PROVE  RingInv
    OBVIOUS
<1>1. TypeOK
    BY TypeInit
<1>2. CapacityRespected /\ StaleReads
    BY CapacityAssumption DEF Init, CapacityRespected, StaleReads
<1>3. Ownership
    BY DEF Init, Ownership, Claimed
<1>4. ReadySlots
  <2>1. \A i \in head .. head + Capacity - 1 : Slot(i) \in Slots
      BY SlotInRange, CapacityAssumption DEF Init
  <2>2. QED
      BY <2>1 DEF Init, ReadySlots
<1>5. ConsumerWindow
    BY DEF Init, ConsumerWindow
<1>6. QED
    BY <1>1, <1>2, <1>3, <1>4, <1>5 DEF RingInv

\* Steps of try_push that only read, or that start a call: the shared state is
\* untouched and no ticket changes hands.
LEMMA InvReadStep ==
    ASSUME RingInv, TypeOK', NEW p \in Producer,
           Call(p) \/ LoadHead(p) \/ LoadTail(p) \/ Retry(p)
    PROVE  RingInv'
<1> USE CapacityAssumption
<1> USE DEF Call, LoadHead, LoadTail, Retry, counters, cells, consumerVars,
            observerVars
<1>1. /\ head' = head /\ tail' = tail /\ state' = state
      /\ cpc' = cpc /\ ch' = ch /\ opc' = opc /\ oh' = oh
    OBVIOUS
<1>2. /\ ~ Claimed(p) /\ ~ Claimed(p)'
      /\ \A r \in Producer : r # p => pc'[r] = pc[r] /\ t'[r] = t[r] /\ h'[r] = h[r]
    BY DEF RingInv, TypeOK, Claimed
<1>3. \A r \in Producer : \A i : Pending(r, i)' <=> Pending(r, i)
    BY <1>2 DEF Pending, Claimed
<1>4. CapacityRespected'
    BY <1>1, <1>2, SMTT(30) DEF RingInv, TypeOK, CapacityRespected
<1>5. StaleReads'
  <2>1. /\ head \in Nat /\ tail \in Nat
        /\ h \in [Producer -> Nat] /\ t \in [Producer -> Nat]
        /\ pc \in [Producer -> {"idle", "loadHead", "loadTail", "cas", "write",
                                "publish"}]
      BY DEF RingInv, TypeOK
  <2>2. StaleReads
      BY DEF RingInv
  <2>3. /\ pc'[p] = "loadTail" => h'[p] = head
        /\ pc'[p] = "cas" => /\ pc[p] = "loadTail"
                             /\ h'[p] = h[p] /\ t'[p] = tail
                             /\ tail - h[p] < Capacity
    <3>1. CASE Call(p)
        BY <2>1, <3>1
    <3>2. CASE LoadHead(p)
        BY <2>1, <3>2
    <3>3. CASE LoadTail(p)
        BY <2>1, <3>3
    <3>4. CASE Retry(p)
        BY <2>1, <3>4
    <3>5. QED
        BY <3>1, <3>2, <3>3, <3>4
  <2>4. ASSUME NEW r \in Producer, pc'[r] \in {"loadTail", "cas"}
        PROVE  h'[r] <= head
      BY <1>2, <2>1, <2>2, <2>3, <2>4 DEF StaleReads
  <2>5. ASSUME NEW r \in Producer, pc'[r] = "cas"
        PROVE  t'[r] - h'[r] < Capacity
      BY <1>2, <2>1, <2>2, <2>3, <2>5 DEF StaleReads
  <2>6. QED
      BY <1>1, <2>2, <2>4, <2>5 DEF StaleReads
<1>6. Ownership'
    BY <1>1, <1>2 DEF RingInv, Ownership, Claimed
<1>7. ReadySlots'
    BY <1>1, <1>3 DEF RingInv, ReadySlots, Slot
<1>8. ConsumerWindow'
    BY <1>1, <1>3 DEF RingInv, ConsumerWindow, Slot
<1>9. QED
    BY <1>4, <1>5, <1>6, <1>7, <1>8 DEF RingInv

LEMMA InvClaim ==
    ASSUME RingInv, TypeOK', NEW p \in Producer, Claim(p)
    PROVE  RingInv'
<1> USE CapacityAssumption
<1> USE DEF Claim, cells, consumerVars, observerVars
<1>1. /\ head' = head /\ tail' = tail + 1 /\ t[p] = tail /\ t' = t /\ h' = h
      /\ state' = state /\ cpc' = cpc /\ ch' = ch /\ opc' = opc /\ oh' = oh
      /\ pc[p] = "cas" /\ pc'[p] = "write"
      /\ \A r \in Producer : r # p => pc'[r] = pc[r]
    BY DEF RingInv, TypeOK
<1>2. /\ head \in Nat /\ tail \in Nat /\ head <= tail
      /\ tail - head < Capacity
      /\ t \in [Producer -> Nat] /\ h \in [Producer -> Nat]
    BY <1>1 DEF RingInv, TypeOK, CapacityRespected, StaleReads
<1>3. /\ ~ Claimed(p) /\ Claimed(p)'
      /\ \A r \in Producer : r # p => (Claimed(r)' <=> Claimed(r))
    BY <1>1 DEF Claimed
<1>4. \A r \in Producer : \A i : Pending(r, i)' <=> Pending(r, i) \/ (r = p /\ i = tail)
    BY <1>1 DEF Pending
<1>5. CapacityRespected'
    BY <1>1, <1>2 DEF RingInv, CapacityRespected
<1>6. StaleReads'
    BY <1>1, <1>2 DEF RingInv, StaleReads
<1>7. Ownership'
    BY <1>1, <1>2, <1>3 DEF RingInv, Ownership
<1>8. ReadySlots'
  <2> SUFFICES ASSUME NEW i \in head .. head + Capacity - 1,
                      state[Slot(i)] = "Ready"
               PROVE  i < tail + 1 /\ \A r \in Producer : ~ Pending(r, i)'
      BY <1>1 DEF ReadySlots, Slot
  <2>1. i < tail /\ \A r \in Producer : ~ Pending(r, i)
      BY DEF RingInv, ReadySlots
  <2>2. QED
      BY <1>2, <1>4, <2>1
<1>9. ConsumerWindow'
    BY <1>1, <1>2, <1>4 DEF RingInv, ConsumerWindow, Slot
<1>10. QED
    BY <1>5, <1>6, <1>7, <1>8, <1>9 DEF RingInv

\* Writing the value changes no slot's state and no ticket's owner.
LEMMA InvWrite ==
    ASSUME RingInv, TypeOK', NEW p \in Producer, Write(p)
    PROVE  RingInv'
<1> USE DEF Write, counters, consumerVars, observerVars
<1>1. /\ head' = head /\ tail' = tail /\ t' = t /\ h' = h /\ state' = state
      /\ cpc' = cpc /\ ch' = ch /\ opc' = opc /\ oh' = oh
      /\ pc[p] = "write" /\ pc'[p] = "publish"
      /\ \A r \in Producer : r # p => pc'[r] = pc[r]
    BY DEF RingInv, TypeOK
<1>2. \A r \in Producer : Claimed(r)' <=> Claimed(r)
    BY <1>1 DEF Claimed
<1>3. \A r \in Producer : \A i : Pending(r, i)' <=> Pending(r, i)
    BY <1>1 DEF Pending
<1>4. CapacityRespected' /\ StaleReads'
    BY <1>1 DEF RingInv, CapacityRespected, StaleReads
<1>5. Ownership'
    BY <1>1, <1>2 DEF RingInv, Ownership
<1>6. ReadySlots' /\ ConsumerWindow'
    BY <1>1, <1>3 DEF RingInv, ReadySlots, ConsumerWindow, Slot
<1>7. QED
    BY <1>4, <1>5, <1>6 DEF RingInv

LEMMA InvPublish ==
    ASSUME RingInv, TypeOK', NEW p \in Producer, PublishCell(p)
    PROVE  RingInv'
<1> USE CapacityAssumption
<1> USE DEF PublishCell, counters, consumerVars, observerVars
<1>1. /\ head' = head /\ tail' = tail /\ t' = t /\ h' = h
      /\ state' = [state EXCEPT ![Slot(t[p])] = "Ready"]
      /\ cpc' = cpc /\ ch' = ch /\ opc' = opc /\ oh' = oh
      /\ pc[p] = "publish" /\ pc'[p] = "idle"
      /\ \A r \in Producer : r # p => pc'[r] = pc[r]
    BY DEF RingInv, TypeOK
<1>2. /\ head \in Nat /\ tail \in Nat /\ head <= tail /\ tail - head <= Capacity
      /\ t[p] \in Nat /\ head <= t[p] /\ t[p] < tail
      /\ state \in [Slots -> {"Empty", "Ready"}]
    BY <1>1 DEF RingInv, TypeOK, CapacityRespected, Ownership, Claimed
<1>3. /\ Claimed(p) /\ ~ Claimed(p)'
      /\ \A r \in Producer : r # p => (Claimed(r)' <=> Claimed(r))
    BY <1>1 DEF Claimed
<1>4. \A r \in Producer : \A i : Pending(r, i)' <=> Pending(r, i) /\ r # p
    BY <1>1 DEF Pending
<1>5. CapacityRespected' /\ StaleReads'
    BY <1>1 DEF RingInv, CapacityRespected, StaleReads
<1>6. Ownership'
    BY <1>1, <1>3 DEF RingInv, Ownership
<1>7. \A i \in head .. head + Capacity - 1 : i # t[p] => Slot(i) # Slot(t[p])
  <2> SUFFICES ASSUME NEW i \in head .. head + Capacity - 1, i # t[p]
               PROVE  Slot(i) # Slot(t[p])
      OBVIOUS
  <2>1. CASE i < t[p]
      BY <1>2, <2>1, SlotDistinct
  <2>2. CASE t[p] < i
      BY <1>2, <2>2, SlotDistinct
  <2>3. QED
      BY <1>2, <2>1, <2>2
<1>8. ReadySlots'
  <2> SUFFICES ASSUME NEW i \in head .. head + Capacity - 1,
                      state'[Slot(i)] = "Ready"
               PROVE  i < tail /\ \A r \in Producer : ~ Pending(r, i)'
      BY <1>1 DEF ReadySlots, Slot
  <2>1. CASE i = t[p]
    <3>1. \A r \in Producer : r # p => ~ Pending(r, i)
        BY <1>3, <2>1 DEF RingInv, Ownership, Claimed, Pending
    <3>2. QED
        BY <1>2, <1>4, <2>1, <3>1
  <2>2. CASE i # t[p]
    <3>1. state[Slot(i)] = "Ready"
      <4>1. Slot(i) # Slot(t[p])
          BY <1>7, <2>2
      <4>2. Slot(i) \in Slots
          BY <1>2, SlotInRange
      <4>3. QED
          BY <1>1, <1>2, <4>1, <4>2
    <3>2. i < tail /\ \A r \in Producer : ~ Pending(r, i)
        BY <3>1 DEF RingInv, ReadySlots
    <3>3. QED
        BY <1>4, <3>2
  <2>3. QED
      BY <2>1, <2>2
<1>9. ConsumerWindow'
  <2>1. cpc = "advance" => t[p] # head
      BY <1>1 DEF RingInv, ConsumerWindow, Pending
  <2>2. cpc = "advance" => Slot(head) # Slot(t[p]) /\ Slot(head) \in Slots
      BY <1>2, <1>7, <2>1, SlotInRange
  <2>3. cpc = "advance" => state'[Slot(head)] = "Empty"
      BY <1>1, <1>2, <2>2 DEF RingInv, ConsumerWindow
  <2>4. QED
      BY <1>1, <1>4, <2>3 DEF RingInv, ConsumerWindow, Slot
<1>10. QED
    BY <1>5, <1>6, <1>8, <1>9 DEF RingInv

\* PopLoadHead, PopCheck and PopMove leave the counters and the slot states
\* alone; only PopCheck's answer says something new about the oldest ticket.
LEMMA InvPopRead ==
    ASSUME RingInv, TypeOK', PopLoadHead \/ PopCheck \/ PopMove
    PROVE  RingInv'
<1> USE CapacityAssumption
<1> USE DEF PopLoadHead, PopCheck, PopMove, counters, cells, producerVars,
            observerVars
<1>1. /\ head' = head /\ tail' = tail /\ t' = t /\ h' = h /\ pc' = pc
      /\ state' = state /\ opc' = opc /\ oh' = oh
    OBVIOUS
<1>2. \A r \in Producer : \A i : Pending(r, i)' <=> Pending(r, i)
    BY <1>1 DEF Pending
<1>3. CapacityRespected' /\ StaleReads' /\ Ownership'
    BY <1>1 DEF RingInv, CapacityRespected, StaleReads, Ownership, Claimed
<1>4. ReadySlots'
    BY <1>1, <1>2 DEF RingInv, ReadySlots, Slot
<1>5. ConsumerWindow'
  <2>1. CASE PopLoadHead
      BY <1>1, <2>1 DEF ConsumerWindow
  <2>2. CASE PopCheck
    <3>1. ch' = ch /\ ch = head /\ cpc = "check"
        BY <2>2 DEF RingInv, ConsumerWindow
    <3>2. CASE state[Slot(ch)] = "Ready"
      <4>1. head \in head .. head + Capacity - 1
          BY DEF RingInv, TypeOK
      <4>2. head < tail /\ \A r \in Producer : ~ Pending(r, head)
          BY <3>1, <3>2, <4>1 DEF RingInv, ReadySlots
      <4>3. cpc' = "move"
          BY <2>2, <3>2
      <4>4. QED
          BY <1>1, <1>2, <3>1, <4>2, <4>3 DEF ConsumerWindow
    <3>3. CASE state[Slot(ch)] # "Ready"
      <4>1. cpc' = "idle"
          BY <2>2, <3>3
      <4>2. QED
          BY <4>1 DEF ConsumerWindow
    <3>4. QED
        BY <3>2, <3>3
  <2>3. CASE PopMove
    <3>1. cpc = "move" /\ cpc' = "release" /\ ch' = ch
        BY <2>3
    <3>2. QED
        BY <1>1, <1>2, <3>1 DEF RingInv, ConsumerWindow
  <2>4. QED
      BY <2>1, <2>2, <2>3
<1>6. QED
    BY <1>3, <1>4, <1>5 DEF RingInv

LEMMA InvPopRelease ==
    ASSUME RingInv, TypeOK', PopRelease
    PROVE  RingInv'
<1> USE CapacityAssumption
<1> USE DEF PopRelease, counters, producerVars, observerVars
<1>1. /\ head' = head /\ tail' = tail /\ t' = t /\ h' = h /\ pc' = pc
      /\ state' = [state EXCEPT ![Slot(ch)] = "Empty"]
      /\ cpc = "release" /\ cpc' = "advance" /\ ch' = ch
      /\ opc' = opc /\ oh' = oh
    OBVIOUS
<1>2. /\ ch = head /\ head \in Nat /\ head < tail
      /\ \A r \in Producer : ~ Pending(r, head)
      /\ state \in [Slots -> {"Empty", "Ready"}]
    BY <1>1 DEF RingInv, ConsumerWindow, TypeOK
<1>3. \A r \in Producer : \A i : Pending(r, i)' <=> Pending(r, i)
    BY <1>1 DEF Pending
<1>4. CapacityRespected' /\ StaleReads' /\ Ownership'
    BY <1>1 DEF RingInv, CapacityRespected, StaleReads, Ownership, Claimed
<1>5. \A s \in Slots : state'[s] = "Ready" => state[s] = "Ready"
    BY <1>1, <1>2
<1>6. ReadySlots'
  <2> SUFFICES ASSUME NEW i \in head .. head + Capacity - 1,
                      state'[Slot(i)] = "Ready"
               PROVE  i < tail /\ \A r \in Producer : ~ Pending(r, i)'
      BY <1>1 DEF ReadySlots, Slot
  <2>1. Slot(i) \in Slots
      BY <1>2, SlotInRange
  <2>2. i < tail /\ \A r \in Producer : ~ Pending(r, i)
      BY <1>5, <2>1 DEF RingInv, ReadySlots
  <2>3. QED
      BY <1>3, <2>2
<1>7. ConsumerWindow'
  <2>1. Slot(head) \in Slots
      BY <1>2, SlotInRange
  <2>2. state'[Slot(head)] = "Empty"
      BY <1>1, <1>2, <2>1
  <2>3. QED
      BY <1>1, <1>2, <1>3, <2>2 DEF ConsumerWindow, Slot
<1>8. QED
    BY <1>4, <1>6, <1>7 DEF RingInv

LEMMA InvPopAdvance ==
    ASSUME RingInv, TypeOK', PopAdvance
    PROVE  RingInv'
<1> USE CapacityAssumption
<1> USE DEF PopAdvance, cells, producerVars, observerVars
<1>1. /\ head' = ch + 1 /\ tail' = tail /\ t' = t /\ h' = h /\ pc' = pc
      /\ state' = state /\ cpc = "advance" /\ cpc' = "idle"
      /\ opc' = opc /\ oh' = oh
    OBVIOUS
<1>2. /\ ch = head /\ head \in Nat /\ tail \in Nat /\ head < tail
      /\ tail - head <= Capacity
      /\ \A r \in Producer : ~ Pending(r, head)
      /\ state[Slot(head)] = "Empty"
    BY <1>1 DEF RingInv, ConsumerWindow, TypeOK, CapacityRespected
<1>3. t \in [Producer -> Nat] /\ h \in [Producer -> Nat] /\ oh \in Nat
    BY DEF RingInv, TypeOK
<1>4. \A r \in Producer : \A i : Pending(r, i)' <=> Pending(r, i)
    BY <1>1 DEF Pending
<1>5. CapacityRespected'
    BY <1>1, <1>2, <1>3 DEF RingInv, CapacityRespected
<1>6. StaleReads'
    BY <1>1, <1>2, <1>3 DEF RingInv, StaleReads
<1>7. Ownership'
  <2>1. \A r \in Producer : Claimed(r) => t[r] # head
      BY <1>2 DEF Claimed, Pending
  <2>2. QED
      BY <1>1, <1>2, <1>3, <2>1 DEF RingInv, Ownership, Claimed
<1>8. ReadySlots'
  <2> SUFFICES ASSUME NEW i \in head' .. head' + Capacity - 1,
                      state[Slot(i)] = "Ready"
               PROVE  i < tail /\ \A r \in Producer : ~ Pending(r, i)
      BY <1>1, <1>4 DEF ReadySlots, Slot
  <2>1. i # head + Capacity
      BY <1>2, SlotReused
  <2>2. i \in head .. head + Capacity - 1
      BY <1>1, <1>2, <2>1
  <2>3. QED
      BY <2>2 DEF RingInv, ReadySlots
<1>9. ConsumerWindow'
    BY <1>1 DEF ConsumerWindow
<1>10. QED
    BY <1>5, <1>6, <1>7, <1>8, <1>9 DEF RingInv

LEMMA InvClear ==
    ASSUME RingInv, TypeOK', Clear
    PROVE  RingInv'
<1> USE CapacityAssumption
<1> USE DEF Clear, producerVars, observerVars
<1>1. /\ head' = 0 /\ tail' = 0 /\ pc' = pc /\ cpc' = cpc /\ opc' = opc
      /\ state' = [s \in Slots |-> "Empty"]
      /\ cpc = "idle" /\ opc = "idle"
      /\ \A p \in Producer : pc[p] = "idle"
    OBVIOUS
<1>2. CapacityRespected' /\ StaleReads' /\ Ownership' /\ ConsumerWindow'
    BY <1>1 DEF CapacityRespected, StaleReads, Ownership, Claimed, ConsumerWindow
<1>3. ReadySlots'
  <2>1. \A i \in 0 .. Capacity - 1 : Slot(i) \in Slots
      BY SlotInRange
  <2>2. \A i \in 0 .. Capacity - 1 : state'[Slot(i)] # "Ready"
      BY <1>1, <2>1
  <2>3. QED
      BY <1>1, <2>2 DEF ReadySlots, Slot
<1>4. QED
    BY <1>2, <1>3 DEF RingInv

LEMMA InvEmpty ==
    ASSUME RingInv, TypeOK', EmptyLoadHead \/ EmptyLoadTail
    PROVE  RingInv'
<1> USE DEF EmptyLoadHead, EmptyLoadTail, counters, cells, producerVars,
            consumerVars
<1>1. /\ head' = head /\ tail' = tail /\ t' = t /\ h' = h /\ pc' = pc
      /\ state' = state /\ cpc' = cpc /\ ch' = ch
      /\ opc' = "loadTail" => oh' = head
    OBVIOUS
<1>2. \A r \in Producer : \A i : Pending(r, i)' <=> Pending(r, i)
    BY <1>1 DEF Pending
<1>3. CapacityRespected' /\ StaleReads' /\ Ownership'
    BY <1>1 DEF RingInv, TypeOK, CapacityRespected, StaleReads, Ownership, Claimed
<1>4. ReadySlots' /\ ConsumerWindow'
    BY <1>1, <1>2 DEF RingInv, ReadySlots, ConsumerWindow, Slot
<1>5. QED
    BY <1>3, <1>4 DEF RingInv

LEMMA InvStep == RingInv /\ [Next]_vars => RingInv'
<1> SUFFICES ASSUME RingInv, [Next]_vars
             PROVE  RingInv'
    OBVIOUS
<1>1. TypeOK'
    BY TypeStep DEF RingInv
<1>2. ASSUME NEW p \in Producer, Call(p) \/ TryPush(p)
      PROVE  RingInv'
    BY <1>1, <1>2, InvReadStep, InvClaim, InvWrite, InvPublish DEF TryPush
<1>3. CASE TryPop
    BY <1>1, <1>3, InvPopRead, InvPopRelease, InvPopAdvance DEF TryPop
<1>4. CASE Clear
    BY <1>1, <1>4, InvClear
<1>5. CASE EmptyLoadHead \/ EmptyLoadTail
    BY <1>1, <1>5, InvEmpty
<1>6. CASE UNCHANGED vars
  <2>1. /\ head' = head /\ tail' = tail /\ t' = t /\ h' = h /\ pc' = pc
        /\ state' = state /\ cpc' = cpc /\ ch' = ch /\ opc' = opc /\ oh' = oh
      BY <1>6 DEF vars, counters, cells, producerVars, consumerVars, observerVars
  <2>2. QED
      BY <1>1, <2>1
      DEF RingInv, CapacityRespected, StaleReads, Ownership, Claimed, ReadySlots,
          ConsumerWindow, Pending, Slot
<1>7. QED
    BY <1>2, <1>3, <1>4, <1>5, <1>6 DEF Next

\* The inductive invariant holds in every reachable state.
THEOREM RingInvariant == Spec => []RingInv
<1>1. QED
    BY InvInit, InvStep, PTL DEF Spec

-----------------------------------------------------------------------------
(* What follows from it *)

\* The counters never cross and never span more than Capacity tickets, whatever
\* the age of the head a producer compared with.
THEOREM CounterSafety == Spec => []CapacityRespected
<1>1. RingInv => CapacityRespected
    BY DEF RingInv
<1>2. QED
    BY <1>1, RingInvariant, PTL

LEMMA InvNoRace == RingInv => NoDataRace
<1> USE CapacityAssumption
<1> SUFFICES ASSUME RingInv
             PROVE  NoDataRace
    OBVIOUS
<1>1. /\ head \in Nat /\ tail \in Nat /\ tail - head <= Capacity
      /\ t \in [Producer -> Nat]
    BY DEF RingInv, TypeOK, CapacityRespected
<1>2. \A i, j \in Nat :
         head <= i /\ i < tail /\ head <= j /\ j < tail /\ i # j => Slot(i) # Slot(j)
  <2> SUFFICES ASSUME NEW i \in Nat, NEW j \in Nat,
                      head <= i, i < tail, head <= j, j < tail, i # j
               PROVE  Slot(i) # Slot(j)
      OBVIOUS
  <2>1. CASE i < j
      BY <1>1, <2>1, SlotDistinct
  <2>2. CASE j < i
      BY <1>1, <2>2, SlotDistinct
  <2>3. QED
      BY <2>1, <2>2
<1>3. ASSUME NEW p \in Producer, NEW r \in Producer,
             p # r, pc[p] = "write", pc[r] = "write"
      PROVE  Slot(t[p]) # Slot(t[r])
    BY <1>1, <1>2, <1>3 DEF RingInv, Ownership, Claimed
<1>4. ASSUME NEW p \in Producer, pc[p] = "write", cpc = "move"
      PROVE  Slot(t[p]) # Slot(ch)
  <2>1. ch = head /\ head < tail /\ t[p] # head
      BY <1>4 DEF RingInv, ConsumerWindow, Pending
  <2>2. head <= t[p] /\ t[p] < tail
      BY <1>4 DEF RingInv, Ownership, Claimed
  <2>3. QED
      BY <1>1, <1>2, <2>1, <2>2
<1>5. QED
    BY <1>3, <1>4 DEF NoDataRace

\* Producers and the consumer never touch the same cell value at once: the
\* state flag and the counters are enough synchronisation, for every capacity.
THEOREM RaceFreedom == Spec => []NoDataRace
<1>1. QED
    BY InvNoRace, RingInvariant, PTL

\* A "true" of empty() was the truth at its second load.
THEOREM EmptyIsSound == Spec => EmptyMeansEmpty
<1>1. RingInv => (opc = "loadTail" /\ opc' = "idle" /\ EmptyAnswer => head = tail)
    BY DEF RingInv, TypeOK, CapacityRespected, StaleReads, EmptyAnswer
<1>2. QED
    BY <1>1, RingInvariant, PTL DEF EmptyMeansEmpty

-----------------------------------------------------------------------------
(* What the cells hold *)

\* A call has a number and a value of its own.
Called ==
    \A p \in Producer : pc[p] # "idle" =>
        calls[p] > 0 /\ val[p] \in Values /\ val[p].from = p

\* A claimed and published ticket has a Ready cell until the consumer releases it,
\* and a producer about to publish has written its value.
Cells ==
    /\ \A i \in head .. tail - 1 :
          (\A p \in Producer : ~ Pending(p, i)) =>
              state[Slot(i)] = "Ready" \/ (cpc = "advance" /\ i = head)
    /\ \A p \in Producer : pc[p] = "publish" => value[Slot(t[p])] = val[p]

\* What a producer may conclude from the two counters it loaded: a full buffer
\* is noted in its call, and a head that is out of date has been passed by
\* another producer's tail.
Alone(p) == \A r \in Producer \ {p} : calls[r] = 0

Refusals ==
    /\ \A p \in Producer : pc[p] \in {"loadHead", "loadTail", "cas"} /\ Full => wasFull[p]
    /\ \A p \in Producer : pc[p] = "loadTail" /\ ~ wasFull[p] /\ Alone(p)
                              => tail - h[p] < Capacity

\* A finished push that waited when the consumer's call began waits still.
Backlog == cpc = "check" /\ backlog => head < tail

CellInv == Called /\ Cells /\ Refusals /\ Backlog

LEMMA WindowSlots ==
    ASSUME RingInv, NEW i \in head .. tail - 1, NEW j \in head .. tail - 1, i # j
    PROVE  Slot(i) # Slot(j) /\ Slot(i) \in Slots /\ Slot(j) \in Slots
<1> USE CapacityAssumption
<1>1. /\ head \in Nat /\ tail \in Nat /\ tail - head <= Capacity
      /\ i \in Nat /\ j \in Nat
    BY DEF RingInv, TypeOK, CapacityRespected
<1>2. CASE i < j
    BY <1>1, <1>2, SlotDistinct, SlotInRange
<1>3. CASE j < i
    BY <1>1, <1>3, SlotDistinct, SlotInRange
<1>4. QED
    BY <1>1, <1>2, <1>3

LEMMA CalledStep ==
    ASSUME RingInv, Called, [Next]_vars
    PROVE  Called'
<1> USE DEF Called
<1>1. ASSUME NEW p \in Producer, Call(p)
      PROVE  Called'
  <2>1. calls[p] + 1 \in 1 .. MaxCalls /\ calls[p] \in Nat
      BY <1>1, BoundAssumption DEF Call, RingInv, TypeOK
  <2>2. [from |-> p, n |-> calls[p] + 1] \in Values
      BY <2>1 DEF Values
  <2>3. /\ calls'[p] = calls[p] + 1 /\ val'[p] = [from |-> p, n |-> calls[p] + 1]
        /\ \A r \in Producer : r # p =>
              pc'[r] = pc[r] /\ calls'[r] = calls[r] /\ val'[r] = val[r]
      BY <1>1 DEF Call, RingInv, TypeOK
  <2>4. QED
      BY <2>1, <2>2, <2>3
<1>2. ASSUME NEW p \in Producer, TryPush(p)
      PROVE  Called'
  <2>1. /\ calls' = calls /\ val' = val /\ pc[p] # "idle"
        /\ \A r \in Producer : r # p => pc'[r] = pc[r]
      BY <1>2 DEF TryPush, LoadHead, LoadTail, Claim, Retry, Write, PublishCell, RingInv,
                  TypeOK
  <2>2. QED
      BY <2>1
<1>3. CASE TryPop \/ Clear \/ EmptyLoadHead \/ EmptyLoadTail \/ UNCHANGED vars
  <2>1. UNCHANGED <<pc, calls, val>>
      BY <1>3 DEF TryPop, PopLoadHead, PopCheck, PopMove, PopRelease, PopAdvance, Clear,
                  EmptyLoadHead, EmptyLoadTail, vars, producerVars
  <2>2. QED
      BY <2>1
<1>4. QED
    BY <1>1, <1>2, <1>3 DEF Next

\* Between its claim and its publication a ticket is nobody's but its producer's.
LEMMA CellsStep ==
    ASSUME RingInv, RingInv', Cells, [Next]_vars
    PROVE  Cells'
<1> USE CapacityAssumption
<1>t. /\ head \in Nat /\ tail \in Nat /\ head <= tail
      /\ t \in [Producer -> Nat] /\ ch \in Nat
      /\ state \in [Slots -> {"Empty", "Ready"}]
      /\ value \in [Slots -> Values \cup {NoValue}]
      /\ DOMAIN pc = Producer
    BY DEF RingInv, TypeOK, CapacityRespected
<1>w. \A p \in Producer : Claimed(p) => t[p] \in head .. tail - 1
    BY <1>t DEF RingInv, Ownership
<1>1. CASE UNCHANGED <<head, tail, state, value, pc, t, val, cpc>>
    BY <1>1 DEF Cells, Pending, Slot
<1>2. ASSUME NEW p \in Producer, Call(p) \/ LoadHead(p) \/ LoadTail(p) \/ Retry(p)
      PROVE  Cells'
  <2>1. /\ UNCHANGED <<head, tail, state, value, cpc>>
        /\ pc[p] \notin {"write", "publish"} /\ pc'[p] \notin {"write", "publish"}
        /\ \A r \in Producer : r # p => pc'[r] = pc[r] /\ t'[r] = t[r] /\ val'[r] = val[r]
      BY <1>t, <1>2 DEF Call, LoadHead, LoadTail, Retry, counters, cells, consumerVars,
                        RingInv, TypeOK
  <2>2. \A r \in Producer : \A i : Pending(r, i)' <=> Pending(r, i)
      BY <2>1 DEF Pending
  <2>3. QED
      BY <2>1, <2>2 DEF Cells, Slot
<1>3. ASSUME NEW p \in Producer, Claim(p)
      PROVE  Cells'
  <2>1. /\ UNCHANGED <<head, state, value, cpc, t, val>> /\ tail' = tail + 1 /\ t[p] = tail
        /\ pc'[p] = "write" /\ pc[p] = "cas"
        /\ \A r \in Producer : r # p => pc'[r] = pc[r]
      BY <1>t, <1>3 DEF Claim, counters, cells, consumerVars
  <2>2. \A r \in Producer : \A i : Pending(r, i)' <=> Pending(r, i) \/ (r = p /\ i = tail)
      BY <2>1 DEF Pending
  <2>3. \A i \in head .. tail : i # tail => i \in head .. tail - 1
      BY <1>t
  <2>4. tail' - 1 = tail
      BY <1>t, <2>1
  <2>5. QED
      BY <2>1, <2>2, <2>3, <2>4 DEF Cells, Slot
<1>4. ASSUME NEW p \in Producer, Write(p)
      PROVE  Cells'
  <2>1. /\ UNCHANGED <<head, tail, state, cpc, t, val>>
        /\ value' = [value EXCEPT ![Slot(t[p])] = val[p]]
        /\ pc'[p] = "publish" /\ pc[p] = "write"
        /\ \A r \in Producer : r # p => pc'[r] = pc[r]
      BY <1>t, <1>4 DEF Write, counters, consumerVars
  <2>2. \A r \in Producer : \A i : Pending(r, i)' <=> Pending(r, i)
      BY <2>1 DEF Pending
  <2>3. ASSUME NEW r \in Producer, r # p, pc[r] = "publish"
        PROVE  Slot(t[r]) # Slot(t[p]) /\ Slot(t[r]) \in Slots
    <3>1. t[r] # t[p]
        BY <2>1, <2>3 DEF RingInv, Ownership, Claimed
    <3>2. QED
        BY <1>w, <2>1, <2>3, <3>1, WindowSlots DEF Claimed
  <2>4. Slot(t[p]) \in Slots
      BY <1>t, SlotInRange
  <2>5. \A r \in Producer : pc'[r] = "publish" => value'[Slot(t[r])] = val[r]
      BY <1>t, <2>1, <2>3, <2>4 DEF Cells
  <2>6. QED
      BY <2>1, <2>2, <2>5 DEF Cells, Slot
<1>5. ASSUME NEW p \in Producer, PublishCell(p)
      PROVE  Cells'
  <2>1. /\ UNCHANGED <<head, tail, value, cpc, t, val>>
        /\ state' = [state EXCEPT ![Slot(t[p])] = "Ready"]
        /\ pc'[p] = "idle" /\ pc[p] = "publish"
        /\ \A r \in Producer : r # p => pc'[r] = pc[r]
      BY <1>t, <1>5 DEF PublishCell, counters, consumerVars
  <2>2. \A r \in Producer : \A i : Pending(r, i)' <=> Pending(r, i) /\ r # p
      BY <2>1 DEF Pending
  <2>3. \A i \in head .. tail - 1 : i \in Nat /\ Slot(i) \in Slots
      BY <1>t, SlotInRange
  <2>4. ASSUME NEW i \in head .. tail - 1, \A r \in Producer : ~ Pending(r, i)'
        PROVE  state'[Slot(i)] = "Ready" \/ (cpc = "advance" /\ i = head)
    <3>1. CASE i = t[p]
        BY <1>t, <2>1, <2>3, <3>1
    <3>2. CASE i # t[p]
      <4>1. ~ Pending(p, i)
          BY <3>2 DEF Pending
      <4>2. state[Slot(i)] = "Ready" \/ (cpc = "advance" /\ i = head)
          BY <2>2, <2>4, <4>1 DEF Cells
      <4>3. QED
          BY <1>t, <2>1, <2>3, <4>2
    <3>3. QED
        BY <3>1, <3>2
  <2>5. QED
      BY <2>1, <2>4 DEF Cells, Slot
<1>6. CASE PopMove
  <2>1. /\ UNCHANGED <<head, tail, state, pc, t, val>>
        /\ value' = [value EXCEPT ![Slot(ch)] = NoValue]
        /\ cpc = "move" /\ cpc' = "release"
      BY <1>6 DEF PopMove, counters, producerVars
  <2>2. \A r \in Producer : \A i : Pending(r, i)' <=> Pending(r, i)
      BY <2>1 DEF Pending
  <2>3. ch = head /\ head < tail /\ \A r \in Producer : ~ Pending(r, head)
      BY <2>1 DEF RingInv, ConsumerWindow
  <2>4. head \in head .. tail - 1
      BY <1>t, <2>3
  <2>5. ASSUME NEW r \in Producer, pc[r] = "publish"
        PROVE  Slot(t[r]) # Slot(head) /\ Slot(t[r]) \in Slots
    <3>1. t[r] # head
        BY <2>3, <2>5 DEF Pending
    <3>2. QED
        BY <1>w, <2>4, <2>5, <3>1, WindowSlots DEF Claimed
  <2>6. \A r \in Producer : pc[r] = "publish" => value'[Slot(t[r])] = val[r]
      BY <1>t, <2>1, <2>3, <2>5 DEF Cells
  <2>7. QED
      BY <2>1, <2>2, <2>6 DEF Cells, Slot
<1>7. CASE PopRelease
  <2>1. /\ UNCHANGED <<head, tail, value, pc, t, val>>
        /\ state' = [state EXCEPT ![Slot(ch)] = "Empty"]
        /\ cpc = "release" /\ cpc' = "advance"
      BY <1>7 DEF PopRelease, counters, producerVars
  <2>2. \A r \in Producer : \A i : Pending(r, i)' <=> Pending(r, i)
      BY <2>1 DEF Pending
  <2>3. ch = head /\ head < tail
      BY <2>1 DEF RingInv, ConsumerWindow
  <2>4. ASSUME NEW i \in head .. tail - 1, i # head
        PROVE  state'[Slot(i)] = state[Slot(i)]
    <3>1. head \in head .. tail - 1
        BY <1>t, <2>3
    <3>2. QED
        BY <1>t, <2>1, <2>3, <2>4, <3>1, WindowSlots
  <2>5. QED
      BY <2>1, <2>2, <2>4 DEF Cells, Slot
<1>8. CASE PopAdvance
  <2>1. /\ UNCHANGED <<tail, state, value, pc, t, val>>
        /\ head' = head + 1 /\ cpc = "advance"
      BY <1>8 DEF PopAdvance, cells, producerVars, RingInv, ConsumerWindow
  <2>2. \A r \in Producer : \A i : Pending(r, i)' <=> Pending(r, i)
      BY <2>1 DEF Pending
  <2>3. \A i \in head' .. tail - 1 : i \in head .. tail - 1 /\ i # head
      BY <1>t, <2>1
  <2>4. QED
      BY <2>1, <2>2, <2>3 DEF Cells, Slot
<1>9. CASE PopLoadHead \/ PopCheck
  <2>1. UNCHANGED <<head, tail, state, value, pc, t, val>> /\ cpc \in {"idle", "check"}
      BY <1>9 DEF PopLoadHead, PopCheck, counters, cells, producerVars
  <2>2. \A r \in Producer : \A i : Pending(r, i)' <=> Pending(r, i)
      BY <2>1 DEF Pending
  <2>3. QED
      BY <2>1, <2>2 DEF Cells, Slot
<1>10. CASE Clear
  <2>1. head' = 0 /\ tail' = 0 /\ \A r \in Producer : pc'[r] = "idle"
      BY <1>10 DEF Clear, producerVars
  <2>2. \A i \in head' .. tail' - 1 : FALSE
      BY <2>1
  <2>3. QED
      BY <2>1, <2>2 DEF Cells
<1>11. CASE EmptyLoadHead \/ EmptyLoadTail \/ UNCHANGED vars
    BY <1>1, <1>11 DEF EmptyLoadHead, EmptyLoadTail, vars, counters, cells, producerVars,
                       consumerVars
<1>12. QED
    BY <1>2, <1>3, <1>4, <1>5, <1>6, <1>7, <1>8, <1>9, <1>10, <1>11
    DEF Next, TryPush, TryPop

LEMMA RefusalsStep ==
    ASSUME RingInv, RingInv', Called, Refusals, [Next]_vars
    PROVE  Refusals'
<1> USE CapacityAssumption
<1>t. /\ head \in Nat /\ tail \in Nat /\ head <= tail
      /\ t \in [Producer -> Nat] /\ h \in [Producer -> Nat]
      /\ wasFull \in [Producer -> BOOLEAN] /\ calls \in [Producer -> 0 .. MaxCalls]
      /\ DOMAIN pc = Producer
    BY DEF RingInv, TypeOK, CapacityRespected
<1>1. ASSUME NEW p \in Producer, Call(p)
      PROVE  Refusals'
  <2>1. /\ head' = head /\ tail' = tail /\ h' = h
        /\ pc'[p] = "loadHead" /\ wasFull'[p] = Full
        /\ \A r \in Producer : r # p => pc'[r] = pc[r] /\ wasFull'[r] = wasFull[r]
      BY <1>1, <1>t DEF Call, counters
  <2>2. calls' = [calls EXCEPT ![p] = calls[p] + 1]
      BY <1>1 DEF Call
  <2>3. \A r \in Producer : calls'[r] = 0 => calls[r] = 0
      BY <1>t, <2>2
  <2>4. \A r \in Producer : Alone(r)' => Alone(r)
      BY <2>3 DEF Alone
  <2>5. \A r \in Producer : pc'[r] \in {"loadHead", "loadTail", "cas"} /\ Full => wasFull'[r]
      BY <2>1 DEF Refusals
  <2>6. \A r \in Producer : pc'[r] = "loadTail" /\ ~ wasFull'[r] /\ Alone(r)'
                              => tail - h[r] < Capacity
      BY <2>1, <2>4 DEF Refusals
  <2>7. QED
      BY <2>1, <2>5, <2>6 DEF Refusals, Full
<1>2. ASSUME NEW p \in Producer, LoadHead(p)
      PROVE  Refusals'
  <2>1. /\ UNCHANGED <<head, tail, wasFull, calls>> /\ h'[p] = head
        /\ pc[p] = "loadHead" /\ pc'[p] = "loadTail"
        /\ \A r \in Producer : r # p => pc'[r] = pc[r] /\ h'[r] = h[r]
      BY <1>2, <1>t DEF LoadHead, counters
  <2>2. ~ wasFull[p] => tail - head < Capacity
      BY <1>t, <2>1 DEF Refusals, Full
  <2>3. QED
      BY <2>1, <2>2 DEF Refusals, Full, Alone
<1>3. ASSUME NEW p \in Producer, LoadTail(p) \/ Retry(p)
      PROVE  Refusals'
  <2>1. /\ UNCHANGED <<head, tail, wasFull, calls, h>>
        /\ pc[p] \in {"loadTail", "cas"} /\ pc'[p] \in {"idle", "loadHead", "cas"}
        /\ \A r \in Producer : r # p => pc'[r] = pc[r]
      BY <1>3, <1>t DEF LoadTail, Retry, counters
  <2>2. QED
      BY <2>1 DEF Refusals, Full, Alone
<1>4. ASSUME NEW p \in Producer, Claim(p)
      PROVE  Refusals'
  <2>1. /\ UNCHANGED <<head, calls, h>> /\ tail' = tail + 1 /\ t[p] = tail
        /\ pc[p] = "cas" /\ pc'[p] = "write"
        /\ wasFull' = [r \in Producer |-> wasFull[r] \/ tail + 1 - head >= Capacity]
        /\ \A r \in Producer : r # p => pc'[r] = pc[r]
      BY <1>4, <1>t DEF Claim
  <2>2. calls[p] > 0
      BY <2>1 DEF Called
  <2>3. \A r \in Producer : r # p => ~ Alone(r)'
      BY <2>1, <2>2 DEF Alone
  <2>4. \A r \in Producer : Full' => wasFull'[r]
    <3>1. tail' = tail + 1 /\ head' = head
        BY <2>1
    <3>2. Full' => tail + 1 - head >= Capacity
        BY <1>t, <3>1 DEF Full
    <3>3. QED
        BY <2>1, <3>2, Zenon
  <2>5. QED
      BY <2>1, <2>3, <2>4 DEF Refusals
<1>5. ASSUME NEW p \in Producer, Write(p) \/ PublishCell(p)
      PROVE  Refusals'
  <2>1. /\ UNCHANGED <<head, tail, wasFull, calls, h>>
        /\ pc'[p] \in {"idle", "publish"}
        /\ \A r \in Producer : r # p => pc'[r] = pc[r]
      BY <1>5, <1>t DEF Write, PublishCell, counters
  <2>2. QED
      BY <2>1 DEF Refusals, Full, Alone
<1>6. CASE PopLoadHead \/ PopCheck \/ PopMove \/ PopRelease \/ EmptyLoadHead
             \/ EmptyLoadTail \/ UNCHANGED vars
  <2>1. UNCHANGED <<head, tail, wasFull, calls, h, pc>>
      BY <1>6 DEF PopLoadHead, PopCheck, PopMove, PopRelease, EmptyLoadHead, EmptyLoadTail,
                  vars, counters, producerVars
  <2>2. QED
      BY <2>1 DEF Refusals, Full, Alone
<1>7. CASE PopAdvance
  <2>1. UNCHANGED <<tail, wasFull, calls, h, pc>> /\ head' = head + 1
      BY <1>7 DEF PopAdvance, producerVars, RingInv, ConsumerWindow
  <2>2. Full' => Full
      BY <1>t, <2>1 DEF Full
  <2>3. QED
      BY <2>1, <2>2 DEF Refusals, Alone
<1>8. CASE Clear
  <2>1. \A r \in Producer : pc'[r] = "idle"
      BY <1>8 DEF Clear, producerVars
  <2>2. QED
      BY <2>1 DEF Refusals
<1>9. QED
    BY <1>1, <1>2, <1>3, <1>4, <1>5, <1>6, <1>7, <1>8 DEF Next, TryPush, TryPop

LEMMA BacklogStep ==
    ASSUME RingInv, Backlog, [Next]_vars
    PROVE  Backlog'
<1>t. head \in Nat /\ tail \in Nat
    BY DEF RingInv, TypeOK
<1>1. CASE PopLoadHead
  <2>1. backlog' => \E i \in head .. tail - 1 : TRUE
      BY <1>1 DEF PopLoadHead
  <2>2. backlog' => head < tail
      BY <1>t, <2>1
  <2>3. QED
      BY <1>1, <2>2 DEF PopLoadHead, Backlog, counters
<1>2. CASE PopCheck \/ PopMove \/ PopRelease \/ PopAdvance \/ Clear
    BY <1>2 DEF PopCheck, PopMove, PopRelease, PopAdvance, Clear, Backlog
<1>3. ASSUME NEW p \in Producer, Claim(p)
      PROVE  Backlog'
  <2>1. tail' = tail + 1 /\ head' = head /\ cpc' = cpc /\ backlog' = backlog
      BY <1>3 DEF Claim, consumerVars
  <2>2. QED
      BY <1>t, <2>1 DEF Backlog
<1>4. ASSUME NEW p \in Producer,
             Call(p) \/ LoadHead(p) \/ LoadTail(p) \/ Retry(p) \/ Write(p) \/ PublishCell(p)
      PROVE  Backlog'
  <2>1. UNCHANGED <<head, tail, cpc, backlog>>
      BY <1>4 DEF Call, LoadHead, LoadTail, Retry, Write, PublishCell, counters,
                  consumerVars
  <2>2. QED
      BY <2>1 DEF Backlog
<1>5. CASE EmptyLoadHead \/ EmptyLoadTail \/ UNCHANGED vars
    BY <1>5 DEF EmptyLoadHead, EmptyLoadTail, vars, counters, consumerVars, Backlog
<1>6. QED
    BY <1>1, <1>2, <1>3, <1>4, <1>5 DEF Next, TryPush, TryPop

LEMMA CellInvariant == Spec => [](RingInv /\ CellInv)
<1>1. Init => CellInv
  <2> SUFFICES ASSUME Init
               PROVE  CellInv
      OBVIOUS
  <2>1. \A i \in head .. tail - 1 : FALSE
      BY DEF Init
  <2>2. QED
      BY <2>1 DEF Init, CellInv, Called, Cells, Refusals, Backlog
<1>2. RingInv /\ RingInv' /\ CellInv /\ [Next]_vars => CellInv'
    BY CalledStep, CellsStep, RefusalsStep, BacklogStep DEF CellInv
<1>3. QED
    BY <1>1, <1>2, RingInvariant, PTL DEF Spec

\* A push is refused only if the buffer was full during the call, or the
\* consumer has freed a slot since and another producer is at work.
THEOREM RefusalIsExplained == Spec => RefusalExplained
<1>1. RingInv /\ CellInv /\ [Next]_vars
        => [\A p \in Producer : pc[p] = "loadTail" /\ pc'[p] = "idle"
              => wasFull[p]
                 \/ (h[p] < head /\ \E r \in Producer \ {p} : calls[r] > 0)]_vars
  <2> SUFFICES ASSUME RingInv, CellInv, [Next]_vars,
                      NEW p \in Producer, pc[p] = "loadTail", pc'[p] = "idle",
                      ~ wasFull[p]
               PROVE  h[p] < head /\ \E r \in Producer \ {p} : calls[r] > 0
      OBVIOUS
  <2> USE CapacityAssumption
  <2>1. /\ head \in Nat /\ tail \in Nat /\ h[p] \in Nat /\ h[p] <= head
        /\ calls \in [Producer -> 0 .. MaxCalls] /\ DOMAIN pc = Producer
      BY DEF RingInv, TypeOK, CapacityRespected
  <2>2. LoadTail(p)
    <3>1. ASSUME NEW r \in Producer, Call(r) \/ TryPush(r), r # p
          PROVE  FALSE
      <4>1. pc'[p] = pc[p]
          BY <2>1, <3>1 DEF Call, TryPush, LoadHead, LoadTail, Claim, Retry, Write,
                            PublishCell
      <4>2. QED
          BY <4>1
    <3>2. CASE TryPop \/ Clear \/ EmptyLoadHead \/ EmptyLoadTail \/ UNCHANGED vars
      <4>1. pc' = pc
          BY <3>2 DEF TryPop, PopLoadHead, PopCheck, PopMove, PopRelease, PopAdvance, Clear,
                      EmptyLoadHead, EmptyLoadTail, vars, producerVars
      <4>2. QED
          BY <4>1
    <3>3. CASE Call(p) \/ TryPush(p)
        BY <2>1, <3>3 DEF Call, TryPush, LoadHead, LoadTail, Claim, Retry, Write,
                          PublishCell
    <3>4. QED
        BY <3>1, <3>2, <3>3 DEF Next
  <2>3. tail - h[p] >= Capacity
      BY <2>1, <2>2 DEF LoadTail
  <2>4. h[p] # head
      BY <2>1, <2>3 DEF CellInv, Refusals, Full
  <2>5. ~ Alone(p)
      BY <2>1, <2>3 DEF CellInv, Refusals
  <2>6. QED
      BY <2>1, <2>4, <2>5 DEF Alone
<1>2. QED
    BY <1>1, CellInvariant, PTL DEF Spec, RefusalExplained

\* try_pop misses a finished push only behind a producer that has claimed the
\* oldest ticket and not yet published it.
THEOREM MissOnlyBehindGap == Spec => FalseOnlyBehindGap
<1>1. RingInv /\ CellInv /\ [Next]_vars
        => [cpc = "check" /\ cpc' = "idle" /\ backlog
              => \E p \in Producer : Pending(p, head)]_vars
  <2> SUFFICES ASSUME RingInv, CellInv, [Next]_vars,
                      cpc = "check", cpc' = "idle", backlog
               PROVE  \E p \in Producer : Pending(p, head)
      OBVIOUS
  <2>1. ch = head /\ head \in Nat /\ tail \in Nat /\ head < tail
      BY DEF RingInv, TypeOK, ConsumerWindow, CellInv, Backlog
  <2>2. PopCheck
    <3>1. CASE \E p \in Producer : Call(p) \/ TryPush(p)
      <4>1. cpc' = cpc
          BY <3>1 DEF Call, TryPush, LoadHead, LoadTail, Claim, Retry, Write, PublishCell,
                      consumerVars
      <4>2. QED
          BY <4>1
    <3>2. CASE TryPop \/ Clear \/ EmptyLoadHead \/ EmptyLoadTail \/ UNCHANGED vars
        BY <3>2 DEF TryPop, PopLoadHead, PopCheck, PopMove, PopRelease, PopAdvance, Clear,
                    EmptyLoadHead, EmptyLoadTail, vars, consumerVars
    <3>3. QED
        BY <3>1, <3>2 DEF Next
  <2>3. state[Slot(head)] # "Ready"
      BY <2>1, <2>2 DEF PopCheck
  <2>4. head \in head .. tail - 1
      BY <2>1
  <2>5. QED
      BY <2>3, <2>4 DEF CellInv, Cells
<1>2. QED
    BY <1>1, CellInvariant, PTL DEF Spec, FalseOnlyBehindGap
-----------------------------------------------------------------------------
(* Sequences given by their elements *)

LEMMA AsSeq ==
    ASSUME NEW m \in Nat, NEW q, q = [k \in 1 .. m |-> q[k]]
    PROVE  q \in Seq({q[k] : k \in 1 .. m}) /\ Len(q) = m /\ DOMAIN q = 1 .. m
<1>1. q \in [1 .. m -> {q[k] : k \in 1 .. m}]
    OBVIOUS
<1>2. QED
    BY <1>1

LEMMA AsAppend ==
    ASSUME NEW m \in Nat, NEW q, q = [k \in 1 .. m |-> q[k]],
           NEW r, r = [k \in 1 .. m + 1 |-> r[k]],
           \A k \in 1 .. m : r[k] = q[k]
    PROVE  r = Append(q, r[m + 1])
<1> DEFINE S == {r[k] : k \in 1 .. m + 1}
<1>1. 1 .. m \subseteq 1 .. m + 1 /\ m + 1 \in 1 .. m + 1 /\ m + 1 \in Nat
    OBVIOUS
<1>2. r \in Seq(S) /\ Len(r) = m + 1 /\ r[m + 1] \in S
    BY <1>1, AsSeq
<1>3. q \in [1 .. m -> S]
    BY <1>1
<1> HIDE DEF S
<1>4. q \in Seq(S) /\ Len(q) = m
    BY <1>3
<1>5. QED
    BY <1>1, <1>2, <1>4, SMTT(30)

LEMMA AsTail ==
    ASSUME NEW m \in Nat, m > 0, NEW q, q = [k \in 1 .. m |-> q[k]],
           NEW r, r = [k \in 1 .. m - 1 |-> r[k]],
           \A k \in 1 .. m - 1 : r[k] = q[k + 1]
    PROVE  q # <<>> /\ Head(q) = q[1] /\ r = Tail(q)
<1> DEFINE S == {q[k] : k \in 1 .. m}
<1>1. m - 1 \in Nat /\ \A k \in 1 .. m - 1 : k + 1 \in 1 .. m
    OBVIOUS
<1>2. q \in Seq(S) /\ Len(q) = m
    BY AsSeq
<1>3. r \in [1 .. m - 1 -> S]
    BY <1>1
<1> HIDE DEF S
<1>4. r \in Seq(S) /\ Len(r) = m - 1
    BY <1>1, <1>3
<1>5. q # <<>> /\ Head(q) = q[1]
    BY <1>2
<1>6. Tail(q) \in Seq(S) /\ Len(Tail(q)) = m - 1
    BY <1>2, <1>5
<1>7. \A k \in 1 .. m - 1 : Tail(q)[k] = q[k + 1]
    BY <1>2, <1>5
<1>8. r = Tail(q)
  <2>1. Tail(q) = [k \in 1 .. m - 1 |-> Tail(q)[k]]
      BY <1>1, <1>6
  <2>2. QED
      BY <1>7, <2>1
<1>9. QED
    BY <1>5, <1>8

LEMMA MarkReady ==
    ASSUME NEW a, NEW b, NEW c, NEW d
    PROVE  [[from |-> a, val |-> b, ready |-> c] EXCEPT !.ready = d]
             = [from |-> a, val |-> b, ready |-> d]
    OBVIOUS

-----------------------------------------------------------------------------
(* The refinement *)

Held(i) == IF cpc \in {"release", "advance"} /\ i = ch THEN cval ELSE value[Slot(i)]
Unready(p) == [from |-> p, val |-> val[p], ready |-> FALSE]
Ready(v) == [from |-> v.from, val |-> v, ready |-> TRUE]

LEMMA EntryIs ==
    RingInv =>
        \A i \in Nat :
            /\ \A p \in Producer : Pending(p, i) => EntryAt(i) = Unready(p)
            /\ (\A p \in Producer : ~ Pending(p, i)) => EntryAt(i) = Ready(Held(i))
<1> SUFFICES ASSUME RingInv, NEW i \in Nat
             PROVE  /\ \A p \in Producer : Pending(p, i) => EntryAt(i) = Unready(p)
                    /\ (\A p \in Producer : ~ Pending(p, i)) => EntryAt(i) = Ready(Held(i))
    OBVIOUS
<1>1. ASSUME NEW p \in Producer, Pending(p, i)
      PROVE  EntryAt(i) = Unready(p)
  <2>1. PICK r \in Producer :
           Pending(r, i) /\ r = CHOOSE x \in Producer : Pending(x, i)
      BY <1>1
  <2>2. r = p
      BY <1>1, <2>1 DEF Pending, RingInv, Ownership, Claimed
  <2>3. QED
      BY <1>1, <2>1, <2>2 DEF EntryAt, Unready
<1>2. ASSUME \A p \in Producer : ~ Pending(p, i)
      PROVE  EntryAt(i) = Ready(Held(i))
    BY <1>2 DEF EntryAt, Ready, Held
<1>3. QED
    BY <1>1, <1>2

LEMMA EntryIsNext ==
    (RingInv =>
        \A i \in Nat :
            /\ \A p \in Producer : Pending(p, i) => EntryAt(i) = Unready(p)
            /\ (\A p \in Producer : ~ Pending(p, i)) => EntryAt(i) = Ready(Held(i)))'
BY EntryIs, PTL

\* An entry changes only with its ticket's owner or its cell.
LEMMA EntryStays ==
    ASSUME RingInv, RingInv', NEW i \in Nat,
           \A r \in Producer : Pending(r, i)' <=> Pending(r, i),
           \A r \in Producer : Pending(r, i) => val'[r] = val[r],
           (\A r \in Producer : ~ Pending(r, i)) => Held(i)' = Held(i)
    PROVE  EntryAt(i)' = EntryAt(i)
<1>1. CASE \E p \in Producer : Pending(p, i)
  <2>1. PICK p \in Producer : Pending(p, i)
      BY <1>1
  <2>2. EntryAt(i) = Unready(p)
      BY <2>1, EntryIs
  <2>3. EntryAt(i)' = Unready(p)'
      BY <2>1, EntryIsNext
  <2>4. Unready(p)' = Unready(p)
      BY <2>1 DEF Unready
  <2>5. QED
      BY <2>2, <2>3, <2>4
<1>2. CASE \A p \in Producer : ~ Pending(p, i)
  <2>1. EntryAt(i) = Ready(Held(i))
      BY <1>2, EntryIs
  <2>2. EntryAt(i)' = Ready(Held(i))'
      BY <1>2, EntryIsNext
  <2>3. Ready(Held(i))' = Ready(Held(i))
      BY <1>2 DEF Ready
  <2>4. QED
      BY <2>1, <2>2, <2>3
<1>3. QED
    BY <1>1, <1>2

\* The abstract queue, ticket by ticket.
LEMMA QBarIs ==
    RingInv =>
        /\ tail - head \in Nat
        /\ qBar = [k \in 1 .. tail - head |-> qBar[k]]
        /\ \A i \in head .. tail - 1 : \A k \in 1 .. tail - head :
              i = head + k - 1 => qBar[k] = EntryAt(i)
<1> SUFFICES ASSUME RingInv
             PROVE  /\ tail - head \in Nat
                    /\ qBar = [k \in 1 .. tail - head |-> qBar[k]]
                    /\ \A i \in head .. tail - 1 : \A k \in 1 .. tail - head :
                          i = head + k - 1 => qBar[k] = EntryAt(i)
    OBVIOUS
<1>1. tail - head \in Nat
    BY DEF RingInv, TypeOK, CapacityRespected
<1>2. QED
    BY <1>1 DEF qBar

LEMMA QBarIsNext ==
    (RingInv =>
        /\ tail - head \in Nat
        /\ qBar = [k \in 1 .. tail - head |-> qBar[k]]
        /\ \A i \in head .. tail - 1 : \A k \in 1 .. tail - head :
              i = head + k - 1 => qBar[k] = EntryAt(i))'
BY QBarIs, PTL

\* A step that keeps the counters and the entries keeps the queue.
LEMMA QBarStays ==
    ASSUME RingInv, RingInv', head' = head, tail' = tail,
           \A i \in head .. tail - 1 : EntryAt(i)' = EntryAt(i)
    PROVE  qBar' = qBar
<1> DEFINE m == tail - head
<1>1. /\ m \in Nat /\ qBar = [k \in 1 .. m |-> qBar[k]]
      /\ \A i \in head .. tail - 1 : \A k \in 1 .. m :
            i = head + k - 1 => qBar[k] = EntryAt(i)
    BY QBarIs
<1>2. /\ qBar' = [k \in 1 .. m |-> qBar'[k]]
      /\ \A i \in head .. tail - 1 : \A k \in 1 .. m :
            i = head + k - 1 => qBar'[k] = EntryAt(i)'
    BY QBarIsNext
<1>3. ASSUME NEW k \in 1 .. m
      PROVE  qBar'[k] = qBar[k]
  <2>1. PICK i \in head .. tail - 1 : i = head + k - 1
      BY DEF RingInv, TypeOK
  <2>2. QED
      BY <1>1, <1>2, <2>1
<1> HIDE DEF m
<1>4. QED
    BY <1>1, <1>2, <1>3

LEMMA StageIs ==
    \A p \in Producer :
        /\ pc[p] = "idle" => stageBar[p] = "idle"
        /\ pc[p] \in {"write", "publish"} => stageBar[p] = "accepted"
        /\ pc[p] \in {"loadHead", "loadTail", "cas"} => stageBar[p] = "calling"
BY DEF stageBar

LEMMA StageIsNext ==
    (\A p \in Producer :
        /\ pc[p] = "idle" => stageBar[p] = "idle"
        /\ pc[p] \in {"write", "publish"} => stageBar[p] = "accepted"
        /\ pc[p] \in {"loadHead", "loadTail", "cas"} => stageBar[p] = "calling")'
BY StageIs, PTL

\* A step of one producer changes that producer's stage only.
LEMMA StageMoves ==
    ASSUME NEW p \in Producer, NEW u,
           \A r \in Producer : r # p => pc'[r] = pc[r],
           stageBar'[p] = u
    PROVE  stageBar' = [stageBar EXCEPT ![p] = u]
<1>1. stageBar' = [r \in Producer |-> stageBar'[r]]
    BY DEF stageBar
<1>2. stageBar = [r \in Producer |-> stageBar[r]]
    BY DEF stageBar
<1>3. \A r \in Producer : r # p => stageBar'[r] = stageBar[r]
    BY DEF stageBar
<1>4. QED
    BY <1>1, <1>2, <1>3

\* A producer's step that is not its claim or its publication.
LEMMA QueueQuiet ==
    ASSUME RingInv, RingInv', Cells, NEW p \in Producer,
           Call(p) \/ LoadHead(p) \/ LoadTail(p) \/ Retry(p) \/ Write(p)
    PROVE  qBar' = qBar
<1>1. /\ UNCHANGED <<head, tail, cpc, ch, cval>>
      /\ \A r \in Producer : r # p =>
            pc'[r] = pc[r] /\ t'[r] = t[r] /\ val'[r] = val[r]
    BY DEF Call, LoadHead, LoadTail, Retry, Write, counters, consumerVars, RingInv, TypeOK
<1>2. /\ head \in Nat /\ tail \in Nat /\ t[p] \in Nat
      /\ value \in [Slots -> Values \cup {NoValue}]
    BY DEF RingInv, TypeOK
<1>3. \A r \in Producer : \A i : Pending(r, i)' <=> Pending(r, i)
  <2>1. CASE Write(p)
    <3>1. pc[p] = "write" /\ pc'[p] = "publish" /\ t' = t
        BY <2>1 DEF Write, RingInv, TypeOK
    <3>2. QED
        BY <1>1, <3>1 DEF Pending
  <2>2. CASE ~ Write(p)
    <3>1. pc[p] \notin {"write", "publish"} /\ pc'[p] \notin {"write", "publish"}
        BY <2>2 DEF Call, LoadHead, LoadTail, Retry, RingInv, TypeOK
    <3>2. QED
        BY <1>1, <3>1 DEF Pending
  <2>3. QED
      BY <2>1, <2>2
<1>4. \A i : \A r \in Producer : Pending(r, i) => val'[r] = val[r]
  <2>1. CASE Call(p)
      BY <1>1, <2>1 DEF Call, Pending
  <2>2. CASE ~ Call(p)
      BY <2>2 DEF LoadHead, LoadTail, Retry, Write
  <2>3. QED
      BY <2>1, <2>2
<1>5. ASSUME NEW i \in head .. tail - 1, \A r \in Producer : ~ Pending(r, i)
      PROVE  Held(i)' = Held(i)
  <2>1. CASE Write(p)
    <3>1. /\ value' = [value EXCEPT ![Slot(t[p])] = val[p]]
          /\ Claimed(p) /\ Pending(p, t[p])
        BY <2>1 DEF Write, Claimed, Pending
    <3>2. i # t[p]
        BY <1>5, <3>1
    <3>3. t[p] \in head .. tail - 1
        BY <1>2, <3>1 DEF RingInv, Ownership
    <3>4. Slot(i) # Slot(t[p]) /\ Slot(i) \in Slots
        BY <3>2, <3>3, WindowSlots
    <3>5. value'[Slot(i)] = value[Slot(i)]
        BY <1>2, <3>1, <3>4
    <3>6. QED
        BY <1>1, <3>5 DEF Held, Slot
  <2>2. CASE ~ Write(p)
    <3>1. value' = value
        BY <2>2 DEF Call, LoadHead, LoadTail, Retry, cells
    <3>2. QED
        BY <1>1, <3>1 DEF Held, Slot
  <2>3. QED
      BY <2>1, <2>2
<1>6. \A i \in head .. tail - 1 : EntryAt(i)' = EntryAt(i)
  <2>1. \A i \in head .. tail - 1 : i \in Nat
      BY <1>2
  <2>2. QED
      BY <1>3, <1>4, <1>5, <2>1, EntryStays
<1>7. QED
    BY <1>1, <1>6, QBarStays

LEMMA RefineCall ==
    ASSUME RingInv, RingInv', Cells, NEW p \in Producer, Call(p)
    PROVE  Channel!Call(p)
<1>1. qBar' = qBar /\ out' = out
    BY QueueQuiet DEF Call, consumerVars
<1>2. /\ pc[p] = "idle" /\ pc'[p] = "loadHead"
      /\ \A r \in Producer : r # p => pc'[r] = pc[r]
    BY DEF Call, RingInv, TypeOK
<1>3. stageBar[p] = "idle" /\ stageBar'[p] = "calling"
    BY <1>2, StageIs, StageIsNext
<1>4. stageBar' = [stageBar EXCEPT ![p] = "calling"]
    BY <1>2, <1>3, StageMoves
<1>5. QED
    BY <1>1, <1>3, <1>4 DEF Channel!Call

LEMMA RefineRefusal ==
    ASSUME RingInv, RingInv', Cells, NEW p \in Producer, LoadTail(p), pc'[p] = "idle"
    PROVE  Channel!Refuse(p)
<1>1. qBar' = qBar /\ out' = out
    BY QueueQuiet DEF LoadTail, consumerVars
<1>2. /\ pc[p] = "loadTail"
      /\ \A r \in Producer : r # p => pc'[r] = pc[r]
    BY DEF LoadTail, RingInv, TypeOK
<1>3. stageBar[p] = "calling" /\ stageBar'[p] = "idle"
    BY <1>2, StageIs, StageIsNext
<1>4. stageBar' = [stageBar EXCEPT ![p] = "idle"]
    BY <1>2, <1>3, StageMoves
<1>5. QED
    BY <1>1, <1>3, <1>4 DEF Channel!Refuse

LEMMA RefineProducerStutter ==
    ASSUME RingInv, RingInv', Cells, NEW p \in Producer,
           LoadHead(p) \/ (LoadTail(p) /\ pc'[p] # "idle") \/ Retry(p) \/ Write(p)
    PROVE  UNCHANGED <<qBar, stageBar, out>>
<1>1. qBar' = qBar /\ out' = out
    BY QueueQuiet DEF LoadHead, LoadTail, Retry, Write, consumerVars
<1>2. \A r \in Producer : r # p => pc'[r] = pc[r]
    BY DEF LoadHead, LoadTail, Retry, Write, RingInv, TypeOK
<1>3. \/ pc[p] = "write" /\ pc'[p] = "publish"
      \/ pc[p] \in {"loadHead", "loadTail", "cas"} /\ pc'[p] \in {"loadHead", "loadTail", "cas"}
    BY DEF LoadHead, LoadTail, Retry, Write, RingInv, TypeOK
<1>4. stageBar'[p] = stageBar[p]
    BY <1>3, StageIs, StageIsNext
<1>5. stageBar' = stageBar
  <2>1. stageBar' = [stageBar EXCEPT ![p] = stageBar[p]]
      BY <1>2, <1>4, StageMoves
  <2>2. stageBar = [r \in Producer |-> stageBar[r]]
      BY DEF stageBar
  <2>3. QED
      BY <2>1, <2>2
<1>6. QED
    BY <1>1, <1>5

\* The value has its place in the order from the exchange that moves tail.
LEMMA RefineClaim ==
    ASSUME RingInv, RingInv', Called, NEW p \in Producer, Claim(p)
    PROVE  Channel!Accept(p, val[p]) /\ val[p] \in Values
<1> USE CapacityAssumption
<1> DEFINE m == tail - head
<1>1. /\ UNCHANGED <<head, cpc, ch, cval, out, t, val, value>>
      /\ tail' = tail + 1 /\ t[p] = tail
      /\ pc[p] = "cas" /\ pc'[p] = "write"
      /\ \A r \in Producer : r # p => pc'[r] = pc[r]
    BY DEF Claim, cells, consumerVars, RingInv, TypeOK
<1>2. head \in Nat /\ tail \in Nat /\ h[p] \in Nat
    BY DEF RingInv, TypeOK
<1>3. m \in Nat /\ m < Capacity
    BY <1>1, <1>2 DEF RingInv, CapacityRespected, StaleReads
<1>4. \A r \in Producer : \A i : Pending(r, i)' <=> Pending(r, i) \/ (r = p /\ i = tail)
    BY <1>1 DEF Pending
<1>5. /\ qBar = [k \in 1 .. m |-> qBar[k]]
      /\ \A i \in head .. tail - 1 : \A k \in 1 .. m :
            i = head + k - 1 => qBar[k] = EntryAt(i)
    BY QBarIs
<1>6. tail' - head' = m + 1 /\ tail' - 1 = tail /\ m + 1 \in Nat /\ head' = head
  <2>1. tail' = tail + 1 /\ head' = head
      BY <1>1
  <2>2. QED
      BY ONLY <1>2, <1>3, <2>1
<1>7. /\ qBar' = [k \in 1 .. m + 1 |-> qBar'[k]]
      /\ \A i \in head .. tail : \A k \in 1 .. m + 1 :
            i = head + k - 1 => qBar'[k] = EntryAt(i)'
    BY <1>6, QBarIsNext
<1>8. ASSUME NEW k \in 1 .. m
      PROVE  qBar'[k] = qBar[k]
  <2>1. PICK i \in head .. tail - 1 : i = head + k - 1
      BY <1>2, <1>3
  <2>2. i \in Nat /\ i # tail /\ i \in head .. tail /\ k \in 1 .. m + 1
      BY <1>2, <1>3, <2>1
  <2>3. Held(i)' = Held(i)
      BY <1>1 DEF Held, Slot
  <2>4. EntryAt(i)' = EntryAt(i)
      BY <1>1, <1>4, <2>2, <2>3, EntryStays
  <2>5. QED
      BY <1>5, <1>7, <2>1, <2>2, <2>4
<1>9. qBar'[m + 1] = [from |-> p, val |-> val[p], ready |-> FALSE]
  <2>1. PICK i \in Nat : i = tail
      BY <1>2
  <2>2. i \in head .. tail /\ m + 1 \in 1 .. m + 1 /\ i = head + (m + 1) - 1
      BY <1>2, <1>3, <2>1
  <2>3. Pending(p, i)'
      BY <1>4, <2>1
  <2>4. EntryAt(i)' = Unready(p)'
      BY <2>3, EntryIsNext
  <2>5. Unready(p)' = [from |-> p, val |-> val[p], ready |-> FALSE]
      BY <1>1 DEF Unready
  <2>6. QED
      BY <1>7, <2>2, <2>4, <2>5
<1>10. qBar' = Append(qBar, [from |-> p, val |-> val[p], ready |-> FALSE]) /\ Len(qBar) = m
  <2>1. PICK q : q = qBar
      OBVIOUS
  <2>2. PICK r : r = qBar'
      OBVIOUS
  <2>3. m \in Nat
      BY <1>3
  <2>4. q = [k \in 1 .. m |-> q[k]] /\ r = [k \in 1 .. m + 1 |-> r[k]]
      BY <1>5, <1>7, <2>1, <2>2
  <2>5. \A k \in 1 .. m : r[k] = q[k]
      BY <1>8, <2>1, <2>2
  <2> HIDE DEF m
  <2>6. Len(q) = m
      BY ONLY <2>3, <2>4, AsSeq
  <2>7. r = Append(q, r[m + 1])
      BY ONLY <2>3, <2>4, <2>5, AsAppend
  <2>8. QED
      BY <1>9, <2>1, <2>2, <2>6, <2>7
<1>11. stageBar[p] = "calling" /\ stageBar'[p] = "accepted"
    BY <1>1, StageIs, StageIsNext
<1>12. stageBar' = [stageBar EXCEPT ![p] = "accepted"]
    BY <1>1, <1>11, StageMoves
<1>13. val[p] \in Values
    BY <1>1 DEF Called
<1>14. QED
    BY <1>1, <1>3, <1>10, <1>11, <1>12, <1>13 DEF Channel!Accept

\* The store of Ready makes the value visible in its place.
LEMMA RefinePublish ==
    ASSUME RingInv, RingInv', Called, Cells, NEW p \in Producer, PublishCell(p)
    PROVE  Channel!Publish(p)
<1> DEFINE m == tail - head
           k == t[p] - head + 1
<1>1. /\ UNCHANGED <<head, tail, cpc, ch, cval, out, t, val, value>>
      /\ pc[p] = "publish" /\ pc'[p] = "idle"
      /\ \A r \in Producer : r # p => pc'[r] = pc[r]
    BY DEF PublishCell, counters, consumerVars, RingInv, TypeOK
<1>2. /\ head \in Nat /\ tail \in Nat /\ t[p] \in Nat
      /\ head <= t[p] /\ t[p] < tail
    BY <1>1 DEF RingInv, TypeOK, Ownership, Claimed
<1>3. m \in Nat /\ k \in 1 .. m /\ t[p] = head + k - 1 /\ t[p] \in head .. tail - 1
    BY <1>2
<1>4. \A r \in Producer : \A i : Pending(r, i)' <=> Pending(r, i) /\ r # p
    BY <1>1 DEF Pending
<1>5. Pending(p, t[p]) /\ \A r \in Producer : Pending(r, t[p]) => r = p
    BY <1>1 DEF Pending, RingInv, Ownership, Claimed
<1>6. /\ qBar = [j \in 1 .. m |-> qBar[j]]
      /\ \A i \in head .. tail - 1 : \A j \in 1 .. m :
            i = head + j - 1 => qBar[j] = EntryAt(i)
    BY QBarIs
<1>7. /\ qBar' = [j \in 1 .. m |-> qBar'[j]]
      /\ \A i \in head .. tail - 1 : \A j \in 1 .. m :
            i = head + j - 1 => qBar'[j] = EntryAt(i)'
    BY <1>1, QBarIsNext
<1>8. ASSUME NEW j \in 1 .. m, j # k
      PROVE  qBar'[j] = qBar[j]
  <2>1. PICK i \in head .. tail - 1 : i = head + j - 1 /\ i # t[p]
      BY <1>2, <1>3, <1>8
  <2>2. \A r \in Producer : Pending(r, i)' <=> Pending(r, i)
      BY <1>4, <2>1 DEF Pending
  <2>3. Held(i)' = Held(i)
      BY <1>1 DEF Held, Slot
  <2>4. EntryAt(i)' = EntryAt(i)
    <3>1. i \in Nat
        BY <1>2, <2>1
    <3>2. QED
        BY <1>1, <2>2, <2>3, <3>1, EntryStays
  <2>5. QED
      BY <1>6, <1>7, <2>1, <2>4
<1>9. qBar[k] = Unready(p) /\ qBar'[k] = [Unready(p) EXCEPT !.ready = TRUE]
  <2>1. PICK i \in head .. tail - 1 : i = t[p] /\ i = head + k - 1 /\ i \in Nat
      BY <1>2, <1>3
  <2>2. EntryAt(i) = Unready(p)
      BY <1>5, <2>1, EntryIs
  <2>3. EntryAt(i)' = Ready(Held(i))'
      BY <1>4, <1>5, <2>1, EntryIsNext
  <2>4. Held(i)' = val[p] /\ val[p].from = p
    <3>1. value[Slot(i)] = val[p] /\ val[p].from = p
        BY <1>1, <2>1 DEF Cells, Called
    <3>2. ~ (cpc \in {"release", "advance"} /\ i = ch)
        BY <1>5, <2>1 DEF RingInv, ConsumerWindow
    <3>3. QED
        BY <1>1, <3>1, <3>2 DEF Held, Slot
  <2>5. Ready(Held(i))' = [from |-> p, val |-> val[p], ready |-> TRUE]
      BY <2>4 DEF Ready
  <2>6. [Unready(p) EXCEPT !.ready = TRUE] = [from |-> p, val |-> val[p], ready |-> TRUE]
      BY MarkReady DEF Unready
  <2> HIDE DEF k
  <2>7. QED
      BY <1>3, <1>6, <1>7, <2>1, <2>2, <2>3, <2>5, <2>6
<1> HIDE DEF k, m
<1>10. qBar' = [qBar EXCEPT ![k].ready = TRUE]
  <2>1. qBar' = [qBar EXCEPT ![k] = [qBar[k] EXCEPT !.ready = TRUE]]
      BY <1>6, <1>7, <1>8, <1>9
  <2>2. QED
      BY <2>1
<1>11. k \in DOMAIN qBar /\ qBar[k].from = p /\ ~ qBar[k].ready
    BY <1>3, <1>6, <1>9 DEF Unready
<1>12. stageBar[p] = "accepted" /\ stageBar'[p] = "idle"
    BY <1>1, StageIs, StageIsNext
<1>13. stageBar' = [stageBar EXCEPT ![p] = "idle"]
    BY <1>1, <1>12, StageMoves
<1>14. QED
    BY <1>1, <1>10, <1>11, <1>12, <1>13 DEF Channel!Publish

\* Loading head, testing and emptying the cell, and an observer's empty() are no
\* step of the channel: the value taken out of its cell is in the queue until
\* head moves.
LEMMA RefineStutter ==
    ASSUME RingInv, RingInv',
           PopLoadHead \/ PopCheck \/ PopMove \/ PopRelease \/ EmptyLoadHead
             \/ EmptyLoadTail \/ UNCHANGED vars
    PROVE  UNCHANGED <<qBar, stageBar, out>>
<1>1. UNCHANGED <<head, tail, pc, t, val, out>>
    BY DEF PopLoadHead, PopCheck, PopMove, PopRelease, EmptyLoadHead, EmptyLoadTail, vars,
           counters, producerVars, consumerVars
<1>2. /\ head \in Nat /\ tail \in Nat
      /\ value \in [Slots -> Values \cup {NoValue}]
    BY DEF RingInv, TypeOK
<1>3. \A r \in Producer : \A i : Pending(r, i)' <=> Pending(r, i)
    BY <1>1 DEF Pending
<1>4. ASSUME NEW i \in head .. tail - 1
      PROVE  Held(i)' = Held(i)
  <2>1. CASE PopMove
    <3>1. /\ cpc = "move" /\ cpc' = "release" /\ ch' = ch /\ cval' = value[Slot(ch)]
          /\ value' = [value EXCEPT ![Slot(ch)] = NoValue]
        BY <2>1 DEF PopMove
    <3>2. ch = head /\ head \in head .. tail - 1
      <4>1. ch = head /\ head < tail
          BY <3>1 DEF RingInv, ConsumerWindow
      <4>2. QED
          BY ONLY <1>2, <4>1
    <3>3. CASE i = ch
        BY <3>1, <3>3 DEF Held
    <3>4. CASE i # ch
      <4>1. Slot(i) # Slot(ch) /\ Slot(i) \in Slots
          BY <3>2, <3>4, WindowSlots
      <4>2. QED
          BY <1>2, <3>1, <3>4, <4>1 DEF Held, Slot
    <3>5. QED
        BY <3>3, <3>4
  <2>2. CASE ~ PopMove
    <3>1. /\ value' = value
          /\ \/ cpc \notin {"release", "advance"} /\ cpc' \notin {"release", "advance"}
             \/ cpc \in {"release", "advance"} /\ cpc' \in {"release", "advance"}
                  /\ ch' = ch /\ cval' = cval
        BY <2>2 DEF PopLoadHead, PopCheck, PopRelease, EmptyLoadHead, EmptyLoadTail, vars,
                    cells, consumerVars, RingInv, TypeOK
    <3>2. QED
        BY <3>1 DEF Held, Slot
  <2>3. QED
      BY <2>1, <2>2
<1>5. \A i \in head .. tail - 1 : EntryAt(i)' = EntryAt(i)
  <2>1. \A i \in head .. tail - 1 : i \in Nat
      BY <1>2
  <2>2. QED
      BY <1>1, <1>3, <1>4, <2>1, EntryStays
<1>6. qBar' = qBar
    BY <1>1, <1>5, QBarStays
<1>7. stageBar' = stageBar
    BY <1>1 DEF stageBar
<1>8. QED
    BY <1>1, <1>6, <1>7

\* The store to head is the delivery.
LEMMA RefineAdvance ==
    ASSUME RingInv, RingInv', PopAdvance
    PROVE  Channel!Deliver
<1> DEFINE m == tail - head
<1>1. /\ UNCHANGED <<tail, pc, t, val, value, cval>>
      /\ cpc = "advance" /\ cpc' = "idle" /\ out' = Append(out, cval)
      /\ head' = head + 1 /\ ch = head /\ head < tail
      /\ \A r \in Producer : ~ Pending(r, head)
    BY DEF PopAdvance, cells, producerVars, RingInv, ConsumerWindow
<1>2. head \in Nat /\ tail \in Nat
    BY DEF RingInv, TypeOK
<1>3. m \in Nat /\ m > 0 /\ m - 1 \in Nat
    BY <1>1, <1>2
<1>4. \A r \in Producer : \A i : Pending(r, i)' <=> Pending(r, i)
    BY <1>1 DEF Pending
<1>5. /\ qBar = [k \in 1 .. m |-> qBar[k]]
      /\ \A i \in head .. tail - 1 : \A k \in 1 .. m :
            i = head + k - 1 => qBar[k] = EntryAt(i)
    BY QBarIs
<1>6. tail' - head' = m - 1 /\ tail' = tail
  <2>1. tail' = tail /\ head' = head + 1
      BY <1>1
  <2>2. QED
      BY ONLY <1>2, <2>1
<1>7. /\ qBar' = [k \in 1 .. m - 1 |-> qBar'[k]]
      /\ \A i \in head + 1 .. tail - 1 : \A k \in 1 .. m - 1 :
            i = (head + 1) + k - 1 => qBar'[k] = EntryAt(i)'
    BY <1>1, <1>6, QBarIsNext
<1>8. ASSUME NEW k \in 1 .. m - 1
      PROVE  qBar'[k] = qBar[k + 1]
  <2>1. k + 1 \in 1 .. m
      BY <1>3
  <2>2. PICK i \in head + 1 .. tail - 1 : i = (head + 1) + k - 1
      BY <1>2, <1>3
  <2>3. i \in head .. tail - 1 /\ i \in Nat /\ i # head /\ i = head + (k + 1) - 1
      BY <1>2, <1>3, <2>2
  <2>4. Held(i)' = Held(i)
      BY <1>1, <2>3 DEF Held, Slot
  <2>5. EntryAt(i)' = EntryAt(i)
      BY <1>1, <1>4, <2>3, <2>4, EntryStays
  <2>6. QED
      BY <1>5, <1>7, <2>1, <2>2, <2>3, <2>5
<1>9. qBar[1] = Ready(cval)
  <2>1. PICK i \in head .. tail - 1 : i = head /\ i = head + 1 - 1 /\ i \in Nat
      BY <1>1, <1>2
  <2>2. EntryAt(i) = Ready(Held(i))
      BY <1>1, <2>1, EntryIs
  <2>3. Held(i) = cval
      BY <1>1, <2>1 DEF Held
  <2>4. 1 \in 1 .. m
      BY <1>3
  <2>5. QED
      BY <1>5, <2>1, <2>2, <2>3, <2>4
<1>10. qBar # <<>> /\ Head(qBar) = qBar[1] /\ qBar' = Tail(qBar)
  <2>1. PICK q : q = qBar
      OBVIOUS
  <2>2. PICK r : r = qBar'
      OBVIOUS
  <2>3. m \in Nat /\ m > 0
      BY <1>3
  <2>4. q = [k \in 1 .. m |-> q[k]] /\ r = [k \in 1 .. m - 1 |-> r[k]]
      BY <1>5, <1>7, <2>1, <2>2
  <2>5. \A k \in 1 .. m - 1 : r[k] = q[k + 1]
      BY <1>8, <2>1, <2>2
  <2> HIDE DEF m
  <2>6. q # <<>> /\ Head(q) = q[1] /\ r = Tail(q)
      BY ONLY <2>3, <2>4, <2>5, AsTail
  <2>7. QED
      BY <2>1, <2>2, <2>6
<1>11. stageBar' = stageBar
    BY <1>1 DEF stageBar
<1>12. QED
    BY <1>1, <1>9, <1>10, <1>11 DEF Channel!Deliver, Ready

LEMMA RefineClear ==
    ASSUME RingInv, RingInv', Clear
    PROVE  Channel!Discard
<1>1. /\ head' = 0 /\ tail' = 0 /\ pc' = pc /\ out' = out
      /\ \A p \in Producer : pc[p] = "idle"
    BY DEF Clear, producerVars
<1>2. qBar' = [k \in 1 .. 0 |-> qBar'[k]]
  <2>1. tail' - head' = 0
      BY <1>1
  <2>2. QED
      BY <2>1, QBarIsNext
<1>3. qBar' = <<>>
    BY <1>2
<1>4. stageBar' = stageBar /\ \A p \in Producer : stageBar[p] = "idle"
    BY <1>1 DEF stageBar
<1>5. QED
    BY <1>1, <1>3, <1>4 DEF Channel!Discard

LEMMA RefineInit == Init => Channel!Init
<1> SUFFICES ASSUME Init
             PROVE  Channel!Init
    OBVIOUS
<1>1. qBar = [k \in 1 .. 0 |-> qBar[k]]
  <2>1. tail - head = 0
      BY DEF Init
  <2>2. QED
      BY <2>1, InvInit, QBarIs
<1>2. qBar = <<>>
    BY <1>1
<1>3. stageBar = [p \in Producer |-> "idle"]
    BY DEF Init, stageBar
<1>4. QED
    BY <1>2, <1>3 DEF Init, Channel!Init

LEMMA RefineStep ==
    RingInv /\ RingInv' /\ CellInv /\ [Next]_vars
      => [Channel!Next]_<<qBar, stageBar, out>>
<1> SUFFICES ASSUME RingInv, RingInv', CellInv, [Next]_vars
             PROVE  [Channel!Next]_<<qBar, stageBar, out>>
    OBVIOUS
<1>0. Called /\ Cells
    BY DEF CellInv
<1>1. ASSUME NEW p \in Producer, Call(p) \/ TryPush(p)
      PROVE  [Channel!Next]_<<qBar, stageBar, out>>
  <2>1. CASE Call(p)
      BY <1>0, <2>1, RefineCall DEF Channel!Next
  <2>2. CASE LoadTail(p) /\ pc'[p] = "idle"
      BY <1>0, <2>2, RefineRefusal DEF Channel!Next
  <2>3. CASE LoadHead(p) \/ (LoadTail(p) /\ pc'[p] # "idle") \/ Retry(p) \/ Write(p)
      BY <1>0, <2>3, RefineProducerStutter
  <2>4. CASE Claim(p)
      BY <1>0, <2>4, RefineClaim DEF Channel!Next
  <2>5. CASE PublishCell(p)
      BY <1>0, <2>5, RefinePublish DEF Channel!Next
  <2>6. QED
      BY <1>1, <2>1, <2>2, <2>3, <2>4, <2>5 DEF TryPush
<1>2. CASE PopAdvance
    BY <1>2, RefineAdvance DEF Channel!Next
<1>3. CASE Clear
    BY <1>3, RefineClear DEF Channel!Next
<1>4. CASE PopLoadHead \/ PopCheck \/ PopMove \/ PopRelease \/ EmptyLoadHead
             \/ EmptyLoadTail \/ UNCHANGED vars
    BY <1>4, RefineStutter
<1>5. QED
    BY <1>1, <1>2, <1>3, <1>4 DEF Next, TryPop

\* Values are delivered in ticket order, each whole and once, never before they
\* are published, and the buffer never takes more than Capacity of them.
THEOREM RingImplementsChannel == Spec => ImplementsChannel
<1>1. QED
    BY RefineInit, RefineStep, CellInvariant, PTL
    DEF Spec, ImplementsChannel, Channel!Spec, Channel!channelVars
=============================================================================
