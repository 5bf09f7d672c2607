------------------------- MODULE LoggerWorkerProofs -------------------------
(***************************************************************************)
(* Machine-checked proofs about LoggerWorker, for any number of clients    *)
(* and messages, any sinks and any overlaps of calls: the accounting of    *)
(* in_flight, that idle means delivered, and, where stop() overlaps no     *)
(* log(), that what stop() leaves is drained and in the file.              *)
(***************************************************************************)
EXTENDS LoggerWorker, FiniteSetTheorems, SequenceTheorems, TLAPS

Entries == [from : Client, val : Message, ready : BOOLEAN]

-----------------------------------------------------------------------------
(* What the channel's steps do to the contents of the queue. *)

LEMMA AcceptQueue ==
    ASSUME queue \in Seq(Entries), NEW p \in Client, NEW m \in Message,
           Queue!Accept(p, m)
    PROVE  queue' \in Seq(Entries) /\ Len(queue') = Len(queue) + 1 /\ popped' = popped
<1> DEFINE new == [from |-> p, val |-> m, ready |-> FALSE]
<1>1. queue' = Append(queue, new) /\ popped' = popped
    BY DEF Queue!Accept
<1>2. new \in Entries
    BY DEF Entries
<1> HIDE DEF new
<1>3. QED
    BY <1>1, <1>2

LEMMA PublishQueue ==
    ASSUME queue \in Seq(Entries), NEW p \in Client, Queue!Publish(p)
    PROVE  queue' \in Seq(Entries) /\ Len(queue') = Len(queue) /\ popped' = popped
<1>1. PICK i \in DOMAIN queue : queue' = [queue EXCEPT ![i].ready = TRUE]
    BY DEF Queue!Publish
<1>2. [queue[i] EXCEPT !.ready = TRUE] \in Entries
  <2>1. queue[i] \in Entries
      OBVIOUS
  <2>2. QED
      BY <2>1 DEF Entries
<1>3. popped' = popped
    BY DEF Queue!Publish
<1>4. queue' = [queue EXCEPT ![i] = [queue[i] EXCEPT !.ready = TRUE]]
    BY <1>1
<1>5. QED
    BY <1>2, <1>3, <1>4

LEMMA DeliverQueue ==
    ASSUME queue \in Seq(Entries), popped \in Seq(Message), Queue!Deliver
    PROVE  /\ queue # <<>>
           /\ queue' \in Seq(Entries) /\ Len(queue') = Len(queue) - 1
           /\ Head(queue).val \in Message
           /\ popped' \in Seq(Message)
<1>1. queue # <<>> /\ queue' = Tail(queue) /\ popped' = Append(popped, Head(queue).val)
    BY DEF Queue!Deliver
<1>2. Head(queue) \in Entries
    BY <1>1
<1>3. Head(queue).val \in Message
    BY <1>2 DEF Entries
<1>4. QED
    BY <1>1, <1>3

-----------------------------------------------------------------------------
(* Types and locals *)

TypesAndLocals == TypeOK /\ Locals

LEMMA TypeInit == Init => TypesAndLocals
<1> SUFFICES ASSUME Init
             PROVE  TypesAndLocals
    OBVIOUS
<1>1. <<>> \in Seq(Entries) /\ <<>> \in Seq(Message)
    OBVIOUS
<1>2. 0 \in 0 .. MaxCalls /\ 0 \in 0 .. MaxWaits /\ 0 \in 0 .. MaxStarts
    BY LoggerAssumption
<1>3. ChannelOK
    BY <1>1 DEF Init, ChannelOK, Entries
<1>4. PushOK
    BY <1>2 DEF Init, PushOK
<1>5. WaitOK
    BY <1>2 DEF Init, WaitOK
<1>6. WorkerOK
  <2>1. running \in BOOLEAN /\ accepting \in BOOLEAN
      BY Zenon DEF Init
  <2>2. wpc = "none" /\ e = NoMessage /\ in_flight = 0
      BY Zenon DEF Init
  <2>3. QED
      BY <2>1, <2>2 DEF WorkerOK
<1>7. SinkOK
    BY <1>1 DEF Init, SinkOK
<1>8. OwnerOK
    BY <1>1, <1>2 DEF Init, OwnerOK
<1>9. Locals
    BY DEF Init, Locals, Holding
<1>10. QED
    BY <1>3, <1>4, <1>5, <1>6, <1>7, <1>8, <1>9 DEF TypesAndLocals, TypeOK

\* A step that leaves a group of variables alone keeps that group's types.
LEMMA Untouched ==
    /\ ChannelOK /\ UNCHANGED channel => ChannelOK'
    /\ PushOK /\ UNCHANGED <<pc, pushVars>> => PushOK'
    /\ WaitOK /\ UNCHANGED waitVars => WaitOK'
    /\ WorkerOK /\ UNCHANGED <<workerVars, flags, in_flight>> => WorkerOK'
    /\ SinkOK /\ UNCHANGED sinkVars => SinkOK'
    /\ OwnerOK /\ UNCHANGED ownerVars => OwnerOK'
<1>1. ChannelOK /\ UNCHANGED channel => ChannelOK'
    BY DEF ChannelOK, channel
<1>2. PushOK /\ UNCHANGED <<pc, pushVars>> => PushOK'
    BY DEF PushOK, pushVars
<1>3. WaitOK /\ UNCHANGED waitVars => WaitOK'
    BY DEF WaitOK, waitVars
<1>4. WorkerOK /\ UNCHANGED <<workerVars, flags, in_flight>> => WorkerOK'
    BY DEF WorkerOK, workerVars, flags
<1>5. SinkOK /\ UNCHANGED sinkVars => SinkOK'
    BY DEF SinkOK, sinkVars
<1>6. OwnerOK /\ UNCHANGED ownerVars => OwnerOK'
    BY DEF OwnerOK, ownerVars, fileVars
<1>7. QED
    BY <1>1, <1>2, <1>3, <1>4, <1>5, <1>6

LEMMA TypePush ==
    ASSUME TypeOK, Locals, NEW p \in Client, PushCheck(p) \/ Push(p)
    PROVE  TypeOK' /\ Locals'
<1> USE DEF TypeOK
<1>1. PushOK' /\ UNCHANGED <<waitVars, sinkVars, ownerVars, workerVars, flags>>
  <2>1. CASE PushCheck(p)
    <3>1. calls[p] + 1 \in 1 .. MaxCalls /\ calls[p] + 1 \in 0 .. MaxCalls
        BY <2>1, LoggerAssumption DEF PushCheck, PushOK
    <3>2. [from |-> p, n |-> calls[p] + 1] \in Message
        BY <3>1 DEF Message
    <3>3. QED
        BY <2>1, <3>1, <3>2 DEF PushCheck, PushOK
  <2>2. CASE PushCount(p)
      BY <2>2 DEF PushCount, PushOK, pushVars
  <2>3. CASE PushExchange(p)
      BY <2>3 DEF PushExchange, PushOK, pushVars
  <2>4. CASE PushLink(p)
      BY <2>4 DEF PushLink, PushOK, Locals
  <2>5. QED
      BY <2>1, <2>2, <2>3, <2>4 DEF Push
<1>2. ChannelOK'
  <2>1. CASE PushCheck(p)
      BY <2>1 DEF PushCheck, ChannelOK, channel
  <2>2. CASE PushCount(p)
      BY <2>2 DEF PushCount, ChannelOK, Queue!Call
  <2>3. CASE PushExchange(p)
      BY <2>3, AcceptQueue DEF PushExchange, ChannelOK, Entries, Locals
  <2>4. CASE PushLink(p)
      BY <2>4, PublishQueue DEF PushLink, ChannelOK, Entries
  <2>5. QED
      BY <2>1, <2>2, <2>3, <2>4 DEF Push
<1>3. WorkerOK'
    BY <1>1
    DEF WorkerOK, workerVars, flags, Push, PushCheck, PushCount, PushExchange, PushLink
<1>4. Locals'
  <2>1. /\ pc'[p] \in {"count", "exchange", "link"} => val'[p] \in Message
        /\ \A r \in Client : r # p => pc'[r] = pc[r] /\ val'[r] = val[r]
    <3>1. CASE PushCheck(p)
      <4>1. calls[p] + 1 \in 1 .. MaxCalls
          BY <3>1, LoggerAssumption DEF PushCheck, PushOK
      <4>2. [from |-> p, n |-> calls[p] + 1] \in Message
          BY <4>1 DEF Message
      <4>3. QED
          BY <3>1, <4>2 DEF PushCheck, PushOK
    <3>2. CASE PushCount(p)
        BY <3>2 DEF PushCount, PushOK, pushVars, Locals
    <3>3. CASE PushExchange(p)
        BY <3>3 DEF PushExchange, PushOK, pushVars, Locals
    <3>4. CASE PushLink(p)
        BY <3>4 DEF PushLink, PushOK, Locals
    <3>5. QED
        BY <3>1, <3>2, <3>3, <3>4 DEF Push
  <2>2. QED
      BY <1>1, <2>1 DEF Locals, Holding, workerVars, ownerVars
<1>5. QED
    BY <1>1, <1>2, <1>3, <1>4, Untouched

LEMMA TypeWait ==
    ASSUME TypeOK, Locals, NEW p \in Client,
           WaitCall(p) \/ Wait(p) \/ WakeSpuriously(p) \/ FlushCall(p)
    PROVE  TypeOK' /\ Locals'
<1> USE DEF TypeOK
<1> USE DEF WaitCall, WaitLock, WaitTest, WaitSleep, WakeSpuriously, FlushCall, Wait
<1>1. UNCHANGED <<channel, flags, in_flight, pushVars, workerVars, sinkVars, ownerVars>>
    BY Zenon
<1>2. /\ pc' \in [Client -> {"idle", "count", "exchange", "link", "lock", "test",
                             "sleep", "flush"}]
      /\ \A r \in Client : pc'[r] \in {"count", "exchange", "link"} => pc'[r] = pc[r]
    BY DEF PushOK
<1>3. PushOK'
    BY <1>1, <1>2 DEF PushOK, pushVars
<1>4. WaitOK'
  <2>1. CASE WaitCall(p)
      BY <2>1, LoggerAssumption DEF WaitOK, PushOK
  <2>2. CASE WaitLock(p)
      BY <2>2 DEF WaitOK
  <2>3. CASE WaitTest(p)
      BY <2>3 DEF WaitOK
  <2>4. CASE WaitSleep(p)
      BY <2>4 DEF WaitOK
  <2>5. CASE WakeSpuriously(p)
      BY <2>5 DEF WaitOK
  <2>6. CASE FlushCall(p)
      BY <2>6, Untouched
  <2>7. QED
      BY <2>1, <2>2, <2>3, <2>4, <2>5, <2>6
<1>5. Locals'
    BY <1>1, <1>2 DEF Locals, Holding, workerVars, ownerVars, pushVars
<1>6. QED
    BY <1>1, <1>3, <1>4, <1>5, Untouched

LEMMA TypeEmit ==
    ASSUME SinkOK, NEW m \in Message, Emit(m), flushed' \in Nat
    PROVE  SinkOK'
  BY DEF SinkOK, Emit

LEMMA TypeFlush ==
    ASSUME TypeOK, Locals, NEW p \in Client, FlushPop(p)
    PROVE  TypeOK' /\ Locals'
<1> USE DEF TypeOK
<1>1. UNCHANGED <<flags, in_flight, pushVars, waitVars, workerVars, ownerVars>>
    BY DEF FlushPop
<1>2. ChannelOK' /\ SinkOK'
  <2>1. CASE CanPop
    <3>1. Queue!Deliver /\ Emit(Head(queue).val) /\ flushed' = flushed + 1
        BY <2>1 DEF FlushPop
    <3>2. /\ queue' \in Seq(Entries) /\ popped' \in Seq(Message)
          /\ Head(queue).val \in Message
        BY <3>1, DeliverQueue DEF ChannelOK, Entries
    <3>3. SinkOK'
        BY <3>1, <3>2, TypeEmit DEF SinkOK
    <3>4. QED
        BY <3>2, <3>3 DEF ChannelOK, Entries
  <2>2. CASE ~ CanPop
      BY <2>2, Untouched DEF FlushPop
  <2>3. QED
      BY <2>1, <2>2
<1>3. /\ pc' \in [Client -> {"idle", "count", "exchange", "link", "lock", "test",
                             "sleep", "flush"}]
      /\ \A r \in Client : pc'[r] \in {"count", "exchange", "link"} => pc'[r] = pc[r]
  <2>1. pc' = pc \/ pc' = [pc EXCEPT ![p] = "idle"]
      BY DEF FlushPop
  <2>2. QED
      BY <2>1 DEF PushOK
<1>4. PushOK'
    BY <1>1, <1>3 DEF PushOK, pushVars
<1>5. Locals'
    BY <1>1, <1>3 DEF Locals, Holding, workerVars, ownerVars, pushVars
<1>6. QED
    BY <1>1, <1>2, <1>4, <1>5, Untouched

LEMMA TypeRun ==
    ASSUME TypeOK, Locals, Run
    PROVE  TypeOK' /\ Locals'
<1> USE DEF TypeOK
<1>1. CASE RunCheck
  <2>1. WorkerOK' /\ Locals'
      BY <1>1 DEF RunCheck, WorkerOK, flags, Locals, Holding, pushVars, ownerVars
  <2>2. QED
      BY <1>1, <2>1, Untouched DEF RunCheck
<1>2. CASE RunPop /\ CanPop
  <2>1. Queue!Deliver /\ e' = Head(queue).val
      BY <1>2 DEF RunPop
  <2>2. /\ queue' \in Seq(Entries) /\ popped' \in Seq(Message)
        /\ Head(queue).val \in Message
      BY <2>1, DeliverQueue DEF ChannelOK, Entries
  <2>3. ChannelOK'
      BY <2>2 DEF ChannelOK, Entries
  <2>4. WorkerOK' /\ Locals'
      BY <1>2, <2>1, <2>2
      DEF RunPop, WorkerOK, flags, Locals, Holding, pushVars, ownerVars
  <2>5. QED
      BY <1>2, <2>3, <2>4, Untouched DEF RunPop
<1>3. CASE RunPop /\ ~ CanPop
  <2>1. WorkerOK' /\ Locals'
      BY <1>3 DEF RunPop, WorkerOK, flags, Locals, Holding, pushVars, ownerVars
  <2>2. QED
      BY <1>3, <2>1, Untouched DEF RunPop
<1>4. CASE RunCallback
  <2>1. e \in Message /\ Emit(e) /\ flushed' = flushed
      BY <1>4 DEF RunCallback, Locals, Holding
  <2>2. SinkOK'
      BY <2>1, TypeEmit DEF SinkOK
  <2>3. WorkerOK' /\ Locals'
      BY <1>4, <2>1
      DEF RunCallback, WorkerOK, flags, Locals, Holding, pushVars, ownerVars
  <2>4. QED
      BY <1>4, <2>2, <2>3, Untouched DEF RunCallback
<1>5. CASE RunUncount
  <2>1. WorkerOK' /\ Locals'
      BY <1>5 DEF RunUncount, WorkerOK, flags, Locals, Holding, pushVars, ownerVars
  <2>2. QED
      BY <1>5, <2>1, Untouched DEF RunUncount
<1>6. CASE RunNotify
  <2>1. WorkerOK' /\ WaitOK' /\ Locals'
      BY <1>6
      DEF RunNotify, WorkerOK, WaitOK, flags, Locals, Holding, pushVars, ownerVars
  <2>2. QED
      BY <1>6, <2>1, Untouched DEF RunNotify
<1>7. QED
    BY <1>1, <1>2, <1>3, <1>4, <1>5, <1>6 DEF Run

LEMMA TypeOwner ==
    ASSUME TypeOK, Locals,
           \/ Start \/ StopAccepting \/ Stop \/ SetCallbackReturns
           \/ \E s \in Sinks : SetCallback(s)
    PROVE  TypeOK' /\ Locals'
<1> USE DEF TypeOK
<1>1. CASE Start
  <2>1. WorkerOK' /\ OwnerOK' /\ Locals'
      BY <1>1, LoggerAssumption DEF Start, WorkerOK, OwnerOK, fileVars, Locals, Holding, pushVars
  <2>2. QED
      BY <1>1, <2>1, Untouched DEF Start
<1>2. CASE StopAccepting
  <2>1. WorkerOK' /\ OwnerOK' /\ Locals'
      BY <1>2
      DEF StopAccepting, WorkerOK, OwnerOK, fileVars, PushOK, Locals, Holding, pushVars, workerVars
  <2>2. QED
      BY <1>2, <2>1, Untouched DEF StopAccepting
<1>3. CASE StopRunning
  <2>1. WorkerOK' /\ OwnerOK' /\ Locals'
      BY <1>3 DEF StopRunning, WorkerOK, OwnerOK, fileVars, Locals, Holding, pushVars, workerVars
  <2>2. QED
      BY <1>3, <2>1, Untouched DEF StopRunning
<1>4. CASE StopJoin
  <2>1. OwnerOK' /\ Locals'
    <3>1. flush_file /\ file \in Seq(Message) /\ file_buffer \in Seq(Message)
        BY <1>4 DEF StopJoin, OwnerOK, SinkOK
    <3>2. \A n \in 0 .. Len(file_buffer) : SubSeq(file_buffer, 1, n) \in Seq(Message)
        BY <3>1
    <3>3. file' \in Seq(Message)
        BY <3>1, <3>2 DEF flush_file, fileVars
    <3>4. written' \in BOOLEAN
        BY <3>1 DEF flush_file, fileVars, OwnerOK
    <3>5. QED
        BY <1>4, <3>3, <3>4 DEF StopJoin, OwnerOK, Locals, Holding, pushVars, workerVars
  <2>2. QED
      BY <1>4, <2>1, Untouched DEF StopJoin
<1>5. CASE SetCallbackReturns
  <2>1. SinkOK' /\ Locals'
      BY <1>5
      DEF SetCallbackReturns, SinkOK, Locals, Holding, pushVars, workerVars, ownerVars
  <2>2. QED
      BY <1>5, <2>1, Untouched DEF SetCallbackReturns
<1>6. ASSUME NEW s \in Sinks, SetCallback(s)
      PROVE  TypeOK' /\ Locals'
  <2>1. SinkOK' /\ Locals'
      BY <1>6, LoggerAssumption
      DEF SetCallback, SinkOK, Locals, Holding, pushVars, workerVars, ownerVars
  <2>2. QED
      BY <1>6, <2>1, Untouched DEF SetCallback
<1>7. QED
    BY <1>1, <1>2, <1>3, <1>4, <1>5, <1>6 DEF Stop

LEMMA TypeStep == TypesAndLocals /\ [Next]_vars => TypesAndLocals'
<1> SUFFICES ASSUME TypesAndLocals, [Next]_vars
             PROVE  TypesAndLocals'
    OBVIOUS
<1> USE DEF TypesAndLocals
<1>1. CASE UNCHANGED vars
  <2>1. TypeOK'
      BY <1>1, Untouched DEF TypeOK, vars
  <2>2. Locals'
      BY <1>1 DEF vars, Locals, Holding, pushVars, workerVars, ownerVars
  <2>3. QED
      BY <2>1, <2>2
<1>2. CASE Next
    BY <1>2, TypePush, TypeWait, TypeFlush, TypeRun, TypeOwner DEF Next
<1>3. QED
    BY <1>1, <1>2

\* Every variable of the logger keeps its type, in every reachable state.
THEOREM TypeCorrect == Spec => []TypeOK
<1>1. TypesAndLocals => TypeOK
    BY DEF TypesAndLocals
<1>2. QED
    BY <1>1, TypeInit, TypeStep, PTL DEF Spec

-----------------------------------------------------------------------------
(* The accounting of in_flight *)

\* The number of clients between fetch_add and the exchange, when one joins or
\* leaves them.
LEMMA CountingCard ==
    /\ IsFiniteSet(Counting) /\ Cardinality(Counting) \in Nat
    /\ \A p \in Client : p \notin Counting =>
          Cardinality(Counting \cup {p}) = Cardinality(Counting) + 1
    /\ \A p \in Counting :
          Cardinality(Counting \ {p}) = Cardinality(Counting) - 1
<1>1. IsFiniteSet(Counting)
    BY LoggerAssumption, FS_Subset DEF Counting
<1>2. QED
    BY <1>1, FS_CardinalityType, FS_AddElement, FS_RemoveElement

\* Equal sums, moved by equal amounts, stay equal.
LEMMA Balance ==
    ASSUME NEW a \in Int, NEW b \in Int, NEW h \in Int, NEW f \in Int,
           NEW da \in Int, NEW db \in Int, NEW df \in Int
    PROVE  (a + b + h + f) + (da + db + df) = (a + da) + (b + db) + h + (f + df)
OBVIOUS

\* A step that leaves Holding alone keeps InFlightCounts if the other counts move
\* together.
LEMMA Frame ==
    ASSUME InFlightCounts, Holding' = Holding,
           Len(queue) \in Int, Cardinality(Counting) \in Int, flushed \in Int,
           NEW da \in Int, NEW db \in Int, NEW df \in Int,
           Len(queue') = Len(queue) + da,
           Cardinality(Counting') = Cardinality(Counting) + db,
           flushed' = flushed + df,
           in_flight' = in_flight + (da + db + df)
    PROVE  InFlightCounts'
<1> DEFINE held == IF Holding THEN 1 ELSE 0
<1>1. held \in Int /\ held' = held
    OBVIOUS
<1>2. /\ in_flight = Len(queue) + Cardinality(Counting) + held + flushed
      /\ InFlightCounts'
            <=> in_flight' = Len(queue') + Cardinality(Counting') + held' + flushed'
    BY DEF InFlightCounts
<1> HIDE DEF held
<1>3. in_flight' = Len(queue') + Cardinality(Counting') + held + flushed'
    BY <1>1, <1>2, Balance
<1>4. QED
    BY <1>1, <1>2, <1>3

LEMMA CountPush ==
    ASSUME TypeOK, Locals, InFlightCounts, NEW p \in Client, PushCheck(p) \/ Push(p)
    PROVE  InFlightCounts'
<1>1. /\ queue \in Seq(Entries) /\ Len(queue) \in Nat
      /\ in_flight \in Int /\ flushed \in Nat
      /\ pc \in [Client -> {"idle", "count", "exchange", "link", "lock", "test",
                            "sleep", "flush"}]
    BY DEF TypeOK, ChannelOK, WorkerOK, SinkOK, PushOK, Entries
<1>2. Holding' = Holding /\ flushed' = flushed
    BY DEF Holding, workerVars, sinkVars, Push, PushCheck, PushCount, PushExchange, PushLink
<1>3. CASE PushCheck(p)
  <2>1. Counting' = Counting
      BY <1>1, <1>3 DEF PushCheck, Counting
  <2>2. QED
      BY <1>2, <1>3, <2>1 DEF PushCheck, channel, InFlightCounts
<1>4. CASE PushCount(p)
  <2>1. p \notin Counting /\ Counting' = Counting \cup {p}
      BY <1>1, <1>4 DEF PushCount, Counting
  <2>2. queue' = queue /\ in_flight' = in_flight + 1
      BY <1>4 DEF PushCount, Queue!Call
  <2>3. Cardinality(Counting') = Cardinality(Counting) + 1
      BY <2>1, CountingCard
  <2>4. QED
      BY <1>1, <1>2, <2>2, <2>3, Frame, CountingCard
<1>5. CASE PushExchange(p)
  <2>1. p \in Counting /\ Counting' = Counting \ {p}
      BY <1>1, <1>5 DEF PushExchange, Counting
  <2>2. Len(queue') = Len(queue) + 1 /\ in_flight' = in_flight
      BY <1>1, <1>5, AcceptQueue DEF PushExchange, Locals
  <2>3. Cardinality(Counting') = Cardinality(Counting) + (-1)
      BY <2>1, CountingCard
  <2>4. in_flight' = in_flight + (1 + (-1) + 0) /\ flushed' = flushed + 0
      BY <1>1, <1>2, <2>2
  <2>5. Len(queue) \in Int /\ Cardinality(Counting) \in Int /\ flushed \in Int
      BY <1>1, CountingCard
  <2>6. QED
      BY <1>2, <2>2, <2>3, <2>4, <2>5, Frame
<1>6. CASE PushLink(p)
  <2>1. Counting' = Counting
      BY <1>1, <1>6 DEF PushLink, Counting
  <2>2. Len(queue') = Len(queue) /\ in_flight' = in_flight
      BY <1>1, <1>6, PublishQueue DEF PushLink
  <2>3. QED
      BY <1>2, <2>1, <2>2 DEF InFlightCounts
<1>7. QED
    BY <1>3, <1>4, <1>5, <1>6 DEF Push

LEMMA CountRun ==
    ASSUME TypeOK, Locals, InFlightCounts, Run
    PROVE  InFlightCounts'
<1>1. /\ queue \in Seq(Entries) /\ popped \in Seq(Message) /\ Len(queue) \in Nat
      /\ in_flight \in Int /\ flushed \in Nat
    BY DEF TypeOK, ChannelOK, WorkerOK, SinkOK, Entries
<1>2. Counting' = Counting /\ Cardinality(Counting) \in Nat /\ flushed' = flushed
    BY CountingCard
    DEF Counting, sinkVars, Run, RunCheck, RunPop, RunCallback, RunUncount, RunNotify
<1>3. CASE RunCheck
  <2>1. queue' = queue /\ in_flight' = in_flight /\ Holding' = Holding
      BY <1>3 DEF RunCheck, channel, Holding
  <2>2. QED
      BY <1>2, <2>1 DEF InFlightCounts
<1>4. CASE RunPop /\ CanPop
  <2>1. Len(queue') = Len(queue) - 1
      BY <1>1, <1>4, DeliverQueue DEF RunPop
  <2>2. ~ Holding /\ Holding' /\ in_flight' = in_flight
      BY <1>4 DEF RunPop, Holding
  <2>3. QED
      BY <1>1, <1>2, <2>1, <2>2 DEF InFlightCounts
<1>5. CASE RunPop /\ ~ CanPop
    BY <1>2, <1>5 DEF RunPop, channel, Holding, InFlightCounts
<1>6. CASE RunCallback
    BY <1>2, <1>6 DEF RunCallback, channel, Holding, InFlightCounts
<1>7. CASE RunUncount
  <2>1. Holding /\ ~ Holding' /\ in_flight' = in_flight - 1 /\ queue' = queue
      BY <1>7 DEF RunUncount, Holding, channel
  <2>2. QED
      BY <1>1, <1>2, <2>1 DEF InFlightCounts
<1>8. CASE RunNotify
  <2>1. queue' = queue /\ in_flight' = in_flight /\ Holding' = Holding
      BY <1>8 DEF RunNotify, channel, Holding
  <2>2. QED
      BY <1>2, <2>1 DEF InFlightCounts
<1>9. QED
    BY <1>3, <1>4, <1>5, <1>6, <1>7, <1>8 DEF Run

LEMMA CountFlush ==
    ASSUME TypeOK, Locals, InFlightCounts, NEW p \in Client, FlushPop(p)
    PROVE  InFlightCounts'
<1>1. /\ queue \in Seq(Entries) /\ popped \in Seq(Message) /\ Len(queue) \in Nat
      /\ in_flight \in Int /\ flushed \in Nat
      /\ pc \in [Client -> {"idle", "count", "exchange", "link", "lock", "test",
                            "sleep", "flush"}]
    BY DEF TypeOK, ChannelOK, WorkerOK, SinkOK, PushOK, Entries
<1>2. in_flight' = in_flight /\ Holding' = Holding
    BY DEF FlushPop, workerVars, Holding
<1>3. Counting' = Counting /\ Cardinality(Counting) \in Nat
  <2>1. pc[p] = "flush" /\ (pc' = pc \/ pc' = [pc EXCEPT ![p] = "idle"])
      BY DEF FlushPop
  <2>2. QED
      BY <1>1, <2>1, CountingCard DEF Counting
<1>4. CASE CanPop
  <2>1. Len(queue') = Len(queue) - 1 /\ flushed' = flushed + 1
      BY <1>1, <1>4, DeliverQueue DEF FlushPop
  <2>2. QED
      BY <1>1, <1>2, <1>3, <2>1, Frame
<1>5. CASE ~ CanPop
  <2>1. queue' = queue /\ flushed' = flushed
      BY <1>5 DEF FlushPop, channel, sinkVars
  <2>2. QED
      BY <1>2, <1>3, <2>1 DEF InFlightCounts
<1>6. QED
    BY <1>4, <1>5

\* No other step touches the queue, in_flight or the places that are counted.
LEMMA CountOther ==
    ASSUME TypeOK, Locals, InFlightCounts,
           \/ \E p \in Client :
                 WaitCall(p) \/ Wait(p) \/ WakeSpuriously(p) \/ FlushCall(p)
           \/ Start \/ StopAccepting \/ Stop \/ SetCallbackReturns
           \/ \E s \in Sinks : SetCallback(s)
    PROVE  InFlightCounts'
<1>1. queue' = queue /\ in_flight' = in_flight /\ flushed' = flushed
    BY Zenon
    DEF channel, sinkVars, WaitCall, Wait, WaitLock, WaitTest, WaitSleep,
        WakeSpuriously, FlushCall, Start, StopAccepting, Stop, StopRunning, StopJoin,
        SetCallbackReturns, SetCallback
<1>2. Holding' = Holding
  <2>1. CASE Start
      BY <2>1 DEF Start, Locals, Holding
  <2>2. CASE ~ Start
      BY <2>2
      DEF workerVars, WaitCall, Wait, WaitLock, WaitTest, WaitSleep, WakeSpuriously,
          FlushCall, StopAccepting, Stop, StopRunning, StopJoin, SetCallbackReturns,
          SetCallback, Holding
  <2>3. QED
      BY <2>1, <2>2
<1>3. Counting' = Counting
  <2>1. ASSUME NEW p \in Client,
               WaitCall(p) \/ Wait(p) \/ WakeSpuriously(p) \/ FlushCall(p)
        PROVE  Counting' = Counting
      BY <2>1
      DEF TypeOK, PushOK, Counting, WaitCall, Wait, WaitLock, WaitTest, WaitSleep,
          WakeSpuriously, FlushCall
  <2>2. CASE \/ Start \/ StopAccepting \/ Stop \/ SetCallbackReturns
             \/ \E s \in Sinks : SetCallback(s)
      BY <2>2
      DEF Counting, Start, StopAccepting, Stop, StopRunning, StopJoin,
          SetCallbackReturns, SetCallback
  <2>3. QED
      BY <2>1, <2>2
<1>4. QED
    BY <1>1, <1>2, <1>3 DEF InFlightCounts

LEMMA CountInit == Init => InFlightCounts
<1> SUFFICES ASSUME Init
             PROVE  InFlightCounts
    OBVIOUS
<1>1. Counting = {} /\ ~ Holding /\ Len(queue) = 0
    BY DEF Init, Counting, Holding
<1>2. Cardinality(Counting) = 0
    BY <1>1, FS_EmptySet
<1>3. QED
    BY <1>1, <1>2 DEF Init, InFlightCounts

LEMMA InvStep == LoggerInv /\ [Next]_vars => LoggerInv'
<1> SUFFICES ASSUME LoggerInv, [Next]_vars
             PROVE  LoggerInv'
    OBVIOUS
<1>1. TypeOK' /\ Locals'
    BY TypeStep DEF LoggerInv, TypesAndLocals
<1>2. InFlightCounts'
  <2>1. CASE UNCHANGED vars
    <3>1. /\ queue' = queue /\ in_flight' = in_flight /\ flushed' = flushed
          /\ pc' = pc /\ wpc' = wpc
        BY <2>1 DEF vars, channel, sinkVars, workerVars
    <3>2. QED
        BY <3>1 DEF LoggerInv, InFlightCounts, Counting, Holding
  <2>2. CASE Next
      BY <2>2, CountPush, CountRun, CountFlush, CountOther DEF Next, LoggerInv
  <2>3. QED
      BY <2>1, <2>2
<1>3. QED
    BY <1>1, <1>2 DEF LoggerInv

\* The accounting of the logger and what it rests on hold in every reachable
\* state, for any number of clients and messages and whatever overlaps.
THEOREM LoggerInvariant == Spec => []LoggerInv
<1>1. Init => LoggerInv
    BY TypeInit, CountInit DEF LoggerInv, TypesAndLocals
<1>2. QED
    BY <1>1, InvStep, PTL DEF Spec

\* in_flight is exact: it counts what is queued, about to be queued or being
\* delivered, and what flush() took without uncounting it.
THEOREM InFlightIsExact == Spec => []InFlightCounts
<1>1. LoggerInv => InFlightCounts
    BY DEF LoggerInv
<1>2. QED
    BY <1>1, LoggerInvariant, PTL
-----------------------------------------------------------------------------
(* No message whose push has returned is ever lost: it is in the queue, in   *)
(* the worker's hand, or delivered.                                          *)

\* A queue entry without its link belongs to the client about to store it.
Unlinked == {i \in DOMAIN queue : ~ queue[i].ready}

EntriesOwned ==
    \A i \in Unlinked : pc[queue[i].from] = "link" /\ queue[i].val = val[queue[i].from]

OneEntryEach == \A i, j \in Unlinked : queue[i].from = queue[j].from => i = j

InHand(m) == wpc \in {"callback", "drainCallback"} /\ e = m
Queued(m) == \E i \in DOMAIN queue : queue[i].val = m
NothingLost == \A m \in finished : Delivered(m) \/ InHand(m) \/ Queued(m)

Snapshots == (\A p \in Client : awaited[p] \subseteq finished) /\ atStop \subseteq finished

PendingInv == EntriesOwned /\ OneEntryEach /\ NothingLost /\ Snapshots

\* What a step does that touches neither the queue nor a client at its link.
LEMMA PendingFrame ==
    ASSUME PendingInv, queue' = queue, finished' = finished,
           \A m : Delivered(m) => Delivered(m)',
           \A m : InHand(m) => InHand(m)' \/ Delivered(m)',
           TypeOK,
           \A p \in Client : pc[p] = "link" => pc'[p] = "link" /\ val'[p] = val[p],
           \A p \in Client : awaited'[p] \subseteq finished,
           atStop' \subseteq finished
    PROVE  PendingInv'
<1>1. \A i \in Unlinked : queue[i].from \in Client
  <2>1. queue \in Seq(Entries)
      BY DEF TypeOK, ChannelOK, Entries
  <2>2. \A i \in DOMAIN queue : queue[i] \in Entries
      BY <2>1
  <2>3. QED
      BY <2>2 DEF Unlinked, Entries
<1>2. Unlinked' = Unlinked
    BY DEF Unlinked
<1>3. EntriesOwned' /\ OneEntryEach'
    BY <1>1, <1>2 DEF PendingInv, EntriesOwned, OneEntryEach
<1>4. NothingLost'
    BY DEF PendingInv, NothingLost, Queued
<1>5. Snapshots'
    BY DEF Snapshots
<1>6. QED
    BY <1>3, <1>4, <1>5 DEF PendingInv

\* A history that grows keeps what it holds.
LEMMA AppendDelivered ==
    ASSUME delivered \in Seq(Message), NEW m \in Message,
           delivered' = Append(delivered, m)
    PROVE  /\ Delivered(m)'
           /\ \A x : Delivered(x) => Delivered(x)'
<1>1. /\ DOMAIN delivered' = 1 .. Len(delivered) + 1 /\ DOMAIN delivered = 1 .. Len(delivered)
      /\ Len(delivered) \in Nat
      /\ \A i \in 1 .. Len(delivered) : delivered'[i] = delivered[i]
      /\ delivered'[Len(delivered) + 1] = m
    OBVIOUS
<1>2. Delivered(m)'
    BY <1>1 DEF Delivered
<1>3. ASSUME NEW x, Delivered(x)
      PROVE  Delivered(x)'
  <2>1. PICK i \in 1 .. Len(delivered) : delivered[i] = x
      BY <1>1, <1>3 DEF Delivered
  <2>2. i \in DOMAIN delivered' /\ delivered'[i] = x
      BY <1>1, <2>1
  <2>3. QED
      BY <2>2 DEF Delivered
<1>4. QED
    BY <1>2, <1>3

LEMMA PendingExchange ==
    ASSUME TypeOK, Locals, PendingInv, NEW p \in Client, PushExchange(p)
    PROVE  PendingInv'
<1> DEFINE new == [from |-> p, val |-> val[p], ready |-> FALSE]
           n == Len(queue)
<1>1. /\ queue \in Seq(Entries) /\ DOMAIN queue = 1 .. n /\ n \in Nat
      /\ \A i \in 1 .. n : queue[i].from \in Client
  <2>1. queue \in Seq(Entries)
      BY DEF TypeOK, ChannelOK, Entries
  <2>2. \A i \in 1 .. n : queue[i] \in Entries
      BY <2>1
  <2>3. QED
      BY <2>1, <2>2 DEF Entries
<1>2. new \in Entries
    BY DEF PushExchange, Locals, Entries
<1>3. queue' = Append(queue, new)
    BY DEF PushExchange, Queue!Accept
<1>4. /\ DOMAIN queue' = 1 .. n + 1 /\ queue'[n + 1] = new
      /\ \A i \in 1 .. n : queue'[i] = queue[i]
  <2> HIDE DEF new
  <2>1. QED
      BY <1>1, <1>2, <1>3
<1>5. /\ pc[p] = "exchange" /\ pc' = [pc EXCEPT ![p] = "link"]
      /\ UNCHANGED <<val, finished, awaited, atStop, delivered, wpc, e>>
      /\ pc \in [Client -> {"idle", "count", "exchange", "link", "lock", "test",
                            "sleep", "flush"}]
    BY DEF PushExchange, pushVars, waitVars, ownerVars, sinkVars, workerVars, TypeOK, PushOK
<1>6. \A i \in Unlinked : i \in 1 .. n /\ queue[i].from # p
    BY <1>1, <1>5 DEF PendingInv, EntriesOwned, Unlinked
<1>7. \A i \in Unlinked' : i = n + 1 \/ (i \in Unlinked /\ i # n + 1)
    BY <1>1, <1>4 DEF Unlinked
<1>8. new.from = p /\ new.val = val[p]
    OBVIOUS
<1> HIDE DEF new, n
<1>9. EntriesOwned'
  <2>1. ASSUME NEW i \in Unlinked'
        PROVE  pc'[queue'[i].from] = "link" /\ queue'[i].val = val'[queue'[i].from]
    <3>1. CASE i = n + 1
        BY <1>4, <1>5, <1>8, <3>1
    <3>2. CASE i \in Unlinked
        BY <1>1, <1>4, <1>5, <1>6, <3>2 DEF PendingInv, EntriesOwned
    <3>3. QED
        BY <1>7, <2>1, <3>1, <3>2
  <2>2. QED
      BY <2>1 DEF EntriesOwned
<1>10. OneEntryEach'
    BY <1>4, <1>6, <1>7, <1>8 DEF PendingInv, OneEntryEach
<1>11. NothingLost'
  <2>1. ASSUME NEW m, Queued(m)
        PROVE  Queued(m)'
      BY <1>1, <1>4, <2>1 DEF Queued
  <2>2. QED
      BY <1>5, <2>1 DEF PendingInv, NothingLost, Delivered, InHand
<1>12. QED
    BY <1>5, <1>9, <1>10, <1>11 DEF PendingInv, Snapshots

LEMMA PendingLink ==
    ASSUME TypeOK, Locals, PendingInv, NEW p \in Client, PushLink(p)
    PROVE  PendingInv'
<1>1. /\ queue \in Seq(Entries)
      /\ \A i \in DOMAIN queue : queue[i].from \in Client /\ queue[i].ready \in BOOLEAN
  <2>1. queue \in Seq(Entries)
      BY DEF TypeOK, ChannelOK, Entries
  <2>2. \A i \in DOMAIN queue : queue[i] \in Entries
      BY <2>1
  <2>3. QED
      BY <2>1, <2>2 DEF Entries
<1>2. PICK k \in DOMAIN queue :
         queue[k].from = p /\ ~ queue[k].ready /\ queue' = [queue EXCEPT ![k].ready = TRUE]
    BY DEF PushLink, Queue!Publish
<1>3. /\ DOMAIN queue' = DOMAIN queue
      /\ \A i \in DOMAIN queue : i # k => queue'[i] = queue[i]
      /\ queue'[k].ready /\ queue'[k].val = queue[k].val
  <2>1. queue[k] \in Entries /\ queue' = [queue EXCEPT ![k] = [queue[k] EXCEPT !.ready = TRUE]]
      BY <1>1, <1>2
  <2>2. /\ [queue[k] EXCEPT !.ready = TRUE].ready
        /\ [queue[k] EXCEPT !.ready = TRUE].val = queue[k].val
      BY <2>1 DEF Entries
  <2>3. QED
      BY <1>1, <2>1, <2>2
<1>4. /\ pc[p] = "link" /\ pc' = [pc EXCEPT ![p] = "idle"]
      /\ finished' = finished \cup {val[p]}
      /\ UNCHANGED <<val, awaited, atStop, delivered, wpc, e>>
      /\ pc \in [Client -> {"idle", "count", "exchange", "link", "lock", "test",
                            "sleep", "flush"}]
    BY DEF PushLink, pushVars, waitVars, ownerVars, sinkVars, workerVars, TypeOK, PushOK
<1>5. k \in Unlinked /\ queue[k].val = val[p]
    BY <1>2 DEF PendingInv, EntriesOwned, Unlinked
<1>6. Unlinked' = Unlinked \ {k}
    BY <1>3 DEF Unlinked
<1>7. \A i \in Unlinked' : i \in DOMAIN queue /\ queue[i].from # p
    BY <1>2, <1>5, <1>6 DEF PendingInv, OneEntryEach, Unlinked
<1>8. EntriesOwned' /\ OneEntryEach'
    BY <1>1, <1>3, <1>4, <1>6, <1>7 DEF PendingInv, EntriesOwned, OneEntryEach
<1>9. NothingLost'
  <2>1. \A m : Queued(m) => Queued(m)'
      BY <1>3 DEF Queued
  <2>2. \A m : m = val[p] => Queued(m)'
      BY <1>3, <1>5 DEF Queued
  <2>3. QED
      BY <1>4, <2>1, <2>2 DEF PendingInv, NothingLost, Delivered, InHand
<1>10. QED
    BY <1>4, <1>8, <1>9 DEF PendingInv, Snapshots

\* The head leaves the queue: for the worker's hand, or for the sink at once.
LEMMA PendingDeliver ==
    ASSUME TypeOK, PendingInv, Queue!Deliver, UNCHANGED <<val, finished, awaited, atStop>>,
           \A p \in Client : pc[p] = "link" => pc'[p] = "link",
           \A m : Delivered(m) => Delivered(m)',
           \A m : InHand(m) => InHand(m)',
           \A m : m = Head(queue).val => InHand(m)' \/ Delivered(m)'
    PROVE  PendingInv'
<1> DEFINE n == Len(queue)
<1>1. /\ queue \in Seq(Entries) /\ DOMAIN queue = 1 .. n /\ n \in Nat
      /\ \A i \in 1 .. n : queue[i].from \in Client
  <2>1. queue \in Seq(Entries)
      BY DEF TypeOK, ChannelOK, Entries
  <2>2. \A i \in 1 .. n : queue[i] \in Entries
      BY <2>1
  <2>3. QED
      BY <2>1, <2>2 DEF Entries
<1>2. n # 0 /\ queue' = Tail(queue) /\ Head(queue) = queue[1]
    BY <1>1 DEF Queue!Deliver
<1>3. DOMAIN queue' = 1 .. n - 1 /\ \A i \in 1 .. n - 1 : queue'[i] = queue[i + 1]
    BY <1>1, <1>2
<1> HIDE DEF n
<1>4. \A i \in Unlinked' : i \in 1 .. n - 1 /\ i + 1 \in Unlinked /\ queue'[i] = queue[i + 1]
    BY <1>1, <1>3 DEF Unlinked
<1>5. \A i \in Unlinked : queue[i].from \in Client
    BY <1>1 DEF Unlinked
<1>6. EntriesOwned'
    BY <1>4, <1>5 DEF PendingInv, EntriesOwned
<1>7. OneEntryEach'
  <2>1. ASSUME NEW i \in Unlinked', NEW j \in Unlinked', queue'[i].from = queue'[j].from
        PROVE  i = j
    <3>1. i + 1 = j + 1
        BY <1>4, <2>1 DEF PendingInv, OneEntryEach
    <3>2. i \in Int /\ j \in Int
        BY <1>4
    <3>3. QED
        BY <3>1, <3>2
  <2>2. QED
      BY <2>1 DEF OneEntryEach
<1>8. NothingLost'
  <2>1. ASSUME NEW m, Queued(m)
        PROVE  m = Head(queue).val \/ Queued(m)'
    <3>1. PICK i \in 1 .. n : queue[i].val = m
        BY <1>1, <2>1 DEF Queued
    <3>2. CASE i = 1
        BY <1>2, <3>1, <3>2
    <3>3. CASE i # 1
      <4>1. i - 1 \in 1 .. n - 1 /\ queue'[i - 1] = queue[i]
          BY <1>1, <1>3, <3>3
      <4>2. QED
          BY <1>3, <3>1, <4>1 DEF Queued
    <3>4. QED
        BY <3>2, <3>3
  <2>2. QED
      BY <2>1 DEF PendingInv, NothingLost
<1>9. QED
    BY <1>6, <1>7, <1>8 DEF PendingInv, Snapshots

\* A client that is not at its link moves, and the queue and the sink stay.
LEMMA PendingClient ==
    ASSUME TypeOK, PendingInv, NEW p \in Client,
           \/ PushCheck(p) \/ PushCount(p) \/ WaitCall(p) \/ Wait(p)
           \/ WakeSpuriously(p) \/ FlushCall(p) \/ (FlushPop(p) /\ ~ CanPop)
    PROVE  PendingInv'
<1>1. UNCHANGED <<queue, finished, delivered, wpc, e, atStop>>
    BY DEF PushCheck, PushCount, WaitCall, Wait, WaitLock, WaitTest, WaitSleep,
           WakeSpuriously, FlushCall, FlushPop, Queue!Call, channel, pushVars,
           sinkVars, workerVars, ownerVars
<1>2. /\ pc \in [Client -> {"idle", "count", "exchange", "link", "lock", "test",
                            "sleep", "flush"}]
      /\ val \in [Client -> Message \cup {NoMessage}]
      /\ awaited \in [Client -> SUBSET Message]
    BY DEF TypeOK, PushOK, WaitOK
<1>3. /\ pc[p] # "link" \/ UNCHANGED <<pc, val>>
      /\ \A r \in Client : r # p => pc'[r] = pc[r] /\ val'[r] = val[r]
    BY <1>2
    DEF PushCheck, PushCount, WaitCall, Wait, WaitLock, WaitTest, WaitSleep,
        WakeSpuriously, FlushCall, FlushPop, pushVars
<1>4. \A r \in Client : awaited'[r] \subseteq finished
  <2>1. awaited' = awaited \/ awaited' = [awaited EXCEPT ![p] = finished]
      BY DEF PushCheck, PushCount, WaitCall, Wait, WaitLock, WaitTest, WaitSleep,
             WakeSpuriously, FlushCall, FlushPop, waitVars
  <2>2. QED
      BY <1>2, <2>1 DEF PendingInv, Snapshots
<1>5. atStop' \subseteq finished
    BY <1>1 DEF PendingInv, Snapshots
<1>6. QED
    BY <1>1, <1>3, <1>4, <1>5, PendingFrame DEF Delivered, InHand

LEMMA PendingFlush ==
    ASSUME TypeOK, PendingInv, NEW p \in Client, FlushPop(p), CanPop
    PROVE  PendingInv'
<1>1. /\ Queue!Deliver /\ Emit(Head(queue).val)
      /\ UNCHANGED <<pc, val, finished, awaited, atStop, wpc, e>>
    BY DEF FlushPop, pushVars, waitVars, ownerVars, workerVars
<1>2. Head(queue).val \in Message /\ delivered \in Seq(Message)
    BY <1>1, DeliverQueue DEF TypeOK, ChannelOK, SinkOK, Entries
<1>3. PICK m \in Message : m = Head(queue).val
    BY <1>2
<1>4. delivered' = Append(delivered, m)
    BY <1>1, <1>3 DEF Emit
<1>5. Delivered(m)' /\ \A x : Delivered(x) => Delivered(x)'
    BY <1>2, <1>4, AppendDelivered
<1>6. \A x : x = Head(queue).val => InHand(x)' \/ Delivered(x)'
    BY <1>3, <1>5
<1>7. \A x : InHand(x) => InHand(x)'
    BY <1>1 DEF InHand
<1>8. \A r \in Client : pc[r] = "link" => pc'[r] = "link"
    BY <1>1
<1>9. QED
    BY <1>1, <1>5, <1>6, <1>7, <1>8, PendingDeliver

LEMMA PendingRun ==
    ASSUME TypeOK, Locals, PendingInv, Run
    PROVE  PendingInv'
<1>1. UNCHANGED <<pc, val, finished, awaited, atStop>>
    BY DEF Run, RunCheck, RunPop, RunCallback, RunUncount, RunNotify, pushVars,
           waitVars, ownerVars
<1>2. (\A r \in Client : awaited'[r] \subseteq finished) /\ atStop' \subseteq finished
    BY <1>1 DEF PendingInv, Snapshots
<1>3. CASE RunPop /\ CanPop
  <2>1. /\ Queue!Deliver /\ delivered' = delivered /\ e' = Head(queue).val
        /\ wpc \in {"pop", "drainPop"} /\ wpc' \in {"callback", "drainCallback"}
      BY <1>3 DEF RunPop, sinkVars
  <2>2. \A x : Delivered(x) => Delivered(x)'
      BY <2>1 DEF Delivered
  <2>3. \A x : InHand(x) => InHand(x)'
      BY <2>1 DEF InHand
  <2>4. \A x : x = Head(queue).val => InHand(x)' \/ Delivered(x)'
      BY <2>1 DEF InHand
  <2>5. QED
      BY <1>1, <2>1, <2>2, <2>3, <2>4, PendingDeliver
<1>4. CASE RunCallback
  <2>1. e \in Message /\ delivered \in Seq(Message)
      BY <1>4 DEF RunCallback, Locals, Holding, TypeOK, SinkOK
  <2>2. PICK m \in Message : m = e
      BY <2>1
  <2>3. delivered' = Append(delivered, m) /\ queue' = queue
      BY <1>4, <2>2 DEF RunCallback, Emit, channel
  <2>4. Delivered(m)' /\ \A x : Delivered(x) => Delivered(x)'
      BY <2>1, <2>3, AppendDelivered
  <2>5. \A x : InHand(x) => InHand(x)' \/ Delivered(x)'
      BY <2>2, <2>4 DEF InHand
  <2>6. QED
      BY <1>1, <1>2, <2>3, <2>4, <2>5, PendingFrame
<1>5. CASE ~ RunCallback /\ ~ (RunPop /\ CanPop)
  <2>1. UNCHANGED <<queue, delivered, e>>
      BY <1>5
      DEF Run, RunCheck, RunPop, RunUncount, RunNotify, channel, sinkVars
  <2>2. wpc \notin {"callback", "drainCallback"}
      BY <1>5 DEF Run, RunCheck, RunPop, RunUncount, RunNotify
  <2>3. QED
      BY <1>1, <1>2, <2>1, <2>2, PendingFrame DEF Delivered, InHand
<1>6. QED
    BY <1>3, <1>4, <1>5

LEMMA PendingOwner ==
    ASSUME TypeOK, Locals, PendingInv,
           \/ Start \/ StopAccepting \/ Stop \/ SetCallbackReturns
           \/ \E s \in Sinks : SetCallback(s)
    PROVE  PendingInv'
<1>1. UNCHANGED <<queue, finished, delivered, e, pc, val, awaited>>
    BY Zenon
    DEF Start, StopAccepting, Stop, StopRunning, StopJoin, SetCallbackReturns,
        SetCallback, channel, pushVars, waitVars, workerVars, sinkVars
<1>2. atStop' \in {atStop, finished}
    BY DEF Start, StopAccepting, Stop, StopRunning, StopJoin, SetCallbackReturns,
           SetCallback, ownerVars
<1>3. wpc' = wpc \/ wpc \in {"none", "done"}
    BY DEF Start, StopAccepting, Stop, StopRunning, StopJoin, SetCallbackReturns,
           SetCallback, workerVars, Locals
<1>4. (\A r \in Client : awaited'[r] \subseteq finished) /\ atStop' \subseteq finished
    BY <1>1, <1>2 DEF PendingInv, Snapshots
<1>5. QED
    BY <1>1, <1>3, <1>4, PendingFrame DEF Delivered, InHand

LEMMA PendingStep == LoggerInv /\ PendingInv /\ [Next]_vars => PendingInv'
<1> SUFFICES ASSUME LoggerInv, PendingInv, [Next]_vars
             PROVE  PendingInv'
    OBVIOUS
<1>1. TypeOK /\ Locals
    BY DEF LoggerInv
<1>2. CASE UNCHANGED vars
  <2>1. UNCHANGED <<queue, finished, delivered, wpc, e, pc, val, awaited, atStop>>
      BY <1>2
      DEF vars, channel, pushVars, waitVars, workerVars, sinkVars, ownerVars
  <2>2. QED
      BY <1>1, <2>1, PendingFrame DEF PendingInv, Snapshots, Delivered, InHand
<1>3. CASE Next
    BY <1>1, <1>3, PendingClient, PendingExchange, PendingLink, PendingFlush,
       PendingRun, PendingOwner
    DEF Next, Push
<1>4. QED
    BY <1>2, <1>3

LEMMA PendingInit == Init => PendingInv
BY DEF Init, PendingInv, EntriesOwned, OneEntryEach, Unlinked, NothingLost, Snapshots

\* A message whose push has returned is never lost, for any clients, sinks and
\* overlaps, a stop() in the middle of pushes included.
THEOREM MessagesKept == Spec => []PendingInv
<1>1. QED
    BY PendingInit, PendingStep, LoggerInvariant, PTL DEF Spec

\* in_flight = 0 while a finished message is neither queued nor in hand: no
\* message is left but those the sink has.
LEMMA IdleMeansAll ==
    ASSUME LoggerInv, PendingInv, in_flight = 0
    PROVE  \A m \in finished : Delivered(m)
<1>1. /\ queue \in Seq(Entries) /\ Len(queue) \in Nat /\ flushed \in Nat
      /\ Cardinality(Counting) \in Nat
    BY CountingCard DEF LoggerInv, TypeOK, ChannelOK, SinkOK, Entries
<1>2. Len(queue) = 0 /\ ~ Holding
  <2> DEFINE held == IF Holding THEN 1 ELSE 0
  <2>1. held \in Nat /\ (held = 0 => ~ Holding)
      OBVIOUS
  <2>2. 0 = Len(queue) + Cardinality(Counting) + held + flushed
      BY DEF LoggerInv, InFlightCounts
  <2> HIDE DEF held
  <2>3. Len(queue) = 0 /\ held = 0
      BY <1>1, <2>1, <2>2
  <2>4. QED
      BY <2>1, <2>3
<1>3. \A m : ~ Queued(m) /\ ~ InHand(m)
  <2>1. queue = <<>>
      BY <1>1, <1>2
  <2>2. QED
      BY <1>2, <2>1 DEF Queued, InHand, Holding
<1>4. QED
    BY <1>3 DEF PendingInv, NothingLost

LEMMA IdleStep ==
    ASSUME LoggerInv, PendingInv, [Next]_vars,
           NEW p \in Client, pc[p] = "test", pc'[p] = "idle"
    PROVE  \A m \in awaited[p] : Delivered(m)
<1>1. pc \in [Client -> {"idle", "count", "exchange", "link", "lock", "test", "sleep",
                         "flush"}]
    BY DEF LoggerInv, TypeOK, PushOK
<1>2. in_flight = 0
  <2>1. ASSUME NEW r \in Client,
               \/ PushCheck(r) \/ Push(r) \/ WaitCall(r) \/ WaitLock(r) \/ WaitSleep(r)
               \/ WakeSpuriously(r) \/ FlushCall(r) \/ FlushPop(r)
        PROVE  FALSE
      BY <1>1, <2>1
      DEF PushCheck, Push, PushCount, PushExchange, PushLink, WaitCall, WaitLock,
          WaitSleep, WakeSpuriously, FlushCall, FlushPop
  <2>2. ASSUME NEW r \in Client, WaitTest(r)
        PROVE  in_flight = 0
      BY <1>1, <2>2 DEF WaitTest
  <2>3. ASSUME UNCHANGED pc
        PROVE  FALSE
      BY <2>3
  <2>4. CASE \/ Run \/ Start \/ StopAccepting \/ Stop \/ SetCallbackReturns
             \/ \E s \in Sinks : SetCallback(s)
    <3>1. UNCHANGED pc
        BY <2>4
        DEF Run, RunCheck, RunPop, RunCallback, RunUncount, RunNotify, Start,
            StopAccepting, Stop, StopRunning, StopJoin, SetCallbackReturns, SetCallback
    <3>2. QED
        BY <2>3, <3>1
  <2>5. CASE UNCHANGED vars
      BY <2>3, <2>5 DEF vars
  <2>6. QED
      BY <2>1, <2>2, <2>4, <2>5 DEF Next, Wait
<1>3. awaited[p] \subseteq finished
    BY DEF PendingInv, Snapshots
<1>4. QED
    BY <1>2, <1>3, IdleMeansAll

\* When wait_until_idle returns, the sink has every message whose push had
\* returned before the wait began: whatever the other threads do meanwhile,
\* set_callback, flush and stop included.
THEOREM IdleIsDelivered == Spec => IdleMeansDelivered
<1>1. LoggerInv /\ PendingInv /\ [Next]_vars
         => [\A p \in Client : pc[p] = "test" /\ pc'[p] = "idle"
                => \A m \in awaited[p] : Delivered(m)]_vars
    BY IdleStep
<1>2. QED
    BY <1>1, LoggerInvariant, MessagesKept, PTL DEF Spec, IdleMeansDelivered

-----------------------------------------------------------------------------
(* What stop() promises when no client is inside a call while it runs.       *)

\* Nobody is past the accepting test once it fails, so nothing more is queued.
Closed == ~ accepting => \A p \in Client : pc[p] \notin {"count", "exchange", "link"}

OwnerPlace ==
    /\ opc \in {"stopRunning", "join", "stopped"} => ~ accepting
    /\ opc \in {"started", "stopRunning"} => running
    /\ opc = "stopped" => wpc = "done"

Draining == {"drainPop", "drainCallback", "drainUncount", "lastNotify", "done"}

\* The worker leaves its loop only for the join, and the final drain only when
\* the queue is empty.
WorkerPlace ==
    /\ wpc \in Draining => opc \in {"join", "stopped"}
    /\ wpc \in {"lastNotify", "done"} => queue = <<>>

\* What the file holds are the first of the lines kept.
Began == /\ Len(file) <= Len(file_buffer)
         /\ \A i \in DOMAIN file : file[i] = file_buffer[i]

StopInv == Closed /\ OwnerPlace /\ WorkerPlace /\ Began /\ FileComplete

LEMMA StopInit == Init => StopInv
BY DEF Init, StopInv, Closed, OwnerPlace, WorkerPlace, Draining, Began, FileComplete

\* Behind a closed door every entry is linked, so the drain takes them all.
LEMMA ClosedIsReady ==
    ASSUME TypeOK, PendingInv, Closed, ~ accepting, ~ CanPop
    PROVE  queue = <<>>
<1>1. queue \in Seq(Entries)
    BY DEF TypeOK, ChannelOK, Entries
<1>2. ASSUME queue # <<>>
      PROVE  FALSE
  <2>1. /\ 1 \in DOMAIN queue /\ Head(queue) = queue[1] /\ queue[1] \in Entries
        /\ ~ queue[1].ready
      BY <1>1, <1>2 DEF CanPop
  <2>2. pc[queue[1].from] = "link" /\ queue[1].from \in Client
      BY <2>1 DEF PendingInv, EntriesOwned, Unlinked, Entries
  <2>3. QED
      BY <2>2 DEF Closed
<1>3. QED
    BY <1>2

\* One more line kept leaves the beginning as it was.
LEMMA BeganStays ==
    ASSUME file \in Seq(Message), file_buffer \in Seq(Message), Began, file' = file,
           file_buffer' = file_buffer
           \/ \E m \in Message : file_buffer' = Append(file_buffer, m)
    PROVE  Began'
<1>1. CASE file_buffer' = file_buffer
    BY <1>1 DEF Began
<1>2. ASSUME NEW m \in Message, file_buffer' = Append(file_buffer, m)
      PROVE  Began'
  <2>1. PICK n \in Nat, l \in Nat : n = Len(file_buffer) /\ l = Len(file)
      OBVIOUS
  <2>2. /\ Len(Append(file_buffer, m)) = n + 1
        /\ \A i \in 1 .. n : Append(file_buffer, m)[i] = file_buffer[i]
      BY <2>1
  <2>3. l <= n /\ DOMAIN file = 1 .. l /\ \A i \in 1 .. l : file[i] = file_buffer[i]
      BY <2>1 DEF Began
  <2>4. QED
      BY <1>2, <2>1, <2>2, <2>3 DEF Began
<1>3. QED
    BY <1>1, <1>2

\* Whether the write succeeds or not, the file begins like what was kept.
LEMMA BeganWritten ==
    ASSUME file \in Seq(Message), file_buffer \in Seq(Message), Began, flush_file,
           file_buffer' = file_buffer
    PROVE  Began' /\ (written' => file' = file_buffer \/ UNCHANGED fileVars)
<1>1. CASE file' = file
    BY <1>1 DEF Began, flush_file, fileVars
<1>2. CASE file' = file_buffer
    BY <1>2 DEF Began
<1>3. ASSUME NEW n \in 0 .. Len(file_buffer), file' = SubSeq(file_buffer, 1, n), ~ written'
      PROVE  Began'
  <2>1. /\ Len(SubSeq(file_buffer, 1, n)) = n
        /\ DOMAIN SubSeq(file_buffer, 1, n) = 1 .. n
        /\ \A i \in 1 .. n : SubSeq(file_buffer, 1, n)[i] = file_buffer[i]
      OBVIOUS
  <2>2. QED
      BY <1>3, <2>1 DEF Began
<1>4. QED
    BY <1>1, <1>2, <1>3 DEF flush_file, fileVars

\* A client's call that changes neither the queue nor the sink.
LEMMA StopClient ==
    ASSUME TypeOK, StopInv, NEW p \in Client,
           \/ PushCheck(p) \/ PushCount(p) \/ WaitCall(p) \/ Wait(p)
           \/ WakeSpuriously(p) \/ FlushCall(p) \/ (FlushPop(p) /\ ~ CanPop)
    PROVE  StopInv'
<1>1. UNCHANGED <<queue, accepting, running, wpc, opc, file, written, file_buffer>>
    BY DEF PushCheck, PushCount, WaitCall, Wait, WaitLock, WaitTest, WaitSleep,
           WakeSpuriously, FlushCall, FlushPop, Queue!Call, channel, flags, sinkVars,
           workerVars, ownerVars, fileVars
<1>2. pc \in [Client -> {"idle", "count", "exchange", "link", "lock", "test",
                         "sleep", "flush"}]
    BY DEF TypeOK, PushOK
<1>3. ~ accepting => \A r \in Client : pc'[r] \notin {"count", "exchange", "link"}
    BY <1>2
    DEF StopInv, Closed, PushCheck, PushCount, WaitCall, Wait, WaitLock, WaitTest,
        WaitSleep, WakeSpuriously, FlushCall, FlushPop
<1>4. Closed'
    BY <1>1, <1>3 DEF Closed
<1>5. QED
    BY <1>1, <1>4 DEF StopInv, OwnerPlace, WorkerPlace, Began, FileComplete

\* The exchange and the link need an open door, behind which nobody has stopped.
LEMMA StopPush ==
    ASSUME TypeOK, StopInv, NEW p \in Client, PushExchange(p) \/ PushLink(p)
    PROVE  StopInv'
<1>1. /\ pc[p] \in {"exchange", "link"}
      /\ UNCHANGED <<accepting, running, wpc, opc, file, written, file_buffer>>
    BY DEF PushExchange, PushLink, flags, sinkVars, workerVars, ownerVars, fileVars
<1>2. accepting
    BY <1>1 DEF StopInv, Closed
<1>3. opc \notin {"stopRunning", "join", "stopped"} /\ wpc \notin Draining
    BY <1>2 DEF StopInv, OwnerPlace, WorkerPlace
<1>4. QED
    BY <1>1, <1>2, <1>3
    DEF StopInv, Closed, OwnerPlace, WorkerPlace, Draining, Began, FileComplete

\* After the join there is nothing left for flush() to pop.
LEMMA StopFlush ==
    ASSUME TypeOK, StopInv, NEW p \in Client, FlushPop(p), CanPop
    PROVE  StopInv'
<1>1. /\ Emit(Head(queue).val) /\ queue # <<>>
      /\ UNCHANGED <<accepting, running, wpc, opc, file, written, pc>>
    BY DEF FlushPop, Queue!Deliver, flags, workerVars, ownerVars, fileVars
<1>2. wpc \notin {"lastNotify", "done"} /\ opc # "stopped"
    BY <1>1 DEF StopInv, WorkerPlace, OwnerPlace
<1>3. Began'
  <2>1. /\ file \in Seq(Message) /\ file_buffer \in Seq(Message)
        /\ Head(queue).val \in Message
      BY DeliverQueue DEF TypeOK, SinkOK, OwnerOK, ChannelOK, Entries, FlushPop
  <2>2. QED
      BY <1>1, <2>1, BeganStays DEF Emit, StopInv
<1>4. QED
    BY <1>1, <1>2, <1>3
    DEF StopInv, Closed, OwnerPlace, WorkerPlace, Began, FileComplete

LEMMA StopRun ==
    ASSUME TypeOK, Locals, PendingInv, StopInv, Run
    PROVE  StopInv'
<1>1. UNCHANGED <<accepting, running, opc, file, written, pc>>
    BY DEF Run, RunCheck, RunPop, RunCallback, RunUncount, RunNotify, flags, ownerVars, fileVars
<1>2. wpc \notin {"none", "done"} /\ opc \notin {"new", "stopped"}
    BY DEF Run, RunCheck, RunPop, RunCallback, RunUncount, RunNotify, Locals
<1>3. Began'
  <2>1. file_buffer' = file_buffer \/ (RunCallback /\ e \in Message)
      BY DEF Run, RunCheck, RunPop, RunCallback, RunUncount, RunNotify, sinkVars,
             Locals, Holding
  <2>2. file \in Seq(Message) /\ file_buffer \in Seq(Message)
      BY DEF TypeOK, SinkOK, OwnerOK
  <2>3. file_buffer' = file_buffer \/ \E m \in Message : file_buffer' = Append(file_buffer, m)
      BY <2>1 DEF RunCallback, Emit
  <2>4. QED
      BY <1>1, <2>2, <2>3, BeganStays DEF StopInv
<1>4. WorkerPlace'
  <2>1. CASE RunCheck
    <3>1. wpc' = "pop" \/ (wpc' = "drainPop" /\ ~ running /\ wpc = "loop")
        BY <2>1 DEF RunCheck
    <3>2. ~ running => opc = "join"
        BY <1>2 DEF StopInv, OwnerPlace, TypeOK, OwnerOK
    <3>3. QED
        BY <1>1, <3>1, <3>2 DEF WorkerPlace, Draining
  <2>2. CASE RunPop /\ CanPop
      BY <1>1, <2>2 DEF RunPop, StopInv, WorkerPlace, Draining
  <2>3. CASE RunPop /\ ~ CanPop
    <3>1. queue' = queue /\ (wpc' = "loop" \/ (wpc = "drainPop" /\ wpc' = "lastNotify"))
        BY <2>3 DEF RunPop, channel
    <3>2. wpc = "drainPop" => opc = "join" /\ ~ accepting
        BY <1>2 DEF StopInv, WorkerPlace, OwnerPlace, Draining
    <3>3. wpc = "drainPop" => queue = <<>>
        BY <2>3, <3>2, ClosedIsReady DEF StopInv
    <3>4. QED
        BY <1>1, <3>1, <3>2, <3>3 DEF WorkerPlace, Draining
  <2>4. CASE RunCallback
      BY <1>1, <2>4 DEF RunCallback, StopInv, WorkerPlace, Draining
  <2>5. CASE RunUncount
      BY <1>1, <2>5 DEF RunUncount, StopInv, WorkerPlace, Draining
  <2>6. CASE RunNotify
      BY <1>1, <2>6 DEF RunNotify, channel, StopInv, WorkerPlace, Draining
  <2>7. QED
      BY <2>1, <2>2, <2>3, <2>4, <2>5, <2>6 DEF Run
<1>5. QED
    BY <1>1, <1>2, <1>3, <1>4
    DEF StopInv, Closed, OwnerPlace, Began, FileComplete

LEMMA StopOwner ==
    ASSUME TypeOK, Locals, StopInv, "stop" \notin Overlaps,
           \/ Start \/ StopAccepting \/ Stop \/ SetCallbackReturns
           \/ \E s \in Sinks : SetCallback(s)
    PROVE  StopInv'
<1>1. UNCHANGED <<queue, pc, file_buffer>>
    BY Zenon
    DEF Start, StopAccepting, Stop, StopRunning, StopJoin, SetCallbackReturns,
        SetCallback, channel, sinkVars
<1> USE DEF StopInv, Closed, OwnerPlace, WorkerPlace, Draining, Began, FileComplete
<1>2. CASE Start
  <2>1. /\ opc' = "started" /\ wpc' = "loop" /\ running'
        /\ UNCHANGED <<accepting, file, written>>
      BY <1>2 DEF Start, fileVars
  <2>2. QED
      BY <1>1, <2>1
<1>3. CASE StopAccepting
  <2>1. /\ opc = "started" /\ opc' = "stopRunning" /\ ~ accepting'
        /\ \A p \in Client : pc[p] = "idle"
        /\ UNCHANGED <<running, wpc, file, written>>
      BY <1>3 DEF StopAccepting, workerVars, fileVars
  <2>2. wpc \notin Draining
      BY <2>1
  <2>3. QED
      BY <1>1, <2>1, <2>2
<1>4. CASE StopRunning
  <2>1. opc = "stopRunning" /\ opc' = "join" /\ UNCHANGED <<accepting, wpc, file, written>>
      BY <1>4 DEF StopRunning, workerVars, fileVars
  <2>2. QED
      BY <1>1, <2>1
<1>5. CASE StopJoin
  <2>1. /\ opc = "join" /\ wpc = "done" /\ opc' = "stopped" /\ flush_file
        /\ UNCHANGED <<accepting, running, wpc>>
      BY <1>5 DEF StopJoin, workerVars, flags
  <2>2. file \in Seq(Message) /\ file_buffer \in Seq(Message)
      BY DEF TypeOK, SinkOK, OwnerOK
  <2>3. Began' /\ (written' => file' = file_buffer')
    <3>1. CASE file_buffer = <<>>
      <4>1. UNCHANGED fileVars
          BY <2>1, <3>1 DEF flush_file
      <4>2. QED
          BY <1>1, <2>2, <3>1, <4>1 DEF fileVars
    <3>2. CASE file_buffer # <<>>
        BY <1>1, <2>1, <2>2, <3>2, BeganWritten DEF flush_file
    <3>3. QED
        BY <3>1, <3>2
  <2>4. QED
      BY <1>1, <2>1, <2>3
<1>6. CASE SetCallbackReturns \/ \E s \in Sinks : SetCallback(s)
  <2>1. UNCHANGED <<accepting, running, wpc, opc, file, written>>
      BY <1>6 DEF SetCallbackReturns, SetCallback, flags, workerVars, ownerVars, fileVars
  <2>2. QED
      BY <1>1, <2>1
<1>7. QED
    BY <1>2, <1>3, <1>4, <1>5, <1>6 DEF Stop

LEMMA StopStep ==
    ASSUME "stop" \notin Overlaps
    PROVE  LoggerInv /\ PendingInv /\ StopInv /\ [Next]_vars => StopInv'
<1> SUFFICES ASSUME LoggerInv, PendingInv, StopInv, [Next]_vars
             PROVE  StopInv'
    OBVIOUS
<1>1. TypeOK /\ Locals
    BY DEF LoggerInv
<1>2. CASE UNCHANGED vars
  <2>1. UNCHANGED <<queue, pc, accepting, running, wpc, opc, file, written, file_buffer>>
      BY <1>2 DEF vars, channel, flags, workerVars, sinkVars, ownerVars, fileVars
  <2>2. QED
      BY <2>1 DEF StopInv, Closed, OwnerPlace, WorkerPlace, Began, FileComplete
<1>3. CASE Next
    BY <1>1, <1>3, StopClient, StopPush, StopFlush, StopRun, StopOwner DEF Next, Push
<1>4. QED
    BY <1>2, <1>3

THEOREM StopInvariant ==
    ASSUME "stop" \notin Overlaps
    PROVE  Spec => []StopInv
<1>1. LoggerInv /\ PendingInv /\ StopInv /\ [Next]_vars => StopInv'
    BY StopStep
<1>2. QED
    BY <1>1, StopInit, LoggerInvariant, MessagesKept, PTL DEF Spec

\* "now everything is guaranteed drained": true of every stop() that no client's
\* call overlaps with, after a restart too.
THEOREM StopIsDrained ==
    ASSUME "stop" \notin Overlaps
    PROVE  Spec => []StopDrains
<1>1. ASSUME LoggerInv, PendingInv, StopInv, opc = "stopped"
      PROVE  \A m \in atStop : Delivered(m)
  <2>1. queue = <<>> /\ wpc = "done"
      BY <1>1 DEF StopInv, OwnerPlace, WorkerPlace
  <2>2. \A m : ~ Queued(m) /\ ~ InHand(m)
      BY <2>1 DEF Queued, InHand
  <2>3. QED
      BY <1>1, <2>2 DEF PendingInv, NothingLost, Snapshots
<1>2. LoggerInv /\ PendingInv /\ StopInv => StopDrains
    BY <1>1 DEF StopDrains
<1>3. QED
    BY <1>2, LoggerInvariant, MessagesKept, StopInvariant, PTL

\* A stop() that could write the file leaves every line the File sink was given in
\* it, and one that could not leaves a beginning of them.
THEOREM FileIsComplete ==
    ASSUME "stop" \notin Overlaps
    PROVE  Spec => []FileComplete
<1>1. StopInv => FileComplete
    BY DEF StopInv
<1>2. QED
    BY <1>1, StopInvariant, PTL

-----------------------------------------------------------------------------
(* The queue below has one consumer at a time, as its contract demands.      *)

FlushApart == \A p \in Client : pc[p] = "flush" => wpc \in {"none", "done"}

LEMMA FlushStep ==
    ASSUME "flush" \notin Overlaps
    PROVE  LoggerInv /\ FlushApart /\ [Next]_vars => FlushApart'
<1> SUFFICES ASSUME LoggerInv, FlushApart, [Next]_vars
             PROVE  FlushApart'
    OBVIOUS
<1>1. /\ pc \in [Client -> {"idle", "count", "exchange", "link", "lock", "test",
                            "sleep", "flush"}]
      /\ Locals
    BY DEF LoggerInv, TypeOK, PushOK
<1>2. ASSUME NEW p \in Client,
             \/ PushCheck(p) \/ Push(p) \/ WaitCall(p) \/ Wait(p)
             \/ WakeSpuriously(p) \/ FlushPop(p)
      PROVE  FlushApart'
  <2>1. wpc' = wpc /\ \A r \in Client : pc'[r] = "flush" => pc[r] = "flush"
      BY <1>1, <1>2
      DEF PushCheck, Push, PushCount, PushExchange, PushLink, WaitCall, Wait, WaitLock,
          WaitTest, WaitSleep, WakeSpuriously, FlushPop, workerVars
  <2>2. QED
      BY <2>1 DEF FlushApart
<1>3. ASSUME NEW p \in Client, FlushCall(p)
      PROVE  FlushApart'
    BY <1>1, <1>3 DEF FlushCall, FlushApart, workerVars
<1>4. CASE Run
    BY <1>4
    DEF FlushApart, Run, RunCheck, RunPop, RunCallback, RunUncount, RunNotify
<1>5. CASE Start
    BY <1>5 DEF FlushApart, Start
<1>6. CASE \/ StopAccepting \/ Stop \/ SetCallbackReturns \/ UNCHANGED vars
           \/ \E s \in Sinks : SetCallback(s)
    BY <1>6
    DEF FlushApart, StopAccepting, Stop, StopRunning, StopJoin, SetCallbackReturns,
        SetCallback, workerVars, vars
<1>7. QED
    BY <1>2, <1>3, <1>4, <1>5, <1>6 DEF Next

\* While flush() is not called next to a worker at work, the queue's try_pop has
\* one caller at a time, restarts and stops at any moment included.
THEOREM OneConsumer ==
    ASSUME "flush" \notin Overlaps
    PROVE  Spec => []SingleConsumer
<1>1. Init => FlushApart
    BY DEF Init, FlushApart
<1>2. FlushApart => SingleConsumer
    BY DEF FlushApart, SingleConsumer
<1>3. LoggerInv /\ FlushApart /\ [Next]_vars => FlushApart'
    BY FlushStep
<1>4. QED
    BY <1>1, <1>2, <1>3, LoggerInvariant, PTL DEF Spec
=============================================================================
