---------------------------- MODULE WindowProofs ----------------------------
(***************************************************************************)
(* Machine-checked proofs about Window and its two parts, the queue        *)
(* (SPSCQueue, of which the window has an instance) and the event bus      *)
(* (EventBus): for any types of events, any capacity, any number of        *)
(* listeners, publications nested to any depth and any bounds.             *)
(*                                                                         *)
(* First the queue alone, up to its refinement of MPSCChannel; then the    *)
(* bus alone; then the window, a step of which is a step or a stutter of   *)
(* each of them.                                                           *)
(***************************************************************************)
EXTENDS Window, SequenceTheorems, TLAPS

-----------------------------------------------------------------------------
(* The queue: its slots as a circle *)

\* The remainder of a sum that passes the end of the buffer by less than one.
LEMMA AfterSlot ==
    ASSUME Queue!ConstantsOK, NEW i \in Queue!Slots
    PROVE  /\ Queue!After(i) \in Queue!Slots
           /\ Queue!After(i) = IF i = Capacity - 1 THEN 0 ELSE i + 1
<1>1. CASE i = Capacity - 1
    BY <1>1 DEF Queue!ConstantsOK, Queue!After, Queue!Slots
<1>2. CASE i # Capacity - 1
    BY <1>2 DEF Queue!ConstantsOK, Queue!After, Queue!Slots
<1>3. QED
    BY <1>1, <1>2

\* Publishing a slot makes the published part longer by that slot, if it does
\* not close the circle.
LEMMA AheadOfNext ==
    ASSUME Queue!ConstantsOK, NEW r \in Queue!Slots, NEW w \in Queue!Slots,
           NEW s \in Queue!Slots, Queue!After(w) # r,
           read_index = r
    PROVE  Queue!Ahead(s) < Queue!Ahead(Queue!After(w)) <=> Queue!Ahead(s) < Queue!Ahead(w) \/ s = w
    BY AfterSlot DEF Queue!ConstantsOK, Queue!Ahead, Queue!Slots

-----------------------------------------------------------------------------
(* The queue: every operation keeps the invariant *)

LEMMA QueueInitInv ==
    ASSUME Queue!ConstantsOK, Queue!Init
    PROVE  Queue!QueueInv
<1>1. Queue!TypeOK
    BY DEF Queue!ConstantsOK, Queue!Init, Queue!TypeOK, Queue!Slots
<1>2. Queue!Apart
    BY DEF Queue!Init, Queue!Apart
<1>3. Queue!Objects
    BY DEF Queue!ConstantsOK, Queue!Init, Queue!Objects, Queue!Ahead, Queue!Published,
           Queue!Slots
<1>4. QED
    BY <1>1, <1>2, <1>3 DEF Queue!QueueInv

LEMMA PushInv ==
    ASSUME Queue!ConstantsOK, Queue!QueueInv, NEW v \in Event, Queue!Push(v)
    PROVE  Queue!QueueInv'
<1>1. Queue!TypeOK'
    BY DEF Queue!QueueInv, Queue!TypeOK, Queue!Push, Queue!consumerVars
<1>2. Queue!Apart'
    BY DEF Queue!QueueInv, Queue!TypeOK, Queue!Apart, Queue!Push, Queue!consumerVars,
           Queue!After
<1>3. Queue!Objects'
    BY DEF Queue!QueueInv, Queue!Objects, Queue!Ahead, Queue!Published, Queue!Push,
           Queue!consumerVars
<1>4. QED
    BY <1>1, <1>2, <1>3 DEF Queue!QueueInv

LEMMA PushCheckInv ==
    ASSUME Queue!ConstantsOK, Queue!QueueInv, Queue!PushCheck
    PROVE  Queue!QueueInv'
<1>1. Queue!TypeOK'
    BY DEF Queue!QueueInv, Queue!TypeOK, Queue!PushCheck, Queue!consumerVars
<1>2. Queue!Apart'
    BY DEF Queue!QueueInv, Queue!Apart, Queue!PushCheck, Queue!Full, Queue!consumerVars,
           Queue!After
<1>3. Queue!Objects'
    BY DEF Queue!QueueInv, Queue!Objects, Queue!Ahead, Queue!Published, Queue!PushCheck,
           Queue!consumerVars
<1>4. QED
    BY <1>1, <1>2, <1>3 DEF Queue!QueueInv

LEMMA PushWriteInv ==
    ASSUME Queue!ConstantsOK, Queue!QueueInv, Queue!PushWrite
    PROVE  Queue!QueueInv'
<1>1. Queue!TypeOK'
    BY DEF Queue!QueueInv, Queue!TypeOK, Queue!PushWrite, Queue!consumerVars
<1>2. Queue!Apart'
    BY DEF Queue!QueueInv, Queue!Apart, Queue!PushWrite, Queue!consumerVars, Queue!After
<1>3. ~ (Queue!Ahead(write_index) < Queue!Published)
    BY DEF Queue!ConstantsOK, Queue!QueueInv, Queue!TypeOK, Queue!Ahead, Queue!Published,
           Queue!Slots
<1>4. \A s \in Queue!Slots : Queue!Ahead(s)' = Queue!Ahead(s) /\ Queue!Published' = Queue!Published
    BY DEF Queue!PushWrite, Queue!Ahead, Queue!Published
<1>5. item # Raw
    BY DEF Queue!ConstantsOK, Queue!QueueInv, Queue!Apart, Queue!PushWrite
<1>6. Queue!Objects'
    BY <1>3, <1>4, <1>5 DEF Queue!QueueInv, Queue!TypeOK, Queue!Objects, Queue!PushWrite,
                            Queue!consumerVars
<1>7. QED
    BY <1>1, <1>2, <1>6 DEF Queue!QueueInv

LEMMA PushStoreInv ==
    ASSUME Queue!ConstantsOK, Queue!QueueInv, Queue!PushStore
    PROVE  Queue!QueueInv'
<1>1. Queue!TypeOK'
    BY AfterSlot DEF Queue!QueueInv, Queue!TypeOK, Queue!PushStore, Queue!consumerVars
<1>2. Queue!Apart'
    BY DEF Queue!QueueInv, Queue!Apart, Queue!PushStore, Queue!consumerVars
<1>3. ASSUME NEW s \in Queue!Slots
      PROVE  Queue!Ahead(s)' < Queue!Published'
               <=> Queue!Ahead(s) < Queue!Published \/ s = write_index
  <2>1. Queue!After(write_index) # read_index
      BY DEF Queue!QueueInv, Queue!Apart, Queue!PushStore
  <2>2. Queue!Ahead(s) < Queue!Ahead(Queue!After(write_index))
          <=> Queue!Ahead(s) < Queue!Ahead(write_index) \/ s = write_index
      BY <2>1, AheadOfNext DEF Queue!QueueInv, Queue!TypeOK
  <2>3. QED
      BY <2>2 DEF Queue!Ahead, Queue!Published, Queue!PushStore
<1>4. cpc = "store" => read_index # write_index
    BY DEF Queue!QueueInv, Queue!Apart
<1>5. Queue!Objects'
    BY <1>3, <1>4 DEF Queue!QueueInv, Queue!Objects, Queue!PushStore, Queue!consumerVars
<1>6. QED
    BY <1>1, <1>2, <1>5 DEF Queue!QueueInv

LEMMA PopCheckInv ==
    ASSUME Queue!ConstantsOK, Queue!QueueInv, Queue!PopCheck
    PROVE  Queue!QueueInv'
<1>1. Queue!TypeOK'
    BY DEF Queue!QueueInv, Queue!TypeOK, Queue!PopCheck, Queue!producerVars
<1>2. Queue!Apart'
    BY DEF Queue!QueueInv, Queue!Apart, Queue!PopCheck, Queue!producerVars, Queue!After
<1>3. Queue!Objects'
    BY DEF Queue!QueueInv, Queue!Objects, Queue!Ahead, Queue!Published, Queue!PopCheck,
           Queue!producerVars
<1>4. QED
    BY <1>1, <1>2, <1>3 DEF Queue!QueueInv

\* The oldest published slot holds an object, which the consumer gets.
LEMMA PopMoveInv ==
    ASSUME Queue!ConstantsOK, Queue!QueueInv, Queue!PopMove
    PROVE  Queue!QueueInv'
<1>1. read_index # write_index
    BY DEF Queue!QueueInv, Queue!Apart, Queue!PopMove
<1>2. Queue!Ahead(read_index) < Queue!Published
    BY <1>1 DEF Queue!ConstantsOK, Queue!QueueInv, Queue!TypeOK, Queue!Ahead,
                Queue!Published, Queue!Slots
<1>3. buffer[read_index] \in Event
    BY <1>2 DEF Queue!QueueInv, Queue!TypeOK, Queue!Objects, Queue!PopMove
<1>4. Queue!TypeOK'
    BY <1>3 DEF Queue!QueueInv, Queue!TypeOK, Queue!PopMove, Queue!producerVars
<1>5. Queue!Apart'
    BY <1>1, <1>3 DEF Queue!QueueInv, Queue!Apart, Queue!PopMove, Queue!producerVars,
                      Queue!After
<1>6. \A s \in Queue!Slots : Queue!Ahead(s)' = Queue!Ahead(s) /\ Queue!Published' = Queue!Published
    BY DEF Queue!PopMove, Queue!Ahead, Queue!Published
<1>7. Queue!Objects'
    BY <1>1, <1>6 DEF Queue!QueueInv, Queue!TypeOK, Queue!Objects, Queue!PopMove,
                      Queue!producerVars
<1>8. QED
    BY <1>4, <1>5, <1>7 DEF Queue!QueueInv

LEMMA PopStoreInv ==
    ASSUME Queue!ConstantsOK, Queue!QueueInv, Queue!PopStore
    PROVE  Queue!QueueInv'
<1>1. read_index # write_index /\ taken \in Event
    BY DEF Queue!QueueInv, Queue!Apart, Queue!PopStore
<1>2. Queue!TypeOK'
    BY AfterSlot DEF Queue!QueueInv, Queue!TypeOK, Queue!PopStore, Queue!producerVars
<1> DEFINE r == Queue!After(read_index)
           w == Queue!After(write_index)
<1>s. read_index \in Queue!Slots /\ write_index \in Queue!Slots
    BY DEF Queue!QueueInv, Queue!TypeOK
<1>r. r \in Queue!Slots /\ r = IF read_index = Capacity - 1 THEN 0 ELSE read_index + 1
    BY <1>s, AfterSlot
<1>w. w \in Queue!Slots /\ w = IF write_index = Capacity - 1 THEN 0 ELSE write_index + 1
    BY <1>s, AfterSlot
<1>3. w # r
  <2> HIDE DEF r, w
  <2> QED
      BY <1>1, <1>s, <1>r, <1>w DEF Queue!Slots
<1>4. Queue!Apart'
    BY <1>3 DEF Queue!QueueInv, Queue!Apart, Queue!PopStore, Queue!producerVars, Queue!After
<1>5. ASSUME NEW s \in Queue!Slots
      PROVE  Queue!Ahead(s)' < Queue!Published'
               <=> Queue!Ahead(s) < Queue!Published /\ s # read_index
  <2>1. read_index' = r /\ write_index' = write_index
      BY DEF Queue!PopStore
  <2> HIDE DEF r
  <2>2. QED
      BY <1>1, <1>s, <1>r, <2>1 DEF Queue!ConstantsOK, Queue!Ahead, Queue!Published, Queue!Slots
<1>6. Queue!Objects'
    BY <1>1, <1>5 DEF Queue!QueueInv, Queue!Objects, Queue!PopStore, Queue!producerVars
<1>7. QED
    BY <1>2, <1>4, <1>6 DEF Queue!QueueInv

LEMMA QueueStutterInv ==
    ASSUME Queue!ConstantsOK, Queue!QueueInv, UNCHANGED Queue!queueVars
    PROVE  Queue!QueueInv'
    BY DEF Queue!QueueInv, Queue!TypeOK, Queue!Apart, Queue!Objects, Queue!Ahead,
           Queue!Published, Queue!After, Queue!queueVars,
           Queue!producerVars, Queue!consumerVars

LEMMA QueueStepInv ==
    ASSUME Queue!ConstantsOK, Queue!QueueInv, [Queue!Next]_(Queue!queueVars)
    PROVE  Queue!QueueInv'
<1>1. ASSUME NEW v \in Event, Queue!Push(v) PROVE Queue!QueueInv'
    BY <1>1, PushInv
<1>2. CASE Queue!PushSteps
    BY <1>2, PushCheckInv, PushWriteInv, PushStoreInv DEF Queue!PushSteps
<1>3. CASE Queue!PopNothing
    BY <1>3, QueueStutterInv DEF Queue!PopNothing
<1>4. CASE Queue!PopCheck
    BY <1>4, PopCheckInv
<1>5. CASE Queue!PopMove
    BY <1>5, PopMoveInv
<1>6. CASE Queue!PopStore
    BY <1>6, PopStoreInv
<1>7. CASE UNCHANGED Queue!queueVars
    BY <1>7, QueueStutterInv
<1>8. QED
    BY <1>1, <1>2, <1>3, <1>4, <1>5, <1>6, <1>7 DEF Queue!Next

\* For every capacity: a construction meets only raw memory, a move only an object,
\* and the two threads never work on one slot, although each uses an index of the
\* other that it loaded before.
THEOREM QueueInvariant ==
    ASSUME Queue!ConstantsOK
    PROVE  Queue!Spec => []Queue!QueueInv
<1>1. Queue!Init => Queue!QueueInv
    BY QueueInitInv
<1>2. Queue!QueueInv /\ [Queue!Next]_(Queue!queueVars) => Queue!QueueInv'
    BY QueueStepInv
<1>3. QED
    BY <1>1, <1>2, PTL DEF Queue!Spec

-----------------------------------------------------------------------------
(* Sequences given by their elements *)

LEMMA AsSeq ==
    ASSUME NEW m \in Nat, NEW q, q = [k \in 1 .. m |-> q[k]]
    PROVE  q \in Seq({q[k] : k \in 1 .. m}) /\ Len(q) = m /\ DOMAIN q = 1 .. m
<1>1. q \in [1 .. m -> {q[k] : k \in 1 .. m}]
    OBVIOUS
<1>2. QED
    BY <1>1

LEMMA AsAppend ==
    ASSUME NEW m \in Nat, NEW q, q = [k \in 1 .. m |-> q[k]],
           NEW r, r = [k \in 1 .. m + 1 |-> r[k]],
           \A k \in 1 .. m : r[k] = q[k]
    PROVE  r = Append(q, r[m + 1])
<1> DEFINE S == {r[k] : k \in 1 .. m + 1}
<1>1. 1 .. m \subseteq 1 .. m + 1 /\ m + 1 \in 1 .. m + 1 /\ m + 1 \in Nat
    OBVIOUS
<1>2. r \in Seq(S) /\ Len(r) = m + 1 /\ r[m + 1] \in S
    BY <1>1, AsSeq
<1>3. q \in [1 .. m -> S]
    BY <1>1
<1> HIDE DEF S
<1>4. q \in Seq(S) /\ Len(q) = m
    BY <1>3
<1>5. QED
    BY <1>1, <1>2, <1>4, SMTT(40)

LEMMA AsTail ==
    ASSUME NEW m \in Nat, m > 0, NEW q, q = [k \in 1 .. m |-> q[k]],
           NEW r, r = [k \in 1 .. m - 1 |-> r[k]],
           \A k \in 1 .. m - 1 : r[k] = q[k + 1]
    PROVE  q # <<>> /\ Head(q) = q[1] /\ r = Tail(q)
<1> DEFINE S == {q[k] : k \in 1 .. m}
<1>1. m - 1 \in Nat /\ \A k \in 1 .. m - 1 : k + 1 \in 1 .. m
    OBVIOUS
<1>2. q \in Seq(S) /\ Len(q) = m
    BY AsSeq
<1>3. r \in [1 .. m - 1 -> S]
    BY <1>1
<1> HIDE DEF S
<1>4. r \in Seq(S) /\ Len(r) = m - 1
    BY <1>1, <1>3
<1>5. q # <<>> /\ Head(q) = q[1]
    BY <1>2
<1>6. Tail(q) \in Seq(S) /\ Len(Tail(q)) = m - 1
    BY <1>2, <1>5
<1>7. \A k \in 1 .. m - 1 : Tail(q)[k] = q[k + 1]
    BY <1>2, <1>5
<1>8. r = Tail(q)
  <2>1. Tail(q) = [k \in 1 .. m - 1 |-> Tail(q)[k]]
      BY <1>1, <1>6
  <2>2. QED
      BY <1>7, <2>1
<1>9. QED
    BY <1>5, <1>8

LEMMA MarkReady ==
    ASSUME NEW a, NEW b, NEW c, NEW d
    PROVE  [[from |-> a, val |-> b, ready |-> c] EXCEPT !.ready = d]
             = [from |-> a, val |-> b, ready |-> d]
    OBVIOUS

-----------------------------------------------------------------------------
(* The queue: the refinement *)

\* The object under construction is the one push was called with.
Constructed == ppc = "store" => buffer[write_index] = item

SlotAt(k) == (read_index + k - 1) % Capacity
Unready   == [from |-> "producer", val |-> item, ready |-> FALSE]
Ready(v)  == [from |-> "producer", val |-> v, ready |-> TRUE]
Held(k)   == IF k = 1 /\ cpc = "store" THEN taken ELSE buffer[SlotAt(k)]
Entry(k)  == IF k > Queue!Published THEN Unready ELSE Ready(Held(k))
Size      == Queue!Published + (IF Queue!Pending THEN 1 ELSE 0)

LEMMA QBarIs == Queue!qBar = [k \in 1 .. Size |-> Entry(k)]
BY DEF Queue!qBar, Size, Entry, Unready, Ready, Held, SlotAt

LEMMA QBarIsNext == (Queue!qBar = [k \in 1 .. Size |-> Entry(k)])'
BY QBarIs, PTL

LEMMA PublishedIs ==
    ASSUME Queue!ConstantsOK, Queue!QueueInv
    PROVE  /\ Queue!Published \in 0 .. Capacity - 1
           /\ Queue!Published = 0 <=> read_index = write_index
BY DEF Queue!ConstantsOK, Queue!QueueInv, Queue!TypeOK, Queue!Published, Queue!Ahead,
       Queue!Slots

LEMMA Remainder ==
    ASSUME NEW n \in Nat \ {0}, NEW x \in Nat, n <= x, x < 2 * n
    PROVE  x % n = x - n
<1> DEFINE d == x \div n
           e == x % n
<1>1. d \in Nat /\ e \in 0 .. n - 1 /\ x = n * d + e
    OBVIOUS
<1> HIDE DEF d
<1>2. CASE d = 0
    BY <1>1, <1>2
<1>3. CASE d = 1
    BY <1>1, <1>3
<1>4. CASE d >= 2
  <2>1. n * d >= n * 2
      BY <1>1, <1>4
  <2> HIDE DEF e
  <2>2. QED
      BY <1>1, <2>1
<1>5. QED
    BY <1>1, <1>2, <1>3, <1>4

\* The k-th slot from the consumer's, on the circle.
LEMMA SlotAtIs ==
    ASSUME Queue!ConstantsOK, Queue!QueueInv, NEW k \in 1 .. Capacity
    PROVE  /\ SlotAt(k) \in Queue!Slots
           /\ Queue!Ahead(SlotAt(k)) = k - 1
<1>1. read_index \in Queue!Slots /\ Capacity \in Nat \ {0}
    BY DEF Queue!ConstantsOK, Queue!QueueInv, Queue!TypeOK
<1>2. PICK x \in Nat : x = read_index + k - 1
    BY <1>1 DEF Queue!Slots
<1>3. SlotAt(k) = x % Capacity
    BY <1>2 DEF SlotAt
<1>4. x < 2 * Capacity
    BY <1>1, <1>2 DEF Queue!Slots
<1>5. x % Capacity = IF x < Capacity THEN x ELSE x - Capacity
  <2>1. x < Capacity => x % Capacity = x
      BY <1>1
  <2>2. x >= Capacity => x % Capacity = x - Capacity
      BY <1>1, <1>4, Remainder
  <2>3. QED
      BY <1>1, <2>1, <2>2
<1>6. SlotAt(k) = IF x < Capacity THEN x ELSE x - Capacity
    BY <1>3, <1>5
<1>7. QED
    BY <1>1, <1>2, <1>4, <1>6 DEF Queue!Slots, Queue!Ahead

LEMMA SlotAtIsNext ==
    ASSUME Queue!ConstantsOK
    PROVE  Queue!QueueInv' => \A k \in 1 .. Capacity :
                           SlotAt(k)' \in Queue!Slots /\ Queue!Ahead(SlotAt(k))' = k - 1
<1>1. Queue!QueueInv => \A k \in 1 .. Capacity :
                           SlotAt(k) \in Queue!Slots /\ Queue!Ahead(SlotAt(k)) = k - 1
    BY SlotAtIs
<1>2. (Queue!QueueInv => \A k \in 1 .. Capacity :
                            SlotAt(k) \in Queue!Slots /\ Queue!Ahead(SlotAt(k)) = k - 1)'
    BY <1>1, PTL
<1>3. QED
    BY <1>2

\* The slot behind the published ones is the producer's, and it is no other.
LEMMA SlotAtEnds ==
    ASSUME Queue!ConstantsOK, Queue!QueueInv
    PROVE  /\ SlotAt(Queue!Published + 1) = write_index
           /\ SlotAt(1) = read_index
           /\ \A k \in 1 .. Queue!Published : SlotAt(k) # write_index
           /\ \A k \in 1 .. Queue!Published : k # 1 => SlotAt(k) # read_index
<1>1. /\ Queue!Published \in 0 .. Capacity - 1 /\ Capacity \in Nat \ {0}
      /\ read_index \in Queue!Slots /\ write_index \in Queue!Slots
    BY PublishedIs DEF Queue!ConstantsOK, Queue!QueueInv, Queue!TypeOK
<1>2. \A s, u \in Queue!Slots : Queue!Ahead(s) = Queue!Ahead(u) => s = u
    BY <1>1 DEF Queue!Ahead, Queue!Slots
<1>3. Queue!Ahead(write_index) = Queue!Published /\ Queue!Ahead(read_index) = 0
    BY <1>1 DEF Queue!Published, Queue!Ahead, Queue!Slots
<1>4. \A k \in 1 .. Queue!Published + 1 :
         k \in 1 .. Capacity /\ SlotAt(k) \in Queue!Slots /\ Queue!Ahead(SlotAt(k)) = k - 1
  <2>1. \A k \in 1 .. Queue!Published + 1 : k \in 1 .. Capacity
      BY <1>1
  <2>2. QED
      BY <2>1, SlotAtIs
<1>5. /\ Queue!Published + 1 \in 1 .. Queue!Published + 1 /\ 1 \in 1 .. Queue!Published + 1
      /\ \A k \in 1 .. Queue!Published :
            k \in 1 .. Queue!Published + 1 /\ k - 1 # Queue!Published /\ (k # 1 => k - 1 # 0)
      /\ (Queue!Published + 1) - 1 = Queue!Published
    BY <1>1
<1>6. QED
    BY <1>1, <1>2, <1>3, <1>4, <1>5
LEMMA ConstructedStep ==
    ASSUME Queue!ConstantsOK, Queue!QueueInv, Constructed, [Queue!Next]_(Queue!queueVars)
    PROVE  Constructed'
<1>1. write_index \in Queue!Slots /\ buffer \in [Queue!Slots -> Event \cup {Raw}]
    BY DEF Queue!QueueInv, Queue!TypeOK
<1>2. ASSUME NEW v \in Event, Queue!Push(v) PROVE Constructed'
    BY <1>2 DEF Queue!Push, Constructed
<1>3. CASE Queue!PushCheck \/ Queue!PushStore
    BY <1>3 DEF Queue!PushCheck, Queue!PushStore, Constructed
<1>4. CASE Queue!PushWrite
    BY <1>1, <1>4 DEF Queue!PushWrite, Constructed
<1>5. CASE Queue!PopNothing \/ Queue!PopCheck \/ Queue!PopStore \/ UNCHANGED Queue!queueVars
    BY <1>5 DEF Queue!PopNothing, Queue!PopCheck, Queue!PopStore, Queue!queueVars,
                Queue!producerVars, Constructed
<1>6. CASE Queue!PopMove
  <2>1. read_index # write_index
      BY <1>6 DEF Queue!PopMove, Queue!QueueInv, Queue!Apart
  <2>2. QED
      BY <1>1, <1>6, <2>1 DEF Queue!PopMove, Queue!producerVars, Constructed
<1>7. QED
    BY <1>2, <1>3, <1>4, <1>5, <1>6 DEF Queue!Next, Queue!PushSteps

\* What two states agree on, the queue they stand for agrees on.
LEMMA QBarStays ==
    ASSUME Size' = Size, \A k \in 1 .. Size : Entry(k)' = Entry(k)
    PROVE  Queue!qBar' = Queue!qBar
BY QBarIs, QBarIsNext

LEMMA StageIs ==
    /\ ppc = "idle" => Queue!stageBar = [p \in {"producer"} |-> "idle"]
    /\ ppc = "check" => Queue!stageBar = [p \in {"producer"} |-> "calling"]
    /\ ppc \in {"write", "store"} => Queue!stageBar = [p \in {"producer"} |-> "accepted"]
BY DEF Queue!stageBar, Queue!Pending

LEMMA StageIsNext ==
    (/\ ppc = "idle" => Queue!stageBar = [p \in {"producer"} |-> "idle"]
     /\ ppc = "check" => Queue!stageBar = [p \in {"producer"} |-> "calling"]
     /\ ppc \in {"write", "store"} => Queue!stageBar = [p \in {"producer"} |-> "accepted"])'
BY StageIs, PTL

LEMMA SetStage ==
    ASSUME NEW a, NEW b, NEW s, s = [p \in {"producer"} |-> a]
    PROVE  /\ s["producer"] = a
           /\ [p \in {"producer"} |-> b] = [s EXCEPT !["producer"] = b]
OBVIOUS

LEMMA RefineCall ==
    ASSUME Queue!ConstantsOK, Queue!QueueInv, NEW v \in Event, Queue!Push(v)
    PROVE  Queue!Channel!Call("producer")
<1>1. /\ UNCHANGED <<read_index, write_index, buffer, cpc, taken, out>>
      /\ ppc = "idle" /\ ppc' = "check"
    BY DEF Queue!Push, Queue!consumerVars
<1>2. Queue!Published \in Nat /\ Queue!Published' = Queue!Published
    BY <1>1, PublishedIs DEF Queue!Published, Queue!Ahead
<1>3. Size = Queue!Published /\ Size' = Queue!Published
    BY <1>1, <1>2 DEF Size, Queue!Pending
<1>4. ASSUME NEW k \in 1 .. Queue!Published
      PROVE  Entry(k)' = Entry(k)
  <2>1. ~ (k > Queue!Published)
      BY <1>2
  <2>2. Held(k)' = Held(k)
      BY <1>1 DEF Held, SlotAt
  <2>3. QED
      BY <1>2, <2>1, <2>2 DEF Entry, Ready
<1>5. Queue!qBar' = Queue!qBar
    BY <1>3, <1>4, QBarStays
<1>6. /\ Queue!stageBar = [p \in {"producer"} |-> "idle"]
      /\ Queue!stageBar' = [p \in {"producer"} |-> "calling"]
    BY <1>1, StageIs, StageIsNext
<1>7. QED
    BY <1>1, <1>5, <1>6, SetStage DEF Queue!Channel!Call

\* One slot stays free: a value finds its place only among Capacity - 1.
LEMMA RefineCheck ==
    ASSUME Queue!ConstantsOK, Queue!QueueInv, Queue!PushCheck
    PROVE  IF Queue!Full THEN Queue!Channel!Refuse("producer")
                   ELSE Queue!Channel!Accept("producer", item) /\ item \in Event
<1>1. /\ UNCHANGED <<read_index, write_index, buffer, item, cpc, taken, out>>
      /\ ppc = "check" /\ ppc' = IF Queue!Full THEN "idle" ELSE "write"
    BY DEF Queue!PushCheck, Queue!consumerVars
<1>2. Queue!Published \in Nat /\ Queue!Published' = Queue!Published
    BY <1>1, PublishedIs DEF Queue!Published, Queue!Ahead
<1>3. Size = Queue!Published
    BY <1>1, <1>2 DEF Size, Queue!Pending
<1>4. ASSUME NEW k \in 1 .. Queue!Published
      PROVE  Entry(k)' = Entry(k)
  <2>1. ~ (k > Queue!Published)
      BY <1>2
  <2>2. Held(k)' = Held(k)
      BY <1>1 DEF Held, SlotAt
  <2>3. QED
      BY <1>2, <2>1, <2>2 DEF Entry, Ready
<1>5. Queue!stageBar = [p \in {"producer"} |-> "calling"]
    BY <1>1, StageIs
<1>6. CASE Queue!Full
  <2>1. Size' = Queue!Published
      BY <1>1, <1>2, <1>6 DEF Size, Queue!Pending
  <2>2. Queue!qBar' = Queue!qBar
      BY <1>3, <1>4, <2>1, QBarStays
  <2>3. Queue!stageBar' = [p \in {"producer"} |-> "idle"]
      BY <1>1, <1>6, StageIsNext
  <2>4. QED
      BY <1>1, <1>5, <1>6, <2>2, <2>3, SetStage DEF Queue!Channel!Refuse
<1>7. CASE ~ Queue!Full
  <2>1. Size' = Queue!Published + 1
      BY <1>1, <1>2, <1>7 DEF Size, Queue!Pending
  <2>2. Queue!qBar' = Append(Queue!qBar, Unready) /\ Len(Queue!qBar) = Queue!Published
    <3>1. PICK q : q = Queue!qBar
        OBVIOUS
    <3>2. PICK r : r = Queue!qBar'
        OBVIOUS
    <3>3. PICK n \in Nat : n = Queue!Published
        BY <1>2
    <3>4. /\ Queue!qBar = [k \in 1 .. n |-> Entry(k)]
          /\ Queue!qBar' = [k \in 1 .. n + 1 |-> Entry(k)']
        BY <1>3, <2>1, <3>3, QBarIs, QBarIsNext
    <3>5. /\ q = [k \in 1 .. n |-> q[k]] /\ r = [k \in 1 .. n + 1 |-> r[k]]
          /\ \A k \in 1 .. n : r[k] = q[k]
        BY <1>4, <3>1, <3>2, <3>3, <3>4
    <3>6. Len(q) = n
        BY ONLY <3>3, <3>5, AsSeq
    <3>7. r = Append(q, r[n + 1])
        BY ONLY <3>3, <3>5, AsAppend
    <3>8. r[n + 1] = Unready
      <4>1. n + 1 \in 1 .. n + 1
          BY <3>3
      <4>2. PICK k : k = n + 1
          OBVIOUS
      <4>3. Entry(k)' = Unready
        <5>1. k > Queue!Published'
            BY <1>2, <3>3, <4>2
        <5>2. Unready' = Unready
            BY <1>1 DEF Unready
        <5>3. QED
            BY <5>1, <5>2 DEF Entry
      <4>4. QED
          BY <3>2, <3>4, <4>1, <4>2, <4>3
    <3>9. QED
        BY <3>1, <3>2, <3>3, <3>6, <3>7, <3>8
  <2>3. Queue!Published < Capacity - 1
    <3>1. /\ read_index \in Queue!Slots /\ write_index \in Queue!Slots /\ Capacity \in Nat \ {0}
        BY DEF Queue!ConstantsOK, Queue!QueueInv, Queue!TypeOK
    <3>2. Queue!After(write_index) # read_index
        BY <1>7 DEF Queue!Full
    <3>3. Queue!After(write_index) = IF write_index = Capacity - 1 THEN 0 ELSE write_index + 1
        BY <3>1, AfterSlot
    <3>4. QED
        BY <3>1, <3>2, <3>3 DEF Queue!Slots, Queue!Published, Queue!Ahead
  <2>4. Queue!stageBar' = [p \in {"producer"} |-> "accepted"]
      BY <1>1, <1>7, StageIsNext
  <2>5. item \in Event
      BY <1>1 DEF Queue!QueueInv, Queue!Apart
  <2>6. QED
      BY <1>1, <1>5, <1>7, <2>2, <2>3, <2>4, <2>5, SetStage DEF Queue!Channel!Accept, Unready
<1>8. QED
    BY <1>6, <1>7
\* The object is built in the slot behind the published ones.
LEMMA RefineWrite ==
    ASSUME Queue!ConstantsOK, Queue!QueueInv, Queue!PushWrite
    PROVE  UNCHANGED <<Queue!qBar, Queue!stageBar, out>>
<1>1. /\ UNCHANGED <<read_index, write_index, item, cpc, taken, out>>
      /\ buffer' = [buffer EXCEPT ![write_index] = item]
      /\ ppc = "write" /\ ppc' = "store"
    BY DEF Queue!PushWrite, Queue!consumerVars
<1>2. /\ Queue!Published \in 0 .. Capacity - 1 /\ Queue!Published' = Queue!Published
      /\ Capacity \in Nat
      /\ buffer \in [Queue!Slots -> Event \cup {Raw}]
    BY <1>1, PublishedIs DEF Queue!Published, Queue!Ahead, Queue!ConstantsOK, Queue!QueueInv,
                             Queue!TypeOK
<1>3. Size = Queue!Published + 1 /\ Size' = Queue!Published + 1
    BY <1>1, <1>2 DEF Size, Queue!Pending
<1>4. ASSUME NEW k \in 1 .. Queue!Published + 1
      PROVE  Entry(k)' = Entry(k)
  <2>1. CASE k > Queue!Published
      BY <1>1, <1>2, <2>1 DEF Entry, Unready
  <2>2. CASE ~ (k > Queue!Published)
    <3>1. k \in 1 .. Queue!Published /\ k \in 1 .. Capacity
        BY <1>2, <2>2
    <3>2. SlotAt(k) \in Queue!Slots /\ SlotAt(k) # write_index
        BY <3>1, SlotAtIs, SlotAtEnds
    <3>3. buffer'[SlotAt(k)] = buffer[SlotAt(k)]
        BY <1>1, <1>2, <3>2
    <3>4. Held(k)' = Held(k)
        BY <1>1, <3>3 DEF Held, SlotAt
    <3>5. QED
        BY <1>2, <2>2, <3>4 DEF Entry, Ready
  <2>3. QED
      BY <2>1, <2>2
<1>5. Queue!qBar' = Queue!qBar
    BY <1>3, <1>4, QBarStays
<1>6. Queue!stageBar' = Queue!stageBar
    BY <1>1, StageIs, StageIsNext
<1>7. QED
    BY <1>1, <1>5, <1>6

\* The store to write_index makes it visible.
LEMMA RefinePublish ==
    ASSUME Queue!ConstantsOK, Queue!QueueInv, Constructed, Queue!PushStore
    PROVE  Queue!Channel!Publish("producer")
<1>1. /\ UNCHANGED <<read_index, buffer, item, cpc, taken, out>>
      /\ write_index' = Queue!After(write_index)
      /\ ppc = "store" /\ ppc' = "idle"
    BY DEF Queue!PushStore, Queue!consumerVars
<1>2. PICK n \in Nat : n = Queue!Published /\ n + 1 \in 1 .. Capacity
    BY PublishedIs DEF Queue!ConstantsOK
<1>3. Queue!Published' = n + 1
  <2>1. /\ read_index \in Queue!Slots /\ write_index \in Queue!Slots /\ Capacity \in Nat \ {0}
        /\ Queue!After(write_index) # read_index
      BY <1>1 DEF Queue!ConstantsOK, Queue!QueueInv, Queue!TypeOK, Queue!Apart
  <2>2. Queue!After(write_index) = IF write_index = Capacity - 1 THEN 0 ELSE write_index + 1
      BY <2>1, AfterSlot
  <2>3. QED
      BY <1>1, <1>2, <2>1, <2>2 DEF Queue!Slots, Queue!Published, Queue!Ahead
<1>4. Size = n + 1 /\ Size' = n + 1
    BY <1>1, <1>2, <1>3 DEF Size, Queue!Pending
<1>5. ASSUME NEW k \in 1 .. n + 1, k # n + 1
      PROVE  Entry(k)' = Entry(k)
  <2>1. ~ (k > Queue!Published) /\ ~ (k > Queue!Published')
      BY <1>2, <1>3, <1>5
  <2>2. Held(k)' = Held(k)
      BY <1>1 DEF Held, SlotAt
  <2>3. QED
      BY <2>1, <2>2 DEF Entry, Ready
<1>6. PICK j \in 1 .. n + 1 : j = n + 1
    BY <1>2
<1>7. Entry(j) = Unready
    BY <1>2, <1>6 DEF Entry
<1>8. Entry(j)' = Ready(item)
  <2>1. ~ (j > Queue!Published')
      BY <1>3, <1>6
  <2>2. SlotAt(j) = write_index
      BY <1>2, <1>6, SlotAtEnds
  <2>3. buffer[SlotAt(j)] = item
      BY <1>1, <2>2 DEF Constructed
  <2>4. ~ (j = 1 /\ cpc = "store")
    <3>1. cpc = "store" => n # 0
        BY <1>2, PublishedIs DEF Queue!QueueInv, Queue!Apart
    <3>2. QED
        BY <1>2, <1>6, <3>1
  <2>5. Held(j)' = item
      BY <1>1, <2>3, <2>4 DEF Held, SlotAt
  <2>6. QED
      BY <2>1, <2>5 DEF Entry, Ready
<1>9. Ready(item) = [Unready EXCEPT !.ready = TRUE]
    BY MarkReady DEF Ready, Unready
<1>10. /\ Queue!qBar = [k \in 1 .. n + 1 |-> Entry(k)]
       /\ Queue!qBar' = [k \in 1 .. n + 1 |-> Entry(k)']
    BY <1>4, QBarIs, QBarIsNext
<1>11. Queue!qBar' = [Queue!qBar EXCEPT ![j].ready = TRUE]
  <2>1. Queue!qBar' = [Queue!qBar EXCEPT ![j] = [Queue!qBar[j] EXCEPT !.ready = TRUE]]
    <3>1. Queue!qBar[j] = Unready /\ Queue!qBar'[j] = [Unready EXCEPT !.ready = TRUE]
        BY <1>7, <1>8, <1>9, <1>10
    <3>2. \A k \in 1 .. n + 1 : k # j => Queue!qBar'[k] = Queue!qBar[k]
        BY <1>5, <1>6, <1>10
    <3>3. /\ Queue!qBar = [k \in 1 .. n + 1 |-> Queue!qBar[k]]
          /\ Queue!qBar' = [k \in 1 .. n + 1 |-> Queue!qBar'[k]]
        BY <1>10
    <3>4. QED
        BY <3>1, <3>2, <3>3
  <2>2. QED
      BY <2>1
<1>12. j \in DOMAIN Queue!qBar /\ Queue!qBar[j].from = "producer" /\ ~ Queue!qBar[j].ready
    BY <1>6, <1>7, <1>10 DEF Unready
<1>13. /\ Queue!stageBar = [p \in {"producer"} |-> "accepted"]
       /\ Queue!stageBar' = [p \in {"producer"} |-> "idle"]
    BY <1>1, StageIs, StageIsNext
<1>14. QED
    BY <1>1, <1>11, <1>12, <1>13, SetStage DEF Queue!Channel!Publish

\* The value moved out is in the queue until read_index moves.
LEMMA RefineMove ==
    ASSUME Queue!ConstantsOK, Queue!QueueInv, Queue!PopMove
    PROVE  UNCHANGED <<Queue!qBar, Queue!stageBar, out>>
<1>1. /\ UNCHANGED <<read_index, write_index, ppc, item, out>>
      /\ buffer' = [buffer EXCEPT ![read_index] = Raw]
      /\ taken' = buffer[read_index]
      /\ cpc = "move" /\ cpc' = "store"
    BY DEF Queue!PopMove, Queue!producerVars
<1>2. /\ Queue!Published \in 0 .. Capacity - 1 /\ Queue!Published' = Queue!Published
      /\ Capacity \in Nat
      /\ buffer \in [Queue!Slots -> Event \cup {Raw}]
    BY <1>1, PublishedIs DEF Queue!Published, Queue!Ahead, Queue!ConstantsOK, Queue!QueueInv,
                             Queue!TypeOK
<1>3. Size' = Size
    BY <1>1, <1>2 DEF Size, Queue!Pending
<1>4. ASSUME NEW k \in 1 .. Size
      PROVE  Entry(k)' = Entry(k)
  <2>1. CASE k > Queue!Published
      BY <1>1, <1>2, <2>1 DEF Entry, Unready
  <2>2. CASE ~ (k > Queue!Published)
    <3>1. k \in 1 .. Queue!Published /\ k \in 1 .. Capacity
        BY <1>2, <2>2 DEF Size
    <3>2. SlotAt(k) \in Queue!Slots /\ SlotAt(1) = read_index /\ (k # 1 => SlotAt(k) # read_index)
        BY <3>1, SlotAtIs, SlotAtEnds
    <3>3. k # 1 => buffer'[SlotAt(k)] = buffer[SlotAt(k)]
        BY <1>1, <1>2, <3>2
    <3>4. Held(k)' = Held(k)
        BY <1>1, <3>2, <3>3 DEF Held, SlotAt
    <3>5. QED
        BY <1>2, <2>2, <3>4 DEF Entry, Ready
  <2>3. QED
      BY <2>1, <2>2
<1>5. Queue!qBar' = Queue!qBar
    BY <1>3, <1>4, QBarStays
<1>6. Queue!stageBar' = Queue!stageBar
    BY <1>1 DEF Queue!stageBar, Queue!Pending
<1>7. QED
    BY <1>1, <1>5, <1>6

LEMMA RefineStutter ==
    ASSUME Queue!PopNothing \/ Queue!PopCheck \/ UNCHANGED Queue!queueVars
    PROVE  UNCHANGED <<Queue!qBar, Queue!stageBar, out>>
<1>1. /\ UNCHANGED <<read_index, write_index, buffer, ppc, item, taken, out>>
      /\ (cpc = "store" <=> cpc' = "store")
    BY DEF Queue!PopNothing, Queue!PopCheck, Queue!queueVars, Queue!producerVars,
           Queue!consumerVars
<1>2. UNCHANGED <<Queue!Published, Queue!Pending>>
    BY <1>1 DEF Queue!Published, Queue!Ahead, Queue!Pending
<1>3. Size' = Size
    BY <1>2 DEF Size
<1>4. ASSUME NEW k \in 1 .. Size
      PROVE  Entry(k)' = Entry(k)
  <2>1. Held(k)' = Held(k)
      BY <1>1 DEF Held, SlotAt
  <2>2. QED
      BY <1>1, <1>2, <2>1 DEF Entry, Ready, Unready
<1>5. Queue!qBar' = Queue!qBar
    BY <1>3, <1>4, QBarStays
<1>6. Queue!stageBar' = Queue!stageBar
    BY <1>1 DEF Queue!stageBar, Queue!Pending
<1>7. QED
    BY <1>1, <1>5, <1>6
\* The store to read_index is the delivery.
LEMMA RefineTaken ==
    ASSUME Queue!ConstantsOK, Queue!QueueInv, Queue!PopStore
    PROVE  Queue!Channel!Deliver
<1>1. /\ UNCHANGED <<write_index, buffer, ppc, item, taken>>
      /\ read_index' = Queue!After(read_index) /\ out' = Append(out, taken)
      /\ cpc = "store" /\ cpc' = "idle"
    BY DEF Queue!PopStore, Queue!producerVars
<1>2. /\ read_index \in Queue!Slots /\ write_index \in Queue!Slots /\ Capacity \in Nat \ {0}
      /\ read_index # write_index
    BY <1>1 DEF Queue!ConstantsOK, Queue!QueueInv, Queue!TypeOK, Queue!Apart
<1>3. PICK n \in Nat : n = Queue!Published /\ n > 0 /\ n < Capacity
    BY <1>2, PublishedIs
<1>4. Queue!After(read_index) = IF read_index = Capacity - 1 THEN 0 ELSE read_index + 1
    BY <1>2, AfterSlot
<1>5. Queue!Published' = n - 1
    BY <1>1, <1>2, <1>3, <1>4 DEF Queue!Slots, Queue!Published, Queue!Ahead
<1>6. PICK m \in Nat : m = Size /\ m > 0 /\ Size' = m - 1
    BY <1>1, <1>3, <1>5 DEF Size, Queue!Pending
<1>7. Queue!QueueInv'
    BY PopStoreInv
<1>8. ASSUME NEW k \in 1 .. m - 1
      PROVE  Entry(k)' = Entry(k + 1)
  <2>1. k > Queue!Published' <=> k + 1 > Queue!Published
      BY <1>3, <1>5, <1>6
  <2>2. CASE k > Queue!Published'
      BY <1>1, <2>1, <2>2 DEF Entry, Unready
  <2>3. CASE ~ (k > Queue!Published')
    <3>1. k \in 1 .. Capacity /\ k + 1 \in 1 .. Capacity /\ k + 1 # 1
        BY <1>2, <1>3, <1>5, <2>3
    <3>2. PICK s \in Queue!Slots : s = SlotAt(k + 1) /\ Queue!Ahead(s) = k
        BY <3>1, SlotAtIs
    <3>3. PICK u \in Queue!Slots : u = SlotAt(k)' /\ Queue!Ahead(u)' = k - 1
      <4>1. SlotAt(k)' \in Queue!Slots /\ Queue!Ahead(SlotAt(k))' = k - 1
          BY <1>7, <3>1, SlotAtIsNext
      <4>2. QED
          BY <4>1
    <3>4. u = s
        BY <1>1, <1>2, <1>4, <3>2, <3>3, SMTT(40) DEF Queue!Slots, Queue!Ahead
    <3>5. Held(k)' = Held(k + 1)
        BY <1>1, <3>1, <3>2, <3>3, <3>4 DEF Held
    <3>6. QED
        BY <2>1, <2>3, <3>5 DEF Entry, Ready
  <2>4. QED
      BY <2>2, <2>3
<1>9. Queue!qBar # <<>> /\ Head(Queue!qBar) = Queue!qBar[1] /\ Queue!qBar' = Tail(Queue!qBar)
  <2>1. /\ Queue!qBar = [k \in 1 .. m |-> Entry(k)]
        /\ Queue!qBar' = [k \in 1 .. m - 1 |-> Entry(k)']
      BY <1>6, QBarIs, QBarIsNext
  <2>2. \A k \in 1 .. m - 1 : Queue!qBar'[k] = Queue!qBar[k + 1]
    <3>1. \A k \in 1 .. m - 1 : k + 1 \in 1 .. m
        BY <1>6
    <3>2. QED
        BY <1>8, <2>1, <3>1
  <2>3. PICK q : q = Queue!qBar
      OBVIOUS
  <2>4. PICK r : r = Queue!qBar'
      OBVIOUS
  <2>5. q = [k \in 1 .. m |-> q[k]] /\ r = [k \in 1 .. m - 1 |-> r[k]]
      BY <2>1, <2>3, <2>4
  <2>6. \A k \in 1 .. m - 1 : r[k] = q[k + 1]
      BY <2>2, <2>3, <2>4
  <2>7. m \in Nat /\ m > 0
      BY <1>6
  <2>8. q # <<>> /\ Head(q) = q[1] /\ r = Tail(q)
      BY ONLY <2>5, <2>6, <2>7, AsTail
  <2>9. QED
      BY <2>3, <2>4, <2>8
<1>10. Queue!qBar[1] = Ready(taken)
  <2>1. PICK k \in 1 .. m : k = 1
      BY <1>6
  <2>2. ~ (k > Queue!Published)
      BY <1>3, <2>1
  <2>3. Held(k) = taken
      BY <1>1, <2>1 DEF Held
  <2>4. Entry(k) = Ready(taken)
      BY <2>2, <2>3 DEF Entry
  <2>5. QED
      BY <1>6, <2>1, <2>4, QBarIs
<1>11. Queue!stageBar' = Queue!stageBar
    BY <1>1 DEF Queue!stageBar, Queue!Pending
<1>12. QED
    BY <1>1, <1>9, <1>10, <1>11 DEF Queue!Channel!Deliver, Ready

LEMMA RefineInit ==
    ASSUME Queue!ConstantsOK, Queue!Init
    PROVE  Queue!Channel!Init
<1>1. Queue!Published = 0 /\ ppc = "idle"
    BY DEF Queue!Init, Queue!Published, Queue!Ahead
<1>2. Size = 0
    BY <1>1 DEF Size, Queue!Pending
<1>3. Queue!qBar = <<>>
    BY <1>2, QBarIs
<1>4. Queue!stageBar = [p \in {"producer"} |-> "idle"]
    BY <1>1, StageIs
<1>5. QED
    BY <1>3, <1>4 DEF Queue!Init, Queue!Channel!Init

LEMMA RefineStep ==
    ASSUME Queue!ConstantsOK, Queue!QueueInv, Constructed, [Queue!Next]_(Queue!queueVars)
    PROVE  [Queue!Channel!Next]_<<Queue!qBar, Queue!stageBar, out>>
<1>1. ASSUME NEW v \in Event, Queue!Push(v)
      PROVE  [Queue!Channel!Next]_<<Queue!qBar, Queue!stageBar, out>>
    BY <1>1, RefineCall DEF Queue!Channel!Next
<1>2. CASE Queue!PushCheck
    BY <1>2, RefineCheck DEF Queue!Channel!Next
<1>3. CASE Queue!PushWrite
    BY <1>3, RefineWrite
<1>4. CASE Queue!PushStore
    BY <1>4, RefinePublish DEF Queue!Channel!Next
<1>5. CASE Queue!PopMove
    BY <1>5, RefineMove
<1>6. CASE Queue!PopStore
    BY <1>6, RefineTaken DEF Queue!Channel!Next
<1>7. CASE Queue!PopNothing \/ Queue!PopCheck \/ UNCHANGED Queue!queueVars
    BY <1>7, RefineStutter
<1>8. QED
    BY <1>1, <1>2, <1>3, <1>4, <1>5, <1>6, <1>7 DEF Queue!Next, Queue!PushSteps

\* Every value that found room is delivered whole, once and in order, for every
\* capacity.
THEOREM QueueImplementsChannel ==
    ASSUME Queue!ConstantsOK
    PROVE  Queue!Spec => Queue!ImplementsChannel
<1>1. Queue!Init => Queue!Channel!Init /\ Constructed
    BY RefineInit DEF Queue!Init, Constructed
<1>2. Queue!QueueInv /\ Constructed /\ [Queue!Next]_(Queue!queueVars)
        => Constructed' /\ [Queue!Channel!Next]_<<Queue!qBar, Queue!stageBar, out>>
    BY ConstructedStep, RefineStep
<1>3. QED
    BY <1>1, <1>2, QueueInvariant, PTL
    DEF Queue!Spec, Queue!ImplementsChannel, Queue!Channel!Spec, Queue!Channel!channelVars

-----------------------------------------------------------------------------
(* The bus: the inductive invariant *)

\* How many listeners the loop of p has come to.
Come(p) == IF p.at = "callback" THEN p.i ELSE p.i - 1

\* A publication that no reset has cut has called the first listeners of its
\* list: the list has only grown behind them.
Reached(p) ==
    /\ p.i >= 1
    /\ ~ p.cut => /\ Len(p.called) = Come(p)
                  /\ Come(p) <= Len(listeners[p.type])
                  /\ \A j \in 1 .. Come(p) : p.called[j] = listeners[p.type][j]

AllReached == \A k \in DOMAIN stack : Reached(stack[k])

BusInv == Bus!BusOK /\ AllReached

-----------------------------------------------------------------------------
(* The bus: every operation keeps it *)

LEMMA MakePublication ==
    ASSUME NEW t \in Type, NEW n \in Nat, NEW c \in {"test", "callback"},
           NEW s \in Seq(Bus!Listener), NEW d \in BOOLEAN
    PROVE  [type |-> t, i |-> n, at |-> c, called |-> s, cut |-> d] \in Bus!Publication
    BY ZenonT(20) DEF Bus!Publication

LEMMA PublicationFields ==
    ASSUME NEW p \in Bus!Publication
    PROVE  /\ p.type \in Type /\ p.i \in Nat /\ p.at \in {"test", "callback"}
           /\ p.called \in Seq(Bus!Listener) /\ p.cut \in BOOLEAN
           /\ p = [type |-> p.type, i |-> p.i, at |-> p.at,
                   called |-> p.called, cut |-> p.cut]
    BY DEF Bus!Publication

LEMMA TopIn ==
    ASSUME BusInv, Bus!Publishing
    PROVE  /\ Bus!Top = stack[1] /\ 1 \in DOMAIN stack
           /\ Bus!Top \in Bus!Publication /\ Reached(Bus!Top)
    BY DEF BusInv, Bus!BusOK, AllReached, Bus!Publishing, Bus!Top

LEMMA BusInitInv ==
    ASSUME Bus!ConstantsOK, Bus!Init
    PROVE  BusInv
    BY DEF Bus!ConstantsOK, Bus!Init, BusInv, Bus!BusOK, AllReached

LEMMA SubscribeInv ==
    ASSUME Bus!ConstantsOK, BusInv, NEW t \in Type, Bus!Subscribe(t)
    PROVE  BusInv'
<1>1. subscribes' \in Bus!Listener /\ subscribes' \in 0 .. MaxSubscribes
    BY DEF Bus!ConstantsOK, BusInv, Bus!BusOK, Bus!Subscribe, Bus!Listener
<1>2. listeners' = [listeners EXCEPT ![t] = IF Len(@) >= MaxListeners THEN @
                                            ELSE Append(@, subscribes')]
    BY DEF Bus!Subscribe
<1>3. listeners' \in [Type -> Seq(Bus!Listener)]
    BY <1>1, <1>2 DEF BusInv, Bus!BusOK
<1>4. ASSUME NEW u \in Type
      PROVE  /\ Len(listeners[u])' <= MaxListeners
             /\ Len(listeners[u])' >= Len(listeners[u])
             /\ \A j \in 1 .. Len(listeners[u]) : listeners[u]'[j] = listeners[u][j]
    BY <1>2 DEF Bus!ConstantsOK, BusInv, Bus!BusOK
<1>5. Bus!BusOK'
    BY <1>1, <1>3, <1>4 DEF BusInv, Bus!BusOK, Bus!Subscribe
<1>6. ASSUME NEW p \in Bus!Publication, Reached(p)
      PROVE  Reached(p)'
    BY <1>3, <1>4, <1>6 DEF BusInv, Bus!BusOK, Reached, Come, Bus!Publication
<1>7. AllReached'
    BY <1>6 DEF BusInv, Bus!BusOK, AllReached, Bus!Subscribe
<1>8. QED
    BY <1>5, <1>7 DEF BusInv

LEMMA ResetInv ==
    ASSUME Bus!ConstantsOK, BusInv, Bus!Reset
    PROVE  BusInv'
<1>1. ASSUME NEW k \in DOMAIN stack
      PROVE  /\ stack'[k] \in Bus!Publication
             /\ stack'[k].cut /\ stack'[k].i >= 1
  <2>1. stack[k] \in Bus!Publication /\ stack[k].i >= 1
      BY DEF BusInv, Bus!BusOK, AllReached, Reached
  <2>2. stack'[k] = [stack[k] EXCEPT !.cut = TRUE]
      BY DEF Bus!Reset
  <2>3. stack'[k] = [type |-> stack[k].type, i |-> stack[k].i, at |-> stack[k].at,
                     called |-> stack[k].called, cut |-> TRUE]
      BY <2>1, <2>2 DEF Bus!Publication
  <2>4. stack'[k] \in Bus!Publication
    <3>1. /\ stack[k].type \in Type /\ stack[k].i \in Nat
          /\ stack[k].at \in {"test", "callback"} /\ stack[k].called \in Seq(Bus!Listener)
        BY <2>1, PublicationFields
    <3>2. TRUE \in BOOLEAN
        OBVIOUS
    <3>3. [type |-> stack[k].type, i |-> stack[k].i, at |-> stack[k].at,
           called |-> stack[k].called, cut |-> TRUE] \in Bus!Publication
        BY <3>1, <3>2, MakePublication
    <3>4. QED
        BY <2>3, <3>3
  <2>5. stack'[k].cut /\ stack'[k].i = stack[k].i
      BY <2>3
  <2>6. QED
      BY <2>1, <2>4, <2>5
<1>2. stack' \in Seq(Bus!Publication) /\ DOMAIN stack' = DOMAIN stack
    BY <1>1 DEF BusInv, Bus!BusOK, Bus!Reset
<1>3. Bus!BusOK'
    BY <1>2 DEF Bus!ConstantsOK, BusInv, Bus!BusOK, Bus!Reset
<1>4. AllReached'
    BY <1>1, <1>2 DEF AllReached, Reached
<1>5. QED
    BY <1>3, <1>4 DEF BusInv

LEMMA PublishInv ==
    ASSUME Bus!ConstantsOK, BusInv, NEW t \in Type, Bus!Publish(t)
    PROVE  BusInv'
<1> DEFINE new == [type |-> t, i |-> 1, at |-> "test", called |-> <<>>, cut |-> FALSE]
<1>1. new \in Bus!Publication
    BY DEF Bus!Publication
<1>2. Reached(new)'
    BY DEF BusInv, Bus!BusOK, Bus!Publish, Reached, Come
<1> HIDE DEF new
<1>3. stack' = <<new>> \o stack
    BY DEF Bus!Publish, new
<1>4. stack' \in Seq(Bus!Publication)
    BY <1>1, <1>3 DEF BusInv, Bus!BusOK
<1>5. \A k \in DOMAIN stack' : stack'[k] = new \/ \E j \in DOMAIN stack : stack'[k] = stack[j]
    BY <1>1, <1>3 DEF BusInv, Bus!BusOK
<1>6. ASSUME NEW p, Reached(p)
      PROVE  Reached(p)'
    BY <1>6 DEF Bus!Publish, Reached, Come
<1>7. Bus!BusOK'
    BY <1>4 DEF BusInv, Bus!BusOK, Bus!Publish
<1>8. AllReached'
    BY <1>2, <1>5, <1>6 DEF BusInv, AllReached
<1>9. QED
    BY <1>7, <1>8 DEF BusInv

\* A step of the innermost publication.
LEMMA TopStep ==
    ASSUME BusInv, Bus!Publishing, UNCHANGED <<listeners, subscribes, resets>>,
           NEW p \in Bus!Publication, Reached(p), stack' = [stack EXCEPT ![1] = p]
    PROVE  BusInv'
<1>1. stack' \in Seq(Bus!Publication) /\ DOMAIN stack' = DOMAIN stack
    BY TopIn, ExceptSeq DEF BusInv, Bus!BusOK
<1>2. Bus!BusOK'
    BY <1>1 DEF BusInv, Bus!BusOK
<1>3. ASSUME NEW q, Reached(q)
      PROVE  Reached(q)'
    BY <1>3 DEF Reached, Come
<1>4. \A k \in DOMAIN stack : stack'[k] = p \/ stack'[k] = stack[k]
    BY DEF BusInv, Bus!BusOK
<1>5. AllReached'
    BY <1>1, <1>3, <1>4 DEF BusInv, AllReached
<1>6. QED
    BY <1>2, <1>5 DEF BusInv

LEMMA PublishCallInv ==
    ASSUME Bus!ConstantsOK, BusInv, Bus!PublishCall
    PROVE  BusInv'
<1> DEFINE next == listeners[Bus!Top.type][Bus!Top.i]
           p == [Bus!Top EXCEPT !.at = "callback", !.called = Append(@, next)]
<1>1. Bus!Top \in Bus!Publication /\ Reached(Bus!Top) /\ Bus!Top = stack[1] /\ 1 \in DOMAIN stack
    BY TopIn DEF Bus!PublishCall
<1>2. /\ Bus!Top.i \in 1 .. Len(listeners[Bus!Top.type])
      /\ listeners[Bus!Top.type] \in Seq(Bus!Listener)
    BY <1>1 DEF Bus!PublishCall, Bus!Finished, BusInv, Bus!BusOK, Reached, Bus!Publication
<1>3. next \in Bus!Listener
    BY <1>2
<1>4. stack' = [stack EXCEPT ![1] = p]
    BY <1>1 DEF Bus!PublishCall
<1>5. Bus!Top.at = "test" /\ Bus!Publishing /\ UNCHANGED <<listeners, subscribes, resets>>
    BY DEF Bus!PublishCall
<1> HIDE DEF next
<1>6. p \in Bus!Publication
  <2>1. Append(Bus!Top.called, next) \in Seq(Bus!Listener)
      BY <1>1, <1>3, PublicationFields
  <2>2. QED
      BY <1>1, <2>1 DEF Bus!Publication
<1>7. Reached(p)
    BY <1>1, <1>2, <1>3, <1>5 DEF Bus!Publication, Reached, Come, next
<1> HIDE DEF p
<1>8. QED
    BY <1>4, <1>5, <1>6, <1>7, TopStep

LEMMA CallbackReturnsInv ==
    ASSUME Bus!ConstantsOK, BusInv, Bus!CallbackReturns
    PROVE  BusInv'
<1> DEFINE p == [Bus!Top EXCEPT !.at = "test", !.i = @ + 1]
<1>1. Bus!Top \in Bus!Publication /\ Reached(Bus!Top) /\ Bus!Top = stack[1] /\ 1 \in DOMAIN stack
    BY TopIn DEF Bus!CallbackReturns
<1>2. stack' = [stack EXCEPT ![1] = p]
    BY <1>1 DEF Bus!CallbackReturns
<1>3. Bus!Top.at = "callback" /\ Bus!Publishing /\ UNCHANGED <<listeners, subscribes, resets>>
    BY DEF Bus!CallbackReturns
<1>4. p \in Bus!Publication
  <2>1. Bus!Top.i + 1 \in Nat
      BY <1>1, PublicationFields
  <2>2. QED
      BY <1>1, <2>1 DEF Bus!Publication
<1>5. Reached(p)
    BY <1>1, <1>3 DEF Bus!Publication, Reached, Come
<1> HIDE DEF p
<1>6. QED
    BY <1>2, <1>3, <1>4, <1>5, TopStep

LEMMA PublishReturnsInv ==
    ASSUME Bus!ConstantsOK, BusInv, Bus!PublishReturns
    PROVE  BusInv'
<1>1. stack # <<>> /\ stack' = Tail(stack)
    BY DEF Bus!PublishReturns, Bus!Finished, Bus!Publishing
<1>2. stack' \in Seq(Bus!Publication)
    BY <1>1 DEF BusInv, Bus!BusOK
<1>3. \A k \in DOMAIN stack' : k + 1 \in DOMAIN stack /\ stack'[k] = stack[k + 1]
    BY <1>1 DEF BusInv, Bus!BusOK
<1>4. ASSUME NEW q, Reached(q)
      PROVE  Reached(q)'
    BY <1>4 DEF Bus!PublishReturns, Reached, Come
<1>5. Bus!BusOK'
    BY <1>2 DEF BusInv, Bus!BusOK, Bus!PublishReturns
<1>6. AllReached'
    BY <1>3, <1>4 DEF BusInv, AllReached
<1>7. QED
    BY <1>5, <1>6 DEF BusInv

LEMMA BusStutterInv ==
    ASSUME BusInv, UNCHANGED Bus!busVars
    PROVE  BusInv'
    BY DEF BusInv, Bus!BusOK, AllReached, Reached, Come, Bus!busVars

LEMMA BusStepInv ==
    ASSUME Bus!ConstantsOK, BusInv, [Bus!Next]_(Bus!busVars)
    PROVE  BusInv'
    BY SubscribeInv, ResetInv, PublishInv, PublishCallInv, CallbackReturnsInv,
       PublishReturnsInv, BusStutterInv DEF Bus!Next

-----------------------------------------------------------------------------
(* The bus: what a publication has done when it returns *)

\* Only a return makes the stack shorter.
LEMMA OnlyReturnShortens ==
    ASSUME BusInv, [Bus!Next]_(Bus!busVars), Len(stack') < Len(stack)
    PROVE  Bus!PublishReturns
<1>1. stack \in Seq(Bus!Publication)
    BY DEF BusInv, Bus!BusOK
<1>2. ~ \E t \in Type : Bus!Subscribe(t)
    BY DEF Bus!Subscribe
<1>3. ASSUME NEW t \in Type, Bus!Publish(t)
      PROVE  FALSE
  <2> DEFINE new == [type |-> t, i |-> 1, at |-> "test", called |-> <<>>, cut |-> FALSE]
  <2>1. stack' = <<new>> \o stack
      BY <1>3 DEF Bus!Publish
  <2> HIDE DEF new
  <2>2. Len(stack') = Len(stack) + 1
      BY <1>1, <2>1
  <2>3. QED
      BY <1>1, <2>2
<1>4. ~ Bus!Reset
    BY <1>1 DEF Bus!Reset
<1>5. ~ Bus!PublishCall /\ ~ Bus!CallbackReturns
    BY <1>1 DEF Bus!PublishCall, Bus!CallbackReturns
<1>6. ~ UNCHANGED Bus!busVars
    BY <1>1 DEF Bus!busVars
<1>7. QED
    BY <1>2, <1>3, <1>4, <1>5, <1>6 DEF Bus!Next

LEMMA ReturnReaches ==
    ASSUME BusInv, Bus!PublishReturns, ~ Bus!Top.cut
    PROVE  Bus!Top.called = listeners[Bus!Top.type]
<1>1. Bus!Top \in Bus!Publication /\ Reached(Bus!Top)
    BY TopIn DEF Bus!PublishReturns, Bus!Finished
<1>2. Bus!Top.called \in Seq(Bus!Listener) /\ listeners[Bus!Top.type] \in Seq(Bus!Listener)
    BY <1>1 DEF Bus!Publication, BusInv, Bus!BusOK
<1>3. Len(Bus!Top.called) = Len(listeners[Bus!Top.type])
    BY <1>1, <1>2 DEF Bus!PublishReturns, Bus!Finished, Reached, Come, Bus!Publication
<1>4. \A j \in 1 .. Len(Bus!Top.called) : Bus!Top.called[j] = listeners[Bus!Top.type][j]
    BY <1>1 DEF Reached
<1>5. QED
    BY <1>2, <1>3, <1>4

-----------------------------------------------------------------------------
(* The window.  The tuples of its parts' variables are its own.              *)

LEMMA QueueKeeps ==
    ASSUME Queue!QueueInv, [Queue!Next]_queueVars
    PROVE  Queue!QueueInv'
<1>1. [Queue!Next]_(Queue!queueVars)
    BY DEF queueVars, Queue!queueVars, Queue!producerVars, Queue!consumerVars
<1>2. QED
    BY <1>1, QueueAssumption, QueueStepInv

LEMMA BusKeeps ==
    ASSUME BusInv, [Bus!Next]_busVars
    PROVE  BusInv'
<1>1. [Bus!Next]_(Bus!busVars)
    BY DEF busVars, Bus!busVars
<1>2. QED
    BY <1>1, BusAssumption, BusStepInv

\* Where the owner's thread is with the window tells whether the NativeWindow
\* exists, how often it was deleted, who points to it and whether the application
\* has begun its loop; it is destroyed only after the application has left.
Life ==
    /\ alive <=> \/ opc \in {"creating", "open", "destroying"}
                 \/ opc = "aborting" /\ userdata
    /\ deletes = IF alive \/ opc = "none" THEN 0
                 ELSE IF aborted /\ opc # "aborting" THEN 2 ELSE 1
    /\ opc = "aborting" => aborted
    /\ aborted => opc \in {"aborting", "failed", "destroyed"} /\ ~ handle
    /\ userdata => alive
    /\ opc \in {"open", "destroying"} => handle /\ userdata
    /\ handle => opc \in {"open", "destroying", "destroyed"}
    /\ ppc # "idle" => userdata /\ opc \in {"creating", "open"}
    /\ apc = "none" <=> opc \in {"none", "creating", "aborting"}
    /\ opc \in {"destroying", "destroyed"} => apc = "left"
    /\ apc \in {"poll", "publish"} => handle
    /\ cpc # "idle" => apc = "poll"

\* The event is, or was, somewhere on its way through the queue.
Queued(e) ==
    \/ e = item \/ e = taken
    \/ \E s \in DOMAIN buffer : buffer[s] = e
    \/ \E i \in DOMAIN out : out[i] = e

\* The window sets its flag before it pushes the Close event.
CloseInv ==
    /\ should_close => asked
    /\ \A e \in Event : e.type = "Close" /\ Queued(e) => should_close
    /\ \A i \in DOMAIN out : out[i] \in Event

WindowIInv == TypeOK /\ Queue!QueueInv /\ BusInv /\ Life /\ CloseInv

-----------------------------------------------------------------------------
(* The window: every step keeps its invariant *)

\* What a step of the window is for its two parts.
LEMMA Parts ==
    ASSUME WindowIInv, [Next]_vars
    PROVE  [Queue!Next]_queueVars /\ [Bus!Next]_busVars
<1>1. CASE Create \/ NcCreate \/ CreateAborts \/ CreateFails \/ CreateReturns
    BY <1>1 DEF Create, NcCreate, CreateAborts, CreateFails, CreateReturns, Delete, life
<1>2. ASSUME NEW type \in Type, WindowProc(type)
      PROVE  [Queue!Next]_queueVars /\ [Bus!Next]_busVars
  <2>1. messages + 1 \in 1 .. MaxMessages
      BY <1>2, MessagesAssumption DEF WindowProc, WindowIInv, TypeOK
  <2>2. [type |-> type, n |-> messages + 1] \in Event
      BY <2>1 DEF Event
  <2>3. QED
      BY <1>2, <2>2 DEF WindowProc, Queue!Next
<1>3. CASE PushSteps
    BY <1>3 DEF PushSteps, Queue!Next
<1>4. CASE Destroy \/ NcDestroy \/ TestClose
    BY <1>4 DEF Destroy, NcDestroy, TestClose
<1>5. CASE PollNothing \/ PollSteps
    BY <1>5 DEF PollNothing, PollSteps, Queue!Next
<1>6. CASE PollReturns
  <2>1. taken \in Event
      BY <1>6 DEF PollReturns, Queue!PopStore, WindowIInv, Queue!QueueInv, Queue!Apart
  <2>2. taken.type \in Type
      BY <2>1 DEF Event
  <2>3. QED
      BY <1>6, <2>2 DEF PollReturns, Queue!Next, Bus!Next
<1>7. CASE UseBus
    BY <1>7 DEF UseBus, Bus!Next
<1>8. CASE Deliver
    BY <1>8 DEF Deliver, Bus!Next
<1>9. CASE UNCHANGED vars
    BY <1>9 DEF vars
<1>10. QED
    BY <1>1, <1>2, <1>3, <1>4, <1>5, <1>6, <1>7, <1>8, <1>9 DEF Next

LEMMA TypeKeeps ==
    ASSUME WindowIInv, [Next]_vars
    PROVE  TypeOK'
<1> USE DEF WindowIInv, TypeOK, windowVars, life
<1>1. CASE Create \/ NcCreate \/ CreateAborts \/ CreateFails \/ CreateReturns
  <2>1. deletes' \in Nat /\ UNCHANGED <<should_close, messages, asked>>
      BY <1>1 DEF Create, NcCreate, CreateAborts, CreateFails, CreateReturns, Delete
  <2>2. CASE Create \/ NcCreate \/ CreateAborts
      BY <2>1, <2>2 DEF Create, NcCreate, CreateAborts
  <2>3. CASE CreateFails
      BY <2>1, <2>3 DEF CreateFails, Delete
  <2>4. CASE CreateReturns
      BY <2>1, <2>4 DEF CreateReturns
  <2>5. QED
      BY <1>1, <2>2, <2>3, <2>4
<1>2. CASE \E type \in Type : WindowProc(type)
  <2>1. messages' \in 0 .. MaxMessages
      BY <1>2, MessagesAssumption DEF WindowProc
  <2>2. asked' \in BOOLEAN /\ should_close' \in BOOLEAN
      BY <1>2, ZenonT(30) DEF WindowProc, WmClose
  <2>3. UNCHANGED <<opc, life, userdata, handle, apc>>
      BY <1>2 DEF WindowProc
  <2>4. QED
      BY <2>1, <2>2, <2>3 DEF life
<1>3. CASE PushSteps \/ Destroy \/ NcDestroy
  <2>1. CASE PushSteps \/ Destroy
      BY <2>1 DEF PushSteps, Destroy
  <2>2. CASE NcDestroy
    <3>1. deletes' \in Nat
        BY <2>2 DEF NcDestroy, Delete
    <3>2. QED
        BY <2>2, <3>1 DEF NcDestroy, Delete
  <2>3. QED
      BY <1>3, <2>1, <2>2
<1>4. CASE TestClose \/ PollNothing \/ PollSteps \/ PollReturns \/ UseBus \/ Deliver
    BY <1>4 DEF TestClose, PollNothing, PollSteps, PollReturns, UseBus, Deliver
<1>5. CASE UNCHANGED vars
    BY <1>5 DEF vars
<1>6. QED
    BY <1>1, <1>2, <1>3, <1>4, <1>5 DEF Next

LEMMA LifeKeeps ==
    ASSUME WindowIInv, [Next]_vars
    PROVE  Life'
<1> USE DEF WindowIInv, TypeOK, Life, windowVars, life, queueVars
<1>1. CASE Create \/ NcCreate \/ CreateAborts
    BY <1>1 DEF Create, NcCreate, CreateAborts
<1>2. CASE CreateFails \/ CreateReturns
    BY <1>2 DEF CreateFails, CreateReturns, Delete
<1>3. CASE \E type \in Type : WindowProc(type)
    BY <1>3 DEF WindowProc, Queue!Push, Queue!consumerVars
<1>4. CASE PushSteps
    BY <1>4 DEF PushSteps, Queue!PushSteps, Queue!PushCheck, Queue!PushWrite,
                Queue!PushStore, Queue!consumerVars
<1>5. CASE Destroy \/ NcDestroy
    BY <1>5 DEF Destroy, NcDestroy, Delete
<1>6. CASE TestClose
    BY <1>6 DEF TestClose
<1>7. CASE PollNothing \/ PollSteps \/ PollReturns
    BY <1>7 DEF PollNothing, PollSteps, PollReturns, Queue!PopNothing, Queue!PopCheck,
                Queue!PopMove, Queue!PopStore, Queue!queueVars, Queue!producerVars,
                Queue!consumerVars
<1>8. CASE UseBus \/ Deliver
    BY <1>8 DEF UseBus, Deliver
<1>9. CASE UNCHANGED vars
    BY <1>9 DEF vars
<1>10. QED
    BY <1>1, <1>2, <1>3, <1>4, <1>5, <1>6, <1>7, <1>8, <1>9 DEF Next

\* What is queued after a step was queued before, except what a push brings.
LEMMA QueuedBefore ==
    ASSUME WindowIInv, [Queue!Next]_queueVars, NEW e \in Event, Queued(e)'
    PROVE  Queued(e) \/ (item' = e /\ ~ UNCHANGED item)
<1> USE DEF WindowIInv, Queue!QueueInv, Queue!TypeOK, Queued
<1>1. ASSUME NEW v \in Event, Queue!Push(v)
      PROVE  Queued(e) \/ (item' = e /\ ~ UNCHANGED item)
    BY <1>1 DEF Queue!Push, Queue!consumerVars
<1>2. CASE Queue!PushCheck \/ Queue!PushStore
    BY <1>2 DEF Queue!PushCheck, Queue!PushStore, Queue!consumerVars
<1>3. CASE Queue!PushWrite
    BY <1>3 DEF Queue!PushWrite, Queue!consumerVars
<1>4. CASE Queue!PopNothing \/ Queue!PopCheck
    BY <1>4 DEF Queue!PopNothing, Queue!PopCheck, Queue!queueVars, Queue!producerVars,
                Queue!consumerVars
<1>5. CASE Queue!PopMove
  <2>1. e # Raw
      BY QueueAssumption DEF Queue!ConstantsOK
  <2>2. QED
      BY <1>5, <2>1 DEF Queue!PopMove, Queue!producerVars
<1>6. CASE Queue!PopStore
    BY <1>6 DEF Queue!PopStore, Queue!producerVars
<1>7. CASE UNCHANGED queueVars
    BY <1>7 DEF queueVars
<1>8. QED
    BY <1>1, <1>2, <1>3, <1>4, <1>5, <1>6, <1>7 DEF Queue!Next, Queue!PushSteps

\* The flag is never taken back, and only a Close message sets it.
LEMMA FlagStays ==
    ASSUME WindowIInv, [Next]_vars
    PROVE  /\ should_close => should_close'
           /\ should_close' => asked'
<1> USE DEF WindowIInv, CloseInv, windowVars
<1>1. CASE Create \/ NcCreate \/ CreateAborts \/ CreateFails \/ CreateReturns
    BY <1>1 DEF Create, NcCreate, CreateAborts, CreateFails, CreateReturns, Delete, life
<1>2. CASE \E type \in Type : WindowProc(type)
    BY <1>2, Zenon DEF WindowProc, WmClose
<1>3. CASE PushSteps \/ Destroy \/ NcDestroy
    BY <1>3 DEF PushSteps, Destroy, NcDestroy
<1>4. CASE TestClose \/ PollNothing \/ PollSteps \/ PollReturns \/ UseBus \/ Deliver
    BY <1>4 DEF TestClose, PollNothing, PollSteps, PollReturns, UseBus, Deliver
<1>5. CASE UNCHANGED vars
    BY <1>5 DEF vars
<1>6. QED
    BY <1>1, <1>2, <1>3, <1>4, <1>5 DEF Next

\* Only WindowProc pushes, and for a Close event it has set the flag.
LEMMA CloseFlagged ==
    ASSUME WindowIInv, [Next]_vars, ~ UNCHANGED item, item' \in Event, item'.type = "Close"
    PROVE  should_close'
<1>1. CASE \/ Create \/ NcCreate \/ CreateAborts \/ CreateFails \/ CreateReturns
           \/ Destroy \/ NcDestroy
    BY <1>1 DEF Create, NcCreate, CreateAborts, CreateFails, CreateReturns, Destroy,
                NcDestroy, queueVars
<1>2. ASSUME NEW type \in Type, WindowProc(type)
      PROVE  should_close'
    BY <1>2 DEF WindowProc, WmClose, Queue!Push
<1>3. CASE PushSteps
    BY <1>3 DEF PushSteps, Queue!PushSteps, Queue!PushCheck, Queue!PushWrite,
                Queue!PushStore
<1>4. CASE TestClose \/ UseBus \/ Deliver \/ UNCHANGED vars
    BY <1>4 DEF TestClose, UseBus, Deliver, vars, queueVars
<1>5. CASE PollNothing \/ PollSteps \/ PollReturns
    BY <1>5 DEF PollNothing, PollSteps, PollReturns, Queue!PopNothing, Queue!PopCheck,
                Queue!PopMove, Queue!PopStore, Queue!queueVars, Queue!producerVars
<1>6. QED
    BY <1>1, <1>2, <1>3, <1>4, <1>5 DEF Next

\* Only values come out.
LEMMA OutKeeps ==
    ASSUME WindowIInv, [Queue!Next]_queueVars
    PROVE  \A i \in DOMAIN out' : out'[i] \in Event
<1> USE DEF WindowIInv, CloseInv, Queue!QueueInv, Queue!TypeOK, Queue!Apart
<1>1. CASE Queue!PopStore
    BY <1>1 DEF Queue!PopStore
<1>2. CASE ~ Queue!PopStore
  <2>1. UNCHANGED out
      BY <1>2 DEF Queue!Next, Queue!Push, Queue!PushSteps, Queue!PushCheck,
                  Queue!PushWrite, Queue!PushStore, Queue!PopNothing, Queue!PopCheck,
                  Queue!PopMove, Queue!queueVars, queueVars
  <2>2. QED
      BY <2>1
<1>3. QED
    BY <1>1, <1>2

LEMMA CloseKeeps ==
    ASSUME WindowIInv, [Next]_vars
    PROVE  CloseInv'
<1>1. ASSUME NEW e \in Event, e.type = "Close", Queued(e)'
      PROVE  should_close'
    BY <1>1, Parts, QueuedBefore, FlagStays, CloseFlagged DEF WindowIInv, CloseInv
<1>2. \A i \in DOMAIN out' : out'[i] \in Event
    BY Parts, OutKeeps
<1>3. QED
    BY <1>1, <1>2, FlagStays DEF CloseInv

LEMMA StepInv ==
    ASSUME WindowIInv, [Next]_vars
    PROVE  WindowIInv'
<1>1. Queue!QueueInv' /\ BusInv'
    BY Parts, QueueKeeps, BusKeeps DEF WindowIInv
<1>2. QED
    BY <1>1, TypeKeeps, LifeKeeps, CloseKeeps DEF WindowIInv

LEMMA InitInv ==
    ASSUME Init
    PROVE  WindowIInv
<1>1. Queue!QueueInv
    BY QueueAssumption, QueueInitInv DEF Init
<1>2. BusInv
    BY BusAssumption, BusInitInv DEF Init
<1>3. messages \in 0 .. MaxMessages
    BY MessagesAssumption DEF Init
<1>4. TypeOK
    BY <1>3, Zenon DEF Init, TypeOK
<1>5. Life
    BY DEF Init, Life, Queue!Init
<1>6. CloseInv
    BY QueueAssumption DEF Init, CloseInv, Queued, Queue!Init, Queue!ConstantsOK
<1>7. QED
    BY <1>1, <1>2, <1>4, <1>5, <1>6 DEF WindowIInv

LEMMA InvHolds == Spec => []WindowIInv
    BY InitInv, StepInv, PTL DEF Spec

-----------------------------------------------------------------------------
(* The window: what the invariant is for *)

\* In every reachable state the window keeps no pointer to a NativeWindow that is
\* deleted and nobody pushes into one; it is deleted once in its life, but twice if
\* CreateWindowExA failed after WM_NCCREATE; the queue's two threads keep off each
\* other's slot, and a Close event never precedes the flag it stands for.
THEOREM WindowSafe == Spec => []WindowInv
<1>1. WindowIInv => WindowInv
  <2> SUFFICES ASSUME WindowIInv
               PROVE  WindowInv
      OBVIOUS
  <2>1. Bus!BusOK
      BY DEF WindowIInv, BusInv
  <2>2. DeletedOnce
      BY DEF WindowIInv, Life, DeletedOnce, TypeOK
  <2>3. CloseIsKnown
      BY DEF WindowIInv, CloseInv, CloseIsKnown, Queued
  <2>4. QED
      BY <2>1, <2>2, <2>3 DEF WindowIInv, WindowInv
<1>2. QED
    BY <1>1, InvHolds, PTL

\* Whatever the callbacks do, a publication that no reset has cut has called
\* every listener of its type when it returns.
THEOREM BusReaches == Spec => PublishReaches
<1>1. WindowIInv /\ [Next]_vars
        => [Len(stack') < Len(stack) /\ ~ Bus!Top.cut
              => Bus!Top.called = listeners[Bus!Top.type]]_stack
  <2> SUFFICES ASSUME WindowIInv, [Next]_vars,
                      Len(stack') < Len(stack), ~ Bus!Top.cut
               PROVE  Bus!Top.called = listeners[Bus!Top.type]
      OBVIOUS
  <2>1. BusInv
      BY DEF WindowIInv
  <2>2. [Bus!Next]_(Bus!busVars)
      BY Parts DEF busVars, Bus!busVars
  <2>3. Bus!PublishReturns
      BY <2>1, <2>2, OnlyReturnShortens
  <2>4. QED
      BY <2>1, <2>3, ReturnReaches
<1>2. QED
    BY <1>1, InvHolds, PTL DEF Spec, PublishReaches, Bus!PublishReaches

-----------------------------------------------------------------------------
(* The queue inside the window is still the abstract channel.                *)

\* Every event that found room is delivered to the loop whole, once and in order,
\* for every QUEUE_SIZE, though the window's life and the bus go on around it.
THEOREM WindowQueueIsChannel == Spec => ImplementsChannel
<1>1. Init => Queue!Init
    BY DEF Init
<1>2. WindowIInv /\ [Next]_vars => [Queue!Next]_(Queue!queueVars)
    BY Parts DEF queueVars, Queue!queueVars, Queue!producerVars, Queue!consumerVars
<1>3. Spec => Queue!Spec
    BY <1>1, <1>2, InvHolds, PTL DEF Spec, Queue!Spec
<1>4. Queue!Spec => Queue!ImplementsChannel
    BY QueueAssumption, QueueImplementsChannel
<1>5. QED
    BY <1>3, <1>4, PTL DEF ImplementsChannel
=============================================================================
