-------------------------- MODULE MPSCQueueProofs --------------------------
(***************************************************************************)
(* Machine-checked proofs about MPSCQueue, for every set of producers and  *)
(* of addresses: the nodes reachable from head are always a list without   *)
(* repetition that ends at tail, in which each missing link is in the      *)
(* hands of the one producer about to store it.                            *)
(***************************************************************************)
EXTENDS MPSCQueue, FiniteSetTheorems, SequenceTheorems, TLAPS

\* The candidates for the list: the dummy, then the nodes in exchange order.
Lists == Seq(Node) \ {<<>>}

Nodes(s) == {s[k] : k \in DOMAIN s}

\* b follows a: linked, or with a producer between its exchange and its link.
Follows(a, b) ==
    \/ next[a] = b /\ \A p \in Producer : ~ (Exchanged(p) /\ prev[p] = a)
    \/ next[a] = NULL /\ \E p \in Producer : Exchanged(p) /\ prev[p] = a /\ node[p] = b

Order(s) ==
    /\ s[1] = head /\ s[Len(s)] = tail
    /\ \A j, k \in DOMAIN s : s[j] = s[k] => j = k
    /\ \A k \in 1 .. Len(s) - 1 : Follows(s[k], s[k + 1])
    /\ next[tail] = NULL

\* Every producer past its exchange is at a gap of its own.
Gaps(s) ==
    /\ \A p \in Producer : Exchanged(p) =>
          \E k \in 1 .. Len(s) - 1 : prev[p] = s[k] /\ node[p] = s[k + 1]
    /\ \A p, r \in Producer : Exchanged(p) /\ Exchanged(r) /\ node[p] = node[r] => p = r

Allocating == {p \in Producer : pc[p] = "exchange"}

\* A node before its exchange is nobody else's.
Fresh(s) ==
    \A p \in Allocating :
        /\ node[p] \in Node \ Nodes(s) /\ next[node[p]] = NULL
        /\ \A r \in Allocating : node[p] = node[r] => p = r
        /\ cpc = "delete" => node[p] # head_node

\* What the consumer has loaded is still so, whatever the producers do.
Consumer(s) ==
    /\ cpc \in {"loadNext", "move", "advance"} => head_node = head
    /\ cpc \in {"move", "advance"} => Len(s) > 1 /\ link = s[2] /\ next[head] = link
    /\ cpc = "loadNext" /\ owed => Len(s) > 1
    /\ cpc = "delete" => head_node \in Node \ Nodes(s)

Accounted(s) ==
    alive = Nodes(s) \cup {node[p] : p \in Allocating}
              \cup (IF cpc = "delete" THEN {head_node} ELSE {})

IsChain(s) == Order(s) /\ Gaps(s) /\ Fresh(s) /\ Consumer(s) /\ Accounted(s)

ChainInv == \E s \in Lists : IsChain(s)

-----------------------------------------------------------------------------
(* Sequences, and induction over a set of numbers *)

LEMMA ListFacts ==
    ASSUME NEW s \in Lists
    PROVE  /\ s \in Seq(Node) /\ Len(s) \in Nat /\ Len(s) >= 1 /\ DOMAIN s = 1 .. Len(s)
           /\ \A k \in 1 .. Len(s) : s[k] \in Node /\ s[k] \in Nodes(s)
           /\ Nodes(s) \subseteq Node
BY DEF Lists, Nodes

LEMMA NatSetInduction ==
    ASSUME NEW T, 0 \in T, \A n \in Nat : n \in T => n + 1 \in T
    PROVE  Nat \subseteq T
<1> DEFINE R == OpToRel(<, Nat)
           U == Nat \ T
<1>1. SUFFICES ASSUME U # {}
               PROVE  FALSE
    OBVIOUS
<1>2. IsWellFoundedOn(R, Nat)
    BY NatLessThanWellFounded
<1>3. \A x, y \in Nat : y < x => <<y, x>> \in R
    BY DEF OpToRel
<1>4. U \subseteq Nat
    OBVIOUS
<1> HIDE DEF R
<1>5. PICK x \in U : \A y \in U : ~ (<<y, x>> \in R)
  <2> HIDE DEF U
  <2> QED
      BY <1>1, <1>2, <1>4, WFMin
<1>6. x # 0 /\ x - 1 \in Nat /\ x - 1 < x
    BY <1>5
<1>7. x - 1 \in U
    BY <1>5, <1>6
<1>8. QED
    BY <1>3, <1>5, <1>6, <1>7

-----------------------------------------------------------------------------
(* chain, as MPSCQueue computes it, is the list. *)

LEMMA AfterIs ==
    ASSUME NEW s \in Lists, Order(s), Gaps(s)
    PROVE  /\ \A k \in 1 .. Len(s) - 1 : After(s[k]) = s[k + 1]
           /\ After(s[Len(s)]) = NULL
           /\ After(NULL) = NULL
<1> DEFINE n == Len(s)
<1>1. /\ n \in Nat /\ n >= 1 /\ DOMAIN s = 1 .. n
      /\ \A k \in 1 .. n : s[k] # NULL
    BY ListFacts, NodeAssumption
<1>2. \A j, k \in 1 .. n : s[j] = s[k] => j = k
    BY <1>1 DEF Order
<1> HIDE DEF n
<1>3. ASSUME NEW k \in 1 .. n - 1
      PROVE  After(s[k]) = s[k + 1]
  <2>1. k \in 1 .. n /\ s[k] # NULL
      BY <1>1
  <2>2. CASE \A p \in Producer : ~ (Exchanged(p) /\ prev[p] = s[k])
    <3>1. next[s[k]] = s[k + 1]
        BY <2>2 DEF Order, Follows, n
    <3>2. QED
        BY <2>1, <2>2, <3>1 DEF After
  <2>3. CASE \E p \in Producer : Exchanged(p) /\ prev[p] = s[k]
    <3>1. PICK p \in Producer :
             /\ Exchanged(p) /\ prev[p] = s[k]
             /\ p = CHOOSE r \in Producer : Exchanged(r) /\ prev[r] = s[k]
        BY <2>3
    <3>2. PICK j \in 1 .. n - 1 : prev[p] = s[j] /\ node[p] = s[j + 1]
        BY <3>1 DEF Gaps, n
    <3>3. j \in 1 .. n
        BY <1>1
    <3>4. j = k
        BY <1>2, <2>1, <3>1, <3>2, <3>3
    <3>5. After(s[k]) = node[p]
        BY <2>1, <2>3, <3>1 DEF After
    <3>6. QED
        BY <3>2, <3>4, <3>5
  <2>4. QED
      BY <2>2, <2>3
<1>4. After(s[n]) = NULL
  <2>1. n \in 1 .. n /\ s[n] # NULL /\ next[s[n]] = NULL
      BY <1>1 DEF Order, n
  <2>2. ASSUME NEW p \in Producer, Exchanged(p), prev[p] = s[n]
        PROVE  FALSE
    <3>1. PICK j \in 1 .. n - 1 : prev[p] = s[j]
        BY <2>2 DEF Gaps, n
    <3>2. j \in 1 .. n /\ j # n
        BY <1>1
    <3>3. QED
        BY <1>2, <2>1, <2>2, <3>1, <3>2
  <2>3. QED
      BY <2>1, <2>2 DEF After
<1>5. After(NULL) = NULL
    BY DEF After
<1>6. QED
    BY <1>3, <1>4, <1>5 DEF n

\* An injective list of addresses is no longer than the set of them.
LEMMA ChainFits ==
    ASSUME NEW s \in Lists, \A j, k \in DOMAIN s : s[j] = s[k] => j = k
    PROVE  Len(s) <= Cardinality(Node) /\ Cardinality(Node) \in Nat
<1>1. /\ s \in [1 .. Len(s) -> Node] /\ Len(s) \in Nat /\ DOMAIN s = 1 .. Len(s)
      /\ 1 \in Int /\ Len(s) \in Int /\ ~ (1 > Len(s)) /\ (Len(s) - 1) + 1 = Len(s)
    BY ListFacts
<1>2. s \in Injection(1 .. Len(s), Node)
    BY <1>1 DEF Injection, IsInjective
<1>3. Cardinality(1 .. Len(s)) <= Cardinality(Node)
    BY <1>2, NodeAssumption, FS_Injection
<1>4. Cardinality(1 .. Len(s)) = Len(s)
    BY <1>1, FS_Interval
<1>5. QED
    BY <1>3, <1>4, NodeAssumption, FS_CardinalityType

LEMMA ChainIs ==
    ASSUME NEW s \in Lists, Order(s), Gaps(s)
    PROVE  /\ \A k \in 0 .. Cardinality(Node) :
                 chain[k] = IF k < Len(s) THEN s[k + 1] ELSE NULL
           /\ InQueue = 1 .. Len(s) - 1
<1> DEFINE n == Len(s)
           N == Cardinality(Node)
           g == [k \in 0 .. N |-> IF k < n THEN s[k + 1] ELSE NULL]
<1>1. n \in Nat /\ n >= 1 /\ N \in Nat /\ n <= N
    BY ListFacts, ChainFits DEF Order
<1>2. /\ \A k \in 1 .. n - 1 : After(s[k]) = s[k + 1]
      /\ After(s[n]) = NULL /\ After(NULL) = NULL /\ s[1] = head
    BY AfterIs DEF Order
<1> HIDE DEF n, N
<1>3. g = [k \in 0 .. N |-> IF k = 0 THEN head ELSE After(g[k - 1])]
  <2>1. ASSUME NEW k \in 0 .. N
        PROVE  g[k] = IF k = 0 THEN head ELSE After(g[k - 1])
    <3>1. CASE k = 0
        BY <1>1, <1>2, <3>1
    <3>2. CASE k # 0 /\ k < n
      <4>1. k \in 1 .. n - 1 /\ k - 1 \in 0 .. N /\ k - 1 < n /\ (k - 1) + 1 = k
          BY <1>1, <3>2
      <4>2. g[k - 1] = s[k] /\ g[k] = s[k + 1]
          BY <3>2, <4>1
      <4>3. QED
          BY <1>2, <3>2, <4>1, <4>2
    <3>3. CASE k # 0 /\ k = n
      <4>1. k - 1 \in 0 .. N /\ k - 1 < n /\ (k - 1) + 1 = n /\ ~ (k < n)
          BY <1>1, <3>3
      <4>2. g[k - 1] = s[n] /\ g[k] = NULL
          BY <4>1
      <4>3. QED
          BY <1>2, <3>3, <4>2
    <3>4. CASE k > n
      <4>1. k - 1 \in 0 .. N /\ ~ (k - 1 < n) /\ ~ (k < n) /\ k # 0
          BY <1>1, <3>4
      <4>2. g[k - 1] = NULL /\ g[k] = NULL
          BY <4>1
      <4>3. QED
          BY <1>2, <4>1, <4>2
    <3>5. QED
        BY <1>1, <3>1, <3>2, <3>3, <3>4
  <2> HIDE DEF g
  <2>2. g = [k \in 0 .. N |-> g[k]]
      BY DEF g
  <2>3. QED
      BY <2>1, <2>2
<1> HIDE DEF g
<1>4. chain = [k \in 0 .. N |-> IF k = 0 THEN head ELSE After(chain[k - 1])]
    BY <1>3 DEF chain, N
<1>5. \A k \in 0 .. N : chain[k] = g[k]
  <2> DEFINE T == {k \in Nat : k <= N => chain[k] = g[k]}
  <2>1. 0 \in T
    <3>1. chain[0] = head /\ g[0] = head
        BY <1>1, <1>3, <1>4
    <3>2. QED
        BY <3>1
  <2>2. ASSUME NEW k \in Nat, k \in T
        PROVE  k + 1 \in T
    <3>1. CASE k + 1 <= N
      <4>1. k + 1 \in 0 .. N /\ (k + 1) - 1 = k /\ k + 1 # 0 /\ k <= N
          BY <1>1, <3>1
      <4>2. chain[k + 1] = After(chain[k]) /\ g[k + 1] = After(g[k])
          BY <1>3, <1>4, <4>1
      <4>3. chain[k] = g[k]
          BY <2>2, <4>1
      <4>4. QED
          BY <4>2, <4>3
    <3>2. CASE ~ (k + 1 <= N)
        BY <3>2
    <3>3. QED
        BY <3>1, <3>2
  <2> HIDE DEF T
  <2>3. Nat \subseteq T
      BY <2>1, <2>2, NatSetInduction
  <2>4. QED
      BY <1>1, <2>3 DEF T
<1>6. \A k \in 0 .. N : chain[k] = IF k < n THEN s[k + 1] ELSE NULL
    BY <1>5 DEF g
<1>7. \A k \in 1 .. N : chain[k] # NULL <=> k < n
  <2>1. \A k \in 1 .. n : s[k] # NULL
      BY ListFacts, NodeAssumption DEF n
  <2>2. \A k \in 1 .. N : k < n => chain[k] # NULL
      BY <1>1, <1>6, <2>1
  <2>3. \A k \in 1 .. N : ~ (k < n) => chain[k] = NULL
      BY <1>1, <1>6
  <2>4. QED
      BY <2>2, <2>3
<1>8. InQueue = 1 .. n - 1
    BY <1>1, <1>7 DEF InQueue, N
<1>9. QED
    BY <1>6, <1>8 DEF n, N

-----------------------------------------------------------------------------
(* Types *)

Places == {"idle", "alloc", "exchange", "link"}

\* What the list says about the pointers that a thread is about to follow.
LEMMA Pointers ==
    ASSUME TypeOK, ChainInv
    PROVE  /\ cpc = "loadNext" => head_node \in Node
           /\ cpc \in {"move", "advance"} => link \in Node
           /\ \A p \in Producer : pc[p] = "exchange" => node[p] \in Node
<1>1. PICK s \in Lists : IsChain(s)
    BY DEF ChainInv
<1>2. cpc \in {"move", "advance"} => link = s[2] /\ 2 \in 1 .. Len(s)
    BY <1>1, ListFacts DEF IsChain, Consumer
<1>3. cpc \in {"move", "advance"} => link \in Node
    BY <1>2, ListFacts
<1>4. cpc = "loadNext" => head_node \in Node
    BY <1>1 DEF IsChain, Consumer, TypeOK
<1>5. \A p \in Producer : pc[p] = "exchange" => node[p] \in Node
    BY <1>1 DEF IsChain, Fresh, Allocating
<1>6. QED
    BY <1>3, <1>4, <1>5

LEMMA TypeInit == Init => TypeOK
<1> SUFFICES ASSUME Init
             PROVE  TypeOK
    OBVIOUS
<1>1. FirstDummy \in Node
    BY NodeAssumption DEF FirstDummy
<1>2. <<>> \in Seq(Values \cup {NoValue}) /\ 0 \in 0 .. MaxCalls
    BY CallsAssumption
<1>3. owed \in BOOLEAN
    BY Zenon DEF Init
<1>4. QED
    BY <1>1, <1>2, <1>3 DEF Init, TypeOK, Pointer

LEMMA TypePush ==
    ASSUME TypeOK, ChainInv, NEW p \in Producer, Call(p) \/ TryPush(p)
    PROVE  TypeOK'
<1>1. owed' = owed
    BY DEF Call, TryPush, Alloc, Exchange, Link, consumerVars
<1>2. CASE Call(p)
  <2>1. calls[p] + 1 \in 1 .. MaxCalls /\ calls[p] + 1 \in 0 .. MaxCalls
      BY <1>2, CallsAssumption DEF Call, TypeOK
  <2>2. [from |-> p, n |-> calls[p] + 1] \in Values
      BY <2>1 DEF Values
  <2>3. QED
      BY <1>1, <1>2, <2>1, <2>2 DEF Call, TypeOK, memory, consumerVars
<1>3. CASE Alloc(p)
  <2>1. PICK n \in Node \ alive :
           /\ alive' = alive \cup {n}
           /\ next' = [next EXCEPT ![n] = NULL]
           /\ data' = [data EXCEPT ![n] = val[p]]
           /\ node' = [node EXCEPT ![p] = n]
      BY <1>3 DEF Alloc
  <2>2. QED
      BY <1>1, <1>3, <2>1 DEF Alloc, TypeOK, Pointer, consumerVars
<1>4. CASE Exchange(p)
  <2>1. node[p] \in Node
      BY <1>4, Pointers DEF Exchange
  <2>2. QED
      BY <1>1, <1>4, <2>1 DEF Exchange, TypeOK, Pointer, memory, consumerVars
<1>5. CASE Link(p)
    BY <1>1, <1>5 DEF Link, TypeOK, Pointer, consumerVars
<1>6. QED
    BY <1>2, <1>3, <1>4, <1>5 DEF TryPush

LEMMA TypePop ==
    ASSUME TypeOK, ChainInv, TryPop
    PROVE  TypeOK'
<1>1. UNCHANGED producerVars
    BY DEF TryPop, PopLoadHead, PopLoadNext, PopMove, PopAdvance, PopDelete
<1>2. CASE PopLoadHead
  <2>1. owed' \in BOOLEAN
      BY <1>2, Zenon DEF PopLoadHead
  <2>2. QED
      BY <1>1, <1>2, <2>1 DEF PopLoadHead, TypeOK, Pointer, memory, producerVars
<1>3. CASE PopLoadNext
  <2>1. next[head_node] \in Pointer
      BY <1>3, Pointers DEF PopLoadNext, TypeOK
  <2>2. QED
      BY <1>1, <1>3, <2>1 DEF PopLoadNext, TypeOK, memory, producerVars
<1>4. CASE PopMove
  <2>1. data[link] \in Values \cup {NoValue}
      BY <1>4, Pointers DEF PopMove, TypeOK
  <2>2. QED
      BY <1>1, <1>4, <2>1 DEF PopMove, TypeOK, memory, producerVars
<1>5. CASE PopAdvance
  <2>1. head' \in Node
      BY <1>5, Pointers DEF PopAdvance
  <2>2. out' \in Seq(Values \cup {NoValue})
      BY <1>5 DEF PopAdvance, TypeOK
  <2>3. QED
      BY <1>1, <1>5, <2>1, <2>2 DEF PopAdvance, TypeOK, memory, producerVars
<1>6. CASE PopDelete
    BY <1>1, <1>6 DEF PopDelete, TypeOK, producerVars
<1>7. QED
    BY <1>2, <1>3, <1>4, <1>5, <1>6 DEF TryPop

-----------------------------------------------------------------------------
(* Each step keeps the list, grows it at the tail or cuts off its head. *)

LEMMA ChainInit == Init => ChainInv
<1> SUFFICES ASSUME Init
             PROVE  ChainInv
    OBVIOUS
<1>1. FirstDummy \in Node
    BY NodeAssumption DEF FirstDummy
<1>2. PICK s \in Seq(Node) : s = <<FirstDummy>>
  <2>1. <<FirstDummy>> \in Seq(Node)
      BY <1>1
  <2>2. QED
      BY <2>1
<1>3. s \in Lists /\ Len(s) = 1 /\ DOMAIN s = {1} /\ s[1] = FirstDummy
    BY <1>2 DEF Lists
<1>4. Order(s) /\ Gaps(s)
    BY <1>1, <1>3 DEF Init, Order, Gaps, Exchanged
<1>5. Allocating = {} /\ Nodes(s) = {FirstDummy}
    BY <1>3 DEF Init, Allocating, Nodes
<1>6. Fresh(s) /\ Consumer(s) /\ Accounted(s)
    BY <1>5 DEF Init, Fresh, Consumer, Accounted
<1>7. QED
    BY <1>3, <1>4, <1>6 DEF ChainInv, IsChain

\* Steps that change neither the pointers nor who is past the exchange.
LEMMA ChainStays ==
    ASSUME NEW s \in Lists, IsChain(s), UNCHANGED <<head, tail, next, node, prev, alive>>,
           Allocating' = Allocating, \A r \in Producer : Exchanged(r)' <=> Exchanged(r),
           (cpc # "delete" /\ cpc' # "delete") \/ UNCHANGED <<cpc, head_node>>,
           Consumer(s)'
    PROVE  IsChain(s)'
<1>1. Order(s)'
    BY DEF IsChain, Order, Follows
<1>2. Gaps(s)'
    BY DEF IsChain, Gaps
<1>3. Fresh(s)'
    BY DEF IsChain, Fresh, Nodes
<1>4. Accounted(s)'
    BY DEF IsChain, Accounted, Nodes
<1>5. QED
    BY <1>1, <1>2, <1>3, <1>4 DEF IsChain

LEMMA ChainCall ==
    ASSUME TypeOK, NEW s \in Lists, IsChain(s), NEW p \in Producer, Call(p)
    PROVE  IsChain(s)'
<1>1. /\ UNCHANGED <<head, tail, next, node, prev, alive, cpc, head_node, link, owed>>
      /\ pc[p] = "idle" /\ pc' = [pc EXCEPT ![p] = "alloc"] /\ pc \in [Producer -> Places]
    BY DEF Call, memory, consumerVars, TypeOK, Places
<1>2. Allocating' = Allocating /\ \A r \in Producer : Exchanged(r)' <=> Exchanged(r)
    BY <1>1 DEF Allocating, Exchanged
<1>3. Consumer(s)'
    BY <1>1 DEF IsChain, Consumer, Nodes
<1>4. QED
    BY <1>1, <1>2, <1>3, ChainStays

LEMMA ChainAlloc ==
    ASSUME TypeOK, NEW s \in Lists, IsChain(s), NEW p \in Producer, Alloc(p)
    PROVE  IsChain(s)'
<1>1. PICK n \in Node \ alive :
         /\ alive' = alive \cup {n} /\ next' = [next EXCEPT ![n] = NULL]
         /\ node' = [node EXCEPT ![p] = n]
    BY DEF Alloc
<1>2. /\ UNCHANGED <<head, tail, prev, cpc, head_node, link, owed>>
      /\ pc[p] = "alloc" /\ pc' = [pc EXCEPT ![p] = "exchange"] /\ pc \in [Producer -> Places]
      /\ node \in [Producer -> Pointer] /\ next \in [Node -> Pointer]
    BY DEF Alloc, consumerVars, TypeOK, Places
<1>3. /\ Nodes(s) \subseteq alive /\ \A r \in Allocating : node[r] \in alive
      /\ cpc = "delete" => head_node \in alive
    BY DEF IsChain, Accounted
<1>4. /\ Allocating' = Allocating \cup {p} /\ p \notin Allocating
      /\ \A r \in Producer : Exchanged(r)' <=> Exchanged(r)
      /\ \A r \in Producer : r # p => node'[r] = node[r]
      /\ ~ Exchanged(p) /\ node'[p] = n
    BY <1>1, <1>2 DEF Allocating, Exchanged
<1>5. /\ Nodes(s)' = Nodes(s) /\ n \notin Nodes(s)
      /\ \A k \in DOMAIN s : s[k] # n /\ s[k] \in Node /\ next'[s[k]] = next[s[k]]
    BY <1>1, <1>2, <1>3, ListFacts DEF Nodes
<1>6. Order(s)'
  <2>1. \A k \in 1 .. Len(s) - 1 : k \in DOMAIN s
      BY ListFacts
  <2>2. \A k \in 1 .. Len(s) - 1 : Follows(s[k], s[k + 1])'
      BY <1>2, <1>4, <1>5, <2>1 DEF IsChain, Order, Follows
  <2>3. next'[tail] = NULL
      BY <1>5, ListFacts DEF IsChain, Order
  <2>4. QED
      BY <1>2, <2>2, <2>3 DEF IsChain, Order
<1>7. Gaps(s)'
    BY <1>2, <1>4 DEF IsChain, Gaps
<1>8. Fresh(s)'
  <2>1. \A r \in Allocating : node'[r] = node[r] /\ node[r] # n /\ r \in Producer
      BY <1>1, <1>3, <1>4 DEF Allocating
  <2>2. \A r \in Allocating : next'[node[r]] = NULL
      BY <1>1, <1>2, <2>1 DEF IsChain, Fresh
  <2>3. next'[n] = NULL
      BY <1>1, <1>2
  <2>4. QED
      BY <1>1, <1>2, <1>3, <1>4, <1>5, <2>1, <2>2, <2>3 DEF IsChain, Fresh
<1>9. Consumer(s)'
  <2>1. next'[head] = next[head]
      BY <1>5, ListFacts DEF IsChain, Order
  <2>2. QED
      BY <1>2, <1>5, <2>1 DEF IsChain, Consumer
<1>10. Accounted(s)'
  <2>1. {node'[r] : r \in Allocating'} = {node[r] : r \in Allocating} \cup {n}
      BY <1>4 DEF Allocating
  <2>2. QED
      BY <1>1, <1>2, <1>5, <2>1 DEF IsChain, Accounted
<1>11. QED
    BY <1>6, <1>7, <1>8, <1>9, <1>10 DEF IsChain

LEMMA ChainLink ==
    ASSUME TypeOK, NEW s \in Lists, IsChain(s), NEW p \in Producer, Link(p)
    PROVE  IsChain(s)'
<1> DEFINE n == Len(s)
<1>1. /\ UNCHANGED <<head, tail, prev, node, alive, cpc, head_node, link, owed>>
      /\ next' = [next EXCEPT ![prev[p]] = node[p]]
      /\ pc[p] = "link" /\ pc' = [pc EXCEPT ![p] = "idle"] /\ pc \in [Producer -> Places]
      /\ next \in [Node -> Pointer]
    BY DEF Link, consumerVars, TypeOK, Places
<1>2. /\ n \in Nat /\ n >= 1 /\ DOMAIN s = 1 .. n
      /\ \A j \in 1 .. n : s[j] \in Node
      /\ \A i, j \in 1 .. n : s[i] = s[j] => i = j
    BY ListFacts DEF IsChain, Order
<1>3. PICK k \in 1 .. n - 1 : prev[p] = s[k] /\ node[p] = s[k + 1]
    BY <1>1 DEF IsChain, Gaps, Exchanged
<1> HIDE DEF n
<1>4. /\ Allocating' = Allocating /\ Exchanged(p) /\ ~ Exchanged(p)'
      /\ \A r \in Producer : r # p => (Exchanged(r)' <=> Exchanged(r))
    BY <1>1 DEF Allocating, Exchanged
<1>5. ASSUME NEW r \in Producer, Exchanged(r), prev[r] = s[k]
      PROVE  r = p
  <2>1. PICK j \in 1 .. n - 1 : prev[r] = s[j] /\ node[r] = s[j + 1]
      BY <1>5 DEF IsChain, Gaps, n
  <2>2. j = k
    <3>1. j \in 1 .. n /\ k \in 1 .. n /\ s[j] = s[k]
        BY <1>2, <1>5, <2>1
    <3>2. QED
        BY <1>2, <3>1
  <2>3. node[r] = node[p]
      BY <1>3, <2>1, <2>2
  <2>4. QED
      BY <1>4, <1>5, <2>3 DEF IsChain, Gaps
<1>6. /\ next'[s[k]] = s[k + 1]
      /\ \A a \in Node : a # s[k] => next'[a] = next[a]
      /\ k \in 1 .. n /\ k + 1 \in 1 .. n /\ s[k] \in Node /\ k # n /\ n \in 1 .. n
    BY <1>1, <1>2, <1>3
<1>7. Nodes(s)' = Nodes(s)
    BY DEF Nodes
<1>8. Order(s)'
  <2>1. Follows(s[k], s[k + 1])'
      BY <1>1, <1>4, <1>5, <1>6 DEF Follows
  <2>2. ASSUME NEW j \in 1 .. n - 1, j # k
        PROVE  Follows(s[j], s[j + 1])'
    <3>1. j \in 1 .. n /\ s[j] # s[k] /\ s[j] \in Node
        BY <1>2, <1>6, <2>2
    <3>2. next'[s[j]] = next[s[j]] /\ prev[p] # s[j]
        BY <1>3, <1>6, <3>1
    <3>3. Follows(s[j], s[j + 1])
        BY DEF IsChain, Order, n
    <3>4. \A r \in Producer : prev[r] = s[j] => (Exchanged(r)' <=> Exchanged(r))
        BY <1>4, <3>2
    <3>5. QED
        BY <1>1, <3>2, <3>3, <3>4 DEF Follows
  <2>3. next'[tail] = NULL
    <3>1. tail = s[n] /\ next[tail] = NULL
        BY DEF IsChain, Order, n
    <3>2. QED
        BY <1>2, <1>6, <3>1
  <2>4. QED
      BY <1>1, <2>1, <2>2, <2>3 DEF IsChain, Order, n
<1>9. Gaps(s)'
    BY <1>1, <1>4 DEF IsChain, Gaps
<1>10. Fresh(s)'
  <2>1. \A r \in Allocating : node[r] # s[k] /\ node[r] \in Node
      BY <1>2, <1>6 DEF IsChain, Fresh, Nodes
  <2>2. QED
      BY <1>1, <1>4, <1>6, <1>7, <2>1 DEF IsChain, Fresh
<1>11. Consumer(s)'
  <2>1. cpc \in {"move", "advance"} => next'[head] = next[head]
    <3>1. ASSUME cpc \in {"move", "advance"}, s[k] = head
          PROVE  FALSE
      <4>1. next[head] = s[2] /\ 2 \in 1 .. n /\ 1 \in 1 .. n /\ s[1] = head
          BY <1>2, <3>1 DEF IsChain, Consumer, Order, n
      <4>2. next[head] # NULL
          BY <1>2, <4>1, NodeAssumption
      <4>3. Follows(s[k], s[k + 1])
          BY DEF IsChain, Order, n
      <4>4. QED
          BY <1>3, <1>4, <3>1, <4>2, <4>3 DEF Follows
    <3>2. QED
        BY <1>6, <3>1 DEF TypeOK
  <2>2. QED
      BY <1>1, <1>7, <2>1 DEF IsChain, Consumer
<1>12. Accounted(s)'
    BY <1>1, <1>4, <1>7 DEF IsChain, Accounted
<1>13. QED
    BY <1>8, <1>9, <1>10, <1>11, <1>12 DEF IsChain

LEMMA ChainExchange ==
    ASSUME TypeOK, NEW s \in Lists, IsChain(s), NEW p \in Producer, Exchange(p)
    PROVE  \E t \in Lists : t = Append(s, node[p]) /\ IsChain(t)'
<1> DEFINE n == Len(s)
<1>1. /\ UNCHANGED <<head, alive, next, node, cpc, head_node, link, owed>>
      /\ prev' = [prev EXCEPT ![p] = tail] /\ tail' = node[p]
      /\ pc[p] = "exchange" /\ pc' = [pc EXCEPT ![p] = "link"] /\ pc \in [Producer -> Places]
      /\ prev \in [Producer -> Pointer]
    BY DEF Exchange, memory, consumerVars, TypeOK, Places
<1>2. /\ s \in Seq(Node) /\ n \in Nat /\ n >= 1 /\ DOMAIN s = 1 .. n
      /\ \A j \in 1 .. n : s[j] \in Nodes(s)
      /\ \A i, j \in 1 .. n : s[i] = s[j] => i = j
      /\ s[1] = head /\ s[n] = tail
    BY ListFacts DEF IsChain, Order
<1>3. /\ p \in Allocating /\ node[p] \in Node /\ node[p] \notin Nodes(s)
      /\ next[node[p]] = NULL
    BY <1>1 DEF IsChain, Fresh, Allocating
<1>4. PICK t \in Seq(Node) : t = Append(s, node[p])
  <2>1. Append(s, node[p]) \in Seq(Node)
      BY <1>2, <1>3
  <2>2. QED
      BY <2>1
<1>5. /\ Len(t) = n + 1 /\ DOMAIN t = 1 .. n + 1 /\ t \in Lists
      /\ t[n + 1] = node[p] /\ \A j \in 1 .. n : t[j] = s[j]
    BY <1>2, <1>3, <1>4 DEF Lists
<1>6. Nodes(t) = Nodes(s) \cup {node[p]}
  <2>1. Nodes(t) = {t[j] : j \in 1 .. n + 1} /\ Nodes(s) = {s[j] : j \in 1 .. n}
      BY <1>2, <1>5 DEF Nodes
  <2>2. \A j \in 1 .. n + 1 : j = n + 1 \/ j \in 1 .. n
      BY <1>2
  <2>3. n + 1 \in 1 .. n + 1 /\ 1 .. n \subseteq 1 .. n + 1
      BY <1>2
  <2> HIDE DEF n
  <2>4. QED
      BY <1>5, <2>1, <2>2, <2>3
<1> HIDE DEF n
<1>7. /\ Allocating' = Allocating \ {p}
      /\ \A r \in Producer : Exchanged(r)' <=> r = p \/ Exchanged(r)
      /\ ~ Exchanged(p) /\ prev'[p] = s[n]
      /\ \A r \in Producer : r # p => prev'[r] = prev[r]
    BY <1>1, <1>2 DEF Allocating, Exchanged
<1>8. Order(t)'
  <2>1. ASSUME NEW k \in 1 .. n - 1
        PROVE  Follows(t[k], t[k + 1])'
    <3>1. /\ k \in 1 .. n /\ k + 1 \in 1 .. n /\ k # n /\ n \in 1 .. n
        BY <1>2
    <3>2. t[k] = s[k] /\ t[k + 1] = s[k + 1] /\ s[k] # s[n]
        BY <1>2, <1>5, <3>1
    <3>3. Follows(s[k], s[k + 1])
        BY DEF IsChain, Order, n
    <3>4. \A r \in Producer : Exchanged(r)' /\ prev'[r] = s[k] <=> Exchanged(r) /\ prev[r] = s[k]
        BY <1>7, <3>2
    <3>5. QED
        BY <1>1, <3>2, <3>3, <3>4 DEF Follows
  <2>2. Follows(t[n], t[n + 1])'
    <3>1. t[n] = s[n] /\ next[s[n]] = NULL
        BY <1>2, <1>5 DEF IsChain, Order
    <3>2. QED
        BY <1>1, <1>5, <1>7, <3>1 DEF Follows
  <2>3. \A k \in 1 .. (n + 1) - 1 : k = n \/ k \in 1 .. n - 1
      BY <1>2
  <2>4. \A k \in 1 .. Len(t) - 1 : Follows(t[k], t[k + 1])'
      BY <1>5, <2>1, <2>2, <2>3
  <2>5. \A j, k \in DOMAIN t : t[j] = t[k] => j = k
    <3>1. \A j \in 1 .. n + 1 : j = n + 1 \/ j \in 1 .. n
        BY <1>2
    <3>2. QED
        BY <1>2, <1>3, <1>5, <3>1
  <2>6. t[1] = head' /\ t[Len(t)] = tail' /\ next'[tail'] = NULL
      BY <1>1, <1>2, <1>3, <1>5
  <2>7. QED
      BY <2>4, <2>5, <2>6 DEF Order
<1>9. Gaps(t)'
  <2>1. ASSUME NEW r \in Producer, Exchanged(r)
        PROVE  \E k \in 1 .. Len(t) - 1 : prev'[r] = t[k] /\ node'[r] = t[k + 1]
    <3>1. PICK k \in 1 .. n - 1 : prev[r] = s[k] /\ node[r] = s[k + 1]
        BY <2>1 DEF IsChain, Gaps, n
    <3>2. k \in 1 .. n /\ k + 1 \in 1 .. n /\ k \in 1 .. Len(t) - 1
        BY <1>2, <1>5
    <3>3. r # p
        BY <1>7, <2>1
    <3>4. QED
        BY <1>1, <1>5, <1>7, <3>1, <3>2, <3>3
  <2>2. \E k \in 1 .. Len(t) - 1 : prev'[p] = t[k] /\ node'[p] = t[k + 1]
    <3>1. n \in 1 .. n /\ n \in 1 .. Len(t) - 1
        BY <1>2, <1>5
    <3>2. QED
        BY <1>1, <1>5, <1>7, <3>1
  <2>3. ASSUME NEW r \in Producer, Exchanged(r)
        PROVE  node[r] # node[p]
    <3>1. PICK k \in 1 .. n - 1 : node[r] = s[k + 1]
        BY <2>3 DEF IsChain, Gaps, n
    <3>2. k + 1 \in 1 .. n
        BY <1>2
    <3>3. QED
        BY <1>2, <1>3, <3>1, <3>2
  <2>4. QED
      BY <1>1, <1>7, <2>1, <2>2, <2>3 DEF IsChain, Gaps
<1>10. Fresh(t)'
    BY <1>1, <1>3, <1>6, <1>7 DEF IsChain, Fresh, Nodes
<1>11. Consumer(t)'
  <2>1. n > 1 => Len(t) > 1 /\ t[2] = s[2]
      BY <1>2, <1>5
  <2>2. cpc = "delete" => head_node \in Node \ Nodes(t)
      BY <1>3, <1>6 DEF IsChain, Fresh, Consumer
  <2>3. Nodes(t)' = Nodes(t)
      BY DEF Nodes
  <2>4. QED
      BY <1>1, <2>1, <2>2, <2>3 DEF IsChain, Consumer, n
<1>12. Accounted(t)'
  <2>1. {node[r] : r \in Allocating} = {node[r] : r \in Allocating \ {p}} \cup {node[p]}
      BY <1>3
  <2>2. Nodes(t)' = Nodes(t)
      BY DEF Nodes
  <2>3. QED
      BY <1>1, <1>6, <1>7, <2>1, <2>2 DEF IsChain, Accounted
<1>13. QED
    BY <1>4, <1>5, <1>8, <1>9, <1>10, <1>11, <1>12 DEF IsChain

LEMMA ChainLoadHead ==
    ASSUME TypeOK, NEW s \in Lists, IsChain(s), PopLoadHead
    PROVE  IsChain(s)'
<1>1. /\ UNCHANGED <<head, tail, next, node, prev, alive, pc, link>>
      /\ cpc = "idle" /\ cpc' = "loadNext" /\ head_node' = head
      /\ owed' <=> \E k \in InQueue : Finished(k)
    BY Zenon DEF PopLoadHead, memory, producerVars
<1>2. owed' => Len(s) > 1
  <2>1. InQueue = 1 .. Len(s) - 1 /\ Len(s) \in Nat
      BY ChainIs, ListFacts DEF IsChain
  <2>2. QED
      BY <1>1, <2>1
<1>3. Consumer(s)'
    BY <1>1, <1>2 DEF Consumer
<1>4. Allocating' = Allocating /\ \A r \in Producer : Exchanged(r)' <=> Exchanged(r)
    BY <1>1 DEF Allocating, Exchanged
<1>5. QED
    BY <1>1, <1>3, <1>4, ChainStays

\* The next pointer that was loaded is the list's second node, or there is a
\* gap, or the list is the dummy alone.
LEMMA NextOfHead ==
    ASSUME NEW s \in Lists, IsChain(s)
    PROVE  /\ next[head] # NULL => Len(s) > 1 /\ s[2] = next[head]
                                   /\ \A r \in Producer : Exchanged(r) => prev[r] # head
           /\ next[head] = NULL /\ Len(s) > 1 =>
                 \E r \in Producer : Exchanged(r) /\ prev[r] = head
<1>1. /\ Len(s) \in Nat /\ Len(s) >= 1 /\ s[1] = head /\ s[Len(s)] = tail
      /\ next[tail] = NULL
    BY ListFacts DEF IsChain, Order
<1>2. Len(s) = 1 => next[head] = NULL
    BY <1>1
<1>3. Len(s) > 1 => Follows(s[1], s[2])
    BY <1>1 DEF IsChain, Order
<1>4. Len(s) > 1 => s[2] # NULL
    BY <1>1, ListFacts, NodeAssumption
<1>5. QED
    BY <1>1, <1>2, <1>3, <1>4 DEF Follows

LEMMA ChainLoadNext ==
    ASSUME TypeOK, NEW s \in Lists, IsChain(s), PopLoadNext
    PROVE  IsChain(s)'
<1>1. /\ UNCHANGED <<head, tail, next, node, prev, alive, pc, head_node, owed>>
      /\ cpc = "loadNext" /\ link' = next[head_node]
      /\ cpc' = IF next[head_node] = NULL THEN "idle" ELSE "move"
    BY DEF PopLoadNext, memory, producerVars
<1>2. head_node = head
    BY <1>1 DEF IsChain, Consumer
<1>3. Consumer(s)'
    BY <1>1, <1>2, NextOfHead DEF Consumer
<1>4. Allocating' = Allocating /\ \A r \in Producer : Exchanged(r)' <=> Exchanged(r)
    BY <1>1 DEF Allocating, Exchanged
<1>5. QED
    BY <1>1, <1>3, <1>4, ChainStays

LEMMA ChainMove ==
    ASSUME TypeOK, NEW s \in Lists, IsChain(s), PopMove
    PROVE  IsChain(s)'
<1>1. /\ UNCHANGED <<head, tail, next, node, prev, alive, pc, head_node, link, owed>>
      /\ cpc = "move" /\ cpc' = "advance"
    BY DEF PopMove, producerVars
<1>2. Consumer(s)'
    BY <1>1 DEF IsChain, Consumer
<1>3. Allocating' = Allocating /\ \A r \in Producer : Exchanged(r)' <=> Exchanged(r)
    BY <1>1 DEF Allocating, Exchanged
<1>4. QED
    BY <1>1, <1>2, <1>3, ChainStays

LEMMA ChainAdvance ==
    ASSUME TypeOK, NEW s \in Lists, IsChain(s), PopAdvance
    PROVE  \E t \in Lists : t = Tail(s) /\ IsChain(t)'
<1> DEFINE n == Len(s)
<1>1. /\ UNCHANGED <<tail, next, node, prev, alive, pc, head_node, link, owed>>
      /\ cpc = "advance" /\ cpc' = "delete" /\ head' = link
    BY DEF PopAdvance, memory, producerVars
<1>2. /\ s \in Seq(Node) /\ n \in Nat /\ n > 1 /\ DOMAIN s = 1 .. n
      /\ \A j \in 1 .. n : s[j] \in Nodes(s) /\ s[j] \in Node
      /\ \A i, j \in 1 .. n : s[i] = s[j] => i = j
      /\ s[1] = head /\ s[n] = tail /\ link = s[2] /\ next[head] = link /\ head_node = head
    BY <1>1, ListFacts DEF IsChain, Order, Consumer
<1>3. PICK t \in Seq(Node) : t = Tail(s)
  <2>1. Tail(s) \in Seq(Node)
      BY <1>2
  <2>2. QED
      BY <2>1
<1>4. /\ Len(t) = n - 1 /\ DOMAIN t = 1 .. n - 1 /\ t \in Lists
      /\ \A j \in 1 .. n - 1 : t[j] = s[j + 1]
    BY <1>2, <1>3, SMTT(30) DEF Lists
<1>5. Nodes(s) = Nodes(t) \cup {s[1]} /\ s[1] \notin Nodes(t)
  <2>1. Nodes(t) = {t[j] : j \in 1 .. n - 1} /\ Nodes(s) = {s[j] : j \in 1 .. n}
      BY <1>2, <1>4 DEF Nodes
  <2>2. \A j \in 1 .. n : j = 1 \/ (j - 1 \in 1 .. n - 1 /\ (j - 1) + 1 = j)
      BY <1>2
  <2>3. \A j \in 1 .. n - 1 : j + 1 \in 1 .. n /\ j + 1 # 1
      BY <1>2
  <2>4. 1 \in 1 .. n
      BY <1>2
  <2> HIDE DEF n
  <2>5. \A j \in 1 .. n : j = 1 \/ s[j] = t[j - 1]
      BY <1>4, <2>2
  <2>6. Nodes(s) \subseteq Nodes(t) \cup {s[1]}
      BY <2>1, <2>2, <2>5
  <2>7. Nodes(t) \subseteq Nodes(s) /\ s[1] \in Nodes(s)
      BY <1>4, <2>1, <2>3, <2>4
  <2>8. s[1] \notin Nodes(t)
      BY <1>2, <1>4, <2>1, <2>3, <2>4
  <2>9. QED
      BY <2>6, <2>7, <2>8
<1>6. Nodes(t)' = Nodes(t) /\ Allocating' = Allocating
      /\ \A r \in Producer : Exchanged(r)' <=> Exchanged(r)
    BY <1>1 DEF Nodes, Allocating, Exchanged
<1> HIDE DEF n
<1>7. \A r \in Producer : Exchanged(r) => prev[r] # s[1]
  <2>1. next[head] # NULL
      BY <1>2, NodeAssumption
  <2>2. QED
      BY <1>2, <2>1, NextOfHead
<1>8. Order(t)'
  <2>1. ASSUME NEW k \in 1 .. Len(t) - 1
        PROVE  Follows(t[k], t[k + 1])'
    <3>1. /\ k \in 1 .. n - 1 /\ k + 1 \in 1 .. n - 1
        BY <1>2, <1>4
    <3>2. Follows(s[k + 1], s[(k + 1) + 1])
        BY <3>1 DEF IsChain, Order, n
    <3>3. Follows(t[k], t[k + 1])
        BY <1>4, <3>1, <3>2
    <3>4. QED
        BY <1>1, <1>6, <3>3 DEF Follows
  <2>2. \A j, k \in 1 .. n - 1 : t[j] = t[k] => j = k
    <3>1. \A j \in 1 .. n - 1 : j + 1 \in 1 .. n /\ j \in Int
        BY <1>2
    <3>2. \A j, k \in 1 .. n - 1 : t[j] = t[k] => j + 1 = k + 1
        BY <1>2, <1>4, <3>1
    <3>3. \A j, k \in 1 .. n - 1 : j + 1 = k + 1 => j = k
        BY <3>1
    <3>4. QED
        BY <3>2, <3>3
  <2>3. t[1] = head' /\ t[Len(t)] = tail'
    <3>1. 1 \in 1 .. n - 1 /\ n - 1 \in 1 .. n - 1 /\ 1 + 1 = 2 /\ (n - 1) + 1 = n
        BY <1>2
    <3>2. t[1] = s[2] /\ t[n - 1] = s[n]
        BY <1>4, <3>1
    <3>3. QED
        BY <1>1, <1>2, <1>4, <3>2
  <2>4. next'[tail'] = NULL
      BY <1>1 DEF IsChain, Order
  <2>5. QED
      BY <1>4, <2>1, <2>2, <2>3, <2>4 DEF Order
<1>9. Gaps(t)'
  <2>1. ASSUME NEW r \in Producer, Exchanged(r)
        PROVE  \E k \in 1 .. Len(t) - 1 : prev[r] = t[k] /\ node[r] = t[k + 1]
    <3>1. PICK k \in 1 .. n - 1 : prev[r] = s[k] /\ node[r] = s[k + 1]
        BY <2>1 DEF IsChain, Gaps, n
    <3>2. k # 1
        BY <1>7, <2>1, <3>1
    <3>3. k - 1 \in 1 .. Len(t) - 1 /\ k - 1 \in 1 .. n - 1 /\ (k - 1) + 1 = k
        BY <1>2, <1>4, <3>2
    <3>4. prev[r] = t[k - 1] /\ node[r] = t[k]
        BY <1>4, <3>1, <3>3
    <3>5. QED
        BY <3>3, <3>4
  <2>2. QED
      BY <1>1, <1>6, <2>1 DEF IsChain, Gaps
<1>10. Fresh(t)'
    BY <1>1, <1>2, <1>5, <1>6 DEF IsChain, Fresh
<1>11. Consumer(t)'
  <2>1. s[1] \in Node
      BY <1>2
  <2>2. QED
      BY <1>1, <1>2, <1>5, <1>6, <2>1 DEF Consumer
<1>12. Accounted(t)'
    BY <1>1, <1>2, <1>5, <1>6 DEF IsChain, Accounted
<1>13. QED
    BY <1>3, <1>4, <1>8, <1>9, <1>10, <1>11, <1>12 DEF IsChain

LEMMA ChainDelete ==
    ASSUME TypeOK, NEW s \in Lists, IsChain(s), PopDelete
    PROVE  IsChain(s)'
<1>1. /\ UNCHANGED <<head, tail, next, node, prev, pc, head_node, link, owed>>
      /\ cpc = "delete" /\ cpc' = "idle" /\ alive' = alive \ {head_node}
    BY DEF PopDelete, producerVars
<1>2. Allocating' = Allocating /\ Nodes(s)' = Nodes(s)
      /\ \A r \in Producer : Exchanged(r)' <=> Exchanged(r)
    BY <1>1 DEF Allocating, Nodes, Exchanged
<1>3. Order(s)' /\ Gaps(s)'
    BY <1>1, <1>2 DEF IsChain, Order, Follows, Gaps
<1>4. Fresh(s)' /\ Consumer(s)'
    BY <1>1, <1>2 DEF IsChain, Fresh, Consumer
<1>5. Accounted(s)'
  <2>1. head_node \notin Nodes(s) /\ head_node \notin {node[r] : r \in Allocating}
      BY <1>1 DEF IsChain, Fresh, Consumer
  <2>2. QED
      BY <1>1, <1>2, <2>1 DEF IsChain, Accounted
<1>6. QED
    BY <1>3, <1>4, <1>5 DEF IsChain

LEMMA ChainStep == TypeOK /\ ChainInv /\ [Next]_vars => TypeOK' /\ ChainInv'
<1> SUFFICES ASSUME TypeOK, ChainInv, [Next]_vars
             PROVE  TypeOK' /\ ChainInv'
    OBVIOUS
<1>1. PICK s \in Lists : IsChain(s)
    BY DEF ChainInv
<1>2. CASE UNCHANGED vars
  <2>1. UNCHANGED <<head, tail, next, node, prev, alive, pc, cpc, head_node, link, owed>>
      BY <1>2 DEF vars, memory, producerVars, consumerVars
  <2>2. Consumer(s)'
      BY <1>1, <2>1 DEF IsChain, Consumer, Nodes
  <2>3. IsChain(s)'
      BY <1>1, <2>1, <2>2, ChainStays DEF Allocating, Exchanged
  <2>4. TypeOK'
      BY <1>2, <2>1 DEF TypeOK, vars, memory, producerVars, consumerVars
  <2>5. QED
      BY <2>3, <2>4 DEF ChainInv
<1>3. ASSUME NEW p \in Producer, Call(p) \/ TryPush(p)
      PROVE  ChainInv'
  <2>1. CASE Call(p)
      BY <1>1, <2>1, ChainCall DEF ChainInv
  <2>2. CASE Alloc(p)
      BY <1>1, <2>2, ChainAlloc DEF ChainInv
  <2>3. CASE Exchange(p)
      BY <1>1, <2>3, ChainExchange DEF ChainInv
  <2>4. CASE Link(p)
      BY <1>1, <2>4, ChainLink DEF ChainInv
  <2>5. QED
      BY <1>3, <2>1, <2>2, <2>3, <2>4 DEF TryPush
<1>4. ASSUME TryPop
      PROVE  ChainInv'
  <2>1. CASE PopAdvance
      BY <1>1, <2>1, ChainAdvance DEF ChainInv
  <2>2. CASE ~ PopAdvance
      BY <1>1, <1>4, <2>2, ChainLoadHead, ChainLoadNext, ChainMove, ChainDelete
      DEF ChainInv, TryPop
  <2>3. QED
      BY <2>1, <2>2
<1>5. CASE Next
    BY <1>3, <1>4, <1>5, TypePush, TypePop DEF Next
<1>6. QED
    BY <1>2, <1>5

THEOREM ChainInvariant == Spec => [](TypeOK /\ ChainInv)
<1>1. Init => TypeOK /\ ChainInv
    BY TypeInit, ChainInit
<1>2. QED
    BY <1>1, ChainStep, PTL DEF Spec

\* The invariant the runs check, from the list.
LEMMA ChainSafe == TypeOK /\ ChainInv => QueueInv
<1> SUFFICES ASSUME TypeOK, NEW s \in Lists, IsChain(s)
             PROVE  QueueInv
    BY DEF ChainInv
<1> DEFINE n == Len(s)
<1>1. /\ n \in Nat /\ n >= 1 /\ DOMAIN s = 1 .. n
      /\ \A k \in 1 .. n : s[k] \in Nodes(s)
      /\ s[1] = head /\ s[n] = tail
    BY ListFacts DEF IsChain, Order
<1>2. /\ Nodes(s) \subseteq alive /\ \A p \in Allocating : node[p] \in alive
      /\ cpc = "delete" => head_node \in alive
    BY DEF IsChain, Accounted
<1>3. NoUseAfterFree
  <2>1. head \in alive /\ tail \in alive
      BY <1>1, <1>2
  <2>2. ASSUME NEW p \in Producer, pc[p] = "link"
        PROVE  {prev[p], node[p]} \subseteq alive
    <3>1. PICK k \in 1 .. n - 1 : prev[p] = s[k] /\ node[p] = s[k + 1]
        BY <2>2 DEF IsChain, Gaps, Exchanged
    <3>2. k \in 1 .. n /\ k + 1 \in 1 .. n
        BY <1>1
    <3>3. QED
        BY <1>1, <1>2, <3>1, <3>2
  <2>3. cpc = "loadNext" => head_node \in alive
      BY <2>1 DEF IsChain, Consumer
  <2>4. cpc \in {"move", "advance"} => link \in alive
    <3>1. cpc \in {"move", "advance"} => 2 \in 1 .. n /\ link = s[2]
        BY <1>1 DEF IsChain, Consumer
    <3>2. QED
        BY <1>1, <1>2, <3>1
  <2>5. QED
      BY <1>2, <2>1, <2>2, <2>3, <2>4 DEF NoUseAfterFree, Allocating
<1>4. {chain[k] : k \in InQueue \cup {0}} = Nodes(s)
  <2>1. /\ \A k \in 0 .. Cardinality(Node) :
                 chain[k] = IF k < n THEN s[k + 1] ELSE NULL
        /\ InQueue = 1 .. n - 1 /\ n <= Cardinality(Node) /\ Cardinality(Node) \in Nat
      BY ChainIs, ChainFits DEF IsChain, Order
  <2>2. InQueue \cup {0} = 0 .. n - 1
      BY <1>1, <2>1
  <2>3. \A k \in 0 .. n - 1 : k \in 0 .. Cardinality(Node) /\ k < n /\ k + 1 \in 1 .. n
      BY <1>1, <2>1
  <2>4. \A k \in 1 .. n : k - 1 \in 0 .. n - 1 /\ (k - 1) + 1 = k
      BY <1>1
  <2> HIDE DEF n
  <2>5. \A k \in 0 .. n - 1 : chain[k] = s[k + 1]
      BY <2>1, <2>3
  <2>6. \A k \in 1 .. n : s[k] = chain[k - 1]
      BY <2>4, <2>5
  <2>7. Nodes(s) = {s[k] : k \in 1 .. n}
      BY <1>1 DEF Nodes
  <2>8. QED
      BY <2>2, <2>3, <2>4, <2>5, <2>6, <2>7
<1>5. NoLeak
    BY <1>4 DEF IsChain, Accounted, Allocating, NoLeak
<1>6. QED
    BY <1>3, <1>5 DEF QueueInv

\* No thread follows a pointer to a deleted node and no node is leaked, for any
\* producers stopped anywhere and any reuse of addresses.
THEOREM QueueSafe == Spec => []QueueInv
BY ChainInvariant, ChainSafe, PTL

LEMMA GapStep ==
    ASSUME TypeOK, ChainInv, [Next]_vars, cpc = "loadNext", cpc' = "idle", owed
    PROVE  \E p \in Producer : Exchanged(p) /\ prev[p] = head_node
<1>1. PICK s \in Lists : IsChain(s)
    BY DEF ChainInv
<1>2. PopLoadNext
    BY DEF Next, vars, consumerVars, Call, TryPush, Alloc, Exchange, Link, TryPop,
           PopLoadHead, PopMove, PopAdvance, PopDelete
<1>3. next[head_node] = NULL
    BY <1>2 DEF PopLoadNext
<1>4. head_node = head /\ Len(s) > 1
    BY <1>1 DEF IsChain, Consumer
<1>5. QED
    BY <1>1, <1>3, <1>4, NextOfHead

\* try_pop misses a finished push only behind a producer that sits between its
\* exchange and its link, at the head itself.
THEOREM MissOnlyBehindGap == Spec => FalseOnlyBehindGap
<1>1. TypeOK /\ ChainInv /\ [Next]_vars
         => [cpc = "loadNext" /\ cpc' = "idle" /\ owed
                => \E p \in Producer : Exchanged(p) /\ prev[p] = head_node]_vars
    BY GapStep
<1>2. QED
    BY <1>1, ChainInvariant, PTL DEF Spec, FalseOnlyBehindGap

-----------------------------------------------------------------------------
(* The linked queue implements the channel: what the channel's queue is.     *)

Held(m) == IF cpc = "advance" /\ m = link THEN item ELSE data[m]

Entries(s) == [k \in 1 .. Len(s) - 1 |-> EntryOf(s[k + 1])]

Waiting(p) == [from |-> p, val |-> val[p], ready |-> FALSE]
Ready(v) == [from |-> v.from, val |-> v, ready |-> TRUE]

LEMMA MarkReady ==
    ASSUME NEW a, NEW b, NEW c, NEW d
    PROVE  [[from |-> a, val |-> b, ready |-> c] EXCEPT !.ready = d]
             = [from |-> a, val |-> b, ready |-> d]
    OBVIOUS

LEMMA QBarIs == \A s \in Lists : Order(s) /\ Gaps(s) => qBar = Entries(s)
<1> SUFFICES ASSUME NEW s \in Lists, Order(s), Gaps(s)
             PROVE  qBar = Entries(s)
    OBVIOUS
<1> DEFINE n == Len(s)
           N == Cardinality(Node)
<1>1. /\ \A k \in 0 .. N : chain[k] = IF k < n THEN s[k + 1] ELSE NULL
      /\ InQueue = 1 .. n - 1 /\ n <= N /\ N \in Nat /\ n \in Nat /\ n >= 1
    BY ChainIs, ChainFits, ListFacts DEF Order
<1> HIDE DEF n, N
<1>2. Cardinality(InQueue) = n - 1
  <2>1. 1 \in Int /\ n - 1 \in Int /\ (1 > n - 1 => n - 1 = 0) /\ (n - 1) - 1 + 1 = n - 1
      BY <1>1
  <2>2. Cardinality(1 .. n - 1) = IF 1 > n - 1 THEN 0 ELSE (n - 1) - 1 + 1
      BY <2>1, FS_Interval
  <2>3. QED
      BY <1>1, <2>1, <2>2
<1>3. \A k \in 1 .. n - 1 : chain[k] = s[k + 1]
    BY <1>1
<1>4. QED
    BY <1>2, <1>3 DEF qBar, Entries, n

LEMMA QBarIsNext == (\A s \in Lists : Order(s) /\ Gaps(s) => qBar = Entries(s))'
BY QBarIs, PTL

LEMMA EntryIs ==
    \A s \in Lists : Gaps(s) =>
        \A m \in Node :
            /\ \A p \in Producer : Exchanged(p) /\ node[p] = m => EntryOf(m) = Waiting(p)
            /\ (\A p \in Producer : ~ (Exchanged(p) /\ node[p] = m))
                  => EntryOf(m) = Ready(Held(m))
<1> SUFFICES ASSUME NEW s \in Lists, Gaps(s), NEW m \in Node
             PROVE  /\ \A p \in Producer : Exchanged(p) /\ node[p] = m
                                              => EntryOf(m) = Waiting(p)
                    /\ (\A p \in Producer : ~ (Exchanged(p) /\ node[p] = m))
                          => EntryOf(m) = Ready(Held(m))
    OBVIOUS
<1>1. ASSUME NEW p \in Producer, Exchanged(p), node[p] = m
      PROVE  EntryOf(m) = Waiting(p)
  <2>1. PICK r \in Producer :
           /\ Exchanged(r) /\ node[r] = m
           /\ r = CHOOSE x \in Producer : Exchanged(x) /\ node[x] = m
      BY <1>1
  <2>2. r = p
      BY <1>1, <2>1 DEF Gaps
  <2>3. QED
      BY <1>1, <2>1, <2>2 DEF EntryOf, Waiting
<1>2. ASSUME \A p \in Producer : ~ (Exchanged(p) /\ node[p] = m)
      PROVE  EntryOf(m) = Ready(Held(m))
    BY <1>2 DEF EntryOf, Ready, Held
<1>3. QED
    BY <1>1, <1>2

LEMMA EntryIsNext ==
    (\A s \in Lists : Gaps(s) =>
        \A m \in Node :
            /\ \A p \in Producer : Exchanged(p) /\ node[p] = m => EntryOf(m) = Waiting(p)
            /\ (\A p \in Producer : ~ (Exchanged(p) /\ node[p] = m))
                  => EntryOf(m) = Ready(Held(m)))'
BY EntryIs, PTL

\* An entry changes only with the node's place or its content.
LEMMA EntryStays ==
    ASSUME NEW s \in Lists, Gaps(s), NEW t \in Lists, Gaps(t)', NEW m \in Node,
           \A r \in Producer : Exchanged(r)' /\ node'[r] = m <=> Exchanged(r) /\ node[r] = m,
           \A r \in Producer : Exchanged(r) => val'[r] = val[r],
           (\A r \in Producer : ~ (Exchanged(r) /\ node[r] = m)) => Held(m)' = Held(m)
    PROVE  EntryOf(m)' = EntryOf(m)
<1>1. CASE \E p \in Producer : Exchanged(p) /\ node[p] = m
  <2>1. PICK p \in Producer : Exchanged(p) /\ node[p] = m
      BY <1>1
  <2>2. EntryOf(m) = Waiting(p)
      BY <2>1, EntryIs
  <2>3. Exchanged(p)' /\ node'[p] = m
      BY <2>1
  <2>4. EntryOf(m)' = Waiting(p)'
      BY <2>3, EntryIsNext
  <2>5. Waiting(p)' = Waiting(p)
      BY <2>1 DEF Waiting
  <2>6. QED
      BY <2>2, <2>4, <2>5
<1>2. CASE \A p \in Producer : ~ (Exchanged(p) /\ node[p] = m)
  <2>1. EntryOf(m) = Ready(Held(m))
      BY <1>2, EntryIs
  <2>2. EntryOf(m)' = Ready(Held(m))'
      BY <1>2, EntryIsNext
  <2>3. Ready(Held(m))' = Ready(Held(m))
      BY <1>2 DEF Ready
  <2>4. QED
      BY <2>1, <2>2, <2>3
<1>3. QED
    BY <1>1, <1>2

\* A step that leaves the list and its contents alone leaves the queue alone.
LEMMA QueueStays ==
    ASSUME NEW s \in Lists, IsChain(s), IsChain(s)',
           \A r \in Producer : Exchanged(r)' <=> Exchanged(r),
           \A r \in Producer : Exchanged(r) => node'[r] = node[r] /\ val'[r] = val[r],
           \A m \in Nodes(s) :
              (\A r \in Producer : ~ (Exchanged(r) /\ node[r] = m)) => Held(m)' = Held(m)
    PROVE  qBar' = qBar
<1>1. qBar = Entries(s) /\ qBar' = Entries(s)'
    BY QBarIs, QBarIsNext DEF IsChain
<1>2. \A m \in Nodes(s) : EntryOf(m)' = EntryOf(m)
    BY EntryStays, ListFacts DEF IsChain
<1>3. \A k \in 1 .. Len(s) - 1 : s[k + 1] \in Nodes(s)
    BY ListFacts
<1>4. Entries(s)' = Entries(s)
    BY <1>2, <1>3 DEF Entries
<1>5. QED
    BY <1>1, <1>4

-----------------------------------------------------------------------------
(* Until its link, a producer's node holds the value it was called with. *)

Contents ==
    /\ \A p \in Producer : pc[p] # "idle" => val[p] \in Values /\ val[p].from = p
    /\ \A p \in Producer : pc[p] \in {"exchange", "link"} => data[node[p]] = val[p]

\* The nodes that producers hold are allocated, and not the one being popped.
LEMMA HeldNodes ==
    ASSUME TypeOK, NEW s \in Lists, IsChain(s), NEW p \in Producer,
           pc[p] \in {"exchange", "link"}
    PROVE  /\ node[p] \in Node /\ node[p] \in alive
           /\ cpc \in {"move", "advance"} => node[p] # link
<1> DEFINE n == Len(s)
<1>1. /\ n \in Nat /\ n >= 1 /\ DOMAIN s = 1 .. n
      /\ \A k \in 1 .. n : s[k] \in Node /\ s[k] \in Nodes(s)
      /\ \A i, j \in 1 .. n : s[i] = s[j] => i = j
      /\ Nodes(s) \subseteq alive /\ s[1] = head
    BY ListFacts DEF IsChain, Accounted, Order
<1>2. cpc \in {"move", "advance"} => n > 1 /\ link = s[2] /\ next[head] = link /\ 2 \in 1 .. n
    BY <1>1 DEF IsChain, Consumer
<1>3. CASE pc[p] = "exchange"
    BY <1>1, <1>2, <1>3 DEF IsChain, Fresh, Allocating, Accounted
<1>4. CASE pc[p] = "link"
  <2>1. PICK k \in 1 .. n - 1 : prev[p] = s[k] /\ node[p] = s[k + 1]
      BY <1>4 DEF IsChain, Gaps, Exchanged
  <2>2. k \in 1 .. n /\ k + 1 \in 1 .. n
      BY <1>1
  <2>3. ASSUME cpc \in {"move", "advance"}, node[p] = link
        PROVE  FALSE
    <3>1. k + 1 = 2
        BY <1>1, <1>2, <2>1, <2>2, <2>3
    <3>2. prev[p] = head
        BY <1>1, <2>1, <2>2, <3>1
    <3>3. next[head] # NULL
        BY <1>1, <1>2, <2>3, NodeAssumption
    <3>4. QED
        BY <1>4, <3>2, <3>3, NextOfHead DEF Exchanged
  <2>4. QED
      BY <1>1, <2>1, <2>2, <2>3
<1>5. QED
    BY <1>3, <1>4

LEMMA ContentsStep == TypeOK /\ ChainInv /\ Contents /\ [Next]_vars => Contents'
<1> SUFFICES ASSUME TypeOK, ChainInv, Contents, [Next]_vars
             PROVE  Contents'
    OBVIOUS
<1>1. PICK s \in Lists : IsChain(s)
    BY DEF ChainInv
<1>2. /\ pc \in [Producer -> Places] /\ val \in [Producer -> Values \cup {NoValue}]
      /\ calls \in [Producer -> 0 .. MaxCalls]
      /\ node \in [Producer -> Pointer] /\ data \in [Node -> Values \cup {NoValue}]
    BY DEF TypeOK, Places
<1>3. \A p \in Producer : pc[p] \in {"exchange", "link"} =>
         /\ node[p] \in Node /\ node[p] \in alive
         /\ cpc \in {"move", "advance"} => node[p] # link
    BY <1>1, HeldNodes
<1>4. ASSUME NEW p \in Producer, Call(p)
      PROVE  Contents'
  <2>1. calls[p] + 1 \in 1 .. MaxCalls
      BY <1>2, <1>4, CallsAssumption DEF Call
  <2>2. [from |-> p, n |-> calls[p] + 1] \in Values
      BY <2>1 DEF Values
  <2>3. QED
      BY <1>2, <1>4, <2>2 DEF Call, Contents, memory
<1>5. ASSUME NEW p \in Producer, Alloc(p)
      PROVE  Contents'
  <2>1. PICK n \in Node \ alive :
           data' = [data EXCEPT ![n] = val[p]] /\ node' = [node EXCEPT ![p] = n]
      BY <1>5 DEF Alloc
  <2>2. data'[n] = val[p] /\ \A m \in Node : m # n => data'[m] = data[m]
      BY <1>2, <2>1
  <2>3. /\ val' = val /\ pc[p] = "alloc" /\ pc' = [pc EXCEPT ![p] = "exchange"]
        /\ node'[p] = n /\ \A r \in Producer : r # p => node'[r] = node[r]
      BY <1>2, <1>5, <2>1 DEF Alloc
  <2>4. QED
      BY <1>2, <1>3, <2>2, <2>3 DEF Contents
<1>6. ASSUME NEW p \in Producer, Exchange(p) \/ Link(p)
      PROVE  Contents'
    BY <1>2, <1>6 DEF Exchange, Link, memory, Contents
<1>7. CASE PopMove
  <2>1. \A m \in Node : m # link => data'[m] = data[m]
      BY <1>2, <1>7 DEF PopMove
  <2>2. cpc = "move" /\ UNCHANGED <<pc, val, node>>
      BY <1>7 DEF PopMove, producerVars
  <2>3. QED
      BY <1>3, <2>1, <2>2 DEF Contents
<1>8. CASE PopLoadHead \/ PopLoadNext \/ PopAdvance \/ PopDelete \/ UNCHANGED vars
  <2>1. UNCHANGED <<pc, val, node, data>>
      BY <1>8
      DEF PopLoadHead, PopLoadNext, PopAdvance, PopDelete, vars, memory, producerVars
  <2>2. QED
      BY <2>1 DEF Contents
<1>9. QED
    BY <1>4, <1>5, <1>6, <1>7, <1>8 DEF Next, TryPush, TryPop

RefInv == TypeOK /\ ChainInv /\ Contents

LEMMA RefInvariant == Spec => []RefInv
<1>1. Init => Contents
    BY DEF Init, Contents
<1>2. QED
    BY <1>1, ContentsStep, ChainInvariant, PTL DEF Spec, RefInv

-----------------------------------------------------------------------------
(* Sequences given by their elements *)

LEMMA AsSeq ==
    ASSUME NEW m \in Nat, NEW q, q = [k \in 1 .. m |-> q[k]]
    PROVE  q \in Seq({q[k] : k \in 1 .. m}) /\ Len(q) = m /\ DOMAIN q = 1 .. m
<1>1. q \in [1 .. m -> {q[k] : k \in 1 .. m}]
    OBVIOUS
<1>2. QED
    BY <1>1

LEMMA AsAppend ==
    ASSUME NEW m \in Nat, NEW q, q = [k \in 1 .. m |-> q[k]],
           NEW r, r = [k \in 1 .. m + 1 |-> r[k]],
           \A k \in 1 .. m : r[k] = q[k]
    PROVE  r = Append(q, r[m + 1])
<1> DEFINE S == {r[k] : k \in 1 .. m + 1}
<1>1. 1 .. m \subseteq 1 .. m + 1 /\ m + 1 \in 1 .. m + 1 /\ m + 1 \in Nat
    OBVIOUS
<1>2. r \in Seq(S) /\ Len(r) = m + 1 /\ r[m + 1] \in S
    BY <1>1, AsSeq
<1>3. q \in [1 .. m -> S]
    BY <1>1
<1> HIDE DEF S
<1>4. q \in Seq(S) /\ Len(q) = m
    BY <1>3
<1>5. QED
    BY <1>1, <1>2, <1>4, SMTT(30)

LEMMA AsTail ==
    ASSUME NEW m \in Nat, m > 0, NEW q, q = [k \in 1 .. m |-> q[k]],
           NEW r, r = [k \in 1 .. m - 1 |-> r[k]],
           \A k \in 1 .. m - 1 : r[k] = q[k + 1]
    PROVE  q # <<>> /\ Head(q) = q[1] /\ r = Tail(q)
<1> DEFINE S == {q[k] : k \in 1 .. m}
<1>1. m - 1 \in Nat /\ \A k \in 1 .. m - 1 : k + 1 \in 1 .. m
    OBVIOUS
<1>2. q \in Seq(S) /\ Len(q) = m
    BY AsSeq
<1>3. r \in [1 .. m - 1 -> S]
    BY <1>1
<1> HIDE DEF S
<1>4. r \in Seq(S) /\ Len(r) = m - 1
    BY <1>1, <1>3
<1>5. q # <<>> /\ Head(q) = q[1]
    BY <1>2
<1>6. Tail(q) \in Seq(S) /\ Len(Tail(q)) = m - 1
    BY <1>2, <1>5
<1>7. \A k \in 1 .. m - 1 : Tail(q)[k] = q[k + 1]
    BY <1>2, <1>5
<1>8. r = Tail(q)
  <2>1. Tail(q) = [k \in 1 .. m - 1 |-> Tail(q)[k]]
      BY <1>1, <1>6
  <2>2. QED
      BY <1>7, <2>1
<1>9. QED
    BY <1>5, <1>8

-----------------------------------------------------------------------------
(* Each step of the linked queue is a step of the channel, or none. *)

LEMMA RefineCall ==
    ASSUME RefInv, RefInv', NEW s \in Lists, IsChain(s), NEW p \in Producer, Call(p)
    PROVE  Channel!Call(p)
<1>1. /\ pc \in [Producer -> Places] /\ pc[p] = "idle"
      /\ pc' = [pc EXCEPT ![p] = "alloc"]
      /\ UNCHANGED <<node, cpc, link, item, data, out>>
      /\ \A r \in Producer : r # p => val'[r] = val[r]
    BY DEF RefInv, TypeOK, Places, Call, memory, consumerVars
<1>2. IsChain(s)'
    BY ChainCall DEF RefInv
<1>3. \A r \in Producer : (Exchanged(r)' <=> Exchanged(r)) /\ (Exchanged(r) => r # p)
    BY <1>1 DEF Exchanged
<1>4. \A m : Held(m)' = Held(m)
    BY <1>1 DEF Held
<1>5. qBar' = qBar
    BY <1>1, <1>2, <1>3, <1>4, QueueStays
<1>6. stageBar[p] = "idle" /\ stageBar' = [stageBar EXCEPT ![p] = "calling"]
    BY <1>1 DEF stageBar, Places
<1>7. QED
    BY <1>1, <1>5, <1>6 DEF Channel!Call

LEMMA RefineAlloc ==
    ASSUME RefInv, RefInv', NEW s \in Lists, IsChain(s), NEW p \in Producer, Alloc(p)
    PROVE  UNCHANGED <<qBar, stageBar, out>>
<1>1. PICK n \in Node \ alive :
         data' = [data EXCEPT ![n] = val[p]] /\ node' = [node EXCEPT ![p] = n]
    BY DEF Alloc
<1>2. /\ pc \in [Producer -> Places] /\ pc[p] = "alloc"
      /\ pc' = [pc EXCEPT ![p] = "exchange"]
      /\ UNCHANGED <<val, cpc, link, item, out>>
      /\ data \in [Node -> Values \cup {NoValue}] /\ node \in [Producer -> Pointer]
    BY DEF RefInv, TypeOK, Places, Alloc, memory, consumerVars
<1>3. IsChain(s)'
    BY ChainAlloc DEF RefInv
<1>4. \A r \in Producer : (Exchanged(r)' <=> Exchanged(r)) /\ (Exchanged(r) => r # p)
    BY <1>2 DEF Exchanged
<1>5. \A m \in Nodes(s) : Held(m)' = Held(m)
  <2>1. \A m \in Nodes(s) : m \in Node /\ m # n
      BY <1>1, ListFacts DEF IsChain, Accounted
  <2>2. QED
      BY <1>1, <1>2, <2>1 DEF Held
<1>6. qBar' = qBar
    BY <1>1, <1>2, <1>3, <1>4, <1>5, QueueStays
<1>7. stageBar' = stageBar
    BY <1>2 DEF stageBar, Places
<1>8. QED
    BY <1>2, <1>6, <1>7

LEMMA RefineExchange ==
    ASSUME RefInv, RefInv', NEW s \in Lists, IsChain(s), NEW p \in Producer, Exchange(p)
    PROVE  val[p] \in Values /\ Channel!Accept(p, val[p])
<1> DEFINE m == Len(s) - 1
<1>1. /\ pc \in [Producer -> Places] /\ pc[p] = "exchange"
      /\ pc' = [pc EXCEPT ![p] = "link"]
      /\ UNCHANGED <<node, val, cpc, link, item, data, out>>
    BY DEF RefInv, TypeOK, Places, Exchange, memory, consumerVars
<1>2. PICK t \in Lists : t = Append(s, node[p]) /\ IsChain(t)'
    BY ChainExchange DEF RefInv
<1>3. node[p] \in Node /\ node[p] \notin Nodes(s)
    BY <1>1 DEF IsChain, Fresh, Allocating
<1>4. /\ m \in Nat /\ Len(s) = m + 1 /\ Len(t) = m + 2
      /\ \A k \in 1 .. m + 1 : t[k] = s[k] /\ s[k] \in Nodes(s) /\ s[k] \in Node
      /\ t[m + 2] = node[p]
    BY <1>2, <1>3, ListFacts
<1>5. /\ qBar = [k \in 1 .. m |-> EntryOf(s[k + 1])]
      /\ qBar' = [k \in 1 .. m + 1 |-> EntryOf(t[k + 1])']
  <2>1. qBar = Entries(s) /\ qBar' = Entries(t)'
      BY <1>2, QBarIs, QBarIsNext DEF IsChain
  <2>2. Len(s) - 1 = m /\ Len(t) - 1 = m + 1
      BY <1>4
  <2> HIDE DEF m
  <2>3. QED
      BY <2>1, <2>2 DEF Entries
<1> HIDE DEF m
<1>6. ASSUME NEW x \in Nodes(s)
      PROVE  EntryOf(x)' = EntryOf(x)
  <2>1. x \in Node /\ x # node[p]
      BY <1>3, <1>6, ListFacts
  <2>2. \A r \in Producer : Exchanged(r)' /\ node'[r] = x <=> Exchanged(r) /\ node[r] = x
      BY <1>1, <2>1 DEF Exchanged
  <2>3. Held(x)' = Held(x)
      BY <1>1 DEF Held
  <2>4. QED
      BY <1>1, <1>2, <2>1, <2>2, <2>3, EntryStays DEF IsChain
<1>7. EntryOf(t[m + 2])' = Waiting(p)
  <2>1. PICK x \in Node : x = t[m + 2] /\ x = node'[p]
      BY <1>1, <1>3, <1>4
  <2>2. Exchanged(p)'
      BY <1>1 DEF Exchanged
  <2>3. EntryOf(x)' = Waiting(p)'
      BY <1>2, <2>1, <2>2, EntryIsNext DEF IsChain
  <2>4. Waiting(p)' = Waiting(p)
      BY <1>1 DEF Waiting
  <2>5. QED
      BY <2>1, <2>3, <2>4
<1>8. \A k \in 1 .. m : k \in 1 .. m + 1 /\ k + 1 \in 1 .. m + 1
    BY <1>4
<1>9. \A k \in 1 .. m : qBar'[k] = qBar[k]
    BY <1>4, <1>5, <1>6, <1>8
<1>10. qBar'[m + 1] = Waiting(p)
  <2>1. m + 1 \in 1 .. m + 1 /\ (m + 1) + 1 = m + 2
      BY <1>4
  <2>2. QED
      BY <1>5, <1>7, <2>1
<1>11. /\ qBar = [k \in 1 .. m |-> qBar[k]]
       /\ qBar' = [k \in 1 .. m + 1 |-> qBar'[k]]
    BY <1>5
<1>12. qBar' = Append(qBar, Waiting(p))
    BY <1>4, <1>9, <1>10, <1>11, AsAppend
<1>13. Len(qBar) < Cardinality(Node)
  <2>1. Len(qBar) = m
      BY <1>4, <1>11, AsSeq
  <2>2. Len(s) <= Cardinality(Node) /\ Cardinality(Node) \in Nat
      BY ChainFits DEF IsChain, Order
  <2>3. QED
      BY <1>4, <2>1, <2>2
<1>14. stageBar[p] = "calling" /\ stageBar' = [stageBar EXCEPT ![p] = "accepted"]
    BY <1>1 DEF stageBar, Places
<1>15. val[p] \in Values
    BY <1>1 DEF RefInv, Contents
<1>16. QED
    BY <1>1, <1>12, <1>13, <1>14, <1>15 DEF Channel!Accept, Waiting

\* The link is the publication: the entry stays where it is and becomes ready.
LEMMA RefineLink ==
    ASSUME RefInv, RefInv', NEW s \in Lists, IsChain(s), NEW p \in Producer, Link(p)
    PROVE  Channel!Publish(p)
<1> DEFINE m == Len(s) - 1
<1>1. /\ pc \in [Producer -> Places] /\ pc[p] = "link"
      /\ pc' = [pc EXCEPT ![p] = "idle"]
      /\ UNCHANGED <<node, val, cpc, link, item, data, out>>
    BY DEF RefInv, TypeOK, Places, Link, consumerVars
<1>2. IsChain(s)'
    BY ChainLink DEF RefInv
<1>3. PICK k \in 1 .. m : node[p] = s[k + 1]
    BY <1>1 DEF IsChain, Gaps, Exchanged
<1>4. /\ m \in Nat /\ Len(s) = m + 1
      /\ \A j \in 1 .. m : j + 1 \in DOMAIN s /\ s[j + 1] \in Node
      /\ \A j \in 1 .. m : s[j + 1] = s[k + 1] => j = k
  <2>1. /\ m \in Nat /\ Len(s) = m + 1
        /\ \A j \in 1 .. m : j + 1 \in DOMAIN s /\ s[j + 1] \in Node
      BY ListFacts
  <2>2. ASSUME NEW j \in 1 .. m, s[j + 1] = s[k + 1]
        PROVE  j = k
    <3>1. j + 1 = k + 1
        BY <2>1, <2>2 DEF IsChain, Order
    <3>2. QED
        BY <2>1, <3>1
  <2>3. QED
      BY <2>1, <2>2
<1>5. /\ qBar = [j \in 1 .. m |-> EntryOf(s[j + 1])]
      /\ qBar' = [j \in 1 .. m |-> EntryOf(s[j + 1])']
    BY <1>2, QBarIs, QBarIsNext DEF IsChain, Entries
<1> HIDE DEF m
<1>6. \A r \in Producer : Exchanged(r)' <=> Exchanged(r) /\ r # p
    BY <1>1 DEF Exchanged
<1>7. ASSUME NEW j \in 1 .. m, j # k
      PROVE  EntryOf(s[j + 1])' = EntryOf(s[j + 1])
  <2>1. PICK x \in Node : x = s[j + 1]
      BY <1>4
  <2>2. x # node[p]
      BY <1>3, <1>4, <1>7, <2>1
  <2>3. \A r \in Producer : Exchanged(r)' /\ node'[r] = x <=> Exchanged(r) /\ node[r] = x
      BY <1>1, <1>6, <2>2
  <2>4. Held(x)' = Held(x)
      BY <1>1 DEF Held
  <2>5. EntryOf(x)' = EntryOf(x)
      BY <1>1, <1>2, <2>3, <2>4, EntryStays DEF IsChain
  <2>6. QED
      BY <2>1, <2>5
<1>8. qBar[k] = Waiting(p) /\ qBar'[k] = [Waiting(p) EXCEPT !.ready = TRUE]
  <2>1. PICK x \in Node : x = s[k + 1] /\ x = node[p]
      BY <1>3, <1>4
  <2>2. EntryOf(x) = Waiting(p)
      BY <1>1, <2>1, EntryIs DEF IsChain, Exchanged
  <2>3. \A r \in Producer : ~ (Exchanged(r)' /\ node'[r] = x)
    <3>1. Exchanged(p)
        BY <1>1 DEF Exchanged
    <3>2. \A r \in Producer : Exchanged(r) /\ node[r] = node[p] => r = p
        BY <3>1 DEF IsChain, Gaps
    <3>3. QED
        BY <1>1, <1>6, <2>1, <3>2
  <2>4. EntryOf(x)' = Ready(Held(x))'
      BY <1>2, <2>3, EntryIsNext DEF IsChain
  <2>5. Held(x)' = val[p] /\ val[p].from = p
    <3>1. ~ (cpc = "advance" /\ x = link)
        BY <1>1, <2>1, HeldNodes DEF RefInv
    <3>2. data[x] = val[p] /\ val[p].from = p
        BY <1>1, <2>1 DEF RefInv, Contents
    <3>3. QED
        BY <1>1, <3>1, <3>2 DEF Held
  <2>6. Ready(Held(x))' = [Waiting(p) EXCEPT !.ready = TRUE]
    <3>1. Ready(Held(x))' = [from |-> p, val |-> val[p], ready |-> TRUE]
        BY <2>5 DEF Ready
    <3>2. [Waiting(p) EXCEPT !.ready = TRUE] = [from |-> p, val |-> val[p], ready |-> TRUE]
        BY MarkReady DEF Waiting
    <3>3. QED
        BY <3>1, <3>2
  <2>7. QED
      BY <1>5, <2>1, <2>2, <2>4, <2>6
<1>9. qBar' = [qBar EXCEPT ![k].ready = TRUE]
  <2>1. qBar' = [qBar EXCEPT ![k] = [qBar[k] EXCEPT !.ready = TRUE]]
      BY <1>5, <1>7, <1>8
  <2>2. QED
      BY <2>1
<1>10. k \in DOMAIN qBar /\ qBar[k].from = p /\ ~ qBar[k].ready
    BY <1>5, <1>8 DEF Waiting
<1>11. stageBar[p] = "accepted" /\ stageBar' = [stageBar EXCEPT ![p] = "idle"]
    BY <1>1 DEF stageBar, Places
<1>12. QED
    BY <1>1, <1>9, <1>10, <1>11 DEF Channel!Publish

\* Loading head and next, moving the value out and deleting the old dummy are
\* the consumer's own affair.
LEMMA RefineStutter ==
    ASSUME RefInv, RefInv', NEW s \in Lists, IsChain(s),
           PopLoadHead \/ PopLoadNext \/ PopMove \/ PopDelete \/ UNCHANGED vars
    PROVE  UNCHANGED <<qBar, stageBar, out>>
<1>1. UNCHANGED <<pc, node, val, out>>
    BY DEF PopLoadHead, PopLoadNext, PopMove, PopDelete, vars, producerVars, consumerVars
<1>2. \A r \in Producer : Exchanged(r)' <=> Exchanged(r)
    BY <1>1 DEF Exchanged
<1>3. IsChain(s)'
  <2>1. CASE UNCHANGED vars
    <3>1. UNCHANGED <<head, tail, next, node, prev, alive, pc, cpc, head_node, link, owed>>
        BY <2>1 DEF vars, memory, producerVars, consumerVars
    <3>2. Consumer(s)'
        BY <3>1 DEF IsChain, Consumer, Nodes
    <3>3. QED
        BY <3>1, <3>2, ChainStays DEF Allocating, Exchanged
  <2>2. QED
      BY <2>1, ChainLoadHead, ChainLoadNext, ChainMove, ChainDelete DEF RefInv
<1>4. \A m \in Nodes(s) : Held(m)' = Held(m)
  <2>1. CASE PopMove
    <3>1. /\ cpc = "move" /\ cpc' = "advance" /\ item' = data[link] /\ link' = link
          /\ data' = [data EXCEPT ![link] = NoValue]
          /\ data \in [Node -> Values \cup {NoValue}]
        BY <2>1 DEF PopMove, RefInv, TypeOK
    <3>2. QED
        BY <3>1, ListFacts DEF Held
  <2>2. CASE PopLoadHead \/ PopLoadNext \/ PopDelete \/ UNCHANGED vars
    <3>1. /\ data' = data /\ (cpc = "advance" => cpc' = cpc /\ link' = link /\ item' = item)
          /\ (cpc' = "advance" => cpc = "advance")
        BY <2>2
        DEF PopLoadHead, PopLoadNext, PopDelete, vars, memory, consumerVars
    <3>2. QED
        BY <3>1 DEF Held
  <2>3. QED
      BY <2>1, <2>2
<1>5. qBar' = qBar
    BY <1>1, <1>2, <1>3, <1>4, QueueStays
<1>6. stageBar' = stageBar
    BY <1>1 DEF stageBar
<1>7. QED
    BY <1>1, <1>5, <1>6

\* The store to head is the delivery.
LEMMA RefineAdvance ==
    ASSUME RefInv, RefInv', NEW s \in Lists, IsChain(s), PopAdvance
    PROVE  Channel!Deliver
<1> DEFINE m == Len(s) - 1
<1>1. /\ cpc = "advance" /\ cpc' = "delete" /\ out' = Append(out, item)
      /\ UNCHANGED <<pc, node, val, link, item, data>>
    BY DEF PopAdvance, memory, producerVars
<1>2. PICK t \in Lists : t = Tail(s) /\ IsChain(t)'
    BY <1>1, ChainAdvance DEF RefInv
<1>3. /\ m \in Nat /\ m > 0 /\ Len(s) = m + 1 /\ Len(t) = m /\ link = s[2]
      /\ \A k \in 1 .. m : t[k] = s[k + 1] /\ s[k + 1] \in Node
      /\ \A k \in 1 .. m : s[k + 1] = link => k = 1
  <2>1. Len(s) > 1 /\ link = s[2]
      BY <1>1 DEF IsChain, Consumer
  <2>2. /\ m \in Nat /\ m > 0 /\ Len(s) = m + 1 /\ Len(t) = m
        /\ \A k \in 1 .. m : t[k] = s[k + 1] /\ s[k + 1] \in Node /\ k + 1 \in DOMAIN s
        /\ 2 \in DOMAIN s
      BY <1>2, <2>1, ListFacts
  <2>3. ASSUME NEW k \in 1 .. m, s[k + 1] = link
        PROVE  k = 1
    <3>1. k + 1 = 2
        BY <2>1, <2>2, <2>3 DEF IsChain, Order
    <3>2. QED
        BY <2>2, <3>1
  <2>4. QED
      BY <2>1, <2>2, <2>3
<1>4. /\ qBar = [k \in 1 .. m |-> EntryOf(s[k + 1])]
      /\ qBar' = [k \in 1 .. m - 1 |-> EntryOf(t[k + 1])']
  <2>1. qBar = Entries(s) /\ qBar' = Entries(t)'
      BY <1>2, QBarIs, QBarIsNext DEF IsChain
  <2>2. Len(s) - 1 = m /\ Len(t) - 1 = m - 1
      BY <1>3
  <2> HIDE DEF m
  <2>3. QED
      BY <2>1, <2>2 DEF Entries
<1> HIDE DEF m
<1>5. ASSUME NEW x \in Node, x # link
      PROVE  EntryOf(x)' = EntryOf(x)
  <2>1. \A r \in Producer : Exchanged(r)' /\ node'[r] = x <=> Exchanged(r) /\ node[r] = x
      BY <1>1 DEF Exchanged
  <2>2. Held(x)' = Held(x)
      BY <1>1, <1>5 DEF Held
  <2>3. QED
      BY <1>1, <1>2, <2>1, <2>2, EntryStays DEF IsChain
<1>6. ASSUME NEW k \in 1 .. m - 1
      PROVE  qBar'[k] = qBar[k + 1]
  <2>1. k + 1 \in 1 .. m /\ k + 1 # 1
      BY <1>3
  <2>2. PICK x \in Node : x = t[k + 1] /\ x = s[(k + 1) + 1] /\ x # link
      BY <1>3, <2>1
  <2>3. EntryOf(x)' = EntryOf(x)
      BY <1>5, <2>2
  <2>4. QED
      BY <1>4, <2>1, <2>2, <2>3
<1>7. qBar[1] = Ready(item)
  <2>1. PICK x \in Node : x = link /\ x = s[1 + 1] /\ 1 \in 1 .. m
      BY <1>3
  <2>2. \A r \in Producer : ~ (Exchanged(r) /\ node[r] = x)
      BY <1>1, <2>1, HeldNodes DEF RefInv, Exchanged
  <2>3. EntryOf(x) = Ready(Held(x))
      BY <2>2, EntryIs DEF IsChain
  <2>4. Held(x) = item
      BY <1>1, <2>1 DEF Held
  <2>5. QED
      BY <1>4, <2>1, <2>3, <2>4
<1>8. qBar = [k \in 1 .. m |-> qBar[k]] /\ qBar' = [k \in 1 .. m - 1 |-> qBar'[k]]
    BY <1>4
<1>9. qBar # <<>> /\ Head(qBar) = qBar[1] /\ qBar' = Tail(qBar)
  <2>1. \A k \in 1 .. m - 1 : qBar'[k] = qBar[k + 1]
      BY <1>6
  <2>2. PICK q : q = qBar
      OBVIOUS
  <2>3. PICK r : r = qBar'
      OBVIOUS
  <2>4. m \in Nat /\ m > 0
      BY <1>3
  <2>5. q = [k \in 1 .. m |-> q[k]] /\ r = [k \in 1 .. m - 1 |-> r[k]]
      BY <1>8, <2>2, <2>3
  <2>6. \A k \in 1 .. m - 1 : r[k] = q[k + 1]
      BY <2>1, <2>2, <2>3
  <2>7. q # <<>> /\ Head(q) = q[1] /\ r = Tail(q)
      BY ONLY <2>4, <2>5, <2>6, AsTail
  <2>8. QED
      BY <2>2, <2>3, <2>7
<1>10. stageBar' = stageBar
    BY <1>1 DEF stageBar
<1>11. QED
    BY <1>1, <1>7, <1>9, <1>10 DEF Channel!Deliver, Ready

LEMMA RefineInit == Init => Channel!Init
<1> SUFFICES ASSUME Init
             PROVE  Channel!Init
    OBVIOUS
<1>1. PICK s \in Lists : s = <<FirstDummy>>
  <2>1. <<FirstDummy>> \in Seq(Node)
      BY NodeAssumption DEF FirstDummy
  <2>2. <<FirstDummy>> \in Lists
      BY <2>1 DEF Lists
  <2>3. QED
      BY <2>2
<1>2. Order(s) /\ Gaps(s)
  <2>1. Len(s) = 1 /\ DOMAIN s = {1} /\ s[1] = FirstDummy /\ FirstDummy \in Node
      BY <1>1, NodeAssumption DEF FirstDummy
  <2>2. QED
      BY <2>1 DEF Init, Order, Gaps, Exchanged
<1>3. qBar = [k \in 1 .. 0 |-> EntryOf(s[k + 1])]
    BY <1>1, <1>2, QBarIs DEF Entries
<1>4. qBar = <<>>
    BY <1>3
<1>5. stageBar = [p \in Producer |-> "idle"]
    BY DEF Init, stageBar
<1>6. QED
    BY <1>4, <1>5 DEF Init, Channel!Init

LEMMA RefineStep ==
    RefInv /\ RefInv' /\ [Next]_vars => [Channel!Next]_<<qBar, stageBar, out>>
<1> SUFFICES ASSUME RefInv, RefInv', [Next]_vars
             PROVE  [Channel!Next]_<<qBar, stageBar, out>>
    OBVIOUS
<1>1. PICK s \in Lists : IsChain(s)
    BY DEF RefInv, ChainInv
<1>2. ASSUME NEW p \in Producer, Call(p) \/ TryPush(p)
      PROVE  [Channel!Next]_<<qBar, stageBar, out>>
  <2>1. CASE Call(p)
      BY <1>1, <2>1, RefineCall DEF Channel!Next
  <2>2. CASE Alloc(p)
      BY <1>1, <2>2, RefineAlloc
  <2>3. CASE Exchange(p)
      BY <1>1, <2>3, RefineExchange DEF Channel!Next
  <2>4. CASE Link(p)
      BY <1>1, <2>4, RefineLink DEF Channel!Next
  <2>5. QED
      BY <1>2, <2>1, <2>2, <2>3, <2>4 DEF TryPush
<1>3. CASE PopAdvance
    BY <1>1, <1>3, RefineAdvance DEF Channel!Next
<1>4. CASE PopLoadHead \/ PopLoadNext \/ PopMove \/ PopDelete \/ UNCHANGED vars
    BY <1>1, <1>4, RefineStutter
<1>5. QED
    BY <1>2, <1>3, <1>4 DEF Next, TryPop

\* Values are delivered in the order of the exchanges, each whole and once, and
\* none is ever delivered ahead of one whose link is not stored yet.
THEOREM QueueImplementsChannel == Spec => ImplementsChannel
<1>1. QED
    BY RefineInit, RefineStep, RefInvariant, PTL
    DEF Spec, ImplementsChannel, Channel!Spec, Channel!channelVars
=============================================================================
