----------------------------- MODULE MPSCQueue -----------------------------
(***************************************************************************)
(* The unbounded linked queue of core/queue/mpsc_queue.h, one action per   *)
(* access to shared memory.  Nodes are addresses: a deleted one may be     *)
(* handed out again by the next allocation.                                *)
(***************************************************************************)
EXTENDS Naturals, Sequences, FiniteSets

CONSTANTS Producer,   \* the threads that call try_push
          Node,       \* bound: the addresses the allocator can return
          NULL,       \* the null pointer
          MaxCalls    \* bound: calls of try_push per producer

ASSUME NodeAssumption == IsFiniteSet(Node) /\ Node # {} /\ NULL \notin Node
ASSUME CallsAssumption == MaxCalls \in Nat

VARIABLES head, tail,         \* the two ends
          alive,              \* the nodes allocated and not deleted
          next, data,         \* the fields of each node
          pc, node, prev,     \* a producer's place in try_push and its locals
          val, calls,         \* its argument, and calls so far
          cpc, head_node, link, item, \* the consumer's place in try_pop, its
                              \* locals (link is the local "next") and *out
          out,                \* every value try_pop has returned
          owed                \* history: a finished push was waiting when the
                              \* consumer's current call began

memory == <<alive, next, data>>
producerVars == <<pc, node, prev, val, calls>>
consumerVars == <<cpc, head_node, link, item, out, owed>>
vars == <<head, tail, memory, producerVars, consumerVars>>

Values == [from : Producer, n : 1 .. MaxCalls]
NoValue == [from |-> "none", n |-> 0]  \* a dummy's data, or moved from

\* p has taken its place in the order and has not linked its node yet.
Exchanged(p) == pc[p] = "link"

\* The node that follows n, through its next field or, before that is stored,
\* through the local variable of the producer about to store it.
After(n) ==
    IF n # NULL /\ \E p \in Producer : Exchanged(p) /\ prev[p] = n
    THEN node[CHOOSE p \in Producer : Exchanged(p) /\ prev[p] = n]
    ELSE IF n = NULL THEN NULL ELSE next[n]

\* chain[0] is the dummy, chain[1], chain[2], ... the nodes in exchange order,
\* then NULL.
chain[k \in 0 .. Cardinality(Node)] == IF k = 0 THEN head ELSE After(chain[k - 1])

InQueue == {k \in 1 .. Cardinality(Node) : chain[k] # NULL}

\* The push of chain[k] has returned.
Finished(k) == k \in InQueue /\ \A p \in Producer : Exchanged(p) => node[p] # chain[k]

\* The address the constructor's dummy node gets; which one makes no difference.
FirstDummy == CHOOSE n \in Node : TRUE

Init ==
    /\ head = FirstDummy /\ tail = FirstDummy
    /\ alive = {FirstDummy}
    /\ next = [n \in Node |-> NULL]
    /\ data = [n \in Node |-> NoValue]
    /\ pc = [p \in Producer |-> "idle"]
    /\ node = [p \in Producer |-> NULL]
    /\ prev = [p \in Producer |-> NULL]
    /\ val = [p \in Producer |-> NoValue]
    /\ calls = [p \in Producer |-> 0]
    /\ cpc = "idle" /\ head_node = NULL /\ link = NULL /\ item = NoValue
    /\ owed = FALSE
    /\ out = <<>>

-----------------------------------------------------------------------------
(* Slips: what an operation below would be with one plausible mistake in it. *)
(* None is part of the specification; each breaks one of its properties.     *)

\* prev->next is never stored.
Link_Forgotten(p) ==
    /\ pc[p] = "link"
    /\ pc' = [pc EXCEPT ![p] = "idle"]
    /\ UNCHANGED <<head, tail, memory, node, prev, val, calls, consumerVars>>

\* The last node is taken for the dummy.
PopLoadNext_KeepsLast ==
    /\ cpc = "loadNext"
    /\ link' = next[head_node]
    /\ cpc' = IF next[head_node] \in {NULL, tail} THEN "idle" ELSE "move"
    /\ UNCHANGED <<head, tail, memory, producerVars, head_node, item, out, owed>>

\* The value is taken from the dummy, not from the node after it.
PopMove_FromDummy ==
    /\ cpc = "move"
    /\ item' = data[head_node]
    /\ cpc' = "advance"
    /\ UNCHANGED <<head, tail, memory, producerVars, head_node, link, out, owed>>

\* The new dummy is deleted in place of the old one.
PopDelete_NewDummy ==
    /\ cpc = "delete"
    /\ alive' = alive \ {link}
    /\ cpc' = "idle"
    /\ UNCHANGED <<head, tail, next, data, producerVars, head_node, link, item, out, owed>>

-----------------------------------------------------------------------------
(* try_push *)

Call(p) ==
    /\ pc[p] = "idle"
    /\ calls[p] < MaxCalls
    /\ calls' = [calls EXCEPT ![p] = @ + 1]
    /\ val' = [val EXCEPT ![p] = [from |-> p, n |-> calls[p] + 1]]
    /\ pc' = [pc EXCEPT ![p] = "alloc"]
    /\ UNCHANGED <<head, tail, memory, node, prev, consumerVars>>

\* An exhausted allocator aborts the process (WZ_CORE_ASSERT), so a call that
\* goes on has a node; with every address in use the caller is stuck here.
Alloc(p) ==
    /\ pc[p] = "alloc"
    /\ \E n \in Node \ alive :
          /\ alive' = alive \cup {n}
          /\ next' = [next EXCEPT ![n] = NULL]
          /\ data' = [data EXCEPT ![n] = val[p]]
          /\ node' = [node EXCEPT ![p] = n]
    /\ pc' = [pc EXCEPT ![p] = "exchange"]
    /\ UNCHANGED <<head, tail, prev, val, calls, consumerVars>>

Exchange(p) ==
    /\ pc[p] = "exchange"
    /\ prev' = [prev EXCEPT ![p] = tail]
    /\ tail' = node[p]
    /\ pc' = [pc EXCEPT ![p] = "link"]
    /\ UNCHANGED <<head, memory, node, val, calls, consumerVars>>

\* Makes the node reachable and returns true.
Link(p) ==
    /\ pc[p] = "link"
    /\ next' = [next EXCEPT ![prev[p]] = node[p]]
    /\ pc' = [pc EXCEPT ![p] = "idle"]
    /\ UNCHANGED <<head, tail, alive, data, node, prev, val, calls, consumerVars>>

TryPush(p) == Alloc(p) \/ Exchange(p) \/ Link(p)

-----------------------------------------------------------------------------
(* try_pop.  clear() and the destructor's drain are loops of these steps. *)

PopLoadHead ==
    /\ cpc = "idle"
    /\ head_node' = head
    /\ owed' = (\E k \in InQueue : Finished(k))
    /\ cpc' = "loadNext"
    /\ UNCHANGED <<head, tail, memory, producerVars, link, item, out>>

PopLoadNext ==
    /\ cpc = "loadNext"
    /\ link' = next[head_node]
    /\ cpc' = IF next[head_node] = NULL THEN "idle" ELSE "move"
    /\ UNCHANGED <<head, tail, memory, producerVars, head_node, item, out, owed>>

PopMove ==
    /\ cpc = "move"
    /\ item' = data[link]
    /\ data' = [data EXCEPT ![link] = NoValue]
    /\ cpc' = "advance"
    /\ UNCHANGED <<head, tail, alive, next, producerVars, head_node, link, out, owed>>

PopAdvance ==
    /\ cpc = "advance"
    /\ head' = link
    /\ out' = Append(out, item)
    /\ cpc' = "delete"
    /\ UNCHANGED <<tail, memory, producerVars, head_node, link, item, owed>>

PopDelete ==
    /\ cpc = "delete"
    /\ alive' = alive \ {head_node}
    /\ cpc' = "idle"
    /\ UNCHANGED <<head, tail, next, data, producerVars, head_node, link, item,
                   out, owed>>

TryPop == PopLoadHead \/ PopLoadNext \/ PopMove \/ PopAdvance \/ PopDelete

Next ==
    \/ \E p \in Producer : Call(p) \/ TryPush(p)
    \/ TryPop

Spec == Init /\ [][Next]_vars

\* A thread inside a call is scheduled again, and the worker keeps calling
\* try_pop.  Nobody has to start a push.
Fairness == WF_vars(TryPop) /\ \A p \in Producer : WF_vars(TryPush(p))

FairSpec == Spec /\ Fairness

-----------------------------------------------------------------------------
(* Properties *)

Pointer == Node \cup {NULL}

TypeOK ==
    /\ head \in Node /\ tail \in Node
    /\ alive \subseteq Node
    /\ next \in [Node -> Pointer]
    /\ data \in [Node -> Values \cup {NoValue}]
    /\ pc \in [Producer -> {"idle", "alloc", "exchange", "link"}]
    /\ node \in [Producer -> Pointer] /\ prev \in [Producer -> Pointer]
    /\ val \in [Producer -> Values \cup {NoValue}]
    /\ calls \in [Producer -> 0 .. MaxCalls]
    /\ cpc \in {"idle", "loadNext", "move", "advance", "delete"}
    /\ head_node \in Pointer /\ link \in Pointer
    /\ item \in Values \cup {NoValue}
    /\ owed \in BOOLEAN
    /\ out \in Seq(Values \cup {NoValue})

\* No thread is about to follow a pointer to a deleted node: the consumer never
\* frees the predecessor a producer still has to link to, never frees a node
\* twice and never moves from a freed one, though addresses are reused.
NoUseAfterFree ==
    /\ {head, tail} \subseteq alive
    /\ \A p \in Producer : pc[p] = "exchange" => node[p] \in alive
    /\ \A p \in Producer : pc[p] = "link" => {prev[p], node[p]} \subseteq alive
    /\ cpc \in {"loadNext", "delete"} => head_node \in alive
    /\ cpc \in {"move", "advance"} => link \in alive

\* Every allocated node is in the list, or on its way in or out of it.
NoLeak ==
    alive = {chain[k] : k \in InQueue \cup {0}}
              \cup {node[p] : p \in {r \in Producer : pc[r] = "exchange"}}
              \cup (IF cpc = "delete" THEN {head_node} ELSE {})

\* The memory of the list is sound at every moment, for producers stopped
\* anywhere in a push and a consumer stopped anywhere in a pop.
QueueInv == TypeOK /\ NoUseAfterFree /\ NoLeak

\* When try_pop answers false although a push had returned before the call and
\* its value is still there, a producer sits between its exchange and its link
\* exactly at the head: the only way a finished push can be hidden.
FalseOnlyBehindGap ==
    [][cpc = "loadNext" /\ cpc' = "idle" /\ owed
          => \E p \in Producer : Exchanged(p) /\ prev[p] = head_node]_vars

\* A value whose push took its place in the order is eventually returned.
AcceptedArrives ==
    \A v \in Values :
        (\E p \in Producer : pc[p] = "link" /\ val[p] = v)
            ~> (\E i \in DOMAIN out : out[i] = v)

-----------------------------------------------------------------------------
(* The linked queue implements the abstract channel; Link is Publish. *)

EntryOf(n) ==
    IF \E p \in Producer : Exchanged(p) /\ node[p] = n
    THEN LET p == CHOOSE r \in Producer : Exchanged(r) /\ node[r] = n
         IN  [from |-> p, val |-> val[p], ready |-> FALSE]
    ELSE LET v == IF cpc = "advance" /\ n = link THEN item ELSE data[n]
         IN  [from |-> v.from, val |-> v, ready |-> TRUE]

qBar == [k \in 1 .. Cardinality(InQueue) |-> EntryOf(chain[k])]

stageBar == [p \in Producer |->
                CASE pc[p] = "idle" -> "idle"
                  [] pc[p] = "link" -> "accepted"
                  [] OTHER -> "calling"]

Channel == INSTANCE MPSCChannel
           WITH Value <- Values, Limit <- Cardinality(Node),
                q <- qBar, stage <- stageBar

\* Every value is delivered in exchange order, whole and once, and never ahead
\* of one that is not linked yet.
ImplementsChannel == Channel!Spec
=============================================================================
