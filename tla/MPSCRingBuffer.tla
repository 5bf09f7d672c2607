--------------------------- MODULE MPSCRingBuffer ---------------------------
(***************************************************************************)
(* The bounded lock-free queue of core/queue/mpsc_ring_buffer.h, one       *)
(* action per access to shared memory.  Atomics are interleaved; the       *)
(* non-atomic cell values are covered by NoDataRace.                       *)
(***************************************************************************)
EXTENDS Integers, Sequences

CONSTANTS Producer,   \* the threads that call try_push
          Capacity,   \* the template parameter
          MaxCalls,   \* bound: calls of try_push per producer
          MaxClears   \* bound: calls of clear

ASSUME CapacityAssumption == Capacity \in Nat /\ Capacity > 1
ASSUME BoundAssumption == MaxCalls \in Nat /\ MaxClears \in Nat

VARIABLES head, tail,    \* the two atomic counters
          state,         \* Cell::state of each slot
          value,         \* Cell::value of each slot
          pc, h, t, val, \* a producer's place in try_push and its locals
          calls,         \* calls of try_push so far, numbers the values
          cpc, ch, cval, \* the consumer's place in try_pop and its locals
          opc, oh,       \* an observer's place in empty() and its local
          clears,        \* calls of clear so far
          out,           \* every value try_pop has returned
          wasFull,       \* history: the buffer has been full during p's call
          backlog        \* history: a finished push was waiting when the
                         \* consumer's current call began

counters == <<head, tail>>
cells    == <<state, value>>
producerVars == <<pc, h, t, val, calls, wasFull>>
consumerVars == <<cpc, ch, cval, backlog, out, clears>>
observerVars == <<opc, oh>>
vars == <<counters, cells, producerVars, consumerVars, observerVars>>

Slot(ticket) == ticket % Capacity
Slots == 0 .. Capacity - 1

Values == [from : Producer, n : 1 .. MaxCalls]
NoValue == [from |-> "none", n |-> 0]  \* a cell never written, or moved from

Full == tail - head >= Capacity

\* Ticket i is claimed by p, which has not published it yet.
Pending(p, i) == pc[p] \in {"write", "publish"} /\ t[p] = i

\* Ticket i was published, and try_pop has not returned it.
Waiting(i) == i \in head .. tail - 1 /\ \A p \in Producer : ~ Pending(p, i)

Init ==
    /\ head = 0 /\ tail = 0
    /\ state = [s \in Slots |-> "Empty"]
    /\ value = [s \in Slots |-> NoValue]
    /\ pc = [p \in Producer |-> "idle"]
    /\ h = [p \in Producer |-> 0]
    /\ t = [p \in Producer |-> 0]
    /\ val = [p \in Producer |-> NoValue]
    /\ calls = [p \in Producer |-> 0]
    /\ wasFull = [p \in Producer |-> FALSE]
    /\ cpc = "idle" /\ ch = 0 /\ cval = NoValue /\ backlog = FALSE
    /\ opc = "idle" /\ oh = 0
    /\ clears = 0
    /\ out = <<>>

-----------------------------------------------------------------------------
(* Slips: what an operation below would be with one plausible mistake in it. *)
(* None is part of the specification; each breaks one of its properties.     *)

\* The full test lets one value too many in.
LoadTail_OffByOne(p) ==
    /\ pc[p] = "loadTail"
    /\ t' = [t EXCEPT ![p] = tail]
    /\ pc' = [pc EXCEPT ![p] = IF tail - h[p] > Capacity THEN "idle" ELSE "cas"]
    /\ UNCHANGED <<counters, cells, h, val, calls, wasFull, consumerVars, observerVars>>

\* The full test keeps one slot free, as the SPSC queue does.
LoadTail_SpareSlot(p) ==
    /\ pc[p] = "loadTail"
    /\ t' = [t EXCEPT ![p] = tail]
    /\ pc' = [pc EXCEPT ![p] = IF tail - h[p] + 1 >= Capacity THEN "idle" ELSE "cas"]
    /\ UNCHANGED <<counters, cells, h, val, calls, wasFull, consumerVars, observerVars>>

\* A plain store of tail in place of the compare-exchange.
Claim_PlainStore(p) ==
    /\ pc[p] = "cas"
    /\ tail' = t[p] + 1
    /\ pc' = [pc EXCEPT ![p] = "write"]
    /\ wasFull' = [r \in Producer |-> wasFull[r] \/ t[p] + 1 - head >= Capacity]
    /\ UNCHANGED <<head, cells, h, t, val, calls, consumerVars, observerVars>>

\* The cell is written and never marked Ready.
PublishCell_Forgotten(p) ==
    /\ pc[p] = "publish"
    /\ pc' = [pc EXCEPT ![p] = "idle"]
    /\ UNCHANGED <<counters, cells, h, t, val, calls, wasFull, consumerVars, observerVars>>

\* The failed exchange is tried again with the tail loaded before.
Retry_Stale(p) ==
    /\ pc[p] = "cas"
    /\ UNCHANGED vars

\* Only the counters are reset.
Clear_CountersOnly ==
    /\ clears < MaxClears
    /\ cpc = "idle" /\ opc = "idle"
    /\ \A p \in Producer : pc[p] = "idle"
    /\ clears' = clears + 1
    /\ head' = 0 /\ tail' = 0
    /\ UNCHANGED <<cells, producerVars, observerVars, cpc, ch, cval, backlog, out>>

\* Slots are compared in place of tickets, so full looks like empty.
EmptyAnswer_BySlot == Slot(oh) = Slot(tail)

-----------------------------------------------------------------------------
(* try_push *)

Call(p) ==
    /\ pc[p] = "idle"
    /\ calls[p] < MaxCalls
    /\ calls' = [calls EXCEPT ![p] = @ + 1]
    /\ val' = [val EXCEPT ![p] = [from |-> p, n |-> calls[p] + 1]]
    /\ wasFull' = [wasFull EXCEPT ![p] = Full]
    /\ pc' = [pc EXCEPT ![p] = "loadHead"]
    /\ UNCHANGED <<counters, cells, h, t, consumerVars, observerVars>>

LoadHead(p) ==
    /\ pc[p] = "loadHead"
    /\ h' = [h EXCEPT ![p] = head]
    /\ pc' = [pc EXCEPT ![p] = "loadTail"]
    /\ UNCHANGED <<counters, cells, t, val, calls, wasFull,
                   consumerVars, observerVars>>

\* Also decides whether the buffer is full; "idle" is the return of false.
LoadTail(p) ==
    /\ pc[p] = "loadTail"
    /\ t' = [t EXCEPT ![p] = tail]
    /\ pc' = [pc EXCEPT ![p] = IF tail - h[p] >= Capacity THEN "idle" ELSE "cas"]
    /\ UNCHANGED <<counters, cells, h, val, calls, wasFull,
                   consumerVars, observerVars>>

\* The exchange succeeds: the producer owns ticket t[p].
Claim(p) ==
    /\ pc[p] = "cas"
    /\ tail = t[p]
    /\ tail' = t[p] + 1
    /\ pc' = [pc EXCEPT ![p] = "write"]
    /\ wasFull' = [r \in Producer |-> wasFull[r] \/ t[p] + 1 - head >= Capacity]
    /\ UNCHANGED <<head, cells, h, t, val, calls, consumerVars, observerVars>>

\* compare_exchange_weak may fail although tail = t[p].
Retry(p) ==
    /\ pc[p] = "cas"
    /\ pc' = [pc EXCEPT ![p] = "loadHead"]
    /\ UNCHANGED <<counters, cells, h, t, val, calls, wasFull,
                   consumerVars, observerVars>>

Write(p) ==
    /\ pc[p] = "write"
    /\ value' = [value EXCEPT ![Slot(t[p])] = val[p]]
    /\ pc' = [pc EXCEPT ![p] = "publish"]
    /\ UNCHANGED <<counters, state, h, t, val, calls, wasFull,
                   consumerVars, observerVars>>

\* Publishes the cell and returns true.
PublishCell(p) ==
    /\ pc[p] = "publish"
    /\ state' = [state EXCEPT ![Slot(t[p])] = "Ready"]
    /\ pc' = [pc EXCEPT ![p] = "idle"]
    /\ UNCHANGED <<counters, value, h, t, val, calls, wasFull,
                   consumerVars, observerVars>>

TryPush(p) ==
    \/ LoadHead(p) \/ LoadTail(p) \/ Claim(p) \/ Retry(p)
    \/ Write(p) \/ PublishCell(p)

-----------------------------------------------------------------------------
(* try_pop, empty and clear *)

PopLoadHead ==
    /\ cpc = "idle"
    /\ ch' = head
    /\ backlog' = (\E i \in head .. tail - 1 : Waiting(i))
    /\ cpc' = "check"
    /\ UNCHANGED <<counters, cells, producerVars, observerVars, cval, out, clears>>

PopCheck ==
    /\ cpc = "check"
    /\ cpc' = IF state[Slot(ch)] = "Ready" THEN "move" ELSE "idle"
    /\ UNCHANGED <<counters, cells, producerVars, observerVars,
                   ch, cval, backlog, out, clears>>

PopMove ==
    /\ cpc = "move"
    /\ cval' = value[Slot(ch)]
    /\ value' = [value EXCEPT ![Slot(ch)] = NoValue]
    /\ cpc' = "release"
    /\ UNCHANGED <<counters, state, producerVars, observerVars,
                   ch, backlog, out, clears>>

PopRelease ==
    /\ cpc = "release"
    /\ state' = [state EXCEPT ![Slot(ch)] = "Empty"]
    /\ cpc' = "advance"
    /\ UNCHANGED <<counters, value, producerVars, observerVars,
                   ch, cval, backlog, out, clears>>

\* Gives the slot back to the producers and returns true.
PopAdvance ==
    /\ cpc = "advance"
    /\ head' = ch + 1
    /\ out' = Append(out, cval)
    /\ cpc' = "idle"
    /\ UNCHANGED <<tail, cells, producerVars, observerVars,
                   ch, cval, backlog, clears>>

TryPop == PopLoadHead \/ PopCheck \/ PopMove \/ PopRelease \/ PopAdvance

\* Allowed to the consumer while no producer is active; an observer's
\* snapshot is not taken across it either.
Clear ==
    /\ clears < MaxClears
    /\ cpc = "idle" /\ opc = "idle"
    /\ \A p \in Producer : pc[p] = "idle"
    /\ clears' = clears + 1
    /\ head' = 0 /\ tail' = 0
    /\ state' = [s \in Slots |-> "Empty"]
    /\ UNCHANGED <<value, producerVars, observerVars, cpc, ch, cval, backlog, out>>

EmptyLoadHead ==
    /\ opc = "idle"
    /\ oh' = head
    /\ opc' = "loadTail"
    /\ UNCHANGED <<counters, cells, producerVars, consumerVars>>

\* The answer of empty(), for the tail it loads in this step.
EmptyAnswer == oh = tail

EmptyLoadTail ==
    /\ opc = "loadTail"
    /\ opc' = "idle"
    /\ UNCHANGED <<counters, cells, producerVars, consumerVars, oh>>

Next ==
    \/ \E p \in Producer : Call(p) \/ TryPush(p)
    \/ TryPop
    \/ Clear
    \/ EmptyLoadHead \/ EmptyLoadTail

Spec == Init /\ [][Next]_vars

\* A producer inside a call is scheduled again, and the weak exchange does not
\* fail spuriously for ever; the frame loop keeps calling try_pop.  Nobody has
\* to start a push, to call clear or to ask for empty().
Fairness ==
    /\ WF_vars(TryPop)
    /\ \A p \in Producer : WF_vars(TryPush(p)) /\ SF_vars(Claim(p))

FairSpec == Spec /\ Fairness

-----------------------------------------------------------------------------
(* Properties *)

TypeOK ==
    /\ head \in Nat /\ tail \in Nat
    /\ state \in [Slots -> {"Empty", "Ready"}]
    /\ value \in [Slots -> Values \cup {NoValue}]
    /\ pc \in [Producer -> {"idle", "loadHead", "loadTail", "cas", "write", "publish"}]
    /\ h \in [Producer -> Nat] /\ t \in [Producer -> Nat]
    /\ val \in [Producer -> Values \cup {NoValue}]
    /\ calls \in [Producer -> 0 .. MaxCalls]
    /\ wasFull \in [Producer -> BOOLEAN]
    /\ cpc \in {"idle", "check", "move", "release", "advance"}
    /\ ch \in Nat /\ cval \in Values \cup {NoValue} /\ backlog \in BOOLEAN
    /\ opc \in {"idle", "loadTail"} /\ oh \in Nat
    /\ clears \in 0 .. MaxClears
    /\ out \in Seq(Values \cup {NoValue})

\* The counters never cross and never span more than the buffer: t - h of
\* try_push cannot wrap and no slot is claimed for two tickets at once, though
\* the head a producer compared with may be long out of date.
CapacityRespected ==
    /\ head <= tail /\ tail - head <= Capacity
    /\ \A p \in Producer : pc[p] \in {"loadTail", "cas"} => h[p] <= head

\* No two threads are ever about to access the same non-atomic Cell::value with
\* one of them writing (try_push's "write first, then publish").
NoDataRace ==
    /\ \A p, r \in Producer :
          p # r /\ pc[p] = "write" /\ pc[r] = "write" => Slot(t[p]) # Slot(t[r])
    /\ \A p \in Producer :
          pc[p] = "write" /\ cpc = "move" => Slot(t[p]) # Slot(ch)

\* empty() loads head before tail, so its "true" was the truth at the second
\* load even when another thread than the consumer asks.
EmptyMeansEmpty ==
    [][opc = "loadTail" /\ opc' = "idle" /\ EmptyAnswer => head = tail]_vars

\* try_push answers false only if the buffer was full at some moment of the
\* call, or the consumer has freed a slot since the head was read; then the
\* tail it was compared with is younger, and "false if the buffer is full" is
\* not quite the truth.  A producer that is alone is never refused that way.
RefusalExplained ==
    [][\A p \in Producer : pc[p] = "loadTail" /\ pc'[p] = "idle"
          => wasFull[p] \/ (h[p] < head /\ \E r \in Producer \ {p} : calls[r] > 0)]_vars

\* When try_pop answers false although a push had returned true before the call
\* and its value is still there, a producer sits between its claim and its
\* publication exactly at the head: the only way a finished push is hidden.
FalseOnlyBehindGap ==
    [][cpc = "check" /\ cpc' = "idle" /\ backlog
          => \E p \in Producer : Pending(p, head)]_vars

\* A producer never loops for ever at the weak exchange, whoever it loses to:
\* every call of try_push returns, and what the calls accepted leaves the
\* buffer.  (Calls are bounded, so catching up once is delivering every value.)
CallsReturnAndDrain ==
    /\ \A p \in Producer : pc[p] # "idle" ~> pc[p] = "idle"
    /\ head < tail ~> head = tail

\* The inductive strengthening behind CapacityRespected, NoDataRace and
\* EmptyMeansEmpty: each claimed ticket has one owner and lies in the window, a
\* slot of the window is Ready only for a published ticket of that window, and
\* the consumer works on the oldest ticket, which nobody owns any more.
StaleReads ==
    /\ \A p \in Producer : pc[p] \in {"loadTail", "cas"} => h[p] <= head
    /\ \A p \in Producer : pc[p] = "cas" => t[p] - h[p] < Capacity
    /\ opc = "loadTail" => oh <= head

Claimed(p) == pc[p] \in {"write", "publish"}

Ownership ==
    /\ \A p \in Producer : Claimed(p) => head <= t[p] /\ t[p] < tail
    /\ \A p, r \in Producer : p # r /\ Claimed(p) /\ Claimed(r) => t[p] # t[r]

ReadySlots ==
    \A i \in head .. head + Capacity - 1 :
        state[Slot(i)] = "Ready" => i < tail /\ \A p \in Producer : ~ Pending(p, i)

ConsumerWindow ==
    /\ cpc # "idle" => ch = head
    /\ cpc \in {"move", "release", "advance"} =>
          head < tail /\ \A p \in Producer : ~ Pending(p, head)
    /\ cpc = "advance" => state[Slot(head)] = "Empty"

RingInv ==
    /\ TypeOK
    /\ CapacityRespected
    /\ StaleReads
    /\ Ownership
    /\ ReadySlots
    /\ ConsumerWindow

-----------------------------------------------------------------------------
(* The ring buffer implements the abstract channel. *)

EntryAt(i) ==
    IF \E p \in Producer : Pending(p, i)
    THEN LET p == CHOOSE r \in Producer : Pending(r, i)
         IN  [from |-> p, val |-> val[p], ready |-> FALSE]
    ELSE LET v == IF cpc \in {"release", "advance"} /\ i = ch
                  THEN cval ELSE value[Slot(i)]
         IN  [from |-> v.from, val |-> v, ready |-> TRUE]

qBar == [k \in 1 .. tail - head |-> EntryAt(head + k - 1)]

stageBar == [p \in Producer |->
                CASE pc[p] = "idle" -> "idle"
                  [] pc[p] \in {"write", "publish"} -> "accepted"
                  [] OTHER -> "calling"]

Channel == INSTANCE MPSCChannel
           WITH Value <- Values, Limit <- Capacity, q <- qBar, stage <- stageBar

\* Every value claimed is delivered in ticket order, whole and once, and a cell
\* is never delivered before it was published.
ImplementsChannel == Channel!Spec
=============================================================================
