----------------------------- MODULE SPSCQueue -----------------------------
(***************************************************************************)
(* The single-producer single-consumer ring of core/queue/spsc_queue.h,    *)
(* one action per access to what the two threads share.  Each index is     *)
(* written by one thread only, so that thread's own load of it is part of  *)
(* the step in which it loads the other's.                                 *)
(***************************************************************************)
EXTENDS Naturals, Sequences

CONSTANTS Value,    \* what is pushed
          Capacity, \* a power of two; the mask is then the remainder by it
          Raw       \* memory that holds no object

\* What a module that instantiates this one assumes of its constants.
ConstantsOK == Capacity \in Nat \ {0} /\ Raw \notin Value

VARIABLES read_index, write_index, \* the two atomic indices
          buffer,                  \* the raw storage
          ppc, item,               \* the producer's place in push and its value
          cpc, taken,              \* the consumer's place in try_pop, what it moved out
          out                      \* history: every value try_pop has returned

producerVars == <<ppc, item>>
consumerVars == <<cpc, taken>>
queueVars == <<read_index, write_index, buffer, producerVars, consumerVars, out>>

Slots == 0 .. Capacity - 1
After(i) == (i + 1) % Capacity

Init ==
    /\ read_index = 0 /\ write_index = 0
    /\ buffer = [s \in Slots |-> Raw]
    /\ ppc = "idle" /\ item = Raw
    /\ cpc = "idle" /\ taken = Raw
    /\ out = <<>>

-----------------------------------------------------------------------------
(* Slips: what an operation below would be with one plausible mistake in it. *)

\* The slot is taken and never given back.
PopStore_Forgotten ==
    /\ cpc = "store"
    /\ out' = Append(out, taken)
    /\ cpc' = "idle"
    /\ UNCHANGED <<read_index, write_index, buffer, producerVars, taken>>

-----------------------------------------------------------------------------
(* push *)

Push(v) ==
    /\ ppc = "idle"
    /\ ppc' = "check" /\ item' = v
    /\ UNCHANGED <<read_index, write_index, buffer, consumerVars, out>>

\* One slot stays free, so that full and empty differ.
Full == After(write_index) = read_index

\* Loads read_index; returns false if the queue is full.
PushCheck ==
    /\ ppc = "check"
    /\ ppc' = IF Full THEN "idle" ELSE "write"
    /\ UNCHANGED <<read_index, write_index, buffer, item, consumerVars, out>>

PushWrite ==
    /\ ppc = "write"
    /\ buffer' = [buffer EXCEPT ![write_index] = item]
    /\ ppc' = "store"
    /\ UNCHANGED <<read_index, write_index, item, consumerVars, out>>

PushStore ==
    /\ ppc = "store"
    /\ write_index' = After(write_index)
    /\ ppc' = "idle"
    /\ UNCHANGED <<read_index, buffer, item, consumerVars, out>>

PushSteps == PushCheck \/ PushWrite \/ PushStore

-----------------------------------------------------------------------------
(* try_pop *)

\* Loads write_index; returns false if the queue is empty.
PopNothing ==
    /\ cpc = "idle"
    /\ read_index = write_index
    /\ UNCHANGED queueVars

PopCheck ==
    /\ cpc = "idle"
    /\ read_index # write_index
    /\ cpc' = "move"
    /\ UNCHANGED <<read_index, write_index, buffer, producerVars, taken, out>>

\* Moves the object out and destroys it.
PopMove ==
    /\ cpc = "move"
    /\ taken' = buffer[read_index]
    /\ buffer' = [buffer EXCEPT ![read_index] = Raw]
    /\ cpc' = "store"
    /\ UNCHANGED <<read_index, write_index, producerVars, out>>

PopStore ==
    /\ cpc = "store"
    /\ read_index' = After(read_index)
    /\ out' = Append(out, taken)
    /\ cpc' = "idle"
    /\ UNCHANGED <<write_index, buffer, producerVars, taken>>

Next ==
    \/ \E v \in Value : Push(v)
    \/ PushSteps
    \/ PopNothing \/ PopCheck \/ PopMove \/ PopStore

Spec == Init /\ [][Next]_queueVars

-----------------------------------------------------------------------------
(* Properties *)

TypeOK ==
    /\ read_index \in Slots /\ write_index \in Slots
    /\ buffer \in [Slots -> Value \cup {Raw}]
    /\ ppc \in {"idle", "check", "write", "store"} /\ item \in Value \cup {Raw}
    /\ cpc \in {"idle", "move", "store"} /\ taken \in Value \cup {Raw}
    /\ out \in Seq(Value \cup {Raw})

\* How many slots s lies ahead of the consumer, and how many are published.
Ahead(s) == IF s >= read_index THEN s - read_index ELSE s + Capacity - read_index
Published == Ahead(write_index)

\* A slot holds an object exactly if it is published and not yet taken, or
\* constructed and not yet published: no object is constructed over another,
\* destroyed twice or read from raw memory.
Objects ==
    \A s \in Slots : buffer[s] # Raw <=>
        \/ Ahead(s) < Published /\ ~ (cpc = "store" /\ s = read_index)
        \/ s = write_index /\ ppc = "store"

\* What the two threads have loaded of each other's index stays true while they
\* use it, and they never work on the same slot.
Apart ==
    /\ ppc \in {"write", "store"} => After(write_index) # read_index /\ item \in Value
    /\ ppc = "check" => item \in Value
    /\ cpc \in {"move", "store"} => read_index # write_index
    /\ cpc = "store" => taken \in Value

QueueInv == TypeOK /\ Apart /\ Objects

-----------------------------------------------------------------------------
(* The ring implements the abstract channel with one producer; a value has   *)
(* its place from the test that finds room.                                  *)

Pending == ppc \in {"write", "store"}

qBar ==
    [k \in 1 .. Published + (IF Pending THEN 1 ELSE 0) |->
        LET s == (read_index + k - 1) % Capacity
        IN  IF k > Published THEN [from |-> "producer", val |-> item, ready |-> FALSE]
            ELSE [from |-> "producer", ready |-> TRUE,
                  val |-> IF k = 1 /\ cpc = "store" THEN taken ELSE buffer[s]]]

stageBar == [p \in {"producer"} |->
                IF ppc = "idle" THEN "idle" ELSE IF Pending THEN "accepted" ELSE "calling"]

Channel == INSTANCE MPSCChannel
           WITH Producer <- {"producer"}, Limit <- Capacity - 1,
                q <- qBar, stage <- stageBar

\* Every value that found room is delivered whole, once and in order, and the
\* ring holds one value less than it has slots.
ImplementsChannel == Channel!Spec
=============================================================================
