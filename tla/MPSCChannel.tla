---------------------------- MODULE MPSCChannel ----------------------------
(***************************************************************************)
(* What a multiple-producer single-consumer queue of the engine promises,  *)
(* whatever its storage.  A push is one call in which the value takes its  *)
(* place in the order (Accept), and later becomes visible (Publish); the   *)
(* consumer receives values strictly in that order and never skips an      *)
(* accepted value that is not visible yet.                                 *)
(*                                                                         *)
(* MPSCRingBuffer and MPSCQueue are both shown to implement it, and        *)
(* LoggerWorker uses it in place of the linked queue.                      *)
(***************************************************************************)
EXTENDS Naturals, Sequences

CONSTANTS Producer,  \* the threads that push
          Value,     \* what they push
          Limit      \* the number of values the queue can hold

VARIABLES q,         \* accepted and not delivered, oldest first
          stage,     \* where each producer is in its call
          out        \* every value delivered, oldest first

channelVars == <<q, stage, out>>

Entry == [from : Producer, val : Value, ready : BOOLEAN]

Init ==
    /\ q = <<>>
    /\ stage = [p \in Producer |-> "idle"]
    /\ out = <<>>

Call(p) ==
    /\ stage[p] = "idle"
    /\ stage' = [stage EXCEPT ![p] = "calling"]
    /\ UNCHANGED <<q, out>>

\* The call returns false and leaves no trace.
Refuse(p) ==
    /\ stage[p] = "calling"
    /\ stage' = [stage EXCEPT ![p] = "idle"]
    /\ UNCHANGED <<q, out>>

Accept(p, v) ==
    /\ stage[p] = "calling"
    /\ Len(q) < Limit
    /\ stage' = [stage EXCEPT ![p] = "accepted"]
    /\ q' = Append(q, [from |-> p, val |-> v, ready |-> FALSE])
    /\ out' = out

\* The value becomes visible, and from here on the call can only return true.
Publish(p) ==
    /\ stage[p] = "accepted"
    /\ \E i \in DOMAIN q :
          /\ q[i].from = p
          /\ ~ q[i].ready
          /\ q' = [q EXCEPT ![i].ready = TRUE]
    /\ stage' = [stage EXCEPT ![p] = "idle"]
    /\ out' = out

Deliver ==
    /\ q # <<>>
    /\ Head(q).ready
    /\ out' = Append(out, Head(q).val)
    /\ q' = Tail(q)
    /\ stage' = stage

\* clear(), by contract only while no producer is in a call.
Discard ==
    /\ \A p \in Producer : stage[p] = "idle"
    /\ q' = <<>>
    /\ UNCHANGED <<stage, out>>

Next ==
    \/ \E p \in Producer : Call(p) \/ Refuse(p) \/ Publish(p)
    \/ \E p \in Producer, v \in Value : Accept(p, v)
    \/ Deliver
    \/ Discard

Spec == Init /\ [][Next]_channelVars

=============================================================================
