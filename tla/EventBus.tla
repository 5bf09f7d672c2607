------------------------------ MODULE EventBus ------------------------------
(***************************************************************************)
(* The subscription table of src/hormuz and publish(), whose callbacks run *)
(* synchronously and may subscribe, reset or publish again while they are  *)
(* being called.                                                           *)
(***************************************************************************)
EXTENDS Naturals, Sequences, SequencesExt

CONSTANTS EventType, \* the types of events
          MaxListeners, \* MAX_LISTENERS_PER_TYPE
          MaxSubscribes, MaxResets, MaxDepth \* bounds: calls, and publications at once

\* What a module that instantiates this one assumes of its constants.
ConstantsOK == {MaxListeners, MaxSubscribes, MaxResets, MaxDepth} \subseteq Nat

VARIABLES listeners, \* the first list.count listeners of each type
          stack,     \* the publications under way, the innermost first
          subscribes, resets \* calls so far

busVars == <<listeners, stack, subscribes, resets>>

\* A callback with its user pointer, named by the call that subscribed it.
Listener == 1 .. MaxSubscribes

\* A publication: its type, the loop's index, whether it is at the test or in a callback,
\* and as history the listeners called and whether a reset came in between.
Publication == [type : EventType, i : Nat, at : {"test", "callback"}, called : Seq(Listener),
                cut : BOOLEAN]

Init ==
    /\ listeners = [t \in EventType |-> <<>>]
    /\ stack = <<>>
    /\ subscribes = 0 /\ resets = 0

Top == Head(stack)
Publishing == stack # <<>>

\* The application's own code runs: it is not in publish, or is in a callback.
Running == Publishing => Top.at = "callback"

-----------------------------------------------------------------------------
(* Slips: what a definition below would be with one plausible mistake in it. *)

\* The last listener is left out.
Finished_OffByOne == Publishing /\ Top.at = "test" /\ Top.i >= Len(listeners[Top.type])

-----------------------------------------------------------------------------
\* A full list drops the listener without a word.
Subscribe(t) ==
    /\ Running
    /\ subscribes < MaxSubscribes
    /\ subscribes' = subscribes + 1
    /\ listeners' = [listeners EXCEPT ![t] = IF Len(@) >= MaxListeners THEN @ ELSE Append(@, subscribes')]
    /\ UNCHANGED <<stack, resets>>

Reset ==
    /\ Running
    /\ resets < MaxResets
    /\ resets' = resets + 1
    /\ listeners' = [t \in EventType |-> <<>>]
    /\ stack' = [k \in DOMAIN stack |-> [stack[k] EXCEPT !.cut = TRUE]]
    /\ UNCHANGED subscribes

Publish(t) ==
    /\ Running
    /\ Len(stack) < MaxDepth
    /\ stack' = <<[type |-> t, i |-> 1, at |-> "test", called |-> <<>>, cut |-> FALSE]>> \o stack
    /\ UNCHANGED <<listeners, subscribes, resets>>

\* The loop's test reads list.count anew for every listener.
Finished == Publishing /\ Top.at = "test" /\ Top.i > Len(listeners[Top.type])

PublishCall ==
    /\ Publishing /\ Top.at = "test" /\ ~ Finished
    /\ stack' = [stack EXCEPT ![1].at = "callback",
                              ![1].called = Append(@, listeners[Top.type][Top.i])]
    /\ UNCHANGED <<listeners, subscribes, resets>>

CallbackReturns ==
    /\ Publishing /\ Top.at = "callback"
    /\ stack' = [stack EXCEPT ![1].at = "test", ![1].i = @ + 1]
    /\ UNCHANGED <<listeners, subscribes, resets>>

PublishReturns ==
    /\ Finished
    /\ stack' = Tail(stack)
    /\ UNCHANGED <<listeners, subscribes, resets>>

Next ==
    \/ \E t \in EventType : Subscribe(t)
    \/ \E t \in EventType : Publish(t)
    \/ Reset
    \/ PublishCall \/ CallbackReturns \/ PublishReturns

-----------------------------------------------------------------------------
(* Properties *)

BusOK ==
    /\ listeners \in [EventType -> Seq(Listener)]
    /\ \A t \in EventType : Len(listeners[t]) <= MaxListeners
    /\ stack \in Seq(Publication)
    /\ subscribes \in 0 .. MaxSubscribes /\ resets \in 0 .. MaxResets

\* "Publish an event to all registered listeners": when publish returns and no
\* callback has reset the bus, it has called every listener of its type once,
\* in registration order, those that registered during the publication and those
\* of nested publications of the same type included.
PublishReaches ==
    [][Len(stack') < Len(stack) /\ ~ Top.cut
          => Top.called = listeners[Top.type]]_stack
=============================================================================
