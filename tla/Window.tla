------------------------------- MODULE Window -------------------------------
(***************************************************************************)
(* The window of platform/win32/win32.cpp between two threads: the one     *)
(* that creates the window, pumps its messages and destroys it, and the    *)
(* one that runs the application's loop, which polls the window's queue    *)
(* and hands every event to the bus.  (A program that does both on one     *)
(* thread has fewer interleavings.)                                        *)
(***************************************************************************)
EXTENDS Naturals, Sequences

CONSTANTS Type,        \* PlatformEvent::Type; "Close" and "Resize" are among them
          MaxMessages, \* bound: messages the window gets
          Capacity,    \* QUEUE_SIZE
          Raw,
          MaxListeners, MaxSubscribes, MaxResets, MaxDepth \* of the bus

ASSUME TypeAssumption == {"Close", "Resize"} \subseteq Type
ASSUME MessagesAssumption == MaxMessages \in Nat

VARIABLES opc,          \* where the owner's thread is with the window
          alive,        \* the NativeWindow has not been deleted
          deletes,      \* history: how often it was
          aborted,      \* history: CreateWindowExA failed after WM_NCCREATE
          userdata,     \* GWLP_USERDATA points to it
          should_close,
          messages,     \* messages so far, numbers the events
          asked,        \* history: the user has asked to close
          handle,       \* the WindowHandle is valid()
          apc,          \* where the application is in its loop
          read_index, write_index, buffer, ppc, item, cpc, taken, out, \* event_queue
          listeners, stack, subscribes, resets                         \* the event bus

queueVars == <<read_index, write_index, buffer, ppc, item, cpc, taken, out>>
busVars   == <<listeners, stack, subscribes, resets>>
life == <<alive, deletes, aborted>>
windowVars == <<life, userdata, should_close, messages, asked, handle>>
vars == <<opc, windowVars, apc, queueVars, busVars>>

Event == [type : Type, n : 1 .. MaxMessages]

Queue == INSTANCE SPSCQueue WITH Value <- Event
Bus   == INSTANCE EventBus WITH EventType <- Type

ASSUME QueueAssumption == Queue!ConstantsOK
ASSUME BusAssumption == Bus!ConstantsOK

Init ==
    /\ opc = "none" /\ userdata = FALSE
    /\ alive = FALSE /\ deletes = 0 /\ aborted = FALSE
    /\ should_close = FALSE /\ messages = 0 /\ asked = FALSE
    /\ handle = FALSE /\ apc = "none"
    /\ Queue!Init /\ Bus!Init

Delete == alive' = FALSE /\ deletes' = deletes + 1

-----------------------------------------------------------------------------
(* Slips: what a step below would be with one plausible mistake in it.       *)

\* The flag is set only if the event found room.
WmClose_IfRoom == should_close' = (should_close \/ ~ Queue!Full)

\* The window keeps its pointer to what was deleted.
NcDestroy_KeepsPointer ==
    /\ opc = "destroying"
    /\ opc' = "destroyed"
    /\ Delete
    /\ UNCHANGED <<userdata, aborted, should_close, messages, asked, handle, apc, queueVars,
                   busVars>>

-----------------------------------------------------------------------------
(* The owner's thread *)

\* w32_create_window up to the WM_NCCREATE that CreateWindowExA sends.
Create ==
    /\ opc = "none"
    /\ opc' = "creating"
    /\ alive' = TRUE
    /\ UNCHANGED <<deletes, aborted, userdata, should_close, messages, asked, handle, apc,
                   queueVars, busVars>>

NcCreate ==
    /\ opc = "creating" /\ ~ userdata
    /\ userdata' = TRUE
    /\ UNCHANGED <<opc, life, should_close, messages, asked, handle, apc, queueVars, busVars>>

\* CreateWindowExA gives up although WM_NCCREATE was answered: it sends WM_NCDESTROY
\* before it returns.
CreateAborts ==
    /\ opc = "creating" /\ userdata /\ ppc = "idle"
    /\ opc' = "aborting"
    /\ aborted' = TRUE
    /\ UNCHANGED <<alive, deletes, userdata, should_close, messages, asked, handle, apc,
                   queueVars, busVars>>

\* CreateWindowExA has returned null, before WM_NCCREATE or after WM_NCDESTROY.  In
\* the second case data is gone already; what a second delete does to the heap is
\* undefined, and the model goes on as if nothing.
CreateFails ==
    /\ opc \in {"creating", "aborting"} /\ ~ userdata
    /\ opc' = "failed"
    /\ Delete
    /\ apc' = "test"
    /\ UNCHANGED <<userdata, aborted, should_close, messages, asked, handle, queueVars,
                   busVars>>

\* CreateWindowExA and ShowWindow have returned.
CreateReturns ==
    /\ opc = "creating" /\ userdata /\ ppc = "idle"
    /\ opc' = "open"
    /\ handle' = TRUE
    /\ apc' = "test"
    /\ UNCHANGED <<life, userdata, should_close, messages, asked, queueVars, busVars>>

WmClose == should_close' = TRUE

\* WindowProc gets a message that becomes an event, from the pump or, for the
\* first sizes, from inside CreateWindowExA.  It calls push and ignores its answer.
WindowProc(type) ==
    /\ userdata /\ ppc = "idle"
    /\ opc = "open" \/ (opc = "creating" /\ type = "Resize")
    /\ messages < MaxMessages
    /\ messages' = messages + 1
    /\ asked' = (asked \/ type = "Close")
    /\ IF type = "Close" THEN WmClose ELSE UNCHANGED should_close
    /\ Queue!Push([type |-> type, n |-> messages + 1])
    /\ UNCHANGED <<opc, life, userdata, handle, apc, busVars>>

PushSteps ==
    /\ Queue!PushSteps
    /\ UNCHANGED <<opc, windowVars, apc, busVars>>

\* w32_destroy_window: a null handle is let go, a window gets WM_DESTROY and then
\* WM_NCDESTROY.  That the application has left its loop is what its callers see to
\* (test_window.cpp); the code has no test for it.
Destroy ==
    /\ apc = "left" /\ ppc = "idle"
    /\ opc \in {"open", "failed"}
    /\ opc' = IF handle THEN "destroying" ELSE "destroyed"
    /\ UNCHANGED <<windowVars, apc, queueVars, busVars>>

NcDestroy ==
    /\ opc \in {"destroying", "aborting"} /\ userdata
    /\ opc' = IF opc = "destroying" THEN "destroyed" ELSE "aborting"
    /\ Delete
    /\ userdata' = FALSE
    /\ UNCHANGED <<aborted, should_close, messages, asked, handle, apc, queueVars, busVars>>

-----------------------------------------------------------------------------
(* The application's loop: while not window_should_close, poll until nothing  *)
(* is left.                                                                  *)

\* A handle that is not valid is a window that should close.
TestClose ==
    /\ apc = "test"
    /\ apc' = IF ~ handle \/ should_close THEN "left" ELSE "poll"
    /\ UNCHANGED <<opc, windowVars, queueVars, busVars>>

PollNothing ==
    /\ apc = "poll"
    /\ Queue!PopNothing
    /\ apc' = "test"
    /\ UNCHANGED <<opc, windowVars, busVars>>

PollSteps ==
    /\ apc = "poll"
    /\ Queue!PopCheck \/ Queue!PopMove
    /\ UNCHANGED <<opc, windowVars, apc, busVars>>

\* poll_event returns an event, and the application publishes it.
PollReturns ==
    /\ apc = "poll"
    /\ Queue!PopStore
    /\ Bus!Publish(taken.type)
    /\ apc' = "publish"
    /\ UNCHANGED <<opc, windowVars>>

\* The application's own code uses the bus, between polls or in a callback.
UseBus ==
    /\ apc \in {"test", "publish"}
    /\ \/ \E t \in Type : Bus!Subscribe(t)
       \/ Bus!Reset
       \/ apc = "publish" /\ \E t \in Type : Bus!Publish(t)
    /\ UNCHANGED <<opc, windowVars, apc, queueVars>>

Deliver ==
    /\ apc = "publish"
    /\ Bus!PublishCall \/ Bus!CallbackReturns \/ Bus!PublishReturns
    /\ apc' = IF stack' = <<>> THEN "poll" ELSE "publish"
    /\ UNCHANGED <<opc, windowVars, queueVars>>

CallbackEnds == Bus!CallbackReturns /\ Deliver

Next ==
    \/ Create \/ NcCreate \/ CreateAborts \/ CreateFails \/ CreateReturns
    \/ \E type \in Type : WindowProc(type)
    \/ PushSteps
    \/ Destroy \/ NcDestroy
    \/ TestClose \/ PollNothing \/ PollSteps \/ PollReturns
    \/ UseBus \/ Deliver

Spec == Init /\ [][Next]_vars

\* Both threads go on with what they have begun, and a callback returns, however
\* often it publishes before.  No message has to come, and the application need
\* not use the bus.
Fairness ==
    /\ WF_vars(PushSteps)
    /\ WF_vars(TestClose) /\ WF_vars(PollNothing \/ PollSteps \/ PollReturns)
    /\ WF_vars(Deliver)
    /\ \A d \in 1 .. MaxDepth : SF_vars(Len(stack) = d /\ CallbackEnds)

FairSpec == Spec /\ Fairness

-----------------------------------------------------------------------------
(* Properties *)

TypeOK ==
    /\ opc \in {"none", "creating", "aborting", "open", "failed", "destroying",
                "destroyed"}
    /\ apc \in {"none", "test", "poll", "publish", "left"}
    /\ {alive, aborted, userdata, should_close, asked, handle} \subseteq BOOLEAN
    /\ deletes \in Nat
    /\ messages \in 0 .. MaxMessages

\* The window never keeps a pointer to a NativeWindow that is deleted, no push is
\* under way in one, and none is left over when all is over.  It is deleted once;
\* but twice, by WM_NCDESTROY and again by w32_create_window, if CreateWindowExA fails
\* after WM_NCCREATE.
DeletedOnce ==
    /\ userdata \/ ppc # "idle" => alive
    /\ opc \in {"failed", "destroyed"} =>
          ~ alive /\ deletes = IF aborted THEN 2 ELSE 1
    /\ aborted => ~ handle

\* Whoever has received the Close event finds should_close set, and never the
\* other way round a window that is to close while nobody asked for it.
CloseIsKnown ==
    /\ (\E i \in DOMAIN out : out[i].type = "Close") => should_close
    /\ should_close => asked

WindowInv == TypeOK /\ Queue!QueueInv /\ Bus!BusOK /\ DeletedOnce /\ CloseIsKnown

\* The window's queue is an MPSCChannel with one producer.
ImplementsChannel == Queue!ImplementsChannel

\* A window that was asked to close ends the application's loop, also when the
\* queue was full and its Close event is dropped.
CloseEndsLoop == (asked \/ opc = "failed") ~> apc = "left"

\* What the bus promises for every event that is published.
PublishReaches == Bus!PublishReaches
=============================================================================
