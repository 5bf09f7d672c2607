---------------------------- MODULE EngineFrame ----------------------------
(***************************************************************************)
(* The engine's frame loop with what feeds it: raw-input packets that the  *)
(* pump hands to the engine's own thread, events that other threads push,  *)
(* the event queue (an MPSCChannel that the drain reads into frame_events),*)
(* and build_input, which turns the frame's events into the input state.   *)
(*                                                                         *)
(* A control is whatever can be down: a mouse button, or the key for which *)
(* thread p posts events, which is p itself.  level says what is true of a *)
(* control outside the engine.                                             *)
(***************************************************************************)
EXTENDS Naturals, Sequences, SequencesExt, FiniteSets

CONSTANTS Thread,     \* the threads that push events, apart from the engine's
          KeyThread,  \* those of them that push the events of a key
          Engine,     \* the engine's thread
          Button,     \* the mouse buttons: 0 is left, 1 is right
          NoEvent, NoControl,
          Capacity,   \* MAX_EVENTS
          MaxPosts,   \* bound: events a thread pushes
          MaxPackets, \* bound: raw-input packets
          MaxRuns     \* bound: calls of run()

ASSUME ThreadAssumption ==
    /\ KeyThread \subseteq Thread
    /\ Engine \notin Thread /\ NoControl \notin Thread \cup Button
ASSUME ButtonAssumption == Button \subseteq Nat /\ Thread \cap Button = {}
ASSUME BoundAssumption == Capacity \in Nat /\ MaxPosts \in Nat /\ MaxPackets \in Nat /\ MaxRuns \in Nat

Control == Thread \cup Button

VARIABLES running,      \* Context::running
          epc,          \* where the engine's thread is in run()
          runs,
          frame_events, input, \* run's locals
          queue, stage, \* the event queue, and each thread's place in try_push
          hand, posts,  \* the event a thread is pushing, and how many it has pushed
          messages, packets, \* posted to the raw-input window, and how many so far
          level,        \* the truth: which controls are down
          lost,         \* history: why the input state missed a control's last change
          late          \* history: frames begun since running was cleared

frameVars == <<epc, runs, frame_events, input>>
postVars == <<stage, hand, posts>>
rawVars == <<messages, packets>>
vars == <<running, frameVars, queue, postVars, rawVars, level, lost, late>>

Event(type, c, on) == [category |-> "Input", type |-> type, of |-> c, on |-> on]
KeyEvent(p, on) == Event(IF on THEN "KeyPressDown" ELSE "KeyPressUp", p, on)
ButtonEvent(b, on) == Event("MouseButton", b, on)
MouseMove == Event("MouseMove", NoControl, FALSE)
MouseWheel == Event("MouseWheel", NoControl, FALSE)

\* The window's fields of the input state are left out: build_input would take
\* them from events filed under Input, and these are filed under Window.
WindowEvent == [category |-> "Window", type |-> "FocusLost", of |-> NoControl, on |-> FALSE]

Posted(p) == {KeyEvent(p, on) : on \in {o \in BOOLEAN : p \in KeyThread}} \cup {WindowEvent}
Events == (UNION {Posted(p) : p \in Thread}) \cup {MouseMove, MouseWheel}
          \cup {ButtonEvent(b, on) : b \in Button, on \in BOOLEAN}

ASSUME NoEventAssumption == NoEvent \notin Events

\* At most one change per button, and movement or the wheel but not both.
Packet == {k \in [moved : BOOLEAN, wheel : BOOLEAN, flags : SUBSET (Button \X BOOLEAN)] :
             /\ ~ (k.moved /\ k.wheel)
             /\ \A f, g \in k.flags : f[1] = g[1] => f = g}

NoInput == [down |-> {}, pressed |-> {}, released |-> {}, dx |-> 0]

Queue == INSTANCE MPSCChannel
         WITH Producer <- Thread, Value <- Events, Limit <- Capacity,
              q <- queue, out <- frame_events

Init ==
    /\ running = TRUE
    /\ epc = "idle" /\ runs = 0
    /\ frame_events = <<>> /\ input = NoInput
    /\ queue = <<>> /\ stage = [p \in Thread |-> "idle"]
    /\ hand = [p \in Thread |-> NoEvent] /\ posts = [p \in Thread |-> 0]
    /\ messages = <<>> /\ packets = 0
    /\ level = [c \in Control |-> FALSE]
    /\ lost = [c \in Control |-> "no"]
    /\ late = 0

IsLevel(e) == e.category = "Input" /\ e.of \in Control

\* The events of s about control c, and what the last of them says; d if none.
About(c, s) == {i \in DOMAIN s : IsLevel(s[i]) /\ s[i].of = c}
Told(c, s, d) ==
    IF About(c, s) = {} THEN d
    ELSE s[CHOOSE i \in About(c, s) : \A j \in About(c, s) : j <= i].on

Queued == [i \in DOMAIN queue |-> queue[i].val]

-----------------------------------------------------------------------------
(* Slips: what an operation below would be with one plausible mistake in it. *)
(* None is part of the specification; each breaks one of its properties.     *)

\* The edges of releases survive into the next frame.
Cleared_PressedOnly(in) == [in EXCEPT !.pressed = {}, !.dx = 0]

\* The thread's last store is missing.
PostPublish_Forgotten(p) ==
    /\ stage[p] = "accepted"
    /\ stage' = [stage EXCEPT ![p] = "idle"]
    /\ UNCHANGED <<running, frameVars, queue, hand, posts, rawVars, level, lost, late>>

\* The loop goes on while there is something to do.
LoopTest_FinishesWork ==
    /\ epc = "test"
    /\ epc' = IF running \/ messages # <<>> THEN "pump" ELSE "idle"
    /\ UNCHANGED <<running, runs, frame_events, input, queue, postVars, rawVars, level,
                   lost, late>>

-----------------------------------------------------------------------------
(* build_input *)

Cleared(in) == [in EXCEPT !.pressed = {}, !.released = {}, !.dx = 0]

\* A move replaces the movement so far; a wheel step adds to it.
Apply(in, e) ==
    IF e.category # "Input" THEN in
    ELSE CASE e.type \in {"KeyPressDown", "KeyPressUp", "MouseButton"} ->
                 IF e.on
                 THEN [in EXCEPT !.down = @ \cup {e.of}, !.pressed = @ \cup {e.of}]
                 ELSE [in EXCEPT !.down = @ \ {e.of}, !.released = @ \cup {e.of}]
           [] e.type = "MouseMove" -> [in EXCEPT !.dx = 1]
           [] e.type = "MouseWheel" -> [in EXCEPT !.dx = @ + 1]

\* A slip: the frame starts from nothing in place of the frame before.
build_input_NoPrevious(prev, events) == FoldLeft(Apply, NoInput, events)

build_input(prev, events) == FoldLeft(Apply, Cleared(prev), events)

-----------------------------------------------------------------------------
(* The threads that push events *)

\* A key may repeat: posting does not look at what was posted before.
PostCall(p, e) ==
    /\ posts[p] < MaxPosts
    /\ Queue!Call(p)
    /\ hand' = [hand EXCEPT ![p] = e]
    /\ posts' = [posts EXCEPT ![p] = @ + 1]
    /\ level' = IF IsLevel(e) THEN [level EXCEPT ![p] = e.on] ELSE level
    /\ UNCHANGED <<running, epc, runs, input, rawVars, lost, late>>

PostAccept(p) ==
    /\ Queue!Accept(p, hand[p])
    /\ lost' = IF IsLevel(hand[p]) THEN [lost EXCEPT ![p] = "no"] ELSE lost
    /\ hand' = [hand EXCEPT ![p] = NoEvent]
    /\ UNCHANGED <<running, epc, runs, input, posts, rawVars, level, late>>

\* The full test may use a head that the drain has moved on since, so a refusal
\* says nothing about the queue as it is now.
PostRefused(p) ==
    /\ Queue!Refuse(p)
    /\ lost' = IF IsLevel(hand[p]) THEN [lost EXCEPT ![p] = "refused"] ELSE lost
    /\ hand' = [hand EXCEPT ![p] = NoEvent]
    /\ UNCHANGED <<running, epc, runs, input, posts, rawVars, level, late>>

PostPublish(p) ==
    /\ Queue!Publish(p)
    /\ UNCHANGED <<running, epc, runs, input, hand, posts, rawVars, level, lost, late>>

Post(p) ==
    \/ \E e \in Posted(p) : PostCall(p, e)
    \/ PostAccept(p) \/ PostRefused(p) \/ PostPublish(p)

-----------------------------------------------------------------------------
(* Raw input *)

\* The mouse is used; Windows posts the packet to the raw-input window.
MouseReports(k) ==
    /\ packets < MaxPackets
    /\ k.moved \/ k.wheel \/ k.flags # {}
    /\ \A f \in k.flags : level[f[1]] # f[2]
    /\ messages' = Append(messages, k)
    /\ packets' = packets + 1
    /\ level' = [c \in Control |-> IF \E f \in k.flags : f[1] = c THEN ~ level[c] ELSE level[c]]
    /\ UNCHANGED <<running, frameVars, queue, postVars, lost, late>>

Changes(k, c) == \E f \in k.flags : f[1] = c

\* The flag an event is made of when several are set: left before right.
FirstFlag(flags) == CHOOSE f \in flags : \A g \in flags : f[1] <= g[1]

\* One event per packet: movement hides the wheel, and both hide the buttons.
Translated(k) ==
    CASE k.moved -> MouseMove
      [] ~ k.moved /\ k.wheel -> MouseWheel
      [] OTHER -> ButtonEvent(FirstFlag(k.flags)[1], FirstFlag(k.flags)[2])

\* A slip: the packet is queued without looking for room.
Pushed_Unchecked(k, e) ==
    /\ queue' = Append(queue, [from |-> Engine, val |-> e, ready |-> TRUE])
    /\ lost' = [c \in Control |->
                  CASE ~ Changes(k, c) -> lost[c]
                    [] e.of = c -> "no"
                    [] OTHER -> "masked"]

\* The event is queued if there is room.  No other step of the engine is between
\* its place in the queue and its publication, and no head is stale here, as the
\* only consumer is the pushing thread.
Pushed(k, e) ==
    LET room == Len(queue) < Capacity
    IN  /\ queue' = IF room THEN Append(queue, [from |-> Engine, val |-> e, ready |-> TRUE])
                            ELSE queue
        /\ lost' = [c \in Control |->
                      CASE ~ Changes(k, c) -> lost[c]
                        [] e.of = c /\ room -> "no"
                        [] e.of = c /\ ~ room -> "refused"
                        [] OTHER -> "masked"]

\* GetRawInputData gives no size for the packet, or not as much as it said: the
\* function returns, and what the packet changed is known to nobody.
Unread(k) ==
    /\ UNCHANGED queue
    /\ lost' = [c \in Control |-> IF Changes(k, c) THEN "unread" ELSE lost[c]]

\* RIWndProc, on the engine's thread.
ri_process_input ==
    /\ epc = "pump"
    /\ messages # <<>>
    /\ Unread(Head(messages)) \/ Pushed(Head(messages), Translated(Head(messages)))
    /\ messages' = Tail(messages)
    /\ UNCHANGED <<running, frameVars, postVars, packets, level, late>>

-----------------------------------------------------------------------------
(* run() and shutdown() *)

\* run() forgets any shutdown that came before it.
RunCall ==
    /\ epc = "idle"
    /\ runs < MaxRuns
    /\ epc' = "test"
    /\ runs' = runs + 1
    /\ running' = TRUE
    /\ late' = 0
    /\ UNCHANGED <<frame_events, input, queue, postVars, rawVars, level, lost>>

\* Leaving the loop forgets which controls were down.
LoopTest ==
    /\ epc = "test"
    /\ IF running
       THEN epc' = "pump" /\ UNCHANGED <<input, lost>>
       ELSE /\ epc' = "idle"
            /\ input' = NoInput
            /\ lost' = [c \in Control |->
                          IF c \in input.down /\ About(c, Queued) = {} THEN "restarted"
                          ELSE lost[c]]
    /\ UNCHANGED <<running, runs, frame_events, queue, postVars, rawVars, level, late>>

\* w32_pump_messages returns when PeekMessage finds nothing.
PumpReturns ==
    /\ epc = "pump"
    /\ messages = <<>>
    /\ epc' = "drain"
    /\ UNCHANGED <<running, runs, frame_events, input, queue, postVars, rawVars, level,
                   lost, late>>

CanPop == queue # <<>> /\ Head(queue).ready

\* A slip: the frame waits for an event.
Drain_Waits ==
    /\ epc = "drain"
    /\ CanPop
    /\ Queue!Deliver
    /\ epc' = "build"
    /\ UNCHANGED <<running, runs, input, hand, posts, rawVars, level, lost, late>>

Drain ==
    /\ epc = "drain"
    /\ IF CanPop
       THEN Queue!Deliver /\ epc' = epc
       ELSE epc' = "build" /\ UNCHANGED <<queue, stage, frame_events>>
    /\ UNCHANGED <<running, runs, input, hand, posts, rawVars, level, lost, late>>

BuildInput ==
    /\ epc = "build"
    /\ input' = build_input(input, frame_events)
    /\ frame_events' = <<>>
    /\ epc' = "update"
    /\ late' = IF running THEN 0 ELSE late + 1
    /\ UNCHANGED <<running, runs, queue, postVars, rawVars, level, lost>>

\* The application's update may ask for the end.
Update ==
    /\ epc = "update"
    /\ epc' = "test"
    /\ running' \in {running, FALSE}
    /\ UNCHANGED <<runs, frame_events, input, queue, postVars, rawVars, level, lost, late>>

Run == LoopTest \/ ri_process_input \/ PumpReturns \/ Drain \/ BuildInput \/ Update

\* By any thread, before run() too.
shutdown ==
    /\ running' = FALSE
    /\ UNCHANGED <<frameVars, queue, postVars, rawVars, level, lost, late>>

Next ==
    \/ \E p \in Thread : Post(p)
    \/ \E k \in Packet : MouseReports(k)
    \/ RunCall
    \/ Run
    \/ shutdown

\* A thread inside run() or inside try_push is scheduled again.
Spec ==
    /\ Init /\ [][Next]_vars
    /\ WF_vars(Run)
    /\ \A p \in Thread : WF_vars(PostAccept(p) \/ PostRefused(p) \/ PostPublish(p))

-----------------------------------------------------------------------------
(* Properties *)

TypeOK ==
    /\ running \in BOOLEAN
    /\ epc \in {"idle", "test", "pump", "drain", "build", "update"}
    /\ runs \in 0 .. MaxRuns
    /\ frame_events \in Seq(Events)
    /\ input \in [down : SUBSET Control, pressed : SUBSET Control, released : SUBSET Control,
                  dx : Nat]
    /\ queue \in Seq([from : Thread \cup {Engine}, val : Events, ready : BOOLEAN])
    /\ Len(queue) <= Capacity
    /\ stage \in [Thread -> {"idle", "calling", "accepted"}]
    /\ hand \in [Thread -> Events \cup {NoEvent}]
    /\ \A p \in Thread : (hand[p] # NoEvent) <=> (stage[p] = "calling")
    /\ posts \in [Thread -> 0 .. MaxPosts]
    /\ messages \in Seq(Packet) /\ packets \in 0 .. MaxPackets
    /\ level \in [Control -> BOOLEAN]
    /\ lost \in [Control -> {"no", "refused", "masked", "unread", "restarted"}]
    /\ late \in Nat

\* A change of c that has not reached the event queue yet.
Underway(c) ==
    \/ c \in Thread /\ stage[c] = "calling" /\ IsLevel(hand[c])
    \/ \E i \in DOMAIN messages : Changes(messages[i], c)

\* What the engine will hold of c once it has used up what it has.
WillHold(c) == Told(c, frame_events \o Queued, c \in input.down)

\* Whatever the order of packets, posts, frames and runs: a control whose last
\* change was neither refused by a full queue, masked, in a packet that could not be
\* read nor forgotten by a new run() is never held to be down when it is up, or up
\* when it is down, beyond what is still queued.
LevelsAgree ==
    \A c \in Control : lost[c] = "no" /\ ~ Underway(c) => WillHold(c) = level[c]

\* "Button held state": the same of the buttons, with a full queue, an unreadable
\* packet and the restart as excuses, and masking as none.  False: a packet that
\* moves the mouse and releases the button becomes a movement, and the button stays
\* down.
ButtonHeldState ==
    \A b \in Button :
        lost[b] \notin {"refused", "unread", "restarted"} /\ ~ Underway(b) => WillHold(b) = level[b]

\* No frame hides a change: if a control differs from the last frame its edge is
\* there, an edge without its opposite agrees with the level, and an edge is there
\* only in the frame whose events brought it.
EdgesCoverLevels ==
    [][epc = "build" /\ epc' = "update" =>
         \A c \in Control :
            /\ c \in input'.down \ input.down => c \in input'.pressed
            /\ c \in input.down \ input'.down => c \in input'.released
            /\ c \in input'.pressed \ input'.released => c \in input'.down
            /\ c \in input'.released \ input'.pressed => c \notin input'.down
            /\ About(c, frame_events) = {} => c \notin input'.pressed \cup input'.released]_vars

\* "Graceful shutdown at the end of the current frame": once running is cleared,
\* by the frame's own update or by another thread, at most the frame under way is
\* built.
CurrentFrameIsLast == late <= 1

\* A shutdown during run() makes it return.
ShutdownStops == (~ running /\ epc # "idle") ~> (epc = "idle")

\* What a thread has pushed reaches a frame, if the engine keeps running, even
\* behind an event that another thread has not finished pushing.
PostedReachesFrame ==
    \A p \in Thread : stage[p] = "accepted"
                      ~> (epc = "idle" \/ \A i \in DOMAIN queue : queue[i].from # p)
=============================================================================
