---------------------------- MODULE LoggerWorker ----------------------------
(***************************************************************************)
(* The logging thread of src/logging: client threads push messages and     *)
(* wait for idleness, one worker delivers them to the sink, and the owner  *)
(* starts and stops the worker (Logger's constructor and destructor).      *)
(* The queue between them is the abstract MPSCChannel, which MPSCQueue is  *)
(* shown to implement.                                                     *)
(***************************************************************************)
EXTENDS Integers, Sequences, FiniteSets

CONSTANTS Client,    \* the threads that log
          MaxCalls,  \* bound: messages per client
          MaxWaits,  \* bound: calls of wait_until_idle per client
          MaxStarts, \* bound: calls of start
          Sinks,     \* the sinks set_callback is called with
          Overlaps   \* the uses that overlap with the worker at work:
                     \*   "stop"   stop() while clients are inside a call
                     \*   "flush"  flush() by a client
                     \*   "sink"   set_callback() once messages are pushed

ASSUME LoggerAssumption ==
    /\ IsFiniteSet(Client)
    /\ MaxCalls \in Nat /\ MaxWaits \in Nat /\ MaxStarts \in Nat
    /\ Sinks \subseteq {"Stderr", "Buffer", "File"}
    /\ Overlaps \subseteq {"stop", "flush", "sink"}

VARIABLES queue, popped,   \* the channel: its contents, and all it delivered
          running, accepting, in_flight,       \* the three atomics
          pc, val, calls,  \* a client's place in its call, message and count
          finished,        \* history: messages whose push has returned
          mutex, asleep,   \* idle_mutex's holder, the sleepers on idle_cv
          waits, awaited,  \* waits so far; finished when p began to wait
          wpc, e,          \* the worker's place in run() and its LogEvent
          sink, setting,   \* the callback; set_callback is assigning it
          delivered,       \* history: what the callback was given
          flushed,         \* history: how many of those flush() popped
          buffer_, file_buffer,                \* what the sinks keep
          opc, starts,     \* the owner's place, and its calls of start
          atStop,          \* history: finished when stop() was called
          file,            \* the lines of the log file written by this process
          written          \* history: the last write of the file succeeded

channel    == <<queue, popped>>
flags      == <<running, accepting>>
pushVars   == <<val, calls, finished>>
waitVars   == <<mutex, asleep, waits, awaited>>
workerVars == <<wpc, e>>
sinkVars   == <<sink, setting, delivered, flushed, buffer_, file_buffer>>
fileVars   == <<file, written>>
ownerVars  == <<opc, starts, atStop, fileVars>>
vars == <<channel, flags, in_flight, pc, pushVars, waitVars, workerVars,
          sinkVars, ownerVars>>

Message == [from : Client, n : 1 .. MaxCalls]
NoMessage == [from |-> "none", n |-> 0]

\* Where a client is in queue.push.
stage == [p \in Client |->
            CASE pc[p] = "exchange" -> "calling"
              [] pc[p] = "link" -> "accepted"
              [] OTHER -> "idle"]

Queue == INSTANCE MPSCChannel
         WITH Producer <- Client, Value <- Message,
              Limit <- MaxCalls * Cardinality(Client),
              q <- queue, out <- popped

\* try_pop has something to take: a linked node after the dummy.
CanPop == queue # <<>> /\ Head(queue).ready

Init ==
    /\ queue = <<>> /\ popped = <<>>
    /\ running = FALSE /\ accepting = TRUE /\ in_flight = 0
    /\ mutex = "free" /\ asleep = {}
    /\ sink = "Stderr" /\ setting = FALSE
    /\ buffer_ = <<>> /\ file_buffer = <<>> /\ file = <<>> /\ written = TRUE
    /\ pc = [p \in Client |-> "idle"]
    /\ val = [p \in Client |-> NoMessage]
    /\ calls = [p \in Client |-> 0]
    /\ waits = [p \in Client |-> 0]
    /\ awaited = [p \in Client |-> {}]
    /\ wpc = "none" /\ e = NoMessage
    /\ opc = "new" /\ starts = 0
    /\ delivered = <<>> /\ flushed = 0 /\ finished = {} /\ atStop = {}

\* Clients get a Logger whose constructor has returned; LoggerWorker does not
\* insist that they are done with it when stop() is called.
InUse == opc = "started" \/ (opc # "new" /\ "stop" \in Overlaps)

\* flush_file writes all lines kept so far over the file.  If it cannot be opened
\* it stays as it was; if the write fails, CREATE_ALWAYS has emptied it and some of
\* the lines may be there.  The error is discarded.
flush_file ==
    IF file_buffer = <<>> THEN UNCHANGED fileVars
    ELSE \/ file' = file_buffer /\ written' = TRUE
         \/ file' = file /\ written' = FALSE
         \/ \E n \in 0 .. Len(file_buffer) :
               file' = SubSeq(file_buffer, 1, n) /\ written' = FALSE

-----------------------------------------------------------------------------
(* Slips: what an operation below would be with one plausible mistake in it. *)
(* None is part of the specification; each breaks one of its properties.     *)

\* Idleness is read off the queue in place of in_flight.
WaitTest_ByQueue(p) ==
    /\ pc[p] = "test"
    /\ IF queue = <<>>
       THEN pc' = [pc EXCEPT ![p] = "idle"] /\ mutex' = "free"
       ELSE pc' = [pc EXCEPT ![p] = "sleep"] /\ mutex' = mutex
    /\ UNCHANGED <<channel, flags, in_flight, pushVars, asleep, waits, awaited,
                   workerVars, sinkVars, ownerVars>>

\* The worker leaves its loop without the final drain.
RunCheck_NoDrain ==
    /\ wpc = "loop"
    /\ wpc' = IF running THEN "pop" ELSE "lastNotify"
    /\ UNCHANGED <<channel, flags, in_flight, pc, pushVars, waitVars, e, sinkVars,
                   ownerVars>>

\* The final drain forgets the fetch_sub of the main loop.
RunUncount_LoopOnly ==
    /\ wpc \in {"uncount", "drainUncount"}
    /\ in_flight' = IF wpc = "uncount" THEN in_flight - 1 ELSE in_flight
    /\ wpc' = CASE wpc = "drainUncount" -> "drainPop"
                [] wpc = "uncount" /\ in_flight = 1 -> "notify"
                [] OTHER -> "loop"
    /\ UNCHANGED <<channel, flags, pc, pushVars, waitVars, e, sinkVars, ownerVars>>

\* notify_all without the lock.
RunNotify_Unlocked ==
    /\ wpc \in {"notify", "lastNotify"}
    /\ asleep' = {}
    /\ wpc' = IF wpc = "notify" THEN "loop" ELSE "done"
    /\ UNCHANGED <<channel, flags, in_flight, pc, pushVars, mutex, waits, awaited, e,
                   sinkVars, ownerVars>>

\* stop forgets to clear running.
StopRunning_Forgotten ==
    /\ opc = "stopRunning"
    /\ opc' = "join"
    /\ UNCHANGED <<channel, flags, in_flight, pc, pushVars, waitVars, workerVars,
                   sinkVars, starts, atStop, fileVars>>

\* The file is written before the worker is joined.
StopJoin_TooEarly ==
    /\ opc = "join"
    /\ flush_file
    /\ opc' = "stopped"
    /\ UNCHANGED <<channel, flags, in_flight, pc, pushVars, waitVars, workerVars,
                   sinkVars, starts, atStop>>

-----------------------------------------------------------------------------
(* push *)

PushCheck(p) ==
    /\ pc[p] = "idle" /\ InUse
    /\ "sink" \in Overlaps \/ ~ setting
    /\ calls[p] < MaxCalls
    /\ calls' = [calls EXCEPT ![p] = @ + 1]
    /\ val' = [val EXCEPT ![p] = [from |-> p, n |-> calls[p] + 1]]
    /\ pc' = [pc EXCEPT ![p] = IF accepting THEN "count" ELSE "idle"]
    /\ UNCHANGED <<channel, flags, in_flight, finished, waitVars, workerVars,
                   sinkVars, ownerVars>>

PushCount(p) ==
    /\ pc[p] = "count"
    /\ in_flight' = in_flight + 1
    /\ pc' = [pc EXCEPT ![p] = "exchange"]
    /\ Queue!Call(p)
    /\ UNCHANGED <<flags, pushVars, waitVars, workerVars, sinkVars, ownerVars>>

PushExchange(p) ==
    /\ pc[p] = "exchange"
    /\ pc' = [pc EXCEPT ![p] = "link"]
    /\ Queue!Accept(p, val[p])
    /\ UNCHANGED <<flags, in_flight, pushVars, waitVars, workerVars, sinkVars, ownerVars>>

PushLink(p) ==
    /\ pc[p] = "link"
    /\ pc' = [pc EXCEPT ![p] = "idle"]
    /\ Queue!Publish(p)
    /\ finished' = finished \cup {val[p]}
    /\ UNCHANGED <<flags, in_flight, val, calls, waitVars, workerVars, sinkVars, ownerVars>>

Push(p) == PushCount(p) \/ PushExchange(p) \/ PushLink(p)

-----------------------------------------------------------------------------
(* wait_until_idle.  The predicate is tested with idle_mutex held; sleeping  *)
(* releases it, and a woken client takes it again before the next test.      *)

WaitCall(p) ==
    /\ pc[p] = "idle" /\ InUse
    /\ waits[p] < MaxWaits
    /\ waits' = [waits EXCEPT ![p] = @ + 1]
    /\ awaited' = [awaited EXCEPT ![p] = finished]
    /\ pc' = [pc EXCEPT ![p] = "lock"]
    /\ UNCHANGED <<channel, flags, in_flight, pushVars, mutex, asleep, workerVars,
                   sinkVars, ownerVars>>

WaitLock(p) ==
    /\ pc[p] = "lock" /\ p \notin asleep
    /\ mutex = "free"
    /\ mutex' = p
    /\ pc' = [pc EXCEPT ![p] = "test"]
    /\ UNCHANGED <<channel, flags, in_flight, pushVars, asleep, waits, awaited,
                   workerVars, sinkVars, ownerVars>>

\* The predicate decides between returning and going to sleep.
WaitTest(p) ==
    /\ pc[p] = "test"
    /\ IF in_flight = 0
       THEN pc' = [pc EXCEPT ![p] = "idle"] /\ mutex' = "free"
       ELSE pc' = [pc EXCEPT ![p] = "sleep"] /\ mutex' = mutex
    /\ UNCHANGED <<channel, flags, in_flight, pushVars, asleep, waits, awaited,
                   workerVars, sinkVars, ownerVars>>

WaitSleep(p) ==
    /\ pc[p] = "sleep"
    /\ asleep' = asleep \cup {p}
    /\ mutex' = "free"
    /\ pc' = [pc EXCEPT ![p] = "lock"]
    /\ UNCHANGED <<channel, flags, in_flight, pushVars, waits, awaited, workerVars,
                   sinkVars, ownerVars>>

\* A condition variable may wake a sleeper without notification.
WakeSpuriously(p) ==
    /\ p \in asleep
    /\ asleep' = asleep \ {p}
    /\ UNCHANGED <<channel, flags, in_flight, pc, pushVars, mutex, waits, awaited,
                   workerVars, sinkVars, ownerVars>>

Wait(p) == WaitLock(p) \/ WaitTest(p) \/ WaitSleep(p)

-----------------------------------------------------------------------------
(* run.  A place with the prefix "drain" belongs to the final drain loop. *)

RunCheck ==
    /\ wpc = "loop"
    /\ wpc' = IF running THEN "pop" ELSE "drainPop"
    /\ UNCHANGED <<channel, flags, in_flight, pc, pushVars, waitVars, e, sinkVars,
                   ownerVars>>

RunPop ==
    /\ wpc \in {"pop", "drainPop"}
    /\ UNCHANGED <<flags, in_flight, pc, pushVars, waitVars, sinkVars, ownerVars>>
    /\ IF CanPop
       THEN /\ e' = Head(queue).val
            /\ Queue!Deliver
            /\ wpc' = IF wpc = "pop" THEN "callback" ELSE "drainCallback"
       ELSE /\ wpc' = IF wpc = "pop" THEN "loop" ELSE "lastNotify"
            /\ UNCHANGED <<channel, e>>

\* The callback installed by set_callback, given message m.
Emit(m) ==
    /\ delivered' = Append(delivered, m)
    /\ buffer_' = IF sink = "Buffer" THEN Append(buffer_, m) ELSE buffer_
    /\ file_buffer' = IF sink = "File" THEN Append(file_buffer, m) ELSE file_buffer
    /\ UNCHANGED <<sink, setting>>

RunCallback ==
    /\ wpc \in {"callback", "drainCallback"}
    /\ Emit(e)
    /\ flushed' = flushed
    /\ wpc' = IF wpc = "callback" THEN "uncount" ELSE "drainUncount"
    /\ UNCHANGED <<channel, flags, in_flight, pc, pushVars, waitVars, e, ownerVars>>

\* The main loop wakes the waiters when it takes the count to zero; the final
\* drain leaves that to the notification at the end.
RunUncount ==
    /\ wpc \in {"uncount", "drainUncount"}
    /\ in_flight' = in_flight - 1
    /\ wpc' = CASE wpc = "drainUncount" -> "drainPop"
                [] wpc = "uncount" /\ in_flight = 1 -> "notify"
                [] OTHER -> "loop"
    /\ UNCHANGED <<channel, flags, pc, pushVars, waitVars, e, sinkVars, ownerVars>>

\* lock_guard and notify_all; nothing else happens while the lock is held.
RunNotify ==
    /\ wpc \in {"notify", "lastNotify"}
    /\ mutex = "free"
    /\ asleep' = {}
    /\ wpc' = IF wpc = "notify" THEN "loop" ELSE "done"
    /\ UNCHANGED <<channel, flags, in_flight, pc, pushVars, mutex, waits, awaited, e,
                   sinkVars, ownerVars>>

Run == RunCheck \/ RunPop \/ RunCallback \/ RunUncount \/ RunNotify

-----------------------------------------------------------------------------
(* start, stop, set_callback, flush *)

\* Starting a running worker would terminate the process; the owner does not.
Start ==
    /\ opc \in {"new", "stopped"}
    /\ "flush" \in Overlaps \/ \A p \in Client : pc[p] # "flush"
    /\ starts < MaxStarts
    /\ starts' = starts + 1
    /\ running' = TRUE
    /\ wpc' = "loop"
    /\ opc' = "started"
    /\ UNCHANGED <<channel, accepting, in_flight, pc, pushVars, waitVars, e, sinkVars,
                   atStop, fileVars>>

StopAccepting ==
    /\ opc = "started"
    /\ "stop" \in Overlaps \/ \A p \in Client : pc[p] = "idle"
    /\ accepting' = FALSE
    /\ atStop' = finished
    /\ opc' = "stopRunning"
    /\ UNCHANGED <<channel, running, in_flight, pc, pushVars, waitVars, workerVars,
                   sinkVars, starts, fileVars>>

StopRunning ==
    /\ opc = "stopRunning"
    /\ running' = FALSE
    /\ opc' = "join"
    /\ UNCHANGED <<channel, accepting, in_flight, pc, pushVars, waitVars, workerVars,
                   sinkVars, starts, atStop, fileVars>>

\* join, then flush_file.
StopJoin ==
    /\ opc = "join"
    /\ wpc = "done"
    /\ flush_file
    /\ opc' = "stopped"
    /\ UNCHANGED <<channel, flags, in_flight, pc, pushVars, waitVars, workerVars,
                   sinkVars, starts, atStop>>

Stop == StopRunning \/ StopJoin

\* The assignment of a std::function is not atomic: it begins and ends.
SetCallback(s) ==
    /\ ~ setting
    /\ "sink" \in Overlaps \/ \A p \in Client : calls[p] = 0
    /\ setting' = TRUE
    /\ sink' = s
    /\ buffer_' = IF s = "Buffer" THEN <<>> ELSE buffer_
    /\ UNCHANGED <<channel, flags, in_flight, pc, pushVars, waitVars, workerVars,
                   delivered, flushed, file_buffer, ownerVars>>

SetCallbackReturns ==
    /\ setting
    /\ setting' = FALSE
    /\ UNCHANGED <<channel, flags, in_flight, pc, pushVars, waitVars, workerVars, sink,
                   delivered, flushed, buffer_, file_buffer, ownerVars>>

\* flush pops on the caller's thread until try_pop fails, and leaves in_flight
\* as it is.
FlushCall(p) ==
    /\ pc[p] = "idle"
    /\ wpc \in {"none", "done"} \/ ("flush" \in Overlaps /\ InUse)
    /\ pc' = [pc EXCEPT ![p] = "flush"]
    /\ UNCHANGED <<channel, flags, in_flight, pushVars, waitVars, workerVars, sinkVars,
                   ownerVars>>

FlushPop(p) ==
    /\ pc[p] = "flush"
    /\ IF CanPop
       THEN /\ Emit(Head(queue).val)
            /\ flushed' = flushed + 1
            /\ pc' = pc
            /\ Queue!Deliver
       ELSE /\ pc' = [pc EXCEPT ![p] = "idle"]
            /\ UNCHANGED <<channel, sinkVars>>
    /\ UNCHANGED <<flags, in_flight, pushVars, waitVars, workerVars, ownerVars>>

Next ==
    \/ \E p \in Client : \/ PushCheck(p) \/ Push(p)
                         \/ WaitCall(p) \/ Wait(p) \/ WakeSpuriously(p)
                         \/ FlushCall(p) \/ FlushPop(p)
    \/ Run
    \/ Start \/ StopAccepting \/ Stop
    \/ SetCallbackReturns
    \/ \E s \in Sinks : SetCallback(s)

Spec == Init /\ [][Next]_vars

\* Every thread inside a call, and the worker, is scheduled again; and whoever
\* waits for idle_mutex gets it if it is free again and again.  Nobody has to
\* begin a call, to start or to stop the worker, and no spurious wakeup has to
\* happen.
Fairness ==
    /\ WF_vars(Run) /\ SF_vars(RunNotify)
    /\ WF_vars(Stop)
    /\ \A p \in Client :
          WF_vars(Push(p)) /\ WF_vars(FlushPop(p)) /\ WF_vars(Wait(p)) /\ SF_vars(WaitLock(p))

FairSpec == Spec /\ Fairness

-----------------------------------------------------------------------------
(* Properties *)

ChannelOK ==
    /\ queue \in Seq([from : Client, val : Message, ready : BOOLEAN])
    /\ popped \in Seq(Message)

PushOK ==
    /\ pc \in [Client -> {"idle", "count", "exchange", "link", "lock", "test",
                          "sleep", "flush"}]
    /\ val \in [Client -> Message \cup {NoMessage}]
    /\ calls \in [Client -> 0 .. MaxCalls]
    /\ finished \subseteq Message

WaitOK ==
    /\ mutex \in Client \cup {"free"} /\ asleep \subseteq Client
    /\ waits \in [Client -> 0 .. MaxWaits]
    /\ awaited \in [Client -> SUBSET Message]

WorkerOK ==
    /\ wpc \in {"none", "loop", "pop", "callback", "uncount", "notify", "drainPop",
                "drainCallback", "drainUncount", "lastNotify", "done"}
    /\ e \in Message \cup {NoMessage}
    /\ running \in BOOLEAN /\ accepting \in BOOLEAN /\ in_flight \in Int

SinkOK ==
    /\ sink \in {"Stderr", "Buffer", "File"} /\ setting \in BOOLEAN
    /\ delivered \in Seq(Message) /\ flushed \in Nat
    /\ buffer_ \in Seq(Message) /\ file_buffer \in Seq(Message)

OwnerOK ==
    /\ opc \in {"new", "started", "stopRunning", "join", "stopped"}
    /\ starts \in 0 .. MaxStarts
    /\ atStop \subseteq Message
    /\ file \in Seq(Message) /\ written \in BOOLEAN

TypeOK == ChannelOK /\ PushOK /\ WaitOK /\ WorkerOK /\ SinkOK /\ OwnerOK

Delivered(m) == \E i \in DOMAIN delivered : delivered[i] = m

Counting == {p \in Client : pc[p] = "exchange"}
Holding == wpc \in {"callback", "uncount", "drainCallback", "drainUncount"}

\* in_flight counts exactly the messages between their fetch_add and their
\* fetch_sub, wherever the threads are, so 0 means none is anywhere; a message
\* taken by flush() stays counted for ever.
InFlightCounts ==
    in_flight = Len(queue) + Cardinality(Counting) + (IF Holding THEN 1 ELSE 0) + flushed

\* What InFlightCounts rests on: a client past the accepting test and a worker
\* that holds an event have a message, and start never meets a live worker.
Locals ==
    /\ \A p \in Client : pc[p] \in {"count", "exchange", "link"} => val[p] \in Message
    /\ Holding => e \in Message
    /\ opc \in {"new", "stopped"} => wpc \in {"none", "done"}

LoggerInv == TypeOK /\ Locals /\ InFlightCounts

\* When wait_until_idle returns, every push that had returned before the wait
\* began has been given to the sink (the tests read the sink right after it).
IdleMeansDelivered ==
    [][\A p \in Client : pc[p] = "test" /\ pc'[p] = "idle"
          => \A m \in awaited[p] : Delivered(m)]_vars

\* "now everything is guaranteed drained": when stop returns, every message
\* whose push had returned before stop was called has reached the sink.
StopDrains == opc = "stopped" => \A m \in atStop : Delivered(m)

\* When stop returns and could write the file, it holds every line the File sink
\* was given, those after a restart too.  Whatever failed, at any time what it
\* holds is their beginning: no line is missing before one that is there.
FileComplete ==
    /\ opc = "stopped" /\ written => file = file_buffer
    /\ Len(file) <= Len(file_buffer) /\ \A i \in DOMAIN file : file[i] = file_buffer[i]

\* Only one thread at a time is in the single-consumer queue's try_pop.
SingleConsumer ==
    \A p \in Client : ~ (pc[p] = "flush" /\ wpc \in {"pop", "drainPop"})

\* A client in wait_until_idle gets out of it: no wakeup is lost.
WaiterReturns ==
    \A p \in Client : pc[p] \in {"lock", "test", "sleep"} ~> pc[p] = "idle"

\* stop returns, with or without clients pushing.
StopReturns == opc = "stopRunning" ~> opc = "stopped"

\* Every message whose push has returned reaches the sink.  (The pushes are
\* bounded, so it is enough that again and again none is outstanding.)
PushedArrives == []<>(\A m \in finished : Delivered(m))
=============================================================================
