# A verification project for the Wozzits engine

TLA+ modules that model the engine's code (`src/twe`), the TLC configurations
that check them on small instances, and theorems about them checked by TLAPS.
Paths below are relative to the repository.

## The system

Wozzits is a small C++20 game engine for Windows: lock-free queues, a logging
thread, an event-driven frame loop, a scene hierarchy with cached transforms,
and thin layers over the platform.

| component | state | operations | talks to |
|---|---|---|---|
| bounded MPSC ring (`core/queue/mpsc_ring_buffer.h`) | `head`, `tail`, `Cell[Capacity]` with a state and a value | `try_push`, `try_pop`, `empty`, `clear` | `event_queue`: raw input produces, the frame loop consumes |
| linked MPSC queue (`core/queue/mpsc_queue.h`) | `head`, `tail`, heap nodes | `push`, `try_push`, `try_pop`, `empty`, `clear` | the logger |
| SPSC queue (`core/queue/spsc_queue.h`) | `read_index`, `write_index`, raw storage | `push`, `try_pop`, `empty`, `clear` | the window's messages |
| logger (`src/logging`) | the queue, `in_flight`, `running`, `accepting`, the sink and what it keeps | `log`, `flush`, `set_callback`, `wait_until_idle`; `start`, `stop`, `run` | client threads push, one worker delivers, a condition variable signals idleness |
| engine loop, input state, event queue, raw input (`src/engine`, `src/input`, `src/event`, `platform/win32/ri_win32.cpp`) | `running`, the frame's events, keys and mouse | `run`, `shutdown`, `build_input`, `ri_process_input` | raw input -> event queue -> frame -> `update` callback |
| window (`platform/win32/win32.cpp`, `core/window/window2.cpp`) | the native window, its SPSC queue, `should_close` | create, the window procedure, poll, destroy | OS messages -> queue -> the application's loop -> event bus |
| event bus (`src/hormuz`) | for each event type an array of listeners | `subscribe`, `publish`, `reset` | callbacks, called synchronously, that use the bus again |
| scene transforms (`src/scene/transform_node.cpp`) | per node: local transform, cached world matrix, three versions | `update_world_transform`, edits by the owner | baking reads `world` |
| baking and render frame (`src/scene/bake.cpp`, `core/render`) | render objects, visible primitives, draws, passes | bake; cull, classify, sort, bin | reads the transforms |
| buffer, algorithms (`core/containers`, `core/algo`) | storage of the caller; views with `count`, `capacity`, `overflow_count` | push, reset, slice; transform, filter, pipelines in four generations | baking and the frame push to buffers |
| filesystem, async (`src/filesystem`, `src/async`) | the disk; the registered executor and its jobs | read, write, size, list, create, remove; path algebra; asynchronous forms | the logger writes its file through it |
| threading, math, memory, time, results | none that lasts | wrappers, arithmetic, a value type | |

What is hard in it: the three lock-free queues (stale loads, address reuse, a
half-finished push hiding finished ones), the logger's shutdown and idle
notification (accepting, counting, draining and waking are four separate steps
on three threads), the life of a window between two threads, callbacks that
change the table whose loop called them, views that alias each other's storage,
and the transform cache (a version protocol over a hierarchy, with calls in any
order). `PROJECT.json` lists each hazard with its line.

## The modules

| module | models | role |
|---|---|---|
| `MPSCChannel` | - | what an MPSC queue promises, whatever its storage |
| `MPSCRingBuffer`, `MCMPSCRingBuffer` | `core/queue/mpsc_ring_buffer.h` | one action per shared-memory access; implements `MPSCChannel` |
| `MPSCRingBufferProofs` | | its safety properties and its refinement of the channel, proved |
| `MPSCQueue`, `MCMPSCQueue` | `core/queue/mpsc_queue.h` | nodes as reusable addresses; implements `MPSCChannel` |
| `MPSCQueueProofs` | | the list invariant, the safety properties and the refinement, proved |
| `SPSCQueue` | `core/queue/spsc_queue.h` | one action per access to what is shared; implements `MPSCChannel` with one producer |
| `LoggerWorker`, `MCLoggerWorker` | `src/logging` | clients, worker, owner over an instance of `MPSCChannel` |
| `LoggerWorkerProofs` | | the accounting of `in_flight`, idleness and the drain of `stop()`, proved |
| `EngineFrame`, `MCEngineFrame` | `src/engine`, `src/input`, `platform/win32/ri_win32.cpp` | raw input, posting threads, frame loop and input state over an instance of `MPSCChannel` |
| `EngineFrameProofs` | | its safety and action properties, proved |
| `EventBus` | `src/hormuz` | the table and a stack of publications |
| `Window`, `MCWindow` | `platform/win32/win32.cpp` | the window between its owner and the loop, composed of instances of `SPSCQueue` and `EventBus` |
| `WindowProofs` | | the queue's and the bus's inductive invariants, the queue's refinement, and the composition's invariant, proved |
| `TransformNode`, `MCTransformNode` | `src/scene/transform_node.cpp` | the version protocol of the world-transform cache |
| `RenderFrame`, `MCRenderFrame` | `src/scene/bake.cpp`, `core/render/frame.cpp`, `render.h` | baking and the frame's stages, over `TransformNode` |
| `RenderFrameProofs` | | the invariant of the cache, what an update ensures and what is baked, proved |
| `Buffer` | `core/containers/buffer.h` | views over shared storage |
| `Algo`, `MCAlgo` | `core/algo` | the four generations of transform and filter, over `Buffer`, against a reference definition |
| `AlgoProofs` | | what the views keep, and the agreement of the generations with the reference, proved |
| `Filesystem` | `src/filesystem`, `src/async` | file operations as the Win32 calls they make, by several threads and an executor's worker |
| `Paths` | `src/filesystem` | the functions on the text of a path |
| `FilesAndPaths`, `MCFilesystem` | | both together |
| `FilesAndPathsProofs` | | the disk, the handles, the callbacks, what a read and an undisturbed call do, and the laws of the functions on paths, proved |

### MPSCChannel

`q` holds the values that have taken their place in the order, each with a
flag that says whether it is visible; `out` is everything delivered. `Accept`
gives a value its place, `Publish` makes it visible, `Deliver` hands over the
oldest value if it is visible. The three queues implement it, so a client of any
is entitled to exactly this: order of acceptance, each value whole and once,
and a delivery that stops at the first value that is accepted and not yet
published. The logger is composed with the channel and not with the queue's
nodes, which keeps its state space to what the logger adds.

### MPSCRingBuffer

Each producer has a place `pc` in `try_push` and its locals `h` and `t`; the
consumer has `cpc`, `ch` and `cval`; an observer thread in `empty()` has `opc`
and `oh`. `Claim` is a successful `compare_exchange_weak`; `Retry` is a failed
one, which the weak form allows even when nothing changed. The value of a cell
is not atomic: writing and moving it are single actions, and `NoDataRace` says
that no other thread is at the same cell meanwhile, which is what makes that
sound. `clear()` runs only while no call is in progress, as its contract says.
Tickets are natural numbers; the code's `size_t` wraps after 2^64 pushes.

Atomics are interleaved. The code's orderings are weaker, but every value that
is used after being loaded is covered by an acquire/release pair: `cell.state`
publishes the value to the consumer, and `head` gives the slot back to the
producers. The relaxed load of `tail` may be old; an old `tail` is a `tail`
loaded earlier, and makes the exchange fail.

### MPSCQueue

`Exchange` swaps `tail`, `Link` stores `prev->next`: between the two the list
is cut. `chain` walks the list in exchange order, through the producer's local
where `next` is not stored yet. `PopDelete` frees the old dummy and the next
`Alloc` may return the same address. Out of memory ends the process
(`WZ_CORE_ASSERT`); the model has no step for it. `clear()` and the
destructor's loop are repetitions of `try_pop`.

### SPSCQueue

Each index is written by one thread only, so a thread's load of its own index
is no step of its own: `PushCheck` is the load of `read_index`, `PopCheck` that
of `write_index`. Between a check and the store that ends the call the other
side may move; `Apart` says that what the check found stays true. `buffer`
holds `Raw` where no object is alive, so `Objects` says that nothing is
constructed over an object, moved out of raw memory or destroyed twice. One
slot always stays free, which the refinement shows by giving the channel the
limit `Capacity - 1`. The index mask is the remainder by a power of two.

### LoggerWorker

A client is in `push` (`count`, `exchange`, `link`), in `wait_until_idle`
(`lock`, `test`, `sleep`) or in `flush`. The worker's place `wpc` follows
`run()`, with the final drain as places of their own. `mutex` is `idle_mutex`;
`asleep` is the wait set of `idle_cv`, which a spurious wakeup may leave at any
time. The owner's `opc` follows the constructor, `stop` and a restart. Sinks are
what they keep: `Buffer`, `File`, or nothing (`Stderr` stands for the three that
keep nothing). `stop()` discards the answer of `write_file_text`, so
`flush_file` may succeed, leave the file as it was, or leave any beginning of
the lines; `written` remembers which. `set_callback` has a beginning and an end,
since a `std::function` is not assigned atomically.

`Overlaps` says which uses may overlap with the worker: `stop()` while clients
are in a call, `flush()`, and `set_callback` after the first message. The
passing runs keep to a `Logger` that nobody uses while it is built or
destroyed; each violation run allows one overlap.

### EngineFrame

`epc` follows the loop of `run()`: the test of `running`, the pump, the drain,
`build_input` and `update`. The pump hands every waiting packet to
`ri_process_input`, which makes at most one event of it and pushes the event
itself, unless `GetRawInputData` fails and the packet is lost (`Unread`);
posting threads are in `try_push` (`stage`). The event queue is an
instance of `MPSCChannel` whose `out` is the frame's list of events, so the
drain can stop before an event that is placed and not published. `build_input`
is a fold over that list.

A control is a mouse button, or the one key for which a thread of `KeyThread`
posts events; the other threads post events about the window. `level` is what is
true of it outside the engine; `lost` is history and says why the last change of
a control cannot be known to the input state: the queue was full, the packet's
event was about something else, the packet could not be read, or a new `run()`
began with nothing held. A packet changes a button at most once and has movement
or the wheel, not both. There are no keyboard packets, because `ri_init`
registers the mouse alone. Left out: the clock and the frame limiter, positions
(only that there was movement), and the fields of window and controller, which
no event of category `Input` carries.

### EventBus

`publish` is a loop that reads `list.count` anew before each call, and its
callbacks run the application's code. `stack` holds the publications under way,
each at the loop's test or in a callback, so subscriptions, resets and nested
publications take place between any two listeners. A listener is the call that
subscribed it; a full list drops it without a word. `called` and `cut` are
history.

### Window

`opc` follows the thread that owns the window: `w32_create_window` up to
`WM_NCCREATE`, the messages that `CreateWindowExA` sends itself, the open
window, and `WM_DESTROY` with `WM_NCDESTROY`. `apc` follows the application's
loop: test `window_should_close`, poll, publish on the bus. `WindowProc` sets
`should_close` and calls the queue's `push`, whose answer it ignores. Queue and
bus are instances, and the module's actions are theirs joined with the
window's; their properties are checked and proved in the composition.
`CreateWindowExA` may fail before `WM_NCCREATE`, or after it, when it sends
`WM_NCDESTROY` itself (`CreateAborts`): then the `NativeWindow` is deleted twice.
What the second `delete` does is undefined; the model counts it in `deletes` and
goes on. The loop has left the window before it is destroyed. That is what the
callers do (`test_window.cpp`) and an assumption of `Destroy`; the code does not
check it, so nothing here says what a poll during or after a destruction does.
Painting and the window's attributes are left out, and what Win32 sends is
written from what `WindowProc` handles.

### TransformNode

A matrix is the sequence of local transforms it is the product of, so two
matrices are equal exactly if they compose the same locals in the same order.
`Update(id)` is the whole recursion: a fold over the path from the root.
`SetLocal` is the owner's edit, which must count the version. Versions are
modulo `Modulus` (2^32 in the code); no node goes so many changes without an
update that its versions come round, and `pending` measures that. `unseen[n]`
is history: the edited nodes that `world[n]` does not reflect.

### RenderFrame

`RenderFrame` extends `TransformNode`: a frame may be begun in every state that
edits and updates reach, whether the nodes are up to date or not.
`Bake` and `BakeRoots` copy the world transforms; `Cull`, `Classify`, `Sort`
and `Bin` are the stages of `FrameBuilder`. All their buffers lose what does not
fit. An object that found no room in `ir.objects` has no `ObjectData`, and a
primitive on it reads what lies behind the buffer: any member of `Stray`. Space
has one dimension, along the view: a transform is a translation, the frustum has
a near and a far plane, and lengths are whole numbers. What the one dimension
keeps is the comparison with the planes, the clamp of the depth at the eye, its
conversion to whole steps of `Grain` (`(uint32_t)(depth_f * 1000.0f)`; what 32
bits have no room for becomes an unspecified word, kept in `depths`), and the cut
of the key's three fields. What it leaves out is the rounding of floats.
Between a bake and the end of its frame nobody edits the scene; that order is the
model's assumption. `DrawsAreRight` compares the built frame with `Where` the
objects are: by the local transforms, which no stage has looked at, wherever an
update ensures it.

No target builds `frame.cpp` (it reads fields of an earlier `Buffer`), and
`FrameBuilder::build()` has no definition; the stages are modelled in the order
their inputs and outputs give. `submit.cpp` holds an earlier version of the
baking and is not modelled.

### Buffer and Algo

`mem` is the caller's storage, `views` the buffers over it: roots that `wrap`
has laid on disjoint parts, and slices cut from any view, which share elements
and begin full. `held` is history: what each root was given, as a plain bounded
list. `spoiled` names the roots that lost that guarantee because a slice of
theirs was reset, and may write, or because an algorithm's output overran its
own input. `RootsHold` compares a root with its history.

`Algo` has one loop, `Loop`: the input's length is read before it, each element
when its turn comes, and the truncating generations (`next.h`, `pipeline.h`)
stop at a failed push where the others (`algo.h`, `ops.h`) go on and count.
`Eager`, `Apply`, `Truncating`, `Pipeline` and `Fused` are the generations;
`Passes` is the reference, whole sequences and one pass for each operation;
`Emitted` is what the pipeline makes of a single element. `Apply` has a
reference of its own, one operation after the other from the input, because it
does not compose them. `AlgorithmsAgree` compares them in every reachable state,
for every input and every output, root or slice; only where the output begins
among the elements still to be read is there nothing to compare, since no
document says what should happen.

### Filesystem

A path is a number, `Up` its parent; `node` is the disk. Each operation is the
sequence of Win32 calls the code makes: `pc` is the next one, `handle` the file
a thread has open with its sharing mode, `stack` the directories it is working
in, each with the entry its find stands at. The answers of Win32 (which opens
are refused, which errors are given) are written from its documentation and
are external. A call may also fail for reasons of the device: `Failures` names
which. A write that fails leaves any part of its bytes; `torn` remembers it.
The worker takes jobs in any order, runs one, and calls its callback.
`alone` and `before` are history: the call during which nothing else happened,
and the disk when it began. Left out: `exists()`, one query that changes
nothing, names and their conversions, and moves of the current directory.

### Paths

A path is a sequence of characters, of which one letter stands for all that are
not special. `text` is what a program makes step by step with the functions, so
that they are applied to each other's results; `PathLaws` relates them to each
other on every text so reached, joined with every text of up to two characters.
The functions touch no disk, so `FilesAndPaths` follows them on the empty disk
only, in the same run as the calls.

## The runs

| run | instance | what it shows |
|---|---|---|
| `ring` | 3 producers x 1 call, 2 cells, 1 clear, an observer, fair | `RingInv`, `NoDataRace`; `empty()` never lies (`EmptyMeansEmpty`); a refusal always has its reason (`RefusalExplained`); `try_pop` misses a finished push only behind an unpublished claim (`FalseOnlyBehindGap`); every value arrives once, whole and in order (`ImplementsChannel`), every call returns and the buffer is drained (`CallsReturnAndDrain`) |
| `queue` | 2 producers x 2 calls, 4 addresses, fair | `QueueInv` (no pointer to a deleted node is followed, nothing leaks), `FalseOnlyBehindGap`, `ImplementsChannel`, `AcceptedArrives` |
| `logger` | 2 clients x 2 messages and 1 wait, 2 starts, File sink whose writes may fail, fair | `LoggerInv`, `StopDrains`, `FileComplete`, `IdleMeansDelivered`; `WaiterReturns`, `PushedArrives`, `StopReturns` |
| `logger_stop_race` | `stop()` overlaps with clients | violated: the final drain ends at a client that has exchanged `tail` and not linked, and messages pushed before `stop()` are lost; "now everything is guaranteed drained" is not true then |
| `logger_second_consumer` | `flush()` by a client | violated: two threads in the single-consumer `try_pop` |
| `scene_update` | a chain of 3 nodes, 2 transforms, versions modulo 3; 4 objects, one without room, 6 primitives, 3 materials | two levels are always exact; from the third on, only edits above the parent are missed; an update settles its path; a frame draws what is in view where it was baked, which is where it is on two updated levels, in the order of the key (`FrameDrawsScene`) |
| `scene_grandchild` | the same chain | violated: an edit of the root never reaches the grandchild's matrix |
| `engine_frame` | 2 threads x 1 event, one of them of a key; 1 button, 2 packets, 2 slots, 2 calls of `run`, fair | `LevelsAgree`, `EdgesCoverLevels`, `CurrentFrameIsLast`; `ShutdownStops`, `PostedReachesFrame` |
| `engine_buttons` | 2 buttons, 2 packets | violated: a release reported together with movement, or with the other button, is lost, so "Button held state" is not what it says |
| `files` | 2 clients x 1 call and the worker, every tree of a directory and two entries, failing calls; texts of up to 4 characters | `ReadIsWhole`, `FilesInv` (no handle is left open), `AloneDoesAll` (each operation against a one-step reference definition), `CallbackOnce`; `PathLaws` |
| `window` | 4 messages, a queue of 4 slots, 2 listeners for each of 2 types, 3 subscriptions, 1 reset, publications 2 deep, fair | `WindowInv` (a window is deleted once and not pointed to then, the queue's slots, the close flag), `ImplementsChannel`, `CloseEndsLoop`, `PublishReaches` |
| `algorithms` | roots of 3 and 1 elements, 1 slice, 2 values, 6 lists of operations | `BufferInv`, `AlgorithmsAgree` |

The bounds are the smallest at which the interesting cases occur. Two cells and
three producers fill the buffer, contend for the last slot, reuse a slot while
the first value is still on its way, and let a claim overtake another. Four
addresses are a dummy being deleted, its successor, and a node in the hands of
each producer. Two starts are a restart with what the first left behind. Three
levels are where the transform protocol changes its behaviour, and versions
modulo 3 wrap after three edits; the frame's buffers hold three of the four
objects and four of the six primitives, and depths reach 3 steps where the key
has room for 1 and a word for 2. Two slots in the event queue are full after one
packet and one posted event, so releases get refused; with two posting threads a
finished event waits behind one that the other thread has not finished; a second
call of `run` starts on what the first left in the queue. A directory with two
entries, either of which may be a directory, has a listing that can be overtaken
and a removal with a level below; two clients and the worker are two calls that
collide while a third call's job is under way. Four characters are a drive, a
separator and a name, or two separators and a name. A window queue of four slots
holds three events, so the fourth message, the Close one too, can be refused and
can wrap the indices; two listeners and three subscriptions fill a list and
overflow it, and a second level of publication is a callback that publishes.
Storage of four elements in parts of three and one has a slice in the middle, an
output that is full at once, and inputs and outputs that overlap in every way.

No run uses symmetry. Deadlock is not checked for the logger, the engine, the
files and the window, whose callers may be done.

### Fairness

A thread inside a call is scheduled again (weak fairness of the steps of the
call), and the consumer keeps calling `try_pop`: `run()`, the frame loop and
the window's loop are loops. An executor runs what it was given ("will be
executed at some point", `async.h`). The mouse, a post, a message of the
window, a shutdown, a subscription and an application's call are never fair.
Beginning a call, `clear`, `flush`, a start, a stop, a destruction and a
spurious wakeup are never fair. Three assumptions are strong: a weak
compare-exchange that could succeed again and again does (`Claim`); whoever
waits for `idle_mutex` gets it if it is free again and again (`WaitLock`,
`RunNotify`); and a callback of the bus returns at each depth of nesting,
however often it publishes before. Without the first two the standard library
would be entitled to starve a thread, and so would nearly every program;
without the third a callback would be a loop of its own.

## What is proved

Every safety invariant and action property of the passing runs is a theorem for
every value of the constants (two of the logger's and one of the scene's under
hypotheses that the runs meet too, named below), and so are the three
refinements of `MPSCChannel`. The proofs have five patterns in common: an
invariant strengthened until every action keeps it; a lemma for each action;
history variables treated like any other; sequences compared element by
element; and induction over numbers in the form of a set that contains 0 and
every successor (`NatSetInduction`), because the library's induction theorems
take an operator as a parameter. Folds (`build_input`, `Update`) are unfolded
through that lemma from the definition of the community modules.

### The queues

`MPSCRingBufferProofs`, for every set of producers, every capacity above 1 and
all bounds:

- `TypeCorrect`, and `RingInvariant`: `RingInv` is inductive. It says which
  ticket belongs to whom (`Ownership`), that a slot of the window is `Ready`
  only for a ticket nobody is still writing (`ReadySlots`), that the consumer
  works on the oldest ticket, which is published (`ConsumerWindow`), and that
  what a thread has loaded is not newer than the counter it was loaded from
  (`StaleReads`). The last part is the point: the full test uses an old `head`,
  and an old `head` can only make it refuse. The slot arithmetic is in the
  lemmas `SlotDistinct` (two tickets less than a capacity apart have different
  slots) and `SlotReused`.
- `CounterSafety`, `RaceFreedom` (no data race on a cell's value) and
  `EmptyIsSound` (a `true` from `empty()` was true) follow from it.
- `RefusalIsExplained` and `MissOnlyBehindGap` need a second invariant,
  `CellInv`: who has written which cell, what a producer's loads tell of the
  moment they were made, and that a ticket of the window without an owner is
  `Ready`.
- `RingImplementsChannel`: the channel's queue is the window from `head` to
  `tail`, an entry's flag is `Ready`. `Claim` is `Accept`, `PublishCell` is
  `Publish`, the advance of `head` is `Deliver`; every other step leaves the
  queue alone.

`MPSCQueueProofs`, for every set of producers, every finite set of addresses and
all bounds:

- `ChainInvariant`: there is a list of nodes without repetition from `head` to
  `tail`, each of which links to the next or has a producer between `Exchange`
  and `Link` (`Order`), one for each gap (`Gaps`); what a producer has
  allocated and what the consumer is about to delete is not on the list
  (`Fresh`, `Consumer`); nothing else is allocated (`Accounted`). The list is an
  existential witness: each action keeps it, grows it at the tail or cuts off
  its head. That `chain`, which the module computes by a walk, is this list is
  a lemma (`QueueSafe` and the refinement need it).
- `QueueSafe` (no freed node is followed, none leaks), `MissOnlyBehindGap`, and
  `QueueImplementsChannel`, with addresses reused at once.

The SPSC queue, in the first part of `WindowProofs`, for every capacity and
every set of values: `QueueInvariant`, that is `Apart` and `Objects`. Neither is
inductive without the other: `Objects` needs the producer's slot to be free,
which `Apart` remembers from a load that may be old, and an old index is safe
because the other side only moves away from it (`AheadOfNext`).
`QueueImplementsChannel` adds that the objects alive are the channel's queue, in
order, around the end of the storage.

### The logger

`LoggerWorkerProofs`, for every finite set of clients and all bounds:

- For every choice of `Overlaps`: `TypeCorrect`, `LoggerInvariant` and
  `InFlightIsExact`: `in_flight` is the length of the queue, plus the clients
  between count and exchange, plus the message the worker holds, plus what
  `flush()` took. It needs `Locals`: a client past the accepting test and a
  worker with an event hold a message, and `start` never meets a live worker.
  The steps of the queue are the channel's, through the lemmas `AcceptQueue`,
  `PublishQueue` and `DeliverQueue`.
- For every choice of `Overlaps`: `MessagesKept` (a message whose `log()` has
  returned is queued, in the worker's hand or delivered) and from both
  `IdleIsDelivered`: `in_flight` is 0 only if nothing is queued or held, so
  whoever waits for idleness finds everything delivered.
- Where no client's call overlaps `stop()`: `StopInvariant`, and from it
  `StopIsDrained`. `FileIsComplete` needs the worker to be at rest at
  `StopJoin`, and that what was written before a restart is a beginning of what
  is kept now, so that a failed or torn write still leaves a beginning. Where no
  client calls `flush()`: `OneConsumer`. The hypotheses `"stop" \notin Overlaps`
  and `"flush" \notin Overlaps` are what the passing run has; the runs
  `logger_stop_race` and `logger_second_consumer` show that without them the
  statements are false.

### The engine

`EngineFrameProofs`, for every set of threads and of buttons, every capacity and
all bounds:

- `EngineInvariant`: besides the types, `MessageInv` and `LastFlag` (the last
  packet that changes a button says what is true of it), `HandInv` (what a
  thread is about to post is still true), `FrameInv`, `LateInv`, and
  `LevelsAgree` itself, with all four excuses of `lost`. It is the fold that
  makes it hard: what a list of events tells of a control is what its last event
  about it says (`ToldConcat`, `BuildFacts`), so a drain, which moves events
  from the queue to the frame, changes nothing, and an event at the end of the
  queue decides.
- `TypeCorrect`, `LevelsAlwaysAgree`, `StopsAfterFrame` follow;
  `EdgesAreHonest` is the action property `EdgesCoverLevels`, from `BuildFacts`.

### Bus and window

`WindowProofs` first proves the bus alone, for every set of types, any number of
listeners and any depth of nesting: `BusInv` is kept by every operation
(`StepInv`). Its heart is `Reached`: a publication no reset has cut has called
exactly the first listeners of its list, at every level of the stack, because a
list only grows behind them. `ReturnReaches` draws the conclusion for the
publication that returns, `OnlyReturnShortens` that nothing else leaves the
stack.

Then the window, for every set of event types, capacity and all bounds, from the
queue's and the bus's lemmas (the queue's hypothesis `ConstantsOK` is discharged
by `Window`'s assumptions; by `Parts` a step of the window is a step or a
stutter of each part):

- `WindowSafe`: `WindowInv`. The strengthening is `Life`, which ties the owner's
  place, the pointers to the `NativeWindow`, how often it was deleted and the
  loop's place to each other, and `CloseInv`: wherever a Close event is on its
  way through the queue or has come out of it, the flag is set.
- `BusReaches`: `PublishReaches`, an action property.
- `WindowQueueIsChannel`: the queue inside the window still implements the
  channel, from the queue's own theorem.

### Scene and frame

`RenderFrameProofs`, for every finite acyclic hierarchy, every set of local
transforms and every modulus of the versions above 1:

- The hierarchy comes first: `path` is defined by recursion along `Parent`, and
  is what it should be because every set of nodes has one whose parent is not in
  it (`PathIs`, `PathFacts`).
- `CacheInvariant`: each version differs from the one its reader keeps exactly
  by the edits since (`Ahead`, `Counted`), of which there are fewer than the
  modulus, so that equal versions mean that no edit was missed although the
  counters wrap; and `world[n]` agrees with the locals on its path wherever
  `unseen[n]` does not excuse it (`Reflects`). An update is the fold of
  `UpdateOne` from the root, which leaves every node of the path fresh and keeps
  the invariant at each level (`RefreshedIs`, `UpdateAll`).
- From it `TypeCorrect`, `UpdateEnsuresRootsAndChildren`,
  `OnlyEditsFromAboveAreMissed` and `UpdatesSettle`.
- `FramesKeepTheScene`: a frame is a stutter of the transforms, so all of this
  holds during frames, and with `BakeInv` it gives `BakesAreTrue`: until the
  frame is over, an object on the first two levels that found room and has no
  update outstanding is where its node is. That is the first half of
  `FrameDrawsScene`.
- `FramesDrawTheScene` is the whole of it, for any primitives, materials,
  frustum and rooms. `StageInv` says what each stage has left: `visible` is what
  is in view (`CullStage`), `draws` holds each of its first entries once and in
  the order of the key (`SortStage`), `passes` is one pass over all of them, or
  none (`BinStage`). A sort gives each element the number of those before it as
  its place, and `RankFacts` shows by induction that this numbers a finite set
  without gaps or collisions; `InOrder`, which lists indices, rests on the same
  lemma. That the numeric order of the packed key is the order of pipeline,
  material and depth, field by field, as long as the depth fits its field, is
  `Digits` and `KeyOrder`. The hypothesis is that `PassRoom` is above 0, because
  a frame without room for its one pass draws nothing. Where an object is on a
  deeper level or has not been updated, `Where` is what the cache says
  (`scene_grandchild` is the difference).

### The files

`FilesAndPathsProofs`, for every tree of paths, every set of clients, every
choice of the Win32 calls that may fail, and all bounds:

- `prefixes` is defined by recursion along `Up`, and is what it should be
  because every set of paths has one whose parent is not in it (`NoLoops`). From
  it come the facts of the way to a path and of the subtree under one: under an
  absent path nothing exists (`NothingUnder`), and a change of one path keeps the
  tree a tree if nothing is left below it (`SetNode`).
- `FilesInd` is inductive. `LocalsOK` ties each thread's place to its request,
  to what it has open and to the directories it is in; `DiskOK` says that the
  disk is a tree, that what is open is a file and is open once if it is written
  (`HandlesOK`), and that a file nobody is writing is whole or torn (`Whole`);
  `CallsOK` says of each asynchronous call that it has been answered, or waits,
  or is under way, and never two of these. The share modes keep `HandlesOK`, and
  without `HandlesOK` a removal or a write could pull the file from under a
  reader. `FilesSafe`, `ReadsWhole` and `CallsAnsweredOnce` follow; the last is
  the safety half of `CallbackOnce`.
- `AloneDoes` needs a second invariant, `AloneOK`: an undisturbed call at any of
  its steps has done to the disk it began on exactly what `Progress` says. For a
  recursive removal (`Clearing`) that is: along the stack of directories,
  everything before the entry each one has come to is gone, the directories
  themselves are there, and outside the subtree nothing has changed. For a
  creation (`Making`) the first directories on the way exist, unless one of them
  was a file, in which case nothing has changed; for a listing (`Listing`) the
  names so far are all those up to the current one. `AloneStep` shows, operation
  by operation, that a step goes on with `Progress` or returns what `Does` says.
- `PathsLawful` states `PathLaws` of every text the functions make, of any
  length and over any alphabet, joined with any two paths of any length. Of
  `is_absolute` it says what is true: `normalize` keeps a drive and nothing else
  that makes a path absolute, and a parent is relative to an absolute path's
  exactly at a server's name (`NamesServer`) or a drive without a root.
  `Collapsed`, the loop of `normalize`, is a function over `0 .. Len(path)`,
  which `CollapsedAppend` determines one character at a time. By induction over
  texts, fronts that collapse alike collapse alike with the same text after them
  (`SameFront`); backs that do, with the same text before them (`SameBack`); and
  collapsing twice is collapsing once. So only what `join` puts between two
  paths matters, and that collapses like the first, a separator and the second
  (`JoinCollapsed`): hence the order of joining does not matter. A path is its
  parent, a separator and its name unless the parent is a root (`Cut`); the
  separator that a bare parent leaves out is one that `normalize` would remove
  too (`LastSeparatorGoes`), except after a drive alone, and there the parent
  keeps it.

### The buffers and the algorithms

`AlgoProofs`, for every storage, every choice of disjoint roots, all names of
slices, elements, functions and filters, and all lists of operations:

- `Each`, `Passes`, `Loop` and `Apply` are functions by recursion over
  `0 .. n`. Such a function exists and is unique (`RecursionExists`,
  `SameRecursion`), so each satisfies its equations (`EachIs`, `PassesIs`,
  `LoopIs`, `ApplyIs`), and induction over the lists gives the rest.
- `Fusion`: taking each element through all operations makes what one pass for
  each operation makes. This is what the pipelines rely on; the pairs and
  triples that `|` makes one operation of are `FusedAgrees`.
- `PushesOf(s, t, o, rs, lazy, V)` says that `t` is `s` after the elements `rs`
  were pushed through `o`, by a loop that stops at the first failure if `lazy`.
  `LoopPushes` is the induction over the elements a loop has reached: as long as
  its output does not begin among the elements still to be read, none is
  overwritten before its turn (`StillThere`), and the whole loop is `PushesOf`
  what its input emits. `PushesTwice` puts the loops of `apply` together, and
  `RanPushes` says it of every way to run a list.
- `BufferInd` is inductive. It adds to `BufferInv` where the roots are and that
  a slice with room reaches only `spoiled` roots. Without this a push through a
  slice could change what a root counts: a slice begins full, only a reset gives
  it room, and a reset spoils what it reaches. `BufferSafe` follows, and, since
  `RunAgrees` needs sound views and nothing more, `AlgorithmsSafe`.

### Assumptions

They are those named in the modules: capacity above 1 for the ring (the code's
`static_assert`) and above 0 for the window's queue; finitely many clients;
natural bounds (`BoundAssumption`); `NULL` is no address and `NoEvent` no event
(`NoEventAssumption`), as results of `try_pop` are distinct from "none" in the
code; finitely many nodes; a positive range for each field of the sort key (they
are powers of 2 in the code); roots that lie in the storage and apart from each
other, a storage of less than half of 2^32 elements, so that the sum in the
assertion of `slice` does not wrap (`StorageAssumption`), and lists of at most
three operations in the orders that `|` accepts (`ListsAssumption`); a hierarchy
without cycles (`AcyclicAssumption`), in which the code's recursion to the
parent would not return; letters that are not special characters
(`LetterAssumption`); and paths that are longer than their parent's
(`PathAssumption`, the numbers standing for them increase downwards). TLC
evaluates them on every run.

### Model-checked only

- Liveness (`CallsReturnAndDrain`, `AcceptedArrives`, `WaiterReturns`,
  `PushedArrives`, `StopReturns`, `ShutdownStops`, `PostedReachesFrame`,
  `CloseEndsLoop` and `CallbackOnce`): fairness and `ENABLED` are beyond the proof
  system.

## What the models show about the code

- `update_world_transform` leaves a grandchild stale: a node recomputed only
  because its parent changed keeps its `world_version`, so its children see
  nothing new (`scene_grandchild`). Roots and their children are always exact.
- `LoggerWorker::stop` ends its drain at a concurrent `push` that has swapped
  the tail and not linked its node; finished messages behind it are lost
  (`logger_stop_race`).
- `Logger::flush` is a second consumer of a single-consumer queue
  (`logger_second_consumer`), and takes messages that stay counted for ever.
- `stop()` ignores whether its file was written: after it the log may be missing,
  of an earlier stop, or cut short. `FileComplete` says that it is complete if the
  write succeeded, and otherwise a beginning of what was logged.
- The ring's `try_push` may refuse although the buffer was not full at any
  moment of the call, and its `try_pop` may say "empty" while finished pushes
  wait behind an unpublished one. `RefusalExplained` and `FalseOnlyBehindGap`
  say exactly when.
- `ri_process_input` makes at most one event of a packet, so a button can stay
  down after its release (`engine_buttons`). A full event queue does the same, and
  so does a packet for which `GetRawInputData` fails.
- `run()` sets `running`, so a `shutdown()` before it is forgotten.
- Only the mouse is registered for raw input: key events come from threads that
  post them, never from the keyboard branch of `ri_process_input`.
- A window's events are dropped when its queue is full, the Close event too;
  the loop still ends, because `should_close` is set first and apart from it.
- If `CreateWindowExA` fails after `WM_NCCREATE`, the window is deleted by
  `WM_NCDESTROY` and again by `w32_create_window`.
- A callback that resets the bus ends the publication that called it, and the
  ones around it; one that subscribes is reached by the publication under way.
- A slice begins full, and only its `reset()` opens it; from then on its pushes
  overwrite elements its parent still counts.
- The truncating algorithms count one lost element however many there were, the
  eager ones all of them; otherwise the four generations agree, but for
  `algo::apply`. It runs each operation from the input (`algo.h:143`), so that
  `+1` and `*2` push 2, 3, 4 and then 2, 4, 6, where
  `algo_test_1.cpp` (`MultipleOpsExecuteSequentially`) expects 4, 6, 8. The
  property follows the code.
- `normalize` turns `\\server` into `\server`, which is no longer absolute. The
  parent of `\\server` is `\`, which is not absolute either.
- An object that finds no room in `bake_transforms_v2` leaves its primitives
  reading memory behind the buffer, and a primitive too far away for 32 bits of
  1/1000 is sorted anywhere.
- A `FindNextFileW` that fails ends a listing as if it were complete, and
  `create_directories` reports success when a file has that name.

## Not modelled

- The linked queue's pooled copy (`mpsc_queue copy.h`) is built nowhere.
- `empty()` of the linked and the SPSC queue are reads that only their consumer
  makes; `clear()` of the SPSC queue has no caller, and no document says when it
  may be called. On another thread than the consumer, `MPSCQueue::empty()` would
  follow a `head` that may be deleted.
- The ring's tickets are unbounded numbers in the model: they wrap after 2^64
  pushes, where the slot sequence jumps unless the capacity is a power of two.
  In the same way the sum of a slice's start and length is taken in 32 bits in
  the code, but callers ask for no more than there is.
- Memory: an allocation that fails ends the process, and the linked queue has no
  limit of its own.
- `set_callback` while the worker calls the old callback: the model has the two
  steps, no run allows the overlap with a property about it.
- A logger that is started again does not accept messages until it has been
  built anew; the model follows the code.
- The filesystem's `exists()`, `executable_path`, the current directory and the
  conversions between UTF-8 and UTF-16; sizes above 4 GiB, which are cut to 32
  bits; and the moment at which `GetLastError` is asked.
- The reductions of `core/algo` are folds that change nothing; `wrap_existing`
  and the accessors of `Buffer` have no steps of their own.
- `scene/submit.cpp` and the header's other passes of the render frame are
  earlier or unfinished versions that no target builds.
- Threading: one-to-one wrappers of `std::thread`, used by their test only.
- Math is floating point; memory and time are thin wrappers that keep no state;
  results are a value type without steps.
