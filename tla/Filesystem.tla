----------------------------- MODULE Filesystem -----------------------------
(***************************************************************************)
(* wz::fs: reads, writes, listings and removals as the Win32 calls they    *)
(* are made of, by several threads at once, on a disk that may fail; and   *)
(* their asynchronous forms, which a worker of the registered executor     *)
(* runs.  A path is a number, larger than its parent's; Up gives the       *)
(* parent, and Cwd is the directory that holds the tree.                   *)
(***************************************************************************)
EXTENDS Naturals, Sequences, FiniteSets

CONSTANTS Client,   \* the threads that call wz::fs
          Worker,   \* the executor's thread
          Path, Cwd, Up,
          Old, New, \* what the files hold at first, and what is written
          Failures, \* the Win32 calls that may fail for reasons of the device
          MaxCalls  \* bound: calls a client makes

ASSUME WorkerAssumption == Worker \notin Client
ASSUME PathAssumption ==
    /\ Path \subseteq Nat \ {0} /\ Cwd = 0
    /\ Up \in [Path -> Path \cup {Cwd}] /\ \A p \in Path : Up[p] < p
ASSUME CallsAssumption == MaxCalls \in Nat

Thread == Client \cup {Worker}

Bytes(d) == <<d, d>>   \* long enough for a part of it to be written
Absent == [kind |-> "absent", data |-> <<>>]
Dir == [kind |-> "dir", data |-> <<>>]
File(bytes) == [kind |-> "file", data |-> bytes]
Contents == {<<>>, <<New>>, Bytes(New), Bytes(Old)}
Node == {Absent, Dir} \cup {File(bytes) : bytes \in Contents}

NoHandle == [path |-> Cwd, access |-> "none"]

\* op and its arguments; flag is recursive or overwrite.
Requests == {r \in [op : {"read", "size", "write", "list", "mkdirs", "remove", "rmdir"},
                     path : Path, flag : BOOLEAN] : r.op \in {"write", "rmdir"} \/ ~ r.flag}
NoRequest == [op |-> "none", path |-> Cwd, flag |-> FALSE]

VARIABLES node,     \* the disk
          torn,     \* history: the files whose last write failed halfway
          handle,   \* the file each thread has open
          stack,    \* the directories each thread is working in, innermost last
          pc, arg, calls,
          got,      \* the bytes read
          entries,  \* the names listed
          ret,      \* what the last call returned
          executor, \* whether one is registered
          jobs,     \* posted and not begun
          job,      \* what the worker is running, or NoJob
          called,   \* how often each asynchronous call's callback has run
          asked,    \* the asynchronous calls made
          alone,    \* history: the thread whose call nothing has disturbed, if any
          before    \* history: the disk when that call began

disk == <<node, torn>>
locals == <<stack, got, entries>>
async == <<executor, jobs, job, called, asked>>
history == <<alone, before>>
vars == <<disk, handle, locals, pc, arg, calls, ret, async, history>>

JobId == Client \X (1 .. MaxCalls)
NoJob == [id |-> <<Worker, 0>>, request |-> NoRequest]

Exists(p) == node[p].kind # "absent"
IsDir(p) == p = Cwd \/ node[p].kind = "dir"
Children(p) == {c \in Path : Up[c] = p}
Empty(p) == \A c \in Children(p) : ~ Exists(c)

\* The paths on the way to p, p included.
prefixes[p \in Path] ==
    IF Up[p] = Cwd THEN <<p>> ELSE Append(prefixes[Up[p]], p)

Under(p) == {c \in Path : \E i \in DOMAIN prefixes[c] : prefixes[c][i] = p}

WellFormed(n) == \A p \in Path : n[p] # Absent => Up[p] = Cwd \/ n[Up[p]] = Dir

\* The tree as earlier calls may have left it.
Init ==
    /\ node \in {n \in [Path -> {Absent, Dir, File(Bytes(Old))}] : WellFormed(n)}
    /\ torn = {}
    /\ handle = [t \in Thread |-> NoHandle]
    /\ stack = [t \in Thread |-> <<>>]
    /\ pc = [t \in Thread |-> "idle"]
    /\ arg = [t \in Thread |-> NoRequest]
    /\ calls = [t \in Client |-> 0]
    /\ got = [t \in Thread |-> <<>>]
    /\ entries = [t \in Thread |-> {}]
    /\ ret = [t \in Thread |-> "None"]
    /\ executor = FALSE /\ jobs = {} /\ job = NoJob
    /\ called = [j \in JobId |-> 0] /\ asked = {}
    /\ alone = {} /\ before = <<>>

-----------------------------------------------------------------------------
(* Win32, as far as the calls below depend on it *)

\* A slip: others may read and write meanwhile.
ShareMode_All(access) == {"read", "write"}

\* dwShareMode of each of the two ways a file is opened.
ShareMode(access) == IF access = "read" THEN {"read"} ELSE {}

InUse(p) == \E u \in Thread : handle[u] # NoHandle /\ handle[u].path = p
Refused(p, access) ==
    \E u \in Thread :
        /\ handle[u] # NoHandle /\ handle[u].path = p
        /\ access \notin ShareMode(handle[u].access) \/ handle[u].access \notin ShareMode(access)

Missing(p) == IF IsDir(Up[p]) THEN "FILE_NOT_FOUND" ELSE "PATH_NOT_FOUND"

OpenExisting(p, access) ==
    CASE ~ Exists(p) -> Missing(p)
      [] Exists(p) /\ IsDir(p) -> "ACCESS_DENIED"
      [] OTHER -> IF Refused(p, access) THEN "SHARING_VIOLATION" ELSE "ok"

CreateAlways(p) ==
    IF ~ Exists(p) /\ IsDir(Up[p]) THEN "ok" ELSE OpenExisting(p, "write")

CreateNew(p) ==
    CASE Exists(p) -> "FILE_EXISTS"
      [] ~ Exists(p) /\ IsDir(Up[p]) -> "ok"
      [] OTHER -> "PATH_NOT_FOUND"

DeleteFile(p) ==
    CASE ~ Exists(p) -> Missing(p)
      [] Exists(p) /\ IsDir(p) -> "ACCESS_DENIED"
      [] OTHER -> IF InUse(p) THEN "SHARING_VIOLATION" ELSE "ok"

CreateDirectory(p) ==
    CASE Exists(p) -> "ALREADY_EXISTS"
      [] ~ Exists(p) /\ IsDir(Up[p]) -> "ok"
      [] OTHER -> "PATH_NOT_FOUND"

RemoveDirectory(p) ==
    CASE ~ Exists(p) -> Missing(p)
      [] Exists(p) /\ ~ IsDir(p) -> "DIRECTORY"
      [] OTHER -> IF Empty(p) THEN "ok" ELSE "DIR_NOT_EMPTY"

FindFirst(p) ==
    CASE ~ Exists(p) -> "PATH_NOT_FOUND"
      [] Exists(p) /\ ~ IsDir(p) -> "DIRECTORY"
      [] OTHER -> "ok"

\* What FindNextFile can return after the name c of directory p, if anything.
Nexts(p, c) ==
    LET rest == {d \in Children(p) : d > c /\ Exists(d)}
    IN  {d \in rest : \A x \in rest : d <= x}

from_win32(code) ==
    CASE code = "ok" -> "None"
      [] code \in {"FILE_NOT_FOUND", "PATH_NOT_FOUND"} -> "NotFound"
      [] code = "ACCESS_DENIED" -> "PermissionDenied"
      [] code = "ALREADY_EXISTS" -> "AlreadyExists"
      [] OTHER -> "IOError"

-----------------------------------------------------------------------------
(* Slips: what a definition below would be with one plausible mistake in it. *)
(* None is part of the specification; each breaks one of its properties.     *)

\* An error returns without CloseHandle.
ReadSize_Leaks(t) ==
    /\ pc[t] = "readSize"
    /\ pc' = [pc EXCEPT ![t] = IF "size" \in Failures THEN "idle" ELSE "readFile"]
    /\ UNCHANGED <<disk, handle, locals, arg, ret, history>>

\* A directory that exists already ends the creation with success.
MkDir_StopsAtExisting(t) ==
    /\ pc[t] = "mkdir"
    /\ LET way == prefixes[arg[t].path]
           p == way[Len(stack[t]) + 1]
           code == CreateDirectory(p)
           last == p = arg[t].path \/ code = "ALREADY_EXISTS"
       IN  /\ node' = IF code = "ok" THEN [node EXCEPT ![p] = Dir] ELSE node
           /\ pc' = [pc EXCEPT ![t] = IF last THEN "idle" ELSE "mkdir"]
           /\ stack' = [stack EXCEPT ![t] = IF last THEN <<>> ELSE Append(@, [dir |-> p, at |-> Cwd])]
           /\ ret' = [ret EXCEPT ![t] = "None"]
    /\ UNCHANGED <<torn, handle, got, entries, arg, history>>

\* The callback is called with a result only.
RunCallback_OnSuccess ==
    /\ job # NoJob
    /\ pc[Worker] = "idle"
    /\ called' = [called EXCEPT ![job.id] = @ + IF ret[Worker] = "None" THEN 1 ELSE 0]
    /\ job' = NoJob
    /\ UNCHANGED <<disk, handle, locals, pc, arg, calls, ret, executor, jobs, asked, history>>

-----------------------------------------------------------------------------
(* A call begins, and a call returns *)

Running == {t \in Thread : pc[t] # "idle"}

\* The first step of each operation.
Entry(r) ==
    CASE r.op = "read" -> "readOpen"
      [] r.op = "size" -> "sizeOpen"
      [] r.op = "write" -> "writeOpen"
      [] r.op = "list" -> "listFirst"
      [] r.op = "mkdirs" -> "mkdir"
      [] r.op = "remove" -> "remove"
      [] r.op = "rmdir" /\ r.flag -> "rmFirst"
      [] r.op = "rmdir" /\ ~ r.flag -> "rmPlain"

Begin(t, r) ==
    /\ pc[t] = "idle"
    /\ pc' = [pc EXCEPT ![t] = Entry(r)]
    /\ arg' = [arg EXCEPT ![t] = r]
    /\ got' = [got EXCEPT ![t] = <<>>]
    /\ entries' = [entries EXCEPT ![t] = {}]
    /\ alone' = IF Running = {} THEN {t} ELSE {}
    /\ before' = IF Running = {} THEN node ELSE <<>>
    /\ UNCHANGED <<disk, handle, stack, ret>>

\* Return err, with whatever handles the operation has closed on its way.
Return(t, err) ==
    /\ pc' = [pc EXCEPT ![t] = "idle"]
    /\ ret' = [ret EXCEPT ![t] = err]
    /\ arg' = [arg EXCEPT ![t] = NoRequest]
    /\ before' = <<>>

CloseHandle(t) == handle' = [handle EXCEPT ![t] = NoHandle]
FindClose(t) == stack' = [stack EXCEPT ![t] = <<>>]

Goto(t, where) ==
    /\ pc' = [pc EXCEPT ![t] = where]
    /\ UNCHANGED <<ret, arg, before>>

\* The device fails t's call to w, which disturbs t.
DeviceFails(t, w) == w \in Failures /\ alone' = alone \ {t}

-----------------------------------------------------------------------------
(* Files *)

Open(t, access, code) ==
    /\ handle' = IF code = "ok"
                 THEN [handle EXCEPT ![t] = [path |-> arg[t].path, access |-> access]]
                 ELSE handle
    /\ code # "ok" => Return(t, from_win32(code))

ReadOpen(t) ==
    /\ pc[t] = "readOpen"
    /\ LET code == OpenExisting(arg[t].path, "read")
       IN  Open(t, "read", code) /\ (code = "ok" => Goto(t, "readSize"))
    /\ UNCHANGED <<disk, locals, alone>>

ReadSize(t) ==
    /\ pc[t] = "readSize"
    /\ \/ Goto(t, "readFile") /\ UNCHANGED <<handle, alone>>
       \/ DeviceFails(t, "size") /\ CloseHandle(t) /\ Return(t, "IOError")
    /\ UNCHANGED <<disk, locals>>

ReadFile(t) ==
    /\ pc[t] = "readFile"
    /\ CloseHandle(t)
    /\ \/ /\ got' = [got EXCEPT ![t] = node[arg[t].path].data]
          /\ Return(t, "None")
          /\ alone' = alone
       \/ DeviceFails(t, "read") /\ Return(t, "IOError") /\ got' = got
    /\ UNCHANGED <<disk, stack, entries>>

\* CREATE_ALWAYS empties the file before anything is written.
WriteOpen(t) ==
    /\ pc[t] = "writeOpen"
    /\ LET p == arg[t].path
           code == IF arg[t].flag THEN CreateAlways(p) ELSE CreateNew(p)
       IN  /\ Open(t, "write", code)
           /\ IF code = "ok"
              THEN Goto(t, "writeFile") /\ node' = [node EXCEPT ![p] = File(<<>>)]
                                       /\ torn' = torn \ {p}
              ELSE UNCHANGED disk
    /\ UNCHANGED <<locals, alone>>

\* A failed write may have written a part.
WriteFile(t) ==
    /\ pc[t] = "writeFile"
    /\ CloseHandle(t)
    /\ LET p == arg[t].path
       IN  \/ /\ node' = [node EXCEPT ![p] = File(Bytes(New))]
              /\ Return(t, "None")
              /\ UNCHANGED <<torn, alone>>
           \/ /\ DeviceFails(t, "write")
              /\ \E n \in 0 .. 1 : node' = [node EXCEPT ![p] = File(SubSeq(Bytes(New), 1, n))]
              /\ torn' = torn \cup {p}
              /\ Return(t, "IOError")
    /\ UNCHANGED locals

SizeOpen(t) ==
    /\ pc[t] = "sizeOpen"
    /\ LET code == OpenExisting(arg[t].path, "read")
       IN  Open(t, "read", code) /\ (code = "ok" => Goto(t, "sizeGet"))
    /\ UNCHANGED <<disk, locals, alone>>

SizeGet(t) ==
    /\ pc[t] = "sizeGet"
    /\ CloseHandle(t)
    /\ \/ Return(t, "None") /\ alone' = alone
       \/ DeviceFails(t, "size") /\ Return(t, "IOError")
    /\ UNCHANGED <<disk, locals>>

Remove(t) ==
    /\ pc[t] = "remove"
    /\ LET code == DeleteFile(arg[t].path)
       IN  /\ node' = IF code = "ok" THEN [node EXCEPT ![arg[t].path] = Absent] ELSE node
           /\ torn' = IF code = "ok" THEN torn \ {arg[t].path} ELSE torn
           /\ Return(t, from_win32(code))
    /\ UNCHANGED <<handle, locals, alone>>

-----------------------------------------------------------------------------
(* Directories *)

InDir(p, at) == [dir |-> p, at |-> at]
Top(t) == stack[t][Len(stack[t])]
Rest(t) == SubSeq(stack[t], 1, Len(stack[t]) - 1)

ListFirst(t) ==
    /\ pc[t] = "listFirst"
    /\ LET code == FindFirst(arg[t].path)
       IN  IF code = "ok"
           THEN stack' = [stack EXCEPT ![t] = <<InDir(arg[t].path, Cwd)>>] /\ Goto(t, "listNext")
           ELSE stack' = stack /\ Return(t, from_win32(code))
    /\ UNCHANGED <<disk, handle, got, entries, alone>>

\* A FindNextFile that fails ends the listing like one that has no more files.
ListNext(t) ==
    /\ pc[t] = "listNext"
    /\ \/ \E c \in Nexts(Top(t).dir, Top(t).at) :
             /\ stack' = [stack EXCEPT ![t] = <<InDir(Top(t).dir, c)>>]
             /\ entries' = [entries EXCEPT ![t] = @ \cup {c}]
             /\ Goto(t, "listNext")
             /\ alone' = alone
       \/ /\ IF Nexts(Top(t).dir, Top(t).at) = {} THEN alone' = alone ELSE DeviceFails(t, "find")
          /\ FindClose(t)
          /\ Return(t, "None")
          /\ entries' = entries
    /\ UNCHANGED <<disk, handle, got>>

\* CreateDirectoryW on every prefix, whatever it answers, and on the path itself.
\* stack holds the prefixes tried.
MkDir(t) ==
    /\ pc[t] = "mkdir"
    /\ LET way == prefixes[arg[t].path]
           p == way[Len(stack[t]) + 1]
           code == CreateDirectory(p)
       IN  /\ node' = IF code = "ok" THEN [node EXCEPT ![p] = Dir] ELSE node
           /\ IF p # arg[t].path
              THEN Goto(t, "mkdir") /\ stack' = [stack EXCEPT ![t] = Append(@, InDir(p, Cwd))]
              ELSE /\ FindClose(t)
                   /\ Return(t, IF code = "ALREADY_EXISTS" THEN "None" ELSE from_win32(code))
    /\ UNCHANGED <<torn, handle, got, entries, alone>>

RmPlain(t) ==
    /\ pc[t] = "rmPlain"
    /\ LET code == RemoveDirectory(arg[t].path)
       IN  /\ node' = IF code = "ok" THEN [node EXCEPT ![arg[t].path] = Absent] ELSE node
           /\ Return(t, from_win32(code))
    /\ UNCHANGED <<torn, handle, locals, alone>>

\* Every error leaves the recursion through all its levels, which close their
\* finds.
RmFail(t, code) ==
    /\ FindClose(t)
    /\ Return(t, from_win32(code))

RmEnter(t, p) ==
    LET code == FindFirst(p)
    IN  IF code = "ok"
        THEN stack' = [stack EXCEPT ![t] = Append(@, InDir(p, Cwd))] /\ Goto(t, "rmNext")
        ELSE RmFail(t, code)

RmFirst(t) ==
    /\ pc[t] = "rmFirst"
    /\ RmEnter(t, arg[t].path)
    /\ UNCHANGED <<disk, handle, got, entries, alone>>

\* FindNextFile says what the next entry is; it may be something else when it is
\* removed.
RmNext(t) ==
    /\ pc[t] = "rmNext"
    /\ LET next == Nexts(Top(t).dir, Top(t).at)
       IN  \/ \E c \in next :
                /\ stack' = [stack EXCEPT ![t] = Append(Rest(t), InDir(Top(t).dir, c))]
                /\ Goto(t, IF IsDir(c) THEN "rmDir" ELSE "rmFile")
                /\ alone' = alone
           \/ /\ IF next = {} THEN alone' = alone ELSE DeviceFails(t, "find")
              /\ Goto(t, "rmSelf")
              /\ stack' = stack
    /\ UNCHANGED <<disk, handle, got, entries>>

RmDir(t) ==
    /\ pc[t] = "rmDir"
    /\ RmEnter(t, Top(t).at)
    /\ UNCHANGED <<disk, handle, got, entries, alone>>

RmFile(t) ==
    /\ pc[t] = "rmFile"
    /\ LET p == Top(t).at
           code == DeleteFile(p)
       IN  IF code = "ok"
           THEN /\ node' = [node EXCEPT ![p] = Absent] /\ torn' = torn \ {p}
                /\ Goto(t, "rmNext") /\ stack' = stack
           ELSE RmFail(t, code) /\ UNCHANGED disk
    /\ UNCHANGED <<handle, got, entries, alone>>

RmSelf(t) ==
    /\ pc[t] = "rmSelf"
    /\ LET p == Top(t).dir
           code == RemoveDirectory(p)
       IN  IF code = "ok"
           THEN /\ node' = [node EXCEPT ![p] = Absent]
                /\ stack' = [stack EXCEPT ![t] = Rest(t)]
                /\ IF Rest(t) = <<>> THEN Return(t, "None") ELSE Goto(t, "rmNext")
           ELSE RmFail(t, code) /\ node' = node
    /\ UNCHANGED <<torn, handle, got, entries, alone>>

Step(t) ==
    \/ ReadOpen(t) \/ ReadSize(t) \/ ReadFile(t)
    \/ WriteOpen(t) \/ WriteFile(t)
    \/ SizeOpen(t) \/ SizeGet(t)
    \/ Remove(t)
    \/ ListFirst(t) \/ ListNext(t)
    \/ MkDir(t)
    \/ RmPlain(t) \/ RmFirst(t) \/ RmNext(t) \/ RmDir(t) \/ RmFile(t) \/ RmSelf(t)

-----------------------------------------------------------------------------
(* Who calls *)

Call(t, r) ==
    /\ calls[t] < MaxCalls
    /\ calls' = [calls EXCEPT ![t] = @ + 1]
    /\ Begin(t, r)
    /\ UNCHANGED async

\* async_read_file and async_write_file: without an executor the callback hears
\* of an error at once.
AsyncCall(t, r) ==
    /\ pc[t] = "idle"
    /\ calls[t] < MaxCalls
    /\ calls' = [calls EXCEPT ![t] = @ + 1]
    /\ LET id == <<t, calls[t] + 1>>
       IN  /\ asked' = asked \cup {id}
           /\ IF executor
              THEN jobs' = jobs \cup {[id |-> id, request |-> r]} /\ called' = called
              ELSE called' = [called EXCEPT ![id] = @ + 1] /\ jobs' = jobs
    /\ UNCHANGED <<disk, handle, locals, pc, arg, ret, executor, job, history>>

\* A pointer, or nullptr; jobs already posted stay with their executor.
SetExecutor(e) ==
    /\ executor' = e
    /\ UNCHANGED <<disk, handle, locals, pc, arg, calls, ret, jobs, job, called, asked, history>>

\* An executor promises no order.
TakeJob(j) ==
    /\ job = NoJob
    /\ j \in jobs
    /\ jobs' = jobs \ {j}
    /\ job' = j
    /\ Begin(Worker, j.request)
    /\ UNCHANGED <<calls, executor, called, asked>>

\* The job's last statement hands the result to the callback.
RunCallback ==
    /\ job # NoJob
    /\ pc[Worker] = "idle"
    /\ called' = [called EXCEPT ![job.id] = @ + 1]
    /\ job' = NoJob
    /\ UNCHANGED <<disk, handle, locals, pc, arg, calls, ret, executor, jobs, asked, history>>

AsyncRequests == {r \in Requests : r.op \in {"read", "write"}}

Next ==
    \/ \E t \in Client :
          \/ \E r \in Requests : Call(t, r)
          \/ \E r \in AsyncRequests : AsyncCall(t, r)
    \/ \E t \in Thread : Step(t) /\ UNCHANGED <<calls, async>>
    \/ \E e \in BOOLEAN : SetExecutor(e)
    \/ \E j \in jobs : TakeJob(j)
    \/ RunCallback

\* A call under way goes on, and the executor keeps its promise to run what it
\* was given.
Fairness ==
    /\ \A t \in Thread : WF_vars(Step(t) /\ UNCHANGED <<calls, async>>)
    /\ WF_vars((\E j \in jobs : TakeJob(j)) \/ RunCallback)

Spec == Init /\ [][Next]_vars /\ Fairness

-----------------------------------------------------------------------------
(* Properties *)

TypeOK ==
    /\ node \in [Path -> Node] /\ WellFormed(node)
    /\ torn \subseteq {p \in Path : node[p].kind = "file"}
    /\ handle \in [Thread -> {NoHandle} \cup [path : Path, access : {"read", "write"}]]
    /\ \A t \in Thread : \A i \in DOMAIN stack[t] :
          stack[t][i] \in [dir : Path, at : Path \cup {Cwd}]
    /\ arg \in [Thread -> Requests \cup {NoRequest}]
    /\ calls \in [Client -> 0 .. MaxCalls]
    /\ got \in [Thread -> Contents] /\ entries \in [Thread -> SUBSET Path]
    /\ ret \in [Thread -> {"None", "NotFound", "PermissionDenied", "AlreadyExists", "IOError"}]
    /\ executor \in BOOLEAN
    /\ called \in [JobId -> Nat] /\ asked \subseteq JobId

Returns(t) == pc[t] # "idle" /\ pc'[t] = "idle"

\* A read that succeeds has the whole of what some write wrote, never the empty or
\* half-written file of a write under way on another thread; only a write that
\* reported its failure leaves anything else.
ReadIsWhole ==
    [][\A t \in Thread : arg[t].op = "read" /\ Returns(t) /\ ret'[t] = "None"
          => got'[t] \in {Bytes(Old), Bytes(New)} \/ arg[t].path \in torn]_vars

\* On every path out of every call, errors in the depth of a recursion included,
\* the file and the finds are closed; a leaked handle would keep others out.
NoHandleLeak ==
    \A t \in Thread : pc[t] = "idle" => handle[t] = NoHandle /\ stack[t] = <<>>

\* The disk is a tree at every moment, and no call leaves anything open behind it.
FilesInv == TypeOK /\ NoHandleLeak

\* What a call that neither another call nor the device disturbs does to the disk b
\* and returns: the reference definition of each operation, in one step.
Does(r, b, n, err, bytes, names) ==
    LET p == r.path
        is(q, kind) == b[q].kind = kind
        dir(q) == q = Cwd \/ is(q, "dir")
        ok == err = "None"
        set(Q, what) == [q \in Path |-> IF q \in Q THEN what ELSE b[q]]
        way == {prefixes[p][i] : i \in DOMAIN prefixes[p]}
        outcome(good, then) == (ok <=> good) /\ n = IF good THEN then ELSE b
    IN  CASE r.op = "read" -> outcome(is(p, "file"), b) /\ (ok => bytes = b[p].data)
          [] r.op = "size" -> outcome(is(p, "file"), b)
          [] r.op = "write" -> outcome(dir(Up[p]) /\ (is(p, "absent") \/ (r.flag /\ is(p, "file"))),
                                       set({p}, File(Bytes(New))))
          [] r.op = "list" -> /\ outcome(dir(p), b)
                              /\ ok => names = {c \in Children(p) : ~ is(c, "absent")}
          [] r.op = "mkdirs" -> outcome(\A q \in way \ {p} : ~ is(q, "file"),
                                        set({q \in way : is(q, "absent")}, Dir))
          [] r.op = "remove" -> outcome(is(p, "file"), set({p}, Absent))
          [] r.op = "rmdir" -> outcome(dir(p) /\ (r.flag \/ \A c \in Children(p) : is(c, "absent")),
                                       set(Under(p), Absent))

\* A call that nothing disturbs does exactly that, for every tree: it succeeds
\* exactly when it can, removes or creates the whole subtree, and an error has
\* changed nothing.  (create_directories is content with a file of that name.)
AloneDoesAll ==
    [][\A t \in alone : Returns(t) /\ t \in alone' =>
          Does(arg[t], before, node', ret'[t], got'[t], entries'[t])]_vars

\* The callback of an asynchronous call runs exactly once, whether an executor is
\* registered or not and whatever becomes of the read or the write.
CallbackOnce == \A j \in JobId : (j \in asked) ~> [](called[j] = 1)
=============================================================================
