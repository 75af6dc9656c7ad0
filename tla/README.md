# MINSTEP: TLA+ models, checks and proofs

This directory is the verification project of MINSTEP: TLA+ modules translated
from its C and Objective-C sources, TLC configurations that check them on small
instances, and TLAPS proofs about the kernel's tables. It is meant to be read
with the source open. `PROJECT.json` maps every definition to the lines it
stands for, lists the hazards of the code with the property that would catch
each, and gives for every property a plausible bug that would break it.

## 1. The system

MINSTEP is a small operating environment in one host process. At the bottom is
Maxxwell (`src/Kernel/mxwl`), a Mach-like kernel: Mach ports are slots of a
table, tasks are slots of another and may own a forked host process, and name
service, servers and monitor are code in the same process. Beside it stand the
sources of a real Mach 4 IPC layer on stubs, a device kit and a support library.
Above are a BSD server, an Objective-C translator with its runtime
(`src/Developer`) and a PostScript interpreter (`src/PostScript/Adobe`).

| Part | State | Operations | Talks to |
|---|---|---|---|
| Port table, `mach/mach_port.c` | slots with a ring of messages, rights, a descriptor; a counter | allocate, deallocate, destroy, queue, dequeue, insert right | called by all below |
| Tasks, `task/task.c` | slots with rights, threads, bootstrap port, host pid; a counter | create, terminate, insert and remove port, threads, launch | ports, host processes |
| Kernel life cycle, `mach/mach_kernel.c` | running flag | init, dispatch loop, signal handler, shutdown | tasks, name service |
| Messages and name service, `ipc/ipc.c` | table of services, bootstrap port | send, receive, rpc, register, look up, handle request | ports |
| Wait channels, `ipc/ipc_sched.c` | list of channels with mutex, condition, flag | assert_wait, thread_block, thread_wakeup | host threads |
| Servers, `server/`, `loader/` | registry, servers with two ports, a task and a thread | register, start, stop, restart, panic, send, reply, rpc, broadcast, poll | ports, tasks, messages |
| Mach 4 ports, `ipc/ipc_port.c` | references, rights, dead-name requests, queue limits | allocate, destroy, make and release rights, request notifications | wait channels, stubs |
| Mach 4 name spaces, `ipc/ipc_entry.c`, `ipc_hash.c`, `ipc_splay.c` | entry table with free list, reverse hash, splay tree | look up, allocate, deallocate, grow | Mach 4 ports |
| DeviceKit, `devicekit/` | driver registry, the shared framebuffer | create, register, start, stop, set mode, draw | X11, memory |
| libkern | trees, lists, hash tables, strings, bits | their operations | nobody yet |
| BSD server, `Developer/BSD` | process table with descriptor tables | reap, then one system call per turn | host kernel |
| Objective-C, `Developer/objc` | imports and classes of a translation; class tables, reference counts, pools | translate a directive; load, look up, retain, release, drain, add | each other |
| PostScript, `PostScript/Adobe` | memory with save records, dictionaries and name cache, operand and execution stacks, streams, paths, font cache, PS.VM | operators | one another, host files |

What is hard in it:

* names are reused at once: the search for a free port, task or descriptor
  starts at the lowest, so a stale name soon names somebody else's object;
* several steps make one operation, and each can fail;
* locks are given up half way (growth of tables in Mach 4), or there is none
  (the list of wait channels);
* the kernel blocks in `waitpid` and in polls, and the rest goes on meanwhile;
  the BSD server blocks with the client it serves, and the rest waits;
* host processes exit when they like, and ids are reused;
* the PostScript interpreter keeps several views of one thing in step by hand:
  undo records and memory, cached and real places of names, execution marks and
  C frames, borrowed and owned path elements, a file on disk and a session.

What makes each part correct:

* *port table*: rings, slots and counter agree, no descriptor outlives its
  port; together, a table of bounded queues;
* *tasks and life cycle*: the counter is exact, each port has one owner through
  every failed launch, no slot is released before its process is gone, the
  shutdown ends with nothing left;
* *messages and name service*: all answers for a name agree, each request is
  answered once, a call gets its own answer, gives its reply port back and
  returns; a receive that gives up loses nothing;
* *wait channels*: no return without a wakeup, unless memory for the channel ran
  out, and none lost before the sleep;
* *servers*: one per name, a running one has its own ports and task, a failed
  start undoes itself, no message lands on another server's endpoint;
* *Mach 4*: reference counts cover the pointers, rights are counted, nobody
  waits for the death of a dead port, no circle of ports; the free list is the
  unused entries, a name in use keeps its object;
* *DeviceKit and libkern*: drivers freed are in no list, the buffer covers the
  screen; each structure is the set, sequence or map it stands for;
* *BSD server*: table and count agree, a descriptor reaches its own file,
  children are reaped as long as no call blocks its loop for ever;
* *Objective-C*: no header is read into itself, methods are found, counts are
  the references, variables do not overlap;
* *PostScript*: restore brings back the memory of the save and leaves nothing
  dangling, the cache never shows a stale place, unwinding keeps marks and
  frames in step, nothing that is linked is lost or shared, paths are whole
  until storage runs out, the scanners agree, what is written arrives in order,
  a session starts whole.

## 2. Modules

Kernel:

| Module | Models | Built on |
|---|---|---|
| `PortOps` | what the port functions do, on a port space (name to queue) | |
| `PortSpace` | abstract specification of the port table | `PortOps` |
| `MachPort` | `mach_port.c` on its real layout: slots, rings, counters, descriptors | `PortOps` |
| `TaskOps` | the functions of `task.c` on a kernel value (ports, tasks, counter) | `PortOps` |
| `Tasks` | tasks with host processes, dispatch loop, shutdown | `TaskOps` |
| `Bootstrap` | messages, rpc, name service, dispatch loop, clients | `PortOps` |
| `WaitChannel` | `ipc_sched.c`, its critical sections as steps | |
| `Servers` | registry, manager, loader and messages of servers | `TaskOps` |
| `Mach4Port` | references, rights, requests and death of Mach 4 ports | |
| `Messaging` | one `mach_msg_receive`, statement by statement; the locks of `ipc_port_check_circularity`; and beside them the channels on which threads wait | `WaitChannel` |
| `Mach4Space` | entry table, free list, growth, reverse hash | |
| `SplayTree`, `NameSet` | `ipc_splay.c`, and the ordered set it is | |
| `Devices` | driver registry, shared framebuffer and null framebuffer | |
| `RbTree`, `IntrusiveLists`, `NodeLists`, `LibkernValues` | libkern; `NodeLists` is the abstract specification of the lists | |

Above the kernel:

| Module | Models |
|---|---|
| `BsdServer` | processes and descriptors; identity, directory and memory |
| `ObjcProgram` | translation from source to dispatch |
| `ObjcRuntime` | reference counts and pools; instance variables and protocols; selectors, properties and type encodings |
| `PsVM`, `PsSnapshots` | save and restore with undo records, and whole copies as their abstract specification |
| `PsDict` | dictionaries and the cache of places |
| `PsExec` | execution stack, marks, errors, interrupts |
| `PsStack`, `OperandSequence` | operand stack as linked nodes with the types and conversions of `type.c`, and the sequence it is |
| `PsScanner`, `PsStrings` | scanner; strings, arrays, names and the comparison of objects |
| `PsStreams` | files; the file PS.VM |
| `PsPaths` | paths, the graphics-state stack, and how a path is clipped and fed to the device |
| `PsFontCache` | font cache |

`MachPortProofs`, `TaskOpsProofs`, `TasksProofs`, `ServersProofs`,
`BootstrapProofs`, `MessagingProofs`, `Mach4Proofs` (about `Mach4Port`) and
`PsVMProofs` (about `PsVM` and `PsDict`) hold the proofs about their modules. `MC…` modules hold what TLC is
run on: values for constants, and several components side by side. In the second kind a variable `part` is chosen at the
start and only that component moves, so a run is the disjoint union of its
components and every property is stated per part; components share no state in
it, they share a run.

**Layers.** The modules above the port table do not repeat it. They use the
operators of `PortOps`, which are the actions of `PortSpace`, and `MachPort` is
shown to implement `PortSpace` (checked in `ports`, proved as
`PortTableRefines`). `Tasks` and `Servers` run the functions of `TaskOps`
inside their own steps, as the C callers do.

**State and actions.** Actions carry the names of the C functions. A function
that runs without giving anything up is one step; it is cut where the code
blocks or unlocks:

* `Tasks`: at `waitpid` (`EndTask`, then `WaitReturns`). `SIGCHLD` is ignored
  (`mach_kernel.c:88`), so an exit frees the id at once and leaves no zombie.
* `Bootstrap`: at the poll of `mach_msg_receive`. Each turn of the loop takes
  one request and sends one answer, whose result the code ignores. Requests
  carry a tag that only the properties read.
* `Messaging`: in a receive, look-up, dequeue, poll, second dequeue and counting
  are steps; the port may die and its name and descriptor be reused at any of
  them. The search for circles is cut at every lock.
* `WaitChannel`: search, creation and publication of a channel are separate
  because the list is unlocked; `cond_wait` may return spuriously. `CreateFails`
  is a `calloc` that fails: `assert_wait` then returns without a channel, and
  `thread_block` returns at once (`ipc_sched.c:52`, `82`, `106`).
* `Servers`: a manager command is one step up to the readiness wait. Servers
  that run the documented main program do so one call at a time beside it.
* `Mach4Port`, `Mach4Space`: at the growth of a table and the destruction of a
  port, where the lock is given up.
* `BsdServer`: one turn of the loop; children die between turns. A read, a write
  or a select without a timeout may block the only thread (`BlockHalf`), and the
  loop goes on when the host answers (`HostAnswers`), if it does. A negative
  `sbrk` is among the calls.
* `ObjcProgram`: one directive, one constructor.
* `PsExec`, `PsFontCache`, `PsPaths`: one instruction; procedures called back
  run instructions between. An operator of `PsPaths` that finds no storage ends
  where it is, with what it has linked or lost so far (`Store`, `Lose`); `limited`
  records that this happened, and walking a curve without its points is `Crash`.
  In `PsExec`, unwinding that meets a file its program has closed ends there
  (`StuckInOperator`, `StuckInStop`).
* `PsScanner`: one character of one scanner; the text is scanned as a file, as a
  string and as typed lines, one after the other.
* `PsStreams`: one operator, and how much of the buffer the host takes; of PS.VM
  one section, before each of which the process may die.

**Data left out.** Payloads, names of tasks, log output, capability masks (a
broadcast goes to any set of servers), file contents beyond a few characters,
geometry beyond a small grid, floating-point arithmetic.

## 3. Runs that pass

| Run | Instance | What it shows |
|---|---|---|
| `ports` | 2 slots, rings of 2, 2 messages, arguments 0..3 | `RingInvariant`, `TableCountOK`, `DescriptorsOwned`; the table implements `PortSpace` |
| `tasks` | 5 ports, 3 tasks, 2 rights and 1 thread per task, 3 host ids, ids reused | `TasksConsistent` (counter exact, ports with one owner, processes owned), `ShutdownCompletes` |
| `bootstrap` | 4 ports, queues of 2, 2 clients, 2 names, 1 table entry, 3 calls, timeouts of 0 and 2 polls | `BootstrapConsistent` (answers agree, reply ports released, requests handled once), `RepliesMatch`, `RpcReturns` |
| `servers` | registry of 2, 3 names, 8 ports, 3 tasks (the loader gives them no rights and no process: `RightNames = {}`, `TASK_PORT_MAX = 0`), 1 message beside replies and announcements | `ServersConsistent` (one server per name, running ones reachable, tasks owned, no misdelivery), `FailedStartRestores`, `StartReturns` |
| `kernel_parts` | receive: timeout 3, 3 messages; wait channels: 2 waiters, 1 waker, an allocation that may fail; circles: 3 ports, 2 threads; splay tree of 4 names, red-black tree of 8, 3 list nodes on 2 heads and a queue, 2 hash buckets, 2 drivers, screens up to 3 x 3, buffers of 4 characters, words of 4 bits | `MessagingConsistent`, `DeviceKitConsistent`, `StructuresConsistent`, `ImplementsAbstract` (splay tree and lists), `StepsKeepOthers`, `MCCallsReturn` |
| `mach4` | 2 ports, 2 growing threads; a space that grows from 2 to 6 entries, 2 threads, names in the table and in the tree | `PortConsistent`, `SpaceConsistent`, `NamesKept` |
| `developer` | 2 processes of 2 descriptors, increments of the break of -1 to 1; 2 classes, a header that can import itself; 2 addresses in a table of 3; 2 protocols, 2 classes with instance variables; 3 names in tables of 4, encodings with a nested struct | `ServerConsistent`, `ProgramsRun`, `ObjectsCounted`, `MetadataConsistent`, `MCLoopsEnd` |
| `ps_memory` | 2 save levels, 6 cells, stacks of 2 objects; 3 dictionaries (one read-only) of up to 2 names, time stamps up to 4 | `MemoryConsistent`, `DictionariesConsistent`, `RestoresSnapshots` |
| `ps_graphics` | 7 path elements, 2 states, 5 operators; clip edges on a grid of 3 x 3, 5 elements fed; 2 characters, cache of 2, storage of 6 words | `PathsConsistent`, `FontsConsistent` |
| `ps_language` | all texts of up to 4 characters over five alphabets, tokens of up to 3, numerals of up to 2 in a string; 2 string cells of 2 characters; words of 6 bits, numerals of 4 digits; 5 streams, 2 characters written; 2 versions of a file; execution stack of 7; 4 operand nodes | `ScannerConsistent`, `StringsConsistent`, `FilesConsistent`, `DiskConsistent`, `StacksConsistent`, `StackIsSequence`, `StepsProtect`, `MCProgramsEnd` |

The conjunctions name their parts, each with a comment, at the end of its
module; type invariants are among the parts.

**Why the bounds are enough to be interesting.** In `ports` a ring of two wraps,
fills and empties, and two slots are enough for a stale name to name a new
port. In `tasks` five ports are the kernel's three and two more, so that both
"one task with a right" and "two tasks" fill the table and the next creation
fails after its slot was cleared; the kernel task can hold two rights, so
removals shift. In `bootstrap` three calls are a registration, a look-up and a
call to the service, or a call that times out and two that follow; one entry is
full after one registration, the queue of two is filled by two calls. `servers`
has ports for two loaded servers and none to spare, so loads fail at each port,
the task and the thread. In `kernel_parts` the second waiter is what the shared
flag needs, three ports are the shortest chain with an inner lock, and eight
keys give the red-black tree its inner cases. In `mach4` the growth happens
while a second thread allocates, frees and finds the space dead, and the table
of six takes over names from the tree. In `developer` a slot and a descriptor are
reused while the host process of the old one still runs; the header table is
full after two; two addresses collide in the hash. In `ps_memory` the second
level logs what the first has logged, and begins and ends of dictionaries take
the time stamp to its last value before it wraps. In `ps_graphics` an
element is borrowed twice over, seven elements run out in the middle of a curve,
of a flattened path and of a stroke, and the storage is fragmented by masks of two
and three words. In `ps_language` four characters hold an escape cut by the end
of a line, an unbalanced brace, an overlong token and an overlong numeral; a word
of six bits is longer than a numeral in bases 2 and 3 and not in base 4, as one of
64 bits is with 35 characters; the execution stack of seven overflows inside a
nested call.

**Deadlock** is checked where there is always something to do (`ports`,
`tasks`, `ps_memory`, `ps_graphics`). Elsewhere the system may come to rest: all calls made,
servers stopped, programs ended.

**Fairness.**

* `tasks`: the kernel thread runs (`WF` on the reap, the return of `waitpid`,
  the shutdown steps), and a process that was sent SIGTERM exits, the default
  action of the signal. A child that catches it would block the shutdown.
* `bootstrap`: the loop turns, a blocked receive polls again, a service reads
  its port. `RpcReturns` is claimed for calls with a timeout and for calls to
  the kernel; two services that call each other without a timeout do block.
* `servers`, and the receive in `kernel_parts`: the loop of the call goes on.
* wait channels and circles: strong fairness for a thread inside a call,
  because a mutex that is free again and again is obtained in practice, if not
  by the letter of POSIX. Nobody is obliged to begin a wait or a wakeup.
* `developer`: the server's loop turns (`WF` on reaping and on serving a call),
  and the drain of a pool goes on. Nothing obliges the host to answer a call that
  blocks, so `ChildrenReaped` says that a child is reaped or that the loop stays
  blocked: while one client's read waits for ever, no child of any process is
  waited for.
* `ps_language`: a scan goes on to its end, and an interrupted interpreter
  takes its next instruction (`InterruptEndsProgram`, which leaves out programs
  that have closed a file they are run from); a program that nobody interrupts
  need not end.

## 4. Disagreements between code and documentation

Two have a run that shows them.

| Run | Behaviour |
|---|---|
| `bootstrap_late_reply` | a call times out; the next call gets the same reply port name and the answer to the first (`ipc.c:122`) |
| `wait_lost` | a second `assert_wait` clears the flag before a woken thread has looked at it, and that thread sleeps on (`ipc_sched.c:90`) |

The others can be reproduced by giving a constant another value or by checking
a property that is defined but in no run, as named.

Ports, tasks, kernel:

* `Tasks`, `ShareRights = TRUE` with `EveryTaskHasBootstrapPort`: a right held
  by two tasks is closed with the first; its name becomes the bootstrap port of
  a third and is destroyed with the second (`task.c:107`; `task.h:65`, "every
  task gets one").
* `Tasks`, `PidReuse = TRUE` with `SignalsOwnProcess`: `host_pid` outlives the
  process, and terminating the task signals the new owner (`task.c:102`).
* `SIGCHLD` is ignored (`mach_kernel.c:88`), so the reap loop never sees an
  exit, and `terminated`, "Task has exited" (`task.h:57`), is not set for it.
* `mxwl_loader_cleanup` kills and waits; `mach_loader.h:140` says it cleans up
  temporary files. The `tasks` command loops over `mxwl_task_count` indices
  (`monitor/commands/tasks.c:14`) and misses tasks behind a free slot.

Messages and wait channels:

* `Messaging`, `TimeoutHonoured`: the peer of the polled descriptor was closed at
  creation (`mach_port.c:151`), so poll returns at once and each turn still
  counts 100 ms (`ipc.c:78`; `ipc.h:64`, "blocking with timeout").
* `ipc.h:30` says services check in on their bootstrap port; the loop reads only
  the kernel's own. REGISTER sent with `mach_msg_rpc` binds the temporary reply
  port (`ipc.c:112`, `ipc.c:175`), so `Bootstrap` sends it with
  `mach_msg_send`. `mach_msg_send` does not block on a full queue (`ipc.h:60`
  says it does).
* Two threads can each add a channel for one event (`ipc_sched.c:32`); the
  passing run contains this. When memory for a channel runs out, `thread_block`
  returns at once without a wakeup (`ipc_sched.c:106`); `NoEarlyReturn` says
  that this is the only such case.

Servers:

* `Servers`, `StoppedReleasesPorts`: `mx_loader_start` overwrites the task's
  bootstrap port, so each start and stop loses a port (`loader.c:85`).
* `mx_server_notify` passes a null sender, which `mx_msg_validate` refuses;
  `mx_server_rpc` takes back its own request (`server/ipc.c:154`);
  `mx_server_reply` answers to the server called "kernel" (`server/ipc.c:95`).
* A failed start destroys endpoints that a server made for itself, which then
  announces READY without one (`manager.c:55`).

Mach 4:

* `Mach4Space`, `NamedTypes = {"receive"}` breaks `NamesKept`:
  `ipc_object_alloc_name` overwrites an entry in use although
  `ipc_port.c:540-552` promises KERN_NAME_EXISTS.
* `PageEntries = 4` breaks `TableAllocated` (`ipc_entry.c:556-558`);
  `FreeEntriesListed` fails because `ipc_space_create` hands out a zeroed table
  without a free list (`ipc_entry.c:269`).
* The comment of `ipc_port_alloc` says the port is locked, the stub leaves it
  unlocked; `ipc_object_copyout` unlocks a space nobody locked; the
  `ipc_notify_*` stubs keep the right they are given; `ipc_hash_init` is never
  called; a port destroyed with a backup port stays in transit.

DeviceKit and libkern:

* `DKitCreateDriver` allocates a `DKitDriver` (`DeviceKitDriverManager.c:22`) and
  the framebuffer drivers write the fields of their larger records into it
  (`DeviceNoFramebuffer.c:298`); `Devices` gives each driver its own record.
* DeviceKit is in no Makefile and `HAVE_X11` is never defined; the X11 driver is
  never chosen although `DeviceKit.appkit.m:70` says "Use X11 if available"
  (`X11Preferred`). `MixedInit = TRUE` breaks `ActiveDriverRuns`.
* A second `initializeFrameBuffer` leaks drivers; a start of X11 that fails at
  the back buffer leaks the display; unregistering a running driver leaves its
  buffer; `framebufferInfo` is never filled, so `setPixel` does nothing;
  `set_mode` after shutdown clears through NULL; width x height x 4 wraps; a
  copy downwards or rightwards smears.
* `rb_erase` of libkern follows the wrong child and parent in deep trees
  (`DeepErase = TRUE` breaks the balance); `hexdump` may return more than its
  bound; rotation by 0 shifts by the width. Nothing uses libkern.

BSD server:

* `Dup2Unused = TRUE` and `PidReuse = TRUE` show `dup2` onto a descriptor in use
  and a reused host id. A pipe gives both ends one descriptor; `fd_count` is
  never raised; task and bootstrap port are not freed with a process; exec
  closes descriptors before it can fail; directory and heap are the server's
  own, shared by all processes, so that a negative `sbrk` of one takes memory from
  below the break of another (`bsd_memory.c:61`; `BreakCovered` holds only until then); a client's `read`, `write` or `select`
  that blocks holds up every process; shutdown signals the server itself;
  `signal_pending` is never set; select does not check its bound.

Objective-C:

* `NearestDefinitionRuns` fails: `class_addMethod` puts a second definition
  behind the first (`objcrt.c:291`; `objcc-reference-manual.tex:1059-1060`).
* Methods of categories are never registered (manual, 442-445), nor classes
  without methods; `@property` and `@synthesize` emit Objective-C;
  `forwardInvocation:` is promised and aborts; `dealloc` is not registered on
  Object (`DeallocFrees = TRUE` breaks `CountsMatchReferences`); a full pool
  drops objects; full hash tables loop; adding protocols has no bound beyond
  four; `conformsTo` does not return on a cycle; an unbalanced brace in a
  string hides later methods; `method_getArgumentType` answers "@" for the
  first argument of every method that returns an object, whatever its type;
  `class_replaceProperty` adds nothing to a class without a property list.

PostScript:

* `PsExec`: `NoAccessProcs = TRUE` breaks `NothingImpossible` (`error.c:59-61`,
  "This cannot happen -- but it did!"); `KShow = TRUE` breaks
  `OnePendingExit`. An overflow leaks open run files although `stream.c:337`
  closes them.
  A program that closes the file it is run from makes `CloseFile` fail with
  `invalidfile` while the stack is unwound (`stream.c:255`, `exec.c:66`). In an
  operator, such as `exit`, the error takes its place. In the handler of a stop it
  leaves the call: an inner one leaves its mark and the rest of its stack behind
  (`stale`, until the next stop), the line's own ends the session, and with nobody
  to catch it the program crashes. An interrupt can be lost in the same way.
* `PsStack`, `FailureKeepsOperands` fails (`stack.c:31`). Nor are operands kept when
  `cvi` or `cvr` scan a string: `({}) cvi` pushes the mark of the procedure into
  the node of the operand it popped, and the failed command then restores a mark
  (`scanner.c:539`, `type.c:384`); `NotConverted` in `OperandSequence` is what is
  left to promise. Roll by a multiple of
  n skips the check for underflow.
* `PsDict`: `StampWraps = TRUE` breaks `CachedPlaceKnown`, the assertion
  `ce.kvloc != NIL` of `dict.c`. `DputOnStack = TRUE` breaks `LookupCorrect`: a
  put of a new name into a dictionary on the stack leaves a current cache entry
  for a dictionary below it (`dict.c:194-202` changes the bits only).
* `PsPaths`: when the storage for elements runs out in an operator
  (`path.c:49`), `curveto` leaves one or two of its three elements, which
  `fill` and others then follow through NIL (`path.c:693`); `flattenpath`, `stroke`
  and copies of clips lose what they have built. `CutByLimit` says that nothing
  else does the first, `ElementsConserved` accounts for the second.
  `NoConsecutiveStarts` fails (`path.c:671-672`); `StrokePath` never
  frees `flatPath`; a failed charpath loses elements (`TidyGlyphs`,
  `PlainReverse`). Clip flags left over from an earlier path can reduce a
  polygon to a single point, and a path that ends in two starts leaves a polygon
  open at the device.
* `PsFontCache`: errors inside a character procedure leave `showLevel` counted
  (`Orderly`); removing a MID breaks probe chains (`SettledPurges`);
  `definefont` of a known name never replaces; `FindBMHole` is called without
  its second argument (`ArgKept`). The run keeps out procedures of `kshow` that
  change the font or the matrix (`KShow = FALSE`; `PsExec` has a constant of the
  same name).
* `PsScanner`: `Newlines = FALSE` breaks `LinesLoseNothing`
  (`scanner.c:614-619`); `StringTag = "lit"` breaks `ScannersAgree`; a string
  token ignores backslashes; a number too long uses an uninitialised value. The
  `token` operator on a string fails with `limitcheck` at a numeral longer than
  `MAXnumeralString` (`scanner.c:349`), which a file may hold. A typed line that ends inside a string calls
  `feof` without a stream (`scanner.c:410`, `438`) and crashes; `LineComplete`
  asks for more input first, so the interpreter itself hands over such a line
  only at the end of the input.
* `PsStrings`: `-1 2 cvrs` writes 64 digits into a buffer of 35 (`string.c:192`,
  `types.h:59`), as bases 2 and 3 do with large numbers; `NumeralExact` says that only
  a number too long for the buffer does. In radix 10 the number is printed signed
  (`string.c:289`), in all others as unsigned.
* `PsStrings`, `PsStreams`: a search for the empty string never matches;
  `MakeStream` counts before it checks the limit; an object of a closed file
  reaches a later file with its number; a line too long loses a character, and so
  does reading into a string that may not be written (`stream.c:384`, `400`);
  these are what `orderly` leaves out. A read of a file opened to write fails and
  is no end of file, so its characters are 255s, and every later write is an
  `ioerror`. What the host refuses when a file is closed is lost in silence
  (`stream.c:256`).
* `PsStreams`: a crash while saving destroys PS.VM; `checkpointvm` leaves
  masks as offsets in memory.

## 5. What is proved

Eight modules hold the theorems (`TaskOpsProofs` the lemmas that `TasksProofs`
and `ServersProofs` share), for every value of the constants that meets the
named assumptions. All of them are safety properties of the specification of
their component.

| Theorem | States |
|---|---|
| `MachPortProofs!PortTableInvariant` | `Spec => []Inv`, the inductive invariant of the port table |
| `TypeCorrect`, `RingsConsistent`, `CountExact`, `DescriptorsSafe` | its four conjuncts, which the run `ports` checks |
| `PortTableRefines` | `Spec => PortSpaceSpec`: the rings are bounded queues |
| `TasksProofs!TaskTableInvariant` | `Spec => []KInv`, the inductive invariant of the task table |
| `TaskTypesCorrect`, `TaskCountCorrect`, `ProcessesKeepTheirTask` | types, exact counter, no process without its task, even if ports are shared and ids reused |
| `PortsHaveOneOwner` | no port is lost or owned twice, under `~ShareRights` |
| `TasksStayConsistent` | the conjunction the run `tasks` checks, under `~ShareRights` |
| `ServersProofs!ServersInvariant` | `Spec => []ServersConsistent`, the conjunction the run `servers` checks: one server per name, running ones reachable, tasks owned, no misdelivery |
| `FailedStartsRestore` | `Spec => FailedStartRestores`: a start, restart or registration that fails leaves ports, tasks and counters as they were |
| `BootstrapProofs!NameServiceConsistent` | the conjunction the run `bootstrap` checks: answers agree, reply ports released, requests handled once |
| `AnswersMatchRequests` | `Spec => []RepliesMatch`: each call gets the answer to its own request |
| `MessagingProofs!ReceiveLosesNothing` | `RCSpec`: each message is queued, freed with its port or returned, one of the three; the oldest is returned |
| `BlockReturnsWhenWoken` | `WCSpec`: `thread_block` returns only for a wakeup after its own `assert_wait`, or at once if that got no channel for want of memory |
| `RightsFormNoCircle` | `CCSpec`: receive rights in transit form no circle |
| `MessagingStaysConsistent` | `MSSpec => []MessagingConsistent`, the conjunction the run `kernel_parts` checks |
| `Mach4Proofs!PortStaysConsistent` | `M4Spec => []PortConsistent`: references cover pointers, send rights are exact, nobody waits on a dead port, no request for no-senders is forgotten, the free list of dead names is the free slots |
| `PsVMProofs!MemoryInvariant` | `MCSpec => []VMInv`, the inductive invariant of memory and save records |
| `MemoryStaysConsistent` | `MCSpec => []MemoryConsistent`: nothing a program can reach denotes released memory |
| `MemoryRefinesSnapshots` | `MCSpec => RestoresSnapshots`: undo records do what whole copies of memory would do |
| `VMRefinesSnapshots` | `VMSpec => ImplementsSnapshots`, the same for the module `PsVM` alone |
| `DictionariesStayConsistent` | `MCSpec => []DictionariesConsistent`: the name cache finds what a search of the dictionary stack finds, under `~StampWraps` and `~DputOnStack` |
| `TableSizesSuffice` | `TablesHaveRoom`: `PrimeSize` leaves an empty slot at every length it accepts, so probing ends |

**Assumptions.** `PortOpsAssumption`: the table size is a natural number, the
ring length a positive one. `MachPortAssumption`: NULL is no message, names are
integers. `TaskOpsAssumption`, `TasksAssumption`: at least one task and one
process id, and three ports, which the kernel takes while it starts (it does
not start with fewer). `ServersAssumption`: three ports at least, for the kernel has made three
before the manager runs, and bounds that are natural numbers.
`BootstrapAssumption`: one port, which `ipc_init` takes;
providers are clients; numbers are natural. `ReceiveAssumption`: numbers are
natural. `WaitAssumption`: no thread is both a waiter and a waker.
`CircularityAssumption`: NULL is no port and nobody is no thread.
`Mach4PortAssumption`: NULL is no port and no name, the ports the kernel
serves are ports, limits are natural numbers, and each dead-name table in the
schedule `DnSizes` is larger than the one before until the schedule ends with 0,
as in `ipc_init.c`; the first holds a header and a slot.
`VMAssumption`: the bounds of PostScript memory are natural numbers, and memory
holds at least the dictionary, the cache entry and one cell. `DictAssumption`: a
dictionary is no longer than `MAXdictLength` (`PrimeSize` refuses more), names
hash to natural numbers. `NilAssumption`: NIL is no name, no dictionary and no
place. The C constants meet all of them, and TLC evaluates them on the runs.
`~ShareRights`, `~StampWraps` and `~DputOnStack` are not assumptions of a
module but hypotheses of theorems: `ShareRights` says whether a client
may insert one port into two tasks, `StampWraps` whether a session begins and
ends dictionaries until the time stamp starts again, `DputOnStack` whether a
program puts new names into dictionaries on the stack. The code permits all
three, and each breaks the property (section 4).

**Port table.** `Inv` conjoins four properties that are not inductive alone:
the counter stays in range only because it counts the slots in use; a
deallocation drains the ring only if the occupied positions are the
`queue_count` ones from the head; a descriptor is safe only if a slot in use has
one reference. Lemmas say once what `Fresh`, `Enqueued`, `Dequeued` and
`Deallocated` do to one object, with the arithmetic modulo the length, and how
the count of used slots changes with one slot. For the refinement, `Contents` of
an enqueued ring is `Append`, of a dequeued one `Tail`, and the first free slot
is the fresh name of the mapped space; each action maps to its namesake.

**Tasks.** `KInv` says that a table is well formed (`IsKernel`: entries in use
have sequences of rights and counts within bounds, the counter is the number of
entries in use), that control is where the call the kernel is blocked in allows
(`ControlOK`, `CallPending`), that every live child has an entry
(`ProcessesOwned`), and that the kernel's own entry stays (`KernelStays`). They
need each other: the return of `waitpid` may release a slot only
because the process the call waits for is the one the slot records. Each
function of `TaskOps` has a lemma that it keeps `IsKernel` and says which entries
it changes; failure paths (a task that was created and whose launch, bootstrap
port or fork then fails) are lemmas like any other. `OInv` adds `Owned(k, held,
ClosedPorts)`: the bootstrap ports and rights of entries in use and the ports in
clients' hands are different places for different ports, and together they are
the live ports, but for the bootstrap port once the kernel is down.
Ownership needs `KInv` (a freed entry must own nothing), and a step that moves a
right from a client to a task, or back, is one exchange between the two.

**Servers.** `IInv` has three parts. `WorldOK(k, srv)` relates a kernel value to
the server structures: the kernel value is well formed (`IsKernel`, with the
lemmas of `TaskOpsProofs`) and the kernel keeps its own ports and task
(`KernelOK`); a server has two live ports of its own or none (`PortsOK2`); a
bootstrap port belongs to one task and, if it is a server's port, is the endpoint
of the server that points to the task (`BootstrapsOK`); a server's task is in
use and nobody else's (`OwnersOK`); a running server has both (`RunsOK`); and
what waits on an endpoint is meant for its owner (`DeliveredOK`). The part about
bootstrap ports is what the property lacks: terminating a task closes its
bootstrap port, and without it that could be the port of another server.
`RegistryOK` says that the registry lists each structure in use once and
`CountersOK` that the counters stay within their bounds. A
manager command changes kernel value and structures several times before it is
one step, so `WorldOK` is followed through the command: `EndpointCreateOK`,
`TaskMade`, `ThreadMade`, `BootstrapSet` say what each call of `mx_loader_load`
gains, `LoadOK` joins them and `UnloadOK` undoes them in the code's order.
Every change of the world is one of three: messages move (`MessagesKeep`),
something is given back (`ShrinkKeeps`), or one server gains ports or a task that
were free (`GrowthKeeps`). A shutdown stops a sequence of servers, which is a
recursive function; `StopsExist` shows that it has its equations and
`StoppingSteps` uses them, one stop after the other. `FailedStartsRestore` rests on the same lemmas: each says exactly which
ports and tasks were gained, so the failure path gives back exactly those
(`GainedLost`). The hypothesis that the server held nothing is needed: section 4
names what a failed start does to endpoints the server made for itself.

**Name service.** `NInv` in `BootstrapProofs` has six parts.
`IsSpace(ports, GoodMessage)` says what may be queued at all: requests whose
answer goes to a port other than the kernel's, answers which the table agrees
with, tags of calls already started. `PortsOwned` says that a live port is the
kernel's, or one client's service port, or the reply port of one call in
progress, and only one of these. `TableOK` says no name is bound twice,
`ClientsOK` that what a client was given is good too, `CallsOK` that tags are not
used again, `QueueOK` that the kernel's queue holds requests, each once and not
yet answered. Why the strengthening: an answer in a queue agrees with the table
later only because entries never change and a name has one (`TableGrows`,
`GoodGrows`); the loop's answer cannot land in its own queue only because no
request names the kernel's port as the port for the answer; a reply port is
given back on each return of `mach_msg_rpc` only because nobody else could have
closed it. The lemmas per action end in `ClientKeeps`, `LoopKeeps` and `NextN`.
TLC checked `NInv` on the instance of the run before it was proved.

For `RepliesMatch` the invariant is `RInv`: `NInv`, and `MInv` while no call was
given up and no service closed. `MInv` is about conversations. A queued request
is to be answered on the reply port of a call in progress and has its tag
(`AllSensible`), except REGISTER, which names a service port; a reply port holds
answers to its own call only (`OwnAnswers`); no port is asked to be answered on
twice (`AskedOnce`), and none at all once its answer is there (`AnsweredOnce`).
The last part is what makes it safe to give the name of a reply port out again:
when a call returns, nothing is under way to that name. What clients and the
table know of must be service ports (`KnownOffered`, `TableOffered`), or a
request could be put into another call's reply port. The hypothesis is needed:
the run `bootstrap_late_reply` shows what a call that timed out leaves behind.
Five lemmas say how `Conversing` survives a port that opens or closes, a message
taken, an answer and a request delivered; the lemmas per action apply them.

**Messages, channels, rights.** The three components of `Messaging` share no
state; each has an invariant, and a step of one leaves the others alone.
`RCInv` says of a receive that the queue is in the order of sending
(`QueueInOrder`) and that a call that has not ended has taken nothing
(`CallOpen`): the two dequeues of one call, before and after the poll, can then
not both take a message, and what they take is older than what they leave.
`WCInv` says for whom a flag is up (`FlagForThose`): a waiter inside
`thread_block` whose channel has its flag set was woken after its own
`assert_wait`, which clears the flag under the channel's mutex; a waiter that got
no channel is at none and touches no flag. Racing threads may have made two channels for one event, and the
invariant does not need that they did not. `CCInv` describes what a thread in
`ipc_port_check_circularity` knows from its locks: the ports it holds form one
chain of rights in transit from the destination to the base (`IsChain`), nobody
moves a port somebody else has locked, and the port being sent is in limbo. A
circle that the new link closed would have to run through that chain and leave
it at the base, which the code compares with the port. The proof uses the locks
of the ports only: the `multiple` lock is needed for the walk to make progress,
not for its safety.

**Mach 4 ports.** `M4Inv` is `Shaped` and, for every port, `Balanced`. `Shaped`
is about one record at a time (`RecordOK`): a port that is not active has no
blocked sender or receiver, a registered no-senders request without senders waits
for a make-send count not reached, and the dead-name table is `TableOK`: its size
is one of the schedule, and there is a chain (`IsChain`) that starts at the
header and visits each free slot once. Such a chain is given as a function, so
that taking its head (`TakenOK`), putting a slot in front (`ReturnedOK`) and
adding the new slots of a grown table (`GrownOK`) each construct the next one, and
`FreeListExact` shows that it is the one the header's and the slots' indices
define. `Balanced` is about one port and everything that points
to it: its reference count is at least its rights, the messages that carry it,
the requests registered with it in any port, the ports in transit to it, the
threads growing its table, and one for itself while it lives. Beside it, the
send-once rights counted cover those the callers hold and those registered, and
the send rights counted are those that exist. It is the sum that is inductive,
not any term: most routines move a reference from one term to another. So each step is of one of a few kinds, with a lemma each.
`CountStep`: the counters of one port change together. `RequestStep`: one
place in one port names another port than before (a request is registered,
cancelled or traded for the one before). `GrowStep`: a thread enters or leaves
the growth. `HandOver`: a port gives up its backup port or its destination, or takes the
first for the second, and the port it named pays. `DyingStep`: a port dies. `OneMoves` and
`SomeLeave` say what that does to the cardinality of the set of places. The
growth of a table is the interesting case: the thread keeps a reference while the
port is unlocked, and `DngrowDoneKeeps` covers a port that died meanwhile and a
table that another thread has grown. Which routes are circular is never
expanded: the accounts hold whatever `ipc_port_check_circularity` answers. TLC
checked `M4Inv` on the instance of the run before it was proved.

**PostScript memory.** `VMInv` describes the save records by the level each cell
carries. A cell of level l is `Settled`: no record after l has an entry for it,
its place is older than all of them, and record l has one, unless the cell was
allocated since or l is 0. The same holds of every old cell in a record, at the
time of that record. So a write logs a cell at most once per record
(`RecordOK`), and the test `old.level <= n` in `RestoreObj` fails for exactly
those entries that an older record undone by the same restore overrides: what a
restore puts back at a place is the first entry for it among the records undone,
oldest first, or what memory holds (`UndoneAt`). An array on a stack or in a
cell is in use and older than every save after its own level (`ObjectOK`), and
this is why a test of levels in `CheckAllStacks` is enough; old cells in records
must have it too (`KeptOK`), because a restore makes them current again. For the
refinement, a copy is what the program would see after a restore to that save
(`CopiesOf`). Each operation has one lemma that it keeps `VMInv` and one that it
maps to its step of `PsSnapshots`: a write keeps all copies because the first
one after a save is logged, and a restore keeps the copies below it because
undoing down to n and then to k is undoing to k. Copies are compared by what a
program sees, since a restore resets time stamps of cache entries. `Undone` is
recursive; `UndoneSteps` gives its equations, by descent from the newest record.

**Dictionaries.** `DInv` has four parts. Each table is `TableOK`: it is filled to
its capacity at most, and whoever probes for a name in it meets the name before
an empty slot (`Reachable`). Because a table is larger than its capacity and the
probes run through all slots (`ProbesAll`), a search ends; `InsertOK` says that a
name put where its search ended leaves the others reachable. Each cache entry is
`EntryOK`: it names a dictionary exactly if it has a place, that place holds the
name, the access is the dictionary's, and the entry has the bit of every
dictionary with the name, so that the bits may rule dictionaries out. `StampOK`
is what a lookup that hits relies on: no entry is ahead of the time stamp, and a
current one is that of the topmost dictionary with the name. Begin and end need
nothing more than that, since no entry is current after them. A put
that comes from the top of the stack goes to the topmost dictionary with the
name or to the top itself; any other put must give no new name to a dictionary on
the stack, which is the hypothesis `~DputOnStack`. `SaveOK` is about the save in
force: what it keeps is coherent, dictionaries have only grown since, and an
entry that is not logged is as it was. This is why restore may leave the stamp
of an entry that is not logged: its dictionary had the name at the save, and
those above it had no more names than now. The table sizes are a lemma about the
primes of `dict.c`: the next is at most 1.5 times the last, and at most 1.2 times
above 602.

## 6. What is only model-checked

* All liveness: `ShutdownCompletes`, `RpcReturns`, `StartReturns`,
  `MCCallsReturn`, `MCLoopsEnd`, `MCProgramsEnd`. The prover does not handle
  fairness and ENABLED.
* Every other module. Of these, `IntrusiveLists`, `RbTree`, `SplayTree`,
  `ObjcRuntime`, `PsPaths` define recursive operators, about which the prover
  cannot be asked; the rest could be (`SpaceConsistent` and `NamesKept` of the
  Mach 4 name space, `ServerConsistent`, `ProgramsRun`, `DeviceKitConsistent`,
  `FontsConsistent` and those of `MCPsLanguage`).
* The refinements `SplayTree` to `NameSet`, `IntrusiveLists` to `NodeLists`,
  `PsStack` to `OperandSequence`.

These hold for the instances of section 3.

## 7. Modelling assumptions

* Clients hand a port over when they insert it into a task (`ShareRights =
  FALSE`), although the code does not make them.
* A server structure is not freed while the manager waits with a pointer to it.
* The host: `fork` may fail, ids are reused only when free, `poll` may be
  interrupted, condition variables may wake spuriously, a read may block for
  ever, a write may be refused. Memory runs out in port and task creation, servers, wait channels, growth of
  Mach 4 tables, drivers, path elements, masks and stacks, as actions of their own. In `mach_msg_receive` a poll
  that fails and in `mach_port_queue_message` a copy that cannot be allocated
  (`ipc.c:79`, `mach_port.c:169`) are not: to their callers they are a timeout
  and a full queue, which are modelled.
* The X11 driver has its first mode from the start; the 800 x 600 that
  `x11_initialize` sets before it (`DeviceX11Framebuffer.c:146`) is not in the model.
* Files are opened to read or to write, not to append or update.
* `SIGCHLD` is ignored, so the host reaps children by itself.
* Servers have no host process of their own: the loader creates the task and
  never spawns, so `mx_loader_stop` has nobody to signal.
* Requests carry a tag and answers a name that the code does not have; only
  properties read them.
* Where the code's behaviour is undefined or breaks an invariant in a way
  section 4 lists, a constant keeps the run out of it and the value that lets
  it in is named there.

## 8. What is not modelled, and the plan

Not modelled: the kernel log and the monitor (they format and print what the
others hold), AppKit, the terminal and the user file system, the Display
PostScript wrapper, the PostScript devices and mathematics (numerical code), the
rewriting of Objective-C expressions (text), the parser of `.mach` headers,
vendored headers. The Objective-C classes of the kernel (`MaxxwellPort.m`,
`MaxxwellTask.m`, `MaxxwellIPC.m`) repeat the C functions. Within modelled parts
the components' notes in `PROJECT.json` say what is left out.

What is left to prove, most important first:

1. `SpaceConsistent` and `NamesKept` of the Mach 4 name space, for the part that
   does not use the splay tree.
2. `StackIsSequence`, the operand stack as a sequence.
3. `FontsConsistent`: that the font cache accounts for its storage and items.
