-------------------------------- MODULE Tasks --------------------------------
(***************************************************************************)
(* Tasks and their host processes (task/task.c, loader/mach_loader.c and   *)
(* the reaping and shutdown parts of mach/mach_kernel.c).  The kernel is   *)
(* one thread: it is either in its dispatch loop, where any entry point    *)
(* may be called, or blocked in waitpid for one child, or shutting down.   *)
(* Host processes run, exit and reuse process ids around it.               *)
(***************************************************************************)
EXTENDS TaskOps

CONSTANTS ShareRights,  \* may one port be inserted into several tasks?
          PidReuse      \* may unrelated host processes take a free id?

\* Initialisation allocates three ports.
ASSUME TasksAssumption ==
    /\ MACH_PORT_TABLE_SIZE >= 3
    /\ ShareRights \in BOOLEAN /\ PidReuse \in BOOLEAN

VARIABLES k,         \* port space, task table and counter
          procs,     \* process id -> what runs under it
          held,      \* ports the kernel's clients hold outside any task
          call,      \* the call the kernel thread is blocked in
          phase      \* "loop", "shutdown" (loop left) or "down"

vars == <<k, procs, held, call, phase>>

ipc_bootstrap_port == 1
HostPorts == {2, 3}
KernelPorts == {ipc_bootstrap_port} \cup HostPorts
Idle == [op |-> "none", task |-> KernelTask]

\* After mxwl_kernel_init: three ports, the kernel task, nothing else.
Init == /\ k = TaskInit([p \in KernelPorts |-> <<>>], ipc_bootstrap_port, KernelPid)
        /\ procs = [i \in Pids |-> IF i = KernelPid THEN <<"kernel", KernelTask>>
                                                    ELSE <<"none", KernelTask>>]
        /\ held = {}
        /\ call = Idle
        /\ phase = "loop"

InLoop == phase = "loop" /\ call = Idle
FreePids == {i \in Pids : procs[i][1] = "none"}
UserTasks == InUseTasks(k) \ {KernelTask}
-----------------------------------------------------------------------------
(* Ports of clients *)

mach_port_allocate ==
    /\ InLoop
    /\ ~Full(k.ports)
    /\ k' = [k EXCEPT !.ports = Opened(@, FreshName(@))]
    /\ held' = held \cup {FreshName(k.ports)}
    /\ UNCHANGED <<procs, call, phase>>

\* A client gives up a port it still holds and has given to nobody.
mach_port_deallocate(p) ==
    /\ InLoop
    /\ ~ShareRights
    /\ p \in held
    /\ k' = [k EXCEPT !.ports = Closed(@, p)]
    /\ held' = held \ {p}
    /\ UNCHANGED <<procs, call, phase>>

mxwl_task_insert_port(t, name, p) ==
    /\ InLoop
    /\ TaskLookup(k, t)
    /\ p \in held
    /\ CanInsertPort(k, t)
    /\ k' = TaskInsertPort(k, t, name, p)
    /\ held' = IF ShareRights THEN held ELSE held \ {p}
    /\ UNCHANGED <<procs, call, phase>>

\* The right leaves the task; its port stays open, in the caller's hands.
mxwl_task_remove_port(t, name) ==
    /\ InLoop
    /\ TaskLookup(k, t)
    /\ Matches(k, t, name) # {}
    /\ k' = TaskRemovePort(k, t, name)
    /\ held' = held \cup {k.tasks[t].rights[FirstMatch(k, t, name)].object}
    /\ UNCHANGED <<procs, call, phase>>
-----------------------------------------------------------------------------
(* Threads *)

mxwl_thread_create(t) ==
    /\ InLoop
    /\ TaskLookup(k, t)
    /\ CanCreateThread(k, t)
    /\ k' = ThreadCreate(k, t)
    /\ UNCHANGED <<procs, held, call, phase>>
-----------------------------------------------------------------------------
(* Creating tasks and their processes *)

mxwl_task_create(ok) ==
    /\ InLoop
    /\ k' = TaskCreate(k, ok).k
    /\ UNCHANGED <<procs, held, call, phase>>

\* fork and exec for a task that has just been created as r.  The failure
\* branch is the callers' "terminate the new task again".
Spawned(r, pid) ==
    /\ k' = [r.k EXCEPT !.tasks[r.task].host_pid = pid,
                        !.tasks[r.task].running = TRUE]
    /\ procs' = [procs EXCEPT ![pid] = <<"task", r.task>>]
NotSpawned(r) ==
    /\ k' = IF r.kr = "KERN_SUCCESS" THEN TaskTerminate(r.k, r.task) ELSE r.k
    /\ UNCHANGED procs

\* A new task and a process for it, or neither.
Launch(ok) ==
    /\ InLoop
    /\ LET r == TaskCreate(k, ok)
       IN  \/ NotSpawned(r)
           \/ r.kr = "KERN_SUCCESS" /\ \E pid \in FreePids : Spawned(r, pid)
    /\ UNCHANGED <<held, call, phase>>

mxwl_launch_init(ok) == Launch(ok)

\* The child executes a temporary copy of the binary; a failed extraction is
\* one more way not to get a process.
mxwl_loader_load(ok) == Launch(ok)
-----------------------------------------------------------------------------
(* Ending tasks: kill(host_pid, SIGTERM), then waitpid(host_pid) *)

\* Mutant: the process is only waited for.
KilledNot(t) == procs

\* The signal is delivered to whatever runs under the recorded id.
Killed(t) ==
    LET pid == k.tasks[t].host_pid
    IN  [procs EXCEPT ![pid] = CASE @[1] = "task"  -> <<"dying", @[2]>>
                                 [] @[1] = "other" -> <<"killed", @[2]>>
                                 [] OTHER          -> @]

HasProcess(t) == k.tasks[t].host_pid \in Pids

\* waitpid has nothing to wait for: the id names no child of the kernel.
\* SIGCHLD is ignored, so a child that exits leaves no zombie behind.
ChildGone(t) == procs[k.tasks[t].host_pid][1] \notin {"task", "dying"}

\* Mutant: the slot is released while the process may still be running.
EndTaskNoWait(t, op) ==
    /\ call = Idle
    /\ procs' = IF HasProcess(t) THEN Killed(t) ELSE procs
    /\ k' = IF op = "cleanup" THEN k ELSE TaskTerminate(k, t)
    /\ UNCHANGED <<call, held, phase>>

\* Up to the blocking waitpid, or all of the call when there is no process.
EndTask(t, op) ==
    /\ call = Idle
    /\ \/ /\ HasProcess(t)
          /\ procs' = Killed(t)
          /\ call' = [op |-> op, task |-> t]
          /\ UNCHANGED k
       \/ /\ ~HasProcess(t)
          /\ k' = IF op = "cleanup" THEN k ELSE TaskTerminate(k, t)
          /\ UNCHANGED <<procs, call>>
    /\ UNCHANGED <<held, phase>>

\* waitpid returns and the rest of the call runs.
WaitReturns ==
    /\ call # Idle
    /\ ChildGone(call.task)
    /\ k' = IF call.op = "cleanup" THEN k ELSE TaskTerminate(k, call.task)
    /\ call' = Idle
    /\ UNCHANGED <<procs, held, phase>>

mxwl_task_terminate(t) ==
    /\ InLoop
    /\ t \in UserTasks
    /\ EndTask(t, "terminate")

\* mxwl_loader_cleanup: the same kill and wait, and nothing else.
mxwl_loader_cleanup(t) ==
    /\ InLoop
    /\ t \in UserTasks
    /\ EndTask(t, "cleanup")
-----------------------------------------------------------------------------
(* The dispatch loop *)

\* waitpid(-1, WNOHANG) until it returns no child.  A zombie is the only
\* thing it can return.
Zombies == {i \in Pids : procs[i][1] = "zombie"}
mxwl_kernel_loop_reap ==
    /\ InLoop
    /\ k' = [k EXCEPT !.tasks = [t \in TaskIds |->
                IF k.tasks[t].in_use /\ k.tasks[t].host_pid \in Zombies
                THEN [k.tasks[t] EXCEPT !.running = FALSE, !.terminated = TRUE]
                ELSE k.tasks[t]]]
    /\ procs' = [i \in Pids |-> IF i \in Zombies THEN <<"none", KernelTask>>
                                                 ELSE procs[i]]
    /\ UNCHANGED <<held, call, phase>>

\* SIGTERM or SIGINT: _mxwl_running is cleared and the loop ends.
_mxwl_signal_handler ==
    /\ InLoop
    /\ phase' = "shutdown"
    /\ UNCHANGED <<k, procs, held, call>>

HighestTask == CHOOSE t \in UserTasks : \A u \in UserTasks : u <= t

mxwl_kernel_shutdown ==
    /\ phase = "shutdown"
    /\ \/ UserTasks # {} /\ EndTask(HighestTask, "shutdown")
       \/ /\ UserTasks = {}
          /\ call = Idle
          /\ k' = [k EXCEPT !.ports = Closed(@, ipc_bootstrap_port)]
          /\ phase' = "down"
          /\ UNCHANGED <<procs, held, call>>
-----------------------------------------------------------------------------
(* Host processes *)

\* With SIGCHLD ignored the host frees the id at once.
ProcessExit(i) ==
    /\ procs[i][1] \in {"task", "dying"}
    /\ procs' = [procs EXCEPT ![i] = <<"none", KernelTask>>]
    /\ UNCHANGED <<k, held, call, phase>>

OtherProcess(i) ==
    /\ PidReuse
    /\ i \in FreePids
    /\ procs' = [procs EXCEPT ![i] = <<"other", KernelTask>>]
    /\ UNCHANGED <<k, held, call, phase>>

\* The process is down: the machine may stutter, nothing else happens.
Stopped == phase = "down" /\ UNCHANGED vars

Next ==
    \/ mach_port_allocate
    \/ \E p \in Names : mach_port_deallocate(p)
    \/ \E t \in TaskIds, n \in RightNames :
          \/ mxwl_task_remove_port(t, n)
          \/ \E p \in Names : mxwl_task_insert_port(t, n, p)
    \/ \E t \in TaskIds :
          \/ mxwl_thread_create(t)
          \/ mxwl_task_terminate(t)
          \/ mxwl_loader_cleanup(t)
    \/ \E ok \in BOOLEAN : \/ mxwl_task_create(ok)
                           \/ mxwl_launch_init(ok)
                           \/ mxwl_loader_load(ok)
    \/ mxwl_kernel_loop_reap
    \/ _mxwl_signal_handler
    \/ WaitReturns
    \/ mxwl_kernel_shutdown
    \/ \E i \in Pids : ProcessExit(i) \/ OtherProcess(i)
    \/ Stopped

\* The kernel thread keeps running, and a process that has been sent SIGTERM
\* exits (the default action of the signal).
Fairness ==
    /\ WF_vars(mxwl_kernel_loop_reap)
    /\ WF_vars(WaitReturns)
    /\ WF_vars(mxwl_kernel_shutdown)
    /\ \A i \in Pids : WF_vars(procs[i][1] = "dying" /\ ProcessExit(i))

Spec == Init /\ [][Next]_vars
FairSpec == Spec /\ Fairness
-----------------------------------------------------------------------------
(* Properties *)

\* Every table and every slot has the declared shape.
TypeOK == /\ DOMAIN k.ports \subseteq Names
          /\ k.tasks \in [TaskIds -> Task]
          /\ k.count \in 0 .. TASK_MAX
          /\ procs \in [Pids -> {"kernel", "task", "dying", "other", "killed",
                                 "none", "zombie"} \X TaskIds]
          /\ held \subseteq Names
          /\ call \in [op : {"none", "terminate", "cleanup", "shutdown"},
                       task : TaskIds]
          /\ phase \in {"loop", "shutdown", "down"}

\* mxwl_task_count is the number of slots in use, also after failed
\* launches: the guard of mxwl_task_create refuses exactly when the table is
\* full, and its search for a slot never comes back empty.
TaskCountExact == k.count = Cardinality(InUseTasks(k))

\* A port of task t, by any route.
TaskPorts(t) == RightObjects(k.tasks[t]) \cup {k.tasks[t].bootstrap_port}

\* As long as every port is given to one task only, each live port has
\* exactly one owner (the kernel, a task in use or a client) and each owned
\* port is live: no launch failure, removal, termination or shutdown leaks
\* a port or leaves a task with a port that is not its own.
PortsAccounted ==
    LET owned == UNION {TaskPorts(t) : t \in InUseTasks(k)}
        dead  == IF phase = "down" THEN {ipc_bootstrap_port} ELSE {}
    IN  /\ Live(k.ports) = (HostPorts \cup owned \cup held) \ dead
        /\ HostPorts \cap (owned \cup held) = {}
        /\ owned \cap held = {}
        /\ \A t \in InUseTasks(k) :
              /\ \A u \in InUseTasks(k) \ {t} : TaskPorts(t) \cap TaskPorts(u) = {}
              /\ Cardinality(TaskPorts(t)) = Len(k.tasks[t].rights) + 1

\* A host process always belongs to a slot that is in use and records its
\* id: a slot is released, and can be handed out again, only after waitpid
\* has seen its process go.
ProcessesOwned ==
    \A i \in Pids : procs[i][1] \in {"task", "dying"} =>
        /\ procs[i][2] \in UserTasks
        /\ k.tasks[procs[i][2]].host_pid = i

\* Once the shutdown has begun it ends, although it blocks in waitpid for
\* each remaining process, and it leaves no task and no process behind.
ShutdownCompletes ==
    phase = "shutdown" ~> /\ phase = "down"
                          /\ UserTasks = {}
                          /\ \A i \in Pids : procs[i][1] \notin {"task", "dying"}
-----------------------------------------------------------------------------
(* What the comments say of the table *)

\* task.h: "Bootstrap port -- every task gets one".  A task in use has a
\* live bootstrap port.
EveryTaskHasBootstrapPort ==
    phase # "down" =>
        \A t \in InUseTasks(k) : k.tasks[t].bootstrap_port \in Live(k.ports)

\* task.h: "a task maps to a host process (fork/exec)".  Ending a task
\* signals the process that was forked for it and no other.
SignalsOwnProcess == \A i \in Pids : procs[i][1] # "killed"
-----------------------------------------------------------------------------
\* The table, its counter, the ports of tasks and the host processes agree,
\* whichever launches fail, children exit and rights move: what the shutdown
\* of mach_kernel.c:150 and every look-up of task.c rely on.
TasksConsistent == TypeOK /\ TaskCountExact /\ PortsAccounted /\ ProcessesOwned
=============================================================================
