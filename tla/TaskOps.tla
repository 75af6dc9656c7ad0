------------------------------- MODULE TaskOps -------------------------------
(***************************************************************************)
(* The task table as a value.  A kernel value k holds the port space, the  *)
(* task table and the counter kept beside it; each operator is the effect  *)
(* of one function of task/task.c on such a value, so that the callers     *)
(* (dispatch loop, binary loader, server loader) can run several of them   *)
(* in one step.                                                            *)
(***************************************************************************)
EXTENDS PortOps, FiniteSets

CONSTANTS TASK_MAX,       \* slots of mxwl_task_table
          TASK_PORT_MAX,  \* port rights a task can hold
          THREAD_MAX,     \* threads a task can create
          RightNames,     \* names under which rights are inserted into tasks
          PID_MAX         \* host process ids are 1 .. PID_MAX

ASSUME TaskOpsAssumption ==
    /\ TASK_MAX \in Nat \ {0}
    /\ TASK_PORT_MAX \in Nat
    /\ THREAD_MAX \in Nat
    /\ PID_MAX \in Nat \ {0}

TaskIds == 0 .. TASK_MAX - 1
KernelTask == 0
Pids == 1 .. PID_MAX
KernelPid == 1
NoPid == -1

\* memset(task, 0, sizeof *task); the names of tasks are left out.
ZeroTask ==
    [in_use |-> FALSE, running |-> FALSE, terminated |-> FALSE,
     host_pid |-> 0, rights |-> <<>>, bootstrap_port |-> MACH_PORT_NULL,
     thread_count |-> 0]

\* A slot of the table.
Task == [in_use : BOOLEAN, running : BOOLEAN, terminated : BOOLEAN,
         host_pid : {NoPid, 0} \cup Pids,
         rights : Seq([name : RightNames, object : Names]),
         bootstrap_port : Names \cup {MACH_PORT_NULL},
         thread_count : 0 .. THREAD_MAX]

InUseTasks(k) == {t \in TaskIds : k.tasks[t].in_use}
FreeTasks(k) == TaskIds \ InUseTasks(k)
FirstFreeTask(k) == CHOOSE t \in FreeTasks(k) : \A u \in FreeTasks(k) : t <= u

\* mxwl_task_lookup(t) # NULL
TaskLookup(k, t) == t \in TaskIds /\ k.tasks[t].in_use

\* The table after mxwl_task_init: the kernel task holds the bootstrap port.
TaskInit(q, bootstrap, pid) ==
    [ports |-> q,
     tasks |-> [t \in TaskIds |->
                  IF t = KernelTask
                  THEN [ZeroTask EXCEPT !.in_use = TRUE, !.running = TRUE,
                                        !.host_pid = pid,
                                        !.bootstrap_port = bootstrap]
                  ELSE ZeroTask],
     count |-> 1]

NewTask(p) == [ZeroTask EXCEPT !.in_use = (p # MACH_PORT_NULL),
                               !.host_pid = NoPid, !.bootstrap_port = p]

\* Mutant: the counter is raised before the bootstrap port is allocated and
\* not lowered when that fails.
TaskCreateCountFirst(k, ok) ==
    IF k.count >= TASK_MAX \/ FreeTasks(k) = {}
    THEN [k |-> k, kr |-> "KERN_NO_SPACE", task |-> KernelTask]
    ELSE LET t == FirstFreeTask(k)
             p == IF ok /\ ~Full(k.ports) THEN FreshName(k.ports)
                                          ELSE MACH_PORT_NULL
         IN  [k |-> [ports |-> IF p = MACH_PORT_NULL THEN k.ports
                                                     ELSE Opened(k.ports, p),
                     tasks |-> [k.tasks EXCEPT ![t] = NewTask(p)],
                     count |-> k.count + 1],
              kr |-> IF p = MACH_PORT_NULL THEN "KERN_FAILURE"
                                           ELSE "KERN_SUCCESS",
              task |-> t]

\* mxwl_task_create: the kernel value after it, its code, and the slot it
\* chose.  ok is FALSE when no socket pair can be made for the new port.
TaskCreate(k, ok) ==
    IF k.count >= TASK_MAX \/ FreeTasks(k) = {}
    THEN [k |-> k, kr |-> "KERN_NO_SPACE", task |-> KernelTask]
    ELSE LET t == FirstFreeTask(k)
             p == IF ok /\ ~Full(k.ports) THEN FreshName(k.ports)
                                          ELSE MACH_PORT_NULL
         IN  IF p = MACH_PORT_NULL
             THEN [k |-> [k EXCEPT !.tasks[t] = NewTask(p)],
                   kr |-> "KERN_FAILURE", task |-> t]
             ELSE [k |-> [ports |-> Opened(k.ports, p),
                          tasks |-> [k.tasks EXCEPT ![t] = NewTask(p)],
                          count |-> k.count + 1],
                   kr |-> "KERN_SUCCESS", task |-> t]

RightObjects(task) == {task.rights[i].object : i \in DOMAIN task.rights}

\* mxwl_task_terminate once the host process is gone.  Closing a name that
\* is no longer live does nothing, so the order of the closes is immaterial.
TaskTerminate(k, t) ==
    [ports |-> [p \in Live(k.ports)
                     \ (RightObjects(k.tasks[t]) \cup {k.tasks[t].bootstrap_port})
                |-> k.ports[p]],
     tasks |-> [k.tasks EXCEPT ![t].running = FALSE, ![t].terminated = TRUE,
                               ![t].in_use = FALSE],
     count |-> k.count - 1]

CanInsertPort(k, t) == Len(k.tasks[t].rights) < TASK_PORT_MAX

TaskInsertPort(k, t, name, p) ==
    [k EXCEPT !.tasks[t].rights = Append(@, [name |-> name, object |-> p])]

\* Positions of the rights called name; the first is the one removed.
Matches(k, t, name) ==
    {i \in DOMAIN k.tasks[t].rights : k.tasks[t].rights[i].name = name}
FirstMatch(k, t, name) ==
    CHOOSE i \in Matches(k, t, name) : \A j \in Matches(k, t, name) : i <= j

\* Mutant: the shift starts one entry too late, so the right after the
\* removed one is the one that is lost.
ShiftedDownLate(s, i) ==
    [j \in 1 .. Len(s) - 1 |-> IF j <= i THEN s[j] ELSE s[j + 1]]

\* Mutant: the last entry is cleared and the count of rights is not lowered.
ShiftedDownKeepCount(s, i) ==
    [j \in DOMAIN s |-> CASE j < i -> s[j]
                          [] j >= i /\ j < Len(s) -> s[j + 1]
                          [] OTHER -> [name |-> MACH_PORT_NULL,
                                       object |-> MACH_PORT_NULL]]

ShiftedDown(s, i) ==
    [j \in 1 .. Len(s) - 1 |-> IF j < i THEN s[j] ELSE s[j + 1]]

TaskRemovePort(k, t, name) ==
    [k EXCEPT !.tasks[t].rights = ShiftedDown(@, FirstMatch(k, t, name))]

\* thread_count only grows: mxwl_thread_terminate frees the structure and
\* leaves the task as it is.  The flags of a thread are read nowhere.
CanCreateThread(k, t) == k.tasks[t].thread_count < THREAD_MAX
ThreadCreate(k, t) == [k EXCEPT !.tasks[t].thread_count = @ + 1]
=============================================================================
