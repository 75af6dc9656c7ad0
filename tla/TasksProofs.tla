---------------------------- MODULE TasksProofs ----------------------------
(***************************************************************************)
(* Proofs about the task table, for every size of the tables and every     *)
(* number of host processes: the table, its counter, the ports of the      *)
(* tasks and the host processes agree (TasksConsistent).                   *)
(***************************************************************************)
EXTENDS Tasks, TaskOpsProofs

\* The shutdown takes a user task.
LEMMA HighestTaskOK ==
    ASSUME UserTasks # {}
    PROVE  HighestTask \in UserTasks
<1>1. TASK_MAX - 1 \in Nat /\ UserTasks \in SUBSET (0 .. TASK_MAX - 1)
  BY TaskOpsAssumption DEF UserTasks, InUseTasks, TaskIds
<1>2. \E t \in UserTasks : \A u \in UserTasks : u <= t
  BY <1>1, GreatestElement
<1> QED  BY <1>2 DEF HighestTask

\* fork: the parent notes the process id in the task.
Forked(s, t, pid) ==
    [s EXCEPT !.tasks[t].host_pid = pid, !.tasks[t].running = TRUE]

\* Noting the process id changes nothing else that is looked at here.
LEMMA SpawnOK ==
    ASSUME NEW s, IsKernel(s), NEW t \in TaskIds, NEW pid \in Pids
    PROVE  LET r == Forked(s, t, pid)
           IN  /\ IsKernel(r) /\ r.ports = s.ports /\ InUseTasks(r) = InUseTasks(s)
               /\ r.tasks[t].host_pid = pid
               /\ r.tasks[t].rights = s.tasks[t].rights
               /\ r.tasks[t].bootstrap_port = s.tasks[t].bootstrap_port
               /\ \A u \in TaskIds : u # t => r.tasks[u] = s.tasks[u]
<1> DEFINE e == [s.tasks[t] EXCEPT !.host_pid = pid, !.running = TRUE]
           r == [s EXCEPT !.tasks[t] = e]
<1>1. s.tasks[t] \in Task /\ s.tasks \in [TaskIds -> Task]
  BY DEF IsKernel
<1>2. /\ e \in Task /\ e.in_use = s.tasks[t].in_use /\ e.rights = s.tasks[t].rights
      /\ e.bootstrap_port = s.tasks[t].bootstrap_port
      /\ e.host_pid = pid
  BY <1>1 DEF Task
<1>3. r = Forked(s, t, pid)
  BY <1>1 DEF IsKernel, Forked
<1>4. /\ IsKernel(r) /\ r.ports = s.ports /\ InUseTasks(r) = InUseTasks(s)
      /\ r.tasks = [s.tasks EXCEPT ![t] = e]
  <2> HIDE DEF e
  <2> QED  BY <1>2, EntryOK
<1> HIDE DEF r, e
<1>5. /\ r.tasks[t] = e
      /\ \A u \in TaskIds : u # t => r.tasks[u] = s.tasks[u]
  BY <1>1, <1>4
<1> QED  BY <1>2, <1>3, <1>4, <1>5

\* The reap loop marks the tasks whose process was waited for.
LEMMA ReapOK ==
    ASSUME NEW s, IsKernel(s), NEW Z
    PROVE  LET T == [t \in TaskIds |->
                       IF s.tasks[t].in_use /\ s.tasks[t].host_pid \in Z
                       THEN [s.tasks[t] EXCEPT !.running = FALSE, !.terminated = TRUE]
                       ELSE s.tasks[t]]
               r == [s EXCEPT !.tasks = T]
           IN  /\ IsKernel(r) /\ r.ports = s.ports /\ InUseTasks(r) = InUseTasks(s)
               /\ \A u \in TaskIds : SameEntry(s, r, u)
<1> DEFINE T == [t \in TaskIds |->
                   IF s.tasks[t].in_use /\ s.tasks[t].host_pid \in Z
                   THEN [s.tasks[t] EXCEPT !.running = FALSE, !.terminated = TRUE]
                   ELSE s.tasks[t]]
           r == [s EXCEPT !.tasks = T]
<1>1. s.tasks \in [TaskIds -> Task] /\ DOMAIN s.ports \subseteq Names
  BY DEF IsKernel
<1>2. ASSUME NEW e \in Task
      PROVE  LET f == [e EXCEPT !.running = FALSE, !.terminated = TRUE]
             IN  /\ f \in Task /\ f.in_use = e.in_use /\ f.rights = e.rights
                 /\ f.bootstrap_port = e.bootstrap_port /\ f.host_pid = e.host_pid
  BY DEF Task
<1>3. ASSUME NEW u \in TaskIds
      PROVE  /\ T[u] \in Task /\ T[u].in_use = s.tasks[u].in_use
             /\ T[u].rights = s.tasks[u].rights
             /\ T[u].bootstrap_port = s.tasks[u].bootstrap_port
             /\ T[u].host_pid = s.tasks[u].host_pid
  BY <1>1, <1>2
<1>4. T \in [TaskIds -> Task]
  BY <1>3
<1>5. r = [ports |-> s.ports, tasks |-> T, count |-> s.count]
  <2> HIDE DEF T
  <2> QED  BY DEF IsKernel
<1>6. r.ports = s.ports /\ r.tasks = T
  BY <1>5
<1>7. IsKernel(r) /\ InUseTasks(r) = InUseTasks(s)
  <2> HIDE DEF r, T
  <2> QED  BY <1>1, <1>3, <1>4, <1>5, SameSlots
<1>8. \A u \in TaskIds : SameEntry(s, r, u)
  BY <1>3, <1>6 DEF SameEntry
<1> QED  BY <1>6, <1>7, <1>8
-----------------------------------------------------------------------------
(* The inductive invariant: table, processes and the blocked call *)

\* The kernel task is never ended and keeps the name service port.
KernelStays ==
    /\ KernelTask \in InUseTasks(k)
    /\ k.tasks[KernelTask].bootstrap_port = ipc_bootstrap_port

\* While the kernel waits for a child, the task of the child stays as it is;
\* after the shutdown nothing is waited for.
CallPending ==
    /\ call # Idle => /\ call.task \in UserTasks
                      /\ k.tasks[call.task].host_pid \in Pids
    /\ phase = "down" => call = Idle

ControlOK ==
    /\ procs \in [Pids -> {"kernel", "task", "dying", "other", "killed",
                           "none", "zombie"} \X TaskIds]
    /\ held \subseteq Names
    /\ call \in [op : {"none", "terminate", "cleanup", "shutdown"}, task : TaskIds]
    /\ phase \in {"loop", "shutdown", "down"}

KInv == IsKernel(k) /\ ControlOK /\ ProcessesOwned /\ KernelStays /\ CallPending

\* Entries in use stay in use with the same process and bootstrap port: a
\* step that touches nothing else keeps the invariant.
LEMMA KeepsKInv ==
    ASSUME KInv, IsKernel(k'), InUseTasks(k') = InUseTasks(k),
           \A t \in InUseTasks(k) :
              /\ k'.tasks[t].host_pid = k.tasks[t].host_pid
              /\ k'.tasks[t].bootstrap_port = k.tasks[t].bootstrap_port,
           UNCHANGED <<procs, call>>, held' \subseteq Names,
           phase' = phase \/ (phase' \in {"loop", "shutdown", "down"} /\ call = Idle)
    PROVE  KInv'
<1>1. UserTasks' = UserTasks /\ UserTasks \subseteq InUseTasks(k)
  BY DEF UserTasks
<1>2. ControlOK'
  BY DEF KInv, ControlOK
<1>3. ProcessesOwned'
  BY <1>1 DEF KInv, ProcessesOwned
<1>4. KernelStays'
  BY DEF KInv, KernelStays
<1>5. CallPending'
  BY <1>1 DEF KInv, CallPending
<1> QED  BY <1>2, <1>3, <1>4, <1>5 DEF KInv

\* kernel_init makes three ports and the kernel task.
LEMMA InitKInv == Init => KInv
<1> SUFFICES ASSUME Init PROVE KInv
  OBVIOUS
<1> DEFINE q == [p \in KernelPorts |-> <<>>]
<1>1. k = TaskInit(q, ipc_bootstrap_port, KernelPid)
  BY DEF Init
<1>2. /\ KernelTask \in TaskIds /\ KernelPid \in Pids
      /\ DOMAIN q \subseteq Names /\ ipc_bootstrap_port \in Names
  BY TaskOpsAssumption, TasksAssumption, PortOpsAssumption
     DEF KernelTask, TaskIds, KernelPid, Pids, KernelPorts, HostPorts,
         ipc_bootstrap_port, Names
<1> HIDE DEF q
<1>3. /\ IsKernel(k) /\ InUseTasks(k) = {KernelTask}
      /\ k.tasks[KernelTask].bootstrap_port = ipc_bootstrap_port
  BY <1>1, <1>2, TaskInitOK
<1>4. ControlOK
  BY <1>2 DEF Init, ControlOK, Idle
<1>5. ProcessesOwned
  BY DEF Init, ProcessesOwned
<1>6. KernelStays /\ CallPending
  BY <1>3 DEF Init, KernelStays, CallPending
<1> QED  BY <1>3, <1>4, <1>5, <1>6 DEF KInv

\* Ending a task that no process belongs to any more.
LEMMA EndKInv ==
    ASSUME KInv, NEW t \in UserTasks, k' = TaskTerminate(k, t),
           \A i \in Pids : procs[i][1] \in {"task", "dying"} => procs[i][2] # t,
           call = Idle \/ call.task = t, call' = Idle,
           UNCHANGED <<procs, held, phase>>
    PROVE  KInv'
<1>1. t \in InUseTasks(k) /\ t # KernelTask
  BY DEF UserTasks
<1>2. /\ IsKernel(k') /\ InUseTasks(k') = InUseTasks(k) \ {t}
      /\ \A u \in TaskIds : SameEntry(k, k', u)
  BY <1>1, TerminateOK DEF KInv
<1>3. UserTasks' = UserTasks \ {t} /\ InUseTasks(k) \subseteq TaskIds
  BY <1>2 DEF UserTasks, InUseTasks
<1>4. ControlOK'
  BY TaskOpsAssumption DEF KInv, ControlOK, Idle, KernelTask, TaskIds
<1>5. ProcessesOwned'
  <2> SUFFICES ASSUME NEW i \in Pids, procs[i][1] \in {"task", "dying"}
               PROVE  procs[i][2] \in UserTasks' /\ k'.tasks[procs[i][2]].host_pid = i
    BY DEF ProcessesOwned
  <2>1. procs[i][2] \in UserTasks \ {t} /\ k.tasks[procs[i][2]].host_pid = i
    BY DEF KInv, ProcessesOwned
  <2>2. SameEntry(k, k', procs[i][2])
    BY <1>2, <1>3, <2>1 DEF UserTasks
  <2> QED  BY <1>3, <2>1, <2>2 DEF SameEntry
<1>6. KernelStays'
  <2>1. SameEntry(k, k', KernelTask) /\ KernelTask \in InUseTasks(k')
    BY <1>1, <1>2, <1>3 DEF KInv, KernelStays
  <2> QED  BY <2>1 DEF KInv, KernelStays, SameEntry
<1>7. CallPending'
  BY DEF KInv, CallPending
<1> QED  BY <1>2, <1>4, <1>5, <1>6, <1>7 DEF KInv

\* A kill leaves every process where it is, or marks it as dying.
LEMMA KilledKInv ==
    ASSUME KInv, NEW t \in UserTasks, HasProcess(t), procs' = Killed(t),
           call = Idle, call' \in [op : {"terminate", "cleanup", "shutdown"}, task : {t}],
           phase # "down", UNCHANGED <<k, held, phase>>
    PROVE  KInv'
<1>1. k.tasks[t].host_pid \in Pids /\ t \in TaskIds
  BY DEF HasProcess, UserTasks, InUseTasks
<1>2. ASSUME NEW i \in Pids
      PROVE  /\ procs'[i] \in {"kernel", "task", "dying", "other", "killed",
                                "none", "zombie"} \X TaskIds
             /\ procs'[i][2] = procs[i][2]
             /\ procs'[i][1] \in {"task", "dying"} => procs[i][1] \in {"task", "dying"}
  BY <1>1 DEF Killed, KInv, ControlOK
<1>3. procs' \in [Pids -> {"kernel", "task", "dying", "other", "killed",
                           "none", "zombie"} \X TaskIds]
  <2>1. procs' = [i \in Pids |-> procs'[i]]
    BY <1>1 DEF Killed, KInv, ControlOK
  <2> QED  BY <1>2, <2>1
<1>4. ControlOK'
  BY <1>1, <1>3 DEF KInv, ControlOK
<1>5. ProcessesOwned'
  BY <1>2 DEF KInv, ProcessesOwned, UserTasks
<1>6. KernelStays' /\ CallPending' /\ IsKernel(k')
  BY <1>1 DEF KInv, KernelStays, CallPending, UserTasks
<1> QED  BY <1>4, <1>5, <1>6 DEF KInv

\* mxwl_task_terminate, mxwl_loader_cleanup and the shutdown, up to waitpid.
LEMMA EndTaskKInv ==
    ASSUME KInv, phase # "down", NEW t \in UserTasks,
           NEW op \in {"terminate", "cleanup", "shutdown"}, EndTask(t, op)
    PROVE  KInv'
<1>1. CASE HasProcess(t) /\ procs' = Killed(t) /\ call' = [op |-> op, task |-> t]
           /\ UNCHANGED <<k, held, phase>>
  BY <1>1, KilledKInv DEF EndTask
<1>2. CASE /\ ~HasProcess(t) /\ UNCHANGED <<procs, call, held, phase>>
           /\ k' = IF op = "cleanup" THEN k ELSE TaskTerminate(k, t)
  <2>1. CASE k' = k
    BY <1>2, <2>1, KeepsKInv DEF KInv, ControlOK
  <2>2. CASE k' = TaskTerminate(k, t)
    <3>1. \A i \in Pids : procs[i][1] \in {"task", "dying"} => procs[i][2] # t
      BY <1>2 DEF HasProcess, KInv, ProcessesOwned
    <3>2. call = Idle /\ call' = Idle
      BY <1>2 DEF EndTask
    <3> QED  BY <1>2, <2>2, <3>1, <3>2, EndKInv
  <2> QED  BY <1>2, <2>1, <2>2
<1> QED  BY <1>1, <1>2 DEF EndTask

\* waitpid returns: the process of the task is gone.
LEMMA WaitKInv ==
    ASSUME KInv, WaitReturns
    PROVE  KInv'
<1>1. call.task \in UserTasks /\ call' = Idle /\ UNCHANGED <<procs, held, phase>>
  BY DEF WaitReturns, KInv, CallPending
<1>2. CASE k' = k
  <2>1. ControlOK' /\ CallPending'
    BY <1>1, TaskOpsAssumption
       DEF KInv, ControlOK, CallPending, Idle, KernelTask, TaskIds
  <2>2. ProcessesOwned' /\ KernelStays' /\ IsKernel(k')
    BY <1>1, <1>2 DEF KInv, ProcessesOwned, KernelStays, UserTasks
  <2> QED  BY <2>1, <2>2 DEF KInv
<1>3. CASE k' = TaskTerminate(k, call.task)
  <2>1. \A i \in Pids : procs[i][1] \in {"task", "dying"} => procs[i][2] # call.task
    BY DEF WaitReturns, ChildGone, KInv, ProcessesOwned
  <2> QED  BY <1>1, <1>3, <2>1, EndKInv
<1> QED  BY <1>2, <1>3 DEF WaitReturns

\* What mxwl_task_create leaves to its callers: the entries in use are as
\* before, and a new one, if any, is a user task.
LEMMA CreatedKInv ==
    ASSUME KInv, NEW ok
    PROVE  LET r == TaskCreate(k, ok)
           IN  /\ IsKernel(r.k)
               /\ \A t \in InUseTasks(k) : r.k.tasks[t] = k.tasks[t]
               /\ r.kr # "KERN_SUCCESS" => InUseTasks(r.k) = InUseTasks(k)
               /\ r.kr = "KERN_SUCCESS" => /\ r.task \in TaskIds \ InUseTasks(k)
                                           /\ InUseTasks(r.k) = InUseTasks(k) \cup {r.task}
<1> DEFINE r == TaskCreate(k, ok)
<1>1. /\ k = [ports |-> k.ports, tasks |-> k.tasks, count |-> k.count]
      /\ k.tasks \in [TaskIds -> Task] /\ IsKernel(k)
      /\ InUseTasks(k) \subseteq TaskIds
  BY DEF KInv, IsKernel, InUseTasks
<1>2. /\ IsKernel(r.k)
      /\ \/ r.kr # "KERN_SUCCESS" /\ r.k = k
         \/ /\ r.kr # "KERN_SUCCESS"
            /\ \E t \in TaskIds \ InUseTasks(k) :
                  r.k = [k EXCEPT !.tasks[t] = NewTask(MACH_PORT_NULL)]
            /\ InUseTasks(r.k) = InUseTasks(k)
         \/ /\ r.kr = "KERN_SUCCESS"
            /\ r.task \in TaskIds \ InUseTasks(k)
            /\ InUseTasks(r.k) = InUseTasks(k) \cup {r.task}
            /\ \E p \in Names \ DOMAIN k.ports :
                  r.k = [ports |-> Opened(k.ports, p),
                         tasks |-> [k.tasks EXCEPT ![r.task] = NewTask(p)],
                         count |-> k.count + 1]
  <2> HIDE DEF r
  <2> QED  BY <1>1, CreateOK DEF r
<1> HIDE DEF r
<1>3. CASE \E t \in TaskIds \ InUseTasks(k) :
              r.k = [k EXCEPT !.tasks[t] = NewTask(MACH_PORT_NULL)]
  <2>1. PICK t \in TaskIds \ InUseTasks(k) :
              r.k = [k EXCEPT !.tasks[t] = NewTask(MACH_PORT_NULL)]
    BY <1>3
  <2>2. r.k.tasks = [k.tasks EXCEPT ![t] = NewTask(MACH_PORT_NULL)]
    BY <1>1, <2>1
  <2>3. \A u \in InUseTasks(k) : r.k.tasks[u] = k.tasks[u]
    BY <1>1, <2>2
  <2> QED  BY <1>2, <2>3 DEF r
<1>4. CASE \E p \in Names \ DOMAIN k.ports :
              r.k = [ports |-> Opened(k.ports, p),
                     tasks |-> [k.tasks EXCEPT ![r.task] = NewTask(p)],
                     count |-> k.count + 1]
           /\ r.task \in TaskIds \ InUseTasks(k)
  <2>1. PICK p : r.k.tasks = [k.tasks EXCEPT ![r.task] = NewTask(p)]
    BY <1>4
  <2>2. \A u \in InUseTasks(k) : r.k.tasks[u] = k.tasks[u]
    BY <1>1, <1>4, <2>1
  <2> QED  BY <1>2, <2>2 DEF r
<1> QED  BY <1>1, <1>2, <1>3, <1>4 DEF r

\* A new task with a process, or neither.
LEMMA LaunchKInv ==
    ASSUME KInv, NEW ok, Launch(ok)
    PROVE  KInv'
<1> DEFINE r == TaskCreate(k, ok)
<1>1. /\ IsKernel(r.k)
      /\ \A t \in InUseTasks(k) : r.k.tasks[t] = k.tasks[t]
      /\ r.kr # "KERN_SUCCESS" => InUseTasks(r.k) = InUseTasks(k)
      /\ r.kr = "KERN_SUCCESS" => /\ r.task \in TaskIds \ InUseTasks(k)
                                  /\ InUseTasks(r.k) = InUseTasks(k) \cup {r.task}
  BY CreatedKInv
<1>2. UNCHANGED <<held, call, phase>> /\ InUseTasks(k) \subseteq TaskIds /\ call = Idle
      /\ held \subseteq Names
  BY DEF Launch, InLoop, InUseTasks, KInv, ControlOK
<1>3. \/ NotSpawned(r)
      \/ r.kr = "KERN_SUCCESS" /\ \E pid \in FreePids : Spawned(r, pid)
  BY DEF Launch
<1> HIDE DEF r
<1>4. CASE NotSpawned(r) /\ r.kr # "KERN_SUCCESS"
  BY <1>1, <1>2, <1>4, KeepsKInv DEF NotSpawned
<1>5. CASE NotSpawned(r) /\ r.kr = "KERN_SUCCESS"
  <2>1. k' = TaskTerminate(r.k, r.task) /\ procs' = procs
    BY <1>5 DEF NotSpawned
  <2>2. /\ IsKernel(k') /\ InUseTasks(k') = InUseTasks(r.k) \ {r.task}
        /\ \A u \in TaskIds : SameEntry(r.k, k', u)
    BY <1>1, <1>5, <2>1, TerminateOK
  <2>3. InUseTasks(k') = InUseTasks(k)
    BY <1>1, <1>5, <2>2
  <2>4. \A t \in InUseTasks(k) : /\ k'.tasks[t].host_pid = k.tasks[t].host_pid
                                 /\ k'.tasks[t].bootstrap_port = k.tasks[t].bootstrap_port
    BY <1>1, <1>2, <2>2 DEF SameEntry
  <2> QED  BY <1>2, <2>1, <2>2, <2>3, <2>4, KeepsKInv
<1>6. CASE r.kr = "KERN_SUCCESS" /\ \E pid \in FreePids : Spawned(r, pid)
  <2>1. PICK pid \in FreePids : Spawned(r, pid)
    BY <1>6
  <2>2. /\ k' = [r.k EXCEPT !.tasks[r.task].host_pid = pid,
                            !.tasks[r.task].running = TRUE]
        /\ procs' = [procs EXCEPT ![pid] = <<"task", r.task>>]
        /\ pid \in Pids /\ procs[pid][1] = "none" /\ r.task \in TaskIds
    BY <1>1, <1>6, <2>1 DEF Spawned, FreePids
  <2>3. /\ IsKernel(k') /\ InUseTasks(k') = InUseTasks(r.k)
        /\ k'.tasks[r.task].host_pid = pid
        /\ \A u \in TaskIds : u # r.task => k'.tasks[u] = r.k.tasks[u]
    <3>1. k' = Forked(r.k, r.task, pid)
      BY <2>2 DEF Forked
    <3>2. IsKernel(r.k) /\ r.task \in TaskIds /\ pid \in Pids
      BY <1>1, <2>2
    <3> QED  BY <3>1, <3>2, SpawnOK
  <2>4. /\ InUseTasks(k') = InUseTasks(k) \cup {r.task} /\ r.task \notin InUseTasks(k)
        /\ \A u \in InUseTasks(k) : k'.tasks[u] = k.tasks[u]
    BY <1>1, <1>2, <1>6, <2>3
  <2>5. UserTasks' = UserTasks \cup {r.task}
    BY <2>4 DEF UserTasks, KInv, KernelStays
  <2>6. ControlOK'
    BY <1>2, <2>2 DEF KInv, ControlOK
  <2>7. ProcessesOwned'
    <3> SUFFICES ASSUME NEW i \in Pids, procs'[i][1] \in {"task", "dying"}
                 PROVE  /\ procs'[i][2] \in UserTasks'
                        /\ k'.tasks[procs'[i][2]].host_pid = i
      BY DEF ProcessesOwned
    <3>1. CASE i = pid
      BY <2>2, <2>3, <2>5, <3>1 DEF KInv, ControlOK
    <3>2. CASE i # pid
      <4>1. procs'[i] = procs[i]
        BY <2>2, <3>2 DEF KInv, ControlOK
      <4>2. procs[i][2] \in UserTasks /\ k.tasks[procs[i][2]].host_pid = i
        BY <4>1 DEF KInv, ProcessesOwned
      <4> QED  BY <2>4, <2>5, <4>1, <4>2 DEF UserTasks
    <3> QED  BY <3>1, <3>2
  <2>8. KernelStays'
    BY <2>4 DEF KInv, KernelStays
  <2>9. CallPending'
    BY <1>2, <2>4, <2>5 DEF KInv, CallPending, UserTasks
  <2> QED  BY <2>3, <2>6, <2>7, <2>8, <2>9 DEF KInv
<1> QED  BY <1>3, <1>4, <1>5, <1>6

\* Every step of the kernel and of the host keeps the invariant.
LEMMA NextKInv == KInv /\ [Next]_vars => KInv'
<1> SUFFICES ASSUME KInv, [Next]_vars PROVE KInv'
  OBVIOUS
<1>0. /\ IsKernel(k) /\ k = [ports |-> k.ports, tasks |-> k.tasks, count |-> k.count]
      /\ DOMAIN k.ports \subseteq Names /\ held \subseteq Names
      /\ InUseTasks(k) \subseteq TaskIds
  BY DEF KInv, IsKernel, ControlOK, InUseTasks
<1>1. CASE mach_port_allocate
  <2> DEFINE q == Opened(k.ports, FreshName(k.ports))
  <2>1. FreshName(k.ports) \in Names
    BY <1>0, <1>1, FreshNameOK DEF mach_port_allocate
  <2>2. DOMAIN q \subseteq Names
    BY <1>0, <2>1 DEF Opened
  <2>3. k' = [k EXCEPT !.ports = q] /\ UNCHANGED <<procs, call, phase>>
        /\ held' \subseteq Names
    BY <1>0, <1>1, <2>1 DEF mach_port_allocate
  <2> HIDE DEF q
  <2>4. IsKernel(k') /\ k'.tasks = k.tasks /\ InUseTasks(k') = InUseTasks(k)
    BY <1>0, <2>2, <2>3, PortsOK
  <2> QED  BY <2>3, <2>4, KeepsKInv
<1>2. ASSUME NEW p \in Names, mach_port_deallocate(p) PROVE KInv'
  <2> DEFINE q == Closed(k.ports, p)
  <2>1. DOMAIN q \subseteq Names
    BY <1>0 DEF Closed
  <2>2. k' = [k EXCEPT !.ports = q] /\ UNCHANGED <<procs, call, phase>>
        /\ held' \subseteq Names
    BY <1>0, <1>2 DEF mach_port_deallocate
  <2> HIDE DEF q
  <2>3. IsKernel(k') /\ k'.tasks = k.tasks /\ InUseTasks(k') = InUseTasks(k)
    BY <1>0, <2>1, <2>2, PortsOK
  <2> QED  BY <2>2, <2>3, KeepsKInv
<1>3. ASSUME NEW t \in TaskIds, NEW n \in RightNames, mxwl_task_remove_port(t, n)
      PROVE  KInv'
  <2> DEFINE i == FirstMatch(k, t, n)
             z == ShiftedDown(k.tasks[t].rights, i)
  <2>1. k.tasks[t].rights \in Seq(Right)
    BY DEF KInv, IsKernel, Task, Right
  <2>2. i \in DOMAIN k.tasks[t].rights
    BY <1>3, <2>1, FirstMatchOK DEF mxwl_task_remove_port
  <2>3. z \in Seq(Right) /\ k.tasks[t].rights[i].object \in Names
    <3>1. k.tasks[t].rights[i] \in Right
      <4> HIDE DEF i
      <4> QED  BY <2>1, <2>2
    <3>2. z \in Seq(Right)
      <4> HIDE DEF i
      <4> QED  BY <2>1, <2>2, ShiftedDownOK
    <3> QED  BY <3>1, <3>2 DEF Right
  <2>4. k' = [k EXCEPT !.tasks[t].rights = z] /\ UNCHANGED <<procs, call, phase>>
        /\ held' \subseteq Names
    BY <1>0, <1>3, <2>3 DEF mxwl_task_remove_port, TaskRemovePort
  <2> HIDE DEF z, i
  <2>5. /\ IsKernel(k') /\ InUseTasks(k') = InUseTasks(k)
        /\ k'.tasks[t].bootstrap_port = k.tasks[t].bootstrap_port
        /\ \A u \in TaskIds : /\ u # t => k'.tasks[u] = k.tasks[u]
                               /\ k'.tasks[u].host_pid = k.tasks[u].host_pid
    BY <1>0, <2>3, <2>4, RightsOK
  <2> QED  BY <1>0, <2>4, <2>5, KeepsKInv
<1>4. ASSUME NEW t \in TaskIds, NEW n \in RightNames, NEW p \in Names,
             mxwl_task_insert_port(t, n, p)
      PROVE  KInv'
  <2> DEFINE z == Append(k.tasks[t].rights, [name |-> n, object |-> p])
  <2>1. z \in Seq(Right)
    <3>1. k.tasks[t].rights \in Seq(Right)
      BY DEF KInv, IsKernel, Task, Right
    <3>2. [name |-> n, object |-> p] \in Right
      BY DEF Right
    <3> QED  BY <3>1, <3>2
  <2>2. k' = [k EXCEPT !.tasks[t].rights = z] /\ UNCHANGED <<procs, call, phase>>
        /\ held' \subseteq Names
    BY <1>0, <1>4 DEF mxwl_task_insert_port, TaskInsertPort
  <2> HIDE DEF z
  <2>3. /\ IsKernel(k') /\ InUseTasks(k') = InUseTasks(k)
        /\ k'.tasks[t].bootstrap_port = k.tasks[t].bootstrap_port
        /\ \A u \in TaskIds : /\ u # t => k'.tasks[u] = k.tasks[u]
                               /\ k'.tasks[u].host_pid = k.tasks[u].host_pid
    BY <1>0, <2>1, <2>2, RightsOK
  <2> QED  BY <1>0, <2>2, <2>3, KeepsKInv
<1>5. ASSUME NEW t \in TaskIds, mxwl_thread_create(t) PROVE KInv'
  <2>1. k' = ThreadCreate(k, t) /\ CanCreateThread(k, t)
        /\ UNCHANGED <<procs, call, phase, held>>
    BY <1>5 DEF mxwl_thread_create
  <2>2. IsKernel(k') /\ InUseTasks(k') = InUseTasks(k)
        /\ \A u \in TaskIds : SameEntry(k, k', u)
    BY <1>0, <2>1, ThreadOK
  <2> QED  BY <1>0, <2>1, <2>2, KeepsKInv DEF SameEntry
<1>6. ASSUME NEW t \in TaskIds, mxwl_task_terminate(t) \/ mxwl_loader_cleanup(t)
      PROVE  KInv'
  BY <1>6, EndTaskKInv DEF mxwl_task_terminate, mxwl_loader_cleanup, InLoop
<1>7. ASSUME NEW ok \in BOOLEAN, mxwl_task_create(ok) PROVE KInv'
  <2> DEFINE r == TaskCreate(k, ok)
  <2>1. k' = r.k /\ UNCHANGED <<procs, held, call, phase>> /\ call = Idle
    BY <1>7 DEF mxwl_task_create, InLoop
  <2>2. /\ IsKernel(r.k)
        /\ \A t \in InUseTasks(k) : r.k.tasks[t] = k.tasks[t]
        /\ r.kr # "KERN_SUCCESS" => InUseTasks(r.k) = InUseTasks(k)
        /\ r.kr = "KERN_SUCCESS" => /\ r.task \in TaskIds \ InUseTasks(k)
                                    /\ InUseTasks(r.k) = InUseTasks(k) \cup {r.task}
    BY CreatedKInv
  <2> HIDE DEF r
  <2>3. /\ InUseTasks(k) \subseteq InUseTasks(k')
        /\ \A t \in InUseTasks(k) : k'.tasks[t] = k.tasks[t]
    BY <2>1, <2>2
  <2>4. UserTasks \subseteq UserTasks' /\ UserTasks \subseteq InUseTasks(k)
    BY <2>3 DEF UserTasks
  <2>5. ProcessesOwned'
    BY <2>1, <2>3, <2>4 DEF KInv, ProcessesOwned
  <2>6. ControlOK' /\ KernelStays' /\ CallPending'
    BY <2>1, <2>3 DEF KInv, ControlOK, KernelStays, CallPending
  <2> QED  BY <2>1, <2>2, <2>5, <2>6 DEF KInv
<1>8. ASSUME NEW ok \in BOOLEAN, mxwl_launch_init(ok) \/ mxwl_loader_load(ok)
      PROVE  KInv'
  BY <1>8, LaunchKInv DEF mxwl_launch_init, mxwl_loader_load
<1>9. CASE mxwl_kernel_loop_reap
  <2> DEFINE T == [t \in TaskIds |->
                     IF k.tasks[t].in_use /\ k.tasks[t].host_pid \in Zombies
                     THEN [k.tasks[t] EXCEPT !.running = FALSE, !.terminated = TRUE]
                     ELSE k.tasks[t]]
  <2>1. k' = [k EXCEPT !.tasks = T] /\ UNCHANGED <<held, call, phase>> /\ call = Idle
    BY <1>9 DEF mxwl_kernel_loop_reap, InLoop
  <2>2. /\ IsKernel(k') /\ InUseTasks(k') = InUseTasks(k)
        /\ \A u \in TaskIds : SameEntry(k, k', u)
    BY <1>0, <2>1, ReapOK
  <2>3. procs' = [i \in Pids |-> IF i \in Zombies THEN <<"none", KernelTask>> ELSE procs[i]]
    BY <1>9 DEF mxwl_kernel_loop_reap
  <2> HIDE DEF T
  <2>4. ControlOK'
    <3>1. <<"none", KernelTask>> \in {"kernel", "task", "dying", "other", "killed",
                                     "none", "zombie"} \X TaskIds
      BY TaskOpsAssumption DEF KernelTask, TaskIds
    <3>2. procs' \in [Pids -> {"kernel", "task", "dying", "other", "killed",
                              "none", "zombie"} \X TaskIds]
      BY <2>3, <3>1 DEF KInv, ControlOK
    <3> QED  BY <2>1, <3>2 DEF KInv, ControlOK
  <2>5. UserTasks' = UserTasks /\ UserTasks \subseteq TaskIds
    BY <1>0, <2>2 DEF UserTasks
  <2>6. ProcessesOwned'
    BY <2>2, <2>3, <2>5 DEF KInv, ProcessesOwned, SameEntry
  <2>7. KernelStays' /\ CallPending'
    BY <1>0, <2>1, <2>2 DEF KInv, KernelStays, CallPending, SameEntry
  <2> QED  BY <2>2, <2>4, <2>6, <2>7 DEF KInv
<1>10. CASE _mxwl_signal_handler
  BY <1>0, <1>10, KeepsKInv DEF _mxwl_signal_handler, InLoop
<1>11. CASE WaitReturns
  BY <1>11, WaitKInv
<1>12. CASE mxwl_kernel_shutdown
  <2>1. CASE UserTasks # {} /\ EndTask(HighestTask, "shutdown")
    BY <1>12, <2>1, HighestTaskOK, EndTaskKInv DEF mxwl_kernel_shutdown
  <2>2. CASE /\ call = Idle
             /\ k' = [k EXCEPT !.ports = Closed(@, ipc_bootstrap_port)]
             /\ phase' = "down"
             /\ UNCHANGED <<procs, held, call>>
    <3> DEFINE q == Closed(k.ports, ipc_bootstrap_port)
    <3>1. DOMAIN q \subseteq Names
      BY <1>0 DEF Closed
    <3>2. k' = [k EXCEPT !.ports = q]
      BY <1>0, <2>2
    <3> HIDE DEF q
    <3>3. IsKernel(k') /\ k'.tasks = k.tasks /\ InUseTasks(k') = InUseTasks(k)
      BY <1>0, <3>1, <3>2, PortsOK
    <3> QED  BY <1>0, <2>2, <3>3, KeepsKInv
  <2> QED  BY <1>12, <2>1, <2>2 DEF mxwl_kernel_shutdown
<1>13. ASSUME NEW i \in Pids, ProcessExit(i) \/ OtherProcess(i) PROVE KInv'
  <2>1. UNCHANGED <<k, held, call, phase>> /\ UserTasks' = UserTasks
    BY <1>13 DEF ProcessExit, OtherProcess, UserTasks
  <2>2. \/ procs' = [procs EXCEPT ![i] = <<"none", KernelTask>>]
        \/ procs' = [procs EXCEPT ![i] = <<"other", KernelTask>>]
    BY <1>13 DEF ProcessExit, OtherProcess
  <2>3. ControlOK'
    BY <2>1, <2>2, TaskOpsAssumption DEF KInv, ControlOK, KernelTask, TaskIds
  <2>4. ProcessesOwned'
    BY <2>1, <2>2 DEF KInv, ProcessesOwned, ControlOK
  <2> QED  BY <2>1, <2>3, <2>4 DEF KInv, KernelStays, CallPending
<1>14. CASE UNCHANGED vars
  BY <1>14 DEF vars, KInv, ControlOK, ProcessesOwned, KernelStays, CallPending, UserTasks
<1> QED  BY <1>1, <1>2, <1>3, <1>4, <1>5, <1>6, <1>7, <1>8, <1>9, <1>10, <1>11, <1>12,
            <1>13, <1>14 DEF Next, Stopped

\* What the invariant says of types.
LEMMA KInvTypeOK == KInv => TypeOK
<1> SUFFICES ASSUME KInv PROVE TypeOK
  OBVIOUS
<1>1. k.count \in 0 .. TASK_MAX
  BY TableFinite DEF KInv, IsKernel
<1> QED  BY <1>1 DEF KInv, IsKernel, ControlOK, TypeOK

\* The invariant of the task table, for every instance, whether or not ports
\* are shared and host ids are reused (task.c, mach_kernel.c).
THEOREM TaskTableInvariant == Spec => []KInv
<1> QED  BY InitKInv, NextKInv, PTL DEF Spec

\* Every table of task.c keeps its shape.
THEOREM TaskTypesCorrect == Spec => []TypeOK
<1> QED  BY TaskTableInvariant, KInvTypeOK, PTL

\* mxwl_task_count is exact, also after failed launches.
THEOREM TaskCountCorrect == Spec => []TaskCountExact
<1>1. KInv => TaskCountExact
  BY DEF KInv, IsKernel, TaskCountExact
<1> QED  BY <1>1, TaskTableInvariant, PTL

\* A slot is released only after its process has gone: no process is left
\* without its task, in whatever order children exit and waitpid returns.
THEOREM ProcessesKeepTheirTask == Spec => []ProcessesOwned
<1>1. KInv => ProcessesOwned
  BY DEF KInv
<1> QED  BY <1>1, TaskTableInvariant, PTL
-----------------------------------------------------------------------------
(* Ownership of ports, as long as no port is given to two tasks *)

\* The ports of a task by place: place 0 is the bootstrap port.
Places(s, t) == 0 .. Len(s.tasks[t].rights)
PortAt(s, t, i) ==
    IF i = 0 THEN s.tasks[t].bootstrap_port ELSE s.tasks[t].rights[i].object

InTask(s, p) == \E t \in InUseTasks(s) : \E i \in Places(s, t) : PortAt(s, t, i) = p

\* No port is at two places of the tasks in use, with the host or with a client
\* (h); a port is live if and only if somebody has it, the ports in d excepted.
Exclusive(s, h) ==
    /\ h \subseteq Names /\ h \cap HostPorts = {}
    /\ \A t \in InUseTasks(s) : \A i \in Places(s, t) :
          PortAt(s, t, i) \in Names \ (HostPorts \cup h)
    /\ \A t, u \in InUseTasks(s) : \A i \in Places(s, t), j \in Places(s, u) :
          PortAt(s, t, i) = PortAt(s, u, j) => t = u /\ i = j
LiveOwned(s, h, d) ==
    \A p \in Names : p \in Live(s.ports) <=>
                       p \notin d /\ (p \in HostPorts \/ p \in h \/ InTask(s, p))
Owned(s, h, d) == Exclusive(s, h) /\ LiveOwned(s, h, d)

\* A step that leaves the ports of all tasks in use where they are.
LEMMA OwnSame ==
    ASSUME NEW s, NEW r, NEW h, NEW d, Owned(s, h, d),
           InUseTasks(r) = InUseTasks(s), Live(r.ports) = Live(s.ports),
           \A t \in InUseTasks(s) :
              /\ r.tasks[t].rights = s.tasks[t].rights
              /\ r.tasks[t].bootstrap_port = s.tasks[t].bootstrap_port
    PROVE  Owned(r, h, d)
<1>1. ASSUME NEW t \in InUseTasks(s)
      PROVE  Places(r, t) = Places(s, t) /\ \A i \in Places(s, t) : PortAt(r, t, i) = PortAt(s, t, i)
  BY DEF Places, PortAt
<1>2. \A p : InTask(r, p) <=> InTask(s, p)
  BY <1>1 DEF InTask
<1>3. Exclusive(r, h)
  BY <1>1 DEF Owned, Exclusive
<1>4. LiveOwned(r, h, d)
  BY <1>2 DEF Owned, LiveOwned
<1> QED  BY <1>3, <1>4 DEF Owned

\* mach_port_allocate: a client gets a port that nobody had.
LEMMA OwnOpened ==
    ASSUME NEW s, NEW r, NEW h, Owned(s, h, {}), NEW p \in Names \ Live(s.ports),
           r.tasks = s.tasks, InUseTasks(r) = InUseTasks(s),
           Live(r.ports) = Live(s.ports) \cup {p}
    PROVE  Owned(r, h \cup {p}, {})
<1>1. \A t : Places(r, t) = Places(s, t) /\ \A i : PortAt(r, t, i) = PortAt(s, t, i)
  BY DEF Places, PortAt
<1>2. \A o : InTask(r, o) <=> InTask(s, o)
  BY <1>1 DEF InTask
<1>3. p \notin HostPorts /\ p \notin h /\ ~InTask(s, p)
  BY DEF Owned, LiveOwned
<1>4. \A t \in InUseTasks(s) : \A i \in Places(s, t) : PortAt(s, t, i) # p
  BY <1>3 DEF InTask
<1>5. Exclusive(r, h \cup {p})
  BY <1>1, <1>3, <1>4 DEF Owned, Exclusive
<1>6. LiveOwned(r, h \cup {p}, {})
  BY <1>2 DEF Owned, LiveOwned
<1> QED  BY <1>5, <1>6 DEF Owned

\* mach_port_deallocate by the client that holds the port.
LEMMA OwnClosed ==
    ASSUME NEW s, NEW r, NEW h, Owned(s, h, {}), NEW p \in h,
           r.tasks = s.tasks, InUseTasks(r) = InUseTasks(s),
           Live(r.ports) = Live(s.ports) \ {p}
    PROVE  Owned(r, h \ {p}, {})
<1>1. \A t : Places(r, t) = Places(s, t) /\ \A i : PortAt(r, t, i) = PortAt(s, t, i)
  BY DEF Places, PortAt
<1>2. \A o : InTask(r, o) <=> InTask(s, o)
  BY <1>1 DEF InTask
<1>3. p \notin HostPorts /\ ~InTask(s, p)
  BY DEF Owned, Exclusive, InTask
<1>4. Exclusive(r, h \ {p})
  BY <1>1 DEF Owned, Exclusive
<1>5. LiveOwned(r, h \ {p}, {})
  BY <1>2, <1>3 DEF Owned, LiveOwned
<1> QED  BY <1>4, <1>5 DEF Owned

\* mxwl_task_create: a new task with one port that nobody had.
LEMMA OwnCreated ==
    ASSUME NEW s, NEW r, NEW h, Owned(s, h, {}), NEW p \in Names \ Live(s.ports),
           NEW t, t \notin InUseTasks(s), InUseTasks(r) = InUseTasks(s) \cup {t},
           \A u \in InUseTasks(s) : r.tasks[u] = s.tasks[u],
           r.tasks[t].rights = <<>>, r.tasks[t].bootstrap_port = p,
           Live(r.ports) = Live(s.ports) \cup {p}
    PROVE  Owned(r, h, {})
<1>1. ASSUME NEW u \in InUseTasks(s)
      PROVE  Places(r, u) = Places(s, u) /\ \A i \in Places(s, u) : PortAt(r, u, i) = PortAt(s, u, i)
  BY DEF Places, PortAt
<1>2. Places(r, t) = {0} /\ PortAt(r, t, 0) = p
  BY DEF Places, PortAt
<1>3. p \notin HostPorts /\ p \notin h /\ ~InTask(s, p)
  BY DEF Owned, LiveOwned
<1>4. \A u \in InUseTasks(s) : \A i \in Places(s, u) : PortAt(s, u, i) # p
  BY <1>3 DEF InTask
<1>5. \A o : InTask(r, o) <=> InTask(s, o) \/ o = p
  BY <1>1, <1>2 DEF InTask
<1>6. Exclusive(r, h)
  <2>1. \A u \in InUseTasks(r) : \A i \in Places(r, u) :
           PortAt(r, u, i) \in Names \ (HostPorts \cup h)
    BY <1>1, <1>2, <1>3 DEF Owned, Exclusive
  <2>2. ASSUME NEW u \in InUseTasks(r), NEW w \in InUseTasks(r),
               NEW i \in Places(r, u), NEW j \in Places(r, w),
               PortAt(r, u, i) = PortAt(r, w, j)
        PROVE  u = w /\ i = j
    <3>1. CASE u = t /\ w = t
      BY <1>2, <3>1
    <3>2. CASE u = t /\ w # t
      BY <1>1, <1>2, <1>4, <2>2, <3>2
    <3>3. CASE u # t /\ w = t
      BY <1>1, <1>2, <1>4, <2>2, <3>3
    <3>4. CASE u # t /\ w # t
      BY <1>1, <2>2, <3>4 DEF Owned, Exclusive
    <3> QED  BY <3>1, <3>2, <3>3, <3>4
  <2> QED  BY <2>1, <2>2 DEF Owned, Exclusive
<1>7. LiveOwned(r, h, {})
  BY <1>5 DEF Owned, LiveOwned
<1> QED  BY <1>6, <1>7 DEF Owned

\* mxwl_task_terminate closes the ports of the task, which were nobody else's.
LEMMA OwnEnded ==
    ASSUME NEW s, NEW r, NEW h, Owned(s, h, {}), NEW t \in InUseTasks(s),
           s.tasks[t].rights \in Seq(Right),
           InUseTasks(r) = InUseTasks(s) \ {t},
           \A u \in InUseTasks(r) :
              /\ r.tasks[u].rights = s.tasks[u].rights
              /\ r.tasks[u].bootstrap_port = s.tasks[u].bootstrap_port,
           Live(r.ports) = Live(s.ports) \ (RightObjects(s.tasks[t])
                                   \cup {s.tasks[t].bootstrap_port})
    PROVE  Owned(r, h, {})
<1>1. ASSUME NEW u \in InUseTasks(r)
      PROVE  Places(r, u) = Places(s, u) /\ \A i \in Places(s, u) : PortAt(r, u, i) = PortAt(s, u, i)
  BY DEF Places, PortAt
<1>2. \A p : p \in RightObjects(s.tasks[t]) \cup {s.tasks[t].bootstrap_port}
              <=> \E i \in Places(s, t) : PortAt(s, t, i) = p
  <2>1. /\ Places(s, t) = {0} \cup DOMAIN s.tasks[t].rights
        /\ 0 \notin DOMAIN s.tasks[t].rights
    BY DEF Places
  <2> QED  BY <2>1 DEF RightObjects, PortAt
<1>3. \A p : InTask(r, p) <=> InTask(s, p) /\ ~(\E i \in Places(s, t) : PortAt(s, t, i) = p)
  <2>1. \A p : InTask(s, p) <=> InTask(r, p) \/ \E i \in Places(s, t) : PortAt(s, t, i) = p
    BY <1>1 DEF InTask
  <2>2. ASSUME NEW p, InTask(r, p), \E i \in Places(s, t) : PortAt(s, t, i) = p
        PROVE  FALSE
    <3>1. PICK u \in InUseTasks(r) : \E i \in Places(r, u) : PortAt(r, u, i) = p
      BY <2>2 DEF InTask
    <3>2. PICK i \in Places(s, u) : PortAt(s, u, i) = p
      BY <1>1, <3>1
    <3>3. PICK j \in Places(s, t) : PortAt(s, t, j) = p
      BY <2>2
    <3> QED  BY <3>2, <3>3 DEF Owned, Exclusive
  <2> QED  BY <2>1, <2>2
<1>4. Exclusive(r, h)
  BY <1>1 DEF Owned, Exclusive
<1>5. LiveOwned(r, h, {})
  <2> SUFFICES ASSUME NEW p \in Names
               PROVE  p \in Live(r.ports) <=> p \in HostPorts \/ p \in h \/ InTask(r, p)
    BY DEF LiveOwned
  <2>1. p \in Live(s.ports) <=> p \in HostPorts \/ p \in h \/ InTask(s, p)
    BY DEF Owned, LiveOwned
  <2>2. (\E i \in Places(s, t) : PortAt(s, t, i) = p) => p \notin HostPorts /\ p \notin h
    BY DEF Owned, Exclusive
  <2> QED  BY <1>2, <1>3, <2>1, <2>2
<1> QED  BY <1>4, <1>5 DEF Owned

\* mxwl_task_insert_port: the client hands its port over to the task.
LEMMA OwnGiven ==
    ASSUME NEW s, NEW r, NEW h, Owned(s, h, {}), NEW p \in h, NEW n \in RightNames,
           NEW t \in InUseTasks(s), s.tasks[t].rights \in Seq(Right),
           InUseTasks(r) = InUseTasks(s), Live(r.ports) = Live(s.ports),
           \A u \in InUseTasks(s) : u # t => r.tasks[u] = s.tasks[u],
           r.tasks[t].rights = Append(s.tasks[t].rights, [name |-> n, object |-> p]),
           r.tasks[t].bootstrap_port = s.tasks[t].bootstrap_port
    PROVE  Owned(r, h \ {p}, {})
<1> DEFINE m == Len(s.tasks[t].rights) + 1
<1>1. /\ Places(r, t) = Places(s, t) \cup {m} /\ m \notin Places(s, t)
      /\ PortAt(r, t, m) = p
      /\ \A i \in Places(s, t) : PortAt(r, t, i) = PortAt(s, t, i)
  <2>1. Len(s.tasks[t].rights) \in Nat /\ p \in Names
    BY DEF Owned, Exclusive
  <2>2. [name |-> n, object |-> p] \in Right
    BY <2>1 DEF Right
  <2>3. /\ Len(r.tasks[t].rights) = m
        /\ r.tasks[t].rights[m] = [name |-> n, object |-> p]
        /\ \A i \in 1 .. Len(s.tasks[t].rights) :
              r.tasks[t].rights[i] = s.tasks[t].rights[i]
    BY <2>1, <2>2, SMTT(30)
  <2>4. Places(r, t) = 0 .. m /\ Places(s, t) = 0 .. m - 1 /\ m \in Nat \ {0}
    BY <2>1, <2>3, SMTT(30) DEF Places
  <2>5. PortAt(r, t, m) = p
    BY <2>3, <2>4, SMTT(30) DEF PortAt
  <2>6. ASSUME NEW i \in Places(s, t) PROVE PortAt(r, t, i) = PortAt(s, t, i)
    <3>1. i = 0 \/ i \in 1 .. Len(s.tasks[t].rights)
      BY <2>4
    <3> QED  BY <2>3, <3>1 DEF PortAt
  <2>7. Places(r, t) = Places(s, t) \cup {m} /\ m \notin Places(s, t)
    <3> HIDE DEF m
    <3> QED  BY <2>4
  <2> QED  BY <2>5, <2>6, <2>7
<1> HIDE DEF m
<1>2. ASSUME NEW u \in InUseTasks(s), u # t
      PROVE  Places(r, u) = Places(s, u) /\ \A i \in Places(s, u) : PortAt(r, u, i) = PortAt(s, u, i)
  BY <1>2 DEF Places, PortAt
<1>3. p \in Names /\ p \notin HostPorts /\ \A u \in InUseTasks(s) : \A i \in Places(s, u) : PortAt(s, u, i) # p
  BY DEF Owned, Exclusive
<1>4. \A o : InTask(r, o) <=> InTask(s, o) \/ o = p
  BY <1>1, <1>2 DEF InTask
<1>5. Exclusive(r, h \ {p})
  <2>1. \A u \in InUseTasks(r) : \A i \in Places(r, u) :
           PortAt(r, u, i) \in Names \ (HostPorts \cup (h \ {p}))
    BY <1>1, <1>2, <1>3 DEF Owned, Exclusive
  <2>2. ASSUME NEW u \in InUseTasks(r), NEW w \in InUseTasks(r),
               NEW i \in Places(r, u), NEW j \in Places(r, w),
               PortAt(r, u, i) = PortAt(r, w, j)
        PROVE  u = w /\ i = j
    <3>1. CASE i \in Places(s, u) /\ j \in Places(s, w)
      BY <1>1, <1>2, <2>2, <3>1 DEF Owned, Exclusive
    <3>2. CASE i \in Places(s, u) /\ j \notin Places(s, w)
      BY <1>1, <1>2, <1>3, <2>2, <3>2
    <3>3. CASE i \notin Places(s, u) /\ j \in Places(s, w)
      BY <1>1, <1>2, <1>3, <2>2, <3>3
    <3>4. CASE i \notin Places(s, u) /\ j \notin Places(s, w)
      BY <1>1, <1>2, <2>2, <3>4
    <3> QED  BY <3>1, <3>2, <3>3, <3>4
  <2> QED  BY <2>1, <2>2 DEF Owned, Exclusive
<1>6. LiveOwned(r, h \ {p}, {})
  BY <1>3, <1>4 DEF Owned, LiveOwned
<1> QED  BY <1>5, <1>6 DEF Owned

\* mxwl_task_remove_port: the port goes back to the client, the rights
\* behind it move down by one place.
LEMMA OwnTaken ==
    ASSUME NEW s, NEW r, NEW h, Owned(s, h, {}),
           NEW t \in InUseTasks(s), s.tasks[t].rights \in Seq(Right),
           NEW c \in DOMAIN s.tasks[t].rights,
           InUseTasks(r) = InUseTasks(s), Live(r.ports) = Live(s.ports),
           \A u \in InUseTasks(s) : u # t => r.tasks[u] = s.tasks[u],
           r.tasks[t].rights = ShiftedDown(s.tasks[t].rights, c),
           r.tasks[t].bootstrap_port = s.tasks[t].bootstrap_port
    PROVE  Owned(r, h \cup {s.tasks[t].rights[c].object}, {})
<1> DEFINE p == s.tasks[t].rights[c].object
           m == Len(s.tasks[t].rights)
           From(i) == IF i < c THEN i ELSE i + 1
<1>1. m \in Nat /\ c \in 1 .. m /\ c \in Places(s, t) /\ PortAt(s, t, c) = p
  BY DEF Places, PortAt
<1>s. /\ Len(ShiftedDown(s.tasks[t].rights, c)) = m - 1
      /\ \A j \in 1 .. m - 1 : ShiftedDown(s.tasks[t].rights, c)[j] =
              IF j < c THEN s.tasks[t].rights[j] ELSE s.tasks[t].rights[j + 1]
  BY ShiftedDownOK, s.tasks[t].rights \in Seq(Right)
<1>2. ASSUME NEW i \in Places(r, t)
      PROVE  /\ From(i) \in Places(s, t) \ {c} /\ PortAt(r, t, i) = PortAt(s, t, From(i))
  <2>1. /\ Len(r.tasks[t].rights) = m - 1
        /\ \A j \in 1 .. m - 1 : r.tasks[t].rights[j] =
              IF j < c THEN s.tasks[t].rights[j] ELSE s.tasks[t].rights[j + 1]
    BY <1>s
  <2>2. i \in 0 .. m - 1
    BY <2>1 DEF Places
  <2>3. From(i) \in 0 .. m /\ From(i) # c /\ (From(i) = 0 <=> i = 0)
    BY <1>1, <2>2
  <2>4. From(i) \in Places(s, t) \ {c}
    BY <2>3 DEF Places
  <2>5. ASSUME i # 0 PROVE r.tasks[t].rights[i] = s.tasks[t].rights[From(i)]
    <3>1. i \in 1 .. m - 1
      BY <1>1, <2>2, <2>5
    <3> QED  BY <2>1, <3>1
  <2> HIDE DEF From
  <2>6. PortAt(r, t, i) = PortAt(s, t, From(i))
    BY <2>3, <2>5 DEF PortAt
  <2> QED  BY <2>4, <2>6
<1>3. ASSUME NEW i \in Places(s, t) \ {c}
      PROVE  \E j \in Places(r, t) : From(j) = i
  <2>1. Len(r.tasks[t].rights) = m - 1
    BY <1>s
  <2>2. i \in 0 .. m /\ i # c
    BY DEF Places
  <2>3. CASE i < c
    BY <1>1, <2>1, <2>2, <2>3 DEF Places
  <2>4. CASE i > c
    <3>1. i - 1 \in Places(r, t) /\ ~(i - 1 < c) /\ i - 1 + 1 = i
      BY <1>1, <2>1, <2>2, <2>4 DEF Places
    <3> QED  BY <3>1
  <2> QED  BY <1>1, <2>2, <2>3, <2>4
<1>4. ASSUME NEW i \in Places(r, t), NEW j \in Places(r, t), From(i) = From(j)
      PROVE  i = j
  <2>1. i \in Int /\ j \in Int
    BY DEF Places
  <2> QED  BY <1>1, <1>4, <2>1
<1> HIDE DEF From, m
<1>5. ASSUME NEW u \in InUseTasks(s), u # t
      PROVE  Places(r, u) = Places(s, u) /\ \A i \in Places(s, u) : PortAt(r, u, i) = PortAt(s, u, i)
  BY <1>5 DEF Places, PortAt
<1>6. p \in Names /\ p \notin HostPorts /\ p \notin h
  BY <1>1 DEF Owned, Exclusive
<1>7. \A u \in InUseTasks(s) : \A i \in Places(s, u) : PortAt(s, u, i) = p => u = t /\ i = c
  BY <1>1 DEF Owned, Exclusive
<1> HIDE DEF p
<1>8. \A u \in InUseTasks(r) : \A i \in Places(r, u) :
         PortAt(r, u, i) \in Names \ (HostPorts \cup (h \cup {p}))
  <2> SUFFICES ASSUME NEW u \in InUseTasks(r), NEW i \in Places(r, u)
               PROVE  PortAt(r, u, i) \in Names \ (HostPorts \cup h) /\ PortAt(r, u, i) # p
    OBVIOUS
  <2>1. CASE u = t
    BY <1>2, <1>7, <2>1 DEF Owned, Exclusive
  <2>2. CASE u # t
    BY <1>5, <1>7, <2>2 DEF Owned, Exclusive
  <2> QED  BY <2>1, <2>2
<1>9. ASSUME NEW u \in InUseTasks(r), NEW w \in InUseTasks(r),
             NEW i \in Places(r, u), NEW j \in Places(r, w),
             PortAt(r, u, i) = PortAt(r, w, j)
      PROVE  u = w /\ i = j
  <2>0. \A a, b \in InUseTasks(s) : \A x \in Places(s, a), y \in Places(s, b) :
          PortAt(s, a, x) = PortAt(s, b, y) => a = b /\ x = y
    BY DEF Owned, Exclusive
  <2>1. CASE u = t /\ w = t
    <3>1. /\ From(i) \in Places(s, t) /\ From(j) \in Places(s, t)
          /\ PortAt(s, t, From(i)) = PortAt(s, t, From(j))
      BY <1>2, <1>9, <2>1
    <3>2. From(i) = From(j)
      BY <2>0, <3>1
    <3> QED  BY <1>4, <2>1, <3>2
  <2>2. CASE u = t /\ w # t
    BY <1>2, <1>5, <1>9, <2>0, <2>2
  <2>3. CASE u # t /\ w = t
    BY <1>2, <1>5, <1>9, <2>0, <2>3
  <2>4. CASE u # t /\ w # t
    BY <1>5, <1>9, <2>0, <2>4
  <2> QED  BY <2>1, <2>2, <2>3, <2>4
<1>10. Exclusive(r, h \cup {p})
  BY <1>6, <1>8, <1>9 DEF Owned, Exclusive
<1>11. ASSUME NEW o PROVE InTask(s, o) <=> InTask(r, o) \/ o = p
  <2>1. ASSUME InTask(s, o), o # p PROVE InTask(r, o)
    <3>0. PICK u \in InUseTasks(s) : \E i \in Places(s, u) : PortAt(s, u, i) = o
      BY <2>1 DEF InTask
    <3>1. PICK i \in Places(s, u) : PortAt(s, u, i) = o
      BY <3>0
    <3>2. CASE u # t
      BY <1>5, <3>1, <3>2 DEF InTask
    <3>3. CASE u = t
      <4>1. i # c
        BY <1>1, <2>1, <3>1, <3>3 DEF p
      <4>2. PICK j \in Places(r, t) : From(j) = i
        BY <1>3, <3>1, <3>3, <4>1
      <4>3. PortAt(r, t, j) = o
        BY <1>2, <3>1, <3>3, <4>2
      <4> QED  BY <4>3 DEF InTask
    <3> QED  BY <3>2, <3>3
  <2>2. ASSUME InTask(r, o) PROVE InTask(s, o)
    <3>0. PICK u \in InUseTasks(r) : \E i \in Places(r, u) : PortAt(r, u, i) = o
      BY <2>2 DEF InTask
    <3>1. PICK i \in Places(r, u) : PortAt(r, u, i) = o
      BY <3>0
    <3>2. CASE u # t
      BY <1>5, <3>1, <3>2 DEF InTask
    <3>3. CASE u = t
      BY <1>2, <3>1, <3>3 DEF InTask
    <3> QED  BY <3>2, <3>3
  <2>3. InTask(s, p)
    BY <1>1 DEF InTask, p
  <2> QED  BY <2>1, <2>2, <2>3
<1>12. LiveOwned(r, h \cup {p}, {})
  BY <1>6, <1>11 DEF Owned, LiveOwned
<1> QED  BY <1>10, <1>12 DEF Owned, p

\* The ports after mxwl_task_create.
LEMMA CreatedPorts ==
    ASSUME KInv, NEW ok
    PROVE  LET r == TaskCreate(k, ok)
           IN  /\ r.kr # "KERN_SUCCESS" => Live(r.k.ports) = Live(k.ports)
               /\ r.kr = "KERN_SUCCESS" =>
                     \E p \in Names \ Live(k.ports) :
                        /\ Live(r.k.ports) = Live(k.ports) \cup {p}
                        /\ r.k.tasks[r.task].rights = <<>>
                        /\ r.k.tasks[r.task].bootstrap_port = p
<1> DEFINE r == TaskCreate(k, ok)
<1>1. /\ k = [ports |-> k.ports, tasks |-> k.tasks, count |-> k.count]
      /\ k.tasks \in [TaskIds -> Task] /\ IsKernel(k)
  BY DEF KInv, IsKernel
<1>2. /\ IsKernel(r.k)
      /\ \/ r.kr # "KERN_SUCCESS" /\ r.k = k
         \/ /\ r.kr # "KERN_SUCCESS"
            /\ \E t \in TaskIds \ InUseTasks(k) :
                  r.k = [k EXCEPT !.tasks[t] = NewTask(MACH_PORT_NULL)]
            /\ InUseTasks(r.k) = InUseTasks(k)
         \/ /\ r.kr = "KERN_SUCCESS"
            /\ r.task \in TaskIds \ InUseTasks(k)
            /\ InUseTasks(r.k) = InUseTasks(k) \cup {r.task}
            /\ \E p \in Names \ DOMAIN k.ports :
                  r.k = [ports |-> Opened(k.ports, p),
                         tasks |-> [k.tasks EXCEPT ![r.task] = NewTask(p)],
                         count |-> k.count + 1]
  <2> HIDE DEF r
  <2> QED  BY <1>1, CreateOK DEF r
<1> HIDE DEF r
<1>3. CASE \E t \in TaskIds \ InUseTasks(k) :
              r.k = [k EXCEPT !.tasks[t] = NewTask(MACH_PORT_NULL)]
  <2>1. PICK t \in TaskIds \ InUseTasks(k) :
              r.k = [k EXCEPT !.tasks[t] = NewTask(MACH_PORT_NULL)]
    BY <1>3
  <2>2. r.k.ports = k.ports
    BY <1>1, <2>1
  <2>3. r.kr # "KERN_SUCCESS" \/ Live(r.k.ports) = Live(k.ports)
    BY <2>2
  <2>4. CASE r.kr = "KERN_SUCCESS" /\ \E p \in Names \ DOMAIN k.ports :
               r.k = [ports |-> Opened(k.ports, p),
                      tasks |-> [k.tasks EXCEPT ![r.task] = NewTask(p)],
                      count |-> k.count + 1]
    <3>1. PICK p \in Names \ DOMAIN k.ports : r.k.ports = Opened(k.ports, p)
      BY <2>4
    <3> QED  BY <2>2, <3>1 DEF Opened
  <2> QED  BY <1>2, <2>2, <2>4 DEF r
<1>4. CASE /\ \E p \in Names \ DOMAIN k.ports :
                 r.k = [ports |-> Opened(k.ports, p),
                        tasks |-> [k.tasks EXCEPT ![r.task] = NewTask(p)],
                        count |-> k.count + 1]
           /\ r.task \in TaskIds \ InUseTasks(k) /\ r.kr = "KERN_SUCCESS"
  <2>1. PICK p \in Names \ DOMAIN k.ports :
           /\ r.k.ports = Opened(k.ports, p)
           /\ r.k.tasks = [k.tasks EXCEPT ![r.task] = NewTask(p)]
    BY <1>4
  <2>2. r.k.tasks[r.task] = NewTask(p)
    BY <1>1, <1>4, <2>1
  <2>3. NewTask(p).rights = <<>> /\ NewTask(p).bootstrap_port = p
    BY NewTaskOK
  <2>4. Live(r.k.ports) = Live(k.ports) \cup {p} /\ p \in Names \ Live(k.ports)
    BY <2>1 DEF Live, Opened
  <2> QED  BY <1>4, <2>2, <2>3, <2>4 DEF r
<1> QED  BY <1>1, <1>2, <1>3, <1>4 DEF r

-----------------------------------------------------------------------------
(* Ownership is kept by every step *)

ClosedPorts == IF phase = "down" THEN {ipc_bootstrap_port} ELSE {}
OInv == KInv /\ Owned(k, held, ClosedPorts)

\* Steps that leave the task table and the clients as they are.
LEMMA KeepsOwned ==
    ASSUME OInv, held' = held, phase' = phase,
           InUseTasks(k') = InUseTasks(k), Live(k'.ports) = Live(k.ports),
           \A t \in InUseTasks(k) :
              /\ k'.tasks[t].rights = k.tasks[t].rights
              /\ k'.tasks[t].bootstrap_port = k.tasks[t].bootstrap_port
    PROVE  Owned(k', held', ClosedPorts')
<1>1. ClosedPorts' = ClosedPorts
  BY DEF ClosedPorts
<1>2. Owned(k', held, ClosedPorts)
  BY OwnSame DEF OInv
<1> QED  BY <1>1, <1>2

\* mxwl_task_terminate once nothing is left to wait for.
LEMMA EndOwned ==
    ASSUME OInv, NEW t \in UserTasks, k' = TaskTerminate(k, t), phase # "down",
           UNCHANGED <<held, phase>>
    PROVE  Owned(k', held', ClosedPorts')
<1>1. t \in InUseTasks(k) /\ IsKernel(k) /\ k.tasks[t].rights \in Seq(Right)
  BY DEF UserTasks, OInv, KInv, IsKernel, InUseTasks, Task, Right
<1>2. /\ InUseTasks(k') = InUseTasks(k) \ {t}
      /\ \A u \in TaskIds : SameEntry(k, k', u)
      /\ Live(k'.ports) = Live(k.ports) \ (RightObjects(k.tasks[t])
                                        \cup {k.tasks[t].bootstrap_port})
  BY <1>1, TerminateOK
<1>3. \A u \in InUseTasks(k') : /\ k'.tasks[u].rights = k.tasks[u].rights
                                /\ k'.tasks[u].bootstrap_port = k.tasks[u].bootstrap_port
  BY <1>2 DEF SameEntry, InUseTasks
<1>4. ClosedPorts = {} /\ ClosedPorts' = {}
  BY DEF ClosedPorts
<1>5. Owned(k, held, {})
  BY <1>4 DEF OInv
<1>6. Owned(k', held, {})
  BY <1>1, <1>2, <1>3, <1>5, OwnEnded
<1> QED  BY <1>4, <1>6

\* A kill, a wait, and the end of the task.
LEMMA EndTaskOwned ==
    ASSUME OInv, phase # "down", NEW t \in UserTasks,
           NEW op \in {"terminate", "cleanup", "shutdown"}, EndTask(t, op)
    PROVE  Owned(k', held', ClosedPorts')
<1>1. CASE k' = k
  BY <1>1, KeepsOwned DEF EndTask
<1>2. CASE k' = TaskTerminate(k, t)
  BY <1>2, EndOwned DEF EndTask
<1> QED  BY <1>1, <1>2 DEF EndTask

\* A task made, or made and taken back.
LEMMA LaunchOwned ==
    ASSUME OInv, NEW ok, Launch(ok)
    PROVE  Owned(k', held', ClosedPorts')
<1> DEFINE r == TaskCreate(k, ok)
<1>1. /\ IsKernel(r.k)
      /\ \A t \in InUseTasks(k) : r.k.tasks[t] = k.tasks[t]
      /\ r.kr # "KERN_SUCCESS" => InUseTasks(r.k) = InUseTasks(k)
      /\ r.kr = "KERN_SUCCESS" => /\ r.task \in TaskIds \ InUseTasks(k)
                                  /\ InUseTasks(r.k) = InUseTasks(k) \cup {r.task}
  BY CreatedKInv DEF OInv
<1>2. /\ r.kr # "KERN_SUCCESS" => Live(r.k.ports) = Live(k.ports)
      /\ r.kr = "KERN_SUCCESS" =>
            \E p \in Names \ Live(k.ports) :
               /\ Live(r.k.ports) = Live(k.ports) \cup {p}
               /\ r.k.tasks[r.task].rights = <<>>
               /\ r.k.tasks[r.task].bootstrap_port = p
  BY CreatedPorts DEF OInv
<1>3. \/ NotSpawned(r)
      \/ r.kr = "KERN_SUCCESS" /\ \E pid \in FreePids : Spawned(r, pid)
  BY DEF Launch
<1>4. /\ UNCHANGED <<held, call, phase>> /\ InUseTasks(k) \subseteq TaskIds
      /\ ClosedPorts = {} /\ ClosedPorts' = {}
  BY DEF Launch, InLoop, InUseTasks, ClosedPorts
<1>5. Owned(k, held, {})
  BY <1>4 DEF OInv
<1> HIDE DEF r
<1>6. CASE r.kr # "KERN_SUCCESS"
  BY <1>1, <1>2, <1>3, <1>4, <1>6, KeepsOwned DEF NotSpawned
<1>7. CASE r.kr = "KERN_SUCCESS"
  <2>1. Owned(r.k, held, {})
    <3>1. PICK p \in Names \ Live(k.ports) :
               /\ Live(r.k.ports) = Live(k.ports) \cup {p}
               /\ r.k.tasks[r.task].rights = <<>>
               /\ r.k.tasks[r.task].bootstrap_port = p
      BY <1>2, <1>7
    <3>2. /\ r.task \notin InUseTasks(k)
          /\ InUseTasks(r.k) = InUseTasks(k) \cup {r.task}
      BY <1>1, <1>7
    <3> QED  BY <1>1, <1>5, <3>1, <3>2, OwnCreated
  <2>2. CASE NotSpawned(r)
    <3>1. k' = TaskTerminate(r.k, r.task) /\ r.task \in InUseTasks(r.k)
          /\ r.task \in TaskIds
      BY <1>1, <1>7, <2>2 DEF NotSpawned
    <3>2. /\ InUseTasks(k') = InUseTasks(r.k) \ {r.task}
          /\ \A u \in TaskIds : SameEntry(r.k, k', u)
          /\ Live(k'.ports) = Live(r.k.ports) \ (RightObjects(r.k.tasks[r.task])
                                        \cup {r.k.tasks[r.task].bootstrap_port})
      BY <1>1, <3>1, TerminateOK
    <3>3. r.k.tasks[r.task].rights \in Seq(Right)
      BY <1>1, <3>1 DEF IsKernel, Task, Right
    <3>4. \A u \in InUseTasks(k') :
             /\ k'.tasks[u].rights = r.k.tasks[u].rights
             /\ k'.tasks[u].bootstrap_port = r.k.tasks[u].bootstrap_port
      BY <3>2 DEF SameEntry, InUseTasks
    <3>5. Owned(k', held, {})
      BY <2>1, <3>1, <3>2, <3>3, <3>4, OwnEnded
    <3> QED  BY <1>4, <3>5
  <2>3. CASE \E pid \in FreePids : Spawned(r, pid)
    <3>1. PICK pid \in FreePids : Spawned(r, pid)
      BY <2>3
    <3>2. k' = Forked(r.k, r.task, pid)
      BY <3>1 DEF Spawned, Forked
    <3>3. IsKernel(r.k) /\ r.task \in TaskIds /\ pid \in Pids
      BY <1>1, <1>7, <3>1 DEF FreePids
    <3>4. /\ k'.ports = r.k.ports /\ InUseTasks(k') = InUseTasks(r.k)
          /\ k'.tasks[r.task].rights = r.k.tasks[r.task].rights
          /\ k'.tasks[r.task].bootstrap_port = r.k.tasks[r.task].bootstrap_port
          /\ \A u \in TaskIds : u # r.task => k'.tasks[u] = r.k.tasks[u]
      BY <3>2, <3>3, SpawnOK
    <3>5. \A u \in InUseTasks(r.k) :
             /\ k'.tasks[u].rights = r.k.tasks[u].rights
             /\ k'.tasks[u].bootstrap_port = r.k.tasks[u].bootstrap_port
      BY <3>4 DEF InUseTasks
    <3>6. Owned(k', held, {})
      BY <2>1, <3>4, <3>5, OwnSame
    <3> QED  BY <1>4, <3>6
  <2> QED  BY <1>3, <2>2, <2>3
<1> QED  BY <1>6, <1>7

\* Every step keeps the ports with one owner, if none is given to two tasks.
LEMMA NextOwned == ~ShareRights /\ OInv /\ [Next]_vars => Owned(k', held', ClosedPorts')
<1> SUFFICES ASSUME ~ShareRights, OInv, [Next]_vars
             PROVE  Owned(k', held', ClosedPorts')
  OBVIOUS
<1>0. /\ KInv /\ IsKernel(k) /\ k = [ports |-> k.ports, tasks |-> k.tasks, count |-> k.count]
      /\ DOMAIN k.ports \subseteq Names /\ held \subseteq Names
      /\ InUseTasks(k) \subseteq TaskIds
      /\ InLoop => ClosedPorts = {} /\ Owned(k, held, {})
      /\ phase' = phase => ClosedPorts' = ClosedPorts
  BY DEF OInv, KInv, IsKernel, ControlOK, InUseTasks, InLoop, ClosedPorts
<1>1. CASE mach_port_allocate
  <2> DEFINE p == FreshName(k.ports)
             q == Opened(k.ports, p)
  <2>1. p \in Names \ Live(k.ports)
    BY <1>0, <1>1, FreshNameOK DEF mach_port_allocate, Live
  <2>2. DOMAIN q \subseteq Names /\ Live(q) = Live(k.ports) \cup {p}
    BY <1>0, <2>1 DEF Opened, Live
  <2>3. k' = [k EXCEPT !.ports = q] /\ held' = held \cup {p} /\ phase' = phase /\ InLoop
    BY <1>0, <1>1 DEF mach_port_allocate
  <2> HIDE DEF p, q
  <2>4. k'.ports = q /\ k'.tasks = k.tasks /\ InUseTasks(k') = InUseTasks(k)
    BY <1>0, <2>2, <2>3, PortsOK
  <2>5. Owned(k', held \cup {p}, {})
    BY <1>0, <2>1, <2>2, <2>3, <2>4, OwnOpened
  <2> QED  BY <1>0, <2>3, <2>5
<1>2. ASSUME NEW p \in Names, mach_port_deallocate(p)
      PROVE  Owned(k', held', ClosedPorts')
  <2> DEFINE q == Closed(k.ports, p)
  <2>1. DOMAIN q \subseteq Names /\ Live(q) = Live(k.ports) \ {p}
    BY <1>0 DEF Closed, Live
  <2>2. k' = [k EXCEPT !.ports = q] /\ held' = held \ {p} /\ phase' = phase /\ InLoop
        /\ p \in held
    BY <1>0, <1>2 DEF mach_port_deallocate
  <2> HIDE DEF q
  <2>3. k'.ports = q /\ k'.tasks = k.tasks /\ InUseTasks(k') = InUseTasks(k)
    BY <1>0, <2>1, <2>2, PortsOK
  <2>4. Owned(k', held \ {p}, {})
    BY <1>0, <2>1, <2>2, <2>3, OwnClosed
  <2> QED  BY <1>0, <2>2, <2>4
<1>3. ASSUME NEW t \in TaskIds, NEW n \in RightNames, mxwl_task_remove_port(t, n)
      PROVE  Owned(k', held', ClosedPorts')
  <2> DEFINE i == FirstMatch(k, t, n)
             z == ShiftedDown(k.tasks[t].rights, i)
  <2>1. k.tasks[t].rights \in Seq(Right) /\ t \in InUseTasks(k)
    BY <1>0, <1>3 DEF IsKernel, Task, Right, mxwl_task_remove_port, TaskLookup, InUseTasks
  <2>2. i \in DOMAIN k.tasks[t].rights
    BY <1>3, <2>1, FirstMatchOK DEF mxwl_task_remove_port
  <2>3. k' = [k EXCEPT !.tasks[t].rights = z] /\ phase' = phase /\ InLoop
        /\ held' = held \cup {k.tasks[t].rights[i].object}
    BY <1>0, <1>3 DEF mxwl_task_remove_port, TaskRemovePort
  <2> HIDE DEF i
  <2>4. z \in Seq(Right)
    BY <2>1, <2>2, ShiftedDownOK
  <2>5. /\ k'.ports = k.ports /\ InUseTasks(k') = InUseTasks(k)
        /\ k'.tasks[t].rights = z
        /\ k'.tasks[t].bootstrap_port = k.tasks[t].bootstrap_port
        /\ \A u \in TaskIds : u # t => k'.tasks[u] = k.tasks[u]
    <3> HIDE DEF z
    <3> QED  BY <1>0, <2>3, <2>4, RightsOK
  <2>6. Owned(k', held \cup {k.tasks[t].rights[i].object}, {})
    BY <1>0, <2>1, <2>2, <2>3, <2>5, OwnTaken, ZenonT(60)
  <2> QED  BY <1>0, <2>3, <2>6
<1>4. ASSUME NEW t \in TaskIds, NEW n \in RightNames, NEW p \in Names,
             mxwl_task_insert_port(t, n, p)
      PROVE  Owned(k', held', ClosedPorts')
  <2> DEFINE z == Append(k.tasks[t].rights, [name |-> n, object |-> p])
  <2>1. k.tasks[t].rights \in Seq(Right) /\ t \in InUseTasks(k)
    BY <1>0, <1>4 DEF IsKernel, Task, Right, mxwl_task_insert_port, TaskLookup, InUseTasks
  <2>2. [name |-> n, object |-> p] \in Right
    BY DEF Right
  <2>3. z \in Seq(Right)
    BY <2>1, <2>2
  <2>4. k' = [k EXCEPT !.tasks[t].rights = z] /\ phase' = phase /\ InLoop
        /\ held' = held \ {p} /\ p \in held
    BY <1>0, <1>4 DEF mxwl_task_insert_port, TaskInsertPort
  <2>5. /\ k'.ports = k.ports /\ InUseTasks(k') = InUseTasks(k)
        /\ k'.tasks[t].rights = z
        /\ k'.tasks[t].bootstrap_port = k.tasks[t].bootstrap_port
        /\ \A u \in TaskIds : u # t => k'.tasks[u] = k.tasks[u]
    <3> HIDE DEF z
    <3> QED  BY <1>0, <2>3, <2>4, RightsOK
  <2>6. /\ k'.tasks[t].rights = Append(k.tasks[t].rights, [name |-> n, object |-> p])
        /\ \A u \in InUseTasks(k) : u # t => k'.tasks[u] = k.tasks[u]
        /\ Live(k'.ports) = Live(k.ports) /\ Owned(k, held, {}) /\ p \in held
    BY <1>0, <2>4, <2>5
  <2> HIDE DEF z
  <2>7. Owned(k', held \ {p}, {})
    <3>1. ASSUME NEW s, s = k, NEW r, r = k' PROVE Owned(r, held \ {p}, {})
      <4>1. /\ Owned(s, held, {}) /\ p \in held /\ t \in InUseTasks(s)
            /\ s.tasks[t].rights \in Seq(Right)
            /\ InUseTasks(r) = InUseTasks(s) /\ Live(r.ports) = Live(s.ports)
        BY <2>1, <2>5, <2>6, <3>1
      <4>2. /\ \A u \in InUseTasks(s) : u # t => r.tasks[u] = s.tasks[u]
            /\ r.tasks[t].rights = Append(s.tasks[t].rights, [name |-> n, object |-> p])
            /\ r.tasks[t].bootstrap_port = s.tasks[t].bootstrap_port
        BY <2>5, <2>6, <3>1
      <4> QED BY ONLY <4>1, <4>2, n \in RightNames, OwnGiven
    <3> QED BY <3>1
  <2> QED  BY <1>0, <2>4, <2>7
<1>5. ASSUME NEW t \in TaskIds, mxwl_thread_create(t) PROVE Owned(k', held', ClosedPorts')
  <2>1. k' = ThreadCreate(k, t) /\ CanCreateThread(k, t) /\ UNCHANGED <<held, phase>>
    BY <1>5 DEF mxwl_thread_create
  <2>2. /\ k'.ports = k.ports /\ InUseTasks(k') = InUseTasks(k)
        /\ \A u \in TaskIds : SameEntry(k, k', u)
    BY <1>0, <2>1, ThreadOK
  <2> QED  BY <1>0, <2>1, <2>2, KeepsOwned DEF SameEntry
<1>6. ASSUME NEW t \in TaskIds, mxwl_task_terminate(t) \/ mxwl_loader_cleanup(t)
      PROVE  Owned(k', held', ClosedPorts')
  BY <1>6, EndTaskOwned DEF mxwl_task_terminate, mxwl_loader_cleanup, InLoop
<1>7. ASSUME NEW ok \in BOOLEAN, mxwl_task_create(ok) PROVE Owned(k', held', ClosedPorts')
  <2> DEFINE r == TaskCreate(k, ok)
  <2>1. k' = r.k /\ UNCHANGED <<held, phase>> /\ InLoop
    BY <1>7 DEF mxwl_task_create
  <2>2. /\ \A t \in InUseTasks(k) : r.k.tasks[t] = k.tasks[t]
        /\ r.kr # "KERN_SUCCESS" => InUseTasks(r.k) = InUseTasks(k)
        /\ r.kr = "KERN_SUCCESS" => /\ r.task \in TaskIds \ InUseTasks(k)
                                    /\ InUseTasks(r.k) = InUseTasks(k) \cup {r.task}
    BY <1>0, CreatedKInv
  <2>3. /\ r.kr # "KERN_SUCCESS" => Live(r.k.ports) = Live(k.ports)
        /\ r.kr = "KERN_SUCCESS" =>
              \E p \in Names \ Live(k.ports) :
                 /\ Live(r.k.ports) = Live(k.ports) \cup {p}
                 /\ r.k.tasks[r.task].rights = <<>>
                 /\ r.k.tasks[r.task].bootstrap_port = p
    BY <1>0, CreatedPorts
  <2> HIDE DEF r
  <2>4. CASE r.kr # "KERN_SUCCESS"
    BY <2>1, <2>2, <2>3, <2>4, KeepsOwned
  <2>5. CASE r.kr = "KERN_SUCCESS"
    <3>1. PICK p \in Names \ Live(k.ports) :
                 /\ Live(r.k.ports) = Live(k.ports) \cup {p}
                 /\ r.k.tasks[r.task].rights = <<>>
                 /\ r.k.tasks[r.task].bootstrap_port = p
      BY <2>3, <2>5
    <3>2. Owned(r.k, held, {})
      BY <1>0, <2>1, <2>2, <2>5, <3>1, OwnCreated
    <3> QED  BY <1>0, <2>1, <3>2
  <2> QED  BY <2>4, <2>5
<1>8. ASSUME NEW ok \in BOOLEAN, mxwl_launch_init(ok) \/ mxwl_loader_load(ok)
      PROVE  Owned(k', held', ClosedPorts')
  BY <1>8, LaunchOwned DEF mxwl_launch_init, mxwl_loader_load
<1>9. CASE mxwl_kernel_loop_reap
  <2> DEFINE T == [t \in TaskIds |->
                     IF k.tasks[t].in_use /\ k.tasks[t].host_pid \in Zombies
                     THEN [k.tasks[t] EXCEPT !.running = FALSE, !.terminated = TRUE]
                     ELSE k.tasks[t]]
  <2>1. k' = [k EXCEPT !.tasks = T] /\ UNCHANGED <<held, phase>>
    BY <1>9 DEF mxwl_kernel_loop_reap
  <2>2. /\ k'.ports = k.ports /\ InUseTasks(k') = InUseTasks(k)
        /\ \A u \in TaskIds : SameEntry(k, k', u)
    BY <1>0, <2>1, ReapOK
  <2> HIDE DEF T
  <2> QED  BY <1>0, <2>1, <2>2, KeepsOwned DEF SameEntry
<1>10. CASE _mxwl_signal_handler
  <2>1. ClosedPorts' = {} /\ UNCHANGED <<k, held>> /\ InLoop
    BY <1>10 DEF _mxwl_signal_handler, ClosedPorts
  <2> QED  BY <1>0, <2>1
<1>11. CASE WaitReturns
  <2>1. call.task \in UserTasks /\ phase # "down" /\ UNCHANGED <<held, phase>>
    BY <1>0, <1>11 DEF WaitReturns, KInv, CallPending
  <2>2. CASE k' = k
    BY <2>1, <2>2, KeepsOwned
  <2>3. CASE k' = TaskTerminate(k, call.task)
    BY <2>1, <2>3, EndOwned
  <2> QED  BY <1>11, <2>2, <2>3 DEF WaitReturns
<1>12. CASE mxwl_kernel_shutdown
  <2>1. CASE UserTasks # {} /\ EndTask(HighestTask, "shutdown")
    BY <1>12, <2>1, HighestTaskOK, EndTaskOwned DEF mxwl_kernel_shutdown
  <2>2. CASE /\ phase = "shutdown"
             /\ k' = [k EXCEPT !.ports = Closed(@, ipc_bootstrap_port)]
             /\ phase' = "down"
             /\ held' = held
    <3> DEFINE q == Closed(k.ports, ipc_bootstrap_port)
    <3>1. DOMAIN q \subseteq Names /\ Live(q) = Live(k.ports) \ {ipc_bootstrap_port}
      BY <1>0 DEF Closed, Live
    <3>2. k' = [k EXCEPT !.ports = q]
      BY <1>0, <2>2
    <3> HIDE DEF q
    <3>3. k'.ports = q /\ k'.tasks = k.tasks /\ InUseTasks(k') = InUseTasks(k)
      BY <1>0, <3>1, <3>2, PortsOK
    <3>4. ClosedPorts = {} /\ ClosedPorts' = {ipc_bootstrap_port}
      BY <2>2 DEF ClosedPorts
    <3>5. Owned(k, held, {})
      BY <3>4 DEF OInv
    <3>6. \A t : Places(k', t) = Places(k, t) /\ \A i : PortAt(k', t, i) = PortAt(k, t, i)
      BY <3>3 DEF Places, PortAt
    <3>7. \A p : InTask(k', p) <=> InTask(k, p)
      BY <3>3, <3>6 DEF InTask
    <3>8. Exclusive(k', held)
      BY <3>3, <3>5, <3>6 DEF Owned, Exclusive
    <3>9. LiveOwned(k', held, {ipc_bootstrap_port})
      BY <3>1, <3>3, <3>5, <3>7 DEF Owned, LiveOwned
    <3> QED  BY <2>2, <3>4, <3>8, <3>9 DEF Owned
  <2> QED  BY <1>12, <2>1, <2>2 DEF mxwl_kernel_shutdown
<1>13. CASE UNCHANGED <<k, held, phase>>
  BY <1>13, KeepsOwned
<1>14. ASSUME NEW i \in Pids, ProcessExit(i) \/ OtherProcess(i)
       PROVE  UNCHANGED <<k, held, phase>>
  BY <1>14 DEF ProcessExit, OtherProcess
<1>15. Stopped \/ UNCHANGED vars => UNCHANGED <<k, held, phase>>
  BY DEF Stopped, vars
<1> QED  BY <1>1, <1>2, <1>3, <1>4, <1>5, <1>6, <1>7, <1>8, <1>9, <1>10, <1>11, <1>12,
            <1>13, <1>14, <1>15 DEF Next

\* After kernel_init the host has its two ports and the kernel task the
\* bootstrap port.
LEMMA InitOwned == Init => Owned(k, held, ClosedPorts)
<1> SUFFICES ASSUME Init PROVE Owned(k, held, ClosedPorts)
  OBVIOUS
<1> DEFINE z == [ZeroTask EXCEPT !.in_use = TRUE, !.running = TRUE,
                                 !.host_pid = KernelPid,
                                 !.bootstrap_port = ipc_bootstrap_port]
           T == [t \in TaskIds |-> IF t = KernelTask THEN z ELSE ZeroTask]
           q == [p \in KernelPorts |-> <<>>]
<1>1. k = [ports |-> q, tasks |-> T, count |-> 1]
  BY DEF Init, TaskInit
<1>2. KernelTask \in TaskIds /\ KernelPorts \subseteq Names
  BY TaskOpsAssumption, TasksAssumption, PortOpsAssumption
     DEF KernelTask, TaskIds, KernelPorts, HostPorts, ipc_bootstrap_port, Names
<1>3. /\ z.in_use = TRUE /\ z.rights = <<>> /\ z.bootstrap_port = ipc_bootstrap_port
      /\ ZeroTask.in_use = FALSE
  BY DEF ZeroTask
<1> HIDE DEF z
<1>4. /\ T[KernelTask] = z
      /\ \A t \in TaskIds : T[t].in_use <=> t = KernelTask
  BY <1>2, <1>3
<1>5. k.tasks = T /\ k.ports = q
  BY <1>1
<1> HIDE DEF T
<1>6. InUseTasks(k) = {KernelTask}
  BY <1>2, <1>4, <1>5 DEF InUseTasks
<1>7. Len(k.tasks[KernelTask].rights) = 0
  BY <1>3, <1>4, <1>5
<1>8. /\ Places(k, KernelTask) = {0}
      /\ PortAt(k, KernelTask, 0) = ipc_bootstrap_port
  BY <1>3, <1>4, <1>5, <1>7 DEF Places, PortAt
<1>9. \A p : InTask(k, p) <=> p = ipc_bootstrap_port
  BY <1>6, <1>8 DEF InTask
<1>10. held = {} /\ ClosedPorts = {} /\ Live(k.ports) = KernelPorts
  BY <1>5 DEF Init, ClosedPorts, Live
<1>11. Exclusive(k, {})
  BY <1>2, <1>6, <1>8 DEF Exclusive, HostPorts, KernelPorts, ipc_bootstrap_port
<1>12. LiveOwned(k, {}, {})
  BY <1>9, <1>10 DEF LiveOwned, KernelPorts
<1> QED  BY <1>10, <1>11, <1>12 DEF Owned

\* The ports of a task are those at its places, as many as it has places when
\* no two places have the same port.
LEMMA TaskPortsAtPlaces ==
    ASSUME NEW t, k.tasks[t].rights \in Seq(Right)
    PROVE  /\ TaskPorts(t) = {PortAt(k, t, i) : i \in Places(k, t)}
           /\ (\A i, j \in Places(k, t) : PortAt(k, t, i) = PortAt(k, t, j) => i = j)
                => Cardinality(TaskPorts(t)) = Len(k.tasks[t].rights) + 1
<1> DEFINE n == Len(k.tasks[t].rights)
           f == [i \in Places(k, t) |-> PortAt(k, t, i)]
<1>1. n \in Nat /\ DOMAIN k.tasks[t].rights = 1 .. n
  OBVIOUS
<1>2. PortAt(k, t, 0) = k.tasks[t].bootstrap_port /\ 0 \in Places(k, t)
  BY <1>1 DEF PortAt, Places
<1>3. \A i : i \in DOMAIN k.tasks[t].rights <=> i \in Places(k, t) /\ i # 0
  BY <1>1 DEF Places
<1>4. \A i \in Places(k, t) : i # 0 => PortAt(k, t, i) = k.tasks[t].rights[i].object
  BY DEF PortAt
<1>5. TaskPorts(t) = {PortAt(k, t, i) : i \in Places(k, t)}
  BY <1>2, <1>3, <1>4 DEF TaskPorts, RightObjects
<1>6. f \in Surjection(Places(k, t), TaskPorts(t))
  BY <1>5 DEF Surjection
<1>7. IsFiniteSet(Places(k, t)) /\ Cardinality(Places(k, t)) = n + 1
  <2>1. Places(k, t) = 0 .. n /\ n \in Int /\ n >= 0
    BY <1>1 DEF Places
  <2> HIDE DEF n
  <2>2. IsFiniteSet(0 .. n) /\ Cardinality(0 .. n) = IF 0 > n THEN 0 ELSE n - 0 + 1
    BY <2>1, FS_Interval
  <2> QED  BY <2>1, <2>2
<1>8. ASSUME \A i, j \in Places(k, t) : PortAt(k, t, i) = PortAt(k, t, j) => i = j
      PROVE  f \in Injection(Places(k, t), TaskPorts(t))
  <2>1. f \in [Places(k, t) -> TaskPorts(t)]
    BY <1>5
  <2>2. \A i, j \in DOMAIN f : f[i] = f[j] => i = j
    BY <1>8
  <2> QED  BY <2>1, <2>2 DEF Injection, IsInjective
<1>9. Cardinality(TaskPorts(t)) = Cardinality(Places(k, t))
        <=> f \in Injection(Places(k, t), TaskPorts(t))
  BY <1>6, <1>7, FS_Surjection
<1> QED  BY <1>5, <1>7, <1>8, <1>9

\* What ownership says of the table of ports.
LEMMA OInvAccounts == OInv => PortsAccounted
<1> SUFFICES ASSUME OInv PROVE PortsAccounted
  OBVIOUS
<1> DEFINE owned == UNION {TaskPorts(t) : t \in InUseTasks(k)}
<1>1. /\ Exclusive(k, held) /\ LiveOwned(k, held, ClosedPorts)
      /\ DOMAIN k.ports \subseteq Names /\ InUseTasks(k) \subseteq TaskIds
  BY DEF OInv, Owned, KInv, IsKernel, InUseTasks
<1>2. ASSUME NEW t \in InUseTasks(k)
      PROVE  /\ TaskPorts(t) = {PortAt(k, t, i) : i \in Places(k, t)}
             /\ Cardinality(TaskPorts(t)) = Len(k.tasks[t].rights) + 1
  <2>1. k.tasks[t].rights \in Seq(Right)
    BY <1>1 DEF OInv, KInv, IsKernel, Task, Right
  <2>2. \A i, j \in Places(k, t) : PortAt(k, t, i) = PortAt(k, t, j) => i = j
    BY <1>1 DEF Exclusive
  <2> QED  BY <2>1, <2>2, TaskPortsAtPlaces
<1>3. \A p : p \in owned <=> InTask(k, p)
  BY <1>2 DEF InTask
<1>4. \A p \in owned : p \in Names \ (HostPorts \cup held)
  BY <1>1, <1>2 DEF Exclusive
<1>5. ASSUME NEW t \in InUseTasks(k), NEW u \in InUseTasks(k) \ {t}
      PROVE  TaskPorts(t) \cap TaskPorts(u) = {}
  BY <1>1, <1>2, <1>5 DEF Exclusive
<1>6. HostPorts \subseteq Names /\ held \subseteq Names /\ held \cap HostPorts = {}
  <2>1. HostPorts \subseteq Names
    BY TasksAssumption, PortOpsAssumption DEF HostPorts, Names
  <2> QED  BY <1>1, <2>1 DEF Exclusive
<1> HIDE DEF owned
<1>7. Live(k.ports) = (HostPorts \cup owned \cup held) \ ClosedPorts
  BY <1>1, <1>3, <1>4, <1>6 DEF LiveOwned, Live
<1>8. HostPorts \cap (owned \cup held) = {} /\ owned \cap held = {}
  BY <1>4, <1>6
<1> QED  BY <1>2, <1>5, <1>7, <1>8 DEF PortsAccounted, ClosedPorts, owned

\* As long as no port is given to two tasks, every live port has one owner and
\* every owned port is live: whichever launches fail and whichever rights move,
\* no port leaks (task.c, mach_loader.c, mach_kernel.c).
THEOREM PortsHaveOneOwner == ~ShareRights => (Spec => []PortsAccounted)
<1>1. ~ShareRights /\ Init => OInv
  BY InitKInv, InitOwned DEF OInv
<1>2. ~ShareRights /\ OInv /\ [Next]_vars => OInv'
  <2> SUFFICES ASSUME ~ShareRights, OInv, [Next]_vars PROVE OInv'
    OBVIOUS
  <2>1. KInv'
    BY NextKInv DEF OInv
  <2>2. Owned(k', held', ClosedPorts')
    BY NextOwned
  <2> QED  BY <2>1, <2>2 DEF OInv
<1>3. ASSUME ~ShareRights PROVE Spec => []PortsAccounted
  <2>1. Init => OInv
    BY <1>1, <1>3
  <2>2. OInv /\ [Next]_vars => OInv'
    BY <1>2, <1>3
  <2> QED  BY <2>1, <2>2, OInvAccounts, PTL DEF Spec
<1> QED  BY <1>3

\* The table, its counter, the ports of tasks and the host processes agree.
THEOREM TasksStayConsistent == ~ShareRights => (Spec => []TasksConsistent)
<1>1. ASSUME ~ShareRights PROVE Spec => []PortsAccounted
  BY PortsHaveOneOwner, <1>1
<1>2. TypeOK /\ TaskCountExact /\ PortsAccounted /\ ProcessesOwned => TasksConsistent
  BY DEF TasksConsistent
<1>3. ASSUME ~ShareRights PROVE Spec => []TasksConsistent
  BY <1>1, <1>2, <1>3, TaskTypesCorrect, TaskCountCorrect, ProcessesKeepTheirTask, PTL
<1> QED  BY <1>3
=============================================================================
