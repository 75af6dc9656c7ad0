--------------------------- MODULE TaskOpsProofs ---------------------------
(***************************************************************************)
(* What the functions of task.c do to a kernel value, for every size of    *)
(* the tables: lemmas for the proofs about the tasks (TasksProofs) and the *)
(* servers (ServersProofs).                                                *)
(***************************************************************************)
EXTENDS TaskOps, FiniteSetTheorems, WellFoundedInduction, TLAPS

-----------------------------------------------------------------------------
(* Least and greatest elements: the searches of task.c and mach_port.c *)

\* Every non-empty set of natural numbers has a least element.
LEMMA LeastElement ==
    ASSUME NEW T \in SUBSET Nat, T # {}
    PROVE  \E x \in T : \A y \in T : x <= y
<1>1. IsWellFoundedOn(OpToRel(<, Nat), Nat)
  BY NatLessThanWellFounded
<1>2. PICK x \in T : \A y \in T : ~(<<y, x>> \in OpToRel(<, Nat))
  BY <1>1, WFMin
<1>3. \A y \in T : ~(y < x)
  BY <1>2 DEF OpToRel
<1> QED  BY <1>3

\* A bounded set of natural numbers has a greatest element.
LEMMA GreatestElement ==
    ASSUME NEW n \in Nat, NEW T \in SUBSET (0 .. n), T # {}
    PROVE  \E x \in T : \A y \in T : y <= x
<1> DEFINE M == {n - x : x \in T}
<1>1. M \in SUBSET Nat /\ M # {}
  <2>1. \A x \in T : n - x \in Nat
    OBVIOUS
  <2>2. PICK x \in T : TRUE
    OBVIOUS
  <2>3. n - x \in M
    OBVIOUS
  <2> QED  BY <2>1, <2>3
<1>2. PICK m \in M : \A y \in M : m <= y
  BY <1>1, LeastElement
<1>3. PICK x \in T : m = n - x
  OBVIOUS
<1>4. ASSUME NEW y \in T PROVE y <= x
  <2>1. n - y \in M
    OBVIOUS
  <2> QED  BY <1>2, <1>3, <2>1
<1> QED  BY <1>4

\* mach_port_allocate returns a name that was not live.
LEMMA FreshNameOK ==
    ASSUME NEW q, DOMAIN q \subseteq Names, ~Full(q)
    PROVE  FreshName(q) \in Names \ DOMAIN q
<1>1. Names \ DOMAIN q # {} /\ Names \ DOMAIN q \in SUBSET Nat
  BY PortOpsAssumption DEF Full, Names
<1>2. \E p \in Names \ DOMAIN q : \A r \in Names \ DOMAIN q : p <= r
  BY <1>1, LeastElement
<1> QED  BY <1>2 DEF FreshName

\* mxwl_task_create finds a slot that is not in use.
LEMMA FirstFreeTaskOK ==
    ASSUME NEW s, FreeTasks(s) # {}
    PROVE  FirstFreeTask(s) \in FreeTasks(s)
<1>1. FreeTasks(s) \in SUBSET Nat
  BY TaskOpsAssumption DEF FreeTasks, TaskIds
<1>2. \E t \in FreeTasks(s) : \A u \in FreeTasks(s) : t <= u
  BY <1>1, LeastElement
<1> QED  BY <1>2 DEF FirstFreeTask

\* The right that mxwl_task_remove_port takes is one of the rights.
LEMMA FirstMatchOK ==
    ASSUME NEW s, NEW t, NEW name, NEW R, s.tasks[t].rights \in Seq(R),
           Matches(s, t, name) # {}
    PROVE  FirstMatch(s, t, name) \in DOMAIN s.tasks[t].rights
<1>1. Matches(s, t, name) \in SUBSET Nat
  BY DEF Matches
<1>2. \E i \in Matches(s, t, name) : \A j \in Matches(s, t, name) : i <= j
  BY <1>1, LeastElement
<1>3. FirstMatch(s, t, name) \in Matches(s, t, name)
  BY <1>2 DEF FirstMatch
<1> QED  BY <1>3 DEF Matches
-----------------------------------------------------------------------------
(* The kernel value: table, counter and port space *)

\* A port space, a table of tasks and the number of its slots in use.
IsKernel(s) ==
    /\ s = [ports |-> s.ports, tasks |-> s.tasks, count |-> s.count]
    /\ DOMAIN s.ports \subseteq Names
    /\ s.tasks \in [TaskIds -> Task]
    /\ s.count = Cardinality(InUseTasks(s))

\* The slots in use are finitely many, at most as many as the table has.
LEMMA TableFinite ==
    ASSUME NEW s
    PROVE  /\ IsFiniteSet(InUseTasks(s))
           /\ Cardinality(InUseTasks(s)) \in 0 .. TASK_MAX
<1>1. /\ IsFiniteSet(TaskIds) /\ Cardinality(TaskIds) = TASK_MAX
      /\ InUseTasks(s) \in SUBSET TaskIds
  BY FS_Interval, TaskOpsAssumption DEF TaskIds, InUseTasks
<1>2. /\ IsFiniteSet(InUseTasks(s))
      /\ Cardinality(InUseTasks(s)) <= Cardinality(TaskIds)
  BY <1>1, FS_Subset
<1>3. Cardinality(InUseTasks(s)) \in Nat
  BY <1>2, FS_CardinalityType
<1> QED  BY <1>1, <1>2, <1>3, TaskOpsAssumption

\* A change of the entries that leaves in_use alone leaves the counter right.
LEMMA SameSlots ==
    ASSUME NEW s, IsKernel(s), NEW q, DOMAIN q \subseteq Names,
           NEW T \in [TaskIds -> Task],
           \A t \in TaskIds : T[t].in_use = s.tasks[t].in_use
    PROVE  /\ IsKernel([ports |-> q, tasks |-> T, count |-> s.count])
           /\ InUseTasks([ports |-> q, tasks |-> T, count |-> s.count]) = InUseTasks(s)
<1> DEFINE r == [ports |-> q, tasks |-> T, count |-> s.count]
<1>1. r.ports = q /\ r.tasks = T /\ r.count = s.count
  OBVIOUS
<1>2. InUseTasks(r) = InUseTasks(s)
  BY <1>1 DEF InUseTasks
<1> QED  BY <1>1, <1>2 DEF IsKernel

\* A cleared slot, and the table mxwl_task_init leaves: the kernel task only.
LEMMA ZeroTaskOK == ZeroTask \in Task /\ ZeroTask.rights = <<>> /\ ZeroTask.in_use = FALSE
<1>1. <<>> \in Seq([name : RightNames, object : Names]) /\ 0 \in 0 .. THREAD_MAX
  BY TaskOpsAssumption
<1> QED  BY <1>1 DEF ZeroTask, Task

LEMMA TaskInitOK ==
    ASSUME NEW q, DOMAIN q \subseteq Names, NEW b \in Names
    PROVE  LET r == TaskInit(q, b, KernelPid)
           IN  /\ IsKernel(r) /\ r.ports = q /\ InUseTasks(r) = {KernelTask}
               /\ r.tasks[KernelTask].bootstrap_port = b
               /\ \A t \in TaskIds : r.tasks[t].rights = <<>>
<1> DEFINE z == [ZeroTask EXCEPT !.in_use = TRUE, !.running = TRUE,
                                 !.host_pid = KernelPid, !.bootstrap_port = b]
           T == [t \in TaskIds |-> IF t = KernelTask THEN z ELSE ZeroTask]
           r == [ports |-> q, tasks |-> T, count |-> 1]
<1>1. TaskInit(q, b, KernelPid) = r
  BY DEF TaskInit
<1>2. KernelTask \in TaskIds /\ KernelPid \in Pids
  BY TaskOpsAssumption DEF KernelTask, TaskIds, KernelPid, Pids
<1>3. ASSUME NEW e \in Task
      PROVE  LET f == [e EXCEPT !.in_use = TRUE, !.running = TRUE,
                                !.host_pid = KernelPid, !.bootstrap_port = b]
             IN  /\ f \in Task /\ f.in_use = TRUE /\ f.bootstrap_port = b
                 /\ f.rights = e.rights
  BY <1>2 DEF Task
<1>4. z \in Task /\ z.in_use = TRUE /\ z.bootstrap_port = b /\ z.rights = <<>>
  BY <1>3, ZeroTaskOK
<1> HIDE DEF z
<1>5. /\ T \in [TaskIds -> Task] /\ T[KernelTask].bootstrap_port = b
      /\ \A t \in TaskIds : T[t].rights = <<>> /\ (T[t].in_use <=> t = KernelTask)
  BY <1>2, <1>4, ZeroTaskOK
<1>6. r.tasks = T /\ r.count = 1 /\ r.ports = q
      /\ r = [ports |-> r.ports, tasks |-> r.tasks, count |-> r.count]
  OBVIOUS
<1> HIDE DEF T, r
<1>7. InUseTasks(r) = {KernelTask}
  BY <1>2, <1>5, <1>6 DEF InUseTasks
<1>8. Cardinality(InUseTasks(r)) = 1
  BY <1>7, FS_Singleton
<1>9. IsKernel(r)
  BY <1>5, <1>6, <1>8 DEF IsKernel
<1> QED  BY <1>1, <1>5, <1>6, <1>7, <1>9

\* The slot mxwl_task_create fills.
LEMMA NewTaskOK ==
    ASSUME NEW p \in Names \cup {MACH_PORT_NULL}
    PROVE  /\ NewTask(p) \in Task
           /\ NewTask(p).in_use = (p # MACH_PORT_NULL)
           /\ NewTask(p).host_pid = NoPid
           /\ NewTask(p).rights = <<>>
           /\ NewTask(p).bootstrap_port = p
<1> DEFINE R(z, b) == [z EXCEPT !.in_use = b, !.host_pid = NoPid, !.bootstrap_port = p]
<1>1. ZeroTask \in Task /\ ZeroTask.rights = <<>>
  BY ZeroTaskOK
<1>2. ASSUME NEW z \in Task, NEW b \in BOOLEAN
      PROVE  /\ R(z, b) \in Task /\ R(z, b).in_use = b /\ R(z, b).host_pid = NoPid
             /\ R(z, b).rights = z.rights /\ R(z, b).bootstrap_port = p
  BY DEF Task
<1>3. (p # MACH_PORT_NULL) \in BOOLEAN /\ NewTask(p) = R(ZeroTask, p # MACH_PORT_NULL)
  BY DEF NewTask
<1> QED
  <2> HIDE DEF R
  <2> QED  BY <1>1, <1>2, <1>3, Zenon

\* mxwl_task_create either refuses, or leaves a slot free that it has
\* cleared, or fills a free slot and opens a fresh port for it.
LEMMA CreateOK ==
    ASSUME NEW s, IsKernel(s), NEW ok
    PROVE  LET r == TaskCreate(s, ok)
           IN  /\ IsKernel(r.k)
               /\ \/ r.kr # "KERN_SUCCESS" /\ r.k = s
                  \/ /\ r.kr # "KERN_SUCCESS"
                     /\ \E t \in TaskIds \ InUseTasks(s) :
                           r.k = [s EXCEPT !.tasks[t] = NewTask(MACH_PORT_NULL)]
                     /\ InUseTasks(r.k) = InUseTasks(s)
                  \/ /\ r.kr = "KERN_SUCCESS"
                     /\ r.task \in TaskIds \ InUseTasks(s)
                     /\ InUseTasks(r.k) = InUseTasks(s) \cup {r.task}
                     /\ \E p \in Names \ DOMAIN s.ports :
                           r.k = [ports |-> Opened(s.ports, p),
                                  tasks |-> [s.tasks EXCEPT ![r.task] = NewTask(p)],
                                  count |-> s.count + 1]
<1> DEFINE t == FirstFreeTask(s)
           p == IF ok /\ ~Full(s.ports) THEN FreshName(s.ports) ELSE MACH_PORT_NULL
           failed == [s EXCEPT !.tasks[t] = NewTask(MACH_PORT_NULL)]
           made == [ports |-> Opened(s.ports, p),
                    tasks |-> [s.tasks EXCEPT ![t] = NewTask(p)], count |-> s.count + 1]
<1>1. CASE s.count >= TASK_MAX \/ FreeTasks(s) = {}
  <2>1. TaskCreate(s, ok) = [k |-> s, kr |-> "KERN_NO_SPACE", task |-> KernelTask]
    BY <1>1 DEF TaskCreate
  <2> QED  BY <2>1
<1>2. CASE ~(s.count >= TASK_MAX \/ FreeTasks(s) = {})
  <2>1. t \in TaskIds \ InUseTasks(s)
    BY <1>2, FirstFreeTaskOK DEF FreeTasks
  <2>2. CASE p = MACH_PORT_NULL
    <3>1. TaskCreate(s, ok) = [k |-> [s EXCEPT !.tasks[t] = NewTask(p)],
                               kr |-> "KERN_FAILURE", task |-> t]
      BY <1>2, <2>2 DEF TaskCreate
    <3> DEFINE T == [s.tasks EXCEPT ![t] = NewTask(MACH_PORT_NULL)]
    <3>2. failed = [ports |-> s.ports, tasks |-> T, count |-> s.count]
      BY DEF IsKernel
    <3>3. /\ NewTask(MACH_PORT_NULL) \in Task
          /\ NewTask(MACH_PORT_NULL).in_use = FALSE
      BY NewTaskOK
    <3>4. s.tasks[t].in_use = FALSE
      BY <2>1 DEF InUseTasks, IsKernel, Task
    <3>5. /\ T \in [TaskIds -> Task]
          /\ \A u \in TaskIds : T[u].in_use = s.tasks[u].in_use
      BY <2>1, <3>3, <3>4 DEF IsKernel
    <3>6. DOMAIN s.ports \subseteq Names
      BY DEF IsKernel
    <3>7. IsKernel(failed) /\ InUseTasks(failed) = InUseTasks(s)
      <4> HIDE DEF T, failed
      <4> QED  BY <3>2, <3>5, <3>6, SameSlots
    <3>8. TaskCreate(s, ok).k = failed /\ TaskCreate(s, ok).kr = "KERN_FAILURE"
      BY <2>2, <3>1
    <3> HIDE DEF t, p, failed
    <3>9. failed = [s EXCEPT !.tasks[t] = NewTask(MACH_PORT_NULL)]
      BY DEF failed
    <3> QED  BY <2>1, <3>7, <3>8, <3>9
  <2>3. CASE p # MACH_PORT_NULL
    <3>1. TaskCreate(s, ok) = [k |-> made, kr |-> "KERN_SUCCESS", task |-> t]
      BY <1>2, <2>3 DEF TaskCreate
    <3>2. p \in Names \ DOMAIN s.ports
      BY <2>3, FreshNameOK DEF IsKernel
    <3>3. NewTask(p) \in Task /\ NewTask(p).in_use = TRUE
      BY <2>3, <3>2, NewTaskOK
    <3>4. [s.tasks EXCEPT ![t] = NewTask(p)] \in [TaskIds -> Task]
      BY <2>1, <3>3 DEF IsKernel
    <3>5. InUseTasks(made) = InUseTasks(s) \cup {t}
      BY <2>1, <3>3, <3>4 DEF InUseTasks, IsKernel
    <3>6. Cardinality(InUseTasks(made)) = s.count + 1
      BY <2>1, <3>5, TableFinite, FS_AddElement DEF IsKernel
    <3>7. DOMAIN made.ports \subseteq Names
      BY <3>2 DEF IsKernel, Opened
    <3>8. IsKernel(made)
      BY <3>4, <3>6, <3>7 DEF IsKernel
    <3>9. TaskCreate(s, ok).k = made /\ TaskCreate(s, ok).kr = "KERN_SUCCESS"
          /\ TaskCreate(s, ok).task = t
      BY <3>1
    <3> HIDE DEF t, p, made
    <3>10. made = [ports |-> Opened(s.ports, p),
                   tasks |-> [s.tasks EXCEPT ![t] = NewTask(p)], count |-> s.count + 1]
      BY DEF made
    <3> QED  BY <2>1, <3>2, <3>5, <3>8, <3>9, <3>10
  <2> QED  BY <2>2, <2>3
<1> QED  BY <1>1, <1>2
-----------------------------------------------------------------------------
(* What each operation does to the entries *)

\* Everything about task t that ownership and processes depend on.
SameEntry(s, r, t) ==
    /\ r.tasks[t].rights = s.tasks[t].rights
    /\ r.tasks[t].bootstrap_port = s.tasks[t].bootstrap_port
    /\ r.tasks[t].host_pid = s.tasks[t].host_pid

\* mxwl_task_terminate frees the slot, lowers the counter and closes ports.
LEMMA TerminateOK ==
    ASSUME NEW s, IsKernel(s), NEW t \in InUseTasks(s)
    PROVE  LET r == TaskTerminate(s, t)
           IN  /\ IsKernel(r)
               /\ InUseTasks(r) = InUseTasks(s) \ {t}
               /\ \A u \in TaskIds : SameEntry(s, r, u)
               /\ Live(r.ports) = Live(s.ports) \ (RightObjects(s.tasks[t])
                                        \cup {s.tasks[t].bootstrap_port})
<1> DEFINE r == TaskTerminate(s, t)
           T == [s.tasks EXCEPT ![t].running = FALSE, ![t].terminated = TRUE,
                                ![t].in_use = FALSE]
           q == [p \in Live(s.ports)
                     \ (RightObjects(s.tasks[t]) \cup {s.tasks[t].bootstrap_port})
                |-> s.ports[p]]
<1>1. r = [ports |-> q, tasks |-> T, count |-> s.count - 1]
  BY DEF TaskTerminate
<1>2. t \in TaskIds /\ s.tasks[t].in_use /\ s.tasks \in [TaskIds -> Task]
  BY DEF IsKernel, InUseTasks
<1>3. ASSUME NEW u \in TaskIds
      PROVE  /\ T[u] \in Task /\ (T[u].in_use <=> (s.tasks[u].in_use /\ u # t))
             /\ T[u].rights = s.tasks[u].rights
             /\ T[u].bootstrap_port = s.tasks[u].bootstrap_port
             /\ T[u].host_pid = s.tasks[u].host_pid
  BY <1>2, ZenonT(60) DEF Task
<1>4. T \in [TaskIds -> Task]
  BY <1>2, <1>3
<1>a. r.ports = q /\ r.tasks = T /\ r.count = s.count - 1
  BY <1>1
<1>b. DOMAIN q = Live(s.ports) \ (RightObjects(s.tasks[t]) \cup {s.tasks[t].bootstrap_port})
  OBVIOUS
<1>c. r = [ports |-> r.ports, tasks |-> r.tasks, count |-> r.count]
  BY <1>1
<1> HIDE DEF r, T, q
<1>5. InUseTasks(r) = InUseTasks(s) \ {t}
  BY <1>2, <1>3, <1>a DEF InUseTasks
<1>6. Cardinality(InUseTasks(r)) = s.count - 1
  BY <1>5, TableFinite, FS_RemoveElement DEF IsKernel
<1>7. DOMAIN r.ports \subseteq Names /\ Live(r.ports) = DOMAIN q
  BY <1>a, <1>b DEF IsKernel, Live
<1>8. IsKernel(r)
  BY <1>a, <1>c, <1>4, <1>6, <1>7 DEF IsKernel
<1>9. \A u \in TaskIds : SameEntry(s, r, u)
  BY <1>a, <1>3 DEF SameEntry
<1> QED  BY <1>5, <1>7, <1>8, <1>9, <1>b DEF r

\* An operation of the port table leaves the task table alone.
LEMMA PortsOK ==
    ASSUME NEW s, IsKernel(s), NEW q, DOMAIN q \subseteq Names
    PROVE  LET r == [s EXCEPT !.ports = q]
           IN  /\ IsKernel(r) /\ r.ports = q /\ r.tasks = s.tasks
               /\ InUseTasks(r) = InUseTasks(s)
<1> DEFINE r == [s EXCEPT !.ports = q]
<1>1. r = [ports |-> q, tasks |-> s.tasks, count |-> s.count]
  BY DEF IsKernel
<1>2. s.tasks \in [TaskIds -> Task]
  BY DEF IsKernel
<1>3. r.ports = q /\ r.tasks = s.tasks
  BY <1>1
<1> QED
  <2> HIDE DEF r
  <2>1. IsKernel(r) /\ InUseTasks(r) = InUseTasks(s)
    BY <1>1, <1>2, SameSlots
  <2> QED  BY <2>1, <1>3 DEF r

\* A change of one entry that keeps its in_use.
LEMMA EntryOK ==
    ASSUME NEW s, IsKernel(s), NEW t \in TaskIds, NEW e \in Task,
           e.in_use = s.tasks[t].in_use
    PROVE  LET r == [s EXCEPT !.tasks[t] = e]
           IN  /\ IsKernel(r) /\ r.ports = s.ports
               /\ r.tasks = [s.tasks EXCEPT ![t] = e]
               /\ InUseTasks(r) = InUseTasks(s)
<1> DEFINE T == [s.tasks EXCEPT ![t] = e]
           r == [s EXCEPT !.tasks[t] = e]
<1>1. r = [ports |-> s.ports, tasks |-> T, count |-> s.count]
  BY DEF IsKernel
<1>2. r.ports = s.ports /\ r.tasks = T
  BY <1>1
<1>3. /\ T \in [TaskIds -> Task] /\ DOMAIN s.ports \subseteq Names
      /\ \A u \in TaskIds : T[u].in_use = s.tasks[u].in_use
  BY DEF IsKernel
<1> QED
  <2> HIDE DEF r, T
  <2>1. IsKernel(r) /\ InUseTasks(r) = InUseTasks(s)
    BY <1>1, <1>3, SameSlots
  <2> QED  BY <2>1, <1>2 DEF r, T

Right == [name : RightNames, object : Names]

\* Removing an entry of a list by shifting the later ones down.
LEMMA ShiftedDownOK ==
    ASSUME NEW R, NEW z \in Seq(R), NEW i \in DOMAIN z
    PROVE  /\ ShiftedDown(z, i) \in Seq(R)
           /\ Len(ShiftedDown(z, i)) = Len(z) - 1
           /\ \A j \in 1 .. Len(z) - 1 :
                 ShiftedDown(z, i)[j] = IF j < i THEN z[j] ELSE z[j + 1]
<1>1. /\ Len(z) \in Nat /\ DOMAIN z = 1 .. Len(z) /\ i \in 1 .. Len(z)
      /\ \A j \in 1 .. Len(z) : z[j] \in R
  OBVIOUS
<1> DEFINE n == Len(z) - 1
           f == [j \in 1 .. n |-> IF j < i THEN z[j] ELSE z[j + 1]]
<1>2. n \in Nat /\ n + 1 = Len(z)
  BY <1>1
<1>3. ASSUME NEW j \in 1 .. n PROVE (IF j < i THEN z[j] ELSE z[j + 1]) \in R
  <2>1. j \in 1 .. Len(z) /\ j + 1 \in 1 .. Len(z)
    BY <1>2
  <2> QED  BY <1>1, <2>1
<1>4. f \in [1 .. n -> R]
  BY <1>3
<1>5. f \in Seq(R) /\ Len(f) = n
  <2> HIDE DEF f, n
  <2> QED  BY <1>2, <1>4
<1>6. ShiftedDown(z, i) = f
  BY DEF ShiftedDown
<1> QED  BY <1>5, <1>6

\* mxwl_task_insert_port and mxwl_task_remove_port change one list of rights.
LEMMA RightsOK ==
    ASSUME NEW s, IsKernel(s), NEW t \in TaskIds, NEW z \in Seq(Right)
    PROVE  LET r == [s EXCEPT !.tasks[t].rights = z]
           IN  /\ IsKernel(r) /\ r.ports = s.ports /\ InUseTasks(r) = InUseTasks(s)
               /\ r.tasks[t].rights = z
               /\ r.tasks[t].bootstrap_port = s.tasks[t].bootstrap_port
               /\ \A u \in TaskIds : /\ u # t => r.tasks[u] = s.tasks[u]
                                      /\ r.tasks[u].host_pid = s.tasks[u].host_pid
<1> DEFINE e == [s.tasks[t] EXCEPT !.rights = z]
           r == [s EXCEPT !.tasks[t] = e]
<1>1. s.tasks[t] \in Task /\ s.tasks \in [TaskIds -> Task]
  BY DEF IsKernel
<1>2. /\ e \in Task /\ e.in_use = s.tasks[t].in_use /\ e.rights = z
      /\ e.bootstrap_port = s.tasks[t].bootstrap_port
      /\ e.host_pid = s.tasks[t].host_pid
  BY <1>1 DEF Task, Right
<1>3. r = [s EXCEPT !.tasks[t].rights = z]
  BY <1>1 DEF IsKernel
<1>4. /\ IsKernel(r) /\ r.ports = s.ports /\ InUseTasks(r) = InUseTasks(s)
      /\ r.tasks = [s.tasks EXCEPT ![t] = e]
  <2> HIDE DEF e
  <2> QED  BY <1>2, EntryOK
<1> HIDE DEF r, e
<1>5. /\ r.tasks[t] = e
      /\ \A u \in TaskIds : u # t => r.tasks[u] = s.tasks[u]
  BY <1>1, <1>4
<1> QED  BY <1>2, <1>3, <1>4, <1>5

\* mxwl_thread_create raises a counter of the task.
LEMMA ThreadOK ==
    ASSUME NEW s, IsKernel(s), NEW t \in TaskIds, CanCreateThread(s, t)
    PROVE  LET r == ThreadCreate(s, t)
           IN  /\ IsKernel(r) /\ r.ports = s.ports /\ InUseTasks(r) = InUseTasks(s)
               /\ \A u \in TaskIds : SameEntry(s, r, u)
<1> DEFINE e == [s.tasks[t] EXCEPT !.thread_count = @ + 1]
           r == [s EXCEPT !.tasks[t] = e]
<1>1. s.tasks[t] \in Task /\ s.tasks \in [TaskIds -> Task]
  BY DEF IsKernel
<1>2. s.tasks[t].thread_count + 1 \in 0 .. THREAD_MAX
  BY <1>1, TaskOpsAssumption DEF CanCreateThread, Task
<1>3. /\ e \in Task /\ e.in_use = s.tasks[t].in_use /\ e.rights = s.tasks[t].rights
      /\ e.bootstrap_port = s.tasks[t].bootstrap_port
      /\ e.host_pid = s.tasks[t].host_pid
  BY <1>1, <1>2 DEF Task
<1>4. r = ThreadCreate(s, t)
  BY <1>1 DEF IsKernel, ThreadCreate
<1>5. /\ IsKernel(r) /\ r.ports = s.ports /\ InUseTasks(r) = InUseTasks(s)
      /\ r.tasks = [s.tasks EXCEPT ![t] = e]
  <2> HIDE DEF e
  <2> QED  BY <1>3, EntryOK
<1> HIDE DEF r, e
<1>6. \A u \in TaskIds : SameEntry(s, r, u)
  BY <1>1, <1>3, <1>5 DEF SameEntry
<1> QED  BY <1>4, <1>5, <1>6
=============================================================================
