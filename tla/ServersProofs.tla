--------------------------- MODULE ServersProofs ---------------------------
(***************************************************************************)
(* The servers, their ports and their tasks, for every number of servers   *)
(* and every size of the tables.  The invariant speaks of a kernel value   *)
(* and the server structures, so that it can be followed through the steps *)
(* of a load, an unload or a shutdown, which are one action of the model.  *)
(***************************************************************************)
EXTENDS Servers, TaskOpsProofs, SequenceTheorems

-----------------------------------------------------------------------------
(* The invariant *)

Messages == [type : {"REQUEST", "NOTIFY", "ASYNC", "REPLY"}, sender : Nat,
             to : Servers \cup {NoServer}]

\* The port space, the task table and its counter; the kernel keeps its
\* ports and its task, and no task holds a right beside its bootstrap port.
KernelOK(kk) ==
    /\ IsKernel(kk)
    /\ kk.ports \in [Live(kk.ports) -> Seq(Messages)]
    /\ KernelPorts \subseteq Live(kk.ports)
    /\ KernelTask \in InUseTasks(kk)
    /\ \A t \in InUseTasks(kk) : kk.tasks[t].rights = <<>>

\* A structure that is not allocated is clear; without a path a server has
\* no task, and the documented main program has no path.
StructsOK(vv) ==
    /\ vv \in [Servers -> Server]
    /\ \A s \in Servers : /\ ~vv[s].exists => vv[s] = ZeroServer
                          /\ ~vv[s].path => vv[s].task = NoTask
                          /\ vv[s].main # "none" => ~vv[s].path

PortsOf(v) == {v.endpoint, v.mgmt_port} \ {MACH_PORT_NULL}

\* A server has two live ports of its own or none.
PortsOK2(kk, vv) ==
    \A s \in Servers :
        /\ vv[s].endpoint = MACH_PORT_NULL <=> vv[s].mgmt_port = MACH_PORT_NULL
        /\ vv[s].endpoint # MACH_PORT_NULL => vv[s].endpoint # vv[s].mgmt_port
        /\ PortsOf(vv[s]) \subseteq Live(kk.ports) \ KernelPorts
        /\ \A d \in Servers \ {s} : PortsOf(vv[s]) \cap PortsOf(vv[d]) = {}

\* The bootstrap port of a task is live, no other task's and, if it is a
\* port of a server, the endpoint of the server that points to the task.
BootstrapsOK(kk, vv) ==
    \A t \in InUseTasks(kk) \ {KernelTask} :
        LET b == kk.tasks[t].bootstrap_port
        IN  /\ b \in Live(kk.ports) \ KernelPorts
            /\ \A u \in InUseTasks(kk) \ {KernelTask, t} :
                  kk.tasks[u].bootstrap_port # b
            /\ \A s \in Servers : b \in PortsOf(vv[s]) =>
                  vv[s].endpoint = b /\ vv[s].task = t

\* The task of a server is in use and no other server's.
OwnersOK(kk, vv) ==
    \A s \in Servers : vv[s].task # NoTask =>
        /\ vv[s].task \in InUseTasks(kk) \ {KernelTask}
        /\ vv[s].state # "STOPPED"
        /\ \A d \in Servers \ {s} : vv[d].task # vv[s].task

\* A running server of the manager's has its ports and a task that was
\* given its endpoint.
RunsOK(kk, vv) ==
    \A s \in Servers : vv[s].state \in Running /\ vv[s].main = "none" =>
        /\ vv[s].task # NoTask /\ vv[s].endpoint # MACH_PORT_NULL
        /\ kk.tasks[vv[s].task].bootstrap_port = vv[s].endpoint

\* Messages on a server's endpoint are replies or meant for it.
DeliveredOK(kk, vv) ==
    \A s \in Servers : vv[s].endpoint # MACH_PORT_NULL =>
        \A i \in DOMAIN kk.ports[vv[s].endpoint] :
            LET m == kk.ports[vv[s].endpoint][i]
            IN  m.type # "REPLY" => m.to = s

WorldOK(kk, vv) == /\ KernelOK(kk) /\ StructsOK(vv) /\ PortsOK2(kk, vv)
                   /\ BootstrapsOK(kk, vv) /\ OwnersOK(kk, vv)
                   /\ RunsOK(kk, vv) /\ DeliveredOK(kk, vv)

\* The registry holds what is allocated, each once and under its own name.
RegistryOK(vv, g) ==
    /\ g \in Seq(Servers) /\ Len(g) <= MX_SERVER_MAX
    /\ \A s \in Servers : vv[s].exists <=> \E i \in DOMAIN g : g[i] = s
    /\ \A i, j \in DOMAIN g : i # j => /\ g[i] # g[j]
                                       /\ vv[g[i]].name # vv[g[j]].name

CountersOK == /\ sent \in 0 .. MaxSent
              /\ waiting \in Servers \cup {NoServer} /\ waited \in 0 .. WAIT_MAX

IInv == WorldOK(k, srv) /\ RegistryOK(srv, _registry) /\ CountersOK

\* The constants, as the steps use them.
LEMMA Basics ==
    /\ KernelTask \in TaskIds /\ NoTask \notin TaskIds
    /\ KernelPorts \subseteq Names /\ MACH_PORT_NULL \notin Names
    /\ MACH_PORT_NULL \in PortOrNull /\ Names \subseteq PortOrNull
<1>1. MACH_PORT_TABLE_SIZE \in Nat /\ MACH_PORT_TABLE_SIZE >= 3 /\ TASK_MAX \in Nat \ {0}
  BY PortOpsAssumption, ServersAssumption, TaskOpsAssumption
<1> QED  BY <1>1 DEF KernelTask, TaskIds, NoTask, KernelPorts, Names,
                     MACH_PORT_NULL, PortOrNull
-----------------------------------------------------------------------------
(* Three ways a world changes: by messages, by one server that keeps or     *)
(* gives up its ports and its task, by one server that gets new ones        *)

\* The queues change, the live ports do not.
LEMMA MessagesKeep ==
    ASSUME NEW kk, NEW vv, WorldOK(kk, vv), NEW q \in [Live(kk.ports) -> Seq(Messages)],
           LET rr == [kk EXCEPT !.ports = q] IN DeliveredOK(rr, vv)
    PROVE  WorldOK([kk EXCEPT !.ports = q], vv)
<1> DEFINE rr == [kk EXCEPT !.ports = q]
<1>1. IsKernel(kk) /\ DOMAIN q = Live(kk.ports) /\ DOMAIN q \subseteq Names
  BY DEF WorldOK, KernelOK, IsKernel, Live
<1>2. IsKernel(rr) /\ rr.ports = q /\ rr.tasks = kk.tasks /\ InUseTasks(rr) = InUseTasks(kk)
  BY <1>1, PortsOK
<1>3. Live(rr.ports) = Live(kk.ports)
  BY <1>1, <1>2 DEF Live
<1>4. DeliveredOK(rr, vv)
  OBVIOUS
<1> HIDE DEF rr
<1>5. KernelOK(rr)
  BY <1>2, <1>3 DEF WorldOK, KernelOK
<1>6. PortsOK2(rr, vv)
  BY <1>3 DEF WorldOK, PortsOK2
<1>7. BootstrapsOK(rr, vv)
  <2>1. BootstrapsOK(kk, vv) /\ Live(rr.ports) = Live(kk.ports)
        /\ rr.tasks = kk.tasks /\ InUseTasks(rr) = InUseTasks(kk)
    BY <1>2, <1>3 DEF WorldOK
  <2> HIDE <1>2, <1>3
  <2> QED  BY <2>1 DEF BootstrapsOK
<1>8. OwnersOK(rr, vv) /\ RunsOK(rr, vv) /\ StructsOK(vv)
  BY <1>2, Zenon DEF WorldOK, OwnersOK, RunsOK
<1> QED  BY <1>4, <1>5, <1>6, <1>7, <1>8 DEF WorldOK, rr

\* What a server s may become without new ports or a new task: it keeps its
\* ports and its task, or has no port any more and the task or none.
Kept(kk, v, n) ==
    /\ n \in Server
    /\ ~n.exists => n = ZeroServer
    /\ ~n.path => n.task = NoTask
    /\ n.main # "none" => ~n.path
    /\ \/ n.endpoint = v.endpoint /\ n.mgmt_port = v.mgmt_port /\ n.task = v.task
       \/ n.endpoint = MACH_PORT_NULL /\ n.mgmt_port = MACH_PORT_NULL
    /\ n.task # NoTask => n.task = v.task /\ n.state # "STOPPED"
    /\ n.state \in Running /\ n.main = "none" =>
          /\ n.task # NoTask /\ n.endpoint # MACH_PORT_NULL
          /\ kk.tasks[n.task].bootstrap_port = n.endpoint

\* The kernel value lost the ports C and the tasks T, and nothing else.
Lost(kk, rr, C, T) ==
    /\ KernelOK(rr)
    /\ InUseTasks(rr) = InUseTasks(kk) \ T
    /\ \A t \in InUseTasks(rr) :
          rr.tasks[t].bootstrap_port = kk.tasks[t].bootstrap_port
    /\ Live(rr.ports) = Live(kk.ports) \ C
    /\ \A p \in Live(rr.ports) : rr.ports[p] = kk.ports[p]

LEMMA ShrinkKeeps ==
    ASSUME NEW kk, NEW vv, WorldOK(kk, vv), NEW s \in Servers, NEW n,
           NEW rr, NEW C, NEW T, Lost(kk, rr, C, T), Kept(rr, vv[s], n),
           PortsOf(n) \cap C = {},
           \A d \in Servers \ {s} : PortsOf(vv[d]) \cap C = {},
           \A t \in InUseTasks(rr) \ {KernelTask} : kk.tasks[t].bootstrap_port \notin C,
           T \subseteq {vv[s].task}, n.task \notin T
    PROVE  WorldOK(rr, [vv EXCEPT ![s] = n])
<1> DEFINE ww == [vv EXCEPT ![s] = n]
<1>1. vv \in [Servers -> Server] /\ n \in Server
  BY DEF WorldOK, StructsOK, Kept
<1>2. /\ ww \in [Servers -> Server] /\ ww[s] = n
      /\ \A d \in Servers : d # s => ww[d] = vv[d]
  BY <1>1
<1> HIDE DEF ww
<1>3. KernelOK(rr)
  BY DEF Lost
<1>4. StructsOK(ww)
  BY <1>2 DEF WorldOK, StructsOK, Kept
<1>5. /\ PortsOf(n) \subseteq PortsOf(vv[s])
      /\ PortsOf(n) # {} => n.endpoint = vv[s].endpoint /\ n.task = vv[s].task
  BY DEF Kept, PortsOf
<1>6. PortsOK2(rr, ww)
  <2>1. ASSUME NEW d \in Servers
        PROVE  /\ ww[d].endpoint = MACH_PORT_NULL <=> ww[d].mgmt_port = MACH_PORT_NULL
               /\ ww[d].endpoint # MACH_PORT_NULL => ww[d].endpoint # ww[d].mgmt_port
               /\ PortsOf(ww[d]) \subseteq PortsOf(vv[d]) /\ PortsOf(ww[d]) \cap C = {}
    <3>1. CASE d = s
      BY <1>2, <1>5, <3>1 DEF WorldOK, PortsOK2, Kept
    <3>2. CASE d # s
      BY <1>2, <3>2 DEF WorldOK, PortsOK2
    <3> QED  BY <3>1, <3>2
  <2>2. \A d \in Servers : /\ PortsOf(vv[d]) \subseteq Live(kk.ports) \ KernelPorts
                           /\ \A e \in Servers \ {d} : PortsOf(vv[d]) \cap PortsOf(vv[e]) = {}
    BY DEF WorldOK, PortsOK2
  <2>3. Live(rr.ports) = Live(kk.ports) \ C
    BY DEF Lost
  <2>4. \A d \in Servers : /\ PortsOf(ww[d]) \subseteq Live(rr.ports) \ KernelPorts
                           /\ \A e \in Servers \ {d} : PortsOf(ww[d]) \cap PortsOf(ww[e]) = {}
    BY <2>1, <2>2, <2>3
  <2> QED  BY <2>1, <2>4 DEF PortsOK2
<1>7. BootstrapsOK(rr, ww)
  <2> SUFFICES ASSUME NEW t \in InUseTasks(rr) \ {KernelTask}
               PROVE  LET b == rr.tasks[t].bootstrap_port
                      IN  /\ b \in Live(rr.ports) \ KernelPorts
                          /\ \A u \in InUseTasks(rr) \ {KernelTask, t} :
                                rr.tasks[u].bootstrap_port # b
                          /\ \A d \in Servers : b \in PortsOf(ww[d]) =>
                                ww[d].endpoint = b /\ ww[d].task = t
    BY DEF BootstrapsOK
  <2>1. /\ t \in InUseTasks(kk) \ {KernelTask}
        /\ \A u \in InUseTasks(rr) : u \in InUseTasks(kk)
        /\ \A u \in InUseTasks(rr) : rr.tasks[u].bootstrap_port = kk.tasks[u].bootstrap_port
    BY DEF Lost
  <2>2. LET b == kk.tasks[t].bootstrap_port
        IN  /\ b \in Live(kk.ports) \ KernelPorts /\ b \notin C
            /\ \A u \in InUseTasks(kk) \ {KernelTask, t} : kk.tasks[u].bootstrap_port # b
            /\ \A d \in Servers : b \in PortsOf(vv[d]) =>
                                     vv[d].endpoint = b /\ vv[d].task = t
    BY <2>1 DEF WorldOK, BootstrapsOK
  <2>3. Live(rr.ports) = Live(kk.ports) \ C
    BY DEF Lost
  <2>4. \A d \in Servers : kk.tasks[t].bootstrap_port \in PortsOf(ww[d]) =>
             ww[d].endpoint = kk.tasks[t].bootstrap_port /\ ww[d].task = t
    BY <1>2, <1>5, <2>2
  <2> QED  BY <2>1, <2>2, <2>3, <2>4
<1>8. OwnersOK(rr, ww)
  <2>1. \A d \in Servers : vv[d].task # NoTask =>
           /\ vv[d].task \in InUseTasks(kk) \ {KernelTask} /\ vv[d].state # "STOPPED"
           /\ \A e \in Servers \ {d} : vv[e].task # vv[d].task
    BY DEF WorldOK, OwnersOK
  <2>2. n.task # NoTask => n.task = vv[s].task /\ n.state # "STOPPED"
    BY DEF Kept
  <2>3. InUseTasks(rr) = InUseTasks(kk) \ T
    BY DEF Lost
  <2>4. ASSUME NEW d \in Servers, ww[d].task # NoTask
        PROVE  /\ ww[d].task = vv[d].task /\ ww[d].state # "STOPPED"
               /\ ww[d].task \notin T
    BY <1>2, <2>1, <2>2, <2>4
  <2>5. ASSUME NEW d \in Servers, ww[d].task # NoTask
        PROVE  /\ ww[d].task \in InUseTasks(rr) \ {KernelTask}
               /\ \A e \in Servers \ {d} : ww[e].task # ww[d].task
    BY <2>1, <2>3, <2>4, <2>5
  <2> QED  BY <2>4, <2>5 DEF OwnersOK
<1>9. RunsOK(rr, ww)
  <2> SUFFICES ASSUME NEW d \in Servers, ww[d].state \in Running, ww[d].main = "none"
               PROVE  /\ ww[d].task # NoTask /\ ww[d].endpoint # MACH_PORT_NULL
                      /\ rr.tasks[ww[d].task].bootstrap_port = ww[d].endpoint
    BY DEF RunsOK
  <2>1. CASE d = s
    BY <1>2, <2>1 DEF Kept
  <2>2. CASE d # s
    <3>1. /\ vv[d].task # NoTask /\ vv[d].endpoint # MACH_PORT_NULL
          /\ kk.tasks[vv[d].task].bootstrap_port = vv[d].endpoint
          /\ ww[d] = vv[d]
      BY <1>2, <2>2 DEF WorldOK, RunsOK
    <3>2. vv[d].task \in InUseTasks(rr)
      BY <1>8, <3>1 DEF OwnersOK
    <3> QED  BY <3>1, <3>2 DEF Lost
  <2> QED  BY <2>1, <2>2
<1>10. DeliveredOK(rr, ww)
  <2> SUFFICES ASSUME NEW d \in Servers, ww[d].endpoint # MACH_PORT_NULL,
                      NEW i \in DOMAIN rr.ports[ww[d].endpoint]
               PROVE  rr.ports[ww[d].endpoint][i].type # "REPLY"
                         => rr.ports[ww[d].endpoint][i].to = d
    BY DEF DeliveredOK
  <2>1. ww[d].endpoint \in PortsOf(ww[d]) /\ ww[d].endpoint \in Live(rr.ports)
    BY <1>6 DEF PortsOf, PortsOK2
  <2>2. ww[d].endpoint = vv[d].endpoint
    BY <1>2, <1>5, <2>1
  <2>3. rr.ports[ww[d].endpoint] = kk.ports[vv[d].endpoint]
    BY <2>1, <2>2 DEF Lost
  <2> QED  BY <2>2, <2>3 DEF WorldOK, DeliveredOK
<1> QED  BY <1>3, <1>4, <1>6, <1>7, <1>8, <1>9, <1>10 DEF WorldOK, ww

\* The kernel value got the ports C, all empty, and the tasks T.
Gained(kk, rr, C, T) ==
    /\ KernelOK(rr)
    /\ InUseTasks(rr) = InUseTasks(kk) \cup T /\ T \cap InUseTasks(kk) = {}
    /\ \A t \in InUseTasks(kk) :
          rr.tasks[t].bootstrap_port = kk.tasks[t].bootstrap_port
    /\ Live(rr.ports) = Live(kk.ports) \cup C /\ C \cap Live(kk.ports) = {}
    /\ \A p \in Live(kk.ports) : rr.ports[p] = kk.ports[p]
    /\ \A p \in C : rr.ports[p] = <<>>

\* What s becomes with two of the new ports and, if there is one, the new
\* task, whose bootstrap port is then the endpoint.
Renewed(rr, v, n, C, T) ==
    /\ n \in Server /\ n.exists
    /\ ~n.path => n.task = NoTask
    /\ n.main # "none" => ~n.path
    /\ {n.endpoint, n.mgmt_port} \subseteq C /\ n.endpoint # n.mgmt_port
    /\ \/ T = {} /\ n.task = NoTask
       \/ T = {n.task}
    /\ \A t \in T : rr.tasks[t].bootstrap_port = n.endpoint
    /\ n.task # NoTask => n.state # "STOPPED"
    /\ n.main = "none" => n.task # NoTask

LEMMA GrowthKeeps ==
    ASSUME NEW kk, NEW vv, WorldOK(kk, vv), NEW s \in Servers, NEW n,
           NEW rr, NEW C, NEW T, Gained(kk, rr, C, T), Renewed(rr, vv[s], n, C, T)
    PROVE  WorldOK(rr, [vv EXCEPT ![s] = n])
<1> DEFINE ww == [vv EXCEPT ![s] = n]
<1>1. vv \in [Servers -> Server] /\ n \in Server
  BY DEF WorldOK, StructsOK, Renewed
<1>2. /\ ww \in [Servers -> Server] /\ ww[s] = n
      /\ \A d \in Servers : d # s => ww[d] = vv[d]
  BY <1>1
<1> HIDE DEF ww
<1>3. KernelOK(rr)
  BY DEF Gained
<1>4. StructsOK(ww)
  BY <1>2 DEF WorldOK, StructsOK, Renewed
<1>5. /\ Live(kk.ports) \subseteq Names /\ KernelPorts \subseteq Live(kk.ports)
      /\ C \subseteq Names /\ C \cap KernelPorts = {} /\ MACH_PORT_NULL \notin C
      /\ KernelTask \in InUseTasks(kk) /\ KernelTask \notin T
  BY Basics DEF WorldOK, KernelOK, IsKernel, Live, Gained
<1>6. /\ PortsOf(n) = {n.endpoint, n.mgmt_port} /\ PortsOf(n) \subseteq C
      /\ n.endpoint # MACH_PORT_NULL /\ n.mgmt_port # MACH_PORT_NULL
      /\ n.endpoint # n.mgmt_port
  BY <1>5 DEF Renewed, PortsOf
<1>7. \A d \in Servers : /\ PortsOf(vv[d]) \subseteq Live(kk.ports) \ KernelPorts
                         /\ \A e \in Servers \ {d} : PortsOf(vv[d]) \cap PortsOf(vv[e]) = {}
                         /\ vv[d].endpoint = MACH_PORT_NULL <=> vv[d].mgmt_port = MACH_PORT_NULL
                         /\ vv[d].endpoint # MACH_PORT_NULL => vv[d].endpoint # vv[d].mgmt_port
  BY DEF WorldOK, PortsOK2
<1>8. Live(rr.ports) = Live(kk.ports) \cup C /\ C \cap Live(kk.ports) = {}
  BY DEF Gained
<1>9. PortsOK2(rr, ww)
  <2>1. ASSUME NEW d \in Servers
        PROVE  /\ ww[d].endpoint = MACH_PORT_NULL <=> ww[d].mgmt_port = MACH_PORT_NULL
               /\ ww[d].endpoint # MACH_PORT_NULL => ww[d].endpoint # ww[d].mgmt_port
               /\ PortsOf(ww[d]) \subseteq Live(rr.ports) \ KernelPorts
    BY <1>2, <1>5, <1>6, <1>7, <1>8
  <2>2. ASSUME NEW d \in Servers, NEW e \in Servers \ {d}
        PROVE  PortsOf(ww[d]) \cap PortsOf(ww[e]) = {}
    <3>1. CASE d # s /\ e # s
      BY <1>2, <1>7, <3>1
    <3>2. CASE d = s
      BY <1>2, <1>6, <1>7, <1>8, <3>2
    <3>3. CASE e = s
      BY <1>2, <1>6, <1>7, <1>8, <3>3
    <3> QED  BY <3>1, <3>2, <3>3
  <2> QED  BY <2>1, <2>2 DEF PortsOK2
<1>10. /\ InUseTasks(rr) = InUseTasks(kk) \cup T /\ T \cap InUseTasks(kk) = {}
       /\ \A t \in InUseTasks(kk) :
             rr.tasks[t].bootstrap_port = kk.tasks[t].bootstrap_port
       /\ \A t \in T : /\ rr.tasks[t].bootstrap_port = n.endpoint
                       /\ n.task = t /\ T = {t}
  BY DEF Gained, Renewed
<1>11. BootstrapsOK(rr, ww)
  <2> SUFFICES ASSUME NEW t \in InUseTasks(rr) \ {KernelTask}
               PROVE  LET b == rr.tasks[t].bootstrap_port
                      IN  /\ b \in Live(rr.ports) \ KernelPorts
                          /\ \A u \in InUseTasks(rr) \ {KernelTask, t} :
                                rr.tasks[u].bootstrap_port # b
                          /\ \A d \in Servers : b \in PortsOf(ww[d]) =>
                                ww[d].endpoint = b /\ ww[d].task = t
    BY DEF BootstrapsOK
  <2>1. \A u \in InUseTasks(kk) \ {KernelTask} :
           LET b == kk.tasks[u].bootstrap_port
           IN  /\ b \in Live(kk.ports) \ KernelPorts
               /\ \A x \in InUseTasks(kk) \ {KernelTask, u} : kk.tasks[x].bootstrap_port # b
               /\ \A d \in Servers : b \in PortsOf(vv[d]) =>
                                     vv[d].endpoint = b /\ vv[d].task = u
    BY DEF WorldOK, BootstrapsOK
  <2>2. CASE t \in T
    <3>1. rr.tasks[t].bootstrap_port = n.endpoint /\ n.task = t /\ T = {t}
      BY <1>10, <2>2
    <3>2. n.endpoint \in C
      BY <1>6
    <3>3. \A u \in InUseTasks(rr) \ {KernelTask, t} : rr.tasks[u].bootstrap_port # n.endpoint
      BY <1>8, <1>10, <2>1, <3>1, <3>2
    <3>4. \A d \in Servers : n.endpoint \in PortsOf(ww[d]) =>
                                ww[d].endpoint = n.endpoint /\ ww[d].task = t
      BY <1>2, <1>7, <1>8, <3>1, <3>2
    <3> QED  BY <1>5, <1>8, <3>1, <3>2, <3>3, <3>4
  <2>3. CASE t \notin T
    <3> DEFINE b == kk.tasks[t].bootstrap_port
    <3>1. t \in InUseTasks(kk) \ {KernelTask} /\ rr.tasks[t].bootstrap_port = b
      BY <1>10, <2>3
    <3>2. b \in Live(kk.ports) \ KernelPorts /\ b \notin PortsOf(n) /\ b # n.endpoint
      BY <1>6, <1>8, <2>1, <3>1
    <3>3. \A u \in InUseTasks(rr) \ {KernelTask, t} : rr.tasks[u].bootstrap_port # b
      BY <1>10, <2>1, <3>1, <3>2
    <3>4. \A d \in Servers : b \in PortsOf(ww[d]) => ww[d].endpoint = b /\ ww[d].task = t
      BY <1>2, <2>1, <3>1, <3>2
    <3> QED  BY <1>8, <3>1, <3>2, <3>3, <3>4
  <2> QED  BY <2>2, <2>3
<1>12. OwnersOK(rr, ww)
  <2>1. \A d \in Servers : vv[d].task # NoTask =>
           /\ vv[d].task \in InUseTasks(kk) \ {KernelTask} /\ vv[d].state # "STOPPED"
           /\ \A e \in Servers \ {d} : vv[e].task # vv[d].task
    BY DEF WorldOK, OwnersOK
  <2>2. n.task # NoTask => T = {n.task} /\ n.state # "STOPPED"
    BY DEF Renewed
  <2>3. ASSUME NEW d \in Servers, ww[d].task # NoTask
        PROVE  /\ ww[d].task \in InUseTasks(rr) \ {KernelTask} /\ ww[d].state # "STOPPED"
               /\ \A e \in Servers \ {d} : ww[e].task # ww[d].task
    <3>1. CASE d = s
      <4>1. n.task \in T /\ n.task \notin InUseTasks(kk) /\ n.state # "STOPPED" /\ ww[d] = n
        BY <1>2, <1>10, <2>2, <2>3, <3>1
      <4>2. ASSUME NEW e \in Servers \ {d} PROVE ww[e].task # n.task
        BY <1>2, <2>1, <2>3, <3>1, <4>1
      <4> QED  BY <1>5, <1>10, <4>1, <4>2
    <3>2. CASE d # s
      <4>1. ww[d] = vv[d] /\ vv[d].task \in InUseTasks(kk) \ {KernelTask}
        BY <1>2, <2>1, <2>3, <3>2
      <4>2. ASSUME NEW e \in Servers \ {d} PROVE ww[e].task # vv[d].task
        BY <1>2, <1>10, <2>1, <2>2, <2>3, <4>1
      <4> QED  BY <1>10, <2>1, <2>3, <4>1, <4>2
    <3> QED  BY <3>1, <3>2
  <2> QED  BY <2>3 DEF OwnersOK
<1>13. RunsOK(rr, ww)
  <2> SUFFICES ASSUME NEW d \in Servers, ww[d].state \in Running, ww[d].main = "none"
               PROVE  /\ ww[d].task # NoTask /\ ww[d].endpoint # MACH_PORT_NULL
                      /\ rr.tasks[ww[d].task].bootstrap_port = ww[d].endpoint
    BY DEF RunsOK
  <2>1. CASE d = s
    <3>1. ww[d] = n /\ n.task # NoTask /\ n.task \in T
      BY <1>2, <2>1 DEF Renewed
    <3> QED  BY <1>6, <1>10, <3>1
  <2>2. CASE d # s
    <3>1. /\ vv[d].task # NoTask /\ vv[d].endpoint # MACH_PORT_NULL
          /\ kk.tasks[vv[d].task].bootstrap_port = vv[d].endpoint
          /\ ww[d] = vv[d]
      BY <1>2, <2>2 DEF WorldOK, RunsOK
    <3>2. vv[d].task \in InUseTasks(kk)
      BY <3>1 DEF WorldOK, OwnersOK
    <3> QED  BY <1>10, <3>1, <3>2
  <2> QED  BY <2>1, <2>2
<1>14. DeliveredOK(rr, ww)
  <2> SUFFICES ASSUME NEW d \in Servers, ww[d].endpoint # MACH_PORT_NULL,
                      NEW i \in DOMAIN rr.ports[ww[d].endpoint]
               PROVE  rr.ports[ww[d].endpoint][i].type # "REPLY"
                         => rr.ports[ww[d].endpoint][i].to = d
    BY DEF DeliveredOK
  <2>1. CASE d = s
    <3>1. rr.ports[ww[d].endpoint] = <<>>
      BY <1>2, <1>6, <2>1 DEF Gained
    <3> QED  BY <3>1
  <2>2. CASE d # s
    <3>1. ww[d] = vv[d] /\ vv[d].endpoint \in PortsOf(vv[d])
      BY <1>2, <2>2 DEF PortsOf
    <3>2. rr.ports[ww[d].endpoint] = kk.ports[vv[d].endpoint]
      BY <1>7, <3>1 DEF Gained
    <3> QED  BY <3>1, <3>2 DEF WorldOK, DeliveredOK
  <2> QED  BY <2>1, <2>2
<1> QED  BY <1>3, <1>4, <1>9, <1>11, <1>12, <1>13, <1>14 DEF WorldOK, ww
-----------------------------------------------------------------------------
(* Port spaces: what is opened and closed again leaves no trace *)

IsSpace(q) == q \in [DOMAIN q -> Seq(Messages)] /\ DOMAIN q \subseteq Names

LEMMA KernelSpace ==
    ASSUME NEW kk, KernelOK(kk)
    PROVE  /\ IsSpace(kk.ports) /\ Live(kk.ports) = DOMAIN kk.ports
           /\ kk = [ports |-> kk.ports, tasks |-> kk.tasks, count |-> kk.count]
  BY DEF KernelOK, IsKernel, IsSpace, Live

LEMMA OpenedSpace ==
    ASSUME NEW q, IsSpace(q), NEW p \in Names \ DOMAIN q
    PROVE  /\ IsSpace(Opened(q, p)) /\ DOMAIN Opened(q, p) = DOMAIN q \cup {p}
           /\ Opened(q, p)[p] = <<>>
           /\ \A r \in DOMAIN q : Opened(q, p)[r] = q[r]
           /\ Closed(Opened(q, p), p) = q
<1>1. <<>> \in Seq(Messages)
  OBVIOUS
<1>2. /\ DOMAIN Opened(q, p) = DOMAIN q \cup {p} /\ Opened(q, p)[p] = <<>>
      /\ \A r \in DOMAIN q : Opened(q, p)[r] = q[r]
      /\ Opened(q, p) \in [DOMAIN q \cup {p} -> Seq(Messages)]
  BY <1>1 DEF Opened, IsSpace
<1>3. Closed(Opened(q, p), p) = q
  BY <1>2 DEF Closed, IsSpace
<1> QED  BY <1>2, <1>3 DEF IsSpace

LEMMA ClosedSpace ==
    ASSUME NEW q, IsSpace(q), NEW p
    PROVE  /\ IsSpace(Closed(q, p)) /\ DOMAIN Closed(q, p) = DOMAIN q \ {p}
           /\ \A r \in DOMAIN q \ {p} : Closed(q, p)[r] = q[r]
           /\ p \notin DOMAIN q => Closed(q, p) = q
  BY DEF Closed, IsSpace

\* A new port space that keeps the kernel's ports.
PutSpace(kk, q) == [kk EXCEPT !.ports = q]

LEMMA PutPorts ==
    ASSUME NEW kk, KernelOK(kk), NEW q, IsSpace(q), KernelPorts \subseteq DOMAIN q
    PROVE  LET rr == PutSpace(kk, q)
           IN  /\ KernelOK(rr) /\ rr.ports = q /\ rr.tasks = kk.tasks
               /\ rr.count = kk.count /\ InUseTasks(rr) = InUseTasks(kk)
               /\ rr = [ports |-> q, tasks |-> kk.tasks, count |-> kk.count]
<1> DEFINE rr == [kk EXCEPT !.ports = q]
<1>1. IsKernel(kk) /\ DOMAIN q \subseteq Names
  BY DEF KernelOK, IsSpace
<1>2. IsKernel(rr) /\ rr.ports = q /\ rr.tasks = kk.tasks /\ InUseTasks(rr) = InUseTasks(kk)
  BY <1>1, PortsOK
<1>3. rr = [ports |-> q, tasks |-> kk.tasks, count |-> kk.count]
  BY <1>1 DEF IsKernel
<1>4. rr.count = kk.count
  BY <1>3
<1> HIDE DEF rr
<1>5. KernelOK(rr)
  BY <1>2 DEF KernelOK, IsSpace, Live
<1> QED  BY <1>2, <1>3, <1>4, <1>5 DEF rr, PutSpace
-----------------------------------------------------------------------------
(* What the loader does to a world *)

IsWorld(w) == w = [k |-> w.k, s |-> w.s] /\ KernelOK(w.k) /\ w.s \in Server

\* One field of a structure.
LEMMA StateSet ==
    ASSUME NEW w, IsWorld(w), NEW state \in States
    PROVE  LET x == SetState(w, state)
           IN  /\ IsWorld(x) /\ x.k = w.k /\ x.s = [w.s EXCEPT !.state = state]
               /\ x.s.state = state
<1> DEFINE x == SetState(w, state)
<1>1. x = [k |-> w.k, s |-> [w.s EXCEPT !.state = state]]
  BY DEF SetState, IsWorld
<1>2. [w.s EXCEPT !.state = state] \in Server /\ [w.s EXCEPT !.state = state].state = state
  BY DEF IsWorld, Server
<1> HIDE DEF x
<1>3. x.k = w.k /\ x.s = [w.s EXCEPT !.state = state] /\ x = [k |-> x.k, s |-> x.s]
  BY <1>1
<1> QED  BY <1>2, <1>3 DEF IsWorld, x

\* The updates of a world by way of its kernel value and its server.
Put(w, q, e, m) == [w EXCEPT !.k.ports = q, !.s.endpoint = e, !.s.mgmt_port = m]
PutIn(w, q, e, m) == [k |-> [w.k EXCEPT !.ports = q],
                      s |-> [w.s EXCEPT !.endpoint = e, !.mgmt_port = m]]

LEMMA PutWorld ==
    ASSUME NEW w, w = [k |-> w.k, s |-> w.s], NEW q, NEW e, NEW m
    PROVE  Put(w, q, e, m) = PutIn(w, q, e, m)
<1> DEFINE a == w.k
           v == w.s
           w1 == [w EXCEPT !.k.ports = q]
           w2 == [w1 EXCEPT !.s.endpoint = e]
           w3 == [w2 EXCEPT !.s.mgmt_port = m]
           v1 == [v EXCEPT !.endpoint = e]
           v2 == [v1 EXCEPT !.mgmt_port = m]
<1>1. w1 = [k |-> [a EXCEPT !.ports = q], s |-> v]
  <2> HIDE DEF a, v
  <2>1. w = [k |-> a, s |-> v]
    BY DEF a, v
  <2> QED  BY <2>1
<1>2. w3 = Put(w, q, e, m)
  BY DEF Put
<1>3. v2 = [v EXCEPT !.endpoint = e, !.mgmt_port = m]
  OBVIOUS
<1> HIDE DEF w1
<1>4. w2 = [k |-> [a EXCEPT !.ports = q], s |-> v1]
  BY <1>1
<1> HIDE DEF w2, v1
<1>5. w3 = [k |-> [a EXCEPT !.ports = q], s |-> v2]
  BY <1>4
<1> QED  BY <1>2, <1>3, <1>5 DEF PutIn

\* mx_ipc_server_endpoint_create: both ports or nothing.
LEMMA EndpointCreateOK ==
    ASSUME NEW w, IsWorld(w)
    PROVE  LET e == EndpointCreate(w)
           IN  \/ e.ok = FALSE /\ e.w = w
               \/ /\ e.ok = TRUE
                  /\ \E ep \in Names \ DOMAIN w.k.ports :
                        \E mg \in Names \ (DOMAIN w.k.ports \cup {ep}) :
                           e.w = [k |-> [w.k EXCEPT !.ports =
                                            Opened(Opened(w.k.ports, ep), mg)],
                                  s |-> [w.s EXCEPT !.endpoint = ep, !.mgmt_port = mg]]
<1> DEFINE q == w.k.ports
           ep == FreshName(q)
           q1 == Opened(q, ep)
           mg == FreshName(q1)
<1>1. IsSpace(q) /\ w.k = [ports |-> q, tasks |-> w.k.tasks, count |-> w.k.count]
      /\ w = [k |-> w.k, s |-> w.s]
  BY KernelSpace DEF IsWorld
<1>2. CASE Full(q)
  BY <1>2 DEF EndpointCreate
<1>3. CASE ~Full(q)
  <2>1. ep \in Names \ DOMAIN q
    BY <1>1, <1>3, FreshNameOK DEF IsSpace
  <2>2. IsSpace(q1) /\ DOMAIN q1 = DOMAIN q \cup {ep} /\ Closed(q1, ep) = q
    BY <1>1, <2>1, OpenedSpace
  <2>3. CASE Full(q1)
    <3>1. EndpointCreate(w) = [ok |-> FALSE, w |-> [w EXCEPT !.k.ports = q]]
      BY <1>3, <2>2, <2>3 DEF EndpointCreate
    <3>2. [w EXCEPT !.k.ports = q] = w
      <4>1. [w EXCEPT !.k.ports = q] = [w EXCEPT !.k = [w.k EXCEPT !.ports = q]]
        BY <1>1
      <4>2. [w.k EXCEPT !.ports = q] = w.k
        BY <1>1
      <4> QED  BY <1>1, <4>1, <4>2
    <3> QED  BY <3>1, <3>2
  <2>4. CASE ~Full(q1)
    <3>1. mg \in Names \ DOMAIN q1
      BY <2>2, <2>4, FreshNameOK DEF IsSpace
    <3>2. EndpointCreate(w) = [ok |-> TRUE,
              w |-> Put(w, Opened(q1, mg), ep, mg)]
      BY <1>3, <2>4 DEF EndpointCreate, Put
    <3> HIDE DEF mg, ep, q1
    <3>3. Put(w, Opened(q1, mg), ep, mg)
            = [k |-> [w.k EXCEPT !.ports = Opened(q1, mg)],
               s |-> [w.s EXCEPT !.endpoint = ep, !.mgmt_port = mg]]
      <4>1. w = [k |-> w.k, s |-> w.s]
        BY <1>1
      <4>2. Put(w, Opened(q1, mg), ep, mg) = PutIn(w, Opened(q1, mg), ep, mg)
        BY <4>1, PutWorld
      <4> QED  BY <4>2 DEF PutIn
    <3>4. q1 = Opened(w.k.ports, ep)
      BY DEF q1
    <3> DEFINE W(e, m) == [k |-> [w.k EXCEPT !.ports = Opened(Opened(w.k.ports, e), m)],
                           s |-> [w.s EXCEPT !.endpoint = e, !.mgmt_port = m]]
               x == EndpointCreate(w)
    <3>5. x.ok = TRUE /\ x.w = W(ep, mg)
      BY <3>2, <3>3, <3>4
    <3>6. ep \in Names \ DOMAIN w.k.ports /\ mg \in Names \ (DOMAIN w.k.ports \cup {ep})
      BY <2>1, <2>2, <3>1
    <3> HIDE DEF W, x
    <3>7. \E e \in Names \ DOMAIN w.k.ports :
             \E m \in Names \ (DOMAIN w.k.ports \cup {e}) : x.w = W(e, m)
      BY <3>5, <3>6
    <3> QED  BY <3>5, <3>7 DEF x, W
  <2> QED  BY <2>3, <2>4
<1> QED  BY <1>2, <1>3

\* mx_ipc_server_endpoint_destroy
LEMMA EndpointDestroyOK ==
    ASSUME NEW w, IsWorld(w), KernelPorts \cap {w.s.endpoint, w.s.mgmt_port} = {}
    PROVE  LET x == EndpointDestroy(w)
           IN  /\ IsWorld(x)
               /\ x.k = [w.k EXCEPT !.ports =
                            Closed(Closed(w.k.ports, w.s.endpoint), w.s.mgmt_port)]
               /\ x.s = [w.s EXCEPT !.endpoint = MACH_PORT_NULL,
                                    !.mgmt_port = MACH_PORT_NULL]
               /\ DOMAIN x.k.ports = DOMAIN w.k.ports \ {w.s.endpoint, w.s.mgmt_port}
               /\ \A p \in DOMAIN x.k.ports : x.k.ports[p] = w.k.ports[p]
<1> DEFINE x == EndpointDestroy(w)
           q == w.k.ports
           q1 == Closed(q, w.s.endpoint)
           q2 == Closed(q1, w.s.mgmt_port)
           n == [w.s EXCEPT !.endpoint = MACH_PORT_NULL, !.mgmt_port = MACH_PORT_NULL]
<1>1. /\ w = [k |-> w.k, s |-> w.s] /\ KernelOK(w.k) /\ w.s \in Server /\ IsSpace(q)
      /\ w.k = [ports |-> q, tasks |-> w.k.tasks, count |-> w.k.count]
      /\ KernelPorts \subseteq DOMAIN q
  BY KernelSpace DEF IsWorld, KernelOK
<1>2. x = [k |-> [w.k EXCEPT !.ports = q2], s |-> n]
  <2>1. x = Put(w, q2, MACH_PORT_NULL, MACH_PORT_NULL)
    BY DEF EndpointDestroy, Put
  <2>2. w = [k |-> w.k, s |-> w.s]
    BY <1>1
  <2> HIDE DEF x, q2
  <2>3. x = PutIn(w, q2, MACH_PORT_NULL, MACH_PORT_NULL)
    BY <2>1, <2>2, PutWorld
  <2> QED  BY <2>3 DEF PutIn
<1> HIDE DEF q
<1>3. /\ IsSpace(q1) /\ DOMAIN q1 = DOMAIN q \ {w.s.endpoint}
      /\ \A p \in DOMAIN q1 : q1[p] = q[p]
  <2>1. IsSpace(q)
    BY <1>1
  <2> HIDE <1>1, <1>2
  <2> QED  BY <2>1, ClosedSpace
<1>4. /\ IsSpace(q2) /\ DOMAIN q2 = DOMAIN q1 \ {w.s.mgmt_port}
      /\ \A p \in DOMAIN q2 : q2[p] = q1[p]
  <2> HIDE DEF q1
  <2> QED  BY <1>3, ClosedSpace
<1>5. KernelPorts \subseteq DOMAIN q2
  BY <1>1, <1>3, <1>4
<1>6. n \in Server
  BY <1>1, Basics DEF Server
<1> HIDE DEF n, q2, q1
<1>7. KernelOK([w.k EXCEPT !.ports = q2]) /\ [w.k EXCEPT !.ports = q2].ports = q2
  <2>1. KernelOK(PutSpace(w.k, q2)) /\ PutSpace(w.k, q2).ports = q2
    BY <1>1, <1>4, <1>5, PutPorts
  <2> QED  BY <2>1 DEF PutSpace
<1> HIDE DEF x
<1>8. x.k = [w.k EXCEPT !.ports = q2] /\ x.s = n /\ x = [k |-> x.k, s |-> x.s]
  BY <1>2
<1>9. IsWorld(x) /\ x.k.ports = q2
  BY <1>6, <1>7, <1>8 DEF IsWorld
<1>10. /\ DOMAIN x.k.ports = DOMAIN q \ {w.s.endpoint, w.s.mgmt_port}
       /\ \A p \in DOMAIN x.k.ports : x.k.ports[p] = q[p]
  BY <1>3, <1>4, <1>9
<1> QED  BY <1>8, <1>9, <1>10 DEF x, q, n, q2, q1

\* Ports, tasks and counter are what they were; only slots that are not in
\* use may have been cleared.
Restored(kk, rr) ==
    /\ KernelOK(rr) /\ rr.ports = kk.ports /\ rr.count = kk.count
    /\ InUseTasks(rr) = InUseTasks(kk)
    /\ \A t \in InUseTasks(kk) : rr.tasks[t].bootstrap_port = kk.tasks[t].bootstrap_port

LEMMA RestoredLost ==
    ASSUME NEW kk, NEW rr, Restored(kk, rr) PROVE Lost(kk, rr, {}, {})
  BY DEF Restored, Lost

\* mxwl_task_create: nothing but a cleared slot, or a task with a new port.
LEMMA TaskMade ==
    ASSUME NEW kk, KernelOK(kk)
    PROVE  LET c == TaskCreate(kk, TRUE)
           IN  \/ c.kr # "KERN_SUCCESS" /\ Restored(kk, c.k)
               \/ /\ c.kr = "KERN_SUCCESS" /\ c.task \in TaskIds \ InUseTasks(kk)
                  /\ \E p \in Names \ DOMAIN kk.ports :
                        /\ Gained(kk, c.k, {p}, {c.task})
                        /\ c.k.ports = Opened(kk.ports, p) /\ c.k.count = kk.count + 1
                        /\ c.k.tasks[c.task].bootstrap_port = p
<1> DEFINE c == TaskCreate(kk, TRUE)
<1>1. IsKernel(kk) /\ IsSpace(kk.ports) /\ Live(kk.ports) = DOMAIN kk.ports
      /\ kk.tasks \in [TaskIds -> Task] /\ InUseTasks(kk) \subseteq TaskIds
  BY KernelSpace DEF KernelOK, IsKernel, InUseTasks
<1>2. /\ IsKernel(c.k)
      /\ \/ c.kr # "KERN_SUCCESS" /\ c.k = kk
         \/ /\ c.kr # "KERN_SUCCESS"
            /\ \E t \in TaskIds \ InUseTasks(kk) :
                  c.k = [kk EXCEPT !.tasks[t] = NewTask(MACH_PORT_NULL)]
            /\ InUseTasks(c.k) = InUseTasks(kk)
         \/ /\ c.kr = "KERN_SUCCESS"
            /\ c.task \in TaskIds \ InUseTasks(kk)
            /\ InUseTasks(c.k) = InUseTasks(kk) \cup {c.task}
            /\ \E p \in Names \ DOMAIN kk.ports :
                  c.k = [ports |-> Opened(kk.ports, p),
                         tasks |-> [kk.tasks EXCEPT ![c.task] = NewTask(p)],
                         count |-> kk.count + 1]
  BY <1>1, CreateOK
<1> HIDE DEF c
<1>3. CASE c.kr # "KERN_SUCCESS" /\ c.k = kk
  <2>1. Restored(kk, c.k)
    BY <1>3 DEF Restored
  <2> QED  BY <1>3, <2>1 DEF c
<1>4. CASE /\ c.kr # "KERN_SUCCESS"
           /\ \E t \in TaskIds \ InUseTasks(kk) :
                  c.k = [kk EXCEPT !.tasks[t] = NewTask(MACH_PORT_NULL)]
           /\ InUseTasks(c.k) = InUseTasks(kk)
  <2>1. PICK t \in TaskIds \ InUseTasks(kk) :
             c.k = [kk EXCEPT !.tasks[t] = NewTask(MACH_PORT_NULL)]
    BY <1>4
  <2>2. kk = [ports |-> kk.ports, tasks |-> kk.tasks, count |-> kk.count]
    BY <1>1 DEF IsKernel
  <2>3. /\ c.k.ports = kk.ports /\ c.k.count = kk.count
        /\ c.k.tasks = [kk.tasks EXCEPT ![t] = NewTask(MACH_PORT_NULL)]
    BY <2>1, <2>2
  <2>4. \A u \in InUseTasks(kk) : c.k.tasks[u] = kk.tasks[u]
    BY <1>1, <2>1, <2>3
  <2>5. KernelOK(c.k)
    BY <1>2, <1>4, <2>3, <2>4 DEF KernelOK
  <2> QED  BY <1>4, <2>3, <2>4, <2>5 DEF Restored, c
<1>5. CASE /\ c.kr = "KERN_SUCCESS"
           /\ c.task \in TaskIds \ InUseTasks(kk)
           /\ InUseTasks(c.k) = InUseTasks(kk) \cup {c.task}
           /\ \E p \in Names \ DOMAIN kk.ports :
                  c.k = [ports |-> Opened(kk.ports, p),
                         tasks |-> [kk.tasks EXCEPT ![c.task] = NewTask(p)],
                         count |-> kk.count + 1]
  <2>1. PICK p \in Names \ DOMAIN kk.ports :
             c.k = [ports |-> Opened(kk.ports, p),
                    tasks |-> [kk.tasks EXCEPT ![c.task] = NewTask(p)],
                    count |-> kk.count + 1]
    BY <1>5
  <2>2. /\ c.k.ports = Opened(kk.ports, p) /\ c.k.count = kk.count + 1
        /\ c.k.tasks = [kk.tasks EXCEPT ![c.task] = NewTask(p)]
    BY <2>1
  <2>3. NewTask(p).rights = <<>> /\ NewTask(p).bootstrap_port = p
    BY NewTaskOK
  <2>4. /\ c.k.tasks[c.task].rights = <<>> /\ c.k.tasks[c.task].bootstrap_port = p
        /\ \A u \in InUseTasks(kk) : c.k.tasks[u] = kk.tasks[u]
    BY <1>1, <1>5, <2>2, <2>3
  <2>5. /\ IsSpace(c.k.ports) /\ DOMAIN c.k.ports = DOMAIN kk.ports \cup {p}
        /\ c.k.ports[p] = <<>> /\ \A r \in DOMAIN kk.ports : c.k.ports[r] = kk.ports[r]
    <3> DEFINE q == kk.ports
    <3>1. IsSpace(q) /\ p \in Names \ DOMAIN q /\ c.k.ports = Opened(q, p)
      BY <1>1, <2>2
    <3> HIDE DEF q
    <3>2. /\ IsSpace(Opened(q, p)) /\ DOMAIN Opened(q, p) = DOMAIN q \cup {p}
          /\ Opened(q, p)[p] = <<>> /\ \A r \in DOMAIN q : Opened(q, p)[r] = q[r]
      BY <3>1, OpenedSpace
    <3> QED  BY <3>1, <3>2 DEF q
  <2>6. KernelOK(c.k)
    BY <1>1, <1>2, <1>5, <2>4, <2>5 DEF KernelOK, IsSpace, Live
  <2>7. Gained(kk, c.k, {p}, {c.task})
    BY <1>1, <1>5, <2>4, <2>5, <2>6 DEF Gained, Live
  <2> QED  BY <1>5, <2>2, <2>4, <2>7 DEF c
<1> QED  BY <1>2, <1>3, <1>4, <1>5

\* mxwl_task_terminate, for a task without rights.
LEMMA TaskGone ==
    ASSUME NEW kk, KernelOK(kk), NEW t \in InUseTasks(kk) \ {KernelTask},
           kk.tasks[t].bootstrap_port \notin KernelPorts
    PROVE  LET r == TaskTerminate(kk, t)
           IN  /\ Lost(kk, r, {kk.tasks[t].bootstrap_port}, {t})
               /\ r.count = kk.count - 1
               /\ r.ports = Closed(kk.ports, kk.tasks[t].bootstrap_port)
<1> DEFINE r == TaskTerminate(kk, t)
           b == kk.tasks[t].bootstrap_port
<1>1. /\ IsKernel(kk) /\ IsSpace(kk.ports) /\ Live(kk.ports) = DOMAIN kk.ports
      /\ kk.tasks[t].rights = <<>> /\ RightObjects(kk.tasks[t]) = {}
      /\ KernelPorts \subseteq DOMAIN kk.ports
  BY KernelSpace DEF KernelOK, RightObjects
<1>2. /\ IsKernel(r) /\ InUseTasks(r) = InUseTasks(kk) \ {t}
      /\ \A u \in TaskIds : SameEntry(kk, r, u)
  BY <1>1, TerminateOK
<1>3. r.ports = Closed(kk.ports, b) /\ r.count = kk.count - 1
  BY <1>1 DEF TaskTerminate, Closed
<1>4. /\ IsSpace(Closed(kk.ports, b)) /\ DOMAIN Closed(kk.ports, b) = DOMAIN kk.ports \ {b}
      /\ \A p \in DOMAIN kk.ports \ {b} : Closed(kk.ports, b)[p] = kk.ports[p]
  BY <1>1, ClosedSpace, ZenonT(60)
<1> HIDE DEF r
<1>5. \A u \in InUseTasks(r) : /\ r.tasks[u].bootstrap_port = kk.tasks[u].bootstrap_port
                               /\ r.tasks[u].rights = kk.tasks[u].rights
  BY <1>2 DEF SameEntry, InUseTasks
<1>6. KernelOK(r)
  BY <1>1, <1>2, <1>3, <1>4, <1>5 DEF KernelOK, IsSpace, Live
<1>7. Lost(kk, r, {b}, {t})
  BY <1>1, <1>2, <1>3, <1>4, <1>5, <1>6 DEF Lost, Live
<1> QED  BY <1>3, <1>7 DEF r

\* A task gets a thread, or another bootstrap port.
LEMMA ThreadMade ==
    ASSUME NEW kk, KernelOK(kk), NEW t \in InUseTasks(kk), CanCreateThread(kk, t)
    PROVE  LET r == ThreadCreate(kk, t)
           IN  /\ KernelOK(r) /\ r.ports = kk.ports /\ InUseTasks(r) = InUseTasks(kk)
               /\ \A u \in InUseTasks(kk) : SameEntry(kk, r, u)
<1> DEFINE r == ThreadCreate(kk, t)
<1>1. IsKernel(kk) /\ t \in TaskIds
  BY DEF KernelOK, InUseTasks
<1>2. /\ IsKernel(r) /\ r.ports = kk.ports /\ InUseTasks(r) = InUseTasks(kk)
      /\ \A u \in TaskIds : SameEntry(kk, r, u)
  BY <1>1, ThreadOK
<1> HIDE DEF r
<1>3. \A u \in InUseTasks(kk) : u \in TaskIds
  BY DEF InUseTasks
<1>4. KernelOK(r)
  BY <1>2, <1>3 DEF KernelOK, SameEntry
<1> QED  BY <1>2, <1>3, <1>4 DEF r

LEMMA BootstrapSet ==
    ASSUME NEW kk, KernelOK(kk), NEW t \in InUseTasks(kk), NEW p \in Names
    PROVE  LET r == [kk EXCEPT !.tasks[t].bootstrap_port = p]
           IN  /\ KernelOK(r) /\ r.ports = kk.ports /\ InUseTasks(r) = InUseTasks(kk)
               /\ r.tasks[t].bootstrap_port = p
               /\ \A u \in InUseTasks(kk) \ {t} : r.tasks[u] = kk.tasks[u]
<1> DEFINE e == [kk.tasks[t] EXCEPT !.bootstrap_port = p]
           r == [kk EXCEPT !.tasks[t] = e]
<1>1. /\ IsKernel(kk) /\ t \in TaskIds /\ kk.tasks \in [TaskIds -> Task]
      /\ kk.tasks[t] \in Task /\ InUseTasks(kk) \subseteq TaskIds
  BY DEF KernelOK, InUseTasks, IsKernel
<1>2. /\ e \in Task /\ e.in_use = kk.tasks[t].in_use /\ e.rights = kk.tasks[t].rights
      /\ e.bootstrap_port = p
  BY <1>1 DEF Task
<1>3. r = [kk EXCEPT !.tasks[t].bootstrap_port = p]
  BY <1>1 DEF IsKernel
<1>4. /\ IsKernel(r) /\ r.ports = kk.ports /\ InUseTasks(r) = InUseTasks(kk)
      /\ r.tasks = [kk.tasks EXCEPT ![t] = e]
  <2> HIDE DEF e
  <2> QED  BY <1>1, <1>2, EntryOK
<1> HIDE DEF r, e
<1>5. r.tasks[t] = e /\ \A u \in InUseTasks(kk) \ {t} : r.tasks[u] = kk.tasks[u]
  BY <1>1, <1>4
<1>6. KernelOK(r)
  BY <1>2, <1>4, <1>5 DEF KernelOK
<1> QED  BY <1>2, <1>3, <1>4, <1>5, <1>6

\* What loading and unloading leave alone in a structure.
SameServer(v, n) == /\ n.exists = v.exists /\ n.name = v.name
                    /\ n.path = v.path /\ n.main = v.main

\* A world with two new ports for its server.
WithEndpoints(w, x) ==
    /\ IsWorld(x) /\ SameServer(w.s, x.s)
    /\ x.s.state = w.s.state /\ x.s.task = w.s.task
    /\ x.s.endpoint # x.s.mgmt_port /\ x.s.endpoint \in Names /\ x.s.mgmt_port \in Names
    /\ Gained(w.k, x.k, {x.s.endpoint, x.s.mgmt_port}, {})
    /\ x.k.count = w.k.count
    /\ Closed(Closed(x.k.ports, x.s.endpoint), x.s.mgmt_port) = w.k.ports

LEMMA EndpointsMade ==
    ASSUME NEW w, IsWorld(w)
    PROVE  LET e == EndpointCreate(w)
           IN  \/ e.ok = FALSE /\ e.w = w
               \/ e.ok = TRUE /\ WithEndpoints(w, e.w)
<1> DEFINE e == EndpointCreate(w)
           q == w.k.ports
           W(ep, mg) == [k |-> [w.k EXCEPT !.ports = Opened(Opened(w.k.ports, ep), mg)],
                         s |-> [w.s EXCEPT !.endpoint = ep, !.mgmt_port = mg]]
<1>1. \/ e.ok = FALSE /\ e.w = w
      \/ /\ e.ok = TRUE
         /\ \E ep \in Names \ DOMAIN w.k.ports :
               \E mg \in Names \ (DOMAIN w.k.ports \cup {ep}) : e.w = W(ep, mg)
  BY EndpointCreateOK
<1>2. ASSUME NEW ep \in Names \ DOMAIN q, NEW mg \in Names \ (DOMAIN q \cup {ep})
      PROVE  WithEndpoints(w, W(ep, mg))
  <2> DEFINE q1 == Opened(q, ep)
             q2 == Opened(q1, mg)
             kk == [w.k EXCEPT !.ports = q2]
             n == [w.s EXCEPT !.endpoint = ep, !.mgmt_port = mg]
             x == W(ep, mg)
  <2>0. KernelOK(w.k) /\ w.s \in Server
    BY DEF IsWorld
  <2>1. IsSpace(q) /\ KernelPorts \subseteq DOMAIN q /\ Live(q) = DOMAIN q
    BY <2>0, KernelSpace DEF KernelOK
  <2>2. /\ IsSpace(q1) /\ DOMAIN q1 = DOMAIN q \cup {ep} /\ q1[ep] = <<>>
        /\ \A r \in DOMAIN q : q1[r] = q[r]
    <3> HIDE DEF q
    <3> QED  BY <2>1, OpenedSpace
  <2> HIDE DEF q1
  <2>3. /\ IsSpace(q2) /\ DOMAIN q2 = DOMAIN q1 \cup {mg} /\ q2[mg] = <<>>
        /\ \A r \in DOMAIN q1 : q2[r] = q1[r]
    <3>1. mg \in Names \ DOMAIN q1
      BY <2>2
    <3> QED  BY <2>2, <3>1, OpenedSpace
  <2> HIDE DEF q2
  <2>4. Closed(Closed(q2, ep), mg) = q
    <3>1. DOMAIN (Closed(Closed(q2, ep), mg)) = DOMAIN q
      BY <2>1, <2>2, <2>3 DEF Closed
    <3>2. \A r \in DOMAIN q : Closed(Closed(q2, ep), mg)[r] = q[r]
      BY <2>1, <2>2, <2>3 DEF Closed
    <3>3. Closed(Closed(q2, ep), mg) = [r \in DOMAIN Closed(Closed(q2, ep), mg) |->
                                          Closed(Closed(q2, ep), mg)[r]]
      BY DEF Closed
    <3>4. q = [r \in DOMAIN q |-> q[r]]
      BY <2>1 DEF IsSpace
    <3> HIDE DEF q
    <3> DEFINE c == Closed(Closed(q2, ep), mg)
    <3> HIDE DEF c
    <3>5. DOMAIN c = DOMAIN q /\ (\A r \in DOMAIN q : c[r] = q[r])
          /\ c = [r \in DOMAIN c |-> c[r]]
      BY <3>1, <3>2, <3>3 DEF c
    <3>6. c = q
      BY <3>4, <3>5
    <3> QED  BY <3>6 DEF c
  <2>5. /\ KernelOK(kk) /\ kk.ports = q2 /\ kk.tasks = w.k.tasks
        /\ kk.count = w.k.count /\ InUseTasks(kk) = InUseTasks(w.k)
    <3>1. kk = PutSpace(w.k, q2) /\ KernelPorts \subseteq DOMAIN q2
      BY <2>1, <2>2, <2>3 DEF PutSpace
    <3> HIDE DEF kk
    <3> QED  BY <2>0, <2>3, <3>1, PutPorts
  <2>6. /\ n \in Server /\ SameServer(w.s, n) /\ n.state = w.s.state /\ n.task = w.s.task
        /\ n.endpoint = ep /\ n.mgmt_port = mg
    BY <2>0, Basics DEF Server, SameServer
  <2>7. x = [k |-> kk, s |-> n]
    BY DEF q2, q1
  <2> HIDE DEF kk, n, x
  <2>8. x.k = kk /\ x.s = n /\ x = [k |-> x.k, s |-> x.s]
    BY <2>7
  <2>9. IsWorld(x)
    BY <2>5, <2>6, <2>8 DEF IsWorld
  <2>10. Live(kk.ports) = DOMAIN q2
    BY <2>5 DEF Live
  <2>11. \A r \in DOMAIN q : q2[r] = q[r]
    BY <2>2, <2>3
  <2>12. q2[ep] = <<>>
    BY <2>2, <2>3
  <2>13. Gained(w.k, kk, {ep, mg}, {})
    BY <2>1, <2>2, <2>3, <2>5, <2>10, <2>11, <2>12 DEF Gained
  <2>14. WithEndpoints(w, x)
    BY <2>4, <2>5, <2>6, <2>8, <2>9, <2>13 DEF WithEndpoints
  <2> QED  BY <2>14 DEF x
<1> HIDE DEF W, e
<1>3. \/ e.ok = FALSE /\ e.w = w
      \/ e.ok = TRUE /\ WithEndpoints(w, e.w)
  BY <1>1, <1>2
<1> QED  BY <1>3 DEF e

\* The ports made for a failed load are destroyed again.
LEMMA DestroyRestores ==
    ASSUME NEW w, IsWorld(w), NEW x, WithEndpoints(w, x),
           NEW y, IsWorld(y), Restored(x.k, y.k),
           y.s.endpoint = x.s.endpoint, y.s.mgmt_port = x.s.mgmt_port
    PROVE  LET z == EndpointDestroy(y)
           IN  /\ IsWorld(z) /\ Restored(w.k, z.k)
               /\ z.s = [y.s EXCEPT !.endpoint = MACH_PORT_NULL,
                                    !.mgmt_port = MACH_PORT_NULL]
<1> DEFINE z == EndpointDestroy(y)
<1>1. KernelPorts \cap {y.s.endpoint, y.s.mgmt_port} = {}
  BY DEF WithEndpoints, Gained, IsWorld, KernelOK
<1>2. /\ IsWorld(z)
      /\ z.k = [y.k EXCEPT !.ports =
                   Closed(Closed(y.k.ports, y.s.endpoint), y.s.mgmt_port)]
      /\ z.s = [y.s EXCEPT !.endpoint = MACH_PORT_NULL, !.mgmt_port = MACH_PORT_NULL]
  BY <1>1, EndpointDestroyOK
<1>3. Closed(Closed(y.k.ports, y.s.endpoint), y.s.mgmt_port) = w.k.ports
  BY DEF WithEndpoints, Restored
<1>4. z.k = [y.k EXCEPT !.ports = w.k.ports]
  BY <1>2, <1>3
<1>5. /\ z.k.ports = w.k.ports /\ z.k.tasks = y.k.tasks /\ z.k.count = y.k.count
      /\ InUseTasks(z.k) = InUseTasks(y.k)
  <2>1. KernelOK(y.k) /\ IsSpace(w.k.ports) /\ KernelPorts \subseteq DOMAIN w.k.ports
    BY KernelSpace DEF IsWorld, KernelOK
  <2>2. z.k = PutSpace(y.k, w.k.ports)
    BY <1>4 DEF PutSpace
  <2> HIDE DEF z
  <2> QED  BY <2>1, <2>2, PutPorts
<1> HIDE DEF z
<1>6. KernelOK(z.k)
  BY <1>2 DEF IsWorld
<1>7. /\ x.k.count = w.k.count /\ InUseTasks(x.k) = InUseTasks(w.k)
      /\ \A t \in InUseTasks(w.k) :
            x.k.tasks[t].bootstrap_port = w.k.tasks[t].bootstrap_port
  BY DEF WithEndpoints, Gained
<1>8. Restored(w.k, z.k)
  BY <1>5, <1>6, <1>7 DEF Restored
<1> QED  BY <1>2, <1>8 DEF z

\* The other updates of a world: a kernel value with a task or a thread.
PutTask(w, a, t) == [w EXCEPT !.k = a, !.s.task = t]
PutThread(w, a, b) == [w EXCEPT !.k = a, !.s.thread = b]

PutOK(w, a, x, t) ==
    /\ IsWorld(x) /\ x.k = a /\ SameServer(w.s, x.s) /\ x.s.task = t
    /\ x.s.endpoint = w.s.endpoint /\ x.s.mgmt_port = w.s.mgmt_port
    /\ x.s.state = w.s.state

LEMMA TaskPut ==
    ASSUME NEW w, IsWorld(w), NEW a, KernelOK(a), NEW t \in TaskIds \cup {NoTask}
    PROVE  PutOK(w, a, PutTask(w, a, t), t)
<1> DEFINE v == w.s
           n == [v EXCEPT !.task = t]
           y == [w EXCEPT !.k = a]
           z == [y EXCEPT !.s.task = t]
<1>1. w = [k |-> w.k, s |-> w.s] /\ w.s \in Server
  BY DEF IsWorld
<1>2. /\ n \in Server /\ SameServer(w.s, n) /\ n.task = t /\ n.endpoint = w.s.endpoint
      /\ n.mgmt_port = w.s.mgmt_port /\ n.state = w.s.state
  BY <1>1 DEF Server, SameServer
<1>3. y = [k |-> a, s |-> v]
  BY <1>1
<1>4. PutTask(w, a, t) = z
  BY DEF PutTask
<1> HIDE DEF y, v
<1>5. z = [k |-> a, s |-> n]
  BY <1>3
<1> HIDE DEF n
<1> QED  BY <1>2, <1>4, <1>5 DEF IsWorld, PutOK

LEMMA ThreadPut ==
    ASSUME NEW w, IsWorld(w), NEW a, KernelOK(a), NEW b \in BOOLEAN
    PROVE  PutOK(w, a, PutThread(w, a, b), w.s.task)
<1> DEFINE v == w.s
           n == [v EXCEPT !.thread = b]
           y == [w EXCEPT !.k = a]
           z == [y EXCEPT !.s.thread = b]
<1>1. w = [k |-> w.k, s |-> w.s] /\ w.s \in Server
  BY DEF IsWorld
<1>2. /\ n \in Server /\ SameServer(w.s, n) /\ n.task = w.s.task /\ n.endpoint = w.s.endpoint
      /\ n.mgmt_port = w.s.mgmt_port /\ n.state = w.s.state
  BY <1>1 DEF Server, SameServer
<1>3. y = [k |-> a, s |-> v]
  BY <1>1
<1>4. PutThread(w, a, b) = z
  BY DEF PutThread
<1> HIDE DEF y, v
<1>5. z = [k |-> a, s |-> n]
  BY <1>3
<1> HIDE DEF n
<1> QED  BY <1>2, <1>4, <1>5 DEF IsWorld, PutOK

\* The state of a server and nothing else.
LEMMA StatePut ==
    ASSUME NEW w, IsWorld(w), NEW state \in States
    PROVE  LET x == SetState(w, state)
           IN  /\ IsWorld(x) /\ x.k = w.k /\ SameServer(w.s, x.s) /\ x.s.state = state
               /\ x.s.task = w.s.task /\ x.s.endpoint = w.s.endpoint
               /\ x.s.mgmt_port = w.s.mgmt_port
<1> DEFINE x == SetState(w, state)
           n == [w.s EXCEPT !.state = state]
<1>1. IsWorld(x) /\ x.k = w.k /\ x.s = n
  BY StateSet
<1>2. /\ SameServer(w.s, n) /\ n.state = state /\ n.task = w.s.task
      /\ n.endpoint = w.s.endpoint /\ n.mgmt_port = w.s.mgmt_port
  BY DEF IsWorld, Server, SameServer
<1> QED  BY <1>1, <1>2

\* The endpoints of a server are destroyed.
LEMMA EndpointsGone ==
    ASSUME NEW w, IsWorld(w), KernelPorts \cap {w.s.endpoint, w.s.mgmt_port} = {}
    PROVE  LET x == EndpointDestroy(w)
           IN  /\ IsWorld(x) /\ SameServer(w.s, x.s) /\ x.s.state = w.s.state
               /\ x.s.task = w.s.task /\ x.s.endpoint = MACH_PORT_NULL
               /\ x.s.mgmt_port = MACH_PORT_NULL
               /\ Lost(w.k, x.k, {w.s.endpoint, w.s.mgmt_port}, {})
               /\ x.k.count = w.k.count
               /\ x.k.ports = Closed(Closed(w.k.ports, w.s.endpoint), w.s.mgmt_port)
<1> DEFINE x == EndpointDestroy(w)
           n == [w.s EXCEPT !.endpoint = MACH_PORT_NULL, !.mgmt_port = MACH_PORT_NULL]
           q == Closed(Closed(w.k.ports, w.s.endpoint), w.s.mgmt_port)
<1>1. /\ IsWorld(x) /\ x.k = [w.k EXCEPT !.ports = q] /\ x.s = n
      /\ DOMAIN x.k.ports = DOMAIN w.k.ports \ {w.s.endpoint, w.s.mgmt_port}
      /\ \A p \in DOMAIN x.k.ports : x.k.ports[p] = w.k.ports[p]
  BY EndpointDestroyOK
<1>2. /\ SameServer(w.s, n) /\ n.state = w.s.state /\ n.task = w.s.task
      /\ n.endpoint = MACH_PORT_NULL /\ n.mgmt_port = MACH_PORT_NULL
  BY DEF IsWorld, Server, SameServer
<1>3. w.k = [ports |-> w.k.ports, tasks |-> w.k.tasks, count |-> w.k.count]
  BY KernelSpace DEF IsWorld
<1> HIDE DEF n, q
<1>4. x.k.tasks = w.k.tasks /\ x.k.count = w.k.count /\ x.k.ports = q
  BY <1>1, <1>3
<1> HIDE DEF x
<1>5. InUseTasks(x.k) = InUseTasks(w.k)
  BY <1>4 DEF InUseTasks
<1>6. Lost(w.k, x.k, {w.s.endpoint, w.s.mgmt_port}, {})
  BY <1>1, <1>4, <1>5 DEF Lost, Live, IsWorld
<1> QED  BY <1>1, <1>2, <1>4, <1>6 DEF x, q

\* Gains and losses one after the other.
LEMMA GainedTwice ==
    ASSUME NEW a, NEW b, NEW c, NEW C, NEW D, NEW T, NEW U,
           Gained(a, b, C, T), Gained(b, c, D, U)
    PROVE  Gained(a, c, C \cup D, T \cup U)
  BY DEF Gained

LEMMA LostTwice ==
    ASSUME NEW a, NEW b, NEW c, NEW C, NEW D, NEW T, NEW U,
           Lost(a, b, C, T), Lost(b, c, D, U)
    PROVE  Lost(a, c, C \cup D, T \cup U)
  BY DEF Lost

LEMMA GainedLost ==
    ASSUME NEW a, NEW b, NEW c, NEW p, NEW t, IsSpace(a.ports),
           Gained(a, b, {p}, {t}), Lost(b, c, {p}, {t}),
           b.ports = Opened(a.ports, p), c.ports = Closed(b.ports, p),
           b.count = a.count + 1, c.count = b.count - 1, a.count \in Nat,
           p \in Names \ DOMAIN a.ports
    PROVE  Restored(a, c)
<1>1. c.ports = a.ports
  BY OpenedSpace
<1>2. c.count = a.count
  OBVIOUS
<1> QED  BY <1>1, <1>2 DEF Gained, Lost, Restored

\* What mx_loader_load makes: both ports, and a task with a port of its own.
Loaded(w, x) ==
    /\ x.s.task \in TaskIds /\ x.s.endpoint # x.s.mgmt_port
    /\ x.s.endpoint \in Names /\ x.s.mgmt_port \in Names
    /\ \E b \in Names :
          Gained(w.k, x.k, {x.s.endpoint, x.s.mgmt_port} \cup {b}, {x.s.task})

\* What it leaves when it fails.
LoadFailed(w, x) ==
    /\ Restored(w.k, x.k) /\ x.s.state = "FAILED"
    /\ \/ /\ x.s.endpoint = w.s.endpoint /\ x.s.mgmt_port = w.s.mgmt_port
          /\ x.s.task = w.s.task
       \/ /\ x.s.endpoint = MACH_PORT_NULL /\ x.s.mgmt_port = MACH_PORT_NULL
          /\ x.s.task \in {w.s.task, NoTask}

LEMMA LoadOK ==
    ASSUME NEW w, IsWorld(w), NEW tok \in BOOLEAN
    PROVE  LET l == Load(w, tok)
           IN  /\ IsWorld(l.w) /\ SameServer(w.s, l.w.s)
               /\ \/ l.ok = FALSE /\ LoadFailed(w, l.w)
                  \/ l.ok = TRUE /\ Loaded(w, l.w)
<1> DEFINE w0 == SetState(w, "LOADING")
           e == EndpointCreate(w0)
           c == TaskCreate(e.w.k, TRUE)
           t == PutTask(e.w, c.k, c.task)
           thread == tok /\ CanCreateThread(c.k, c.task)
           l == Load(w, tok)
<1>1. /\ IsWorld(w0) /\ w0.k = w.k /\ SameServer(w.s, w0.s) /\ w0.s.task = w.s.task
      /\ w0.s.endpoint = w.s.endpoint /\ w0.s.mgmt_port = w.s.mgmt_port
  BY StatePut DEF States
<1>2. \/ e.ok = FALSE /\ e.w = w0
      \/ e.ok = TRUE /\ WithEndpoints(w0, e.w)
  <2> HIDE DEF w0
  <2> QED  BY <1>1, EndpointsMade
<1>d. /\ ~e.ok => l = [ok |-> FALSE, w |-> SetState(e.w, "FAILED")]
      /\ e.ok /\ c.kr # "KERN_SUCCESS" =>
            l = [ok |-> FALSE,
                 w |-> SetState(EndpointDestroy([e.w EXCEPT !.k = c.k]), "FAILED")]
      /\ e.ok /\ c.kr = "KERN_SUCCESS" /\ ~thread =>
            l = [ok |-> FALSE,
                 w |-> SetState(EndpointDestroy(
                         [t EXCEPT !.k = TaskTerminate(@, c.task), !.s.task = NoTask]),
                         "FAILED")]
      /\ e.ok /\ c.kr = "KERN_SUCCESS" /\ thread =>
            l = [ok |-> TRUE, w |-> [t EXCEPT !.k = ThreadCreate(@, c.task),
                                              !.s.thread = TRUE]]
  BY DEF Load, PutTask
<1> HIDE DEF w0, e, l
<1>3. CASE e.ok = FALSE
  <2>1. e.w = w0 /\ l.ok = FALSE /\ l.w = SetState(w0, "FAILED")
    BY <1>2, <1>3, <1>d
  <2>2. /\ IsWorld(l.w) /\ l.w.k = w0.k /\ SameServer(w0.s, l.w.s) /\ l.w.s.state = "FAILED"
        /\ l.w.s.task = w0.s.task /\ l.w.s.endpoint = w0.s.endpoint
        /\ l.w.s.mgmt_port = w0.s.mgmt_port
    BY <1>1, <2>1, StatePut DEF States
  <2>3. Restored(w.k, l.w.k)
    BY <1>1, <2>2 DEF Restored, IsWorld
  <2> QED  BY <1>1, <2>1, <2>2, <2>3 DEF LoadFailed, SameServer, l
<1>4. CASE e.ok = TRUE
  <2>1. /\ WithEndpoints(w0, e.w) /\ IsWorld(e.w) /\ KernelOK(e.w.k)
        /\ SameServer(w.s, e.w.s) /\ e.w.s.task = w.s.task
    BY <1>1, <1>2, <1>4 DEF WithEndpoints, SameServer, IsWorld
  <2>2. \/ c.kr # "KERN_SUCCESS" /\ Restored(e.w.k, c.k)
        \/ /\ c.kr = "KERN_SUCCESS" /\ c.task \in TaskIds \ InUseTasks(e.w.k)
           /\ \E p \in Names \ DOMAIN e.w.k.ports :
                 /\ Gained(e.w.k, c.k, {p}, {c.task})
                 /\ c.k.ports = Opened(e.w.k.ports, p) /\ c.k.count = e.w.k.count + 1
                 /\ c.k.tasks[c.task].bootstrap_port = p
    BY <2>1, TaskMade
  <2> HIDE DEF c
  \* What follows the destruction of the ports.
  <2>3. ASSUME NEW y, IsWorld(y), Restored(e.w.k, y.k), SameServer(w.s, y.s),
               y.s.endpoint = e.w.s.endpoint, y.s.mgmt_port = e.w.s.mgmt_port,
               y.s.task \in {w.s.task, NoTask},
               l = [ok |-> FALSE, w |-> SetState(EndpointDestroy(y), "FAILED")]
        PROVE  l.ok = FALSE /\ IsWorld(l.w) /\ SameServer(w.s, l.w.s) /\ LoadFailed(w, l.w)
    <3> DEFINE z == EndpointDestroy(y)
    <3>1. IsWorld(z) /\ Restored(w0.k, z.k)
      BY <1>1, <2>1, <2>3, DestroyRestores
    <3>2. KernelPorts \cap {y.s.endpoint, y.s.mgmt_port} = {}
      BY <1>1, <2>1, <2>3 DEF WithEndpoints, Gained, IsWorld, KernelOK
    <3>3. /\ SameServer(y.s, z.s) /\ z.s.task = y.s.task
          /\ z.s.endpoint = MACH_PORT_NULL /\ z.s.mgmt_port = MACH_PORT_NULL
      BY <2>3, <3>2, EndpointsGone
    <3> HIDE DEF z
    <3>4. l.ok = FALSE /\ l.w = SetState(z, "FAILED")
      BY <2>3 DEF z
    <3>5. /\ IsWorld(l.w) /\ l.w.k = z.k /\ SameServer(z.s, l.w.s) /\ l.w.s.state = "FAILED"
          /\ l.w.s.task = z.s.task /\ l.w.s.endpoint = z.s.endpoint
          /\ l.w.s.mgmt_port = z.s.mgmt_port
      BY <3>1, <3>4, StatePut DEF States
    <3> QED  BY <1>1, <2>3, <3>1, <3>3, <3>4, <3>5 DEF LoadFailed, SameServer
  <2>4. CASE c.kr # "KERN_SUCCESS"
    <3> DEFINE y == PutTask(e.w, c.k, e.w.s.task)
               y0 == [e.w EXCEPT !.k = c.k]
    <3>1. Restored(e.w.k, c.k) /\ KernelOK(c.k) /\ e.w.s.task \in TaskIds \cup {NoTask}
      BY <2>1, <2>2, <2>4 DEF Restored, IsWorld, Server
    <3>2. /\ IsWorld(y) /\ y.k = c.k /\ SameServer(e.w.s, y.s) /\ y.s.task = e.w.s.task
          /\ y.s.endpoint = e.w.s.endpoint /\ y.s.mgmt_port = e.w.s.mgmt_port
      BY <2>1, <3>1, TaskPut DEF PutOK
    <3>3. y0 = [k |-> c.k, s |-> e.w.s]
      BY <2>1 DEF IsWorld
    <3>4. IsWorld(y0) /\ y0.k = c.k /\ y0.s = e.w.s
      BY <2>1, <3>1, <3>3 DEF IsWorld
    <3>5. l = [ok |-> FALSE, w |-> SetState(EndpointDestroy(y0), "FAILED")]
      BY <1>4, <1>d, <2>4
    <3> HIDE DEF y, y0
    <3> QED  BY <2>1, <2>3, <3>1, <3>4, <3>5 DEF l
  <2>5. CASE c.kr = "KERN_SUCCESS"
    <3>1. c.task \in TaskIds \ InUseTasks(e.w.k)
      BY <2>2, <2>5
    <3>2. PICK p \in Names \ DOMAIN e.w.k.ports :
                 /\ Gained(e.w.k, c.k, {p}, {c.task})
                 /\ c.k.ports = Opened(e.w.k.ports, p) /\ c.k.count = e.w.k.count + 1
                 /\ c.k.tasks[c.task].bootstrap_port = p
      BY <2>2, <2>5
    <3>3. KernelOK(c.k) /\ c.task \in InUseTasks(c.k) /\ c.task \in TaskIds
      BY <3>1, <3>2 DEF Gained
    <3>4. /\ IsWorld(t) /\ t.k = c.k /\ SameServer(e.w.s, t.s) /\ t.s.task = c.task
          /\ t.s.endpoint = e.w.s.endpoint /\ t.s.mgmt_port = e.w.s.mgmt_port
      BY <2>1, <3>3, TaskPut DEF PutOK
    <3> HIDE DEF t
    <3>5. CASE ~thread
      <4> DEFINE r == TaskTerminate(c.k, c.task)
                 y == PutTask(t, r, NoTask)
      <4>1. c.task # KernelTask /\ p \notin KernelPorts /\ KernelTask \in InUseTasks(e.w.k)
        BY <2>1, <3>1 DEF KernelOK, Live
      <4>2. /\ Lost(c.k, r, {p}, {c.task}) /\ r.count = c.k.count - 1
            /\ r.ports = Closed(c.k.ports, p)
        BY <3>2, <3>3, <4>1, TaskGone
      <4>3. IsSpace(e.w.k.ports) /\ e.w.k.count \in Nat
        BY <2>1, KernelSpace, TableFinite DEF KernelOK, IsKernel
      <4> HIDE DEF r
      <4>4. Restored(e.w.k, r)
        BY <3>2, <4>2, <4>3, GainedLost
      <4>5. /\ IsWorld(y) /\ y.k = r /\ SameServer(t.s, y.s) /\ y.s.task = NoTask
            /\ y.s.endpoint = t.s.endpoint /\ y.s.mgmt_port = t.s.mgmt_port
        BY <3>4, <4>4, TaskPut DEF Restored, PutOK
      <4>6. l = [ok |-> FALSE, w |-> SetState(EndpointDestroy(y), "FAILED")]
        BY <1>4, <1>d, <2>5, <3>4, <3>5 DEF PutTask, r
      <4> HIDE DEF y
      <4>7. SameServer(w.s, y.s)
        BY <2>1, <3>4, <4>5 DEF SameServer
      <4> QED  BY <2>3, <3>4, <4>4, <4>5, <4>6, <4>7 DEF l
    <3>6. CASE thread
      <4> DEFINE r == ThreadCreate(c.k, c.task)
                 y == PutThread(t, r, TRUE)
      <4>1. /\ KernelOK(r) /\ r.ports = c.k.ports /\ InUseTasks(r) = InUseTasks(c.k)
            /\ \A u \in InUseTasks(c.k) : SameEntry(c.k, r, u)
        BY <3>3, <3>6, ThreadMade
      <4> HIDE DEF r
      <4>2. Gained(c.k, r, {}, {})
        BY <4>1 DEF Gained, SameEntry
      <4>3. /\ IsWorld(y) /\ y.k = r /\ SameServer(t.s, y.s) /\ y.s.task = t.s.task
            /\ y.s.endpoint = t.s.endpoint /\ y.s.mgmt_port = t.s.mgmt_port
        <5>1. PutOK(t, r, PutThread(t, r, TRUE), t.s.task)
          BY <3>4, <4>1, ThreadPut, Zenon
        <5> QED  BY <5>1 DEF PutOK
      <4>4. l = [ok |-> TRUE, w |-> y]
        BY <1>4, <1>d, <2>5, <3>4, <3>6 DEF PutThread, r
      <4> HIDE DEF y
      <4> DEFINE C == {e.w.s.endpoint, e.w.s.mgmt_port}
      <4>5. Gained(w.k, e.w.k, C, {}) /\ e.w.s.endpoint # e.w.s.mgmt_port
            /\ e.w.s.endpoint \in Names /\ e.w.s.mgmt_port \in Names
        BY <1>1, <2>1 DEF WithEndpoints
      <4> HIDE DEF C
      <4>6. Gained(w.k, c.k, C \cup {p}, {} \cup {c.task})
        BY <3>2, <4>5, GainedTwice
      <4>7. Gained(w.k, r, (C \cup {p}) \cup {}, ({} \cup {c.task}) \cup {})
        BY <4>2, <4>6, GainedTwice
      <4>8. (C \cup {p}) \cup {} = C \cup {p} /\ ({} \cup {c.task}) \cup {} = {c.task}
        OBVIOUS
      <4>9. Gained(w.k, y.k, {y.s.endpoint, y.s.mgmt_port} \cup {p}, {y.s.task})
        BY <3>4, <4>3, <4>7, <4>8 DEF C
      <4>10. Loaded(w, y) /\ SameServer(w.s, y.s)
        BY <2>1, <3>3, <3>4, <4>3, <4>5, <4>9 DEF Loaded, SameServer
      <4> QED  BY <4>3, <4>4, <4>10 DEF l
    <3> QED  BY <3>5, <3>6
  <2> QED  BY <2>4, <2>5
<1> QED  BY <1>2, <1>3, <1>4

\* mx_loader_unload: the task and the ports of the server go, nothing else.
LEMMA UnloadOK ==
    ASSUME NEW w, IsWorld(w), KernelPorts \cap {w.s.endpoint, w.s.mgmt_port} = {},
           w.s.task # NoTask =>
              /\ w.s.task \in InUseTasks(w.k) \ {KernelTask}
              /\ w.k.tasks[w.s.task].bootstrap_port \notin KernelPorts
    PROVE  LET x == Unload(w)
           IN  /\ IsWorld(x) /\ SameServer(w.s, x.s) /\ x.s.state = "STOPPED"
               /\ x.s.task = NoTask /\ x.s.endpoint = MACH_PORT_NULL
               /\ x.s.mgmt_port = MACH_PORT_NULL
               /\ w.s.task = NoTask =>
                     /\ Lost(w.k, x.k, {w.s.endpoint, w.s.mgmt_port}, {})
                     /\ x.k.count = w.k.count
                     /\ x.k.ports = Closed(Closed(w.k.ports, w.s.endpoint), w.s.mgmt_port)
               /\ w.s.task # NoTask =>
                     Lost(w.k, x.k, {w.k.tasks[w.s.task].bootstrap_port}
                                       \cup {w.s.endpoint, w.s.mgmt_port}, {w.s.task} \cup {})
<1> DEFINE a == IF w.s.task = NoTask THEN w.k ELSE TaskTerminate(w.k, w.s.task)
           ended == IF w.s.task = NoTask THEN w ELSE PutTask(w, a, NoTask)
           y == PutThread(ended, a, FALSE)
           z == EndpointDestroy(y)
           x == Unload(w)
           b == w.k.tasks[w.s.task].bootstrap_port
<1>1. KernelOK(w.k) /\ w = [k |-> w.k, s |-> w.s] /\ w.s.task \in TaskIds \cup {NoTask}
  BY DEF IsWorld, Server
<1>2. w.s.task # NoTask => Lost(w.k, a, {b}, {w.s.task})
  BY <1>1, TaskGone
<1>3. KernelOK(a) /\ (w.s.task = NoTask => a = w.k)
  BY <1>1, <1>2 DEF Lost
<1>4. PutTask(w, a, NoTask).k = a /\ IsWorld(PutTask(w, a, NoTask))
      /\ SameServer(w.s, PutTask(w, a, NoTask).s)
      /\ PutTask(w, a, NoTask).s.task = NoTask
      /\ PutTask(w, a, NoTask).s.endpoint = w.s.endpoint
      /\ PutTask(w, a, NoTask).s.mgmt_port = w.s.mgmt_port
  <2> HIDE DEF a
  <2> QED  BY <1>3, TaskPut DEF PutOK
<1>d. x = SetState(z, "STOPPED")
  <2>1. CASE w.s.task = NoTask
    <3>1. [w EXCEPT !.s.thread = FALSE] = [w EXCEPT !.k = w.k, !.s.thread = FALSE]
      <4>1. [w EXCEPT !.k = w.k] = w
        BY <1>1
      <4> QED  BY <4>1
    <3> QED  BY <2>1, <3>1 DEF Unload, PutThread
  <2>2. CASE w.s.task # NoTask
    <3> DEFINE v == PutTask(w, a, NoTask)
    <3>1. v = [w EXCEPT !.k = TaskTerminate(@, w.s.task), !.s.task = NoTask]
      BY <2>2, <1>1 DEF PutTask
    <3>2. v = [k |-> v.k, s |-> v.s] /\ v.k = a
      BY <1>4 DEF IsWorld
    <3> HIDE DEF v, a
    <3>3. [v EXCEPT !.s.thread = FALSE] = [v EXCEPT !.k = a, !.s.thread = FALSE]
      <4>1. [v EXCEPT !.k = a] = v
        BY <3>2
      <4> QED  BY <4>1
    <3>4. ended = v
      BY <2>2 DEF v
    <3>5. Unload(w) = SetState(EndpointDestroy([v EXCEPT !.s.thread = FALSE]), "STOPPED")
      BY <2>2, <3>1 DEF Unload
    <3> QED  BY <3>3, <3>4, <3>5 DEF PutThread
  <2> QED  BY <2>1, <2>2
<1>5. /\ IsWorld(ended) /\ ended.k = a /\ SameServer(w.s, ended.s) /\ ended.s.task = NoTask
      /\ ended.s.endpoint = w.s.endpoint /\ ended.s.mgmt_port = w.s.mgmt_port
  BY <1>3, <1>4 DEF SameServer
<1> HIDE DEF ended, a
<1>6. /\ IsWorld(y) /\ y.k = a /\ SameServer(ended.s, y.s) /\ y.s.task = ended.s.task
      /\ y.s.endpoint = ended.s.endpoint /\ y.s.mgmt_port = ended.s.mgmt_port
  <2>1. PutOK(ended, a, PutThread(ended, a, FALSE), ended.s.task)
    BY <1>3, <1>5, ThreadPut, Zenon
  <2> QED  BY <2>1 DEF PutOK
<1> HIDE DEF y
<1>7. /\ IsWorld(z) /\ SameServer(y.s, z.s) /\ z.s.task = y.s.task
      /\ z.s.endpoint = MACH_PORT_NULL /\ z.s.mgmt_port = MACH_PORT_NULL
      /\ Lost(a, z.k, {w.s.endpoint, w.s.mgmt_port}, {}) /\ z.k.count = a.count
      /\ z.k.ports = Closed(Closed(a.ports, w.s.endpoint), w.s.mgmt_port)
  BY <1>5, <1>6, EndpointsGone
<1> HIDE DEF z
<1>8. /\ IsWorld(x) /\ x.k = z.k /\ SameServer(z.s, x.s) /\ x.s.state = "STOPPED"
      /\ x.s.task = z.s.task /\ x.s.endpoint = z.s.endpoint /\ x.s.mgmt_port = z.s.mgmt_port
  BY <1>d, <1>7, StatePut DEF States
<1> HIDE DEF x, b
<1>9. w.s.task # NoTask =>
         Lost(w.k, x.k, {b} \cup {w.s.endpoint, w.s.mgmt_port}, {w.s.task} \cup {})
  BY <1>2, <1>7, <1>8, LostTwice
<1>10. SameServer(w.s, x.s)
  BY <1>5, <1>6, <1>7, <1>8 DEF SameServer
<1> QED  BY <1>3, <1>5, <1>6, <1>7, <1>8, <1>9, <1>10 DEF x, b
-----------------------------------------------------------------------------
(* The manager's commands keep the invariant of the world *)

WorldOf(kk, v) == [k |-> kk, s |-> v]

\* The facts about one server that the loader's operations ask for.
LEMMA WorldFacts ==
    ASSUME NEW kk, NEW vv, WorldOK(kk, vv), NEW s \in Servers
    PROVE  /\ IsWorld(WorldOf(kk, vv[s])) /\ vv[s] \in Server
           /\ WorldOf(kk, vv[s]).k = kk /\ WorldOf(kk, vv[s]).s = vv[s]
           /\ KernelPorts \cap {vv[s].endpoint, vv[s].mgmt_port} = {}
           /\ vv[s].task # NoTask =>
                 /\ vv[s].task \in InUseTasks(kk) \ {KernelTask}
                 /\ kk.tasks[vv[s].task].bootstrap_port \in Live(kk.ports) \ KernelPorts
           /\ vv[s].endpoint = MACH_PORT_NULL <=> vv[s].mgmt_port = MACH_PORT_NULL
           /\ PortsOf(vv[s]) \subseteq Live(kk.ports) \ KernelPorts
           /\ KernelOK(kk) /\ (vv[s].main # "none" => ~vv[s].path)
           /\ ~vv[s].path => vv[s].task = NoTask
<1>1. KernelOK(kk) /\ vv[s] \in Server /\ (vv[s].main # "none" => ~vv[s].path)
      /\ (~vv[s].path => vv[s].task = NoTask)
  BY DEF WorldOK, StructsOK
<1>2. /\ IsWorld(WorldOf(kk, vv[s])) /\ WorldOf(kk, vv[s]).k = kk
      /\ WorldOf(kk, vv[s]).s = vv[s]
  BY <1>1 DEF WorldOf, IsWorld
<1>3. /\ vv[s].endpoint = MACH_PORT_NULL <=> vv[s].mgmt_port = MACH_PORT_NULL
      /\ PortsOf(vv[s]) \subseteq Live(kk.ports) \ KernelPorts
  BY DEF WorldOK, PortsOK2
<1>4. KernelPorts \cap {vv[s].endpoint, vv[s].mgmt_port} = {}
  BY <1>3 DEF PortsOf, KernelPorts, MACH_PORT_NULL
<1>5. vv[s].task # NoTask =>
         /\ vv[s].task \in InUseTasks(kk) \ {KernelTask}
         /\ kk.tasks[vv[s].task].bootstrap_port \in Live(kk.ports) \ KernelPorts
  BY DEF WorldOK, OwnersOK, BootstrapsOK
<1> QED  BY <1>1, <1>2, <1>3, <1>4, <1>5

\* No task in use but the server's own is bound to a port of the server, and
\* its task is not bound to another server's port.
LEMMA OnlyOwn ==
    ASSUME NEW kk, NEW vv, WorldOK(kk, vv), NEW s \in Servers
    PROVE  /\ \A t \in InUseTasks(kk) \ {KernelTask} : t # vv[s].task =>
                 kk.tasks[t].bootstrap_port \notin PortsOf(vv[s])
           /\ vv[s].task # NoTask =>
                 /\ \A d \in Servers \ {s} :
                       kk.tasks[vv[s].task].bootstrap_port \notin PortsOf(vv[d])
                 /\ \A t \in InUseTasks(kk) \ {KernelTask, vv[s].task} :
                       kk.tasks[t].bootstrap_port # kk.tasks[vv[s].task].bootstrap_port
           /\ \A d \in Servers \ {s} : PortsOf(vv[d]) \cap PortsOf(vv[s]) = {}
           /\ \A d \in Servers : MACH_PORT_NULL \notin PortsOf(vv[d])
           /\ \A t \in InUseTasks(kk) \ {KernelTask} :
                 kk.tasks[t].bootstrap_port # MACH_PORT_NULL
<1>1. \A t \in InUseTasks(kk) \ {KernelTask} : t # vv[s].task =>
                 kk.tasks[t].bootstrap_port \notin PortsOf(vv[s])
  BY DEF WorldOK, BootstrapsOK
<1>2. ASSUME vv[s].task # NoTask
      PROVE  /\ \A d \in Servers \ {s} :
                    kk.tasks[vv[s].task].bootstrap_port \notin PortsOf(vv[d])
             /\ \A t \in InUseTasks(kk) \ {KernelTask, vv[s].task} :
                    kk.tasks[t].bootstrap_port # kk.tasks[vv[s].task].bootstrap_port
  <2>1. /\ vv[s].task \in InUseTasks(kk) \ {KernelTask}
        /\ \A d \in Servers \ {s} : vv[d].task # vv[s].task
    BY <1>2 DEF WorldOK, OwnersOK
  <2> QED  BY <2>1 DEF WorldOK, BootstrapsOK
<1>3. \A d \in Servers \ {s} : PortsOf(vv[d]) \cap PortsOf(vv[s]) = {}
  BY DEF WorldOK, PortsOK2
<1>4. /\ \A d \in Servers : MACH_PORT_NULL \notin PortsOf(vv[d])
      /\ \A t \in InUseTasks(kk) \ {KernelTask} :
            kk.tasks[t].bootstrap_port # MACH_PORT_NULL
  BY Basics DEF PortsOf, WorldOK, BootstrapsOK, KernelOK, IsKernel, Live
<1> QED  BY <1>1, <1>2, <1>3, <1>4

\* A server that gave up its task and its ports.
LEMMA UnloadKeeps ==
    ASSUME NEW kk, NEW vv, WorldOK(kk, vv), NEW s \in Servers, vv[s].exists
    PROVE  LET x == Unload(WorldOf(kk, vv[s]))
           IN  /\ IsWorld(x) /\ SameServer(vv[s], x.s) /\ x.s.state = "STOPPED"
               /\ WorldOK(x.k, [vv EXCEPT ![s] = x.s])
               /\ vv[s].task = NoTask /\ vv[s].endpoint = MACH_PORT_NULL
                     => Restored(kk, x.k)
<1> DEFINE w == WorldOf(kk, vv[s])
           x == Unload(w)
           b == kk.tasks[vv[s].task].bootstrap_port
           P == {vv[s].endpoint, vv[s].mgmt_port}
<1>1. /\ IsWorld(w) /\ w.k = kk /\ w.s = vv[s] /\ KernelPorts \cap P = {}
      /\ vv[s].task # NoTask => /\ vv[s].task \in InUseTasks(kk) \ {KernelTask}
                                /\ b \notin KernelPorts
      /\ vv[s].endpoint = MACH_PORT_NULL <=> vv[s].mgmt_port = MACH_PORT_NULL
      /\ KernelOK(kk) /\ (vv[s].main # "none" => ~vv[s].path)
  BY WorldFacts
<1> HIDE DEF w
<1>2. /\ IsWorld(x) /\ SameServer(vv[s], x.s) /\ x.s.state = "STOPPED"
      /\ x.s.task = NoTask /\ x.s.endpoint = MACH_PORT_NULL
      /\ x.s.mgmt_port = MACH_PORT_NULL
      /\ vv[s].task = NoTask =>
            /\ Lost(kk, x.k, P, {}) /\ x.k.count = kk.count
            /\ x.k.ports = Closed(Closed(kk.ports, vv[s].endpoint), vv[s].mgmt_port)
      /\ vv[s].task # NoTask => Lost(kk, x.k, {b} \cup P, {vv[s].task} \cup {})
  BY <1>1, UnloadOK
<1> HIDE DEF x
<1>3. Kept(x.k, vv[s], x.s) /\ PortsOf(x.s) = {} /\ x.s.task = NoTask
  BY <1>1, <1>2 DEF Kept, IsWorld, SameServer, PortsOf, Running
<1>4. /\ \A d \in Servers \ {s} : PortsOf(vv[d]) \cap P = {}
      /\ \A t \in InUseTasks(kk) \ {KernelTask} : t # vv[s].task =>
            kk.tasks[t].bootstrap_port \notin P
  BY OnlyOwn DEF PortsOf
<1>5. CASE vv[s].task = NoTask
  <2>1. Lost(kk, x.k, P, {})
    BY <1>2, <1>5
  <2>2. \A t \in InUseTasks(x.k) \ {KernelTask} :
           t \in InUseTasks(kk) \ {KernelTask} /\ t # NoTask
    BY <2>1, Basics DEF Lost, InUseTasks
  <2>3. \A t \in InUseTasks(x.k) \ {KernelTask} : kk.tasks[t].bootstrap_port \notin P
    BY <1>4, <1>5, <2>2
  <2>4. PortsOf(x.s) \cap P = {} /\ {} \subseteq {vv[s].task} /\ x.s.task \notin {}
    BY <1>3
  <2> HIDE DEF P
  <2>5. WorldOK(x.k, [vv EXCEPT ![s] = x.s])
    BY <1>3, <1>4, <2>1, <2>3, <2>4, ShrinkKeeps
  <2>6. ASSUME vv[s].endpoint = MACH_PORT_NULL PROVE Restored(kk, x.k)
    <3>1. x.k.ports = Closed(Closed(kk.ports, MACH_PORT_NULL), MACH_PORT_NULL)
      BY <1>1, <1>2, <1>5, <2>6
    <3>2. IsSpace(kk.ports) /\ MACH_PORT_NULL \notin DOMAIN kk.ports
      BY <1>1, KernelSpace, Basics DEF IsSpace
    <3>3. Closed(kk.ports, MACH_PORT_NULL) = kk.ports
      BY <3>2, ClosedSpace
    <3> QED  BY <1>2, <1>5, <2>1, <3>1, <3>3 DEF Restored, Lost
  <2> QED  BY <1>2, <2>5, <2>6 DEF x, w
<1>6. CASE vv[s].task # NoTask
  <2> DEFINE C == {b} \cup P
             T == {vv[s].task} \cup {}
  <2>1. Lost(kk, x.k, C, T)
    BY <1>2, <1>6
  <2>2. /\ \A d \in Servers \ {s} : b \notin PortsOf(vv[d])
        /\ \A t \in InUseTasks(kk) \ {KernelTask, vv[s].task} :
              kk.tasks[t].bootstrap_port # b
    BY <1>6, OnlyOwn
  <2>3. \A t \in InUseTasks(x.k) \ {KernelTask} :
           t \in InUseTasks(kk) \ {KernelTask, vv[s].task}
    BY <2>1 DEF Lost
  <2>4. /\ \A d \in Servers \ {s} : PortsOf(vv[d]) \cap C = {}
        /\ \A t \in InUseTasks(x.k) \ {KernelTask} : kk.tasks[t].bootstrap_port \notin C
        /\ PortsOf(x.s) \cap C = {} /\ T \subseteq {vv[s].task} /\ x.s.task \notin T
    BY <1>3, <1>4, <1>6, <2>2, <2>3
  <2> HIDE DEF C, T
  <2>5. WorldOK(x.k, [vv EXCEPT ![s] = x.s])
    BY <1>3, <2>1, <2>4, ShrinkKeeps
  <2> QED  BY <1>2, <1>6, <2>5 DEF x, w
<1> QED  BY <1>5, <1>6

\* mx_manager_stop_server
LEMMA StopKeeps ==
    ASSUME NEW kk, NEW vv, WorldOK(kk, vv), NEW s \in Servers, vv[s].exists
    PROVE  LET x == ManagerStop(WorldOf(kk, vv[s]))
           IN  /\ IsWorld(x) /\ SameServer(vv[s], x.s) /\ x.s.state = "STOPPED"
               /\ WorldOK(x.k, [vv EXCEPT ![s] = x.s])
               /\ vv[s].task = NoTask /\ vv[s].endpoint = MACH_PORT_NULL
                     => Restored(kk, x.k)
<1> DEFINE w == WorldOf(kk, vv[s])
           x == ManagerStop(w)
<1>1. IsWorld(w) /\ w.k = kk /\ w.s = vv[s]
  BY WorldFacts
<1>2. CASE vv[s].state = "STOPPED"
  <2>1. x = w
    BY <1>1, <1>2 DEF ManagerStop
  <2>2. [vv EXCEPT ![s] = vv[s]] = vv
    BY DEF WorldOK, StructsOK
  <2>3. Restored(kk, kk) /\ SameServer(vv[s], vv[s])
    BY <1>1 DEF Restored, IsWorld, SameServer
  <2> HIDE DEF w, x
  <2> QED  BY <1>1, <1>2, <2>1, <2>2, <2>3 DEF x, w
<1>3. CASE vv[s].state # "STOPPED"
  <2>1. x = Unload(WorldOf(kk, vv[s]))
    BY <1>1, <1>3 DEF ManagerStop
  <2> HIDE DEF w, x
  <2> QED  BY <2>1, UnloadKeeps DEF x, w
<1> QED  BY <1>2, <1>3

\* mx_loader_start: the state and the task's bootstrap port.
LEMMA LoaderStartOK ==
    ASSUME NEW w, IsWorld(w), w.s.task \in InUseTasks(w.k), w.s.endpoint \in Names
    PROVE  LET x == LoaderStart(w)
           IN  /\ IsWorld(x) /\ SameServer(w.s, x.s) /\ x.s.state = "STARTING"
               /\ x.s.task = w.s.task /\ x.s.endpoint = w.s.endpoint
               /\ x.s.mgmt_port = w.s.mgmt_port
               /\ x.k.ports = w.k.ports /\ InUseTasks(x.k) = InUseTasks(w.k)
               /\ x.k.tasks[w.s.task].bootstrap_port = w.s.endpoint
               /\ \A t \in InUseTasks(w.k) \ {w.s.task} : x.k.tasks[t] = w.k.tasks[t]
<1> DEFINE t == w.s.task
           p == w.s.endpoint
           a == w.k
           v == w.s
           n == [v EXCEPT !.state = "STARTING"]
           r == [a EXCEPT !.tasks[t].bootstrap_port = p]
           y == [w EXCEPT !.s.state = "STARTING"]
           z == [y EXCEPT !.k.tasks[t].bootstrap_port = p]
<1>1. w = [k |-> a, s |-> v] /\ v \in Server /\ KernelOK(a)
  BY DEF IsWorld
<1>2. /\ n \in Server /\ SameServer(v, n) /\ n.state = "STARTING" /\ n.task = v.task
      /\ n.endpoint = v.endpoint /\ n.mgmt_port = v.mgmt_port
  BY <1>1 DEF Server, SameServer, States
<1>3. LoaderStart(w) = z
  BY DEF LoaderStart
<1>4. t \in InUseTasks(a) /\ p \in Names
  OBVIOUS
<1> HIDE DEF t, p, a, v
<1>5. y = [k |-> a, s |-> n]
  BY <1>1
<1> HIDE DEF y, n
<1>6. z = [k |-> r, s |-> n]
  BY <1>5
<1>7. /\ KernelOK(r) /\ r.ports = a.ports /\ InUseTasks(r) = InUseTasks(a)
      /\ r.tasks[t].bootstrap_port = p
      /\ \A u \in InUseTasks(a) \ {t} : r.tasks[u] = a.tasks[u]
  BY <1>1, <1>4, BootstrapSet
<1> HIDE DEF z, r
<1>8. z.k = r /\ z.s = n /\ IsWorld(z)
  BY <1>2, <1>6, <1>7 DEF IsWorld
<1> QED  BY <1>2, <1>3, <1>7, <1>8 DEF a, v, t, p

\* mx_manager_start_server, up to its wait.
LEMMA StartKeeps ==
    ASSUME NEW kk, NEW vv, WorldOK(kk, vv), NEW s \in Servers, vv[s].exists,
           NEW tok \in BOOLEAN
    PROVE  LET l == ManagerStart(WorldOf(kk, vv[s]), tok)
           IN  /\ IsWorld(l.w) /\ SameServer(vv[s], l.w.s)
               /\ WorldOK(l.w.k, [vv EXCEPT ![s] = l.w.s])
               /\ l.w.s.state = "FAILED" => Restored(kk, l.w.k)
<1> DEFINE w == WorldOf(kk, vv[s])
           m == Load(w, tok)
           l == ManagerStart(w, tok)
<1>1. /\ IsWorld(w) /\ w.k = kk /\ w.s = vv[s] /\ vv[s] \in Server
      /\ vv[s].endpoint = MACH_PORT_NULL <=> vv[s].mgmt_port = MACH_PORT_NULL
      /\ KernelOK(kk) /\ (vv[s].main # "none" => ~vv[s].path)
      /\ (~vv[s].path => vv[s].task = NoTask) /\ vv[s].path \in BOOLEAN
  <2>1. vv[s].path \in BOOLEAN
    <3>1. vv[s] \in Server
      BY WorldFacts
    <3> QED  BY <3>1 DEF Server
  <2> QED  BY <2>1, WorldFacts
<1>2. CASE ~vv[s].path
  <2>1. l = [ok |-> FALSE, w |-> Unload(w)]
    BY <1>1, <1>2 DEF ManagerStart
  <2>2. l.w = Unload(w)
    BY <2>1
  <2> HIDE DEF w, l
  <2> QED  BY <2>2, UnloadKeeps DEF l, w
<1>3. CASE vv[s].path
  <2>1. /\ IsWorld(m.w) /\ SameServer(vv[s], m.w.s)
        /\ \/ m.ok = FALSE /\ LoadFailed(w, m.w)
           \/ m.ok = TRUE /\ Loaded(w, m.w)
    <3> HIDE DEF w
    <3> QED  BY <1>1, LoadOK
  <2>d. /\ ~m.ok => l = m
        /\ m.ok /\ m.w.s.task # NoTask => l = [ok |-> TRUE, w |-> LoaderStart(m.w)]
    BY <1>1, <1>3 DEF ManagerStart
  <2> HIDE DEF w, m, l
  <2>2. CASE m.ok = FALSE
    <3>1. l = m /\ LoadFailed(w, m.w)
      BY <2>1, <2>2, <2>d
    <3>2. Restored(kk, m.w.k) /\ m.w.s.state = "FAILED"
      BY <1>1, <3>1 DEF LoadFailed
    <3>3. /\ Lost(kk, m.w.k, {}, {})
          /\ \A t \in InUseTasks(m.w.k) \ {KernelTask} : kk.tasks[t].bootstrap_port \notin {}
      BY <3>2, RestoredLost
    <3>4. vv[s].task # NoTask => vv[s].state # "STOPPED"
      BY DEF WorldOK, OwnersOK
    <3>5. Kept(m.w.k, vv[s], m.w.s)
      BY <1>1, <1>3, <2>1, <3>1, <3>2 DEF Kept, LoadFailed, SameServer, IsWorld, Running
    <3>6. WorldOK(m.w.k, [vv EXCEPT ![s] = m.w.s])
      BY <3>3, <3>5, ShrinkKeeps
    <3> QED  BY <2>1, <3>1, <3>2, <3>6 DEF l, m, w
  <2>3. CASE m.ok = TRUE
    <3> DEFINE x == LoaderStart(m.w)
               t == m.w.s.task
    <3>1. /\ t \in TaskIds /\ m.w.s.endpoint # m.w.s.mgmt_port
          /\ m.w.s.endpoint \in Names /\ m.w.s.mgmt_port \in Names
          /\ \E b \in Names :
                Gained(kk, m.w.k, {m.w.s.endpoint, m.w.s.mgmt_port} \cup {b}, {t})
      BY <1>1, <2>1, <2>3 DEF Loaded
    <3>2. PICK b \in Names :
                Gained(kk, m.w.k, {m.w.s.endpoint, m.w.s.mgmt_port} \cup {b}, {t})
      BY <3>1
    <3>3. t # NoTask /\ t \in InUseTasks(m.w.k) /\ t \notin InUseTasks(kk)
          /\ KernelOK(m.w.k)
      BY <3>1, <3>2, Basics DEF Gained
    <3>4. l = [ok |-> TRUE, w |-> x]
      BY <2>3, <2>d, <3>3
    <3>5. /\ IsWorld(x) /\ SameServer(m.w.s, x.s) /\ x.s.state = "STARTING"
          /\ x.s.task = t /\ x.s.endpoint = m.w.s.endpoint
          /\ x.s.mgmt_port = m.w.s.mgmt_port
          /\ x.k.ports = m.w.k.ports /\ InUseTasks(x.k) = InUseTasks(m.w.k)
          /\ x.k.tasks[t].bootstrap_port = m.w.s.endpoint
          /\ \A u \in InUseTasks(m.w.k) \ {t} : x.k.tasks[u] = m.w.k.tasks[u]
      BY <2>1, <3>1, <3>3, LoaderStartOK
    <3> HIDE DEF x, t
    <3> DEFINE C == {m.w.s.endpoint, m.w.s.mgmt_port} \cup {b}
    <3>6. Gained(kk, x.k, C, {t})
      BY <3>2, <3>3, <3>5 DEF Gained, IsWorld
    <3>7. {x.s.endpoint, x.s.mgmt_port} \subseteq C /\ x.s.endpoint # x.s.mgmt_port
      BY <3>1, <3>5
    <3> HIDE DEF C
    <3>8. SameServer(vv[s], x.s)
      BY <2>1, <3>5 DEF SameServer
    <3>9. /\ x.s \in Server /\ x.s.exists /\ x.s.path /\ x.s.main = "none"
          /\ x.s.task = t /\ x.s.task # NoTask /\ x.s.state # "STOPPED"
          /\ x.k.tasks[t].bootstrap_port = x.s.endpoint
      BY <1>1, <1>3, <3>3, <3>5, <3>8 DEF SameServer, IsWorld
    <3>10. Renewed(x.k, vv[s], x.s, C, {t})
      BY <3>7, <3>9 DEF Renewed
    <3>11. WorldOK(x.k, [vv EXCEPT ![s] = x.s])
      BY <3>6, <3>10, GrowthKeeps
    <3>12. l.w = x /\ x.s.state # "FAILED"
      BY <3>4, <3>5
    <3> QED  BY <3>5, <3>8, <3>11, <3>12 DEF l, w
  <2> QED  BY <2>1, <2>2, <2>3
<1> QED  BY <1>1, <1>2, <1>3
-----------------------------------------------------------------------------
(* The registry *)

InRegistry(g, s) == \E i \in DOMAIN g : g[i] = s

\* A change of one structure that keeps its name.
LEMMA RegistryNamed ==
    ASSUME NEW vv \in [Servers -> Server], NEW g, RegistryOK(vv, g), NEW s \in Servers,
           NEW n, n.exists = vv[s].exists, n.name = vv[s].name
    PROVE  RegistryOK([vv EXCEPT ![s] = n], g)
<1> DEFINE ww == [vv EXCEPT ![s] = n]
<1>1. ww[s] = n /\ \A d \in Servers : d # s => ww[d] = vv[d]
  OBVIOUS
<1>2. \A d \in Servers : ww[d].exists = vv[d].exists /\ ww[d].name = vv[d].name
  BY <1>1
<1>3. g \in Seq(Servers) /\ (\A i \in DOMAIN g : g[i] \in Servers)
  BY DEF RegistryOK
<1> HIDE DEF ww
<1> QED  BY <1>2, <1>3 DEF RegistryOK, ww

LEMMA RegistryKept ==
    ASSUME NEW vv \in [Servers -> Server], NEW g, RegistryOK(vv, g), NEW s \in Servers,
           NEW n, SameServer(vv[s], n)
    PROVE  RegistryOK([vv EXCEPT ![s] = n], g)
  BY RegistryNamed DEF SameServer

\* A registry that takes another server leaves a structure to allocate.
LEMMA AllocatedOK ==
    ASSUME NEW name, RegistryOK(srv, _registry), CanRegister(name)
    PROVE  Allocated \in Servers /\ ~srv[Allocated].exists
<1>1. ASSUME \A s \in Servers : srv[s].exists PROVE FALSE
  <2> DEFINE n == Len(_registry)
  <2>1. /\ _registry \in Seq(Servers) /\ n \in Nat /\ n < MX_SERVER_MAX
        /\ \A s \in Servers : \E i \in DOMAIN _registry : _registry[i] = s
    BY <1>1 DEF RegistryOK, CanRegister
  <2>2. _registry \in Surjection(1 .. n, Servers)
    BY <2>1 DEF Surjection
  <2>3. IsFiniteSet(1 .. n) /\ Cardinality(1 .. n) = n
    <3>1. 1 \in Int /\ n \in Int
      BY <2>1
    <3> HIDE DEF n
    <3>2. IsFiniteSet(1 .. n) /\ Cardinality(1 .. n) = IF 1 > n THEN 0 ELSE n - 1 + 1
      BY <3>1, FS_Interval
    <3> QED BY <2>1, <3>2
  <2>4. Cardinality(Servers) <= n
    BY <2>2, <2>3, FS_Surjection
  <2>5. Cardinality(Servers) \in Nat /\ Cardinality(Servers) >= MX_SERVER_MAX
        /\ MX_SERVER_MAX \in Nat
    BY ServersAssumption, FS_CardinalityType
  <2> QED  BY <2>1, <2>4, <2>5
<1>2. \E s \in Servers : ~srv[s].exists
  BY <1>1
<1> QED  BY <1>2 DEF Allocated

\* mx_server_register
LEMMA RegisterOK ==
    ASSUME NEW vv \in [Servers -> Server], NEW g, RegistryOK(vv, g), NEW s \in Servers,
           ~vv[s].exists, Len(g) < MX_SERVER_MAX,
           NEW n, n.exists, \A i \in DOMAIN g : vv[g[i]].name # n.name
    PROVE  RegistryOK([vv EXCEPT ![s] = n], <<s>> \o g)
<1> DEFINE ww == [vv EXCEPT ![s] = n]
           h == <<s>> \o g
<1>1. g \in Seq(Servers) /\ Len(g) \in Nat /\ DOMAIN g = 1 .. Len(g)
      /\ MX_SERVER_MAX \in Nat
  BY ServersAssumption DEF RegistryOK
<1>2. /\ h \in Seq(Servers) /\ Len(h) = Len(g) + 1 /\ DOMAIN h = 1 .. Len(g) + 1
      /\ h[1] = s /\ \A i \in 2 .. Len(g) + 1 : h[i] = g[i - 1]
  <2>1. <<s>> \in Seq(Servers) /\ Len(<<s>>) = 1 /\ <<s>>[1] = s
    OBVIOUS
  <2>2. /\ h \in Seq(Servers) /\ Len(h) = 1 + Len(g)
        /\ \A i \in 1 .. 1 + Len(g) : h[i] = IF i <= 1 THEN <<s>>[i] ELSE g[i - 1]
    BY <1>1, <2>1, ConcatProperties
  <2> HIDE DEF h
  <2> QED  BY <1>1, <2>1, <2>2
<1>3. ww[s] = n /\ \A d \in Servers : d # s => ww[d] = vv[d]
  OBVIOUS
<1>4. \A i \in DOMAIN g : g[i] \in Servers /\ g[i] # s
  BY <1>1 DEF RegistryOK
<1> HIDE DEF ww, h
<1>5. ASSUME NEW d \in Servers PROVE ww[d].exists <=> \E i \in DOMAIN h : h[i] = d
  <2>1. CASE d = s
    <3>1. 1 \in DOMAIN h
      BY <1>1, <1>2
    <3> QED  BY <1>2, <1>3, <2>1, <3>1
  <2>2. CASE d # s
    <3>1. ww[d].exists <=> \E i \in DOMAIN g : g[i] = d
      BY <1>3, <2>2 DEF RegistryOK
    <3>2. ASSUME NEW i \in DOMAIN g, g[i] = d PROVE \E j \in DOMAIN h : h[j] = d
      <4>1. i + 1 \in 2 .. Len(g) + 1 /\ i + 1 \in DOMAIN h /\ (i + 1) - 1 = i
        BY <1>1, <1>2
      <4> QED  BY <1>2, <3>2, <4>1
    <3>3. ASSUME NEW j \in DOMAIN h, h[j] = d PROVE \E i \in DOMAIN g : g[i] = d
      <4>1. j \in 2 .. Len(g) + 1 /\ j - 1 \in DOMAIN g
        BY <1>1, <1>2, <2>2, <3>3
      <4> QED  BY <1>2, <3>3, <4>1
    <3> QED  BY <3>1, <3>2, <3>3
  <2> QED  BY <2>1, <2>2
<1>6. ASSUME NEW i \in DOMAIN h, NEW j \in DOMAIN h, i # j
      PROVE  h[i] # h[j] /\ ww[h[i]].name # ww[h[j]].name
  <2>1. ASSUME NEW a \in 2 .. Len(g) + 1, NEW b \in 2 .. Len(g) + 1, a # b
        PROVE  h[a] # h[b] /\ ww[h[a]].name # ww[h[b]].name
    <3>1. a - 1 \in DOMAIN g /\ b - 1 \in DOMAIN g /\ a - 1 # b - 1
      BY <1>1, <2>1
    <3>2. g[a - 1] # g[b - 1] /\ vv[g[a - 1]].name # vv[g[b - 1]].name
      BY <3>1 DEF RegistryOK
    <3>3. h[a] = g[a - 1] /\ h[b] = g[b - 1]
      BY <1>2
    <3> QED  BY <1>3, <1>4, <3>1, <3>2, <3>3
  <2>2. ASSUME NEW a \in 2 .. Len(g) + 1
        PROVE  h[a] # s /\ ww[h[a]].name # n.name
    <3>1. a - 1 \in DOMAIN g /\ h[a] = g[a - 1]
      BY <1>1, <1>2
    <3> QED  BY <1>3, <1>4, <3>1
  <2>3. i \in 2 .. Len(g) + 1 \/ i = 1
    BY <1>1, <1>2
  <2>4. j \in 2 .. Len(g) + 1 \/ j = 1
    BY <1>1, <1>2
  <2> QED  BY <1>2, <1>3, <1>6, <2>1, <2>2, <2>3, <2>4
<1>7. Len(h) <= MX_SERVER_MAX
  BY <1>1, <1>2
<1> QED  BY <1>2, <1>5, <1>6, <1>7 DEF RegistryOK, ww, h

\* mx_server_unregister, and the structure given back.
LEMMA UnregisterOK ==
    ASSUME NEW vv \in [Servers -> Server], RegistryOK(vv, _registry), NEW s \in Registered
    PROVE  RegistryOK([vv EXCEPT ![s] = ZeroServer], Without(s))
<1> DEFINE g == _registry
           c == Place(s)
           ww == [vv EXCEPT ![s] = ZeroServer]
           h == Without(s)
           From(i) == IF i < c THEN i ELSE i + 1
<1>1. g \in Seq(Servers) /\ Len(g) \in Nat /\ DOMAIN g = 1 .. Len(g)
      /\ MX_SERVER_MAX \in Nat /\ Len(g) <= MX_SERVER_MAX
  BY ServersAssumption DEF RegistryOK
<1>2. c \in DOMAIN g /\ g[c] = s /\ s \in Servers
  BY <1>1 DEF Registered, Place
<1> HIDE DEF c
<1>3. /\ h \in Seq(Servers) /\ Len(h) = Len(g) - 1
      /\ \A j \in 1 .. Len(g) - 1 : h[j] = IF j < c THEN g[j] ELSE g[j + 1]
  <2>1. h = ShiftedDown(g, c)
    BY DEF Without, c
  <2> HIDE DEF g, h
  <2> QED  BY <1>1, <1>2, <2>1, ShiftedDownOK
<1>4. ww[s] = ZeroServer /\ \A d \in Servers : d # s => ww[d] = vv[d]
  BY <1>2
<1>5. \A i, j \in DOMAIN g : i # j => g[i] # g[j] /\ vv[g[i]].name # vv[g[j]].name
  BY DEF RegistryOK
<1>6. \A d \in Servers : vv[d].exists <=> \E i \in DOMAIN g : g[i] = d
  BY DEF RegistryOK
<1> HIDE DEF ww, h, g
<1>7. DOMAIN h = 1 .. Len(g) - 1
  BY <1>1, <1>2, <1>3
<1>8. ASSUME NEW j \in DOMAIN h
      PROVE  From(j) \in DOMAIN g \ {c} /\ h[j] = g[From(j)] /\ h[j] # s /\ h[j] \in Servers
  <2>1. From(j) \in DOMAIN g \ {c} /\ h[j] = g[From(j)]
    BY <1>1, <1>2, <1>3, <1>7
  <2> HIDE DEF From
  <2> QED  BY <1>1, <1>2, <1>5, <2>1
<1>9. ASSUME NEW i \in DOMAIN g \ {c}
      PROVE  \E j \in DOMAIN h : From(j) = i
  <2>1. CASE i < c
    <3>1. i \in DOMAIN h /\ From(i) = i
      BY <1>1, <1>2, <1>7, <2>1
    <3> QED  BY <3>1
  <2>2. CASE ~(i < c)
    <3>1. i - 1 \in DOMAIN h /\ From(i - 1) = i
      BY <1>1, <1>2, <1>7, <2>2
    <3> QED  BY <3>1
  <2> QED  BY <2>1, <2>2
<1>10. ASSUME NEW i \in DOMAIN h, NEW j \in DOMAIN h, i # j PROVE From(i) # From(j)
  BY <1>1, <1>2, <1>7, <1>10
<1> HIDE DEF From
<1>11. ASSUME NEW d \in Servers PROVE ww[d].exists <=> \E i \in DOMAIN h : h[i] = d
  <2>1. CASE d = s
    <3>1. ww[d].exists = FALSE
      <4>1. ZeroServer.exists = FALSE
        BY DEF ZeroServer
      <4>2. ww[d] = ZeroServer
        BY <1>4, <2>1
      <4> QED  BY <4>1, <4>2
    <3>2. \A i \in DOMAIN h : h[i] # d
      BY <1>8, <2>1
    <3> QED  BY <3>1, <3>2
  <2>2. CASE d # s
    <3>1. ww[d].exists <=> \E i \in DOMAIN g : g[i] = d
      BY <1>4, <1>6, <2>2
    <3>2. ASSUME NEW i \in DOMAIN g, g[i] = d PROVE \E j \in DOMAIN h : h[j] = d
      <4>1. i \in DOMAIN g \ {c}
        BY <1>2, <2>2, <3>2
      <4> QED  BY <1>8, <1>9, <3>2, <4>1
    <3> QED  BY <1>8, <3>1, <3>2
  <2> QED  BY <2>1, <2>2
<1>12. ASSUME NEW i \in DOMAIN h, NEW j \in DOMAIN h, i # j
       PROVE  h[i] # h[j] /\ ww[h[i]].name # ww[h[j]].name
  BY <1>4, <1>5, <1>8, <1>10, <1>12
<1>13. Len(h) <= MX_SERVER_MAX
  BY <1>1, <1>3
<1> QED  BY <1>3, <1>11, <1>12, <1>13 DEF RegistryOK, ww, h
-----------------------------------------------------------------------------
(* The actions *)

\* The step of FailedStartRestores.
Restores ==
    \A s \in Servers :
        /\ srv[s].task = NoTask /\ srv[s].endpoint = MACH_PORT_NULL
        /\ srv[s].state # "FAILED" /\ srv'[s].state = "FAILED"
        => /\ k'.ports = k.ports
           /\ InUseTasks(k') = InUseTasks(k) /\ k'.count = k.count

\* A step after which no server is FAILED that was not before.
LEMMA NoNewFailure ==
    ASSUME \A s \in Servers : srv'[s].state = "FAILED" => srv[s].state = "FAILED"
    PROVE  Restores
  BY DEF Restores

LEMMA RegisteredFacts ==
    ASSUME IInv, NEW s \in Registered
    PROVE  /\ s \in Servers /\ srv[s].exists /\ srv \in [Servers -> Server]
           /\ World(s) = WorldOf(k, srv[s]) /\ WorldOK(k, srv) /\ srv[s] \in Server
<1>1. /\ _registry \in Seq(Servers) /\ WorldOK(k, srv) /\ srv \in [Servers -> Server]
      /\ \A d \in Servers : srv[d].exists <=> \E i \in DOMAIN _registry : _registry[i] = d
  BY DEF IInv, RegistryOK, WorldOK, StructsOK
<1>2. \E i \in DOMAIN _registry : _registry[i] = s
  BY DEF Registered
<1>3. s \in Servers
  BY <1>1, <1>2
<1> QED  BY <1>1, <1>2, <1>3 DEF World, WorldOf

\* A command that changes one registered server through a world.
LEMMA OneServer ==
    ASSUME IInv, NEW s \in Registered, NEW x,
           SameServer(srv[s], x.s), WorldOK(x.k, [srv EXCEPT ![s] = x.s]),
           Becomes(s, x), UNCHANGED _registry, CountersOK',
           \/ x.s.state = "FAILED" => srv[s].state = "FAILED"
           \/ srv[s].task = NoTask /\ srv[s].endpoint = MACH_PORT_NULL => Restored(k, x.k)
    PROVE  IInv' /\ Restores
<1>1. s \in Servers /\ srv \in [Servers -> Server] /\ RegistryOK(srv, _registry)
  BY RegisteredFacts DEF IInv
<1>2. k' = x.k /\ srv' = [srv EXCEPT ![s] = x.s]
  BY DEF Becomes
<1>3. RegistryOK([srv EXCEPT ![s] = x.s], _registry)
  BY <1>1, RegistryKept
<1>4. IInv'
  BY <1>2, <1>3 DEF IInv
<1>5. srv'[s] = x.s /\ \A d \in Servers : d # s => srv'[d] = srv[d]
  BY <1>1, <1>2
<1>6. ASSUME NEW d \in Servers, srv[d].task = NoTask, srv[d].endpoint = MACH_PORT_NULL,
             srv[d].state # "FAILED", srv'[d].state = "FAILED"
      PROVE  k'.ports = k.ports /\ InUseTasks(k') = InUseTasks(k) /\ k'.count = k.count
  <2>1. d = s /\ x.s.state = "FAILED"
    BY <1>5, <1>6
  <2>2. Restored(k, x.k)
    BY <1>6, <2>1
  <2> QED  BY <1>2, <2>2 DEF Restored
<1> QED  BY <1>4, <1>6 DEF Restores

\* What mx_manager_start_server does with the outcome of the start.
LEMMA StartedCounters ==
    ASSUME IInv, NEW s \in Servers, NEW r, r.ok \in BOOLEAN, Started(s, r), UNCHANGED sent
    PROVE  CountersOK' /\ Becomes(s, r.w)
  BY ServersAssumption DEF IInv, CountersOK, Started

LEMMA StartOutcome ==
    ASSUME NEW w, NEW tok \in BOOLEAN, IsWorld(w)
    PROVE  ManagerStart(w, tok).ok \in BOOLEAN
<1>1. Load(w, tok).ok \in BOOLEAN
  BY LoadOK
<1> QED  BY <1>1 DEF ManagerStart

LEMMA StepStart ==
    ASSUME IInv, NEW s, NEW tok \in BOOLEAN, mx_manager_start_server(s, tok)
    PROVE  IInv' /\ Restores
<1>1. s \in Registered /\ Started(s, ManagerStart(World(s), tok)) /\ UNCHANGED <<_registry, sent>>
  BY DEF mx_manager_start_server
<1> DEFINE l == ManagerStart(WorldOf(k, srv[s]), tok)
<1>2. s \in Servers /\ srv[s].exists /\ World(s) = WorldOf(k, srv[s]) /\ WorldOK(k, srv)
      /\ IsWorld(WorldOf(k, srv[s]))
  BY <1>1, RegisteredFacts, WorldFacts
<1>3. /\ SameServer(srv[s], l.w.s)
      /\ WorldOK(l.w.k, [srv EXCEPT ![s] = l.w.s])
      /\ l.w.s.state = "FAILED" => Restored(k, l.w.k)
  BY <1>2, StartKeeps
<1>4. l.ok \in BOOLEAN
  BY <1>2, StartOutcome
<1>5. Started(s, l)
  BY <1>1, <1>2
<1> HIDE DEF l
<1>6. CountersOK' /\ Becomes(s, l.w)
  BY <1>1, <1>2, <1>4, <1>5, StartedCounters
<1> QED  BY <1>1, <1>3, <1>6, OneServer

LEMMA StepStop ==
    ASSUME IInv, NEW s, mx_manager_stop_server(s)
    PROVE  IInv' /\ Restores
<1>1. /\ s \in Registered /\ Becomes(s, ManagerStop(World(s)))
      /\ UNCHANGED <<_registry, waiting, waited, sent>>
  BY DEF mx_manager_stop_server
<1> DEFINE x == ManagerStop(WorldOf(k, srv[s]))
<1>2. s \in Servers /\ srv[s].exists /\ World(s) = WorldOf(k, srv[s]) /\ WorldOK(k, srv)
  BY <1>1, RegisteredFacts
<1>3. /\ SameServer(srv[s], x.s) /\ x.s.state = "STOPPED"
      /\ WorldOK(x.k, [srv EXCEPT ![s] = x.s])
  BY <1>2, StopKeeps
<1>4. Becomes(s, x) /\ CountersOK'
  BY <1>1, <1>2 DEF IInv, CountersOK
<1> HIDE DEF x
<1> QED  BY <1>1, <1>3, <1>4, OneServer

LEMMA StepRestart ==
    ASSUME IInv, NEW s, NEW tok \in BOOLEAN, mx_manager_restart_server(s, tok)
    PROVE  IInv' /\ Restores
<1>1. /\ s \in Registered /\ Started(s, ManagerStart(ManagerStop(World(s)), tok))
      /\ UNCHANGED <<_registry, sent>>
  BY DEF mx_manager_restart_server
<1> DEFINE x == ManagerStop(WorldOf(k, srv[s]))
           vv == [srv EXCEPT ![s] = x.s]
           l == ManagerStart(WorldOf(x.k, vv[s]), tok)
<1>2. /\ s \in Servers /\ srv[s].exists /\ World(s) = WorldOf(k, srv[s]) /\ WorldOK(k, srv)
      /\ srv \in [Servers -> Server]
  BY <1>1, RegisteredFacts
<1>3. /\ IsWorld(x) /\ SameServer(srv[s], x.s) /\ WorldOK(x.k, vv)
      /\ srv[s].task = NoTask /\ srv[s].endpoint = MACH_PORT_NULL => Restored(k, x.k)
  BY <1>2, StopKeeps
<1> HIDE DEF x
<1>4. vv[s] = x.s /\ WorldOf(x.k, vv[s]) = x
  BY <1>2, <1>3 DEF WorldOf, IsWorld
<1>5. vv[s].exists /\ IsWorld(WorldOf(x.k, vv[s]))
  BY <1>2, <1>3, <1>4 DEF SameServer
<1>6. [vv EXCEPT ![s] = l.w.s] = [srv EXCEPT ![s] = l.w.s]
  <2> DEFINE n == l.w.s
  <2> HIDE DEF n
  <2>1. [vv EXCEPT ![s] = n] = [srv EXCEPT ![s] = n]
    BY <1>2
  <2> QED  BY <2>1 DEF n
<1>7. Started(s, l)
  BY <1>1, <1>2, <1>4 DEF x
<1> HIDE DEF vv
<1>8. /\ SameServer(vv[s], l.w.s) /\ WorldOK(l.w.k, [vv EXCEPT ![s] = l.w.s])
      /\ l.w.s.state = "FAILED" => Restored(x.k, l.w.k)
  BY <1>2, <1>3, <1>5, StartKeeps
<1>9. l.ok \in BOOLEAN
  BY <1>5, StartOutcome
<1> HIDE DEF l
<1>10. CountersOK' /\ Becomes(s, l.w)
  BY <1>1, <1>2, <1>7, <1>9, StartedCounters
<1>11. WorldOK(l.w.k, [srv EXCEPT ![s] = l.w.s]) /\ SameServer(srv[s], l.w.s)
  BY <1>3, <1>4, <1>6, <1>8 DEF SameServer
<1>12. CASE l.w.s.state = "FAILED"
  <2>1. srv[s].task = NoTask /\ srv[s].endpoint = MACH_PORT_NULL => Restored(k, l.w.k)
    BY <1>3, <1>8, <1>12 DEF Restored
  <2> QED  BY <1>1, <1>10, <1>11, <2>1, OneServer
<1>13. CASE l.w.s.state # "FAILED"
  BY <1>1, <1>10, <1>11, <1>13, OneServer
<1> QED  BY <1>12, <1>13

\* A structure that is allocated anew, with no port and no task.
LEMMA NewServerOK ==
    ASSUME NEW name \in ServerNames, NEW path \in BOOLEAN,
           NEW main \in {"none", "registered"}, main # "none" => ~path
    PROVE  LET n == NewServer(name, path, main)
           IN  /\ n \in Server /\ n.exists /\ n.name = name /\ n.path = path
               /\ n.main = main /\ n.task = NoTask /\ n.endpoint = MACH_PORT_NULL
               /\ n.mgmt_port = MACH_PORT_NULL /\ n.state = "STOPPED"
<1>1. ZeroServer \in [exists : BOOLEAN, name : {""}, state : {"STOPPED"}, task : {NoTask},
                      thread : BOOLEAN, endpoint : {MACH_PORT_NULL},
                      mgmt_port : {MACH_PORT_NULL}, path : BOOLEAN, main : {"none"}]
  BY DEF ZeroServer
<1> DEFINE z == ZeroServer
<1> HIDE DEF z
<1>2. z \in [exists : BOOLEAN, name : {""}, state : {"STOPPED"}, task : {NoTask},
             thread : BOOLEAN, endpoint : {MACH_PORT_NULL},
             mgmt_port : {MACH_PORT_NULL}, path : BOOLEAN, main : {"none"}]
  BY <1>1 DEF z
<1> DEFINE n == [z EXCEPT !.exists = TRUE, !.name = name, !.path = path, !.main = main]
<1>3. NewServer(name, path, main) = n
  BY DEF NewServer, z
<1>4. /\ n \in [exists : BOOLEAN, name : ServerNames, state : {"STOPPED"}, task : {NoTask},
                thread : BOOLEAN, endpoint : {MACH_PORT_NULL}, mgmt_port : {MACH_PORT_NULL},
                path : BOOLEAN, main : {"none", "registered"}]
      /\ n.exists /\ n.name = name /\ n.path = path /\ n.main = main
  BY <1>2
<1> HIDE DEF n
<1>5. n \in Server
  BY <1>4, Basics DEF Server, States
<1> QED  BY <1>3, <1>4, <1>5

\* mx_server_init and mx_server_register: the world with the new structure.
LEMMA NewServerKeeps ==
    ASSUME IInv, NEW name \in ServerNames, NEW path \in BOOLEAN,
           NEW main \in {"none", "registered"}, main # "none" => ~path, CanRegister(name)
    PROVE  LET vv == [srv EXCEPT ![Allocated] = NewServer(name, path, main)]
           IN  /\ WorldOK(k, vv) /\ RegistryOK(vv, <<Allocated>> \o _registry)
               /\ Allocated \in Servers /\ vv[Allocated] = NewServer(name, path, main)
               /\ srv[Allocated].task = NoTask /\ srv[Allocated].endpoint = MACH_PORT_NULL
               /\ srv \in [Servers -> Server]
<1> DEFINE s == Allocated
           n == NewServer(name, path, main)
           vv == [srv EXCEPT ![s] = n]
<1>1. s \in Servers /\ ~srv[s].exists
  BY AllocatedOK DEF IInv
<1> HIDE DEF s
<1>2. WorldOK(k, srv) /\ RegistryOK(srv, _registry) /\ srv \in [Servers -> Server]
      /\ srv[s] = ZeroServer /\ KernelOK(k)
  BY <1>1 DEF IInv, WorldOK, StructsOK
<1>3. srv[s].task = NoTask /\ srv[s].endpoint = MACH_PORT_NULL
      /\ srv[s].mgmt_port = MACH_PORT_NULL
  <2>1. /\ ZeroServer.task = NoTask /\ ZeroServer.endpoint = MACH_PORT_NULL
        /\ ZeroServer.mgmt_port = MACH_PORT_NULL
    BY DEF ZeroServer
  <2> QED  BY <1>2, <2>1
<1>4. /\ n \in Server /\ n.exists /\ n.name = name /\ n.path = path
      /\ n.main = main /\ n.task = NoTask /\ n.endpoint = MACH_PORT_NULL
      /\ n.mgmt_port = MACH_PORT_NULL /\ n.state = "STOPPED"
  BY NewServerOK
<1> HIDE DEF n
<1>5. Kept(k, srv[s], n)
  BY <1>3, <1>4 DEF Kept, Running
<1>6. PortsOf(n) = {}
  BY <1>4 DEF PortsOf
<1>7. Lost(k, k, {}, {})
  BY <1>2 DEF Lost
<1>8. WorldOK(k, vv)
  BY <1>1, <1>2, <1>4, <1>5, <1>6, <1>7, ShrinkKeeps
<1>9. \A i \in DOMAIN _registry : srv[_registry[i]].name # name
  BY DEF CanRegister, ByName, Registered
<1>10. RegistryOK(vv, <<s>> \o _registry)
  BY <1>1, <1>2, <1>4, <1>9, RegisterOK DEF CanRegister
<1> QED  BY <1>1, <1>2, <1>3, <1>8, <1>10 DEF s, n

LEMMA StepBootstrapStart ==
    ASSUME IInv, NEW name \in ServerNames, NEW path \in BOOLEAN, NEW tok \in BOOLEAN,
           mx_bootstrap_start_server(name, path, tok)
    PROVE  IInv' /\ Restores
<1> DEFINE s == Allocated
           n == NewServer(name, path, "none")
           vv == [srv EXCEPT ![s] = n]
           l == ManagerStart(WorldOf(k, vv[s]), tok)
<1>1. /\ CanRegister(name) /\ _registry' = <<s>> \o _registry /\ UNCHANGED sent
      /\ Started(s, ManagerStart([k |-> k, s |-> n], tok))
  BY DEF mx_bootstrap_start_server
<1>2. /\ WorldOK(k, vv) /\ RegistryOK(vv, <<s>> \o _registry)
      /\ s \in Servers /\ vv[s] = n
      /\ srv[s].task = NoTask /\ srv[s].endpoint = MACH_PORT_NULL
      /\ srv \in [Servers -> Server]
  BY <1>1, NewServerKeeps
<1>3. n \in Server /\ n.exists
  BY NewServerOK
<1>4. Started(s, l)
  BY <1>1, <1>2 DEF WorldOf
<1>5. [vv EXCEPT ![s] = l.w.s] = [srv EXCEPT ![s] = l.w.s]
  <2> DEFINE m == l.w.s
  <2> HIDE DEF m, n, s
  <2>1. [vv EXCEPT ![s] = m] = [srv EXCEPT ![s] = m]
    BY <1>2
  <2> QED  BY <2>1 DEF m
<1>6. vv \in [Servers -> Server] /\ IsWorld(WorldOf(k, vv[s]))
  <2> HIDE DEF vv
  <2>1. IsWorld(WorldOf(k, vv[s]))
    BY <1>2, WorldFacts
  <2> QED  BY <1>2, <2>1 DEF WorldOK, StructsOK
<1> HIDE DEF s, n, vv
<1>7. /\ SameServer(vv[s], l.w.s) /\ WorldOK(l.w.k, [vv EXCEPT ![s] = l.w.s])
      /\ l.w.s.state = "FAILED" => Restored(k, l.w.k)
  BY <1>2, <1>3, StartKeeps
<1>8. l.ok \in BOOLEAN
  BY <1>6, StartOutcome
<1> HIDE DEF l
<1>9. CountersOK' /\ Becomes(s, l.w)
  BY <1>1, <1>2, <1>4, <1>8, StartedCounters
<1>10. k' = l.w.k /\ srv' = [srv EXCEPT ![s] = l.w.s]
  BY <1>9 DEF Becomes
<1>11. RegistryOK(srv', _registry')
  <2>1. RegistryOK([vv EXCEPT ![s] = l.w.s], <<s>> \o _registry)
    BY <1>2, <1>6, <1>7, RegistryKept
  <2> QED  BY <1>1, <1>5, <1>10, <2>1
<1>12. WorldOK(k', srv')
  BY <1>5, <1>7, <1>10
<1>13. ASSUME NEW d \in Servers, srv[d].state # "FAILED", srv'[d].state = "FAILED"
       PROVE  k'.ports = k.ports /\ InUseTasks(k') = InUseTasks(k) /\ k'.count = k.count
  <2>1. d = s /\ l.w.s.state = "FAILED"
    BY <1>2, <1>10, <1>13
  <2> QED  BY <1>7, <1>10, <2>1 DEF Restored
<1> QED  BY <1>9, <1>11, <1>12, <1>13 DEF IInv, Restores

\* One stop of the shutdown.
StopNext(v, s) ==
    LET w == ManagerStop([k |-> v.k, s |-> v.srv[s]])
    IN  [k |-> w.k, srv |-> [v.srv EXCEPT ![s] = w.s]]

\* f[i] is what is left of the world z when the first i servers of the
\* registry g have been stopped.
AreStops(f, z, g) ==
    f = [i \in 0 .. Len(g) |-> IF i = 0 THEN z ELSE StopNext(f[i - 1], g[i])]

LEMMA StopsExist ==
    ASSUME NEW z, NEW g, Len(g) \in Nat
    PROVE  \E f : AreStops(f, z, g)
<1> DEFINE N == Len(g)
           Good(f, i) == f[i] = IF i = 0 THEN z ELSE StopNext(f[i - 1], g[i])
           UpTo(f, n) == f = [i \in 0 .. N |-> f[i]] /\ \A i \in 0 .. n : Good(f, i)
           K == {n \in 0 .. N : \E f : UpTo(f, n)}
<1>1. 0 \in K
  <2> DEFINE f == [i \in 0 .. N |-> z]
  <2>1. N \in Nat /\ 0 \in 0 .. N
    OBVIOUS
  <2> HIDE DEF N
  <2>2. f = [i \in 0 .. N |-> f[i]] /\ f[0] = z
    BY <2>1
  <2>3. \A i \in 0 .. 0 : Good(f, i)
    BY <2>2
  <2>4. UpTo(f, 0)
    BY <2>2, <2>3
  <2> HIDE DEF UpTo, f
  <2> QED  BY <2>1, <2>4
<1>2. ASSUME NEW n \in K, n # N PROVE n + 1 \in K
  <2>1. n \in 0 .. N - 1 /\ \E f : UpTo(f, n)
    BY <1>2
  <2>2. PICK f : UpTo(f, n)
    BY <2>1
  <2> DEFINE v == StopNext(f[n], g[n + 1])
             h == [f EXCEPT ![n + 1] = v]
  <2>3. N \in Nat /\ n + 1 \in 1 .. N /\ f = [i \in 0 .. N |-> f[i]] /\ \A i \in 0 .. n : Good(f, i)
    BY <2>1, <2>2, SMTT(30)
  <2> HIDE DEF v, N
  <2>4. /\ h[n + 1] = v /\ \A i \in 0 .. N : i # n + 1 => h[i] = f[i]
        /\ h = [i \in 0 .. N |-> h[i]]
    BY <2>3, SMTT(30)
  <2> HIDE DEF h
  <2>5. ASSUME NEW i \in 0 .. n PROVE Good(h, i)
    <3>1. i \in 0 .. N /\ i # n + 1 /\ (i # 0 => i - 1 \in 0 .. N /\ i - 1 # n + 1)
      BY <2>1, <2>3
    <3>2. h[i] = f[i] /\ (i # 0 => h[i - 1] = f[i - 1]) /\ Good(f, i)
      BY <2>3, <2>4, <3>1
    <3> QED  BY <3>2
  <2>6. Good(h, n + 1)
    <3>1. n \in 0 .. N /\ n # n + 1 /\ n + 1 # 0 /\ (n + 1) - 1 = n
      BY <2>1, <2>3
    <3>2. h[n] = f[n]
      BY <2>4, <3>1
    <3> QED  BY <2>4, <3>1, <3>2 DEF v
  <2>7. \A i \in 0 .. n + 1 : i \in 0 .. n \/ i = n + 1
    BY <2>1
  <2>8. n + 1 \in 0 .. N
    BY <2>3
  <2>9. UpTo(h, n + 1)
    <3>1. h = [i \in 0 .. N |-> h[i]]
      BY <2>4
    <3> HIDE DEF Good
    <3>2. \A i \in 0 .. n + 1 : Good(h, i)
      BY <2>5, <2>6, <2>7
    <3> QED  BY <3>1, <3>2
  <2> HIDE DEF UpTo
  <2> QED  BY <2>8, <2>9
<1>3. N \in K
  <2> HIDE DEF K
  <2>1. K \in SUBSET (0 .. N) /\ K # {} /\ N \in Nat
    BY <1>1 DEF K
  <2>2. PICK n \in K : \A m \in K : m <= n
    BY <2>1, GreatestElement
  <2>3. n = N
    BY <1>2, <2>1, <2>2
  <2> QED  BY <2>3
<1>4. PICK f : UpTo(f, N)
  BY <1>3
<1>5. AreStops(f, z, g)
  BY <1>4 DEF AreStops
<1> QED  BY <1>5

LEMMA StoppingSteps ==
    ASSUME Len(_registry) \in Nat
    PROVE  /\ Stopping[0] = [k |-> k, srv |-> srv]
           /\ \A i \in 1 .. Len(_registry) :
                 Stopping[i] = StopNext(Stopping[i - 1], _registry[i])
<1> DEFINE z == [k |-> k, srv |-> srv]
           f == CHOOSE x : AreStops(x, z, _registry)
<1>1. AreStops(f, z, _registry)
  BY StopsExist
<1>2. Stopping = f
  BY DEF Stopping, AreStops, StopNext
<1> HIDE DEF f
<1>3. f[0] = z /\ \A i \in 1 .. Len(_registry) : f[i] = StopNext(f[i - 1], _registry[i])
  BY <1>1 DEF AreStops
<1> QED  BY <1>2, <1>3

\* mx_manager_shutdown: the invariant after each stop.
LEMMA StepShutdown ==
    ASSUME IInv, mx_manager_shutdown
    PROVE  IInv' /\ Restores
<1> DEFINE g == _registry
           N == Len(g)
           V(i) == Stopping[i]
           Good(i) == /\ WorldOK(V(i).k, V(i).srv) /\ RegistryOK(V(i).srv, g)
                      /\ \A s \in Servers : V(i).srv[s].state = "FAILED"
                                                => srv[s].state = "FAILED"
           B == {i \in 0 .. N : ~Good(i)}
<1>1. /\ g \in Seq(Servers) /\ N \in Nat /\ DOMAIN g = 1 .. N
      /\ RegistryOK(srv, g) /\ WorldOK(k, srv)
  BY DEF IInv, RegistryOK
<1>2. /\ V(0) = [k |-> k, srv |-> srv]
      /\ \A i \in 1 .. N : V(i) = StopNext(V(i - 1), g[i])
  BY <1>1, StoppingSteps
<1> HIDE DEF V, N, g
<1>3. Good(0)
  BY <1>1, <1>2
<1>4. ASSUME NEW i \in 1 .. N, Good(i - 1) PROVE Good(i)
  <2> DEFINE s == g[i]
             vv == V(i - 1).srv
             kk == V(i - 1).k
             x == ManagerStop(WorldOf(kk, vv[s]))
  <2>1. s \in Servers /\ WorldOK(kk, vv) /\ RegistryOK(vv, g) /\ i \in DOMAIN g
    BY <1>1, <1>4
  <2>2. vv[s].exists /\ vv \in [Servers -> Server]
    BY <2>1 DEF RegistryOK, WorldOK, StructsOK
  <2>3. V(i) = [k |-> x.k, srv |-> [vv EXCEPT ![s] = x.s]]
    BY <1>2 DEF StopNext, WorldOf
  <2>4. \A d \in Servers : vv[d].state = "FAILED" => srv[d].state = "FAILED"
    BY <1>4
  <2> HIDE DEF vv, kk, s
  <2>5. /\ SameServer(vv[s], x.s) /\ x.s.state = "STOPPED"
        /\ WorldOK(x.k, [vv EXCEPT ![s] = x.s])
    BY <2>1, <2>2, StopKeeps
  <2> HIDE DEF x
  <2>6. RegistryOK([vv EXCEPT ![s] = x.s], g)
    BY <2>1, <2>2, <2>5, RegistryKept
  <2>7. ASSUME NEW d \in Servers, [vv EXCEPT ![s] = x.s][d].state = "FAILED"
        PROVE  srv[d].state = "FAILED"
    BY <2>2, <2>4, <2>5, <2>7
  <2> QED  BY <2>3, <2>5, <2>6, <2>7
<1>5. Good(N)
  <2> SUFFICES ASSUME B # {} PROVE FALSE
    BY <1>1
  <2>1. B \in SUBSET Nat
    OBVIOUS
  <2> HIDE DEF B
  <2>2. PICK i \in B : \A j \in B : i <= j
    BY <2>1, LeastElement
  <2>3. i \in 0 .. N /\ ~Good(i)
    BY <2>2 DEF B
  <2>4. i # 0
    BY <1>3, <2>3
  <2>5. i \in 1 .. N /\ i - 1 \in 0 .. N /\ i - 1 \notin B
    BY <1>1, <2>1, <2>2, <2>3, <2>4
  <2>6. Good(i - 1)
    BY <2>5 DEF B
  <2> HIDE DEF Good
  <2> QED  BY <1>4, <2>3, <2>5, <2>6
<1>6. /\ k' = V(N).k /\ srv' = V(N).srv /\ UNCHANGED <<_registry, waiting, waited, sent>>
  BY DEF mx_manager_shutdown, V, N, g
<1>7. CountersOK'
  BY <1>6 DEF IInv, CountersOK
<1>8. IInv'
  BY <1>5, <1>6, <1>7 DEF IInv, g
<1>9. Restores
  BY <1>5, <1>6, NoNewFailure
<1> QED  BY <1>8, <1>9

\* A change of the state, the progress of the main program or the thread.
LEMMA FlagsKeep ==
    ASSUME IInv, NEW s \in Registered, NEW n \in Server,
           n.exists = srv[s].exists, n.name = srv[s].name, n.path = srv[s].path,
           n.task = srv[s].task, n.endpoint = srv[s].endpoint,
           n.mgmt_port = srv[s].mgmt_port,
           n.main # "none" => ~n.path, n.state # "STOPPED",
           n.state \in Running /\ n.main = "none" =>
              srv[s].state \in Running /\ srv[s].main = "none"
    PROVE  WorldOK(k, [srv EXCEPT ![s] = n]) /\ RegistryOK([srv EXCEPT ![s] = n], _registry)
<1>1. /\ s \in Servers /\ srv[s].exists /\ srv \in [Servers -> Server] /\ WorldOK(k, srv)
      /\ RegistryOK(srv, _registry) /\ KernelOK(k) /\ (~srv[s].path => srv[s].task = NoTask)
  BY RegisteredFacts DEF IInv, WorldOK, StructsOK
<1>2. n.state \in Running /\ n.main = "none" =>
          /\ n.task # NoTask /\ n.endpoint # MACH_PORT_NULL
          /\ k.tasks[n.task].bootstrap_port = n.endpoint
  BY <1>1 DEF WorldOK, RunsOK
<1>3. Kept(k, srv[s], n)
  BY <1>1, <1>2 DEF Kept
<1>4. Lost(k, k, {}, {})
  BY <1>1 DEF Lost
<1>5. WorldOK(k, [srv EXCEPT ![s] = n])
  BY <1>1, <1>3, <1>4, ShrinkKeeps
<1>6. RegistryOK([srv EXCEPT ![s] = n], _registry)
  BY <1>1, RegistryNamed
<1> QED  BY <1>5, <1>6

LEMMA StepPanic ==
    ASSUME IInv, NEW s, _cmd_panic(s)
    PROVE  IInv' /\ Restores
<1> DEFINE n == [srv[s] EXCEPT !.state = "PANIC"]
<1>1. /\ s \in Registered /\ srv' = [srv EXCEPT ![s].state = "PANIC"]
      /\ UNCHANGED <<k, _registry, waiting, waited, sent>>
  BY DEF _cmd_panic
<1>2. srv[s] \in Server /\ srv \in [Servers -> Server] /\ s \in Servers
      /\ (srv[s].main # "none" => ~srv[s].path)
  BY <1>1, RegisteredFacts, WorldFacts
<1>3. /\ n \in Server /\ n.exists = srv[s].exists /\ n.name = srv[s].name
      /\ n.path = srv[s].path /\ n.task = srv[s].task /\ n.endpoint = srv[s].endpoint
      /\ n.mgmt_port = srv[s].mgmt_port /\ n.main = srv[s].main /\ n.state = "PANIC"
  BY <1>2 DEF Server, States
<1>4. srv' = [srv EXCEPT ![s] = n]
  BY <1>1
<1> HIDE DEF n
<1>5. WorldOK(k, [srv EXCEPT ![s] = n]) /\ RegistryOK([srv EXCEPT ![s] = n], _registry)
  BY <1>1, <1>2, <1>3, FlagsKeep DEF Running
<1>6. CountersOK'
  BY <1>1 DEF IInv, CountersOK
<1>7. IInv'
  BY <1>1, <1>4, <1>5, <1>6 DEF IInv
<1>8. \A d \in Servers : srv'[d].state = "FAILED" => srv[d].state = "FAILED"
  BY <1>2, <1>3, <1>4
<1> QED  BY <1>7, <1>8, NoNewFailure

LEMMA StepSetReady ==
    ASSUME IInv, NEW s, SetReady(s)
    PROVE  IInv' /\ Restores
<1> DEFINE n == [srv[s] EXCEPT !.state = "READY"]
<1>1. /\ s \in Registered /\ srv' = [srv EXCEPT ![s].state = "READY"]
      /\ srv[s].state = "STARTING" /\ UNCHANGED <<k, _registry, waiting, waited, sent>>
  BY DEF SetReady
<1>2. srv[s] \in Server /\ srv \in [Servers -> Server] /\ s \in Servers
      /\ (srv[s].main # "none" => ~srv[s].path)
  BY <1>1, RegisteredFacts, WorldFacts
<1>3. /\ n \in Server /\ n.exists = srv[s].exists /\ n.name = srv[s].name
      /\ n.path = srv[s].path /\ n.task = srv[s].task /\ n.endpoint = srv[s].endpoint
      /\ n.mgmt_port = srv[s].mgmt_port /\ n.main = srv[s].main /\ n.state = "READY"
  BY <1>2 DEF Server, States
<1>4. srv' = [srv EXCEPT ![s] = n]
  BY <1>1
<1> HIDE DEF n
<1>5. WorldOK(k, [srv EXCEPT ![s] = n]) /\ RegistryOK([srv EXCEPT ![s] = n], _registry)
  BY <1>1, <1>2, <1>3, FlagsKeep DEF Running
<1>6. CountersOK'
  BY <1>1 DEF IInv, CountersOK
<1>7. IInv'
  BY <1>1, <1>4, <1>5, <1>6 DEF IInv
<1>8. \A d \in Servers : srv'[d].state = "FAILED" => srv[d].state = "FAILED"
  BY <1>2, <1>3, <1>4
<1> QED  BY <1>7, <1>8, NoNewFailure

LEMMA StepWait ==
    ASSUME IInv, mx_loader_wait_ready
    PROVE  IInv' /\ Restores
<1>1. UNCHANGED <<k, srv, _registry, sent>>
  BY DEF mx_loader_wait_ready
<1>2. CountersOK'
  BY ServersAssumption DEF IInv, CountersOK, mx_loader_wait_ready
<1>3. IInv'
  BY <1>1, <1>2 DEF IInv
<1>4. \A d \in Servers : srv'[d].state = "FAILED" => srv[d].state = "FAILED"
  BY <1>1
<1> QED  BY <1>3, <1>4, NoNewFailure
\* A changed kernel value that keeps the registry and the structures.
LEMMA RegisteredIs ==
    ASSUME IInv, NEW s \in Servers
    PROVE  s \in Registered <=> srv[s].exists
  BY DEF IInv, RegistryOK, Registered

LEMMA StateOnly ==
    ASSUME NEW v, v \in Server, NEW state \in States
    PROVE  LET n == [v EXCEPT !.state = state]
           IN  /\ n \in Server /\ n.exists = v.exists /\ n.name = v.name
               /\ n.path = v.path /\ n.task = v.task /\ n.endpoint = v.endpoint
               /\ n.mgmt_port = v.mgmt_port /\ n.main = v.main /\ n.state = state
  BY DEF Server

LEMMA StepSetWaiting ==
    ASSUME IInv, NEW s \in Servers, SetWaiting(s)
    PROVE  IInv' /\ Restores
<1> DEFINE st == IF srv[s].state = "READY" THEN "WAITING" ELSE "READY"
           n == [srv[s] EXCEPT !.state = st]
<1>1. /\ srv' = [srv EXCEPT ![s].state = st]
      /\ srv[s].state \in {"READY", "WAITING"}
      /\ UNCHANGED <<k, _registry, waiting, waited, sent>>
  BY DEF SetWaiting
<1>2. WorldOK(k, srv)
  BY DEF IInv
<1>3. srv[s] \in Server /\ srv \in [Servers -> Server]
      /\ (srv[s].main # "none" => ~srv[s].path)
  BY <1>2 DEF WorldOK, StructsOK
<1>4. s \in Registered
  <2>1. ZeroServer.state = "STOPPED"
    BY DEF ZeroServer
  <2>2. srv[s].exists
    BY <1>1, <1>2, <2>1 DEF WorldOK, StructsOK
  <2> QED  BY <2>2, RegisteredIs
<1>5. st \in {"READY", "WAITING"} /\ st \in States
  BY DEF States
<1> HIDE DEF st
<1>6. /\ n \in Server /\ n.exists = srv[s].exists /\ n.name = srv[s].name
      /\ n.path = srv[s].path /\ n.task = srv[s].task /\ n.endpoint = srv[s].endpoint
      /\ n.mgmt_port = srv[s].mgmt_port /\ n.main = srv[s].main /\ n.state = st
  BY <1>3, <1>5, StateOnly
<1>7. srv' = [srv EXCEPT ![s] = n]
  BY <1>1
<1> HIDE DEF n
<1>8. WorldOK(k, [srv EXCEPT ![s] = n]) /\ RegistryOK([srv EXCEPT ![s] = n], _registry)
  BY <1>1, <1>3, <1>4, <1>5, <1>6, FlagsKeep DEF Running
<1>9. CountersOK'
  BY <1>1 DEF IInv, CountersOK
<1>10. IInv'
  BY <1>1, <1>7, <1>8, <1>9 DEF IInv
<1>11. \A d \in Servers : srv'[d].state = "FAILED" => srv[d].state = "FAILED"
  BY <1>3, <1>5, <1>6, <1>7
<1> QED  BY <1>10, <1>11, NoNewFailure

LEMMA StepRegisterSelf ==
    ASSUME IInv, NEW name \in ServerNames, RegisterSelf(name)
    PROVE  IInv' /\ Restores
<1> DEFINE n == NewServer(name, FALSE, "registered")
           vv == [srv EXCEPT ![Allocated] = n]
<1>1. /\ CanRegister(name) /\ srv' = vv /\ _registry' = <<Allocated>> \o _registry
      /\ UNCHANGED <<k, waiting, waited, sent>>
  BY DEF RegisterSelf
<1>2. /\ WorldOK(k, vv) /\ RegistryOK(vv, <<Allocated>> \o _registry)
      /\ Allocated \in Servers /\ srv \in [Servers -> Server]
  BY <1>1, NewServerKeeps
<1>3. n.state = "STOPPED"
  BY NewServerOK
<1>4. CountersOK'
  BY <1>1 DEF IInv, CountersOK
<1> HIDE DEF n
<1>5. \A d \in Servers : srv'[d].state = "FAILED" => srv[d].state = "FAILED"
  BY <1>1, <1>2, <1>3
<1> HIDE DEF vv
<1>6. IInv'
  BY <1>1, <1>2, <1>4 DEF IInv
<1> QED  BY <1>5, <1>6, NoNewFailure

\* The cleared structure.
LEMMA ZeroOK ==
    /\ ZeroServer \in Server /\ ZeroServer.state = "STOPPED" /\ ZeroServer.task = NoTask
    /\ ZeroServer.endpoint = MACH_PORT_NULL /\ ZeroServer.mgmt_port = MACH_PORT_NULL
    /\ ZeroServer.main = "none"
<1>1. ZeroServer \in [exists : BOOLEAN, name : {""}, state : {"STOPPED"}, task : {NoTask},
                      thread : BOOLEAN, endpoint : {MACH_PORT_NULL},
                      mgmt_port : {MACH_PORT_NULL}, path : BOOLEAN, main : {"none"}]
  BY DEF ZeroServer
<1> DEFINE z == ZeroServer
<1> HIDE DEF z
<1>2. z \in [exists : BOOLEAN, name : {""}, state : {"STOPPED"}, task : {NoTask},
             thread : BOOLEAN, endpoint : {MACH_PORT_NULL},
             mgmt_port : {MACH_PORT_NULL}, path : BOOLEAN, main : {"none"}]
  BY <1>1 DEF z
<1>3. /\ z.state = "STOPPED" /\ z.task = NoTask /\ z.endpoint = MACH_PORT_NULL
      /\ z.mgmt_port = MACH_PORT_NULL /\ z.main = "none"
  BY <1>2
<1>4. z \in Server
  BY <1>2, Basics DEF Server, States
<1> QED  BY <1>3, <1>4 DEF z

\* A structure of the main program is given back, with the ports C it had.
LEMMA GivenBack ==
    ASSUME IInv, NEW s \in Registered, srv[s].main # "none", NEW rr,
           Lost(k, rr, {srv[s].endpoint, srv[s].mgmt_port}, {}),
           k' = rr, srv' = [srv EXCEPT ![s] = ZeroServer], _registry' = Without(s),
           UNCHANGED <<waiting, waited, sent>>
    PROVE  IInv' /\ Restores
<1> DEFINE C == {srv[s].endpoint, srv[s].mgmt_port}
<1>1. s \in Servers /\ srv \in [Servers -> Server] /\ WorldOK(k, srv) /\ RegistryOK(srv, _registry)
  BY RegisteredFacts DEF IInv
<1>2. srv[s].task = NoTask
  BY <1>1, WorldFacts
<1>3. /\ \A t \in InUseTasks(k) \ {KernelTask} : k.tasks[t].bootstrap_port \notin C
      /\ \A d \in Servers \ {s} : PortsOf(srv[d]) \cap C = {}
  <2>1. InUseTasks(k) \subseteq TaskIds
    BY DEF InUseTasks, TaskIds
  <2>2. ASSUME NEW t \in InUseTasks(k) \ {KernelTask}
        PROVE  k.tasks[t].bootstrap_port \notin C
    <3>1. t # srv[s].task
      BY <1>2, <2>1, Basics
    <3>2. /\ k.tasks[t].bootstrap_port \notin PortsOf(srv[s])
          /\ k.tasks[t].bootstrap_port # MACH_PORT_NULL
      BY <1>1, <3>1, OnlyOwn
    <3> QED  BY <3>2 DEF PortsOf
  <2>3. ASSUME NEW d \in Servers \ {s}
        PROVE  PortsOf(srv[d]) \cap C = {}
    <3>1. PortsOf(srv[d]) \cap PortsOf(srv[s]) = {} /\ MACH_PORT_NULL \notin PortsOf(srv[d])
      BY <1>1, OnlyOwn
    <3> QED  BY <3>1 DEF PortsOf
  <2> QED  BY <2>2, <2>3
<1>4. InUseTasks(rr) = InUseTasks(k)
  BY DEF Lost
<1>5. /\ ZeroServer \in Server /\ ZeroServer.state = "STOPPED" /\ ZeroServer.task = NoTask
      /\ ZeroServer.endpoint = MACH_PORT_NULL /\ ZeroServer.mgmt_port = MACH_PORT_NULL
      /\ ZeroServer.main = "none"
  BY ZeroOK
<1>6. Kept(rr, srv[s], ZeroServer) /\ PortsOf(ZeroServer) = {}
  <2>1. "STOPPED" \notin Running
    BY DEF Running
  <2>2. PortsOf(ZeroServer) = {}
    BY <1>5 DEF PortsOf
  <2>3. ZeroServer.path = FALSE
    BY DEF ZeroServer
  <2> QED  BY <1>5, <2>1, <2>2, <2>3 DEF Kept
<1>7. WorldOK(rr, [srv EXCEPT ![s] = ZeroServer])
  <2>1. \A t \in InUseTasks(rr) \ {KernelTask} : k.tasks[t].bootstrap_port \notin C
    BY <1>3, <1>4
  <2>2. PortsOf(ZeroServer) \cap C = {} /\ {} \subseteq {srv[s].task} /\ ZeroServer.task \notin {}
    BY <1>6
  <2> QED  BY <1>1, <1>3, <1>6, <2>1, <2>2, ShrinkKeeps
<1>8. RegistryOK([srv EXCEPT ![s] = ZeroServer], Without(s))
  BY <1>1, UnregisterOK
<1>9. CountersOK'
  BY DEF IInv, CountersOK
<1>10. IInv'
  BY <1>7, <1>8, <1>9 DEF IInv
<1>11. \A d \in Servers : srv'[d].state = "FAILED" => srv[d].state = "FAILED"
  BY <1>1, <1>5
<1> QED  BY <1>10, <1>11, NoNewFailure

LEMMA StepSelfExit ==
    ASSUME IInv, NEW s, SelfExit(s)
    PROVE  IInv' /\ Restores
<1>1. /\ s \in Registered /\ srv[s].main # "none"
      /\ k' = EndpointDestroy(World(s)).k /\ srv' = [srv EXCEPT ![s] = ZeroServer]
      /\ _registry' = Without(s) /\ UNCHANGED <<waiting, waited, sent>>
  BY DEF SelfExit
<1>2. /\ s \in Servers /\ World(s) = WorldOf(k, srv[s]) /\ WorldOK(k, srv)
  BY <1>1, RegisteredFacts
<1>3. /\ IsWorld(World(s)) /\ World(s).k = k /\ World(s).s = srv[s]
      /\ KernelPorts \cap {srv[s].endpoint, srv[s].mgmt_port} = {}
  BY <1>2, WorldFacts
<1>4. Lost(k, EndpointDestroy(World(s)).k, {srv[s].endpoint, srv[s].mgmt_port}, {})
  BY <1>3, EndpointsGone
<1> QED  BY <1>1, <1>4, GivenBack

-----------------------------------------------------------------------------
(* Messages *)

\* A port space on the names L in which every message is where it belongs.
SpaceOK(L, q, vv) ==
    /\ q \in [L -> Seq(Messages)]
    /\ \A s \in Servers : vv[s].endpoint \in L =>
          \A i \in DOMAIN q[vv[s].endpoint] :
              LET m == q[vv[s].endpoint][i]
              IN  m.type # "REPLY" => m.to = s

\* m may be queued on p.
Belongs(m, p, L, vv) ==
    \A s \in Servers : vv[s].endpoint = p /\ p \in L => (m.type # "REPLY" => m.to = s)

LEMMA SpaceNow ==
    ASSUME NEW kk, NEW vv, WorldOK(kk, vv)
    PROVE  SpaceOK(Live(kk.ports), kk.ports, vv)
<1>1. kk.ports \in [Live(kk.ports) -> Seq(Messages)] /\ MACH_PORT_NULL \notin Live(kk.ports)
  BY Basics DEF WorldOK, KernelOK, IsKernel, Live
<1> QED  BY <1>1 DEF WorldOK, DeliveredOK, SpaceOK

LEMMA SpaceKeeps ==
    ASSUME NEW kk, NEW vv, WorldOK(kk, vv), NEW q, SpaceOK(Live(kk.ports), q, vv)
    PROVE  WorldOK([kk EXCEPT !.ports = q], vv)
<1> DEFINE rr == [kk EXCEPT !.ports = q]
<1>1. kk = [ports |-> kk.ports, tasks |-> kk.tasks, count |-> kk.count]
  BY KernelSpace DEF WorldOK
<1>2. rr.ports = q
  BY <1>1
<1>3. q \in [Live(kk.ports) -> Seq(Messages)]
  BY DEF SpaceOK
<1>4. \A s \in Servers : vv[s].endpoint # MACH_PORT_NULL => vv[s].endpoint \in Live(kk.ports)
  BY DEF WorldOK, PortsOK2, PortsOf
<1> HIDE DEF rr
<1>5. DeliveredOK(rr, vv)
  BY <1>2, <1>4 DEF DeliveredOK, SpaceOK
<1> QED  BY <1>3, <1>5, MessagesKeep DEF rr

LEMMA SendSpace ==
    ASSUME NEW L, NEW q, NEW vv, SpaceOK(L, q, vv), NEW m \in Messages, NEW p,
           Belongs(m, p, L, vv)
    PROVE  SpaceOK(L, SendResult(q, p, m).space, vv)
<1>1. q \in [L -> Seq(Messages)] /\ DOMAIN q = L
  BY DEF SpaceOK
<1>2. CASE p \in L /\ Accepts(q, p)
  <2> DEFINE r == Sent(q, p, m)
             z == Append(q[p], m)
  <2>1. SendResult(q, p, m).space = r
    BY <1>1, <1>2 DEF SendResult
  <2>2. /\ z \in Seq(Messages) /\ Len(z) = Len(q[p]) + 1 /\ Len(q[p]) \in Nat
        /\ \A i \in 1 .. Len(q[p]) : z[i] = q[p][i]
        /\ z[Len(q[p]) + 1] = m
    BY <1>1, <1>2
  <2>3. r \in [L -> Seq(Messages)] /\ r[p] = z /\ \A x \in L : x # p => r[x] = q[x]
    BY <1>1, <1>2, <2>2 DEF Sent
  <2> HIDE DEF r, z
  <2>4. ASSUME NEW s \in Servers, vv[s].endpoint \in L, NEW i \in DOMAIN r[vv[s].endpoint]
        PROVE  r[vv[s].endpoint][i].type # "REPLY" => r[vv[s].endpoint][i].to = s
    <3>1. CASE vv[s].endpoint = p
      <4>1. r[vv[s].endpoint] = z /\ i \in 1 .. Len(q[p]) + 1
        BY <2>2, <2>3, <2>4, <3>1
      <4>2. CASE i = Len(q[p]) + 1
        BY <2>2, <2>4, <3>1, <4>1, <4>2 DEF Belongs
      <4>3. CASE i # Len(q[p]) + 1
        <5>1. i \in 1 .. Len(q[p]) /\ i \in DOMAIN q[p]
          BY <1>1, <1>2, <2>2, <4>1, <4>3
        <5> QED  BY <2>2, <2>4, <3>1, <4>1, <5>1 DEF SpaceOK
      <4> QED  BY <4>2, <4>3
    <3>2. CASE vv[s].endpoint # p
      BY <2>3, <2>4, <3>2 DEF SpaceOK
    <3> QED  BY <3>1, <3>2
  <2> QED  BY <2>1, <2>3, <2>4 DEF SpaceOK
<1>3. CASE ~(p \in L /\ Accepts(q, p))
  <2>1. SendResult(q, p, m).space = q
    BY <1>1, <1>3 DEF SendResult, Accepts
  <2> QED  BY <2>1
<1> QED  BY <1>2, <1>3

LEMMA TakeSpace ==
    ASSUME NEW L, NEW q, NEW vv, SpaceOK(L, q, vv), NEW p \in L, q[p] # <<>>
    PROVE  SpaceOK(L, Taken(q, p), vv) /\ Head(q[p]) \in Messages
<1> DEFINE r == Taken(q, p)
           z == Tail(q[p])
<1>1. q \in [L -> Seq(Messages)] /\ q[p] \in Seq(Messages)
  BY DEF SpaceOK
<1>2. /\ z \in Seq(Messages) /\ Len(z) = Len(q[p]) - 1 /\ Len(q[p]) \in Nat
      /\ \A i \in 1 .. Len(z) : z[i] = q[p][i + 1]
      /\ Head(q[p]) \in Messages /\ Len(q[p]) > 0
  BY <1>1
<1>3. r \in [L -> Seq(Messages)] /\ r[p] = z /\ \A x \in L : x # p => r[x] = q[x]
  BY <1>1, <1>2 DEF Taken
<1> HIDE DEF r, z
<1>4. ASSUME NEW s \in Servers, vv[s].endpoint \in L, NEW i \in DOMAIN r[vv[s].endpoint]
      PROVE  r[vv[s].endpoint][i].type # "REPLY" => r[vv[s].endpoint][i].to = s
  <2>1. CASE vv[s].endpoint = p
    <3>1. i \in 1 .. Len(z) /\ r[vv[s].endpoint][i] = q[p][i + 1] /\ i + 1 \in DOMAIN q[p]
      BY <1>1, <1>2, <1>3, <1>4, <2>1
    <3> QED  BY <1>4, <2>1, <3>1 DEF SpaceOK
  <2>2. CASE vv[s].endpoint # p
    BY <1>3, <1>4, <2>2 DEF SpaceOK
  <2> QED  BY <2>1, <2>2
<1> QED  BY <1>2, <1>3, <1>4 DEF SpaceOK, r

\* The messages of server/ipc.c as they lie in a queue.
LEMMA MessageOK ==
    ASSUME NEW type \in {"REQUEST", "NOTIFY", "ASYNC", "REPLY"}, NEW sender,
           NEW to \in Servers \cup {NoServer}
    PROVE  /\ OnWire(Message(type, sender, to)) \in Messages
           /\ OnWire(Message(type, sender, to)).type = type
           /\ OnWire(Message(type, sender, to)).to = to
<1> DEFINE m == [type |-> type, sender |-> sender, to |-> to]
<1>1. OnWire(Message(type, sender, to)) = [m EXCEPT !.sender = MX_MSG_SIZE]
  BY DEF OnWire, Message
<1>2. [m EXCEPT !.sender = MX_MSG_SIZE] = [type |-> type, sender |-> MX_MSG_SIZE, to |-> to]
  OBVIOUS
<1>3. MX_MSG_SIZE \in Nat
  BY DEF MX_MSG_SIZE
<1> QED  BY <1>1, <1>2, <1>3 DEF Messages

\* mx_server_set_state and the announcement on the management port, which is
\* no server's endpoint.
LEMMA StepSelfReady ==
    ASSUME IInv, NEW s, SelfReady(s)
    PROVE  IInv' /\ Restores
<1> DEFINE n == [srv[s] EXCEPT !.state = "READY", !.main = "serving"]
           vv == [srv EXCEPT ![s] = n]
           m == ReadyMessage(s)
           q == SendResult(k.ports, srv[s].mgmt_port, m).space
<1>1. /\ s \in Registered /\ srv[s].main = "endpoints" /\ k' = [k EXCEPT !.ports = q]
      /\ srv' = [srv EXCEPT ![s].state = "READY", ![s].main = "serving"]
      /\ UNCHANGED <<_registry, waiting, waited, sent>>
  BY DEF SelfReady
<1>2. srv[s] \in Server /\ srv \in [Servers -> Server] /\ s \in Servers
      /\ (srv[s].main # "none" => ~srv[s].path) /\ WorldOK(k, srv)
  BY <1>1, RegisteredFacts, WorldFacts
<1>3. /\ n \in Server /\ n.exists = srv[s].exists /\ n.name = srv[s].name
      /\ n.path = srv[s].path /\ n.task = srv[s].task /\ n.endpoint = srv[s].endpoint
      /\ n.mgmt_port = srv[s].mgmt_port /\ n.main = "serving" /\ n.state = "READY"
  BY <1>2 DEF Server, States
<1>4. srv' = vv
  BY <1>1, <1>2
<1>5. \A d \in Servers : d # s => vv[d] = srv[d]
  BY <1>2
<1>6. vv[s] = n
  BY <1>2
<1> HIDE DEF n
<1>7. WorldOK(k, vv) /\ RegistryOK(vv, _registry)
  BY <1>1, <1>2, <1>3, FlagsKeep DEF Running
<1> HIDE DEF vv, m, q
<1>8. m \in Messages /\ m.to = s
  BY <1>2, MessageOK DEF m, ReadyMessage
<1>9. Belongs(m, srv[s].mgmt_port, Live(k.ports), vv)
  <2>1. ASSUME NEW d \in Servers, vv[d].endpoint = srv[s].mgmt_port,
               srv[s].mgmt_port \in Live(k.ports)
        PROVE  d = s
    <3>1. srv[s].mgmt_port # MACH_PORT_NULL
      BY <1>2, <2>1, KernelSpace, Basics DEF WorldOK, IsSpace
    <3>2. srv[s].mgmt_port \in PortsOf(vv[d]) /\ srv[s].mgmt_port \in PortsOf(vv[s])
      BY <1>3, <1>6, <2>1, <3>1 DEF PortsOf
    <3> QED  BY <1>2, <1>7, <2>1, <3>2 DEF WorldOK, PortsOK2
  <2> QED  BY <1>8, <2>1 DEF Belongs
<1>10. SpaceOK(Live(k.ports), k.ports, vv)
  BY <1>7, SpaceNow
<1>11. SpaceOK(Live(k.ports), q, vv)
  BY <1>8, <1>9, <1>10, SendSpace DEF q
<1>12. WorldOK([k EXCEPT !.ports = q], vv)
  BY <1>7, <1>11, SpaceKeeps
<1>13. CountersOK'
  BY <1>1 DEF IInv, CountersOK
<1>14. IInv'
  BY <1>1, <1>4, <1>7, <1>12, <1>13 DEF IInv
<1>15. \A d \in Servers : srv'[d].state = "FAILED" => srv[d].state = "FAILED"
  BY <1>3, <1>4, <1>5, <1>6
<1> QED  BY <1>14, <1>15, NoNewFailure

LEMMA StepSelfEndpoints ==
    ASSUME IInv, NEW s, SelfEndpoints(s)
    PROVE  IInv' /\ Restores
<1> DEFINE w == World(s)
           e == EndpointCreate(w)
           x == e.w
           n == [x.s EXCEPT !.main = "endpoints"]
<1>1. /\ s \in Registered /\ srv[s].main = "registered"
      /\ UNCHANGED <<waiting, waited, sent>>
      /\ IF e.ok THEN Becomes(s, [x EXCEPT !.s.main = "endpoints"]) /\ UNCHANGED _registry
         ELSE /\ k' = e.w.k /\ srv' = [srv EXCEPT ![s] = ZeroServer]
              /\ _registry' = Without(s)
  BY DEF SelfEndpoints
<1>2. /\ s \in Servers /\ w = WorldOf(k, srv[s]) /\ WorldOK(k, srv) /\ srv[s].exists
      /\ srv \in [Servers -> Server] /\ RegistryOK(srv, _registry)
  BY <1>1, RegisteredFacts DEF IInv
<1>3. /\ IsWorld(w) /\ w.k = k /\ w.s = srv[s] /\ srv[s].task = NoTask
      /\ (srv[s].main # "none" => ~srv[s].path)
  BY <1>1, <1>2, WorldFacts
<1>4. CountersOK'
  BY <1>1 DEF IInv, CountersOK
<1> HIDE DEF w
<1>5. \/ e.ok = FALSE /\ e.w = w
      \/ e.ok = TRUE /\ WithEndpoints(w, e.w)
  BY <1>3, EndpointsMade
<1> HIDE DEF e
<1>6. CASE e.ok = FALSE
  <2>1. k' = k /\ srv' = [srv EXCEPT ![s] = ZeroServer] /\ _registry' = Without(s)
    BY <1>1, <1>3, <1>5, <1>6
  <2>2. WorldOK(k, [srv EXCEPT ![s] = ZeroServer])
    <3>1. Lost(k, k, {}, {})
      BY <1>2 DEF Lost, WorldOK
    <3>2. Kept(k, srv[s], ZeroServer) /\ ZeroServer.task = NoTask
      <4>1. "STOPPED" \notin Running
        BY DEF Running
      <4>2. ZeroServer.path = FALSE
        BY DEF ZeroServer
      <4> QED  BY ZeroOK, <4>1, <4>2 DEF Kept
    <3> QED  BY <1>2, <3>1, <3>2, ShrinkKeeps
  <2>3. RegistryOK([srv EXCEPT ![s] = ZeroServer], Without(s))
    BY <1>1, <1>2, UnregisterOK
  <2>4. IInv'
    BY <1>4, <2>1, <2>2, <2>3 DEF IInv
  <2>5. \A d \in Servers : srv'[d].state = "FAILED" => srv[d].state = "FAILED"
    BY <1>2, <2>1, ZeroOK
  <2> QED  BY <2>4, <2>5, NoNewFailure
<1>7. CASE e.ok = TRUE
  <2>1. WithEndpoints(w, x) /\ Becomes(s, [x EXCEPT !.s.main = "endpoints"])
        /\ UNCHANGED _registry
    BY <1>1, <1>5, <1>7
  <2> HIDE DEF x
  <2>2. /\ x = [k |-> x.k, s |-> x.s] /\ x.s \in Server /\ SameServer(srv[s], x.s)
        /\ x.s.state = srv[s].state /\ x.s.task = NoTask
        /\ x.s.endpoint # x.s.mgmt_port
        /\ Gained(k, x.k, {x.s.endpoint, x.s.mgmt_port}, {})
    BY <1>3, <2>1 DEF WithEndpoints, IsWorld
  <2>3. [x EXCEPT !.s.main = "endpoints"] = [k |-> x.k, s |-> n]
    BY <2>2
  <2>4. k' = x.k /\ srv' = [srv EXCEPT ![s] = n]
    <3> HIDE DEF n
    <3> QED  BY <2>1, <2>3 DEF Becomes
  <2>5. /\ n \in Server /\ n.exists = x.s.exists /\ n.name = x.s.name
        /\ n.path = x.s.path /\ n.task = x.s.task /\ n.endpoint = x.s.endpoint
        /\ n.mgmt_port = x.s.mgmt_port /\ n.main = "endpoints" /\ n.state = x.s.state
    BY <2>2 DEF Server
  <2> HIDE DEF n
  <2>6. Renewed(x.k, srv[s], n, {x.s.endpoint, x.s.mgmt_port}, {})
    BY <1>1, <1>2, <1>3, <2>2, <2>5 DEF Renewed, SameServer
  <2>7. WorldOK(x.k, [srv EXCEPT ![s] = n])
    BY <1>2, <2>2, <2>6, GrowthKeeps
  <2>8. RegistryOK([srv EXCEPT ![s] = n], _registry)
    <3>1. n.exists = srv[s].exists /\ n.name = srv[s].name
      BY <2>2, <2>5 DEF SameServer
    <3> QED  BY <1>2, <3>1, RegistryNamed
  <2>9. IInv'
    BY <1>4, <2>1, <2>4, <2>7, <2>8 DEF IInv
  <2>10. \A d \in Servers : srv'[d].state = "FAILED" => srv[d].state = "FAILED"
    BY <1>2, <2>2, <2>4, <2>5
  <2> QED  BY <2>9, <2>10, NoNewFailure
<1> QED  BY <1>5, <1>6, <1>7

\* An endpoint that is live belongs to one server.
LEMMA OneEndpoint ==
    ASSUME NEW kk, NEW vv, WorldOK(kk, vv), NEW s \in Servers, NEW d \in Servers,
           vv[s].endpoint \in Live(kk.ports), vv[d].endpoint = vv[s].endpoint
    PROVE  s = d
<1>1. MACH_PORT_NULL \notin Live(kk.ports)
  BY KernelSpace, Basics DEF WorldOK, IsSpace
<1>2. vv[s].endpoint \in PortsOf(vv[s]) /\ vv[s].endpoint \in PortsOf(vv[d])
  BY <1>1 DEF PortsOf
<1> QED  BY <1>2 DEF WorldOK, PortsOK2

\* A message meant for s may lie on its endpoint.
LEMMA MeantFor ==
    ASSUME IInv, NEW s \in Servers, NEW m, m.to = s
    PROVE  Belongs(m, srv[s].endpoint, Live(k.ports), srv)
<1>1. WorldOK(k, srv)
  BY DEF IInv
<1> QED  BY <1>1, OneEndpoint DEF Belongs

\* A message call, with a port space in which messages are where they belong.
LEMMA CallKeeps ==
    ASSUME IInv, NEW q, Call(q), SpaceOK(Live(k.ports), q, srv)
    PROVE  IInv' /\ Restores
<1>1. /\ sent < MaxSent /\ sent' = sent + 1 /\ k' = [k EXCEPT !.ports = q]
      /\ UNCHANGED <<srv, _registry, waiting, waited>>
  BY DEF Call
<1>2. WorldOK([k EXCEPT !.ports = q], srv)
  BY SpaceKeeps DEF IInv
<1>3. CountersOK'
  BY <1>1, ServersAssumption DEF IInv, CountersOK
<1>4. IInv'
  BY <1>1, <1>2, <1>3 DEF IInv
<1>5. \A d \in Servers : srv'[d].state = "FAILED" => srv[d].state = "FAILED"
  BY <1>1
<1> QED  BY <1>4, <1>5, NoNewFailure

\* mx_server_send
LEMMA SendToSpace ==
    ASSUME IInv, NEW s \in Servers, NEW type \in {"REQUEST", "NOTIFY", "ASYNC"}, NEW sender
    PROVE  LET r == SendTo(s, Message(type, sender, s))
           IN  /\ SpaceOK(Live(k.ports), r.space, srv)
               /\ r.kr = "KERN_SUCCESS" =>
                     srv[s].endpoint \in Live(k.ports) /\ r.space[srv[s].endpoint] # <<>>
<1> DEFINE m == Message(type, sender, s)
           x == OnWire(m)
           p == srv[s].endpoint
           q == k.ports
           L == Live(q)
           r == SendTo(s, m)
<1>1. x \in Messages /\ x.to = s
  BY MessageOK
<1>2. SpaceOK(L, q, srv)
  BY SpaceNow DEF IInv
<1> HIDE DEF x, m
<1>3. Belongs(x, p, L, srv)
  BY <1>1, MeantFor
<1>4. SpaceOK(L, SendResult(q, p, x).space, srv)
  BY <1>1, <1>2, <1>3, SendSpace
<1>5. r \in {[space |-> q, kr |-> "KERN_NOT_RECEIVER"],
             [space |-> q, kr |-> "KERN_INVALID_OBJECT"],
             [space |-> q, kr |-> "KERN_INVALID_ARGUMENT"],
             SendResult(q, p, x)}
  BY DEF SendTo, x
<1>6. SendResult(q, p, x).kr = "KERN_SUCCESS" =>
         p \in L /\ SendResult(q, p, x).space[p] # <<>>
  <2>1. ASSUME SendResult(q, p, x).kr = "KERN_SUCCESS"
        PROVE  p \in L /\ SendResult(q, p, x).space = Sent(q, p, x)
    BY <2>1 DEF SendResult, Live, Accepts
  <2>2. ASSUME p \in L PROVE Sent(q, p, x)[p] # <<>>
    <3>1. q \in [L -> Seq(Messages)]
      BY <1>2 DEF SpaceOK
    <3>2. q[p] \in Seq(Messages) /\ Sent(q, p, x)[p] = Append(q[p], x)
      BY <2>2, <3>1 DEF Sent
    <3> QED  BY <1>1, <3>2
  <2> QED  BY <2>1, <2>2
<1> HIDE DEF r, q, p, L
<1>7. /\ SpaceOK(L, r.space, srv)
      /\ r.kr = "KERN_SUCCESS" => p \in L /\ r.space[p] # <<>>
  BY <1>2, <1>4, <1>5, <1>6
<1> QED  BY <1>7 DEF r, q, p, L, m

LEMMA StepSend ==
    ASSUME IInv, NEW from, NEW s, mx_server_send(from, s)
    PROVE  IInv' /\ Restores
<1>1. s \in Registered /\ Call(SendTo(s, Message("REQUEST", srv[from].endpoint, s)).space)
  BY DEF mx_server_send
<1>2. SpaceOK(Live(k.ports), SendTo(s, Message("REQUEST", srv[from].endpoint, s)).space, srv)
  BY <1>1, RegisteredFacts, SendToSpace
<1> QED  BY <1>1, <1>2, CallKeeps

LEMMA StepNotify ==
    ASSUME IInv, NEW s, mx_server_notify(s)
    PROVE  IInv' /\ Restores
<1>1. s \in Registered /\ Call(SendTo(s, Message("NOTIFY", MACH_PORT_NULL, s)).space)
  BY DEF mx_server_notify
<1>2. SpaceOK(Live(k.ports), SendTo(s, Message("NOTIFY", MACH_PORT_NULL, s)).space, srv)
  BY <1>1, RegisteredFacts, SendToSpace
<1> QED  BY <1>1, <1>2, CallKeeps

LEMMA StepRpc ==
    ASSUME IInv, NEW from, NEW s, mx_server_rpc(from, s)
    PROVE  IInv' /\ Restores
<1> DEFINE r == SendTo(s, Message("REQUEST", srv[from].endpoint, s))
           q == IF r.kr = "KERN_SUCCESS" THEN Taken(r.space, srv[s].endpoint) ELSE r.space
<1>1. s \in Registered /\ Call(q)
  BY DEF mx_server_rpc
<1>2. /\ SpaceOK(Live(k.ports), r.space, srv)
      /\ r.kr = "KERN_SUCCESS" =>
            srv[s].endpoint \in Live(k.ports) /\ r.space[srv[s].endpoint] # <<>>
  BY <1>1, RegisteredFacts, SendToSpace
<1> HIDE DEF r
<1>3. SpaceOK(Live(k.ports), q, srv)
  BY <1>2, TakeSpace
<1> HIDE DEF q
<1> QED  BY <1>1, <1>3, CallKeeps

LEMMA AppendMeant ==
    ASSUME NEW a \in Seq(Messages), NEW y \in Messages, NEW d, y.to = d,
           \A j \in DOMAIN a : a[j].type # "REPLY" => a[j].to = d,
           NEW z, z = Append(a, y), NEW i \in DOMAIN z
    PROVE  z[i].type # "REPLY" => z[i].to = d
<1>1. z \in Seq(Messages) /\ Len(z) = Len(a) + 1 /\ Len(a) \in Nat
      /\ (\A j \in 1 .. Len(a) : z[j] = a[j]) /\ z[Len(a) + 1] = y
  OBVIOUS
<1>2. i \in 1 .. Len(a) + 1
  BY <1>1
<1>3. CASE i = Len(a) + 1
  BY <1>1, <1>3
<1>4. CASE i # Len(a) + 1
  <2>1. i \in 1 .. Len(a) /\ i \in DOMAIN a
    BY <1>1, <1>2, <1>4
  <2> QED  BY <1>1, <2>1
<1> QED  BY <1>3, <1>4

\* A copy for every server that takes it: each on that server's endpoint.
LEMMA StepBroadcast ==
    ASSUME IInv, NEW from, NEW M, mx_server_broadcast(from, M)
    PROVE  IInv' /\ Restores
<1> DEFINE m(s) == Message("ASYNC", srv[from].endpoint, s)
           L == Live(k.ports)
           ok == {s \in M \cap Registered :
                     srv[s].state = "READY" /\ SendTo(s, m(s)).kr = "KERN_SUCCESS"}
           on(p) == \E s \in ok : srv[s].endpoint = p
           the(p) == CHOOSE s \in ok : srv[s].endpoint = p
           x(p) == OnWire(m(the(p)))
           q == [p \in L |-> IF on(p) THEN Append(k.ports[p], x(p)) ELSE k.ports[p]]
<1>1. Call(q)
  BY DEF mx_server_broadcast
<1>2. \A p : on(p) => the(p) \in ok /\ srv[the(p)].endpoint = p
  OBVIOUS
<1>3. ok \subseteq Servers
  BY RegisteredFacts
<1> HIDE DEF ok, the, on
<1>4. \A p : on(p) => x(p) \in Messages /\ x(p).to = the(p) /\ the(p) \in Servers
                      /\ srv[the(p)].endpoint = p
  BY <1>2, <1>3, MessageOK
<1> HIDE DEF m, x
<1>5. WorldOK(k, srv)
  BY DEF IInv
<1>6. SpaceOK(L, k.ports, srv)
  BY <1>5, SpaceNow
<1>7. k.ports \in [L -> Seq(Messages)]
  BY <1>6 DEF SpaceOK
<1> HIDE DEF L
<1>8. \A p \in L : q[p] = IF on(p) THEN Append(k.ports[p], x(p)) ELSE k.ports[p]
  OBVIOUS
<1>9. q \in [L -> Seq(Messages)]
  BY <1>4, <1>7
<1> HIDE DEF q
<1>10. ASSUME NEW d \in Servers, srv[d].endpoint \in L, NEW i \in DOMAIN q[srv[d].endpoint],
              q[srv[d].endpoint][i].type # "REPLY"
       PROVE  q[srv[d].endpoint][i].to = d
  <2> DEFINE p == srv[d].endpoint
  <2>1. \A j \in DOMAIN k.ports[p] : k.ports[p][j].type # "REPLY" => k.ports[p][j].to = d
    BY <1>6, <1>10 DEF SpaceOK
  <2>2. CASE ~on(p)
    BY <1>8, <1>10, <2>1, <2>2
  <2>3. CASE on(p)
    <3>1. the(p) = d
      BY <1>4, <1>5, <1>10, <2>3, OneEndpoint DEF L
    <3> DEFINE y == x(p)
               a == k.ports[p]
    <3>2. q[p] = Append(a, y) /\ y.to = d /\ a \in Seq(Messages) /\ y \in Messages
      BY <1>4, <1>7, <1>8, <1>10, <2>3, <3>1
    <3> HIDE DEF y, a
    <3>3. \A j \in DOMAIN a : a[j].type # "REPLY" => a[j].to = d
      BY <2>1 DEF a
    <3>4. i \in DOMAIN q[p]
      BY <1>10
    <3> QED  BY <1>10, <3>2, <3>3, <3>4, AppendMeant
  <2> QED  BY <2>2, <2>3
<1>11. SpaceOK(L, q, srv)
  BY <1>9, <1>10 DEF SpaceOK
<1> QED  BY <1>1, <1>11, CallKeeps DEF L

\* A request is taken and the answer queued.
LEMMA StepReply ==
    ASSUME IInv, NEW s, mx_server_reply(s)
    PROVE  IInv' /\ Restores
<1> DEFINE ep == srv[s].endpoint
           L == Live(k.ports)
           m == Head(k.ports[ep])
           q == Taken(k.ports, ep)
           kernels == {d \in ByName("kernel") : srv[d].endpoint # MACH_PORT_NULL}
           dest == srv[CHOOSE d \in kernels : TRUE].endpoint
           x == OnWire(Message("REPLY", m.sender, NoServer))
           z == IF kernels = {} THEN q ELSE SendResult(q, dest, x).space
<1>1. /\ s \in Registered /\ HasMessage(k.ports, ep) /\ k' = [k EXCEPT !.ports = z]
      /\ UNCHANGED <<srv, _registry, waiting, waited, sent>>
  BY DEF mx_server_reply
<1>2. WorldOK(k, srv)
  BY DEF IInv
<1>3. SpaceOK(L, k.ports, srv)
  BY <1>2, SpaceNow
<1>4. ep \in L /\ k.ports[ep] # <<>>
  BY <1>1 DEF HasMessage, Live
<1>5. SpaceOK(L, q, srv)
  BY <1>3, <1>4, TakeSpace
<1>6. x \in Messages /\ x.type = "REPLY"
  BY MessageOK
<1> HIDE DEF x, dest, kernels, q, L
<1>7. Belongs(x, dest, L, srv)
  BY <1>6 DEF Belongs
<1>8. SpaceOK(L, SendResult(q, dest, x).space, srv)
  BY <1>5, <1>6, <1>7, SendSpace
<1>9. SpaceOK(L, z, srv)
  BY <1>5, <1>8
<1> HIDE DEF z
<1>10. WorldOK([k EXCEPT !.ports = z], srv)
  BY <1>2, <1>9, SpaceKeeps DEF L
<1>11. CountersOK'
  BY <1>1 DEF IInv, CountersOK
<1>12. IInv'
  BY <1>1, <1>10, <1>11 DEF IInv
<1>13. \A d \in Servers : srv'[d].state = "FAILED" => srv[d].state = "FAILED"
  BY <1>1
<1> QED  BY <1>12, <1>13, NoNewFailure

\* Every endpoint loses its oldest message.
LEMMA StepPoll ==
    ASSUME IInv, mx_ipc_poll
    PROVE  IInv' /\ Restores
<1> DEFINE L == Live(k.ports)
           a == k.ports
           q == [p \in DOMAIN a |->
                   IF (\E s \in Registered : srv[s].endpoint = p) /\ a[p] # <<>>
                   THEN Tail(a[p]) ELSE a[p]]
<1>1. k' = [k EXCEPT !.ports = q] /\ UNCHANGED <<srv, _registry, waiting, waited, sent>>
  BY DEF mx_ipc_poll
<1>2. WorldOK(k, srv)
  BY DEF IInv
<1>3. SpaceOK(L, a, srv)
  BY <1>2, SpaceNow
<1>4. a \in [L -> Seq(Messages)] /\ DOMAIN a = L
  BY <1>3 DEF SpaceOK
<1>5. \A p \in L : q[p] = a[p] \/ (a[p] # <<>> /\ q[p] = Tail(a[p]))
  BY <1>4
<1>6. DOMAIN q = L /\ q = [p \in L |-> q[p]]
  BY <1>4
<1> HIDE DEF q, L, a
<1>7. ASSUME NEW p \in L
      PROVE  /\ q[p] \in Seq(Messages)
             /\ \A i \in DOMAIN q[p] : \E j \in DOMAIN a[p] : q[p][i] = a[p][j]
  <2>1. a[p] \in Seq(Messages)
    BY <1>4, <1>7
  <2>2. CASE q[p] = a[p]
    BY <2>1, <2>2
  <2>3. CASE a[p] # <<>> /\ q[p] = Tail(a[p])
    <3> DEFINE u == a[p]
               t == Tail(u)
    <3>1. t \in Seq(Messages) /\ Len(t) = Len(u) - 1 /\ Len(u) \in Nat
          /\ \A i \in 1 .. Len(t) : t[i] = u[i + 1]
      BY <2>1, <2>3
    <3>2. ASSUME NEW i \in DOMAIN t PROVE i + 1 \in DOMAIN u /\ t[i] = u[i + 1]
      BY <2>1, <3>1, <3>2
    <3> QED  BY <2>3, <3>1, <3>2
  <2> QED  BY <1>5, <1>7, <2>2, <2>3
<1>8. q \in [L -> Seq(Messages)]
  BY <1>6, <1>7
<1>9. SpaceOK(L, q, srv)
  BY <1>3, <1>7, <1>8 DEF SpaceOK
<1>10. WorldOK([k EXCEPT !.ports = q], srv)
  BY <1>2, <1>9, SpaceKeeps DEF L
<1>11. CountersOK'
  BY <1>1 DEF IInv, CountersOK
<1>12. IInv'
  BY <1>1, <1>10, <1>11 DEF IInv
<1>13. \A d \in Servers : srv'[d].state = "FAILED" => srv[d].state = "FAILED"
  BY <1>1
<1> QED  BY <1>12, <1>13, NoNewFailure
-----------------------------------------------------------------------------
(* Theorems *)

LEMMA InitOK == Init => IInv
<1> SUFFICES ASSUME Init PROVE IInv
  OBVIOUS
<1> DEFINE q == [p \in KernelPorts |-> <<>>]
<1>1. /\ k = TaskInit(q, ipc_bootstrap_port, KernelPid)
      /\ srv = [s \in Servers |-> ZeroServer] /\ _registry = <<>>
      /\ waiting = NoServer /\ waited = 0 /\ sent = 0
  BY DEF Init
<1>2. q \in [KernelPorts -> Seq(Messages)] /\ KernelPorts \subseteq Names
  <2>1. <<>> \in Seq(Messages)
    OBVIOUS
  <2> QED  BY <2>1, Basics
<1>3. /\ IsKernel(k) /\ InUseTasks(k) = {KernelTask} /\ k.ports = q
      /\ k.tasks[KernelTask].rights = <<>>
  <2>1. DOMAIN q \subseteq Names /\ ipc_bootstrap_port \in Names /\ KernelTask \in TaskIds
    BY <1>2, Basics DEF ipc_bootstrap_port, KernelPorts
  <2> HIDE DEF q
  <2> QED  BY <1>1, <2>1, TaskInitOK
<1> HIDE DEF q
<1>4. KernelOK(k)
  BY <1>2, <1>3 DEF KernelOK, Live
<1>5. \A s \in Servers : srv[s] = ZeroServer
  BY <1>1
<1>6. srv \in [Servers -> Server]
  BY <1>1, ZeroOK
<1> HIDE <1>1
<1>7. StructsOK(srv)
  <2>1. ZeroServer.main = "none" /\ ZeroServer.task = NoTask
    BY ZeroOK
  <2> HIDE <1>3
  <2> QED  BY <1>5, <1>6, <2>1 DEF StructsOK
<1>8. PortsOK2(k, srv)
  <2>1. PortsOf(ZeroServer) = {}
    BY ZeroOK DEF PortsOf
  <2> QED  BY <1>5, <2>1, ZeroOK DEF PortsOK2
<1>9. BootstrapsOK(k, srv)
  BY <1>3 DEF BootstrapsOK
<1>10. OwnersOK(k, srv)
  BY <1>5, ZeroOK DEF OwnersOK
<1>11. RunsOK(k, srv)
  <2>1. "STOPPED" \notin Running
    BY DEF Running
  <2> QED  BY <1>5, <2>1, ZeroOK DEF RunsOK
<1>12. DeliveredOK(k, srv)
  BY <1>5, ZeroOK DEF DeliveredOK
<1>13. RegistryOK(srv, _registry)
  <2>1. ZeroServer.exists = FALSE
    BY DEF ZeroServer
  <2>2. \A s \in Servers : srv[s].exists = FALSE
    BY <1>5, <2>1
  <2>3. _registry = <<>>
    BY <1>1
  <2> QED  BY <2>2, <2>3, ServersAssumption DEF RegistryOK
<1>14. CountersOK
  BY <1>1, ServersAssumption DEF CountersOK
<1> QED  BY <1>4, <1>7, <1>8, <1>9, <1>10, <1>11, <1>12, <1>13, <1>14 DEF IInv, WorldOK

\* Every step of the specification keeps the invariant, and the failed start
\* of a server that held nothing leaves nothing behind.
LEMMA StepOK ==
    ASSUME IInv, [Next]_vars
    PROVE  IInv' /\ Restores
<1>1. CASE Manage
  BY <1>1, StepBootstrapStart, StepStart, StepRestart, StepStop, StepPanic,
     StepShutdown, StepWait DEF Manage
<1>2. CASE ServerStep
  BY <1>2, StepRegisterSelf, StepSelfEndpoints, StepSetReady, StepSelfReady,
     StepSetWaiting, StepSelfExit DEF ServerStep
<1>3. CASE Messaging
  BY <1>3, StepSend, StepRpc, StepNotify, StepReply, StepBroadcast, StepPoll DEF Messaging
<1>4. CASE UNCHANGED vars
  <2>1. UNCHANGED <<k, srv, _registry, waiting, waited, sent>>
    BY <1>4 DEF vars
  <2>2. IInv'
    BY <2>1 DEF IInv, CountersOK
  <2>3. \A d \in Servers : srv'[d].state = "FAILED" => srv[d].state = "FAILED"
    BY <2>1
  <2> QED  BY <2>2, <2>3, NoNewFailure
<1> QED  BY <1>1, <1>2, <1>3, <1>4 DEF Next

\* The parts of the property, from the invariant.
LEMMA Consistent == IInv => ServersConsistent
<1> SUFFICES ASSUME IInv PROVE ServersConsistent
  OBVIOUS
<1>1. WorldOK(k, srv) /\ RegistryOK(srv, _registry) /\ CountersOK
  BY DEF IInv
<1>2. TypeOK
  BY <1>1 DEF WorldOK, StructsOK, RegistryOK, CountersOK, TypeOK
<1>3. Registered \subseteq Servers /\ \A i \in DOMAIN _registry : _registry[i] \in Servers
  BY <1>1 DEF RegistryOK, Registered
<1>4. RegistryUnique
  BY <1>1, <1>3 DEF RegistryOK, RegistryUnique
<1>5. \A s \in Servers : ServerPorts(s) \ {MACH_PORT_NULL} = PortsOf(srv[s])
  BY DEF ServerPorts, PortsOf
<1>6. RunningReachable
  <2> SUFFICES ASSUME NEW s \in Registered, srv[s].state \in Running
               PROVE  LET own == ServerPorts(s) \ {MACH_PORT_NULL}
                      IN  /\ own \subseteq Live(k.ports) \ KernelPorts
                          /\ \A d \in Registered \ {s} : own \cap ServerPorts(d) = {}
                          /\ srv[s].main = "none" =>
                                /\ Cardinality(own) = 2
                                /\ TaskLookup(k, srv[s].task)
                                /\ k.tasks[srv[s].task].bootstrap_port = srv[s].endpoint
    BY DEF RunningReachable
  <2> DEFINE own == ServerPorts(s) \ {MACH_PORT_NULL}
  <2>1. s \in Servers /\ own = PortsOf(srv[s])
    BY <1>3, <1>5
  <2>2. /\ PortsOf(srv[s]) \subseteq Live(k.ports) \ KernelPorts
        /\ \A d \in Servers \ {s} : PortsOf(srv[s]) \cap PortsOf(srv[d]) = {}
    BY <1>1, <2>1 DEF WorldOK, PortsOK2
  <2>3. \A d \in Registered \ {s} : own \cap ServerPorts(d) = {}
    BY <1>3, <1>5, <2>1, <2>2
  <2>4. ASSUME srv[s].main = "none"
        PROVE  /\ Cardinality(own) = 2
               /\ TaskLookup(k, srv[s].task)
               /\ k.tasks[srv[s].task].bootstrap_port = srv[s].endpoint
    <3>1. /\ srv[s].task # NoTask /\ srv[s].endpoint # MACH_PORT_NULL
          /\ k.tasks[srv[s].task].bootstrap_port = srv[s].endpoint
      BY <1>1, <2>1, <2>4 DEF WorldOK, RunsOK
    <3>2. srv[s].mgmt_port # MACH_PORT_NULL /\ srv[s].endpoint # srv[s].mgmt_port
      BY <1>1, <2>1, <3>1 DEF WorldOK, PortsOK2
    <3>3. own = {srv[s].endpoint, srv[s].mgmt_port}
      BY <2>1, <3>1, <3>2 DEF PortsOf
    <3>4. Cardinality(own) = 2
      <4>1. own = {srv[s].mgmt_port} \cup {srv[s].endpoint}
        BY <3>3
      <4>2. IsFiniteSet({srv[s].mgmt_port}) /\ Cardinality({srv[s].mgmt_port}) = 1
        BY FS_Singleton
      <4>3. srv[s].endpoint \notin {srv[s].mgmt_port}
        BY <3>2
      <4>4. Cardinality({srv[s].mgmt_port} \cup {srv[s].endpoint}) = 1 + 1
        BY <4>2, <4>3, FS_AddElement
      <4> QED  BY <4>1, <4>4
    <3>5. srv[s].task \in InUseTasks(k)
      BY <1>1, <2>1, <3>1 DEF WorldOK, OwnersOK
    <3> QED  BY <3>1, <3>4, <3>5 DEF TaskLookup, InUseTasks
  <2> QED  BY <2>1, <2>2, <2>3, <2>4
<1>7. TasksOwned
  <2>1. k.count = Cardinality(InUseTasks(k))
    BY <1>1 DEF WorldOK, KernelOK, IsKernel
  <2> QED  BY <1>1, <2>1 DEF WorldOK, OwnersOK, TasksOwned
<1>8. NoMisdelivery
  <2>1. MACH_PORT_NULL \notin Live(k.ports)
    BY <1>1, KernelSpace, Basics DEF WorldOK, IsSpace
  <2> QED  BY <1>1, <1>3, <2>1 DEF WorldOK, DeliveredOK, NoMisdelivery
<1> QED  BY <1>2, <1>4, <1>6, <1>7, <1>8 DEF ServersConsistent

\* Registry, servers, ports and tasks agree and no message is misdelivered
\* (registry.c, loader.c, manager.c, server/ipc.c), whatever the number of
\* servers, tasks, ports and messages.
THEOREM ServersInvariant == Spec => []ServersConsistent
<1>1. IInv /\ [Next]_vars => IInv'
  BY StepOK
<1> QED  BY InitOK, <1>1, Consistent, PTL DEF Spec

\* A start that fails in mx_loader_load takes back what it made (loader.c).
THEOREM FailedStartsRestore == Spec => FailedStartRestores
<1>1. IInv /\ [Next]_vars => IInv' /\ [Restores]_vars
  BY StepOK
<1>2. [][Restores]_vars => FailedStartRestores
  BY DEF Restores, FailedStartRestores
<1> QED  BY InitOK, <1>1, <1>2, PTL DEF Spec
=============================================================================
