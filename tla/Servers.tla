------------------------------- MODULE Servers -------------------------------
(***************************************************************************)
(* The server interface (server/): the registry of servers, their life     *)
(* cycle under the manager and the loader, and messages between them.      *)
(* Ports and tasks are those of PortOps and TaskOps.  A server is either   *)
(* loaded by the manager (it has a path) or runs the documented main       *)
(* program, which registers itself and makes its own endpoints.  Servers   *)
(* run beside the manager; the manager runs one command at a time.         *)
(***************************************************************************)
EXTENDS TaskOps

CONSTANTS Servers,        \* server structures that can be allocated
          ServerNames,
          MX_SERVER_MAX,  \* servers the registry takes
          WAIT_MAX,       \* polls of mx_loader_wait_ready before it gives up
          MaxSent         \* messages sent, replies aside (bound)

ASSUME ServersAssumption ==
    /\ MX_SERVER_MAX \in Nat /\ WAIT_MAX \in Nat
    /\ IsFiniteSet(Servers) /\ Cardinality(Servers) >= MX_SERVER_MAX
    /\ MaxSent \in Nat
    /\ MACH_PORT_TABLE_SIZE >= 3   \* the kernel made its ports before

VARIABLES k,          \* the kernel's ports and tasks
          srv,        \* server structures
          _registry,  \* registered servers, newest first
          waiting,    \* server mx_loader_wait_ready waits for, or NoServer
          waited,     \* its polls so far
          sent        \* messages sent so far

vars == <<k, srv, _registry, waiting, waited, sent>>

NoServer == "none"
NoTask == -1
ipc_bootstrap_port == 1
KernelPorts == {1, 2, 3}   \* bootstrap port and host ports

\* mx_server_init: after the memset.  main is how far the documented main
\* program has come with the structure, "none" for one the manager made.
ZeroServer == [exists |-> FALSE, name |-> "", state |-> "STOPPED",
               task |-> NoTask, thread |-> FALSE, endpoint |-> MACH_PORT_NULL,
               mgmt_port |-> MACH_PORT_NULL, path |-> FALSE, main |-> "none"]

Init == /\ k = TaskInit([p \in KernelPorts |-> <<>>], ipc_bootstrap_port, KernelPid)
        /\ srv = [s \in Servers |-> ZeroServer]
        /\ _registry = <<>>
        /\ waiting = NoServer /\ waited = 0
        /\ sent = 0

Registered == {_registry[i] : i \in DOMAIN _registry}
\* The structure calloc returns; any free one is as good as another.
Allocated == CHOOSE s \in Servers : ~srv[s].exists
ByName(name) == {s \in Registered : srv[s].name = name}
ManagerIdle == waiting = NoServer
Running == {"STARTING", "READY", "WAITING"}
-----------------------------------------------------------------------------
(* Loader operations on a world w: the kernel value k and one server s.    *)

\* mx_ipc_server_endpoint_create: both ports or none
EndpointCreate(w) ==
    LET q  == w.k.ports
        ep == FreshName(q)
        q1 == Opened(q, ep)
        mg == FreshName(q1)
    IN  IF Full(q) THEN [ok |-> FALSE, w |-> w]
        ELSE IF Full(q1) THEN [ok |-> FALSE, w |-> [w EXCEPT !.k.ports = Closed(q1, ep)]]
        ELSE [ok |-> TRUE,
              w |-> [w EXCEPT !.k.ports = Opened(q1, mg),
                              !.s.endpoint = ep, !.s.mgmt_port = mg]]

\* Mutant: the ports are destroyed and their names stay in the structure.
EndpointDestroyKeepNames(w) ==
    [w EXCEPT !.k.ports = Closed(Closed(@, w.s.endpoint), w.s.mgmt_port)]

EndpointDestroy(w) ==
    [w EXCEPT !.k.ports = Closed(Closed(@, w.s.endpoint), w.s.mgmt_port),
              !.s.endpoint = MACH_PORT_NULL, !.s.mgmt_port = MACH_PORT_NULL]

SetState(w, state) == [w EXCEPT !.s.state = state]

\* Mutant: the failure of the thread leaves the new task in its slot.
LoadLeavesTask(w, tok) ==
    LET e == EndpointCreate(SetState(w, "LOADING"))
        c == TaskCreate(e.w.k, TRUE)
        t == [e.w EXCEPT !.k = c.k, !.s.task = c.task]
    IN  CASE ~e.ok -> [ok |-> FALSE, w |-> SetState(e.w, "FAILED")]
          [] e.ok /\ c.kr # "KERN_SUCCESS" ->
                [ok |-> FALSE,
                 w |-> SetState(EndpointDestroy([e.w EXCEPT !.k = c.k]), "FAILED")]
          [] e.ok /\ c.kr = "KERN_SUCCESS" /\ ~(tok /\ CanCreateThread(c.k, c.task)) ->
                [ok |-> FALSE,
                 w |-> SetState(EndpointDestroy([t EXCEPT !.s.task = NoTask]), "FAILED")]
          [] OTHER -> [ok |-> TRUE, w |-> [t EXCEPT !.k = ThreadCreate(@, c.task),
                                                    !.s.thread = TRUE]]

\* mx_loader_load; tok is FALSE when no thread structure can be allocated.
Load(w, tok) ==
    LET e == EndpointCreate(SetState(w, "LOADING"))
        c == TaskCreate(e.w.k, TRUE)
        t == [e.w EXCEPT !.k = c.k, !.s.task = c.task]
    IN  CASE ~e.ok -> [ok |-> FALSE, w |-> SetState(e.w, "FAILED")]
          [] e.ok /\ c.kr # "KERN_SUCCESS" ->
                [ok |-> FALSE,
                 w |-> SetState(EndpointDestroy([e.w EXCEPT !.k = c.k]), "FAILED")]
          [] e.ok /\ c.kr = "KERN_SUCCESS" /\ ~(tok /\ CanCreateThread(c.k, c.task)) ->
                [ok |-> FALSE,
                 w |-> SetState(EndpointDestroy(
                          [t EXCEPT !.k = TaskTerminate(@, c.task), !.s.task = NoTask]),
                          "FAILED")]
          [] OTHER -> [ok |-> TRUE, w |-> [t EXCEPT !.k = ThreadCreate(@, c.task),
                                                    !.s.thread = TRUE]]

\* Mutant: the pointer to the task outlives the task.
UnloadKeepsTask(w) ==
    LET ended == IF w.s.task = NoTask THEN w
                 ELSE [w EXCEPT !.k = TaskTerminate(@, w.s.task)]
    IN  SetState(EndpointDestroy([ended EXCEPT !.s.thread = FALSE]), "STOPPED")

\* mx_loader_unload, with the mx_loader_stop it begins with: the tasks of
\* servers have no host process, so stopping only changes the state.
Unload(w) ==
    LET ended == IF w.s.task = NoTask THEN w
                 ELSE [w EXCEPT !.k = TaskTerminate(@, w.s.task), !.s.task = NoTask]
    IN  SetState(EndpointDestroy([ended EXCEPT !.s.thread = FALSE]), "STOPPED")

\* mx_loader_start: the task's bootstrap port is replaced by the endpoint.
LoaderStart(w) ==
    [w EXCEPT !.s.state = "STARTING",
              !.k.tasks[w.s.task].bootstrap_port = w.s.endpoint]

\* mx_manager_start_server up to its wait; ok tells whether it gets there.
ManagerStart(w, tok) ==
    LET l == IF w.s.path THEN Load(w, tok) ELSE [ok |-> TRUE, w |-> w]
    IN  CASE ~l.ok -> l
          [] l.ok /\ l.w.s.task = NoTask -> [ok |-> FALSE, w |-> Unload(l.w)]
          [] OTHER -> [ok |-> TRUE, w |-> LoaderStart(l.w)]

\* mx_manager_stop_server
ManagerStop(w) == IF w.s.state = "STOPPED" THEN w ELSE Unload(w)

World(s) == [k |-> k, s |-> srv[s]]
Becomes(s, w) == k' = w.k /\ srv' = [srv EXCEPT ![s] = w.s]
-----------------------------------------------------------------------------
(* Messages.  The header of a Mach message lies over an mx_message_t, and  *)
(* mach_msg_send stores the size where the sender was.  to, the server a   *)
(* message is meant for, is there for the properties only.                 *)

MX_MSG_SIZE == 24
Message(type, sender, to) == [type |-> type, sender |-> sender, to |-> to]
OnWire(m) == [m EXCEPT !.sender = MX_MSG_SIZE]
\* The announcement a server sends to its own management port.
ReadyMessage(s) == OnWire(Message("NOTIFY", MACH_PORT_NULL, s))
-----------------------------------------------------------------------------
(* Registry *)

NewServer(name, path, main) ==
    [ZeroServer EXCEPT !.exists = TRUE, !.name = name, !.path = path, !.main = main]

\* Mutant: the name is not looked up before the server is linked in.
CanRegisterAnyName(name) == Len(_registry) < MX_SERVER_MAX

\* The guards of mx_server_register.
CanRegister(name) == Len(_registry) < MX_SERVER_MAX /\ ByName(name) = {}

\* mx_server_init and mx_server_register, as the documented main program of
\* a server calls them.  A refused structure is given back.
RegisterSelf(name) ==
    /\ CanRegister(name)
    /\ srv' = [srv EXCEPT ![Allocated] = NewServer(name, FALSE, "registered")]
    /\ _registry' = <<Allocated>> \o _registry
    /\ UNCHANGED <<k, waiting, waited, sent>>

\* mx_server_unregister: the link to the first match is moved past it.
Place(s) == CHOOSE i \in DOMAIN _registry : _registry[i] = s
Without(s) == ShiftedDown(_registry, Place(s))

\* The main program goes on with its endpoints; without them it unregisters
\* and destroys its structure.
SelfEndpoints(s) ==
    /\ s \in Registered /\ srv[s].main = "registered"
    /\ LET e == EndpointCreate(World(s))
       IN  IF e.ok THEN /\ Becomes(s, [e.w EXCEPT !.s.main = "endpoints"])
                        /\ UNCHANGED _registry
           ELSE /\ k' = e.w.k
                /\ srv' = [srv EXCEPT ![s] = ZeroServer]
                /\ _registry' = Without(s)
    /\ UNCHANGED <<waiting, waited, sent>>

\* mx_server_set_state(server, MX_SERVER_READY) in a loaded server.
SetReady(s) ==
    /\ s \in Registered
    /\ srv[s].state = "STARTING"
    /\ srv' = [srv EXCEPT ![s].state = "READY"]
    /\ UNCHANGED <<k, _registry, waiting, waited, sent>>

\* The same call in the main program, which looks at nothing, and the
\* announcement on the management port, whose result it ignores.
SelfReady(s) ==
    /\ s \in Registered /\ srv[s].main = "endpoints"
    /\ srv' = [srv EXCEPT ![s].state = "READY", ![s].main = "serving"]
    /\ k' = [k EXCEPT !.ports =
                SendResult(@, srv[s].mgmt_port, ReadyMessage(s)).space]
    /\ UNCHANGED <<_registry, waiting, waited, sent>>

\* A server that waits for external events and comes back.
SetWaiting(s) ==
    /\ srv[s].state \in {"READY", "WAITING"}
    /\ srv' = [srv EXCEPT ![s].state = IF @ = "READY" THEN "WAITING" ELSE "READY"]
    /\ UNCHANGED <<k, _registry, waiting, waited, sent>>

\* The end of the main program: endpoints, registry, structure.  It does
\* not happen while the manager waits with a pointer to the structure.
SelfExit(s) ==
    /\ s \in Registered /\ srv[s].main # "none" /\ waiting # s
    /\ k' = EndpointDestroy(World(s)).k
    /\ srv' = [srv EXCEPT ![s] = ZeroServer]
    /\ _registry' = Without(s)
    /\ UNCHANGED <<waiting, waited, sent>>
-----------------------------------------------------------------------------
(* Manager *)

\* The manager waits for s when the start got that far.
Started(s, r) ==
    /\ Becomes(s, r.w)
    /\ waiting' = IF r.ok THEN s ELSE NoServer
    /\ waited' = 0

\* A name in use and a full registry are refused and leave nothing behind;
\* a start that fails leaves the server registered.
mx_bootstrap_start_server(name, path, tok) ==
    /\ ManagerIdle
    /\ CanRegister(name)
    /\ _registry' = <<Allocated>> \o _registry
    /\ Started(Allocated,
          ManagerStart([k |-> k, s |-> NewServer(name, path, "none")], tok))
    /\ UNCHANGED sent

mx_manager_start_server(s, tok) ==
    /\ ManagerIdle
    /\ s \in Registered
    /\ Started(s, ManagerStart(World(s), tok))
    /\ UNCHANGED <<_registry, sent>>

mx_manager_stop_server(s) ==
    /\ ManagerIdle
    /\ s \in Registered
    /\ Becomes(s, ManagerStop(World(s)))
    /\ UNCHANGED <<_registry, waiting, waited, sent>>

mx_manager_restart_server(s, tok) ==
    /\ ManagerIdle
    /\ s \in Registered
    /\ Started(s, ManagerStart(ManagerStop(World(s)), tok))
    /\ UNCHANGED <<_registry, sent>>

\* Every registered server is stopped, newest first, and stays registered:
\* Stopping[i] is what the first i stops leave.
Stopping[i \in 0 .. Len(_registry)] ==
    IF i = 0 THEN [k |-> k, srv |-> srv]
    ELSE LET v == Stopping[i - 1]
             s == _registry[i]
             w == ManagerStop([k |-> v.k, s |-> v.srv[s]])
         IN  [k |-> w.k, srv |-> [v.srv EXCEPT ![s] = w.s]]

mx_manager_shutdown ==
    /\ ManagerIdle
    /\ k' = Stopping[Len(_registry)].k /\ srv' = Stopping[Len(_registry)].srv
    /\ UNCHANGED <<_registry, waiting, waited, sent>>

_cmd_panic(s) ==
    /\ ManagerIdle
    /\ s \in Registered
    /\ srv' = [srv EXCEPT ![s].state = "PANIC"]
    /\ UNCHANGED <<k, _registry, waiting, waited, sent>>

\* Mutant: the time spent is not added up.
WaitForever ==
    /\ waiting # NoServer
    /\ waiting' = IF srv[waiting].state \in {"READY", "FAILED", "PANIC"}
                  THEN NoServer ELSE waiting
    /\ UNCHANGED <<k, srv, _registry, waited, sent>>

\* Mutant: the loop runs while waited <= timeout.
WaitOneMore ==
    /\ waiting # NoServer
    /\ \/ /\ srv[waiting].state \in {"READY", "FAILED", "PANIC"} \/ waited > WAIT_MAX
          /\ waiting' = NoServer /\ waited' = 0
       \/ /\ srv[waiting].state \notin {"READY", "FAILED", "PANIC"}
          /\ waited <= WAIT_MAX
          /\ waited' = waited + 1 /\ UNCHANGED waiting
    /\ UNCHANGED <<k, srv, _registry, sent>>

\* One poll of mx_loader_wait_ready.
mx_loader_wait_ready ==
    /\ waiting # NoServer
    /\ \/ /\ srv[waiting].state \in {"READY", "FAILED", "PANIC"} \/ waited >= WAIT_MAX
          /\ waiting' = NoServer /\ waited' = 0
       \/ /\ srv[waiting].state \notin {"READY", "FAILED", "PANIC"}
          /\ waited < WAIT_MAX
          /\ waited' = waited + 1 /\ UNCHANGED waiting
    /\ UNCHANGED <<k, srv, _registry, sent>>
-----------------------------------------------------------------------------
(* Messages *)

\* mx_server_send as a value: the port space after it and its result.
SendTo(s, m) ==
    CASE srv[s].state \notin {"READY", "WAITING"} ->
             [space |-> k.ports, kr |-> "KERN_NOT_RECEIVER"]
      [] srv[s].state \in {"READY", "WAITING"} /\ srv[s].endpoint = MACH_PORT_NULL ->
             [space |-> k.ports, kr |-> "KERN_INVALID_OBJECT"]
      [] srv[s].state \in {"READY", "WAITING"} /\ srv[s].endpoint # MACH_PORT_NULL
           /\ m.sender = MACH_PORT_NULL ->
             [space |-> k.ports, kr |-> "KERN_INVALID_ARGUMENT"]
      [] OTHER -> SendResult(k.ports, srv[s].endpoint, OnWire(m))

\* A message call that leaves the port space q.
Call(q) == /\ sent < MaxSent
           /\ sent' = sent + 1
           /\ k' = [k EXCEPT !.ports = q]
           /\ UNCHANGED <<srv, _registry, waiting, waited>>

mx_server_send(from, s) ==
    /\ {from, s} \subseteq Registered
    /\ srv[from].endpoint # MACH_PORT_NULL
    /\ Call(SendTo(s, Message("REQUEST", srv[from].endpoint, s)).space)

\* The message is created with no sender.
mx_server_notify(s) ==
    /\ s \in Registered
    /\ Call(SendTo(s, Message("NOTIFY", MACH_PORT_NULL, s)).space)

\* The reply is received from the endpoint the request was sent to.
mx_server_rpc(from, s) ==
    /\ {from, s} \subseteq Registered
    /\ srv[from].endpoint # MACH_PORT_NULL
    /\ LET r == SendTo(s, Message("REQUEST", srv[from].endpoint, s))
       IN  Call(IF r.kr = "KERN_SUCCESS" THEN Taken(r.space, srv[s].endpoint)
                                         ELSE r.space)

\* Every matching server that is READY gets a copy, if its queue takes it.
mx_server_broadcast(from, matching) ==
    LET m(s) == Message("ASYNC", srv[from].endpoint, s)
        ok == {s \in matching \cap Registered :
                  srv[s].state = "READY" /\ SendTo(s, m(s)).kr = "KERN_SUCCESS"}
    IN  /\ from \in Registered
        /\ srv[from].endpoint # MACH_PORT_NULL
        /\ Call([p \in Live(k.ports) |->
                    IF \E s \in ok : srv[s].endpoint = p
                    THEN LET s == CHOOSE s \in ok : srv[s].endpoint = p
                         IN  Append(k.ports[p], OnWire(m(s)))
                    ELSE k.ports[p]])

\* A server takes a request from its endpoint and answers it: the answer is
\* sent to the server called "kernel".
mx_server_reply(s) ==
    /\ s \in Registered
    /\ HasMessage(k.ports, srv[s].endpoint)
    /\ LET m == Head(k.ports[srv[s].endpoint])
           q == Taken(k.ports, srv[s].endpoint)
           kernels == {d \in ByName("kernel") : srv[d].endpoint # MACH_PORT_NULL}
       IN  /\ m.type = "REQUEST"
           /\ k' = [k EXCEPT !.ports =
                       IF kernels = {} THEN q
                       ELSE SendResult(q, srv[CHOOSE d \in kernels : TRUE].endpoint,
                               OnWire(Message("REPLY", m.sender, NoServer))).space]
    /\ UNCHANGED <<srv, _registry, waiting, waited, sent>>

\* mx_manager_poll: the oldest message of every endpoint is shown to the
\* monitor and destroyed.
mx_ipc_poll ==
    /\ \E s \in Registered : HasMessage(k.ports, srv[s].endpoint)
    /\ k' = [k EXCEPT !.ports = [p \in DOMAIN @ |->
                IF (\E s \in Registered : srv[s].endpoint = p) /\ @[p] # <<>>
                THEN Tail(@[p]) ELSE @[p]]]
    /\ UNCHANGED <<srv, _registry, waiting, waited, sent>>
-----------------------------------------------------------------------------
Manage ==
    \/ \E name \in ServerNames, path \in BOOLEAN, tok \in BOOLEAN :
          mx_bootstrap_start_server(name, path, tok)
    \/ \E s \in Servers, tok \in BOOLEAN :
          \/ mx_manager_start_server(s, tok)
          \/ mx_manager_restart_server(s, tok)
    \/ \E s \in Servers : mx_manager_stop_server(s) \/ _cmd_panic(s)
    \/ mx_manager_shutdown
    \/ mx_loader_wait_ready

ServerStep ==
    \/ \E name \in ServerNames : RegisterSelf(name)
    \/ \E s \in Servers : \/ SelfEndpoints(s)
                          \/ SetReady(s)
                          \/ SelfReady(s)
                          \/ SetWaiting(s)
                          \/ SelfExit(s)

Messaging ==
    \/ \E s, d \in Servers : mx_server_send(s, d) \/ mx_server_rpc(s, d)
    \/ \E s \in Servers : \/ mx_server_notify(s)
                          \/ mx_server_reply(s)
                          \/ \E M \in SUBSET Servers : mx_server_broadcast(s, M)
    \/ mx_ipc_poll

Next == Manage \/ ServerStep \/ Messaging

Spec == Init /\ [][Next]_vars
\* The manager's own polling loop runs.
FairSpec == Spec /\ WF_vars(mx_loader_wait_ready)
-----------------------------------------------------------------------------
(* Properties *)

States == {"STOPPED", "LOADING", "STARTING", "READY", "WAITING", "FAILED",
           "PANIC", "STOPPING"}
PortOrNull == Names \cup {MACH_PORT_NULL}

\* A server structure.
Server == [exists : BOOLEAN, name : ServerNames \cup {""}, state : States,
           task : TaskIds \cup {NoTask}, thread : BOOLEAN,
           endpoint : PortOrNull, mgmt_port : PortOrNull, path : BOOLEAN,
           main : {"none", "registered", "endpoints", "serving"}]

\* Server structures and the registry have the declared shape.
TypeOK ==
    /\ srv \in [Servers -> Server]
    /\ _registry \in Seq(Servers) /\ Len(_registry) <= MX_SERVER_MAX
    /\ sent \in 0 .. MaxSent
    /\ waiting \in Servers \cup {NoServer} /\ waited \in 0 .. WAIT_MAX

\* The registry holds each server once, and no two under one name, so
\* every lookup has one answer whatever is registered, refused, unregistered
\* and registered again.
RegistryUnique ==
    \A i, j \in DOMAIN _registry :
        /\ srv[_registry[i]].exists
        /\ i # j => /\ _registry[i] # _registry[j]
                    /\ srv[_registry[i]].name # srv[_registry[j]].name

ServerPorts(s) == {srv[s].endpoint, srv[s].mgmt_port}

\* A server that runs can be reached and nobody else can take its ports
\* away, also after it was started while it ran or failed to start: the
\* ports it has are live and those of no other server; a server of the
\* manager's has both, and a task in use that was given its endpoint.
RunningReachable ==
    \A s \in Registered : srv[s].state \in Running =>
        LET own == ServerPorts(s) \ {MACH_PORT_NULL}
        IN  /\ own \subseteq Live(k.ports) \ KernelPorts
            /\ \A d \in Registered \ {s} : own \cap ServerPorts(d) = {}
            /\ srv[s].main = "none" =>
                  /\ Cardinality(own) = 2
                  /\ TaskLookup(k, srv[s].task)
                  /\ k.tasks[srv[s].task].bootstrap_port = srv[s].endpoint

\* The task a server points to is in use and is no other server's, a stopped
\* server points to none, and the counter of tasks is exact: no order of
\* loads, failed loads, stops and restarts terminates a slot twice or one
\* that has been given to somebody else.
TasksOwned ==
    LET owners == {s \in Servers : srv[s].task # NoTask}
    IN  /\ \A s \in owners : /\ srv[s].task \in InUseTasks(k) \ {KernelTask}
                             /\ srv[s].state # "STOPPED"
        /\ \A s, d \in owners : srv[s].task = srv[d].task => s = d
        /\ k.count = Cardinality(InUseTasks(k))

\* A start that fails in mx_loader_load, at whichever of its three steps,
\* takes back what the earlier steps made: from a server that held nothing,
\* ports and tasks are as they were.
FailedStartRestores ==
    [][\A s \in Servers :
          /\ srv[s].task = NoTask /\ srv[s].endpoint = MACH_PORT_NULL
          /\ srv[s].state # "FAILED" /\ srv'[s].state = "FAILED"
          => /\ k'.ports = k.ports
             /\ InUseTasks(k') = InUseTasks(k) /\ k'.count = k.count]_vars

\* A message waits only on an endpoint of the server it was sent to, also
\* when that server was stopped and its port names given to another one.
NoMisdelivery ==
    \A s \in Registered : srv[s].endpoint \in Live(k.ports) =>
        \A i \in DOMAIN k.ports[srv[s].endpoint] :
            LET m == k.ports[srv[s].endpoint][i]
            IN  m.type # "REPLY" => m.to = s

\* A start returns although the server may never become READY, so that the
\* manager takes the next command.
StartReturns == waiting # NoServer ~> waiting = NoServer
-----------------------------------------------------------------------------
(* What the documentation says *)

\* mxsi-paper.tex: STOPPED is "Not loaded or initialised."  When every
\* server is STOPPED, no port but the kernel's is in use.
StoppedReleasesPorts ==
    (\A s \in Servers : srv[s].state = "STOPPED" /\ (srv[s].path \/ ~srv[s].exists))
        => Live(k.ports) = KernelPorts
-----------------------------------------------------------------------------
\* Registry, servers, ports and tasks agree through starts that fail, restarts,
\* panics and servers that register themselves (registry.c, loader.c,
\* manager.c), and no message waits on another server's endpoint.
ServersConsistent ==
    TypeOK /\ RegistryUnique /\ RunningReachable /\ TasksOwned /\ NoMisdelivery
=============================================================================
