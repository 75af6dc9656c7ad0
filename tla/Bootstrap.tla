------------------------------ MODULE Bootstrap ------------------------------
(***************************************************************************)
(* Message passing and the bootstrap name service (ipc/ipc.c) with the     *)
(* dispatch loop that serves it (mach/mach_kernel.c).  Clients of the API  *)
(* run between the steps of the loop; a call is cut only where it blocks,  *)
(* which is the poll inside mach_msg_receive.                              *)
(***************************************************************************)
EXTENDS PortOps, FiniteSets

CONSTANTS Clients,           \* users of the message API
          Providers,         \* the clients that may offer a service
          ServiceNames,
          IPC_MAX_SERVICES,  \* entries of ipc_service_table
          Timeouts,          \* timeouts, in polls of 100 ms; 0 waits for ever
          MaxCalls           \* calls the clients start (bound)

\* Initialisation allocates the first port.
ASSUME BootstrapAssumption ==
    /\ MACH_PORT_TABLE_SIZE >= 1
    /\ Providers \subseteq Clients
    /\ IPC_MAX_SERVICES \in Nat
    /\ Timeouts \subseteq Nat
    /\ MaxCalls \in Nat

VARIABLES ports,              \* the port space
          ipc_service_table,  \* sequence of [name, port, owner]
          client,             \* client -> its local state
          calls,              \* calls started so far
          handled,            \* requests the name service has answered
          abandoned           \* has a call timed out, or a service closed?

vars == <<ports, ipc_service_table, client, calls, handled, abandoned>>

\* ipc_init allocates the first name.
ipc_bootstrap_port == 1

NoMsg == [type |-> "none"]
NoTag == <<>>
NoName == "no name"

\* A request names the port the answer goes to.  tag (which call this is, or
\* answers) and the name in a reply are for the properties only.
Request(id, name, local, tag) ==
    [type |-> "request", id |-> id, name |-> name, local |-> local, tag |-> tag]
Reply(m, port) == [type |-> "reply", name |-> m.name, port |-> port, tag |-> m.tag]

\* A client outside any call; got is what its last call returned.
Idle(service, known, got, tag) ==
    [pc |-> "idle", tag |-> tag, reply_port |-> MACH_PORT_NULL,
     dest |-> MACH_PORT_NULL, polls |-> 0, timeout |-> 0, got |-> got,
     service |-> service, known |-> known]
IdleClient == Idle(MACH_PORT_NULL, MACH_PORT_NULL, NoMsg, NoTag)

Init == /\ ports = [p \in {ipc_bootstrap_port} |-> <<>>]
        /\ ipc_service_table = <<>>
        /\ client = [c \in Clients |-> IdleClient]
        /\ calls = 0
        /\ handled = {}
        /\ abandoned = FALSE

\* A call is started by an idle client, within the bound.
Call(c) == client[c].pc = "idle" /\ calls < MaxCalls /\ calls' = calls + 1
NextTag(c) == <<c, calls + 1>>
-----------------------------------------------------------------------------
(* bootstrap_register and bootstrap_lookup *)

Bound(name) == {i \in DOMAIN ipc_service_table : ipc_service_table[i].name = name}

\* Mutant: the table is taken to be full one entry too late.
RegisteredOneMore(name, port, owner) ==
    IF Len(ipc_service_table) > IPC_MAX_SERVICES \/ Bound(name) # {}
    THEN ipc_service_table
    ELSE Append(ipc_service_table, [name |-> name, port |-> port, owner |-> owner])

Registered(name, port, owner) ==
    IF Len(ipc_service_table) >= IPC_MAX_SERVICES \/ Bound(name) # {}
    THEN ipc_service_table
    ELSE Append(ipc_service_table, [name |-> name, port |-> port, owner |-> owner])

FirstBound(name) == CHOOSE i \in Bound(name) : \A j \in Bound(name) : i <= j
LookedUp(name) == IF Bound(name) = {} THEN MACH_PORT_NULL
                                      ELSE ipc_service_table[FirstBound(name)].port

\* Mutant: the reply to a lookup takes the port of the newest entry.
HandledNewest(m) ==
    Reply(m, IF m.id = "LOOKUP" /\ ipc_service_table # <<>>
                 THEN ipc_service_table[Len(ipc_service_table)].port
                 ELSE MACH_PORT_NULL)

\* bootstrap_handle_request.  The answer to REGISTER is the bare header (its
\* size does not cover ret_code); an unknown id gets a zeroed reply.
HandledReply(m) ==
    Reply(m, IF m.id = "LOOKUP" THEN LookedUp(m.name) ELSE MACH_PORT_NULL)

\* Mutant: an unknown request is dropped without an answer.
DispatchKnownOnly ==
    /\ HasMessage(ports, ipc_bootstrap_port)
    /\ LET m == Head(ports[ipc_bootstrap_port])
           q == Taken(ports, ipc_bootstrap_port)
       IN  /\ ports' = IF m.id = "UNKNOWN" THEN q
                       ELSE SendResult(q, m.local, HandledReply(m)).space
           /\ handled' = handled \cup {m.tag}
    /\ UNCHANGED <<ipc_service_table, client, calls, abandoned>>

\* Mutant: the request is read and stays in the queue.
DispatchPeeks ==
    /\ HasMessage(ports, ipc_bootstrap_port)
    /\ LET m == Head(ports[ipc_bootstrap_port])
       IN  /\ ports' = SendResult(ports, m.local, HandledReply(m)).space
           /\ handled' = handled \cup {m.tag}
    /\ UNCHANGED <<ipc_service_table, client, calls, abandoned>>

\* Mutant: the requests share one buffer, so the answer goes to the reply
\* port of the request that was queued last.
DispatchSharedBuffer ==
    /\ HasMessage(ports, ipc_bootstrap_port)
    /\ LET all == ports[ipc_bootstrap_port]
           q == Taken(ports, ipc_bootstrap_port)
       IN  /\ ports' = SendResult(q, all[Len(all)].local, HandledReply(Head(all))).space
           /\ handled' = handled \cup {Head(all).tag}
    /\ UNCHANGED <<ipc_service_table, client, calls, abandoned>>

\* One turn of mxwl_kernel_loop: at most one request, and its answer is sent
\* without looking at the result.
mxwl_kernel_loop ==
    /\ HasMessage(ports, ipc_bootstrap_port)
    /\ LET m == Head(ports[ipc_bootstrap_port])
           q == Taken(ports, ipc_bootstrap_port)
       IN  /\ ports' = IF m.local = MACH_PORT_NULL THEN q
                       ELSE SendResult(q, m.local, HandledReply(m)).space
           /\ ipc_service_table' = IF m.id = "REGISTER"
                                   THEN Registered(m.name, m.local, m.tag[1])
                                   ELSE ipc_service_table
           /\ handled' = handled \cup {m.tag}
    /\ UNCHANGED <<client, calls, abandoned>>
-----------------------------------------------------------------------------
(* Clients *)

\* mach_port_allocate for the port a client offers its service on.
OpenService(c) ==
    /\ c \in Providers /\ client[c].pc = "idle"
    /\ client[c].service = MACH_PORT_NULL
    /\ ~Full(ports)
    /\ ports' = Opened(ports, FreshName(ports))
    /\ client' = [client EXCEPT ![c].service = FreshName(ports)]
    /\ UNCHANGED <<ipc_service_table, calls, handled, abandoned>>

CloseService(c) ==
    /\ client[c].pc = "idle"
    /\ client[c].service # MACH_PORT_NULL
    /\ ports' = Closed(ports, client[c].service)
    /\ client' = [client EXCEPT ![c].service = MACH_PORT_NULL]
    /\ abandoned' = TRUE
    /\ UNCHANGED <<ipc_service_table, calls, handled>>

\* REGISTER with mach_msg_send: the local port is the service port itself.
SendRegister(c, name) ==
    /\ Call(c)
    /\ client[c].service # MACH_PORT_NULL
    /\ ports' = SendResult(ports, ipc_bootstrap_port,
                    Request("REGISTER", name, client[c].service, NextTag(c))).space
    /\ UNCHANGED <<ipc_service_table, client, handled, abandoned>>

\* The locals of a call that waits for its answer on p.
Begun(z, tag, p, dest, timeout) ==
    [z EXCEPT !.pc = "receive", !.tag = tag, !.reply_port = p, !.dest = dest,
              !.polls = 0, !.timeout = timeout, !.got = NoMsg]

\* mach_msg_rpc up to the receive: the reply port, the send, and the early
\* returns that give the reply port back.
mach_msg_rpc(c, dest, id, name, timeout) ==
    /\ Call(c)
    /\ IF Full(ports)
       THEN UNCHANGED <<ports, client>>
       ELSE LET p == FreshName(ports)
                r == SendResult(Opened(ports, p), dest, Request(id, name, p, NextTag(c)))
            IN  IF r.kr # "KERN_SUCCESS"
                THEN /\ ports' = Closed(r.space, p)
                     /\ UNCHANGED client
                ELSE /\ client' = [client EXCEPT
                           ![c] = Begun(@, NextTag(c), p, dest, timeout)]
                     /\ ports' = r.space
    /\ UNCHANGED <<ipc_service_table, handled, abandoned>>

\* A lookup answered with a port gives the client a service to call.
Learned(c, m) == IF m.type = "reply" /\ m.port # MACH_PORT_NULL
                 THEN m.port ELSE client[c].known

\* Mutant: the receive returns on a timeout and the reply port stays open.
AbortedLeaky(q, p) == q

\* mach_port_destroy(reply_port) on the way out of a call that timed out.
Aborted(q, p) == Closed(q, p)

\* The locals of the call are gone; what it returned stays with the client.
Ended(z, m, known) == Idle(z.service, known, m, IF m = NoMsg THEN NoTag ELSE z.tag)
Returned(c, m) == [client EXCEPT ![c] = Ended(@, m, Learned(c, m))]

\* One round of the loop of mach_msg_receive, and the end of mach_msg_rpc.
mach_msg_receive(c) ==
    LET p == client[c].reply_port
    IN  /\ client[c].pc = "receive"
        /\ \/ /\ HasMessage(ports, p)
              /\ client' = Returned(c, Head(ports[p]))
              /\ ports' = Closed(ports, p)
              /\ UNCHANGED abandoned
           \/ /\ ~HasMessage(ports, p)
              /\ client[c].timeout > 0
              /\ IF client[c].polls + 1 >= client[c].timeout
                 THEN /\ client' = Returned(c, NoMsg)
                      /\ ports' = Aborted(ports, p)
                      /\ abandoned' = TRUE
                 ELSE /\ client' = [client EXCEPT ![c].polls = @ + 1]
                      /\ UNCHANGED <<ports, abandoned>>
        /\ UNCHANGED <<ipc_service_table, calls, handled>>

\* A service takes one message from its port and answers a request on the
\* request's local port.
Serve(c) ==
    /\ client[c].pc = "idle"
    /\ HasMessage(ports, client[c].service)
    /\ LET m == Head(ports[client[c].service])
           q == Taken(ports, client[c].service)
       IN  ports' = IF m.type = "request"
                    THEN SendResult(q, m.local, Reply(m, MACH_PORT_NULL)).space
                    ELSE q
    /\ UNCHANGED <<ipc_service_table, client, calls, handled, abandoned>>

\* The payload of a request matters to a lookup only.
AskKernel(c) ==
    \E timeout \in Timeouts :
        \/ \E name \in ServiceNames :
              mach_msg_rpc(c, ipc_bootstrap_port, "LOOKUP", name, timeout)
        \/ mach_msg_rpc(c, ipc_bootstrap_port, "UNKNOWN", NoName, timeout)

AskService(c) ==
    \E timeout \in Timeouts :
        /\ client[c].known \notin {MACH_PORT_NULL, client[c].service}
        /\ mach_msg_rpc(c, client[c].known, "SERVICE", NoName, timeout)

ClientStep(c) ==
    \/ OpenService(c)
    \/ CloseService(c)
    \/ \E name \in ServiceNames : SendRegister(c, name)
    \/ AskKernel(c)
    \/ AskService(c)
    \/ mach_msg_receive(c)
    \/ Serve(c)

Next == mxwl_kernel_loop \/ \E c \in Clients : ClientStep(c)

\* The loop never stops polling, a blocked receive polls again, and a
\* service reads its port.
Fairness == /\ WF_vars(mxwl_kernel_loop)
            /\ \A c \in Clients : WF_vars(mach_msg_receive(c)) /\ WF_vars(Serve(c))

Spec == Init /\ [][Next]_vars
FairSpec == Spec /\ Fairness
-----------------------------------------------------------------------------
(* Properties *)

Tags == Clients \X (1 .. MaxCalls)
PortOrNull == Names \cup {MACH_PORT_NULL}
Message ==
    [type : {"request"}, id : {"LOOKUP", "UNKNOWN", "REGISTER", "SERVICE"},
     name : ServiceNames \cup {NoName}, local : PortOrNull, tag : Tags]
    \cup [type : {"reply"}, name : ServiceNames \cup {NoName}, port : PortOrNull, tag : Tags]

\* Queues hold messages, the table holds entries, clients their locals.
TypeOK ==
    /\ DOMAIN ports \subseteq Names
    /\ \A p \in DOMAIN ports : /\ Len(ports[p]) <= MACH_PORT_QUEUE_MAX
                               /\ \A i \in DOMAIN ports[p] : ports[p][i] \in Message
    /\ Len(ipc_service_table) <= IPC_MAX_SERVICES
    /\ \A i \in DOMAIN ipc_service_table :
          ipc_service_table[i] \in [name : ServiceNames, port : Names, owner : Clients]
    /\ \A c \in Clients : /\ client[c].pc \in {"idle", "receive"}
                          /\ client[c].got \in Message \cup {NoMsg}
    /\ calls \in 0 .. MaxCalls /\ handled \subseteq Tags

\* Every answer to a lookup that is queued anywhere, or that a client has
\* received, is the binding the table still has: a name, once bound, is
\* bound to the same port in every answer, whoever asked and whoever tried
\* to register the name again in between.
AnswersAgree ==
    LET queued == UNION {{ports[p][i] : i \in DOMAIN ports[p]} : p \in DOMAIN ports}
        got == {client[c].got : c \in Clients}
        replies == {m \in queued \cup got : m.type = "reply"}
    IN  \A m \in replies : m.port # MACH_PORT_NULL =>
            \E i \in DOMAIN ipc_service_table :
                /\ ipc_service_table[i].port = m.port
                /\ Bound(m.name) = {i}

\* A port is live only while somebody is going to destroy it: the kernel's
\* port, the service port of a client and the reply port of a call that is
\* still in progress.  No path out of mach_msg_rpc keeps its reply port, and
\* no other client's step takes it away.
ReplyPortsReleased ==
    Live(ports) = {ipc_bootstrap_port}
        \cup {client[c].service : c \in {d \in Clients :
                                           client[d].service # MACH_PORT_NULL}}
        \cup {client[c].reply_port : c \in {d \in Clients :
                                           client[d].pc = "receive"}}

\* Requests in the bootstrap queue have not been answered, and each is
\* there once: the loop answers no request twice and loses none.
RequestsHandledOnce ==
    LET q == ports[ipc_bootstrap_port]
    IN  \A i \in DOMAIN q : /\ q[i].tag \notin handled
                            /\ \A j \in DOMAIN q : q[i].tag = q[j].tag => i = j

Matches(c) == client[c].got # NoMsg =>
                 client[c].got.type = "reply" /\ client[c].got.tag = client[c].tag

\* As long as no call has been given up and no service port destroyed, every
\* mach_msg_rpc returns the answer to the request it sent, although reply
\* ports are freed and their names reused all the time.
RepliesMatch == ~abandoned => \A c \in Clients : Matches(c)

\* A mach_msg_rpc with a timeout returns because it counts its polls, one to
\* the kernel without a timeout because the loop answers every request.  (A
\* service is not obliged to answer.)
RpcReturns ==
    \A c \in Clients :
        client[c].pc = "receive" /\ (client[c].timeout > 0
                                     \/ client[c].dest = ipc_bootstrap_port)
            ~> client[c].pc = "idle"

\* ipc.h: "Combined send/receive (RPC-style)."  mach_msg_rpc returns the
\* answer to the request it sent, also after an earlier call timed out.
ReplyMatchesRequest == \A c \in Clients : Matches(c)
-----------------------------------------------------------------------------
\* Name service and calls agree: one answer for a name, no reply port left
\* over, no request handled twice, in whatever order ipc.c's clients run.
BootstrapConsistent ==
    TypeOK /\ AnswersAgree /\ ReplyPortsReleased /\ RequestsHandledOnce
=============================================================================
