--------------------------- MODULE BootstrapProofs ---------------------------
(***************************************************************************)
(* Proofs about message passing and the name service, for every number of  *)
(* clients, ports, services and calls: the tables stay consistent          *)
(* (BootstrapConsistent), and as long as no call is given up every call    *)
(* gets the answer to its own request (RepliesMatch).                      *)
(***************************************************************************)
EXTENDS Bootstrap, SequenceTheorems, WellFoundedInduction, TLAPS

-----------------------------------------------------------------------------
(* Port spaces: what the calls of mach_port.c do to the queues *)

\* Every non-empty set of natural numbers has a least element.
LEMMA LeastElement ==
    ASSUME NEW T \in SUBSET Nat, T # {}
    PROVE  \E x \in T : \A y \in T : x <= y
<1>1. IsWellFoundedOn(OpToRel(<, Nat), Nat)
  BY NatLessThanWellFounded
<1>2. PICK x \in T : \A y \in T : ~(<<y, x>> \in OpToRel(<, Nat))
  BY <1>1, WFMin
<1>3. \A y \in T : ~(y < x)
  BY <1>2 DEF OpToRel
<1> QED  BY <1>3

\* mach_port_allocate returns a name that was not live.
LEMMA FreshNameOK ==
    ASSUME NEW q, DOMAIN q \subseteq Names, ~Full(q)
    PROVE  FreshName(q) \in Names \ DOMAIN q
<1>1. Names \ DOMAIN q # {} /\ Names \ DOMAIN q \in SUBSET Nat
  BY PortOpsAssumption DEF Full, Names
<1>2. \E p \in Names \ DOMAIN q : \A r \in Names \ DOMAIN q : p <= r
  BY <1>1, LeastElement
<1> QED  BY <1>2 DEF FreshName

\* A space whose queues are within their bound and hold messages of S only.
IsSpace(q, S) ==
    /\ DOMAIN q \subseteq Names
    /\ q = [x \in DOMAIN q |-> q[x]]
    /\ \A x \in DOMAIN q : q[x] \in Seq(S) /\ Len(q[x]) <= MACH_PORT_QUEUE_MAX

\* More messages may be allowed.
LEMMA SpaceGrows ==
    ASSUME NEW q, NEW S, NEW T, IsSpace(q, S), S \subseteq T
    PROVE  IsSpace(q, T)
<1>1. \A x \in DOMAIN q : q[x] \in Seq(T)
  BY SeqMonotonic DEF IsSpace
<1> QED  BY <1>1 DEF IsSpace

\* Fewer messages are allowed when none of the others is queued.
LEMMA SpaceShrinks ==
    ASSUME NEW q, NEW S, NEW T, IsSpace(q, S),
           \A x \in DOMAIN q : \A i \in DOMAIN q[x] : q[x][i] \in T
    PROVE  IsSpace(q, T)
<1> SUFFICES ASSUME NEW x \in DOMAIN q PROVE q[x] \in Seq(T)
  BY DEF IsSpace
<1>1. q[x] \in Seq(S) /\ \A i \in 1 .. Len(q[x]) : q[x][i] \in T
  BY DEF IsSpace
<1> QED  BY <1>1

\* The messages of a space.
LEMMA SpaceHolds ==
    ASSUME NEW q, NEW S, IsSpace(q, S), NEW x \in DOMAIN q
    PROVE  /\ DOMAIN q[x] = 1 .. Len(q[x]) /\ Len(q[x]) \in Nat
           /\ \A i \in DOMAIN q[x] : q[x][i] \in S
           /\ q[x] # <<>> => Head(q[x]) \in S /\ Head(q[x]) = q[x][1] /\ 1 \in DOMAIN q[x]
BY DEF IsSpace

\* mach_port_queue_message: one more message at the end of a queue, or nothing.
Delivered(q, r, p, m) ==
    /\ DOMAIN r = DOMAIN q
    /\ \A x \in DOMAIN q : x # p => r[x] = q[x]
    /\ p \in DOMAIN q => r[p] = q[p] \/ r[p] = Append(q[p], m)

\* mach_port_enqueue_message: the message is last in its queue, or nothing changes.
LEMMA SendOK ==
    ASSUME NEW S, NEW q, IsSpace(q, S), NEW p, NEW m \in S
    PROVE  LET r == SendResult(q, p, m)
           IN  /\ IsSpace(r.space, S) /\ Delivered(q, r.space, p, m)
               /\ r.kr # "KERN_SUCCESS" => r.space = q
<1> DEFINE r == SendResult(q, p, m)
           z == [x \in DOMAIN q |-> IF x = p THEN Append(q[p], m) ELSE q[x]]
<1>1. CASE r.space = q
  BY <1>1 DEF Delivered
<1>2. CASE Accepts(q, p) /\ r.kr = "KERN_SUCCESS" /\ r.space = Sent(q, p, m)
  <2>1. p \in DOMAIN q /\ Len(q[p]) < MACH_PORT_QUEUE_MAX
    BY <1>2 DEF Accepts
  <2>2. q[p] \in Seq(S) /\ Len(q[p]) \in Nat
    BY <2>1 DEF IsSpace
  <2>3. r.space = z
    BY <1>2, <2>1 DEF Sent, IsSpace
  <2>4. Append(q[p], m) \in Seq(S) /\ Len(Append(q[p], m)) = Len(q[p]) + 1
    BY <2>2
  <2>5. Len(Append(q[p], m)) <= MACH_PORT_QUEUE_MAX
    BY <2>1, <2>2, <2>4, PortOpsAssumption
  <2>6. IsSpace(z, S)
    BY <2>4, <2>5 DEF IsSpace
  <2>7. Delivered(q, z, p, m)
    BY <2>1 DEF Delivered
  <2> HIDE DEF z
  <2> QED  BY <1>2, <2>3, <2>6, <2>7
<1>3. \/ r.space = q
      \/ Accepts(q, p) /\ r.kr = "KERN_SUCCESS" /\ r.space = Sent(q, p, m)
  BY DEF SendResult
<1>4. r.kr # "KERN_SUCCESS" => r.space = q
  BY DEF SendResult
<1> QED  BY <1>1, <1>2, <1>3, <1>4

\* mach_port_dequeue_message: the oldest message leaves its queue.
LEMMA TakeOK ==
    ASSUME NEW S, NEW q, IsSpace(q, S), NEW p, HasMessage(q, p)
    PROVE  LET r == Taken(q, p)
           IN  /\ IsSpace(r, S) /\ DOMAIN r = DOMAIN q
               /\ \A x \in DOMAIN q : x # p => r[x] = q[x]
               /\ r[p] = Tail(q[p])
               /\ Len(r[p]) = Len(q[p]) - 1
               /\ \A i \in DOMAIN r[p] : r[p][i] = q[p][i + 1] /\ i + 1 \in DOMAIN q[p]
<1> DEFINE r == Taken(q, p)
           t == Tail(q[p])
<1>1. p \in DOMAIN q /\ q[p] \in Seq(S) /\ q[p] # <<>> /\ Len(q[p]) <= MACH_PORT_QUEUE_MAX
  BY DEF HasMessage, IsSpace
<1>2. /\ t \in Seq(S) /\ Len(t) = Len(q[p]) - 1
      /\ \A i \in 1 .. Len(t) : t[i] = q[p][i + 1]
  BY <1>1, HeadTailProperties
<1>3. Len(q[p]) \in Nat /\ DOMAIN q[p] = 1 .. Len(q[p])
      /\ Len(t) \in Nat /\ DOMAIN t = 1 .. Len(t)
  BY <1>1, <1>2
<1> HIDE DEF t
<1>4. r = [x \in DOMAIN q |-> IF x = p THEN t ELSE q[x]]
  BY <1>1 DEF Taken, IsSpace, t
<1>5. Len(t) <= MACH_PORT_QUEUE_MAX
  BY <1>1, <1>2, <1>3, PortOpsAssumption
<1> HIDE DEF r
<1>6. IsSpace(r, S)
  BY <1>2, <1>4, <1>5 DEF IsSpace
<1>7. r[p] = t
  BY <1>1, <1>4
<1>8. \A i \in DOMAIN t : i + 1 \in DOMAIN q[p]
  BY <1>2, <1>3
<1>9. /\ IsSpace(r, S) /\ DOMAIN r = DOMAIN q
      /\ \A x \in DOMAIN q : x # p => r[x] = q[x]
      /\ r[p] = t /\ Len(r[p]) = Len(q[p]) - 1
      /\ \A i \in DOMAIN r[p] : r[p][i] = q[p][i + 1] /\ i + 1 \in DOMAIN q[p]
  BY <1>2, <1>3, <1>4, <1>6, <1>7, <1>8
<1> QED  BY <1>9 DEF r, t

\* mach_port_allocate and mach_port_destroy.
LEMMA OpenOK ==
    ASSUME NEW S, NEW q, IsSpace(q, S), NEW p \in Names, p \notin DOMAIN q
    PROVE  /\ IsSpace(Opened(q, p), S)
           /\ DOMAIN Opened(q, p) = DOMAIN q \cup {p}
           /\ \A x \in DOMAIN q : Opened(q, p)[x] = q[x]
           /\ Opened(q, p)[p] = <<>>
           /\ Closed(Opened(q, p), p) = q
<1>1. <<>> \in Seq(S) /\ Len(<<>>) <= MACH_PORT_QUEUE_MAX
  BY PortOpsAssumption
<1>2. IsSpace(Opened(q, p), S)
  BY <1>1 DEF Opened, IsSpace
<1>3. Closed(Opened(q, p), p) = q
  <2>1. Closed(Opened(q, p), p) = [x \in DOMAIN q |-> q[x]]
    BY DEF Opened, Closed
  <2> QED  BY <2>1 DEF IsSpace
<1> QED  BY <1>2, <1>3 DEF Opened

\* Only the closed port goes, with its queue.
LEMMA CloseOK ==
    ASSUME NEW S, NEW q, IsSpace(q, S), NEW p
    PROVE  /\ IsSpace(Closed(q, p), S)
           /\ DOMAIN Closed(q, p) = DOMAIN q \ {p}
           /\ \A x \in DOMAIN Closed(q, p) : Closed(q, p)[x] = q[x]
BY DEF Closed, IsSpace

-----------------------------------------------------------------------------
(* The inductive invariant *)

Locals ==
    [pc : {"idle", "receive"}, tag : Tags \cup {NoTag}, reply_port : PortOrNull,
     dest : PortOrNull, polls : Nat, timeout : Nat, got : Message \cup {NoMsg},
     service : PortOrNull, known : PortOrNull]

\* A client that waits for an answer has a port to wait on.
ClientRec == {z \in Locals : z.pc = "receive" => z.reply_port # MACH_PORT_NULL}

Entry == [name : ServiceNames, port : Names, owner : Clients]

\* What may be queued: requests that are to be answered on a port other than
\* the kernel's, and answers the table agrees with, of calls already started.
GoodMessage ==
    {m \in Message :
        /\ m.type = "request" =>
              /\ m.local \in Names \ {ipc_bootstrap_port}
              /\ m.id = "REGISTER" => m.name \in ServiceNames
        /\ m.type = "reply" /\ m.port # MACH_PORT_NULL =>
              \E i \in DOMAIN ipc_service_table :
                  ipc_service_table[i].port = m.port /\ Bound(m.name) = {i}
        /\ m.tag[2] <= calls}

\* The ports of clients: p is c's service port, or the reply port of its call.
Serves(cl, c, p) == cl[c].service = p /\ p # MACH_PORT_NULL
Awaits(cl, c, p) == cl[c].pc = "receive" /\ cl[c].reply_port = p

\* A port is live if and only if it is the kernel's or one client's, in one way.
PortsOwned(q, cl) ==
    /\ \A p \in Names : p \in DOMAIN q <=>
          p = ipc_bootstrap_port \/ \E c \in Clients : Serves(cl, c, p) \/ Awaits(cl, c, p)
    /\ \A c \in Clients : ~Serves(cl, c, ipc_bootstrap_port) /\ ~Awaits(cl, c, ipc_bootstrap_port)
    /\ \A c, d \in Clients : \A p \in Names :
          /\ Serves(cl, c, p) /\ Serves(cl, d, p) => c = d
          /\ Awaits(cl, c, p) /\ Awaits(cl, d, p) => c = d
          /\ ~(Serves(cl, c, p) /\ Awaits(cl, d, p))

ClientsOK == /\ client \in [Clients -> ClientRec]
             /\ \A c \in Clients : client[c].got \in GoodMessage \cup {NoMsg}

\* No name is bound twice.
TableOK == /\ ipc_service_table \in Seq(Entry)
           /\ Len(ipc_service_table) <= IPC_MAX_SERVICES
           /\ \A i, j \in DOMAIN ipc_service_table :
                 ipc_service_table[i].name = ipc_service_table[j].name => i = j

CallsOK == /\ calls \in 0 .. MaxCalls
           /\ handled \subseteq Tags
           /\ \A t \in handled : t[2] <= calls

\* The kernel's queue holds requests only.
QueueOK == /\ \A i \in DOMAIN ports[ipc_bootstrap_port] :
                 ports[ipc_bootstrap_port][i].type = "request"
           /\ RequestsHandledOnce

NInv == /\ IsSpace(ports, GoodMessage) /\ PortsOwned(ports, client)
        /\ ClientsOK /\ TableOK /\ CallsOK /\ QueueOK

\* What the invariant says of the kernel's queue.
LEMMA KernelQueue ==
    ASSUME NInv
    PROVE  /\ ipc_bootstrap_port \in DOMAIN ports /\ ipc_bootstrap_port \in Names
           /\ DOMAIN ports[ipc_bootstrap_port] = 1 .. Len(ports[ipc_bootstrap_port])
           /\ Len(ports[ipc_bootstrap_port]) \in Nat
           /\ \A i \in DOMAIN ports[ipc_bootstrap_port] :
                 ports[ipc_bootstrap_port][i] \in GoodMessage
<1>1. ipc_bootstrap_port \in Names
  BY PortOpsAssumption, BootstrapAssumption DEF ipc_bootstrap_port, Names
<1>2. ipc_bootstrap_port \in DOMAIN ports
  BY <1>1 DEF NInv, PortsOwned
<1> QED  BY <1>1, <1>2, SpaceHolds DEF NInv

-----------------------------------------------------------------------------
(* Who has which port *)

\* Nobody opens or closes a port.
LEMMA OwnSame ==
    ASSUME NEW q, NEW r, NEW cl, NEW cl2, PortsOwned(q, cl), DOMAIN r = DOMAIN q,
           \A c \in Clients : \A p \in Names :
              (Serves(cl2, c, p) <=> Serves(cl, c, p)) /\ (Awaits(cl2, c, p) <=> Awaits(cl, c, p)),
           ipc_bootstrap_port \in Names
    PROVE  PortsOwned(r, cl2)
BY DEF PortsOwned

\* A client opens a service, or the reply port of a call.
LEMMA OwnMore ==
    ASSUME NEW q, NEW r, NEW cl, NEW cl2, PortsOwned(q, cl), NEW d \in Clients,
           NEW n \in Names \ DOMAIN q, DOMAIN r = DOMAIN q \cup {n}, ipc_bootstrap_port \in DOMAIN q,
           ipc_bootstrap_port \in Names,
           \/ \A c \in Clients : \A p \in Names :
                 /\ Serves(cl2, c, p) <=> Serves(cl, c, p) \/ (c = d /\ p = n)
                 /\ Awaits(cl2, c, p) <=> Awaits(cl, c, p)
           \/ \A c \in Clients : \A p \in Names :
                 /\ Serves(cl2, c, p) <=> Serves(cl, c, p)
                 /\ Awaits(cl2, c, p) <=> Awaits(cl, c, p) \/ (c = d /\ p = n)
    PROVE  PortsOwned(r, cl2)
<1>1. \A c \in Clients : ~Serves(cl, c, n) /\ ~Awaits(cl, c, n)
  BY DEF PortsOwned
<1>2. n # ipc_bootstrap_port
  OBVIOUS
<1> QED  BY <1>1, <1>2 DEF PortsOwned

\* A client closes its service, or the reply port of its call.
LEMMA OwnLess ==
    ASSUME NEW q, NEW r, NEW cl, NEW cl2, PortsOwned(q, cl), NEW d \in Clients,
           NEW n \in Names, DOMAIN r = DOMAIN q \ {n}, ipc_bootstrap_port \in Names,
           \/ /\ Serves(cl, d, n)
              /\ \A c \in Clients : \A p \in Names :
                    /\ Serves(cl2, c, p) <=> Serves(cl, c, p) /\ c # d
                    /\ Awaits(cl2, c, p) <=> Awaits(cl, c, p)
              /\ \A p \in Names : Serves(cl, d, p) => p = n
           \/ /\ Awaits(cl, d, n)
              /\ \A c \in Clients : \A p \in Names :
                    /\ Serves(cl2, c, p) <=> Serves(cl, c, p)
                    /\ Awaits(cl2, c, p) <=> Awaits(cl, c, p) /\ c # d
              /\ \A p \in Names : Awaits(cl, d, p) => p = n
    PROVE  PortsOwned(r, cl2)
<1>1. n # ipc_bootstrap_port
  BY DEF PortsOwned
<1>2. CASE Serves(cl, d, n) /\ \A c \in Clients : \A p \in Names :
                    /\ Serves(cl2, c, p) <=> Serves(cl, c, p) /\ c # d
                    /\ Awaits(cl2, c, p) <=> Awaits(cl, c, p)
  BY <1>1, <1>2 DEF PortsOwned
<1>3. CASE Awaits(cl, d, n) /\ \A c \in Clients : \A p \in Names :
                    /\ Serves(cl2, c, p) <=> Serves(cl, c, p)
                    /\ Awaits(cl2, c, p) <=> Awaits(cl, c, p) /\ c # d
  BY <1>1, <1>3 DEF PortsOwned
<1> QED  BY <1>2, <1>3

-----------------------------------------------------------------------------
(* Messages and clients as records *)

\* A request and a reply are messages.
LEMMA RequestOK ==
    ASSUME NEW id \in {"LOOKUP", "UNKNOWN", "REGISTER", "SERVICE"},
           NEW name \in ServiceNames \cup {NoName}, NEW p \in PortOrNull, NEW tag \in Tags
    PROVE  LET m == Request(id, name, p, tag)
           IN  /\ m \in Message /\ m.type = "request" /\ m.id = id /\ m.name = name
               /\ m.local = p /\ m.tag = tag
BY DEF Request, Message

\* The reply to a message carries its name and its tag.
LEMMA ReplyOK ==
    ASSUME NEW m \in Message, NEW p \in PortOrNull
    PROVE  LET r == Reply(m, p)
           IN  /\ r \in Message /\ r.type = "reply" /\ r.name = m.name
               /\ r.port = p /\ r.tag = m.tag
<1>1. m.name \in ServiceNames \cup {NoName} /\ m.tag \in Tags
  BY DEF Message
<1> QED  BY <1>1 DEF Reply, Message

\* The fields of a message.
LEMMA MessageOK ==
    ASSUME NEW m \in Message
    PROVE  /\ m.type \in {"request", "reply"} /\ m # NoMsg
           /\ m.tag \in Tags /\ m.name \in ServiceNames \cup {NoName}
           /\ m.type = "request" => /\ m.local \in PortOrNull
                                    /\ m.id \in {"LOOKUP", "UNKNOWN", "REGISTER", "SERVICE"}
           /\ m.type = "reply" => m.port \in PortOrNull
BY DEF Message, NoMsg

\* A client with another service port.
WithService(z, p) == [z EXCEPT !.service = p]
\* Opening or closing a service changes nothing else a client keeps.
LEMMA WithServiceOK ==
    ASSUME NEW z \in ClientRec, NEW p \in PortOrNull
    PROVE  LET y == WithService(z, p)
           IN  /\ y \in ClientRec /\ y.service = p
               /\ y.pc = z.pc /\ y.reply_port = z.reply_port /\ y.got = z.got
               /\ y.tag = z.tag /\ y.known = z.known
<1>1. WithService(z, p) \in Locals
  BY DEF ClientRec, Locals, WithService
<1> QED  BY <1>1 DEF ClientRec, Locals, WithService

\* A client after one more poll.
Polled(z) == [z EXCEPT !.polls = @ + 1]
\* One more round of the receive changes the number of polls only.
LEMMA PolledOK ==
    ASSUME NEW z \in ClientRec
    PROVE  LET y == Polled(z)
           IN  /\ y \in ClientRec /\ y.service = z.service
               /\ y.pc = z.pc /\ y.reply_port = z.reply_port /\ y.got = z.got
               /\ y.tag = z.tag /\ y.known = z.known
<1>1. Polled(z) \in Locals
  BY DEF ClientRec, Locals, Polled
<1> QED  BY <1>1 DEF ClientRec, Locals, Polled

\* A client that has sent its request.
LEMMA BegunOK ==
    ASSUME NEW z \in ClientRec, NEW tag \in Tags, NEW p \in PortOrNull \ {MACH_PORT_NULL},
           NEW dest \in PortOrNull, NEW timeout \in Nat
    PROVE  LET y == Begun(z, tag, p, dest, timeout)
           IN  /\ y \in ClientRec /\ y.service = z.service
               /\ y.pc = "receive" /\ y.reply_port = p /\ y.got = NoMsg
               /\ y.tag = tag /\ y.known = z.known
<1>1. Begun(z, tag, p, dest, timeout) \in Locals
  BY DEF ClientRec, Locals, Begun, NoMsg
<1> QED  BY <1>1 DEF ClientRec, Locals, Begun, NoMsg

\* A client whose call has returned m.
LEMMA EndedOK ==
    ASSUME NEW z \in ClientRec, NEW m \in Message \cup {NoMsg}, NEW known \in PortOrNull
    PROVE  LET y == Ended(z, m, known)
           IN  /\ y \in ClientRec /\ y.service = z.service
               /\ y.pc = "idle" /\ y.got = m /\ y.known = known
               /\ m # NoMsg => y.tag = z.tag
<1> DEFINE tag == IF m = NoMsg THEN NoTag ELSE z.tag
           w == Idle(z.service, known, m, tag)
<1>1. z.service \in PortOrNull /\ tag \in Tags \cup {NoTag} /\ (m # NoMsg => tag = z.tag)
      /\ MACH_PORT_NULL \in PortOrNull
  BY DEF ClientRec, Locals, PortOrNull
<1> HIDE DEF tag
<1>2. w \in ClientRec /\ w.service = z.service /\ w.pc = "idle" /\ w.got = m
      /\ w.known = known /\ w.tag = tag
  BY <1>1 DEF Idle, ClientRec, Locals
<1> QED  BY <1>1, <1>2 DEF Ended, tag

-----------------------------------------------------------------------------
(* The parts of the invariant, step by step *)

\* bootstrap_register adds at most one entry, under a name that has none.
TableStep ==
    \/ ipc_service_table' = ipc_service_table
    \/ \E e \in Entry : /\ Bound(e.name) = {} /\ Len(ipc_service_table) < IPC_MAX_SERVICES
                        /\ ipc_service_table' = Append(ipc_service_table, e)

\* A binding stays what it is.
LEMMA TableGrows ==
    ASSUME TableOK, TableStep
    PROVE  /\ TableOK'
           /\ \A i \in DOMAIN ipc_service_table :
                 /\ i \in DOMAIN ipc_service_table'
                 /\ ipc_service_table'[i] = ipc_service_table[i]
           /\ \A name, i : Bound(name) = {i} => Bound(name)' = {i}
<1>1. CASE ipc_service_table' = ipc_service_table
  <2>1. \A name : Bound(name)' = Bound(name)
    BY <1>1 DEF Bound
  <2>2. TableOK'
    BY <1>1 DEF TableOK
  <2>3. \A name, i : Bound(name) = {i} => Bound(name)' = {i}
    BY <2>1
  <2>4. \A i \in DOMAIN ipc_service_table :
           /\ i \in DOMAIN ipc_service_table'
           /\ ipc_service_table'[i] = ipc_service_table[i]
    BY <1>1
  <2> QED  BY <2>2, <2>3, <2>4
<1>2. ASSUME NEW e \in Entry, Bound(e.name) = {}, Len(ipc_service_table) < IPC_MAX_SERVICES,
             ipc_service_table' = Append(ipc_service_table, e)
      PROVE  /\ TableOK'
             /\ \A i \in DOMAIN ipc_service_table :
                   /\ i \in DOMAIN ipc_service_table'
                   /\ ipc_service_table'[i] = ipc_service_table[i]
             /\ \A name, i : Bound(name) = {i} => Bound(name)' = {i}
  <2> DEFINE n == Len(ipc_service_table)
  <2>1. /\ n \in Nat /\ DOMAIN ipc_service_table = 1 .. n
        /\ ipc_service_table' \in Seq(Entry) /\ Len(ipc_service_table') = n + 1
        /\ DOMAIN ipc_service_table' = 1 .. n + 1
        /\ ipc_service_table'[n + 1] = e
        /\ \A i \in 1 .. n : ipc_service_table'[i] = ipc_service_table[i]
    BY <1>2 DEF TableOK
  <2>2. n < IPC_MAX_SERVICES
    BY <1>2
  <2>3. \A i \in 1 .. n : ipc_service_table[i].name # e.name
    BY <1>2, <2>1 DEF Bound
  <2> HIDE DEF n
  <2>4. \A name : Bound(name)' = Bound(name) \cup {i \in {n + 1} : e.name = name}
    BY <2>1 DEF Bound
  <2>5. \A name, i : Bound(name) = {i} => Bound(name)' = {i}
    <3> SUFFICES ASSUME NEW name, NEW i, Bound(name) = {i} PROVE Bound(name)' = {i}
      OBVIOUS
    <3>1. name # e.name
      BY <1>2
    <3> QED  BY <2>4, <3>1
  <2>6. \A i, j \in DOMAIN ipc_service_table' :
           ipc_service_table'[i].name = ipc_service_table'[j].name => i = j
    BY <2>1, <2>3 DEF TableOK
  <2>7. Len(ipc_service_table') <= IPC_MAX_SERVICES
    BY <2>1, <2>2, BootstrapAssumption
  <2>8. TableOK'
    BY <2>1, <2>6, <2>7 DEF TableOK
  <2>9. \A i \in DOMAIN ipc_service_table :
           /\ i \in DOMAIN ipc_service_table'
           /\ ipc_service_table'[i] = ipc_service_table[i]
    BY <2>1
  <2> QED  BY <2>5, <2>8, <2>9
<1> QED  BY <1>1, <1>2 DEF TableStep

\* What was a good message stays one.
LEMMA GoodGrows ==
    ASSUME TableOK, TableStep, CallsOK, calls' \in Nat, calls <= calls'
    PROVE  GoodMessage \subseteq GoodMessage'
<1> SUFFICES ASSUME NEW m \in GoodMessage PROVE m \in GoodMessage'
  OBVIOUS
<1>1. m \in Message /\ m.tag[2] \in Nat /\ m.tag[2] <= calls
  <2>1. m \in Message /\ m.tag[2] <= calls
    BY DEF GoodMessage
  <2>2. m.tag \in Clients \X (1 .. MaxCalls)
    BY <2>1, MessageOK DEF Tags
  <2> QED  BY <2>1, <2>2
<1>2. m.tag[2] <= calls'
  BY <1>1 DEF CallsOK
<1>3. ASSUME m.type = "reply", m.port # MACH_PORT_NULL
      PROVE  \E i \in DOMAIN ipc_service_table' :
                  ipc_service_table'[i].port = m.port /\ Bound(m.name)' = {i}
  <2>1. PICK i \in DOMAIN ipc_service_table :
                ipc_service_table[i].port = m.port /\ Bound(m.name) = {i}
    BY <1>3 DEF GoodMessage
  <2> QED  BY <2>1, TableGrows
<1>4. m.type = "request" => /\ m.local \in Names \ {ipc_bootstrap_port}
                            /\ m.id = "REGISTER" => m.name \in ServiceNames
  BY DEF GoodMessage
<1> QED  BY <1>1, <1>2, <1>3, <1>4 DEF GoodMessage

\* bootstrap_lookup returns the port of the only entry of that name.
LEMMA LookedUpOK ==
    ASSUME TableOK, NEW name
    PROVE  /\ LookedUp(name) \in PortOrNull
           /\ LookedUp(name) # MACH_PORT_NULL =>
                 \E i \in DOMAIN ipc_service_table :
                     ipc_service_table[i].port = LookedUp(name) /\ Bound(name) = {i}
<1>1. CASE Bound(name) = {}
  BY <1>1 DEF LookedUp, PortOrNull
<1>2. CASE Bound(name) # {}
  <2>1. PICK i \in DOMAIN ipc_service_table : i \in Bound(name)
    BY <1>2 DEF Bound
  <2>2. Bound(name) = {i}
    BY <2>1 DEF Bound, TableOK
  <2>3. i \in Nat
    BY <2>1 DEF TableOK
  <2>4. FirstBound(name) = i
    BY <2>2, <2>3 DEF FirstBound
  <2>5. LookedUp(name) = ipc_service_table[i].port
    BY <1>2, <2>4 DEF LookedUp
  <2>6. ipc_service_table[i] \in Entry
    BY <2>1 DEF TableOK
  <2>7. ipc_service_table[i].port \in PortOrNull
    BY <2>6 DEF Entry, PortOrNull
  <2> QED  BY <2>1, <2>2, <2>5, <2>7
<1> QED  BY <1>1, <1>2

\* The answers of the kernel and of services are good messages.
LEMMA AnswerOK ==
    ASSUME TableOK, NEW m \in GoodMessage
    PROVE  /\ HandledReply(m) \in GoodMessage /\ Reply(m, MACH_PORT_NULL) \in GoodMessage
           /\ HandledReply(m).type = "reply" /\ HandledReply(m).tag = m.tag
           /\ Reply(m, MACH_PORT_NULL).type = "reply" /\ Reply(m, MACH_PORT_NULL).tag = m.tag
           /\ HandledReply(m).port \in {MACH_PORT_NULL, LookedUp(m.name)}
           /\ Reply(m, MACH_PORT_NULL).port = MACH_PORT_NULL
<1>1. m \in Message /\ m.tag[2] <= calls
  BY DEF GoodMessage
<1> DEFINE p == IF m.id = "LOOKUP" THEN LookedUp(m.name) ELSE MACH_PORT_NULL
<1>2. /\ p \in PortOrNull /\ p \in {MACH_PORT_NULL, LookedUp(m.name)}
      /\ p # MACH_PORT_NULL => \E i \in DOMAIN ipc_service_table :
                                  ipc_service_table[i].port = p /\ Bound(m.name) = {i}
  BY LookedUpOK DEF PortOrNull
<1>3. HandledReply(m) = Reply(m, p)
  BY DEF HandledReply
<1> HIDE DEF p
<1>4. MACH_PORT_NULL \in PortOrNull
  BY DEF PortOrNull
<1>5. /\ Reply(m, p) \in Message /\ Reply(m, p).type = "reply" /\ Reply(m, p).name = m.name
      /\ Reply(m, p).port = p /\ Reply(m, p).tag = m.tag
  BY <1>1, <1>2, ReplyOK
<1>6. /\ Reply(m, MACH_PORT_NULL) \in Message /\ Reply(m, MACH_PORT_NULL).type = "reply"
      /\ Reply(m, MACH_PORT_NULL).port = MACH_PORT_NULL /\ Reply(m, MACH_PORT_NULL).tag = m.tag
  BY <1>1, <1>4, ReplyOK
<1>7. Reply(m, p) \in GoodMessage
  BY <1>1, <1>2, <1>5 DEF GoodMessage
<1>8. Reply(m, MACH_PORT_NULL) \in GoodMessage
  BY <1>1, <1>6 DEF GoodMessage
<1> QED  BY <1>2, <1>3, <1>5, <1>6, <1>7, <1>8

\* A step that changes one client.
LEMMA ClientChange ==
    ASSUME ClientsOK, NEW c \in Clients, NEW y \in ClientRec,
           client' = [client EXCEPT ![c] = y],
           y.got \in GoodMessage' \cup {NoMsg}, GoodMessage \subseteq GoodMessage'
    PROVE  /\ ClientsOK' /\ client'[c] = y
           /\ \A d \in Clients \ {c} : client'[d] = client[d]
           /\ \A d \in Clients : \A p : d # c =>
                 /\ Serves(client', d, p) <=> Serves(client, d, p)
                 /\ Awaits(client', d, p) <=> Awaits(client, d, p)
           /\ \A p : /\ Serves(client', c, p) <=> y.service = p /\ p # MACH_PORT_NULL
                     /\ Awaits(client', c, p) <=> y.pc = "receive" /\ y.reply_port = p
<1>1. client'[c] = y /\ \A d \in Clients \ {c} : client'[d] = client[d]
  BY DEF ClientsOK
<1>2. ClientsOK'
  BY <1>1 DEF ClientsOK
<1> QED  BY <1>1, <1>2 DEF Serves, Awaits

\* The kernel's queue: untouched, one request taken, one request more.
LEMMA QueueSame ==
    ASSUME QueueOK, ports'[ipc_bootstrap_port] = ports[ipc_bootstrap_port], handled' = handled
    PROVE  QueueOK'
BY DEF QueueOK, RequestsHandledOnce

\* The loop takes the oldest request, which is answered from then on.
LEMMA QueueTaken ==
    ASSUME NInv, NEW q, HasMessage(ports, ipc_bootstrap_port),
           q = Taken(ports, ipc_bootstrap_port),
           ports'[ipc_bootstrap_port] = q[ipc_bootstrap_port],
           handled' = handled \cup {Head(ports[ipc_bootstrap_port]).tag}
    PROVE  QueueOK'
<1> DEFINE s == ports[ipc_bootstrap_port]
           t == q[ipc_bootstrap_port]
<1>1. \A i \in DOMAIN t : t[i] = s[i + 1] /\ i + 1 \in DOMAIN s
  BY TakeOK DEF NInv
<1>2. s # <<>> /\ ipc_bootstrap_port \in DOMAIN ports
  BY DEF HasMessage
<1>3. Head(s) = s[1] /\ 1 \in DOMAIN s /\ DOMAIN s = 1 .. Len(s) /\ Len(s) \in Nat
  BY <1>2, SpaceHolds DEF NInv
<1>4. /\ \A i \in DOMAIN s : s[i].type = "request" /\ s[i].tag \notin handled
      /\ \A i, j \in DOMAIN s : s[i].tag = s[j].tag => i = j
  BY DEF NInv, QueueOK, RequestsHandledOnce
<1>5. DOMAIN t \subseteq Nat /\ t = ports'[ipc_bootstrap_port]
      /\ handled' = handled \cup {s[1].tag}
  <2>1. t \in Seq(GoodMessage)
    BY <1>2, TakeOK DEF NInv, IsSpace
  <2> QED  BY <1>3, <2>1
<1> HIDE DEF s, t
<1>6. \A i \in DOMAIN t : i \in Nat /\ i + 1 # 1
  <2> SUFFICES ASSUME NEW i \in DOMAIN t PROVE i \in Nat /\ i + 1 # 1
    OBVIOUS
  <2>1. i \in Nat
    BY <1>5
  <2>2. i # 0
    <3>1. t \in Seq(GoodMessage)
      BY <1>2, TakeOK DEF NInv, IsSpace, t
    <3> QED  BY <3>1
  <2> QED  BY <2>1, <2>2
<1>7. \A i \in DOMAIN t : t[i].type = "request" /\ t[i].tag \notin handled /\ t[i].tag # s[1].tag
  BY <1>1, <1>3, <1>4, <1>6
<1>8. \A i, j \in DOMAIN t : t[i].tag = t[j].tag => i = j
  <2> SUFFICES ASSUME NEW i \in DOMAIN t, NEW j \in DOMAIN t, t[i].tag = t[j].tag PROVE i = j
    OBVIOUS
  <2>1. i + 1 = j + 1
    BY <1>1, <1>4
  <2> QED  BY <1>6, <2>1
<1> QED  BY <1>5, <1>7, <1>8 DEF QueueOK, RequestsHandledOnce

\* A new request joins the kernel's queue under a tag nobody has used.
LEMMA QueueSent ==
    ASSUME NInv, NEW m, m.type = "request", m.tag[2] = calls + 1, handled' = handled,
           \/ ports'[ipc_bootstrap_port] = ports[ipc_bootstrap_port]
           \/ ports'[ipc_bootstrap_port] = Append(ports[ipc_bootstrap_port], m)
    PROVE  QueueOK'
<1> DEFINE s == ports[ipc_bootstrap_port]
           t == ports'[ipc_bootstrap_port]
<1>1. CASE t = s
  BY <1>1, QueueSame DEF NInv
<1>2. CASE t = Append(s, m)
  <2>1. s \in Seq(GoodMessage) /\ calls \in Nat
    BY KernelQueue DEF NInv, IsSpace, CallsOK
  <2>2. /\ \A i \in DOMAIN s : s[i].type = "request" /\ s[i].tag \notin handled
        /\ \A i, j \in DOMAIN s : s[i].tag = s[j].tag => i = j
    BY DEF NInv, QueueOK, RequestsHandledOnce
  <2>3. m.tag \notin handled
    BY <2>1 DEF NInv, CallsOK
  <2>4. \A i \in DOMAIN s : s[i].tag # m.tag
    <3> SUFFICES ASSUME NEW i \in DOMAIN s PROVE s[i].tag[2] <= calls
      BY <2>1
    <3>1. s[i] \in GoodMessage
      BY <2>1
    <3> QED  BY <3>1 DEF GoodMessage
  <2> HIDE DEF s
  <2>5. /\ DOMAIN t = 1 .. Len(s) + 1 /\ DOMAIN s = 1 .. Len(s) /\ Len(s) \in Nat
        /\ \A i \in DOMAIN s : t[i] = s[i]
        /\ t[Len(s) + 1] = m
    BY <1>2, <2>1
  <2> HIDE DEF t
  <2>6. \A i \in DOMAIN t : t[i].type = "request" /\ t[i].tag \notin handled
    BY <2>2, <2>3, <2>5
  <2>7. \A i, j \in DOMAIN t : t[i].tag = t[j].tag => i = j
    BY <2>2, <2>4, <2>5
  <2> QED  BY <2>6, <2>7 DEF QueueOK, RequestsHandledOnce, t
<1> QED  BY <1>1, <1>2

-----------------------------------------------------------------------------
(* Every step keeps the invariant *)

\* Steps that leave the table and the answered requests as they are.
LEMMA CallsStep ==
    ASSUME NInv, UNCHANGED <<ipc_service_table, handled>>,
           calls' = calls \/ (calls < MaxCalls /\ calls' = calls + 1)
    PROVE  GoodMessage \subseteq GoodMessage' /\ TableOK' /\ CallsOK'
<1>1. calls \in Nat /\ calls' \in 0 .. MaxCalls /\ calls <= calls'
  BY BootstrapAssumption DEF NInv, CallsOK
<1>2. TableStep
  BY DEF TableStep
<1>3. GoodMessage \subseteq GoodMessage' /\ TableOK'
  BY <1>1, <1>2, GoodGrows, TableGrows DEF NInv
<1>4. \A t \in handled : t[2] \in Nat
  BY DEF NInv, CallsOK, Tags
<1>5. CallsOK'
  BY <1>1, <1>4 DEF NInv, CallsOK
<1> QED  BY <1>3, <1>5

\* The request the kernel is about to answer.
LEMMA FirstRequest ==
    ASSUME NInv, HasMessage(ports, ipc_bootstrap_port)
    PROVE  LET m == Head(ports[ipc_bootstrap_port])
           IN  /\ m \in GoodMessage /\ m \in Message /\ m.type = "request"
               /\ m = ports[ipc_bootstrap_port][1] /\ 1 \in DOMAIN ports[ipc_bootstrap_port]
               /\ m.local \in Names \ {ipc_bootstrap_port} /\ m.local # MACH_PORT_NULL
               /\ m.id = "REGISTER" => m.name \in ServiceNames
               /\ m.tag \in Tags /\ m.tag[1] \in Clients
               /\ m.tag[2] \in Nat /\ m.tag[2] <= calls
<1> DEFINE m == Head(ports[ipc_bootstrap_port])
<1>1. ports[ipc_bootstrap_port] # <<>> /\ ipc_bootstrap_port \in DOMAIN ports
  BY DEF HasMessage
<1>2. /\ m \in GoodMessage /\ m = ports[ipc_bootstrap_port][1]
      /\ 1 \in DOMAIN ports[ipc_bootstrap_port]
  BY <1>1, SpaceHolds DEF NInv
<1>3. m.type = "request"
  BY <1>2 DEF NInv, QueueOK
<1> HIDE DEF m
<1>4. m \in Message /\ m.local \in Names \ {ipc_bootstrap_port} /\ m.tag[2] <= calls
      /\ (m.id = "REGISTER" => m.name \in ServiceNames)
  BY <1>2, <1>3 DEF GoodMessage
<1>5. m.tag \in Tags
  BY <1>4, MessageOK
<1>6. m.tag[1] \in Clients /\ m.tag[2] \in Nat
  BY <1>5 DEF Tags
<1>7. m.local # MACH_PORT_NULL
  BY <1>4 DEF Names, MACH_PORT_NULL
<1> QED  BY <1>2, <1>3, <1>4, <1>5, <1>6, <1>7 DEF m

\* One turn of the dispatch loop: what it sends and what it registers.
LEMMA LoopStep ==
    ASSUME NInv, mxwl_kernel_loop
    PROVE  LET m == Head(ports[ipc_bootstrap_port])
               q == Taken(ports, ipc_bootstrap_port)
           IN  /\ IsSpace(q, GoodMessage)
               /\ ports' = SendResult(q, m.local, HandledReply(m)).space
               /\ IsSpace(ports', GoodMessage) /\ Delivered(q, ports', m.local, HandledReply(m))
               /\ TableStep /\ TableOK' /\ GoodMessage \subseteq GoodMessage'
               /\ ipc_service_table' # ipc_service_table =>
                     /\ m.id = "REGISTER"
                     /\ ipc_service_table' = Append(ipc_service_table,
                            [name |-> m.name, port |-> m.local, owner |-> m.tag[1]])
<1> DEFINE m == Head(ports[ipc_bootstrap_port])
           q == Taken(ports, ipc_bootstrap_port)
           e == [name |-> m.name, port |-> m.local, owner |-> m.tag[1]]
<1>1. HasMessage(ports, ipc_bootstrap_port) /\ UNCHANGED calls
  BY DEF mxwl_kernel_loop
<1>2. IsSpace(q, GoodMessage)
  BY <1>1, TakeOK DEF NInv
<1>3. /\ m \in GoodMessage /\ m.local \in Names /\ m.local # MACH_PORT_NULL
      /\ m.id = "REGISTER" => m.name \in ServiceNames
      /\ m.tag[1] \in Clients
  BY <1>1, FirstRequest
<1>4. ports' = SendResult(q, m.local, HandledReply(m)).space
  BY <1>3 DEF mxwl_kernel_loop
<1>5. HandledReply(m) \in GoodMessage
  BY <1>3, AnswerOK DEF NInv
<1>6. ipc_service_table' = IF m.id = "REGISTER" THEN Registered(m.name, m.local, m.tag[1])
                           ELSE ipc_service_table
  BY DEF mxwl_kernel_loop
<1> HIDE DEF m, q
<1>7. IsSpace(ports', GoodMessage) /\ Delivered(q, ports', m.local, HandledReply(m))
  BY <1>2, <1>4, <1>5, SendOK
<1>8. \/ ipc_service_table' = ipc_service_table
      \/ /\ m.id = "REGISTER" /\ Bound(m.name) = {}
         /\ ~(Len(ipc_service_table) >= IPC_MAX_SERVICES)
         /\ ipc_service_table' = Append(ipc_service_table, e)
  BY <1>6 DEF Registered
<1>9. Len(ipc_service_table) \in Nat /\ calls \in Nat
  BY DEF NInv, TableOK, CallsOK
<1>10. m.id = "REGISTER" => e \in Entry /\ e.name = m.name
  BY <1>3 DEF Entry
<1> HIDE DEF e
<1>11. TableStep
  <2>1. CASE /\ m.id = "REGISTER" /\ Bound(m.name) = {}
             /\ ~(Len(ipc_service_table) >= IPC_MAX_SERVICES)
             /\ ipc_service_table' = Append(ipc_service_table, e)
    <3>1. Len(ipc_service_table) < IPC_MAX_SERVICES
      BY <1>9, <2>1, BootstrapAssumption
    <3>2. e \in Entry /\ Bound(e.name) = {}
      BY <1>10, <2>1
    <3> QED  BY <2>1, <3>1, <3>2 DEF TableStep
  <2> QED  BY <1>8, <2>1 DEF TableStep
<1>12. TableOK' /\ GoodMessage \subseteq GoodMessage'
  BY <1>1, <1>9, <1>11, GoodGrows, TableGrows DEF NInv
<1> QED  BY <1>2, <1>4, <1>7, <1>8, <1>11, <1>12 DEF m, q, e

\* The dispatch loop answers one request.
LEMMA LoopKeeps ==
    ASSUME NInv, mxwl_kernel_loop
    PROVE  NInv'
<1> DEFINE m == Head(ports[ipc_bootstrap_port])
           q == Taken(ports, ipc_bootstrap_port)
<1>1. /\ HasMessage(ports, ipc_bootstrap_port) /\ UNCHANGED <<client, calls>>
      /\ handled' = handled \cup {m.tag}
  BY DEF mxwl_kernel_loop
<1>2. /\ IsSpace(ports', GoodMessage) /\ Delivered(q, ports', m.local, HandledReply(m))
      /\ TableOK' /\ GoodMessage \subseteq GoodMessage'
  BY LoopStep
<1>3. /\ DOMAIN q = DOMAIN ports /\ ipc_bootstrap_port \in DOMAIN ports
      /\ ipc_bootstrap_port \in Names
  BY <1>1, TakeOK, KernelQueue DEF NInv
<1>4. m.local # ipc_bootstrap_port /\ m.tag \in Tags /\ m.tag[2] <= calls
  BY <1>1, FirstRequest
<1>5. DOMAIN ports' = DOMAIN ports /\ ports'[ipc_bootstrap_port] = q[ipc_bootstrap_port]
  BY <1>2, <1>3, <1>4 DEF Delivered
<1>6. QueueOK'
  BY <1>1, <1>5, QueueTaken
<1> HIDE DEF m, q
<1>7. CallsOK'
  BY <1>1, <1>4 DEF NInv, CallsOK
<1>8. ClientsOK'
  BY <1>1, <1>2 DEF NInv, ClientsOK
<1>9. PortsOwned(ports', client')
  BY <1>1, <1>3, <1>5, OwnSame DEF NInv
<1>10. IsSpace(ports', GoodMessage')
  BY <1>2, SpaceGrows
<1> QED  BY <1>2, <1>6, <1>7, <1>8, <1>9, <1>10 DEF NInv

\* A client opens the port of its service.
LEMMA OpenServiceKeeps ==
    ASSUME NInv, NEW c \in Clients, OpenService(c)
    PROVE  NInv'
<1> DEFINE p == FreshName(ports)
           y == WithService(client[c], p)
<1>1. /\ ~Full(ports) /\ ports' = Opened(ports, p) /\ client[c].service = MACH_PORT_NULL
      /\ client' = [client EXCEPT ![c].service = p]
      /\ UNCHANGED <<ipc_service_table, calls, handled>>
  BY DEF OpenService
<1>2. p \in Names \ DOMAIN ports
  BY <1>1, FreshNameOK DEF NInv, IsSpace
<1>3. client[c] \in ClientRec
  BY DEF NInv, ClientsOK
<1> HIDE DEF p
<1>4. p \in PortOrNull /\ p # MACH_PORT_NULL
  BY <1>2 DEF PortOrNull, Names, MACH_PORT_NULL
<1>5. client' = [client EXCEPT ![c] = y]
  BY <1>1 DEF WithService
<1>6. /\ y \in ClientRec /\ y.service = p /\ y.got = client[c].got
      /\ y.pc = client[c].pc /\ y.reply_port = client[c].reply_port
  BY <1>3, <1>4, WithServiceOK
<1> HIDE DEF y
<1>7. GoodMessage \subseteq GoodMessage' /\ TableOK' /\ CallsOK'
  BY <1>1, CallsStep
<1>8. y.got \in GoodMessage' \cup {NoMsg}
  BY <1>6, <1>7 DEF NInv, ClientsOK
<1>9. /\ ClientsOK'
      /\ \A d \in Clients : \A x : d # c =>
            /\ Serves(client', d, x) <=> Serves(client, d, x)
            /\ Awaits(client', d, x) <=> Awaits(client, d, x)
      /\ \A x : /\ Serves(client', c, x) <=> y.service = x /\ x # MACH_PORT_NULL
                /\ Awaits(client', c, x) <=> y.pc = "receive" /\ y.reply_port = x
  BY <1>5, <1>6, <1>7, <1>8, ClientChange DEF NInv
<1>10. \A d \in Clients : \A x \in Names :
          /\ Serves(client', d, x) <=> Serves(client, d, x) \/ (d = c /\ x = p)
          /\ Awaits(client', d, x) <=> Awaits(client, d, x)
  BY <1>1, <1>4, <1>6, <1>9 DEF Serves, Awaits
<1>11. /\ IsSpace(ports', GoodMessage) /\ DOMAIN ports' = DOMAIN ports \cup {p}
       /\ \A x \in DOMAIN ports : ports'[x] = ports[x]
  <2>1. IsSpace(ports, GoodMessage)
    BY DEF NInv
  <2>2. /\ IsSpace(Opened(ports, p), GoodMessage)
        /\ DOMAIN Opened(ports, p) = DOMAIN ports \cup {p}
        /\ \A x \in DOMAIN ports : Opened(ports, p)[x] = ports[x]
    <3>1. p \in Names /\ p \notin DOMAIN ports
      BY <1>2
    <3>2. IsSpace(Opened(ports, p), GoodMessage)
      BY <2>1, <3>1, OpenOK
    <3>3. DOMAIN Opened(ports, p) = DOMAIN ports \cup {p}
      BY <2>1, <3>1, OpenOK
    <3>4. \A x \in DOMAIN ports : Opened(ports, p)[x] = ports[x]
      BY <3>1 DEF Opened
    <3> QED  BY <3>2, <3>3, <3>4
  <2> QED  BY <1>1, <2>2
<1>12. ipc_bootstrap_port \in Names /\ ipc_bootstrap_port \in DOMAIN ports
  BY KernelQueue
<1>13. PortsOwned(ports', client')
  BY <1>2, <1>10, <1>11, <1>12, OwnMore DEF NInv
<1>14. QueueOK'
  BY <1>1, <1>11, <1>12, QueueSame DEF NInv
<1>15. IsSpace(ports', GoodMessage')
  BY <1>7, <1>11, SpaceGrows
<1> QED  BY <1>7, <1>9, <1>13, <1>14, <1>15 DEF NInv

\* A client closes the port of its service.
LEMMA CloseServiceKeeps ==
    ASSUME NInv, NEW c \in Clients, CloseService(c)
    PROVE  NInv'
<1> DEFINE p == client[c].service
           y == WithService(client[c], MACH_PORT_NULL)
<1>1. /\ ports' = Closed(ports, p) /\ p # MACH_PORT_NULL
      /\ client' = [client EXCEPT ![c].service = MACH_PORT_NULL]
      /\ UNCHANGED <<ipc_service_table, calls, handled>>
  BY DEF CloseService
<1>2. client[c] \in ClientRec /\ MACH_PORT_NULL \in PortOrNull
  BY DEF NInv, ClientsOK, PortOrNull
<1>3. p \in Names
  BY <1>1, <1>2 DEF ClientRec, Locals, PortOrNull
<1>4. Serves(client, c, p) /\ \A x \in Names : Serves(client, c, x) => x = p
  BY <1>1 DEF Serves
<1> HIDE DEF p
<1>5. client' = [client EXCEPT ![c] = y]
  BY <1>1 DEF WithService
<1>6. /\ y \in ClientRec /\ y.service = MACH_PORT_NULL /\ y.got = client[c].got
      /\ y.pc = client[c].pc /\ y.reply_port = client[c].reply_port
  BY <1>2, WithServiceOK
<1> HIDE DEF y
<1>7. GoodMessage \subseteq GoodMessage' /\ TableOK' /\ CallsOK'
  BY <1>1, CallsStep
<1>8. y.got \in GoodMessage' \cup {NoMsg}
  BY <1>6, <1>7 DEF NInv, ClientsOK
<1>9. /\ ClientsOK'
      /\ \A d \in Clients : \A x : d # c =>
            /\ Serves(client', d, x) <=> Serves(client, d, x)
            /\ Awaits(client', d, x) <=> Awaits(client, d, x)
      /\ \A x : /\ Serves(client', c, x) <=> y.service = x /\ x # MACH_PORT_NULL
                /\ Awaits(client', c, x) <=> y.pc = "receive" /\ y.reply_port = x
  BY <1>5, <1>6, <1>7, <1>8, ClientChange DEF NInv
<1>10. \A d \in Clients : \A x \in Names :
          /\ Serves(client', d, x) <=> Serves(client, d, x) /\ d # c
          /\ Awaits(client', d, x) <=> Awaits(client, d, x)
  BY <1>6, <1>9 DEF Awaits
<1>11. /\ IsSpace(ports', GoodMessage) /\ DOMAIN ports' = DOMAIN ports \ {p}
       /\ \A x \in DOMAIN ports' : ports'[x] = ports[x]
  <2>1. IsSpace(ports, GoodMessage)
    BY DEF NInv
  <2> QED  BY <1>1, <2>1, CloseOK, SMTT(30)
<1>12. ipc_bootstrap_port \in Names /\ ipc_bootstrap_port \in DOMAIN ports
  BY KernelQueue
<1>13. PortsOwned(ports', client')
  BY <1>3, <1>4, <1>10, <1>11, <1>12, OwnLess DEF NInv
<1>14. p # ipc_bootstrap_port
  BY <1>4 DEF NInv, PortsOwned
<1>15. QueueOK'
  BY <1>1, <1>11, <1>12, <1>14, QueueSame DEF NInv
<1>16. IsSpace(ports', GoodMessage')
  BY <1>7, <1>11, SpaceGrows
<1> QED  BY <1>7, <1>9, <1>13, <1>15, <1>16 DEF NInv

\* A request of a call that is about to start is a good message from then on.
LEMMA NewRequestOK ==
    ASSUME NInv, NEW c \in Clients, Call(c), NEW name \in ServiceNames \cup {NoName},
           NEW id \in {"LOOKUP", "UNKNOWN", "REGISTER", "SERVICE"},
           id = "REGISTER" => name \in ServiceNames,
           NEW p \in Names \ {ipc_bootstrap_port}
    PROVE  LET m == Request(id, name, p, NextTag(c))
           IN  /\ m \in GoodMessage' /\ m.type = "request" /\ m.tag = NextTag(c)
               /\ m.id = id /\ m.local = p
               /\ NextTag(c) \in Tags /\ m.tag[2] = calls + 1
<1> DEFINE m == Request(id, name, p, NextTag(c))
<1>1. calls < MaxCalls /\ calls' = calls + 1 /\ calls \in Nat
  BY DEF Call, NInv, CallsOK
<1>2. NextTag(c) \in Tags /\ NextTag(c)[2] = calls + 1
  BY <1>1, BootstrapAssumption DEF NextTag, Tags
<1>3. p \in PortOrNull
  BY DEF PortOrNull
<1>4. /\ m \in Message /\ m.type = "request" /\ m.id = id /\ m.name = name
      /\ m.local = p /\ m.tag = NextTag(c)
  BY <1>2, <1>3, RequestOK
<1> HIDE DEF m
<1>5. m.tag[2] <= calls'
  BY <1>1, <1>2, <1>4
<1>6. m \in GoodMessage'
  BY <1>4, <1>5 DEF GoodMessage
<1> QED  BY <1>2, <1>4, <1>6 DEF m

\* A client asks for a name to be registered.
LEMMA RegisterKeeps ==
    ASSUME NInv, NEW c \in Clients, NEW name \in ServiceNames, SendRegister(c, name)
    PROVE  NInv'
<1> DEFINE p == client[c].service
           m == Request("REGISTER", name, p, NextTag(c))
<1>1. /\ Call(c) /\ p # MACH_PORT_NULL
      /\ ports' = SendResult(ports, ipc_bootstrap_port, m).space
      /\ UNCHANGED <<ipc_service_table, client, handled>>
      /\ calls < MaxCalls /\ calls' = calls + 1
  BY DEF SendRegister, Call
<1>2. p \in Names \ {ipc_bootstrap_port}
  <2>1. p \in Names
    BY <1>1 DEF NInv, ClientsOK, ClientRec, Locals, PortOrNull
  <2>2. Serves(client, c, p)
    BY <1>1 DEF Serves
  <2> QED  BY <2>1, <2>2 DEF NInv, PortsOwned
<1>3. m \in GoodMessage' /\ m.type = "request" /\ m.tag[2] = calls + 1
  BY <1>1, <1>2, NewRequestOK
<1>4. GoodMessage \subseteq GoodMessage' /\ TableOK' /\ CallsOK'
  BY <1>1, CallsStep
<1> HIDE DEF m, p
<1>5. IsSpace(ports, GoodMessage')
  BY <1>4, SpaceGrows DEF NInv
<1>6. IsSpace(ports', GoodMessage') /\ Delivered(ports, ports', ipc_bootstrap_port, m)
  BY <1>1, <1>3, <1>5, SendOK
<1>7. ipc_bootstrap_port \in Names /\ ipc_bootstrap_port \in DOMAIN ports
  BY KernelQueue
<1>8. QueueOK'
  BY <1>1, <1>3, <1>6, <1>7, QueueSent DEF Delivered
<1>9. PortsOwned(ports', client')
  BY <1>1, <1>6, <1>7, OwnSame DEF NInv, Delivered
<1>10. ClientsOK'
  BY <1>1, <1>4 DEF NInv, ClientsOK
<1> QED  BY <1>4, <1>6, <1>8, <1>9, <1>10 DEF NInv

\* A call begins: the reply port, the request, and the early returns.
LEMMA CallKeeps ==
    ASSUME NInv, NEW c \in Clients, NEW dest \in PortOrNull,
           NEW id \in {"LOOKUP", "UNKNOWN", "SERVICE"},
           NEW name \in ServiceNames \cup {NoName}, NEW timeout \in Nat,
           mach_msg_rpc(c, dest, id, name, timeout)
    PROVE  NInv'
<1> DEFINE p == FreshName(ports)
           q == Opened(ports, p)
           m == Request(id, name, p, NextTag(c))
           r == SendResult(q, dest, m)
           y == Begun(client[c], NextTag(c), p, dest, timeout)
<1>1. /\ Call(c) /\ UNCHANGED <<ipc_service_table, handled>>
      /\ calls < MaxCalls /\ calls' = calls + 1
  BY DEF mach_msg_rpc, Call
<1>2. /\ GoodMessage \subseteq GoodMessage' /\ TableOK' /\ CallsOK'
      /\ ipc_bootstrap_port \in Names /\ ipc_bootstrap_port \in DOMAIN ports
  BY <1>1, CallsStep, KernelQueue
<1>3. IsSpace(ports, GoodMessage) /\ IsSpace(ports, GoodMessage')
  BY <1>2, SpaceGrows DEF NInv
<1>4. CASE UNCHANGED <<ports, client>>
  <2>1. QueueOK'
    BY <1>1, <1>4, QueueSame DEF NInv
  <2>2. PortsOwned(ports', client')
    BY <1>2, <1>4, OwnSame DEF NInv
  <2>3. ClientsOK'
    BY <1>2, <1>4 DEF NInv, ClientsOK
  <2> QED  BY <1>2, <1>3, <1>4, <2>1, <2>2, <2>3 DEF NInv
<1>5. CASE ~Full(ports)
  <2>1. p \in Names \ DOMAIN ports
    BY <1>3, <1>5, FreshNameOK DEF IsSpace
  <2>2. p \in Names \ {ipc_bootstrap_port}
    BY <1>2, <2>1
  <2>3. /\ m \in GoodMessage' /\ m.type = "request" /\ m.tag[2] = calls + 1
        /\ NextTag(c) \in Tags
    BY <1>1, <2>2, NewRequestOK
  <2>4. /\ IsSpace(q, GoodMessage') /\ DOMAIN q = DOMAIN ports \cup {p}
        /\ \A x \in DOMAIN ports : q[x] = ports[x]
        /\ Closed(q, p) = ports
    <3> HIDE DEF p
    <3>1. p \in Names /\ p \notin DOMAIN ports
      BY <2>1
    <3>2. IsSpace(q, GoodMessage')
      BY <1>3, <3>1, OpenOK
    <3>3. DOMAIN q = DOMAIN ports \cup {p}
      BY DEF Opened
    <3>4. \A x \in DOMAIN ports : q[x] = ports[x]
      BY <3>1 DEF Opened
    <3>5. Closed(q, p) = ports
      BY <1>3, <3>1, OpenOK
    <3> QED  BY <3>2, <3>3, <3>4, <3>5
  <2>5. /\ IsSpace(r.space, GoodMessage') /\ Delivered(q, r.space, dest, m)
        /\ r.kr # "KERN_SUCCESS" => r.space = q
    BY <2>3, <2>4, SendOK
  <2>6. \/ r.kr # "KERN_SUCCESS" /\ ports' = Closed(r.space, p) /\ UNCHANGED client
        \/ client' = [client EXCEPT ![c] = y] /\ ports' = r.space
    BY <1>5 DEF mach_msg_rpc
  <2>7. client[c] \in ClientRec /\ p \in PortOrNull /\ p # MACH_PORT_NULL
    BY <2>1 DEF NInv, ClientsOK, PortOrNull, Names, MACH_PORT_NULL
  <2> HIDE DEF p, q, m, r
  <2>8. CASE r.kr # "KERN_SUCCESS" /\ ports' = Closed(r.space, p) /\ UNCHANGED client
    BY <1>4, <2>4, <2>5, <2>8
  <2>9. CASE client' = [client EXCEPT ![c] = y] /\ ports' = r.space
    <3>1. /\ y \in ClientRec /\ y.service = client[c].service
          /\ y.pc = "receive" /\ y.reply_port = p /\ y.got = NoMsg
      BY <2>3, <2>7, BegunOK
    <3> HIDE DEF y
    <3>2. y.got \in GoodMessage' \cup {NoMsg}
      BY <3>1
    <3>3. /\ ClientsOK'
          /\ \A d \in Clients : \A x : d # c =>
                /\ Serves(client', d, x) <=> Serves(client, d, x)
                /\ Awaits(client', d, x) <=> Awaits(client, d, x)
          /\ \A x : /\ Serves(client', c, x) <=> y.service = x /\ x # MACH_PORT_NULL
                    /\ Awaits(client', c, x) <=> y.pc = "receive" /\ y.reply_port = x
      BY <1>2, <2>9, <3>1, <3>2, ClientChange DEF NInv
    <3>4. client[c].pc = "idle"
      BY <1>1 DEF Call
    <3>5. \A d \in Clients : \A x \in Names :
             /\ Serves(client', d, x) <=> Serves(client, d, x)
             /\ Awaits(client', d, x) <=> Awaits(client, d, x) \/ (d = c /\ x = p)
      BY <3>1, <3>3, <3>4 DEF Serves, Awaits
    <3>6. DOMAIN ports' = DOMAIN ports \cup {p}
      BY <2>4, <2>5, <2>9 DEF Delivered
    <3>7. PortsOwned(ports', client')
      BY <1>2, <2>1, <3>5, <3>6, OwnMore DEF NInv
    <3>8. \/ ports'[ipc_bootstrap_port] = ports[ipc_bootstrap_port]
          \/ ports'[ipc_bootstrap_port] = Append(ports[ipc_bootstrap_port], m)
      BY <1>2, <2>4, <2>5, <2>9 DEF Delivered
    <3>9. QueueOK'
      BY <1>1, <2>3, <3>8, QueueSent
    <3> QED  BY <1>2, <2>5, <2>9, <3>3, <3>7, <3>9 DEF NInv
  <2> QED  BY <2>6, <2>8, <2>9
<1>6. Full(ports) => UNCHANGED <<ports, client>>
  BY DEF mach_msg_rpc
<1> QED  BY <1>4, <1>5, <1>6

\* A poll: the answer, one more round, or the end of the call.
LEMMA ReceiveKeeps ==
    ASSUME NInv, NEW c \in Clients, mach_msg_receive(c)
    PROVE  NInv'
<1> DEFINE p == client[c].reply_port
<1>1. /\ client[c].pc = "receive" /\ UNCHANGED <<ipc_service_table, calls, handled>>
      /\ client[c] \in ClientRec /\ client[c].got \in GoodMessage \cup {NoMsg}
  BY DEF mach_msg_receive, NInv, ClientsOK
<1>2. /\ GoodMessage \subseteq GoodMessage' /\ TableOK' /\ CallsOK'
      /\ ipc_bootstrap_port \in Names /\ ipc_bootstrap_port \in DOMAIN ports
      /\ IsSpace(ports, GoodMessage)
  BY <1>1, CallsStep, KernelQueue DEF NInv
<1>3. Awaits(client, c, p) /\ p # ipc_bootstrap_port
      /\ \A x \in Names : Awaits(client, c, x) => x = p
  BY <1>1 DEF Awaits, NInv, PortsOwned
<1>4. \/ \E m \in GoodMessage \cup {NoMsg} :
             client' = Returned(c, m) /\ ports' = Closed(ports, p)
      \/ client' = [client EXCEPT ![c].polls = @ + 1] /\ UNCHANGED ports
  <2>1. HasMessage(ports, p) => Head(ports[p]) \in GoodMessage
    BY <1>2, SpaceHolds DEF HasMessage
  <2> QED  BY <2>1 DEF mach_msg_receive, Aborted
<1> HIDE DEF p
<1>5. ASSUME NEW m \in GoodMessage \cup {NoMsg},
             client' = Returned(c, m), ports' = Closed(ports, p)
      PROVE  NInv'
  <2> DEFINE y == Ended(client[c], m, Learned(c, m))
  <2>1. client' = [client EXCEPT ![c] = y]
    BY <1>5 DEF Returned
  <2>2. m \in Message \cup {NoMsg}
    BY DEF GoodMessage
  <2>3. Learned(c, m) \in PortOrNull
    <3>1. client[c].known \in PortOrNull
      BY <1>1 DEF ClientRec, Locals
    <3>2. m.type = "reply" => m.port \in PortOrNull
      BY <2>2, MessageOK DEF NoMsg
    <3> QED  BY <3>1, <3>2 DEF Learned
  <2>4. y \in ClientRec /\ y.service = client[c].service /\ y.pc = "idle" /\ y.got = m
    BY <1>1, <2>2, <2>3, EndedOK
  <2> HIDE DEF y
  <2>5. y.got \in GoodMessage' \cup {NoMsg}
    BY <1>2, <1>5, <2>4
  <2>6. /\ ClientsOK'
        /\ \A d \in Clients : \A x : d # c =>
              /\ Serves(client', d, x) <=> Serves(client, d, x)
              /\ Awaits(client', d, x) <=> Awaits(client, d, x)
        /\ \A x : /\ Serves(client', c, x) <=> y.service = x /\ x # MACH_PORT_NULL
                  /\ Awaits(client', c, x) <=> y.pc = "receive" /\ y.reply_port = x
    BY <1>2, <2>1, <2>4, <2>5, ClientChange DEF NInv
  <2>7. \A d \in Clients : \A x \in Names :
           /\ Serves(client', d, x) <=> Serves(client, d, x)
           /\ Awaits(client', d, x) <=> Awaits(client, d, x) /\ d # c
    BY <2>4, <2>6 DEF Serves
  <2>8. /\ IsSpace(ports', GoodMessage) /\ DOMAIN ports' = DOMAIN ports \ {p}
        /\ \A x \in DOMAIN ports' : ports'[x] = ports[x]
    <3>1. IsSpace(Closed(ports, p), GoodMessage)
      BY <1>2, CloseOK
    <3> QED  BY <1>5, <3>1 DEF Closed
  <2>9. PortsOwned(ports', client')
    <3>1. CASE p \in Names
      BY <1>2, <1>3, <2>7, <2>8, <3>1, OwnLess DEF NInv
    <3>2. CASE p \notin Names
      <4>1. DOMAIN ports' = DOMAIN ports
        BY <1>2, <2>8, <3>2 DEF IsSpace
      <4>2. \A x \in Names : ~Awaits(client, c, x)
        BY <1>3, <3>2
      <4> QED  BY <1>2, <2>7, <4>1, <4>2, OwnSame DEF NInv
    <3> QED  BY <3>1, <3>2
  <2>10. QueueOK'
    BY <1>1, <1>2, <1>3, <2>8, QueueSame DEF NInv
  <2>11. IsSpace(ports', GoodMessage')
    BY <1>2, <2>8, SpaceGrows
  <2> QED  BY <1>2, <2>6, <2>9, <2>10, <2>11 DEF NInv
<1>6. CASE client' = [client EXCEPT ![c].polls = @ + 1] /\ UNCHANGED ports
  <2> DEFINE y == Polled(client[c])
  <2>1. client' = [client EXCEPT ![c] = y]
    BY <1>6 DEF Polled
  <2>2. /\ y \in ClientRec /\ y.service = client[c].service /\ y.got = client[c].got
        /\ y.pc = client[c].pc /\ y.reply_port = client[c].reply_port
    BY <1>1, PolledOK
  <2> HIDE DEF y
  <2>3. y.got \in GoodMessage' \cup {NoMsg}
    BY <1>1, <1>2, <2>2
  <2>4. /\ ClientsOK'
        /\ \A d \in Clients : \A x : d # c =>
              /\ Serves(client', d, x) <=> Serves(client, d, x)
              /\ Awaits(client', d, x) <=> Awaits(client, d, x)
        /\ \A x : /\ Serves(client', c, x) <=> y.service = x /\ x # MACH_PORT_NULL
                  /\ Awaits(client', c, x) <=> y.pc = "receive" /\ y.reply_port = x
    BY <1>2, <2>1, <2>2, <2>3, ClientChange DEF NInv
  <2>5. \A d \in Clients : \A x \in Names :
           /\ Serves(client', d, x) <=> Serves(client, d, x)
           /\ Awaits(client', d, x) <=> Awaits(client, d, x)
    BY <2>2, <2>4 DEF Serves, Awaits
  <2>6. PortsOwned(ports', client')
    BY <1>2, <1>6, <2>5, OwnSame DEF NInv
  <2>7. QueueOK'
    BY <1>1, <1>6, QueueSame DEF NInv
  <2>8. IsSpace(ports', GoodMessage')
    BY <1>2, <1>6, SpaceGrows
  <2> QED  BY <1>2, <2>4, <2>6, <2>7, <2>8 DEF NInv
<1> QED  BY <1>4, <1>5, <1>6

\* A service reads its port and answers.
LEMMA ServeStep ==
    ASSUME NInv, NEW c \in Clients, Serve(c)
    PROVE  LET p == client[c].service
               m == Head(ports[p])
               q == Taken(ports, p)
           IN  /\ p \in DOMAIN ports /\ p # ipc_bootstrap_port
               /\ m \in GoodMessage /\ m = ports[p][1] /\ 1 \in DOMAIN ports[p]
               /\ IsSpace(q, GoodMessage)
               /\ IsSpace(ports', GoodMessage)
               /\ \/ m.type # "request" /\ ports' = q
                  \/ m.type = "request" /\ Delivered(q, ports', m.local, Reply(m, MACH_PORT_NULL))
<1> DEFINE p == client[c].service
           m == Head(ports[p])
           q == Taken(ports, p)
<1>1. /\ HasMessage(ports, p)
      /\ ports' = IF m.type = "request"
                  THEN SendResult(q, m.local, Reply(m, MACH_PORT_NULL)).space ELSE q
  BY DEF Serve
<1>2. p \in DOMAIN ports /\ ports[p] # <<>> /\ IsSpace(ports, GoodMessage)
  BY <1>1 DEF HasMessage, NInv
<1>3. p # ipc_bootstrap_port
  <2>1. p \in Names
    BY <1>2 DEF IsSpace
  <2>2. p # MACH_PORT_NULL
    BY <2>1 DEF Names, MACH_PORT_NULL
  <2>3. Serves(client, c, p)
    BY <2>2 DEF Serves
  <2> QED  BY <2>3 DEF NInv, PortsOwned
<1>4. m \in GoodMessage /\ m = ports[p][1] /\ 1 \in DOMAIN ports[p]
  BY <1>2, SpaceHolds
<1>5. IsSpace(q, GoodMessage)
  BY <1>1, <1>2, TakeOK
<1> HIDE DEF m, q, p
<1>6. Reply(m, MACH_PORT_NULL) \in GoodMessage
  BY <1>4, AnswerOK DEF NInv
<1>7. CASE m.type = "request"
  <2>1. ports' = SendResult(q, m.local, Reply(m, MACH_PORT_NULL)).space
    BY <1>1, <1>7
  <2>2. IsSpace(ports', GoodMessage) /\ Delivered(q, ports', m.local, Reply(m, MACH_PORT_NULL))
    BY <1>5, <1>6, <2>1, SendOK
  <2> QED  BY <1>2, <1>3, <1>4, <1>5, <1>7, <2>2 DEF m, q, p
<1>8. CASE m.type # "request"
  <2>1. ports' = q
    BY <1>1, <1>8
  <2>2. IsSpace(ports', GoodMessage)
    BY <1>5, <2>1
  <2> QED  BY <1>2, <1>3, <1>4, <1>5, <1>8, <2>1, <2>2 DEF m, q, p
<1> QED  BY <1>7, <1>8

\* A service reads its port and answers: no port opens or closes.
LEMMA ServeKeeps ==
    ASSUME NInv, NEW c \in Clients, Serve(c)
    PROVE  NInv'
<1> DEFINE p == client[c].service
           m == Head(ports[p])
           q == Taken(ports, p)
<1>1. UNCHANGED <<ipc_service_table, client, calls, handled>> /\ HasMessage(ports, p)
  BY DEF Serve
<1>2. /\ GoodMessage \subseteq GoodMessage' /\ TableOK' /\ CallsOK'
      /\ ipc_bootstrap_port \in Names /\ ipc_bootstrap_port \in DOMAIN ports
  BY <1>1, CallsStep, KernelQueue
<1>3. /\ p # ipc_bootstrap_port /\ m \in GoodMessage /\ IsSpace(ports', GoodMessage)
      /\ \/ ports' = q
         \/ m.type = "request" /\ Delivered(q, ports', m.local, Reply(m, MACH_PORT_NULL))
  BY ServeStep
<1>4. DOMAIN q = DOMAIN ports /\ q[ipc_bootstrap_port] = ports[ipc_bootstrap_port]
  BY <1>1, <1>2, <1>3, TakeOK DEF NInv
<1> HIDE DEF p, m, q
<1>5. m.type = "request" => m.local # ipc_bootstrap_port
  BY <1>3 DEF GoodMessage
<1>6. DOMAIN ports' = DOMAIN ports /\ ports'[ipc_bootstrap_port] = ports[ipc_bootstrap_port]
  BY <1>2, <1>3, <1>4, <1>5 DEF Delivered
<1>7. QueueOK'
  BY <1>1, <1>6, QueueSame DEF NInv
<1>8. PortsOwned(ports', client')
  BY <1>1, <1>2, <1>6, OwnSame DEF NInv
<1>9. ClientsOK'
  BY <1>1, <1>2 DEF NInv, ClientsOK
<1>10. IsSpace(ports', GoodMessage')
  BY <1>2, <1>3, SpaceGrows
<1> QED  BY <1>2, <1>7, <1>8, <1>9, <1>10 DEF NInv

-----------------------------------------------------------------------------
(* The invariant of the specification *)

\* ipc_init: the kernel's port is live, nobody has called.
LEMMA InitN == Init => NInv
<1> SUFFICES ASSUME Init PROVE NInv
  OBVIOUS
<1>1. ipc_bootstrap_port \in Names /\ ipc_bootstrap_port # MACH_PORT_NULL
  BY PortOpsAssumption, BootstrapAssumption DEF ipc_bootstrap_port, Names, MACH_PORT_NULL
<1>2. DOMAIN ports = {ipc_bootstrap_port} /\ ports[ipc_bootstrap_port] = <<>>
  BY DEF Init
<1>3. <<>> \in Seq(GoodMessage) /\ Len(<<>>) <= MACH_PORT_QUEUE_MAX
  BY PortOpsAssumption
<1>4. IsSpace(ports, GoodMessage)
  <2>1. ports = [x \in DOMAIN ports |-> ports[x]]
    BY DEF Init
  <2> QED  BY <1>1, <1>2, <1>3, <2>1 DEF IsSpace
<1>5. \A c \in Clients : client[c] = IdleClient
  BY DEF Init
<1>6. \A c \in Clients : \A p : ~Serves(client, c, p) /\ ~Awaits(client, c, p)
  BY <1>5 DEF IdleClient, Idle, Serves, Awaits
<1>7. PortsOwned(ports, client)
  BY <1>2, <1>6 DEF PortsOwned
<1>8. IdleClient \in ClientRec /\ IdleClient.got = NoMsg
  <2>1. MACH_PORT_NULL \in PortOrNull /\ NoTag \in Tags \cup {NoTag} /\ 0 \in Nat
    BY DEF PortOrNull
  <2> QED  BY <2>1 DEF IdleClient, Idle, ClientRec, Locals
<1>9. ClientsOK
  BY <1>5, <1>8 DEF Init, ClientsOK
<1>10. TableOK
  <2>1. ipc_service_table = <<>> /\ ipc_service_table \in Seq(Entry)
        /\ DOMAIN ipc_service_table = {} /\ Len(ipc_service_table) = 0
    BY DEF Init
  <2> QED  BY <2>1, BootstrapAssumption DEF TableOK
<1>11. CallsOK
  BY BootstrapAssumption DEF Init, CallsOK
<1>12. QueueOK
  BY <1>2 DEF QueueOK, RequestsHandledOnce
<1> QED  BY <1>4, <1>7, <1>9, <1>10, <1>11, <1>12 DEF NInv

\* Every call of a client keeps the invariant.
LEMMA ClientKeeps ==
    ASSUME NInv, NEW c \in Clients, ClientStep(c)
    PROVE  NInv'
<1>1. client[c].known \in PortOrNull
  BY DEF NInv, ClientsOK, ClientRec, Locals
<1>2. ipc_bootstrap_port \in PortOrNull
  BY KernelQueue DEF PortOrNull
<1>3. CASE OpenService(c)
  BY <1>3, OpenServiceKeeps
<1>4. CASE CloseService(c)
  BY <1>4, CloseServiceKeeps
<1>5. ASSUME NEW name \in ServiceNames, SendRegister(c, name) PROVE NInv'
  BY <1>5, RegisterKeeps
<1>6. CASE AskKernel(c)
  <2>1. PICK timeout \in Timeouts :
            \/ \E name \in ServiceNames :
                  mach_msg_rpc(c, ipc_bootstrap_port, "LOOKUP", name, timeout)
            \/ mach_msg_rpc(c, ipc_bootstrap_port, "UNKNOWN", NoName, timeout)
    BY <1>6 DEF AskKernel
  <2>2. timeout \in Nat
    BY BootstrapAssumption
  <2>3. ASSUME NEW name \in ServiceNames,
               mach_msg_rpc(c, ipc_bootstrap_port, "LOOKUP", name, timeout)
        PROVE  NInv'
    <3>1. name \in ServiceNames \cup {NoName} /\ "LOOKUP" \in {"LOOKUP", "UNKNOWN", "SERVICE"}
      OBVIOUS
    <3> QED  BY <1>2, <2>2, <2>3, <3>1, CallKeeps
  <2>4. CASE mach_msg_rpc(c, ipc_bootstrap_port, "UNKNOWN", NoName, timeout)
    <3>1. NoName \in ServiceNames \cup {NoName} /\ "UNKNOWN" \in {"LOOKUP", "UNKNOWN", "SERVICE"}
      OBVIOUS
    <3> QED  BY <1>2, <2>2, <2>4, <3>1, CallKeeps
  <2> QED  BY <2>1, <2>3, <2>4
<1>7. CASE AskService(c)
  <2>1. PICK timeout \in Timeouts :
            mach_msg_rpc(c, client[c].known, "SERVICE", NoName, timeout)
    BY <1>7 DEF AskService
  <2>2. timeout \in Nat
    BY BootstrapAssumption
  <2>3. NoName \in ServiceNames \cup {NoName} /\ "SERVICE" \in {"LOOKUP", "UNKNOWN", "SERVICE"}
    OBVIOUS
  <2> QED  BY <1>1, <2>1, <2>2, <2>3, CallKeeps
<1>8. CASE mach_msg_receive(c)
  BY <1>8, ReceiveKeeps
<1>9. CASE Serve(c)
  BY <1>9, ServeKeeps
<1> QED  BY <1>3, <1>4, <1>5, <1>6, <1>7, <1>8, <1>9 DEF ClientStep

\* Every step of the loop and of the clients keeps the invariant.
LEMMA NextN == NInv /\ [Next]_vars => NInv'
<1> SUFFICES ASSUME NInv, [Next]_vars PROVE NInv'
  OBVIOUS
<1>1. CASE mxwl_kernel_loop
  BY <1>1, LoopKeeps
<1>2. ASSUME NEW c \in Clients, ClientStep(c) PROVE NInv'
  BY <1>2, ClientKeeps
<1>3. CASE UNCHANGED vars
  <2>1. UNCHANGED <<ports, ipc_service_table, client, calls, handled>>
    BY <1>3 DEF vars
  <2>2. GoodMessage' = GoodMessage
    BY <2>1 DEF GoodMessage, Bound
  <2>3. IsSpace(ports', GoodMessage') /\ PortsOwned(ports', client')
    BY <2>1, <2>2 DEF NInv
  <2>4. ClientsOK' /\ TableOK' /\ CallsOK'
    BY <2>1, <2>2 DEF NInv, ClientsOK, TableOK, CallsOK
  <2>5. QueueOK'
    BY <2>1 DEF NInv, QueueOK, RequestsHandledOnce
  <2> QED  BY <2>3, <2>4, <2>5 DEF NInv
<1> QED  BY <1>1, <1>2, <1>3 DEF Next

\* The invariant says what the types are.
LEMMA NTypes == NInv => TypeOK
<1> SUFFICES ASSUME NInv PROVE TypeOK
  OBVIOUS
<1>1. /\ DOMAIN ports \subseteq Names
      /\ \A p \in DOMAIN ports : ports[p] \in Seq(GoodMessage) /\ Len(ports[p]) <= MACH_PORT_QUEUE_MAX
  BY DEF NInv, IsSpace
<1>2. GoodMessage \subseteq Message
  BY DEF GoodMessage
<1>3. \A p \in DOMAIN ports : \A i \in DOMAIN ports[p] : ports[p][i] \in Message
  BY <1>1, <1>2
<1>4. /\ Len(ipc_service_table) <= IPC_MAX_SERVICES
      /\ \A i \in DOMAIN ipc_service_table :
            ipc_service_table[i] \in [name : ServiceNames, port : Names, owner : Clients]
  <2>1. ipc_service_table \in Seq(Entry) /\ Len(ipc_service_table) <= IPC_MAX_SERVICES
    BY DEF NInv, TableOK
  <2>2. \A i \in DOMAIN ipc_service_table : ipc_service_table[i] \in Entry
    BY <2>1
  <2> QED  BY <2>1, <2>2 DEF Entry
<1>5. \A c \in Clients : client[c].pc \in {"idle", "receive"} /\ client[c].got \in Message \cup {NoMsg}
  BY DEF NInv, ClientsOK, ClientRec, Locals
<1>6. calls \in 0 .. MaxCalls /\ handled \subseteq Tags
  BY DEF NInv, CallsOK
<1> QED  BY <1>1, <1>3, <1>4, <1>5, <1>6 DEF TypeOK

\* The live ports are the kernel's and those of the clients.
LEMMA NReleased == NInv => ReplyPortsReleased
<1> SUFFICES ASSUME NInv PROVE ReplyPortsReleased
  OBVIOUS
<1> DEFINE serving == {d \in Clients : client[d].service # MACH_PORT_NULL}
           waiting == {d \in Clients : client[d].pc = "receive"}
<1>1. DOMAIN ports \subseteq Names /\ ipc_bootstrap_port \in DOMAIN ports
  BY KernelQueue DEF NInv, IsSpace
<1>2. \A p \in Names : p \in DOMAIN ports <=>
          p = ipc_bootstrap_port \/ \E c \in Clients : Serves(client, c, p) \/ Awaits(client, c, p)
  BY DEF NInv, PortsOwned
<1>3. \A c \in serving : client[c].service \in DOMAIN ports
  <2> SUFFICES ASSUME NEW c \in serving PROVE client[c].service \in DOMAIN ports
    OBVIOUS
  <2>1. client[c].service \in Names
    BY DEF NInv, ClientsOK, ClientRec, Locals, PortOrNull
  <2> QED  BY <1>2, <2>1 DEF Serves
<1>4. \A c \in waiting : client[c].reply_port \in DOMAIN ports
  <2> SUFFICES ASSUME NEW c \in waiting PROVE client[c].reply_port \in DOMAIN ports
    OBVIOUS
  <2>1. client[c].reply_port \in Names
    BY DEF NInv, ClientsOK, ClientRec, Locals, PortOrNull
  <2> QED  BY <1>2, <2>1 DEF Awaits
<1>5. \A p \in DOMAIN ports : \/ p = ipc_bootstrap_port
                              \/ \E c \in serving : p = client[c].service
                              \/ \E c \in waiting : p = client[c].reply_port
  BY <1>1, <1>2 DEF Serves, Awaits
<1> HIDE DEF serving, waiting
<1>6. DOMAIN ports = {ipc_bootstrap_port} \cup {client[c].service : c \in serving}
                                          \cup {client[c].reply_port : c \in waiting}
  BY <1>1, <1>3, <1>4, <1>5
<1> QED  BY <1>6 DEF ReplyPortsReleased, Live, serving, waiting

\* Every answer that names a port agrees with the table.
LEMMA NAgree == NInv => AnswersAgree
<1> SUFFICES ASSUME NInv PROVE AnswersAgree
  OBVIOUS
<1> DEFINE queued == UNION {{ports[p][i] : i \in DOMAIN ports[p]} : p \in DOMAIN ports}
           kept == {client[c].got : c \in Clients}
           replies == {m \in queued \cup kept : m.type = "reply"}
<1>1. \A m \in queued : m \in GoodMessage
  BY SpaceHolds DEF NInv
<1>2. \A m \in kept : m \in GoodMessage \cup {NoMsg}
  BY DEF NInv, ClientsOK
<1>3. NoMsg.type # "reply"
  BY DEF NoMsg
<1> HIDE DEF queued, kept
<1>4. \A m \in replies : m \in GoodMessage
  BY <1>1, <1>2, <1>3
<1>5. \A m \in replies : m.type = "reply"
  OBVIOUS
<1> HIDE DEF replies
<1>6. \A m \in replies : m.port # MACH_PORT_NULL =>
            \E i \in DOMAIN ipc_service_table :
                /\ ipc_service_table[i].port = m.port
                /\ Bound(m.name) = {i}
  BY <1>4, <1>5 DEF GoodMessage
<1> QED  BY <1>6 DEF AnswersAgree, replies, queued, kept

\* mach_msg_rpc, mach_msg_receive, the name service and the services it names,
\* with any number of clients, services, ports and timeouts: the types hold, a
\* name has one binding in every answer, no reply port is left over, and no
\* request is answered twice.
THEOREM NameServiceConsistent == Spec => []BootstrapConsistent
<1>1. NInv => BootstrapConsistent
  BY NTypes, NReleased, NAgree DEF BootstrapConsistent, NInv, QueueOK
<1> QED  BY <1>1, InitN, NextN, PTL DEF Spec

-----------------------------------------------------------------------------
(* Whose call a message belongs to *)

\* A message whose answer goes to the reply port p; REGISTER names a service
\* port instead.
Asks(m, p) == m.type = "request" /\ m.id # "REGISTER" /\ m.local = p
Asked(q, p, x, i) == x \in DOMAIN q /\ i \in DOMAIN q[x] /\ Asks(q[x][i], p)
NoneAsks(q, p) == \A x, i : ~Asked(q, p, x, i)

\* p is the service port of a client.
Offered(cl, p) == \E c \in Clients : Serves(cl, c, p)

\* What a message says is still so: the call that waits on its reply port is
\* its own, and the port it offers is a service port.
Sensible(cl, m) ==
    /\ m.type = "request" =>
          IF m.id = "REGISTER" THEN Offered(cl, m.local)
          ELSE \E c \in Clients : Awaits(cl, c, m.local) /\ cl[c].tag = m.tag
    /\ m.type = "reply" /\ m.port # MACH_PORT_NULL => Offered(cl, m.port)

AllSensible(q, cl) == \A x \in DOMAIN q : \A i \in DOMAIN q[x] : Sensible(cl, q[x][i])

\* A reply port holds answers to the call that waits on it.
OwnAnswers(q, cl) ==
    \A c \in Clients : \A p \in DOMAIN q : Awaits(cl, c, p) =>
        \A i \in DOMAIN q[p] : q[p][i].type = "reply" /\ q[p][i].tag = cl[c].tag

\* No port is asked to be answered on twice, and none that has its answer.
AskedOnce(q) ==
    \A p \in Names : \A x, y \in DOMAIN q : \A i \in DOMAIN q[x] : \A j \in DOMAIN q[y] :
        Asked(q, p, x, i) /\ Asked(q, p, y, j) => x = y /\ i = j
AnsweredOnce(q, cl) ==
    \A c \in Clients : \A p \in DOMAIN q :
        Awaits(cl, c, p) /\ q[p] # <<>> => NoneAsks(q, p)

Conversing(q, cl) ==
    /\ AllSensible(q, cl) /\ OwnAnswers(q, cl) /\ AskedOnce(q) /\ AnsweredOnce(q, cl)

\* What clients and the table know of are service ports.
KnownOffered(cl) ==
    \A c \in Clients : cl[c].known # MACH_PORT_NULL => Offered(cl, cl[c].known)
TableOffered(cl) ==
    \A i \in DOMAIN ipc_service_table : Offered(cl, ipc_service_table[i].port)

MInv == /\ Conversing(ports, client) /\ KnownOffered(client) /\ TableOffered(client)
        /\ \A c \in Clients : Matches(c)

\* Every port a message can be answered on is a port of the space.
LEMMA AwaitedLive ==
    ASSUME NEW q, NEW cl, PortsOwned(q, cl), NEW c \in Clients, NEW p \in Names,
           Awaits(cl, c, p) \/ Serves(cl, c, p)
    PROVE  p \in DOMAIN q /\ p # ipc_bootstrap_port
BY DEF PortsOwned

\* The oldest message leaves its queue: nobody else asks for what it asked.
LEMMA TakenConverses ==
    ASSUME NEW S, NEW q, IsSpace(q, S), AskedOnce(q), NEW a, HasMessage(q, a)
    PROVE  LET r == Taken(q, a)
           IN  /\ AskedOnce(r)
               /\ \A x \in DOMAIN r : \A i \in DOMAIN r[x] :
                     \E j \in DOMAIN q[x] : r[x][i] = q[x][j]
               /\ \A p \in Names : NoneAsks(q, p) \/ Asks(Head(q[a]), p) => NoneAsks(r, p)
<1> DEFINE r == Taken(q, a)
           k(x, i) == IF x = a THEN i + 1 ELSE i
<1>1. /\ IsSpace(r, S) /\ DOMAIN r = DOMAIN q
      /\ \A x \in DOMAIN q : x # a => r[x] = q[x]
      /\ \A i \in DOMAIN r[a] : r[a][i] = q[a][i + 1] /\ i + 1 \in DOMAIN q[a]
      /\ a \in DOMAIN q
  BY TakeOK DEF HasMessage
<1>2. \A x \in DOMAIN r : DOMAIN r[x] = 1 .. Len(r[x]) /\ Len(r[x]) \in Nat
  BY <1>1, SpaceHolds
<1>3. q[a] # <<>> /\ Head(q[a]) = q[a][1] /\ 1 \in DOMAIN q[a]
  BY <1>1, SpaceHolds DEF HasMessage
<1> HIDE DEF r
<1>4. ASSUME NEW x \in DOMAIN r, NEW i \in DOMAIN r[x]
      PROVE  k(x, i) \in DOMAIN q[x] /\ r[x][i] = q[x][k(x, i)] /\ (x = a => k(x, i) # 1)
  BY <1>1, <1>2, <1>4
<1>5. \A p : \A x \in DOMAIN r : \A i \in DOMAIN r[x] :
          Asked(r, p, x, i) => Asked(q, p, x, k(x, i))
  BY <1>1, <1>4 DEF Asked
<1>6. \A x \in DOMAIN r : \A i, j \in DOMAIN r[x] : k(x, i) = k(x, j) => i = j
  BY <1>2
<1>7. \A x \in DOMAIN r : \A i \in DOMAIN r[x] : \E j \in DOMAIN q[x] : r[x][i] = q[x][j]
  BY <1>4
<1>8. \A x \in DOMAIN r : \A i \in DOMAIN r[x] : k(x, i) \in DOMAIN q[x]
  BY <1>4
<1>9. \A i \in DOMAIN r[a] : k(a, i) # 1
  BY <1>1, <1>4
<1> HIDE DEF k
<1>10. AskedOnce(r)
  <2> SUFFICES ASSUME NEW p \in Names, NEW x \in DOMAIN r, NEW y \in DOMAIN r,
                      NEW i \in DOMAIN r[x], NEW j \in DOMAIN r[y],
                      Asked(r, p, x, i), Asked(r, p, y, j)
               PROVE  x = y /\ i = j
    BY DEF AskedOnce
  <2>1. Asked(q, p, x, k(x, i)) /\ Asked(q, p, y, k(y, j))
    BY <1>5
  <2>2. x = y /\ k(x, i) = k(y, j)
    BY <1>1, <1>8, <2>1 DEF AskedOnce
  <2> QED  BY <1>6, <2>2
<1>11. ASSUME NEW p \in Names, NoneAsks(q, p) \/ Asks(Head(q[a]), p)
       PROVE  NoneAsks(r, p)
  <2> SUFFICES ASSUME NEW x, NEW i, Asked(r, p, x, i) PROVE FALSE
    BY DEF NoneAsks
  <2>1. x \in DOMAIN r /\ i \in DOMAIN r[x]
    BY DEF Asked
  <2>2. Asked(q, p, x, k(x, i))
    BY <1>5, <2>1
  <2>3. Asks(Head(q[a]), p)
    BY <1>11, <2>2 DEF NoneAsks
  <2>4. Asked(q, p, a, 1)
    BY <1>1, <1>3, <2>3 DEF Asked
  <2>5. x = a /\ k(x, i) = 1
    BY <1>1, <1>3, <1>8, <2>1, <2>2, <2>4 DEF AskedOnce
  <2> QED  BY <1>9, <2>1, <2>5
<1> QED  BY <1>7, <1>10, <1>11 DEF r

\* A message is delivered: it is the only one that asks for what it asks.
LEMMA DeliveredConverses ==
    ASSUME NEW S, NEW q, IsSpace(q, S), NEW T, NEW r, IsSpace(r, T), NEW d, NEW m, Delivered(q, r, d, m)
    PROVE  /\ \A x \in DOMAIN r : \A i \in DOMAIN r[x] :
                 \/ i \in DOMAIN q[x] /\ r[x][i] = q[x][i]
                 \/ x = d /\ r[x][i] = m /\ i = Len(q[d]) + 1
           /\ AskedOnce(q) /\ (\A p \in Names : Asks(m, p) => NoneAsks(q, p)) => AskedOnce(r)
           /\ \A p \in Names : NoneAsks(q, p) /\ ~Asks(m, p) => NoneAsks(r, p)
<1>1. DOMAIN r = DOMAIN q
  BY DEF Delivered
<1>2. ASSUME NEW x \in DOMAIN r, NEW i \in DOMAIN r[x]
      PROVE  \/ i \in DOMAIN q[x] /\ r[x][i] = q[x][i]
             \/ x = d /\ r[x][i] = m /\ i = Len(q[d]) + 1
  <2>1. CASE r[x] = q[x]
    BY <2>1
  <2>2. CASE x = d /\ r[d] = Append(q[d], m)
    <3>1. q[d] \in Seq(S) /\ DOMAIN q[d] = 1 .. Len(q[d]) /\ Len(q[d]) \in Nat
      BY <1>1, <2>2 DEF IsSpace
    <3>2. /\ DOMAIN Append(q[d], m) = 1 .. Len(q[d]) + 1
          /\ \A j \in 1 .. Len(q[d]) : Append(q[d], m)[j] = q[d][j]
          /\ Append(q[d], m)[Len(q[d]) + 1] = m
      BY <3>1
    <3>3. i \in 1 .. Len(q[d]) \/ i = Len(q[d]) + 1
      BY <2>2, <3>1, <3>2
    <3> QED  BY <2>2, <3>1, <3>2, <3>3
  <2> QED  BY <1>1, <2>1, <2>2 DEF Delivered
<1>3. ASSUME NEW p, NEW x, NEW i, Asked(r, p, x, i)
      PROVE  Asked(q, p, x, i) \/ (Asks(m, p) /\ x = d /\ i = Len(q[d]) + 1)
  BY <1>1, <1>2, <1>3 DEF Asked
<1>4. ASSUME AskedOnce(q), \A p \in Names : Asks(m, p) => NoneAsks(q, p)
      PROVE  AskedOnce(r)
  <2> SUFFICES ASSUME NEW p \in Names, NEW x \in DOMAIN r, NEW y \in DOMAIN r,
                      NEW i \in DOMAIN r[x], NEW j \in DOMAIN r[y],
                      Asked(r, p, x, i), Asked(r, p, y, j)
               PROVE  x = y /\ i = j
    BY DEF AskedOnce
  <2>1. CASE NoneAsks(q, p)
    BY <1>3, <2>1 DEF NoneAsks
  <2>2. CASE ~Asks(m, p)
    <3>1. Asked(q, p, x, i) /\ Asked(q, p, y, j)
      BY <1>3, <2>2
    <3>2. i \in DOMAIN q[x] /\ j \in DOMAIN q[y]
      BY <3>1 DEF Asked
    <3> QED  BY <1>1, <1>4, <3>1, <3>2 DEF AskedOnce
  <2> QED  BY <1>4, <2>1, <2>2
<1>5. ASSUME NEW p \in Names, NoneAsks(q, p), ~Asks(m, p) PROVE NoneAsks(r, p)
  BY <1>3, <1>5 DEF NoneAsks
<1> QED  BY <1>2, <1>4, <1>5

\* A message keeps its sense when its caller still waits and no service closes.
LEMMA SensibleStays ==
    ASSUME NEW cl, NEW cl2, NEW m, Sensible(cl, m),
           \A p : Offered(cl, p) => Offered(cl2, p),
           \A c \in Clients : Asks(m, m.local) /\ Awaits(cl, c, m.local) =>
               Awaits(cl2, c, m.local) /\ cl2[c].tag = cl[c].tag
    PROVE  Sensible(cl2, m)
<1>1. CASE m.type = "request" /\ m.id # "REGISTER"
  <2>1. PICK c \in Clients : Awaits(cl, c, m.local) /\ cl[c].tag = m.tag
    BY <1>1 DEF Sensible
  <2>2. Awaits(cl2, c, m.local) /\ cl2[c].tag = m.tag
    BY <1>1, <2>1 DEF Asks
  <2> QED  BY <1>1, <2>2 DEF Sensible
<1>2. CASE ~(m.type = "request" /\ m.id # "REGISTER")
  BY <1>2 DEF Sensible
<1> QED  BY <1>1, <1>2

\* A request is taken and its answer sent: it goes to the call that asked.
LEMMA AnswerConverses ==
    ASSUME NEW S, S \subseteq GoodMessage, NEW q, IsSpace(q, S), NEW cl, PortsOwned(q, cl), Conversing(q, cl),
           NEW a, HasMessage(q, a), NEW port, port # MACH_PORT_NULL => Offered(cl, port),
           NEW T, NEW r, IsSpace(r, T),
           \/ r = Taken(q, a)
           \/ /\ Head(q[a]).type = "request"
              /\ Delivered(Taken(q, a), r, Head(q[a]).local, Reply(Head(q[a]), port))
    PROVE  Conversing(r, cl)
<1> DEFINE m == Head(q[a])
           s == Taken(q, a)
           e == Reply(m, port)
<1>1. /\ IsSpace(s, S) /\ DOMAIN s = DOMAIN q
      /\ \A x \in DOMAIN q : x # a => s[x] = q[x]
      /\ a \in DOMAIN q /\ s[a] = Tail(q[a])
  BY TakeOK DEF HasMessage
<1>2. /\ AskedOnce(s)
      /\ \A x \in DOMAIN s : \A i \in DOMAIN s[x] : \E j \in DOMAIN q[x] : s[x][i] = q[x][j]
      /\ \A p \in Names : NoneAsks(q, p) \/ Asks(m, p) => NoneAsks(s, p)
  BY TakenConverses DEF Conversing
<1>3. m \in S /\ m = q[a][1] /\ 1 \in DOMAIN q[a]
  BY <1>1, SpaceHolds DEF HasMessage
<1>4. Sensible(cl, m)
  BY <1>1, <1>3 DEF Conversing, AllSensible
<1>5. e.type = "reply" /\ e.tag = m.tag /\ e.port = port
  BY DEF Reply
<1>6. m.type = "request" => m.local \in Names
  BY <1>3 DEF GoodMessage
<1>7. r = s \/ (m.type = "request" /\ Delivered(s, r, m.local, e))
  OBVIOUS
<1>8. DOMAIN q \subseteq Names
  BY DEF IsSpace
<1> HIDE DEF m, s, e
<1>9. Conversing(s, cl)
  <2>1. AllSensible(s, cl)
    BY <1>1, <1>2 DEF Conversing, AllSensible
  <2>2. OwnAnswers(s, cl)
    BY <1>1, <1>2 DEF Conversing, OwnAnswers
  <2>3. AnsweredOnce(s, cl)
    <3> SUFFICES ASSUME NEW c \in Clients, NEW p \in DOMAIN s, Awaits(cl, c, p), s[p] # <<>>
                 PROVE  NoneAsks(s, p)
      BY DEF AnsweredOnce
    <3>1. q[p] # <<>>
      BY <1>1 DEF HasMessage
    <3>2. NoneAsks(q, p)
      BY <1>1, <3>1 DEF Conversing, AnsweredOnce
    <3> QED  BY <1>1, <1>2, <1>8, <3>2
  <2> QED  BY <1>2, <2>1, <2>2, <2>3 DEF Conversing
<1>10. CASE m.type = "request" /\ Delivered(s, r, m.local, e)
  <2>1. /\ \A x \in DOMAIN r : \A i \in DOMAIN r[x] :
             \/ i \in DOMAIN s[x] /\ r[x][i] = s[x][i]
             \/ x = m.local /\ r[x][i] = e
        /\ AskedOnce(s) /\ (\A p \in Names : Asks(e, p) => NoneAsks(s, p)) => AskedOnce(r)
        /\ \A p \in Names : NoneAsks(s, p) /\ ~Asks(e, p) => NoneAsks(r, p)
    BY <1>1, <1>10, DeliveredConverses
  <2>2. \A p : ~Asks(e, p)
    BY <1>5 DEF Asks
  <2>3. DOMAIN r = DOMAIN s /\ \A x \in DOMAIN s : x # m.local => r[x] = s[x]
    BY <1>10 DEF Delivered
  <2>4. Sensible(cl, e)
    BY <1>5 DEF Sensible
  <2>5. AllSensible(r, cl)
    BY <1>9, <2>1, <2>3, <2>4 DEF Conversing, AllSensible
  <2>6. ASSUME NEW c \in Clients, Awaits(cl, c, m.local)
        PROVE  e.tag = cl[c].tag /\ Asks(m, m.local)
    <3>1. ~Offered(cl, m.local)
      BY <1>6, <1>10, <2>6 DEF Offered, PortsOwned
    <3>2. m.id # "REGISTER"
      BY <1>4, <1>10, <3>1 DEF Sensible
    <3>3. PICK d \in Clients : Awaits(cl, d, m.local) /\ cl[d].tag = m.tag
      BY <1>4, <1>10, <3>2 DEF Sensible
    <3>4. d = c
      BY <1>6, <1>10, <2>6, <3>3 DEF PortsOwned
    <3> QED  BY <1>5, <1>10, <3>2, <3>3, <3>4 DEF Asks
  <2>7. OwnAnswers(r, cl)
    <3> SUFFICES ASSUME NEW c \in Clients, NEW p \in DOMAIN r, Awaits(cl, c, p), NEW i \in DOMAIN r[p]
                 PROVE  r[p][i].type = "reply" /\ r[p][i].tag = cl[c].tag
      BY DEF OwnAnswers
    <3>1. CASE i \in DOMAIN s[p] /\ r[p][i] = s[p][i]
      BY <1>9, <2>3, <3>1 DEF Conversing, OwnAnswers
    <3>2. CASE p = m.local /\ r[p][i] = e
      BY <1>5, <2>6, <3>2
    <3> QED  BY <2>1, <3>1, <3>2
  <2>8. AskedOnce(r)
    BY <1>2, <2>1, <2>2
  <2>9. AnsweredOnce(r, cl)
    <3> SUFFICES ASSUME NEW c \in Clients, NEW p \in DOMAIN r, Awaits(cl, c, p), r[p] # <<>>
                 PROVE  NoneAsks(r, p)
      BY DEF AnsweredOnce
    <3>1. p \in Names
      BY <1>1, <1>8, <2>3
    <3>2. CASE p = m.local
      BY <1>2, <2>1, <2>2, <2>6, <3>1, <3>2
    <3>3. CASE p # m.local
      <4>1. s[p] # <<>>
        BY <2>3, <3>3
      <4>2. NoneAsks(s, p)
        BY <1>9, <2>3, <4>1 DEF Conversing, AnsweredOnce
      <4> QED  BY <2>1, <2>2, <3>1, <4>2
    <3> QED  BY <3>2, <3>3
  <2> QED  BY <2>5, <2>7, <2>8, <2>9 DEF Conversing
<1> QED  BY <1>7, <1>9, <1>10

\* A request joins a queue on which no call waits: of a new call, whose reply
\* port nobody has asked on, or to register a service.
LEMMA RequestConverses ==
    ASSUME NEW S, NEW q, IsSpace(q, S), NEW cl, Conversing(q, cl), DOMAIN q \subseteq Names,
           NEW d, NEW m, m.type = "request", Sensible(cl, m), NEW T, NEW r, IsSpace(r, T), Delivered(q, r, d, m),
           \A c \in Clients : ~Awaits(cl, c, d),
           \A p \in Names : Asks(m, p) => NoneAsks(q, p) /\ (p \in DOMAIN q => q[p] = <<>>)
    PROVE  Conversing(r, cl)
<1>1. /\ \A x \in DOMAIN r : \A i \in DOMAIN r[x] :
           \/ i \in DOMAIN q[x] /\ r[x][i] = q[x][i]
           \/ x = d /\ r[x][i] = m
      /\ AskedOnce(q) /\ (\A p \in Names : Asks(m, p) => NoneAsks(q, p)) => AskedOnce(r)
      /\ \A p \in Names : NoneAsks(q, p) /\ ~Asks(m, p) => NoneAsks(r, p)
  BY DeliveredConverses
<1>2. DOMAIN r = DOMAIN q /\ \A x \in DOMAIN q : x # d => r[x] = q[x]
  BY DEF Delivered
<1>3. AllSensible(r, cl)
  BY <1>1, <1>2 DEF Conversing, AllSensible
<1>4. OwnAnswers(r, cl)
  BY <1>2 DEF Conversing, OwnAnswers
<1>5. AskedOnce(r)
  BY <1>1 DEF Conversing
<1>6. AnsweredOnce(r, cl)
  <2> SUFFICES ASSUME NEW c \in Clients, NEW p \in DOMAIN r, Awaits(cl, c, p), r[p] # <<>>
               PROVE  NoneAsks(r, p)
    BY DEF AnsweredOnce
  <2>1. p \in Names /\ p \in DOMAIN q /\ q[p] # <<>>
    BY <1>2
  <2>2. NoneAsks(q, p) /\ ~Asks(m, p)
    BY <2>1 DEF Conversing, AnsweredOnce
  <2> QED  BY <1>1, <2>1, <2>2
<1> QED  BY <1>3, <1>4, <1>5, <1>6 DEF Conversing

\* A port opens, empty: a service port, or the reply port of a call that begins.
LEMMA OpenConverses ==
    ASSUME NEW q, NEW cl, NEW cl2, NEW p, p \notin DOMAIN q, Conversing(q, cl),
           NEW r, DOMAIN r = DOMAIN q \cup {p}, \A x \in DOMAIN q : r[x] = q[x], r[p] = <<>>,
           \A x : Offered(cl, x) => Offered(cl2, x),
           \A c \in Clients : \A x :
              /\ Awaits(cl2, c, x) => Awaits(cl, c, x) \/ x = p
              /\ Awaits(cl, c, x) => Awaits(cl2, c, x) /\ cl2[c].tag = cl[c].tag
    PROVE  Conversing(r, cl2) /\ \A x : NoneAsks(q, x) => NoneAsks(r, x)
<1>1. DOMAIN r[p] = {}
  OBVIOUS
<1>2. \A x \in DOMAIN r : DOMAIN r[x] # {} => x \in DOMAIN q /\ r[x] = q[x]
  BY <1>1
<1>3. AllSensible(r, cl2)
  <2> SUFFICES ASSUME NEW x \in DOMAIN r, NEW i \in DOMAIN r[x] PROVE Sensible(cl2, r[x][i])
    BY DEF AllSensible
  <2>1. x \in DOMAIN q /\ r[x] = q[x]
    BY <1>2
  <2>2. Sensible(cl, r[x][i])
    BY <2>1 DEF Conversing, AllSensible
  <2> QED  BY <2>2, SensibleStays
<1>4. \A x, y, i : Asked(r, x, y, i) => Asked(q, x, y, i)
  BY <1>2 DEF Asked
<1>5. \A x : NoneAsks(q, x) => NoneAsks(r, x)
  BY <1>4 DEF NoneAsks
<1>6. OwnAnswers(r, cl2)
  <2> SUFFICES ASSUME NEW c \in Clients, NEW x \in DOMAIN r, Awaits(cl2, c, x), NEW i \in DOMAIN r[x]
               PROVE  r[x][i].type = "reply" /\ r[x][i].tag = cl2[c].tag
    BY DEF OwnAnswers
  <2>1. x \in DOMAIN q /\ r[x] = q[x] /\ x # p
    BY <1>2
  <2>2. Awaits(cl, c, x) /\ cl2[c].tag = cl[c].tag
    BY <2>1
  <2> QED  BY <2>1, <2>2 DEF Conversing, OwnAnswers
<1>7. AskedOnce(r)
  <2> SUFFICES ASSUME NEW x \in Names, NEW y \in DOMAIN r, NEW z \in DOMAIN r,
                      NEW i \in DOMAIN r[y], NEW j \in DOMAIN r[z],
                      Asked(r, x, y, i), Asked(r, x, z, j)
               PROVE  y = z /\ i = j
    BY DEF AskedOnce
  <2>1. Asked(q, x, y, i) /\ Asked(q, x, z, j)
    BY <1>4
  <2>2. y \in DOMAIN q /\ z \in DOMAIN q /\ i \in DOMAIN q[y] /\ j \in DOMAIN q[z]
    BY <2>1 DEF Asked
  <2> QED  BY <2>1, <2>2 DEF Conversing, AskedOnce
<1>8. AnsweredOnce(r, cl2)
  <2> SUFFICES ASSUME NEW c \in Clients, NEW x \in DOMAIN r, Awaits(cl2, c, x), r[x] # <<>>
               PROVE  NoneAsks(r, x)
    BY DEF AnsweredOnce
  <2>1. x \in DOMAIN q /\ q[x] # <<>> /\ x # p
    OBVIOUS
  <2>2. Awaits(cl, c, x)
    BY <2>1
  <2>3. NoneAsks(q, x)
    BY <2>1, <2>2 DEF Conversing, AnsweredOnce
  <2> QED  BY <1>5, <2>3
<1> QED  BY <1>3, <1>5, <1>6, <1>7, <1>8 DEF Conversing

\* A call ends with its answer, and its reply port goes.
LEMMA CloseConverses ==
    ASSUME NEW q, NEW cl, NEW cl2, NEW p, NEW e \in Clients, Conversing(q, cl),
           NoneAsks(q, p), \A x : Awaits(cl, e, x) => x = p,
           NEW r, DOMAIN r = DOMAIN q \ {p}, \A x \in DOMAIN r : r[x] = q[x],
           \A x : Offered(cl, x) => Offered(cl2, x),
           \A c \in Clients : \A x :
              /\ Awaits(cl2, c, x) => Awaits(cl, c, x)
              /\ Awaits(cl, c, x) /\ c # e => Awaits(cl2, c, x) /\ cl2[c].tag = cl[c].tag
              /\ ~Awaits(cl2, e, x)
    PROVE  Conversing(r, cl2)
<1>1. \A x, y, i : Asked(r, x, y, i) => Asked(q, x, y, i)
  BY DEF Asked
<1>2. \A x : NoneAsks(q, x) => NoneAsks(r, x)
  BY <1>1 DEF NoneAsks
<1>3. AllSensible(r, cl2)
  <2> SUFFICES ASSUME NEW x \in DOMAIN r, NEW i \in DOMAIN r[x] PROVE Sensible(cl2, r[x][i])
    BY DEF AllSensible
  <2> DEFINE m == r[x][i]
  <2>1. x \in DOMAIN q /\ i \in DOMAIN q[x] /\ m = q[x][i]
    OBVIOUS
  <2>2. Sensible(cl, m)
    BY <2>1 DEF Conversing, AllSensible
  <2>3. Asks(m, m.local) => m.local # p
    <3>1. Asks(m, m.local) => Asked(q, m.local, x, i)
      BY <2>1 DEF Asked
    <3> QED  BY <3>1 DEF NoneAsks
  <2> HIDE DEF m
  <2>4. \A c \in Clients : Asks(m, m.local) /\ Awaits(cl, c, m.local) =>
            Awaits(cl2, c, m.local) /\ cl2[c].tag = cl[c].tag
    BY <2>3
  <2>5. Sensible(cl2, m)
    BY <2>2, <2>4, SensibleStays
  <2> QED  BY <2>5 DEF m
<1>4. OwnAnswers(r, cl2)
  <2> SUFFICES ASSUME NEW c \in Clients, NEW x \in DOMAIN r, Awaits(cl2, c, x), NEW i \in DOMAIN r[x]
               PROVE  r[x][i].type = "reply" /\ r[x][i].tag = cl2[c].tag
    BY DEF OwnAnswers
  <2>1. Awaits(cl, c, x) /\ cl2[c].tag = cl[c].tag
    OBVIOUS
  <2> QED  BY <2>1 DEF Conversing, OwnAnswers
<1>5. AskedOnce(r)
  <2> SUFFICES ASSUME NEW x \in Names, NEW y \in DOMAIN r, NEW z \in DOMAIN r,
                      NEW i \in DOMAIN r[y], NEW j \in DOMAIN r[z],
                      Asked(r, x, y, i), Asked(r, x, z, j)
               PROVE  y = z /\ i = j
    BY DEF AskedOnce
  <2>1. Asked(q, x, y, i) /\ Asked(q, x, z, j)
    BY <1>1
  <2> QED  BY <2>1 DEF Conversing, AskedOnce
<1>6. AnsweredOnce(r, cl2)
  <2> SUFFICES ASSUME NEW c \in Clients, NEW x \in DOMAIN r, Awaits(cl2, c, x), r[x] # <<>>
               PROVE  NoneAsks(r, x)
    BY DEF AnsweredOnce
  <2>1. x \in DOMAIN q /\ q[x] # <<>> /\ Awaits(cl, c, x)
    OBVIOUS
  <2>2. NoneAsks(q, x)
    BY <2>1 DEF Conversing, AnsweredOnce
  <2> QED  BY <1>2, <2>2
<1> QED  BY <1>3, <1>4, <1>5, <1>6 DEF Conversing

\* Reply ports and the kernel's port offer no service.
LEMMA OfferedLive ==
    ASSUME NInv, NEW p, Offered(client, p)
    PROVE  /\ p \in DOMAIN ports /\ p # ipc_bootstrap_port
           /\ \A c \in Clients : ~Awaits(client, c, p)
<1>1. PICK c \in Clients : Serves(client, c, p)
  BY DEF Offered
<1>2. client[c] \in ClientRec
  BY DEF NInv, ClientsOK
<1>3. p \in Names
  BY <1>1, <1>2 DEF Serves, ClientRec, Locals, PortOrNull
<1> QED  BY <1>1, <1>3 DEF NInv, PortsOwned

\* The dispatch loop answers the call that asked, with a port that serves.
LEMMA LoopMatches ==
    ASSUME NInv, MInv, mxwl_kernel_loop
    PROVE  MInv'
<1> DEFINE m == Head(ports[ipc_bootstrap_port])
           port == IF m.id = "LOOKUP" THEN LookedUp(m.name) ELSE MACH_PORT_NULL
           e == [name |-> m.name, port |-> m.local, owner |-> m.tag[1]]
<1>1. HasMessage(ports, ipc_bootstrap_port) /\ client' = client
  BY DEF mxwl_kernel_loop
<1>2. m \in GoodMessage /\ m.type = "request" /\ m = ports[ipc_bootstrap_port][1]
      /\ 1 \in DOMAIN ports[ipc_bootstrap_port]
  BY <1>1, FirstRequest
<1>3. /\ IsSpace(ports', GoodMessage)
      /\ Delivered(Taken(ports, ipc_bootstrap_port), ports', m.local, HandledReply(m))
      /\ \/ ipc_service_table' = ipc_service_table
         \/ m.id = "REGISTER" /\ ipc_service_table' = Append(ipc_service_table, e)
  BY LoopStep
<1>4. HandledReply(m) = Reply(m, port)
  BY DEF HandledReply
<1>5. TableOK /\ IsSpace(ports, GoodMessage) /\ PortsOwned(ports, client)
  BY DEF NInv
<1>6. Conversing(ports, client) /\ TableOffered(client)
  BY DEF MInv
<1>7. LookedUp(m.name) # MACH_PORT_NULL => Offered(client, LookedUp(m.name))
  BY <1>5, <1>6, LookedUpOK DEF TableOffered
<1>8. port # MACH_PORT_NULL => Offered(client, port)
  BY <1>7
<1>9. Sensible(client, m)
  BY <1>1, <1>2, <1>6 DEF Conversing, AllSensible, HasMessage
<1>10. m.id = "REGISTER" => Offered(client, m.local)
  BY <1>2, <1>9 DEF Sensible
<1>11. e.port = m.local
  OBVIOUS
<1> HIDE DEF port, e
<1>12. Conversing(ports', client)
  <2>1. Delivered(Taken(ports, ipc_bootstrap_port), ports', m.local, Reply(m, port))
    BY <1>3, <1>4
  <2>2. GoodMessage \subseteq GoodMessage
    OBVIOUS
  <2> QED  BY <1>1, <1>2, <1>3, <1>5, <1>6, <1>8, <2>1, <2>2, AnswerConverses
<1>13. (TableOffered(client))'
  <2>1. CASE ipc_service_table' = ipc_service_table
    BY <1>1, <1>6, <2>1 DEF TableOffered
  <2>2. CASE m.id = "REGISTER" /\ ipc_service_table' = Append(ipc_service_table, e)
    <3>1. /\ DOMAIN ipc_service_table = 1 .. Len(ipc_service_table)
          /\ Len(ipc_service_table) \in Nat
      BY <1>5 DEF TableOK
    <3>2. \A i \in DOMAIN ipc_service_table' :
              \/ i \in DOMAIN ipc_service_table /\ ipc_service_table'[i] = ipc_service_table[i]
              \/ ipc_service_table'[i] = e
      BY <1>5, <2>2, <3>1 DEF TableOK
    <3> QED  BY <1>1, <1>6, <1>10, <1>11, <2>2, <3>2 DEF TableOffered
  <2> QED  BY <1>3, <2>1, <2>2
<1>14. KnownOffered(client') /\ \A c \in Clients : Matches(c)'
  BY <1>1 DEF MInv, KnownOffered, Matches
<1> QED  BY <1>1, <1>12, <1>13, <1>14 DEF MInv

\* A service answers the call that asked.
LEMMA ServeMatches ==
    ASSUME NInv, MInv, NEW c \in Clients, Serve(c)
    PROVE  MInv'
<1> DEFINE p == client[c].service
           m == Head(ports[p])
<1>1. HasMessage(ports, p) /\ UNCHANGED <<client, ipc_service_table>>
  BY DEF Serve
<1>2. /\ IsSpace(ports', GoodMessage)
      /\ \/ ports' = Taken(ports, p)
         \/ /\ m.type = "request"
            /\ Delivered(Taken(ports, p), ports', m.local, Reply(m, MACH_PORT_NULL))
  BY ServeStep
<1>3. IsSpace(ports, GoodMessage) /\ PortsOwned(ports, client) /\ Conversing(ports, client)
  BY DEF NInv, MInv
<1> HIDE DEF p
<1>4. Conversing(ports', client)
  <2>1. GoodMessage \subseteq GoodMessage
    OBVIOUS
  <2> QED  BY <1>1, <1>2, <1>3, <2>1, AnswerConverses
<1> QED  BY <1>1, <1>4 DEF MInv, KnownOffered, TableOffered, Matches

\* Only one client moves.
LEMMA OneClient ==
    ASSUME NInv, NEW c \in Clients, NEW y, client' = [client EXCEPT ![c] = y]
    PROVE  client'[c] = y /\ \A d \in Clients \ {c} : client'[d] = client[d]
BY DEF NInv, ClientsOK

\* The ports of a space before anybody asks for an answer on a new one.
LEMMA NobodyAsks ==
    ASSUME NInv, Conversing(ports, client), NEW p, p \notin DOMAIN ports
    PROVE  NoneAsks(ports, p)
<1> SUFFICES ASSUME NEW x, NEW i, Asked(ports, p, x, i) PROVE FALSE
  BY DEF NoneAsks
<1> DEFINE m == ports[x][i]
<1>1. x \in DOMAIN ports /\ i \in DOMAIN ports[x] /\ Asks(m, p)
  BY DEF Asked
<1>2. m \in GoodMessage
  BY <1>1, SpaceHolds DEF NInv
<1>3. Sensible(client, m)
  BY <1>1 DEF Conversing, AllSensible
<1> HIDE DEF m
<1>4. m.type = "request" /\ m.id # "REGISTER" /\ m.local = p
  BY <1>1 DEF Asks
<1>5. p \in Names
  BY <1>2, <1>4 DEF GoodMessage
<1>6. PICK c \in Clients : Awaits(client, c, p)
  BY <1>3, <1>4 DEF Sensible
<1> QED  BY <1>5, <1>6 DEF NInv, PortsOwned

\* A client opens the port of its service.
LEMMA OpenServiceMatches ==
    ASSUME NInv, MInv, NEW c \in Clients, OpenService(c)
    PROVE  MInv'
<1> DEFINE p == FreshName(ports)
           y == WithService(client[c], p)
<1>1. /\ client[c].service = MACH_PORT_NULL /\ ~Full(ports)
      /\ ports' = Opened(ports, p) /\ client' = [client EXCEPT ![c].service = p]
      /\ UNCHANGED ipc_service_table
  BY DEF OpenService
<1>2. DOMAIN ports \subseteq Names
  BY DEF NInv, IsSpace
<1>3. p \in Names /\ p \notin DOMAIN ports
  BY <1>1, <1>2, FreshNameOK
<1>4. client[c] \in ClientRec /\ p \in PortOrNull
  BY <1>3 DEF NInv, ClientsOK, PortOrNull
<1> HIDE DEF p
<1>5. client' = [client EXCEPT ![c] = y]
  BY <1>1 DEF WithService
<1>6. /\ y.pc = client[c].pc /\ y.reply_port = client[c].reply_port /\ y.got = client[c].got
      /\ y.tag = client[c].tag /\ y.known = client[c].known
  BY <1>4, WithServiceOK
<1> HIDE DEF y
<1>7. client'[c] = y /\ \A d \in Clients \ {c} : client'[d] = client[d]
  BY <1>5, OneClient
<1>8. \A d \in Clients : /\ client'[d].pc = client[d].pc /\ client'[d].reply_port = client[d].reply_port
                         /\ client'[d].got = client[d].got /\ client'[d].tag = client[d].tag
                         /\ client'[d].known = client[d].known
  BY <1>6, <1>7
<1>9. \A x : Offered(client, x) => Offered(client', x)
  BY <1>1, <1>7 DEF Offered, Serves
<1>10. \A d \in Clients : \A x : Awaits(client', d, x) <=> Awaits(client, d, x)
  BY <1>8 DEF Awaits
<1>11. Conversing(ports', client')
  <2>1. /\ DOMAIN ports' = DOMAIN ports \cup {p} /\ \A x \in DOMAIN ports : ports'[x] = ports[x]
        /\ ports'[p] = <<>>
    BY <1>1, <1>3 DEF Opened
  <2>2. Conversing(ports, client)
    BY DEF MInv
  <2>3. \A d \in Clients : \A x :
            /\ Awaits(client', d, x) => Awaits(client, d, x) \/ x = p
            /\ Awaits(client, d, x) => Awaits(client', d, x) /\ client'[d].tag = client[d].tag
    BY <1>8, <1>10
  <2> QED  BY <1>3, <1>9, <2>1, <2>2, <2>3, OpenConverses
<1>12. KnownOffered(client') /\ (TableOffered(client))'
  BY <1>1, <1>8, <1>9 DEF MInv, KnownOffered, TableOffered
<1>13. \A d \in Clients : Matches(d)'
  BY <1>8 DEF MInv, Matches
<1> QED  BY <1>11, <1>12, <1>13 DEF MInv

\* A client asks for a name to be registered.
LEMMA RegisterMatches ==
    ASSUME NInv, MInv, NEW c \in Clients, NEW name \in ServiceNames, SendRegister(c, name)
    PROVE  MInv'
<1> DEFINE p == client[c].service
           m == Request("REGISTER", name, p, NextTag(c))
<1>1. /\ Call(c) /\ p # MACH_PORT_NULL
      /\ ports' = SendResult(ports, ipc_bootstrap_port, m).space
      /\ UNCHANGED <<ipc_service_table, client, handled>>
      /\ calls < MaxCalls /\ calls' = calls + 1
  BY DEF SendRegister, Call
<1>2. Offered(client, p) /\ p \in Names \ {ipc_bootstrap_port}
  <2>1. Offered(client, p)
    BY <1>1 DEF Offered, Serves
  <2>2. p \in DOMAIN ports /\ p # ipc_bootstrap_port
    BY <2>1, OfferedLive
  <2> QED  BY <2>1, <2>2 DEF NInv, IsSpace
<1>3. m \in GoodMessage' /\ m.type = "request" /\ m.id = "REGISTER" /\ m.local = p
  BY <1>1, <1>2, NewRequestOK
<1>4. GoodMessage \subseteq GoodMessage'
  BY <1>1, CallsStep
<1>5. Conversing(ports, client) /\ IsSpace(ports, GoodMessage) /\ DOMAIN ports \subseteq Names
      /\ \A d \in Clients : ~Awaits(client, d, ipc_bootstrap_port)
  BY DEF NInv, MInv, IsSpace, PortsOwned
<1>6. Sensible(client, m) /\ \A x : ~Asks(m, x)
  BY <1>2, <1>3 DEF Sensible, Asks
<1> HIDE DEF m, p
<1>7. IsSpace(ports, GoodMessage')
  BY <1>4, <1>5, SpaceGrows
<1>8. IsSpace(ports', GoodMessage') /\ Delivered(ports, ports', ipc_bootstrap_port, m)
  BY <1>1, <1>3, <1>7, SendOK
<1>9. Conversing(ports', client)
  BY <1>3, <1>5, <1>6, <1>7, <1>8, RequestConverses
<1> QED  BY <1>1, <1>9 DEF MInv, KnownOffered, TableOffered, Matches

\* A call begins: to the kernel, or to a service that is known.
LEMMA CallMatches ==
    ASSUME NInv, MInv, NEW c \in Clients, NEW dest \in PortOrNull,
           NEW id \in {"LOOKUP", "UNKNOWN", "SERVICE"}, NEW name \in ServiceNames \cup {NoName},
           NEW timeout \in Nat, mach_msg_rpc(c, dest, id, name, timeout),
           dest = ipc_bootstrap_port \/ Offered(client, dest)
    PROVE  MInv'
<1> DEFINE p == FreshName(ports)
           q == Opened(ports, p)
           m == Request(id, name, p, NextTag(c))
           r == SendResult(q, dest, m)
           y == Begun(client[c], NextTag(c), p, dest, timeout)
<1>1. Call(c) /\ UNCHANGED ipc_service_table /\ calls' = calls + 1 /\ client[c].pc = "idle"
      /\ UNCHANGED handled
  BY DEF mach_msg_rpc, Call
<1>2. GoodMessage \subseteq GoodMessage' /\ ipc_bootstrap_port \in Names
      /\ ipc_bootstrap_port \in DOMAIN ports
  <2>1. ipc_bootstrap_port \in Names /\ ipc_bootstrap_port \in DOMAIN ports
    BY KernelQueue
  <2>2. calls < MaxCalls
    BY <1>1 DEF Call
  <2> QED  BY <1>1, <2>1, <2>2, CallsStep
<1>3. IsSpace(ports, GoodMessage) /\ IsSpace(ports, GoodMessage') /\ DOMAIN ports \subseteq Names
  BY <1>2, SpaceGrows DEF NInv, IsSpace
<1>4. CASE UNCHANGED <<ports, client>>
  BY <1>1, <1>4 DEF MInv, KnownOffered, TableOffered, Matches
<1>5. CASE ~Full(ports)
  <2>1. p \in Names /\ p \notin DOMAIN ports
    BY <1>3, <1>5, FreshNameOK
  <2>2. p \in Names \ {ipc_bootstrap_port} /\ p # MACH_PORT_NULL
    BY <1>2, <2>1 DEF Names, MACH_PORT_NULL
  <2>3. /\ m \in GoodMessage' /\ m.type = "request" /\ m.id = id /\ m.local = p
        /\ m.tag = NextTag(c) /\ NextTag(c) \in Tags
    BY <1>1, <2>2, NewRequestOK
  <2> HIDE DEF p
  <2>4. DOMAIN q = DOMAIN ports \cup {p} /\ q[p] = <<>> /\ \A x \in DOMAIN ports : q[x] = ports[x]
    BY <2>1 DEF Opened
  <2>5. IsSpace(q, GoodMessage')
    BY <1>3, <2>1, OpenOK
  <2>6. Closed(q, p) = ports
    BY <1>3, <2>1, OpenOK
  <2>7. \/ r.kr # "KERN_SUCCESS" /\ ports' = Closed(r.space, p) /\ UNCHANGED client
        \/ client' = [client EXCEPT ![c] = y] /\ ports' = r.space
    BY <1>5 DEF mach_msg_rpc, p
  <2> HIDE DEF q, m
  <2>8. /\ IsSpace(r.space, GoodMessage') /\ Delivered(q, r.space, dest, m)
        /\ r.kr # "KERN_SUCCESS" => r.space = q
    BY <2>3, <2>5, SendOK
  <2> HIDE DEF r
  <2>9. CASE r.kr # "KERN_SUCCESS" /\ ports' = Closed(r.space, p) /\ UNCHANGED client
    <3>1. UNCHANGED <<ports, client>>
      BY <2>6, <2>8, <2>9
    <3> QED  BY <1>4, <3>1
  <2>10. CASE client' = [client EXCEPT ![c] = y] /\ ports' = r.space
    <3>1. client[c] \in ClientRec /\ p \in PortOrNull \ {MACH_PORT_NULL}
      BY <2>2 DEF NInv, ClientsOK, PortOrNull
    <3>2. /\ y.service = client[c].service /\ y.pc = "receive" /\ y.reply_port = p
          /\ y.got = NoMsg /\ y.tag = NextTag(c) /\ y.known = client[c].known
      BY <2>3, <3>1, BegunOK
    <3> HIDE DEF y
    <3>3. client'[c] = y /\ \A d \in Clients \ {c} : client'[d] = client[d]
      BY <2>10, OneClient
    <3>4. \A d \in Clients : client'[d].service = client[d].service /\ client'[d].known = client[d].known
      BY <3>2, <3>3
    <3>5. \A x : Offered(client, x) <=> Offered(client', x)
      BY <3>4 DEF Offered, Serves
    <3>6. \A d \in Clients : \A x :
              /\ Awaits(client', d, x) => Awaits(client, d, x) \/ x = p
              /\ Awaits(client, d, x) => Awaits(client', d, x) /\ client'[d].tag = client[d].tag
      BY <1>1, <3>2, <3>3 DEF Awaits
    <3>7. Conversing(ports, client)
      BY DEF MInv
    <3>8. Conversing(q, client') /\ \A x : NoneAsks(ports, x) => NoneAsks(q, x)
      <4>1. \A x : Offered(client, x) => Offered(client', x)
        BY <3>5
      <4>2. /\ DOMAIN q = DOMAIN ports \cup {p} /\ \A x \in DOMAIN ports : q[x] = ports[x]
            /\ q[p] = <<>> /\ p \notin DOMAIN ports
        BY <2>1, <2>4
      <4> QED  BY <3>6, <3>7, <4>1, <4>2, OpenConverses
    <3>9. NoneAsks(q, p)
      BY <2>1, <3>7, <3>8, NobodyAsks
    <3>10. \A x : Asks(m, x) => x = p
      BY <2>3 DEF Asks
    <3>11. Sensible(client', m)
      <4>1. Awaits(client', c, p) /\ client'[c].tag = m.tag
        BY <2>3, <3>2, <3>3 DEF Awaits
      <4>2. m.id # "REGISTER" /\ m.type = "request" /\ m.local = p
        BY <2>3
      <4> QED  BY <4>1, <4>2 DEF Sensible
    <3>12. \A d \in Clients : ~Awaits(client', d, dest)
      <4>1. \A d \in Clients : ~Awaits(client, d, dest)
        <5>1. CASE dest = ipc_bootstrap_port
          BY <5>1 DEF NInv, PortsOwned
        <5>2. CASE Offered(client, dest)
          BY <5>2, OfferedLive
        <5> QED  BY <5>1, <5>2
      <4>2. dest \in DOMAIN ports
        BY <1>2, OfferedLive
      <4> QED  BY <2>1, <3>6, <4>1, <4>2
    <3>13. DOMAIN q \subseteq Names
      BY <1>3, <2>1, <2>4
    <3>14. Conversing(ports', client')
      <4>1. \A x \in Names : Asks(m, x) => NoneAsks(q, x) /\ (x \in DOMAIN q => q[x] = <<>>)
        BY <2>4, <3>9, <3>10
      <4>2. Conversing(r.space, client')
        BY <2>3, <2>5, <2>8, <3>8, <3>11, <3>12, <3>13, <4>1, RequestConverses
      <4> QED  BY <2>10, <4>2
    <3>15. KnownOffered(client') /\ (TableOffered(client))'
      BY <1>1, <3>4, <3>5 DEF MInv, KnownOffered, TableOffered
    <3>16. \A d \in Clients : Matches(d)'
      BY <3>2, <3>3 DEF MInv, Matches
    <3> QED  BY <3>14, <3>15, <3>16 DEF MInv
  <2> QED  BY <2>7, <2>9, <2>10
<1>6. Full(ports) => UNCHANGED <<ports, client>>
  BY DEF mach_msg_rpc
<1> QED  BY <1>4, <1>5, <1>6

\* A call returns the answer to its own request.
LEMMA ReceiveMatches ==
    ASSUME NInv, MInv, NEW c \in Clients, mach_msg_receive(c), ~abandoned'
    PROVE  MInv'
<1> DEFINE p == client[c].reply_port
           m == Head(ports[p])
<1>1. client[c].pc = "receive" /\ UNCHANGED ipc_service_table
  BY DEF mach_msg_receive
<1>2. client[c] \in ClientRec /\ IsSpace(ports, GoodMessage) /\ Conversing(ports, client)
  BY DEF NInv, ClientsOK, MInv
<1>3. Awaits(client, c, p) /\ \A x : Awaits(client, c, x) => x = p
  BY <1>1 DEF Awaits
<1>4. \/ /\ HasMessage(ports, p)
         /\ client' = Returned(c, m)
         /\ ports' = Closed(ports, p)
      \/ client' = [client EXCEPT ![c].polls = @ + 1] /\ UNCHANGED ports
  BY DEF mach_msg_receive
<1> HIDE DEF p
<1>5. CASE /\ HasMessage(ports, p)
           /\ client' = Returned(c, m)
           /\ ports' = Closed(ports, p)
  <2> DEFINE known == Learned(c, m)
             y == Ended(client[c], m, known)
  <2>1. p \in DOMAIN ports /\ ports[p] # <<>>
    BY <1>5 DEF HasMessage
  <2>2. m \in GoodMessage /\ m = ports[p][1] /\ 1 \in DOMAIN ports[p]
    BY <1>2, <2>1, SpaceHolds
  <2>3. m.type = "reply" /\ m.tag = client[c].tag
    BY <1>2, <1>3, <2>1, <2>2 DEF Conversing, OwnAnswers
  <2>4. Sensible(client, m)
    BY <1>2, <2>1, <2>2 DEF Conversing, AllSensible
  <2>5. m \in Message /\ m # NoMsg /\ m.port \in PortOrNull
    <3>1. m \in Message
      BY <2>2 DEF GoodMessage
    <3> QED  BY <2>3, <3>1, MessageOK
  <2>6. NoneAsks(ports, p)
    BY <1>2, <1>3, <2>1 DEF Conversing, AnsweredOnce
  <2>7. known = IF m.port # MACH_PORT_NULL THEN m.port ELSE client[c].known
    BY <2>3 DEF Learned
  <2> HIDE DEF m
  <2>8. known \in PortOrNull /\ (known # MACH_PORT_NULL => Offered(client, known))
    <3>1. client[c].known \in PortOrNull
      BY <1>2 DEF ClientRec, Locals
    <3>2. client[c].known # MACH_PORT_NULL => Offered(client, client[c].known)
      BY DEF MInv, KnownOffered
    <3>3. m.port # MACH_PORT_NULL => Offered(client, m.port)
      BY <2>3, <2>4 DEF Sensible
    <3> QED  BY <2>5, <2>7, <3>1, <3>2, <3>3
  <2> HIDE DEF known
  <2>9. /\ y.service = client[c].service /\ y.pc = "idle" /\ y.got = m /\ y.known = known
        /\ y.tag = client[c].tag
    BY <1>2, <2>5, <2>8, EndedOK
  <2>10. client' = [client EXCEPT ![c] = y]
    BY <1>5 DEF Returned, known
  <2> HIDE DEF y
  <2>11. client'[c] = y /\ \A d \in Clients \ {c} : client'[d] = client[d]
    BY <2>10, OneClient
  <2>12. \A x : Offered(client, x) => Offered(client', x)
    BY <2>9, <2>11 DEF Offered, Serves
  <2>13. \A d \in Clients : \A x :
            /\ Awaits(client', d, x) => Awaits(client, d, x)
            /\ Awaits(client, d, x) /\ d # c => Awaits(client', d, x) /\ client'[d].tag = client[d].tag
            /\ ~Awaits(client', c, x)
    BY <2>9, <2>11 DEF Awaits
  <2>14. DOMAIN ports' = DOMAIN ports \ {p} /\ \A x \in DOMAIN ports' : ports'[x] = ports[x]
    BY <1>5 DEF Closed
  <2>15. Conversing(ports', client')
    BY <1>2, <1>3, <2>6, <2>12, <2>13, <2>14, CloseConverses
  <2>16. KnownOffered(client')
    <3>1. ASSUME NEW d \in Clients, client'[d].known # MACH_PORT_NULL
          PROVE  Offered(client, client'[d].known)
      <4>1. CASE d = c
        BY <2>8, <2>9, <2>11, <3>1, <4>1
      <4>2. CASE d # c
        BY <2>11, <3>1, <4>2 DEF MInv, KnownOffered
      <4> QED  BY <4>1, <4>2
    <3> QED  BY <2>12, <3>1 DEF KnownOffered
  <2>17. (TableOffered(client))'
    BY <1>1, <2>12 DEF MInv, TableOffered
  <2>18. \A d \in Clients : Matches(d)'
    <3>1. ASSUME NEW d \in Clients PROVE Matches(d)'
      <4>1. CASE d = c
        BY <2>3, <2>9, <2>11, <4>1 DEF Matches
      <4>2. CASE d # c
        BY <2>11, <4>2 DEF MInv, Matches
      <4> QED  BY <4>1, <4>2
    <3> QED  BY <3>1
  <2> QED  BY <2>15, <2>16, <2>17, <2>18 DEF MInv
<1>6. CASE client' = [client EXCEPT ![c].polls = @ + 1] /\ UNCHANGED ports
  <2> DEFINE y == Polled(client[c])
  <2>1. client' = [client EXCEPT ![c] = y]
    BY <1>6 DEF Polled
  <2>2. /\ y.service = client[c].service /\ y.got = client[c].got /\ y.tag = client[c].tag
        /\ y.pc = client[c].pc /\ y.reply_port = client[c].reply_port /\ y.known = client[c].known
    BY <1>2, PolledOK
  <2> HIDE DEF y
  <2>3. client'[c] = y /\ \A d \in Clients \ {c} : client'[d] = client[d]
    BY <2>1, OneClient
  <2>4. \A d \in Clients :
           /\ client'[d].pc = client[d].pc /\ client'[d].reply_port = client[d].reply_port
           /\ client'[d].got = client[d].got /\ client'[d].tag = client[d].tag
           /\ client'[d].known = client[d].known /\ client'[d].service = client[d].service
    BY <2>2, <2>3
  <2>5. \A x : Offered(client, x) => Offered(client', x)
    BY <2>4 DEF Offered, Serves
  <2>6. \A d \in Clients : \A x : Awaits(client', d, x) <=> Awaits(client, d, x)
    BY <2>4 DEF Awaits
  <2>7. Conversing(ports, client')
    <3>1. AllSensible(ports, client')
      <4> SUFFICES ASSUME NEW x \in DOMAIN ports, NEW i \in DOMAIN ports[x]
                   PROVE  Sensible(client', ports[x][i])
        BY DEF AllSensible
      <4>1. Sensible(client, ports[x][i])
        BY <1>2 DEF Conversing, AllSensible
      <4> QED  BY <2>4, <2>5, <2>6, <4>1, SensibleStays
    <3>2. OwnAnswers(ports, client')
      BY <1>2, <2>4, <2>6 DEF Conversing, OwnAnswers
    <3>3. AnsweredOnce(ports, client')
      BY <1>2, <2>6 DEF Conversing, AnsweredOnce
    <3> QED  BY <1>2, <3>1, <3>2, <3>3 DEF Conversing
  <2>8. KnownOffered(client') /\ (TableOffered(client))'
    BY <1>1, <2>4, <2>5 DEF MInv, KnownOffered, TableOffered
  <2>9. \A d \in Clients : Matches(d)'
    BY <2>4 DEF MInv, Matches
  <2> QED  BY <1>6, <2>7, <2>8, <2>9 DEF MInv
<1> QED  BY <1>4, <1>5, <1>6

-----------------------------------------------------------------------------
(* Answers match their requests *)

\* As long as nobody gives a call up or closes a service.
RInv == NInv /\ (~abandoned => MInv)

\* At the start nobody has called.
LEMMA InitR == Init => RInv
<1> SUFFICES ASSUME Init PROVE RInv
  OBVIOUS
<1>1. NInv
  BY InitN
<1>2. DOMAIN ports = {ipc_bootstrap_port} /\ ports[ipc_bootstrap_port] = <<>>
      /\ DOMAIN ipc_service_table = {}
  BY DEF Init
<1>3. \A c \in Clients : client[c].pc = "idle" /\ client[c].got = NoMsg
                         /\ client[c].known = MACH_PORT_NULL
  BY DEF Init, IdleClient, Idle
<1>4. \A x \in DOMAIN ports : DOMAIN ports[x] = {}
  BY <1>2
<1>5. Conversing(ports, client)
  BY <1>3, <1>4 DEF Conversing, AllSensible, OwnAnswers, AskedOnce, AnsweredOnce, Awaits
<1>6. KnownOffered(client) /\ TableOffered(client) /\ \A c \in Clients : Matches(c)
  BY <1>2, <1>3 DEF KnownOffered, TableOffered, Matches
<1> QED  BY <1>1, <1>5, <1>6 DEF RInv, MInv

\* Every call of a client keeps answers and requests together.
LEMMA ClientMatches ==
    ASSUME NInv, MInv, NEW c \in Clients, ClientStep(c), ~abandoned'
    PROVE  MInv'
<1>1. ipc_bootstrap_port \in PortOrNull
  BY KernelQueue DEF PortOrNull
<1>2. CASE OpenService(c)
  BY <1>2, OpenServiceMatches
<1>3. ~CloseService(c)
  BY DEF CloseService
<1>4. ASSUME NEW name \in ServiceNames, SendRegister(c, name) PROVE MInv'
  BY <1>4, RegisterMatches
<1>5. CASE AskKernel(c)
  <2>1. PICK timeout \in Timeouts :
            \/ \E name \in ServiceNames :
                  mach_msg_rpc(c, ipc_bootstrap_port, "LOOKUP", name, timeout)
            \/ mach_msg_rpc(c, ipc_bootstrap_port, "UNKNOWN", NoName, timeout)
    BY <1>5 DEF AskKernel
  <2>2. timeout \in Nat
    BY BootstrapAssumption
  <2>3. ASSUME NEW name \in ServiceNames,
               mach_msg_rpc(c, ipc_bootstrap_port, "LOOKUP", name, timeout)
        PROVE  MInv'
    <3>1. name \in ServiceNames \cup {NoName} /\ "LOOKUP" \in {"LOOKUP", "UNKNOWN", "SERVICE"}
      OBVIOUS
    <3> QED  BY <1>1, <2>2, <2>3, <3>1, CallMatches
  <2>4. CASE mach_msg_rpc(c, ipc_bootstrap_port, "UNKNOWN", NoName, timeout)
    <3>1. NoName \in ServiceNames \cup {NoName} /\ "UNKNOWN" \in {"LOOKUP", "UNKNOWN", "SERVICE"}
      OBVIOUS
    <3> QED  BY <1>1, <2>2, <2>4, <3>1, CallMatches
  <2> QED  BY <2>1, <2>3, <2>4
<1>6. CASE AskService(c)
  <2>1. PICK timeout \in Timeouts :
            /\ client[c].known # MACH_PORT_NULL
            /\ mach_msg_rpc(c, client[c].known, "SERVICE", NoName, timeout)
    BY <1>6 DEF AskService
  <2>2. timeout \in Nat
    BY BootstrapAssumption
  <2>3. NoName \in ServiceNames \cup {NoName} /\ "SERVICE" \in {"LOOKUP", "UNKNOWN", "SERVICE"}
    OBVIOUS
  <2>4. client[c].known \in PortOrNull /\ Offered(client, client[c].known)
    BY <2>1 DEF NInv, MInv, ClientsOK, ClientRec, Locals, KnownOffered
  <2> QED  BY <2>1, <2>2, <2>3, <2>4, CallMatches
<1>7. CASE mach_msg_receive(c)
  BY <1>7, ReceiveMatches
<1>8. CASE Serve(c)
  BY <1>8, ServeMatches
<1> QED  BY <1>2, <1>3, <1>4, <1>5, <1>6, <1>7, <1>8 DEF ClientStep

\* A call that was given up stays given up.
LEMMA AbandonedStays == [Next]_vars => (abandoned => abandoned')
<1> SUFFICES ASSUME [Next]_vars, abandoned PROVE abandoned'
  OBVIOUS
<1>1. CASE mxwl_kernel_loop
  BY <1>1 DEF mxwl_kernel_loop
<1>2. ASSUME NEW c \in Clients, ClientStep(c) PROVE abandoned'
  <2>1. ASSUME NEW dest, NEW id, NEW name, NEW timeout, mach_msg_rpc(c, dest, id, name, timeout)
        PROVE  abandoned'
    BY <2>1 DEF mach_msg_rpc
  <2>2. CASE AskKernel(c) \/ AskService(c)
    BY <2>1, <2>2 DEF AskKernel, AskService
  <2>3. CASE mach_msg_receive(c)
    BY <2>3 DEF mach_msg_receive
  <2> QED  BY <1>2, <2>2, <2>3 DEF ClientStep, OpenService, CloseService, SendRegister, Serve
<1>3. CASE UNCHANGED vars
  BY <1>3 DEF vars
<1> QED  BY <1>1, <1>2, <1>3 DEF Next

\* Every step keeps the invariant.
LEMMA NextR == RInv /\ [Next]_vars => RInv'
<1> SUFFICES ASSUME RInv, [Next]_vars, ~abandoned' PROVE MInv'
  BY NextN DEF RInv
<1>1. NInv /\ MInv
  BY AbandonedStays DEF RInv
<1>2. CASE mxwl_kernel_loop
  BY <1>1, <1>2, LoopMatches
<1>3. ASSUME NEW c \in Clients, ClientStep(c) PROVE MInv'
  BY <1>1, <1>3, ClientMatches
<1>4. CASE UNCHANGED vars
  BY <1>1, <1>4 DEF vars, MInv, KnownOffered, TableOffered, Matches
<1> QED  BY <1>2, <1>3, <1>4 DEF Next

\* As long as no call is given up after its timeout and no service port is
\* destroyed, every mach_msg_rpc returns the answer to the request it sent,
\* although reply ports are freed and their names given out again.
THEOREM AnswersMatchRequests == Spec => []RepliesMatch
<1>1. RInv => RepliesMatch
  BY DEF RInv, MInv, RepliesMatch
<1> QED  BY <1>1, InitR, NextR, PTL DEF Spec
=============================================================================
