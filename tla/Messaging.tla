----------------------------- MODULE Messaging -----------------------------
(***************************************************************************)
(* What a message meets on its way through the kernel: the call that       *)
(* receives it (ipc/ipc.c), the channels on which threads wait             *)
(* (WaitChannel) and the receive rights it carries (ipc/ipc_port.c).  The  *)
(* three share no state, and a step is a step of one of them.              *)
(***************************************************************************)
EXTENDS WaitChannel, Integers, Sequences, FiniteSets

-----------------------------------------------------------------------------
(***************************************************************************)
(* One call of mach_msg_receive (ipc/ipc.c) statement by statement, against *)
(* the clock, a sender, and other users of the port table.  The port is    *)
(* looked up once; afterwards the call goes by the port's name and by the  *)
(* descriptor it copied, and both can be given to somebody else.           *)
(***************************************************************************)
CONSTANTS TIMEOUT,      \* timeout_ms / 100; 0 waits for ever
          MaxSent,      \* messages sent (bound)
          MaxNow,       \* time, in units of 100 ms (bound)
          PortReused    \* may the port be destroyed and its name reused?

ASSUME ReceiveAssumption == /\ TIMEOUT \in Nat /\ MaxSent \in Nat
                            /\ MaxNow \in Nat /\ PortReused \in BOOLEAN

VARIABLES now,      \* the clock
          pc,       \* where the call is
          elapsed,  \* its idea of the time spent, in units of 100 ms
          kr,       \* its result
          got,      \* message it returned, 0 for none
          queue,    \* messages queued under the port's name
          sent,     \* messages are numbered in the order they are queued
          dropped,  \* messages freed with the port
          gen       \* "own" port, "dead" name, or "other" port of that name

receiveVars == <<now, pc, elapsed, kr, got, queue, sent, dropped, gen>>

RCInit ==
        /\ now = 0 /\ pc = "lookup" /\ elapsed = 0 /\ kr = "none" /\ got = 0
        /\ queue = <<>> /\ sent = 0 /\ dropped = {} /\ gen = "own"

Return(code) == pc' = "done" /\ kr' = code

Lookup ==
    /\ pc = "lookup"
    /\ \/ gen = "dead" /\ Return("KERN_INVALID_RIGHT")
       \/ gen # "dead" /\ pc' = "dequeue" /\ UNCHANGED kr
    /\ UNCHANGED <<now, elapsed, got, queue, sent, dropped, gen>>

\* The next statement after a dequeue that found nothing.
AfterEmpty(at) == IF at = "dequeue" THEN "poll" ELSE "count"

\* mach_port_dequeue_message at the top of the loop and after the poll.  A
\* dead name yields nothing.
Dequeue ==
    /\ pc \in {"dequeue", "redequeue"}
    /\ \/ /\ queue # <<>>
          /\ got' = Head(queue)
          /\ queue' = Tail(queue)
          /\ Return("KERN_SUCCESS")
       \/ /\ queue = <<>>
          /\ pc' = AfterEmpty(pc)
          /\ UNCHANGED <<got, queue, kr>>
    /\ UNCHANGED <<now, elapsed, sent, dropped, gen>>

\* The other end of the socket pair was closed when the port was made, so
\* the descriptor is readable (end of file) and poll does not wait.  Once
\* the descriptor is closed too, poll reports it without KAL_POLLIN, unless
\* a new port has been given the same number.  A signal interrupts it.
Poll ==
    /\ pc = "poll"
    /\ \/ pc' = "redequeue" /\ UNCHANGED kr
       \/ gen # "own" /\ pc' = "count" /\ UNCHANGED kr
       \/ Return("KERN_FAILURE")
    /\ UNCHANGED <<now, elapsed, got, queue, sent, dropped, gen>>

\* Mutant: the timeout is checked before the time is added, and never met.
CountForever ==
    /\ pc = "count"
    /\ elapsed' = elapsed
    /\ pc' = "dequeue"
    /\ UNCHANGED <<now, kr, got, queue, sent, dropped, gen>>

\* Mutant: the call gives up only when the time spent exceeds the timeout.
CountOneMore ==
    /\ pc = "count"
    /\ elapsed' = IF TIMEOUT > 0 THEN elapsed + 1 ELSE elapsed
    /\ \/ TIMEOUT > 0 /\ elapsed + 1 > TIMEOUT /\ Return("KERN_ABORTED")
       \/ ~(TIMEOUT > 0 /\ elapsed + 1 > TIMEOUT) /\ pc' = "dequeue" /\ UNCHANGED kr
    /\ UNCHANGED <<now, got, queue, sent, dropped, gen>>

\* Without a timeout nothing reads elapsed, and it is not counted here.
Count ==
    /\ pc = "count"
    /\ elapsed' = IF TIMEOUT > 0 THEN elapsed + 1 ELSE elapsed
    /\ \/ TIMEOUT > 0 /\ elapsed + 1 >= TIMEOUT /\ Return("KERN_ABORTED")
       \/ ~(TIMEOUT > 0 /\ elapsed + 1 >= TIMEOUT) /\ pc' = "dequeue" /\ UNCHANGED kr
    /\ UNCHANGED <<now, got, queue, sent, dropped, gen>>

\* Mutant: the copy is put in front of the messages already queued.
SendFirst ==
    /\ gen # "dead" /\ sent < MaxSent
    /\ sent' = sent + 1
    /\ queue' = <<sent + 1>> \o queue
    /\ UNCHANGED <<now, pc, elapsed, kr, got, dropped, gen>>

Send ==
    /\ gen # "dead" /\ sent < MaxSent
    /\ sent' = sent + 1
    /\ queue' = Append(queue, sent + 1)
    /\ UNCHANGED <<now, pc, elapsed, kr, got, dropped, gen>>

Destroy ==
    /\ PortReused /\ gen = "own"
    /\ gen' = "dead"
    /\ dropped' = dropped \cup {queue[i] : i \in DOMAIN queue}
    /\ queue' = <<>>
    /\ UNCHANGED <<now, pc, elapsed, kr, got, sent>>

Reuse ==
    /\ gen = "dead"
    /\ gen' = "other"
    /\ UNCHANGED <<now, pc, elapsed, kr, got, queue, sent, dropped>>

Tick == /\ now < MaxNow
        /\ now' = now + 1
        /\ UNCHANGED <<pc, elapsed, kr, got, queue, sent, dropped, gen>>

ReceiveStep == Lookup \/ Dequeue \/ Poll \/ Count
RCNext == ReceiveStep \/ Send \/ Destroy \/ Reuse \/ Tick

RCSpec == RCInit /\ [][RCNext]_receiveVars
RCFairSpec == RCSpec /\ WF_receiveVars(ReceiveStep)
-----------------------------------------------------------------------------
(* Properties *)

\* The variables stay in their ranges.
RCTypeOK ==
          /\ now \in 0 .. MaxNow
          /\ pc \in {"lookup", "dequeue", "poll", "redequeue", "count", "done"}
          /\ elapsed \in 0 .. TIMEOUT
          /\ kr \in {"none", "KERN_SUCCESS", "KERN_ABORTED", "KERN_FAILURE",
                     "KERN_INVALID_RIGHT"}
          /\ got \in 0 .. MaxSent /\ sent \in 0 .. MaxSent
          /\ queue \in Seq(1 .. MaxSent)
          /\ dropped \subseteq 1 .. MaxSent
          /\ gen \in {"own", "dead", "other"}

\* However the call ends, no message is lost or taken twice: each one sent
\* is still queued, was freed with the port or is the one returned, and
\* what is returned is older than all that is left.  A call that gives up
\* has taken nothing.
MessagesConserved ==
    LET queued == {queue[i] : i \in DOMAIN queue}
        taken  == IF got = 0 THEN {} ELSE {got}
    IN  /\ queued \cup dropped \cup taken = 1 .. sent
        /\ queued \cap dropped = {} /\ taken \cap (queued \cup dropped) = {}
        /\ got # 0 => \A m \in queued : got < m
        /\ got # 0 <=> kr = "KERN_SUCCESS"

\* A call with a timeout returns, whatever happens to the port meanwhile.
ReceiveReturns == pc = "lookup" ~> pc = "done"

\* ipc.h: "Receive a message from a port (blocking with timeout)."  A call
\* does not report a timeout before that time has passed.
TimeoutHonoured == kr = "KERN_ABORTED" => now >= TIMEOUT

-----------------------------------------------------------------------------
(***************************************************************************)
(* ipc_port_check_circularity of src/Kernel/mxwl/ipc/ipc_port.c with its   *)
(* locks: threads that queue receive rights in messages try a quick check  *)
(* with two port locks, and serialize on ipc_port_multiple_lock to lock    *)
(* the whole chain of destinations when that does not settle it.           *)
(***************************************************************************)
CONSTANTS Chained, NoChain,       \* the ports, IP_NULL
          Senders, NoSender       \* the threads, no holder of a lock

ASSUME CircularityAssumption == NoChain \notin Chained /\ NoSender \notin Senders

VARIABLES where,          \* "space", "limbo", "transit" or "dead" of each port
          destination,    \* ip_destination
          lock, multiple, \* holders of the port locks and of the multiple lock
          call            \* the call of each thread: port, dest, base and pc
CCvars == <<where, destination, lock, multiple, call>>

NoCall == [pc |-> "idle", port |-> NoChain, dest |-> NoChain, base |-> NoChain]

CCInit ==
  /\ where = [p \in Chained |-> "space"]
  /\ destination = [p \in Chained |-> NoChain]
  /\ lock = [p \in Chained |-> NoSender]
  /\ multiple = NoSender
  /\ call = [t \in Senders |-> NoCall]

CallAt(t, to) == call' = [call EXCEPT ![t].pc = to]
Moving(p) == where[p] = "transit"

\* A receive right taken out of its space for a message: the port is in limbo
\* and belongs to the sending thread, which now checks it against dest.
Begin(t, p, d) ==
  /\ call[t] = NoCall
  /\ where[p] = "space" /\ lock[p] = NoSender /\ d # p
  /\ where' = [where EXCEPT ![p] = "limbo"]
  /\ call' = [call EXCEPT ![t] = [pc |-> "port", port |-> p, dest |-> d, base |-> d]]
  /\ UNCHANGED <<destination, lock, multiple>>

LockPort(t) ==
  LET p == call[t].port IN
  /\ call[t].pc = "port" /\ lock[p] = NoSender
  /\ lock' = [lock EXCEPT ![p] = t]
  /\ CallAt(t, "try")
  /\ UNCHANGED <<where, destination, multiple>>

\* ip_lock_try(dest): the quick answer when dest is free and not in transit.
TryDest(t) ==
  LET c == call[t] IN
  /\ c.pc = "try"
  /\ IF lock[c.dest] = NoSender /\ ~Moving(c.dest)
     THEN lock' = [lock EXCEPT ![c.dest] = t] /\ CallAt(t, "link")
     ELSE lock' = [lock EXCEPT ![c.port] = NoSender] /\ CallAt(t, "multiple")
  /\ UNCHANGED <<where, destination, multiple>>

LockMultiple(t) ==
  /\ call[t].pc = "multiple" /\ multiple = NoSender
  /\ multiple' = t
  /\ CallAt(t, "chain")
  /\ UNCHANGED <<where, destination, lock>>

\* One port of the chain is locked; the chain ends at a port not in transit.
LockChain(t) ==
  LET b == call[t].base IN
  /\ call[t].pc = "chain" /\ lock[b] = NoSender
  /\ lock' = [lock EXCEPT ![b] = t]
  /\ call' = [call EXCEPT ![t].base = IF Moving(b) THEN destination[b] ELSE b,
                          ![t].pc = IF Moving(b) THEN "chain"
                                    ELSE IF b = call[t].port THEN "circle" ELSE "guarantee"]
  /\ UNCHANGED <<where, destination, multiple>>

\* Circularity: every lock of the chain is given up and TRUE returned; the
\* caller keeps the port in limbo, and here puts it back into its space.
Circle(t) ==
  /\ call[t].pc = "circle"
  /\ multiple' = NoSender
  /\ lock' = [p \in Chained |-> IF lock[p] = t THEN NoSender ELSE lock[p]]
  /\ where' = [where EXCEPT ![call[t].port] = "space"]
  /\ call' = [call EXCEPT ![t] = NoCall]
  /\ UNCHANGED destination

\* port is locked while the whole chain is locked.
Guarantee(t) ==
  LET p == call[t].port IN
  /\ call[t].pc = "guarantee" /\ lock[p] = NoSender
  /\ lock' = [lock EXCEPT ![p] = t]
  /\ multiple' = NoSender
  /\ CallAt(t, "link")
  /\ UNCHANGED <<where, destination>>

\* not_circular: port joins the chain and returns FALSE after unlocking it
\* from port to base.
Link(t) ==
  LET c == call[t] IN
  /\ c.pc = "link"
  /\ destination' = [destination EXCEPT ![c.port] = c.dest]
  /\ where' = [where EXCEPT ![c.port] = "transit"]
  /\ call' = [call EXCEPT ![t].pc = "unlock", ![t].dest = c.port]
  /\ UNCHANGED <<lock, multiple>>

UnlockChain(t) ==
  LET c == call[t] IN
  /\ c.pc = "unlock"
  /\ lock' = [lock EXCEPT ![c.dest] = NoSender]
  /\ call' = [call EXCEPT ![t] = IF c.dest = c.base THEN NoCall
                                 ELSE [c EXCEPT !.dest = destination[c.dest]]]
  /\ UNCHANGED <<where, destination, multiple>>

\* External: a port in transit arrives in a space, or is destroyed with the
\* message (ipc_port_release_receive); both happen under its lock.
Arrive(p, w) ==
  /\ Moving(p) /\ lock[p] = NoSender
  /\ where' = [where EXCEPT ![p] = w]
  /\ destination' = [destination EXCEPT ![p] = NoChain]
  /\ UNCHANGED <<lock, multiple, call>>

CCStep(t) ==
  \/ LockPort(t) \/ TryDest(t) \/ LockMultiple(t) \/ LockChain(t) \/ Circle(t)
  \/ Guarantee(t) \/ Link(t) \/ UnlockChain(t)
CCNext ==
  \/ \E t \in Senders : CCStep(t) \/ \E p, d \in Chained : Begin(t, p, d)
  \/ \E p \in Chained : \E w \in {"space", "dead"} : Arrive(p, w)

\* A thread inside the call keeps running; a mutex is granted in the end to a
\* thread that waits for it.
CCSpec == CCInit /\ [][CCNext]_CCvars /\ \A t \in Senders : SF_CCvars(CCStep(t))

-----------------------------------------------------------------------------
CCTypeOK ==
  /\ where \in [Chained -> {"space", "limbo", "transit", "dead"}]
  /\ destination \in [Chained -> Chained \cup {NoChain}]
  /\ lock \in [Chained -> Senders \cup {NoSender}]
  /\ multiple \in Senders \cup {NoSender}

\* No ports in transit form a circle port -> destination -> ... -> port,
\* whichever of the two checks each concurrent sender got through: every group
\* of ports has one that is not on its way to another of the group.
NoCircle ==
  \A S \in (SUBSET Chained) \ {{}} :
    \E p \in S : ~(Moving(p) /\ destination[p] \in S)

\* Every check returns: the locks are taken in an order that leads nowhere
\* into a deadlock.
CheckReturns == \A t \in Senders : call[t] # NoCall ~> call[t] = NoCall

-----------------------------------------------------------------------------
\* The three together.
messageVars == <<receiveVars, waitVars, CCvars>>

MSInit == RCInit /\ WCInit /\ CCInit

ReceiveMoves == RCNext /\ UNCHANGED <<waitVars, CCvars>>
WaitMoves == WCNext /\ UNCHANGED <<receiveVars, CCvars>>
RightsMove == CCNext /\ UNCHANGED <<receiveVars, waitVars>>
MSNext == ReceiveMoves \/ WaitMoves \/ RightsMove

MSSpec == MSInit /\ [][MSNext]_messageVars
-----------------------------------------------------------------------------
\* However mach_msg_receive ends, no message is lost or taken twice (ipc.c);
\* thread_block returns only for a wakeup after the thread's own assert_wait
\* (ipc_sched.c); and receive rights in messages never form a circle of ports
\* that hold each other, whichever check each sender got through (ipc_port.c).
MessagingConsistent ==
    /\ RCTypeOK /\ MessagesConserved
    /\ WCTypeOK /\ NoEarlyReturn
    /\ CCTypeOK /\ NoCircle
=============================================================================
