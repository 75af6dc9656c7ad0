------------------------------ MODULE MachPort ------------------------------
(***************************************************************************)
(* The Mach port table of the Maxxwell nanokernel (mach/mach_port.c, and   *)
(* the same code as methods in mach/MaxxwellPort.m).  A slot holds a port  *)
(* object with a ring of pointers to queued message copies.  The whole     *)
(* table lives in the kernel process and every function runs to its end    *)
(* before another is called, so each function is one action.               *)
(***************************************************************************)
EXTENDS PortOps, FiniteSets

CONSTANTS Messages,  \* messages a sender can queue
          NULL,      \* the C null pointer in a ring slot
          PortArgs   \* integers callers pass as port names: stale, 0, too big

ASSUME MachPortAssumption ==
    /\ NULL \notin Messages
    /\ PortArgs \subseteq Int

VARIABLES mxwl_port_table,        \* name -> port object (slot name - 1 in C)
          mxwl_port_table_count,  \* the counter kept beside the table
          ret                     \* what the last call returned

vars == <<mxwl_port_table, mxwl_port_table_count, ret>>

Slots == 0 .. MACH_PORT_QUEUE_MAX - 1
Rights == {"SEND", "RECEIVE"}

PortObject ==
    [in_use      : BOOLEAN,
     rights      : Rights \cup {"NONE"},
     fd_open     : BOOLEAN,          \* fd >= 0: the kernel end of the pair
     ref_count   : {-1, 0, 1},
     queue       : [Slots -> Messages \cup {NULL}],
     queue_head  : Slots,
     queue_tail  : Slots,
     queue_count : 0 .. MACH_PORT_QUEUE_MAX]

\* memset(obj, 0, sizeof *obj)
ZeroObject ==
    [in_use |-> FALSE, rights |-> "NONE", fd_open |-> FALSE, ref_count |-> 0,
     queue |-> [s \in Slots |-> NULL],
     queue_head |-> 0, queue_tail |-> 0, queue_count |-> 0]

InUse == {p \in Names : mxwl_port_table[p].in_use}

\* mach_port_lookup(port) # NULL
Lookup(p) == p \in Names /\ mxwl_port_table[p].in_use
-----------------------------------------------------------------------------
(* Effects of the functions on one port object. *)

Fresh(right) ==
    [ZeroObject EXCEPT !.in_use = TRUE, !.rights = right, !.ref_count = 1,
                       !.fd_open = (right = "RECEIVE")]

\* The socket pair could not be created: the slot is given back.
FailedFresh ==
    [ZeroObject EXCEPT !.rights = "RECEIVE", !.ref_count = 1]

\* Mutant: the tail runs on past the end of the ring
EnqueuedNoWrap(obj, m) ==
    [obj EXCEPT !.queue[obj.queue_tail] = m,
                !.queue_tail = @ + 1,
                !.queue_count = @ + 1]

Enqueued(obj, m) ==
    [obj EXCEPT !.queue[obj.queue_tail] = m,
                !.queue_tail = (@ + 1) % MACH_PORT_QUEUE_MAX,
                !.queue_count = @ + 1]

\* Mutant: the newest message is returned first
DequeuedNewest(obj) ==
    LET last == (obj.queue_tail - 1) % MACH_PORT_QUEUE_MAX
    IN  [obj EXCEPT !.queue[last] = NULL, !.queue_tail = last,
                    !.queue_count = @ - 1]

Dequeued(obj) ==
    [obj EXCEPT !.queue[obj.queue_head] = NULL,
                !.queue_head = (@ + 1) % MACH_PORT_QUEUE_MAX,
                !.queue_count = @ - 1]

\* How far slot s is ahead of the head of the ring.
Distance(obj, s) ==
    IF s >= obj.queue_head THEN s - obj.queue_head
                           ELSE s - obj.queue_head + MACH_PORT_QUEUE_MAX

\* Mutant: the drain loop leaves the last message
DrainedAllButOne(obj) ==
    [obj EXCEPT !.queue = [s \in Slots |->
                              IF Distance(obj, s) < obj.queue_count - 1
                              THEN NULL ELSE obj.queue[s]],
                !.queue_head = (@ + obj.queue_count) % MACH_PORT_QUEUE_MAX,
                !.queue_count = 0]

\* The loop "while (queue_count > 0) free(dequeue)" run to its end.
Drained(obj) ==
    [obj EXCEPT !.queue = [s \in Slots |->
                              IF Distance(obj, s) < obj.queue_count
                              THEN NULL ELSE obj.queue[s]],
                !.queue_head = (@ + obj.queue_count) % MACH_PORT_QUEUE_MAX,
                !.queue_count = 0]

\* Mutant: the slot keeps its descriptor when it is given back
DeallocatedKeepFd(obj) ==
    [Drained(obj) EXCEPT !.in_use = FALSE, !.ref_count = @ - 1]

Deallocated(obj) ==
    [Drained(obj) EXCEPT !.fd_open = FALSE, !.in_use = FALSE,
                         !.ref_count = @ - 1]
-----------------------------------------------------------------------------
Init == /\ mxwl_port_table = [p \in Names |-> ZeroObject]
        /\ mxwl_port_table_count = 0
        /\ ret = <<"init", 0>>

\* The first slot that is not in use.
FirstFree == CHOOSE p \in Names \ InUse : \A r \in Names \ InUse : p <= r

mach_port_allocate(right) ==
    \/ /\ Names \subseteq InUse
       /\ ret' = <<"name", MACH_PORT_NULL>>
       /\ UNCHANGED <<mxwl_port_table, mxwl_port_table_count>>
    \/ /\ ~ Names \subseteq InUse
       /\ mxwl_port_table' = [mxwl_port_table EXCEPT ![FirstFree] = Fresh(right)]
       /\ mxwl_port_table_count' = mxwl_port_table_count + 1
       /\ ret' = <<"name", FirstFree>>
    \/ /\ ~ Names \subseteq InUse
       /\ right = "RECEIVE"   \* kal_socket_pair fails
       /\ mxwl_port_table' = [mxwl_port_table EXCEPT ![FirstFree] = FailedFresh]
       /\ ret' = <<"name", MACH_PORT_NULL>>
       /\ UNCHANGED mxwl_port_table_count

\* Mutant: a stale name is not looked up again before the slot is released.
DeallocateUnchecked(p) ==
    /\ p \in Names
    /\ mxwl_port_table' = [mxwl_port_table EXCEPT ![p].in_use = FALSE]
    /\ mxwl_port_table_count' = mxwl_port_table_count - 1
    /\ ret' = <<"kr", "KERN_SUCCESS">>

\* The early return of every function that takes a port name.
InvalidRight(p) ==
    /\ ~ Lookup(p)
    /\ ret' = <<"kr", "KERN_INVALID_RIGHT">>
    /\ UNCHANGED <<mxwl_port_table, mxwl_port_table_count>>

mach_port_deallocate(p) ==
    \/ InvalidRight(p)
    \/ /\ Lookup(p)
       /\ mxwl_port_table' = [mxwl_port_table EXCEPT ![p] = Deallocated(@)]
       /\ mxwl_port_table_count' = mxwl_port_table_count - 1
       /\ ret' = <<"kr", "KERN_SUCCESS">>

\* ref_count is set to 0 and then decremented by the deallocation.
mach_port_destroy(p) ==
    \/ InvalidRight(p)
    \/ /\ Lookup(p)
       /\ mxwl_port_table' =
            [mxwl_port_table EXCEPT
                ![p] = Deallocated([@ EXCEPT !.ref_count = 0])]
       /\ mxwl_port_table_count' = mxwl_port_table_count - 1
       /\ ret' = <<"kr", "KERN_SUCCESS">>

mach_port_queue_message(p, m) ==
    \/ InvalidRight(p)
    \/ /\ Lookup(p)
       /\ mxwl_port_table[p].queue_count >= MACH_PORT_QUEUE_MAX
       /\ ret' = <<"kr", "KERN_NO_SPACE">>
       /\ UNCHANGED <<mxwl_port_table, mxwl_port_table_count>>
    \/ /\ Lookup(p)
       /\ mxwl_port_table[p].queue_count < MACH_PORT_QUEUE_MAX
       /\ mxwl_port_table' = [mxwl_port_table EXCEPT ![p] = Enqueued(@, m)]
       /\ ret' = <<"kr", "KERN_SUCCESS">>
       /\ UNCHANGED mxwl_port_table_count
    \/ /\ Lookup(p)
       /\ mxwl_port_table[p].queue_count < MACH_PORT_QUEUE_MAX
       /\ ret' = <<"kr", "KERN_FAILURE">>   \* kal_malloc fails
       /\ UNCHANGED <<mxwl_port_table, mxwl_port_table_count>>

mach_port_dequeue_message(p) ==
    \/ /\ ~ (Lookup(p) /\ mxwl_port_table[p].queue_count # 0)
       /\ ret' = <<"msg", NULL>>
       /\ UNCHANGED <<mxwl_port_table, mxwl_port_table_count>>
    \/ /\ Lookup(p)
       /\ mxwl_port_table[p].queue_count # 0
       /\ ret' = <<"msg", mxwl_port_table[p].queue[mxwl_port_table[p].queue_head]>>
       /\ mxwl_port_table' = [mxwl_port_table EXCEPT ![p] = Dequeued(@)]
       /\ UNCHANGED mxwl_port_table_count

\* mach_port_insert_send and mach_port_insert_receive
mach_port_insert(p, right) ==
    \/ InvalidRight(p)
    \/ /\ Lookup(p)
       /\ mxwl_port_table' = [mxwl_port_table EXCEPT ![p].rights = right]
       /\ ret' = <<"kr", "KERN_SUCCESS">>
       /\ UNCHANGED mxwl_port_table_count

Next == \/ \E right \in Rights : mach_port_allocate(right)
        \/ \E p \in PortArgs : \/ mach_port_deallocate(p)
                               \/ mach_port_destroy(p)
                               \/ mach_port_dequeue_message(p)
                               \/ \E m \in Messages : mach_port_queue_message(p, m)
                               \/ \E right \in Rights : mach_port_insert(p, right)

Spec == Init /\ [][Next]_vars
-----------------------------------------------------------------------------
(* Properties *)

\* Every slot holds a port object of the declared shape.
TypeOK == /\ mxwl_port_table \in [Names -> PortObject]
          /\ mxwl_port_table_count \in 0 .. MACH_PORT_TABLE_SIZE

RingOK(obj) ==
    /\ obj.queue_tail = (obj.queue_head + obj.queue_count) % MACH_PORT_QUEUE_MAX
    /\ \A s \in Slots : obj.queue[s] # NULL <=> Distance(obj, s) < obj.queue_count
    /\ ~ obj.in_use => obj.queue_count = 0

\* The three ring indices of a port and its slots always agree: the slots
\* that hold a message are exactly the queue_count slots from queue_head on,
\* also after the indices wrap, and a slot that is free for reuse holds no
\* message.  A copy made by mach_port_queue_message is therefore never
\* overwritten, returned twice or left behind by mach_port_deallocate.
RingInvariant == \A p \in Names : RingOK(mxwl_port_table[p])

\* mxwl_port_table_count is the number of slots in use, whatever mixture of
\* failed allocations, deallocations of stale names and reuse came before.
TableCountOK == mxwl_port_table_count = Cardinality(InUse)

\* Only a port in use holds a socket, and no port in use has been released:
\* a stale or repeated deallocation neither leaks a descriptor nor takes a
\* reference from the port that now has the name.
DescriptorsOwned ==
    \A p \in Names : LET obj == mxwl_port_table[p]
                     IN  /\ obj.fd_open => obj.in_use
                         /\ obj.in_use => obj.ref_count = 1

\* The messages of a ring, oldest first.
Contents(obj) ==
    [i \in 1 .. obj.queue_count |->
        obj.queue[(obj.queue_head + (i - 1)) % MACH_PORT_QUEUE_MAX]]

Abstract == INSTANCE PortSpace WITH
                queue <- [p \in InUse |-> Contents(mxwl_port_table[p])]

\* The table of rings implements the port space: bounded first-in first-out
\* queues under names that are live from allocation to deallocation, with
\* the same values returned to the caller.
PortSpaceSpec == Abstract!Spec
=============================================================================
