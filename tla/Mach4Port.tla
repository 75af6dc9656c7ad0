------------------------------ MODULE Mach4Port ------------------------------
(* The Mach 4 port object of src/Kernel/mxwl/ipc/ipc_port.c with the stubs *)
(* of ipc_stubs.c that it calls.  A routine runs under the lock of its port *)
(* and is one action; ipc_port_dngrow and ipc_port_destroy give the lock up *)
(* half way and are two.  The callers' naked rights are kept in "naked".    *)
(* No port is ever put into a port set by this code, so ip_pset is null.    *)
EXTENDS Integers, Sequences, FiniteSets

CONSTANTS Ports, NoPort,        \* port memory, IP_NULL
          Served,               \* bound: the ports with messages and requests
          PortNames,            \* names for dead-name requests
          Growers,              \* threads inside ipc_port_dngrow
          DnSizes,              \* ipc_table_dnrequests, ends with 0
          MaxNaked,             \* bound: rights of a kind per port
          MaxMade,              \* bound: send rights made from a receive right
          QDefault, QLimits     \* MACH_PORT_QLIMIT_DEFAULT, new limits

\* Null is no port and no name, and each table of dead-name requests is larger
\* than the one before, its header not counted, until the schedule ends.
ASSUME Mach4PortAssumption ==
  /\ NoPort \notin Ports \cup PortNames /\ Served \subseteq Ports
  /\ DnSizes \in Seq(Nat) /\ DnSizes # << >> /\ DnSizes[Len(DnSizes)] = 0
  /\ \A i \in 1..Len(DnSizes) - 1 :
       DnSizes[i] > IF i = 1 THEN 1 ELSE DnSizes[i - 1]
  /\ QDefault \in Nat /\ QLimits \subseteq Nat

VARIABLES port, naked, growing
M4vars == <<port, naked, growing>>

Idle == [port |-> NoPort, its |-> 0, was |-> 0]
NoTable == [its |-> 0, next |-> 0, slot |-> << >>]      \* IPR_NULL

\* calloc'ed memory that no zone element covers yet.
Unallocated ==
  [st |-> "free", refs |-> 0, inSpace |-> FALSE, dest |-> NoPort,
   ms |-> 0, s |-> 0, so |-> 0, ns |-> NoPort, pd |-> NoPort, sync |-> 0,
   dn |-> NoTable, q |-> 0, seqno |-> 0, msgs |-> 0, blocked |-> 0, rcv |-> 0]

M4Init ==
  /\ port = [p \in Ports |-> Unallocated]
  /\ naked = [p \in Ports |-> [s |-> 0, so |-> 0]]
  /\ growing = [t \in Growers |-> Idle]

Active(p) == port[p].st = "active"      \* ip_active
Exists(p) == port[p].st # "free"
Set(p, r) == port' = [port EXCEPT ![p] = r]
\* ip_check_unlock: the element goes back to its zone with its last reference.
CheckUnlock(r) == IF r.refs = 0 THEN Unallocated ELSE r

\* A reference taken on or given back to a port that is named, not locked.
Ref(ps, p) == IF p = NoPort THEN ps ELSE [ps EXCEPT ![p].refs = @ + 1]
Unref(ps, p) == IF p = NoPort THEN ps ELSE [ps EXCEPT ![p].refs = @ - 1]

-----------------------------------------------------------------------------
\* ipc_object_alloc or io_alloc, then ipc_port_init: one reference, no rights.
\* ipc_target_init writes the reference count and the active bit once more.
ipc_port_init(p) ==
  [Unallocated EXCEPT !.st = "active", !.refs = 1, !.inSpace = TRUE, !.q = QDefault]

ipc_port_alloc(p) ==
  /\ ~Exists(p)
  /\ Set(p, ipc_port_init(p))
  /\ UNCHANGED <<naked, growing>>

\* io_alloc and the same initialization, for a kernel or reply port.
ipc_port_alloc_special(p) == ipc_port_alloc(p)

ipc_port_make_send(p) ==
  /\ Active(p) /\ port[p].inSpace
  /\ port[p].s < MaxNaked /\ port[p].ms < MaxMade
  /\ Set(p, [port[p] EXCEPT !.ms = @ + 1, !.s = @ + 1, !.refs = @ + 1])
  /\ naked' = [naked EXCEPT ![p].s = @ + 1]
  /\ UNCHANGED growing

\* A dead port gives IP_DEAD: the copy is no right at all.
ipc_port_copy_send(p) ==
  /\ Active(p) /\ naked[p].s \in 1..MaxNaked - 1
  /\ Set(p, [port[p] EXCEPT !.s = @ + 1, !.refs = @ + 1])
  /\ naked' = [naked EXCEPT ![p].s = @ + 1]
  /\ UNCHANGED growing

\* Mutant: the no-senders request stays after the last send right.
ReleaseSendKeepsRequest(p) ==
  /\ naked[p].s > 0
  /\ LET r == [port[p] EXCEPT !.refs = @ - 1]
     IN  Set(p, IF r.st = "dead" THEN CheckUnlock(r) ELSE [r EXCEPT !.s = @ - 1])
  /\ naked' = [naked EXCEPT ![p].s = @ - 1]
  /\ UNCHANGED growing

\* The no-senders notification takes over the send-once right of ns; the
\* stub ipc_notify_no_senders drops it with its reference.
ipc_port_release_send(p) ==
  /\ naked[p].s > 0
  /\ LET r == [port[p] EXCEPT !.refs = @ - 1]
         last == r.s = 1
     IN  Set(p, IF r.st = "dead" THEN CheckUnlock(r)
                ELSE [r EXCEPT !.s = @ - 1, !.ns = IF last THEN NoPort ELSE @])
  /\ naked' = [naked EXCEPT ![p].s = @ - 1]
  /\ UNCHANGED growing

\* ipc_object_copyout puts the right into a space, which leaves the port as it
\* is; if that fails the right is released.
ipc_port_copyout_send(p) == ipc_port_release_send(p)

ipc_port_make_sonce(p) ==
  /\ Active(p) /\ port[p].so < MaxNaked
  /\ Set(p, [port[p] EXCEPT !.so = @ + 1, !.refs = @ + 1])
  /\ naked' = [naked EXCEPT ![p].so = @ + 1]
  /\ UNCHANGED growing

\* The same for a receive right found by name.
ipc_port_lookup_notify(p) == port[p].inSpace /\ ipc_port_make_sonce(p)

ipc_port_release_sonce(p) ==
  /\ naked[p].so > 0
  /\ LET r == [port[p] EXCEPT !.so = @ - 1, !.refs = @ - 1]
     IN  Set(p, IF r.st = "dead" THEN CheckUnlock(r) ELSE r)
  /\ naked' = [naked EXCEPT ![p].so = @ - 1]
  /\ UNCHANGED growing

\* The caller's send-once right moves into the request, the one registered
\* before comes back to the caller.
Swapped(new, old) ==
  [x \in Ports |-> [naked[x] EXCEPT
      !.so = @ - (IF x = new THEN 1 ELSE 0) + (IF x = old THEN 1 ELSE 0)]]
MaySwap(p, n) == Active(p) /\ port[p].inSpace /\ (n # NoPort => naked[n].so > 0)

ipc_port_pdrequest(p, n) ==
  /\ MaySwap(p, n)
  /\ naked' = Swapped(n, port[p].pd)
  /\ Set(p, [port[p] EXCEPT !.pd = n])
  /\ UNCHANGED growing

ipc_port_nsrequest(p, sync, n) ==
  /\ MaySwap(p, n)
  /\ naked' = Swapped(n, port[p].ns)
  /\ Set(p, IF port[p].s = 0 /\ sync <= port[p].ms /\ n # NoPort
            THEN [port[p] EXCEPT !.ns = NoPort]         \* notified at once
            ELSE [port[p] EXCEPT !.ns = n, !.sync = sync])
  /\ UNCHANGED growing

-----------------------------------------------------------------------------
\* Dead-name requests.  Slot 0 of the table is its header: ipr_next heads
\* the list of free slots, which have a null name.
FreeSlot(n) == [name |-> NoPort, next |-> n, right |-> NoPort]

ipc_port_dnrequest(p, name, n) ==
  /\ Active(p) /\ naked[n].so > 0
  /\ port[p].dn.next # 0
  /\ LET i == port[p].dn.next IN
     Set(p, [port[p] EXCEPT !.dn.next = port[p].dn.slot[i].next,
                            !.dn.slot[i] = [name |-> name, next |-> 0, right |-> n]])
  /\ naked' = [naked EXCEPT ![n].so = @ - 1]
  /\ UNCHANGED growing

ipc_port_dncancel(p, i) ==
  /\ Active(p) /\ i \in DOMAIN port[p].dn.slot
  /\ port[p].dn.slot[i].name # NoPort
  /\ naked' = [naked EXCEPT ![port[p].dn.slot[i].right].so = @ + 1]
  /\ Set(p, [port[p] EXCEPT !.dn.slot[i] = FreeSlot(port[p].dn.next), !.dn.next = i])
  /\ UNCHANGED growing

\* The port is unlocked, with a reference, while the new table is allocated.
ipc_port_dngrow(t, p) ==
  /\ growing[t] = Idle /\ Active(p)
  /\ DnSizes[port[p].dn.its + 1] # 0            \* else KERN_RESOURCE_SHORTAGE
  /\ growing' = [growing EXCEPT ![t] = [port |-> p, its |-> port[p].dn.its + 1,
                                        was |-> port[p].dn.its]]
  /\ Set(p, [port[p] EXCEPT !.refs = @ + 1])
  /\ UNCHANGED naked

\* The new slots are chained in front of the free list, highest first.
Grown(dn, its) ==
  LET osize == Len(dn.slot) + 1
      nsize == DnSizes[its]
  IN  [its |-> its, next |-> nsize - 1,
       slot |-> [i \in 1..nsize - 1 |->
                   IF i < osize THEN dn.slot[i]
                   ELSE FreeSlot(IF i = osize THEN dn.next ELSE i - 1)]]

\* it_dnrequests_alloc failed: ipc_port_release does not free.
ipc_port_dngrow_fails(t) ==
  /\ growing[t] # Idle
  /\ port' = Unref(port, growing[t].port)
  /\ growing' = [growing EXCEPT ![t] = Idle]
  /\ UNCHANGED naked

ipc_port_dngrow_install(t) ==
  LET g == growing[t]
      r == [port[g.port] EXCEPT !.refs = @ - 1]
  IN  /\ g # Idle
      /\ Set(g.port, IF Active(g.port) /\ r.dn.its = g.was
                     THEN [r EXCEPT !.dn = Grown(r.dn, g.its)]
                     ELSE CheckUnlock(r))
      /\ growing' = [growing EXCEPT ![t] = Idle]
      /\ UNCHANGED naked

-----------------------------------------------------------------------------
ipc_port_set_qlimit(p, q) ==
  /\ Active(p)
  /\ LET wakeup == IF q > port[p].q THEN q - port[p].q ELSE 0
     IN  Set(p, [port[p] EXCEPT !.q = q, !.blocked = IF @ > wakeup THEN @ - wakeup ELSE 0])
  /\ UNCHANGED <<naked, growing>>

\* External: the senders and receivers of the message queue (ipc_mqueue_send
\* is not part of this port).  A queued message holds a reference.
SendOrBlock(p) ==
  /\ Active(p) /\ naked[p].s > 0
  /\ IF port[p].msgs < port[p].q
     THEN Set(p, [port[p] EXCEPT !.msgs = @ + 1, !.refs = @ + 1])
     ELSE port[p].blocked = 0 /\ Set(p, [port[p] EXCEPT !.blocked = 1])
  /\ UNCHANGED <<naked, growing>>

WaitForMessage(p) ==
  /\ Active(p) /\ port[p].inSpace /\ port[p].msgs = 0 /\ port[p].rcv = 0
  /\ Set(p, [port[p] EXCEPT !.rcv = 1])
  /\ UNCHANGED <<naked, growing>>

\* ipc_port_clear_receiver: ipc_mqueue_changed wakes the receivers.
Cleared(r) == [r EXCEPT !.rcv = 0, !.ms = 0, !.seqno = 0]

\* ipc_port_check_circularity follows the destinations from dest to a port
\* that is not in transit; Messaging models its locking.
InTransit(p) == Active(p) /\ ~port[p].inSpace /\ port[p].dest # NoPort
BaseOf(d) ==
  LET up[n \in 0..Cardinality(Ports)] ==
        IF n = 0 THEN d ELSE IF InTransit(up[n - 1]) THEN port[up[n - 1]].dest
                             ELSE up[n - 1]
  IN  up[Cardinality(Ports)]
Circular(p, d) == p = d \/ BaseOf(d) = p

\* The part of ipc_port_destroy under the lock: the senders are roused and
\* the port dies; its timestamp, which no code reads, takes the place of the
\* receiver and destination.
Dying(r) == [r EXCEPT !.blocked = 0, !.st = "dying", !.inSpace = FALSE, !.dest = NoPort]

\* With a backup the port goes to it in a notification instead, unless that
\* closes a circle; the notification stub drops both references it is given.
ipc_port_destroy(p, r) ==
  LET limbo == [r EXCEPT !.pd = NoPort, !.inSpace = FALSE, !.dest = NoPort] IN
  /\ IF r.pd # NoPort /\ ~Circular(p, r.pd)
     THEN port' = Ref([port EXCEPT ![p] = [limbo EXCEPT !.dest = r.pd]], r.pd)
     ELSE port' = LET killed == [port EXCEPT ![p] = Dying(limbo)]
                  IN  IF r.pd = NoPort THEN killed
                      ELSE [killed EXCEPT ![r.pd].so = @ - 1, ![r.pd].refs = @ - 1]
  /\ UNCHANGED <<naked, growing>>

\* ipc_port_dealloc_special and the release of a receive right in a space:
\* the receiver is cleared first.
ipc_port_dealloc_special(p) ==
  /\ Active(p) /\ port[p].inSpace
  /\ ipc_port_destroy(p, Cleared(port[p]))

\* A right in limbo or in transit; the reference on the destination is given
\* up after the port is dead.
ipc_port_release_receive(p) ==
  /\ Active(p) /\ ~port[p].inSpace
  /\ port' = Unref([port EXCEPT ![p] = Dying(port[p])], port[p].dest)
  /\ UNCHANGED <<naked, growing>>

\* The rest of ipc_port_destroy, without the lock: the no-senders and the
\* dead-name requests are notified (and dropped by the stubs), the messages
\* are destroyed with their references, the caller's reference goes last.
ipc_port_destroy_finish(p) ==
  /\ port[p].st = "dying"
  /\ Set(p, [port[p] EXCEPT !.st = "dead", !.refs = @ - port[p].msgs - 1,
                            !.msgs = 0, !.dn = NoTable, !.ns = NoPort])
  /\ UNCHANGED <<naked, growing>>

M4Next ==
  \/ \E p \in Ports :
       \/ ipc_port_alloc(p) \/ ipc_port_make_send(p) \/ ipc_port_copy_send(p)
       \/ ipc_port_release_send(p) \/ ipc_port_make_sonce(p)
       \/ ipc_port_release_sonce(p) \/ ipc_port_lookup_notify(p)
       \/ ipc_port_copyout_send(p) \/ ipc_port_alloc_special(p)
       \/ ipc_port_dealloc_special(p) \/ ipc_port_release_receive(p)
       \/ ipc_port_destroy_finish(p)
       \/ \E n \in Ports \cup {NoPort} : ipc_port_pdrequest(p, n)
  \/ \E p \in Served :
       \/ SendOrBlock(p) \/ WaitForMessage(p)
       \/ \E n \in Ports \cup {NoPort}, sync \in 0..2 : ipc_port_nsrequest(p, sync, n)
       \/ \E n \in Ports, name \in PortNames : ipc_port_dnrequest(p, name, n)
       \/ \E i \in DOMAIN port[p].dn.slot : ipc_port_dncancel(p, i)
       \/ \E q \in QLimits : ipc_port_set_qlimit(p, q)
       \/ \E t \in Growers : ipc_port_dngrow(t, p)
  \/ \E t \in Growers : ipc_port_dngrow_fails(t) \/ ipc_port_dngrow_install(t)

M4Spec == M4Init /\ [][M4Next]_M4vars

-----------------------------------------------------------------------------
\* Where a port keeps a send-once right somebody registered with it: for the
\* notification of its destruction, of its last sender, of its death.
RequestPlaces(r) == -1..Len(r.dn.slot)
RightAt(r, i) == CASE i = -1 -> r.pd [] i = 0 -> r.ns [] OTHER -> r.dn.slot[i].right

RequestsFor(ps, p) ==
  UNION {{q} \X {i \in RequestPlaces(ps[q]) : RightAt(ps[q], i) = p} : q \in Ports}
SentTo(ps, p) == {q \in Ports : ps[q].dest = p}
GrowingOn(gs, p) == {t \in Growers : gs[t].port = p}

\* The pointers to p that some routine may still follow.
Pointers(p) ==
  naked[p].s + naked[p].so + port[p].msgs
  + (IF port[p].st \in {"active", "dying"} THEN 1 ELSE 0)
  + Cardinality(RequestsFor(port, p)) + Cardinality(SentTo(port, p))
  + Cardinality(GrowingOn(growing, p))

M4TypeOK ==
  /\ \A p \in Ports : /\ port[p].st \in {"free", "active", "dying", "dead"}
                      /\ port[p].refs \in Nat /\ port[p].s \in Nat /\ port[p].so \in Nat
                      /\ {port[p].ns, port[p].pd, port[p].dest} \subseteq Ports \cup {NoPort}
  /\ naked \in [Ports -> [s : Nat, so : Nat]]

\* The reference counts cover every pointer that a right, a request, a queued
\* message, a port in transit or a thread in ipc_port_dngrow still holds, so
\* that no element goes back to the zone while it can be reached.
ReferencesCoverPointers ==
  \A p \in Ports : IF Exists(p) THEN port[p].refs >= Pointers(p) ELSE Pointers(p) = 0

\* ip_srights counts the send rights that exist, for as long as the port lives.
SendRightsExact == \A p \in Ports : Active(p) => port[p].s = naked[p].s

\* Nobody is left waiting for a port that has died: ipc_port_destroy rouses
\* the senders and ipc_port_clear_receiver the receivers before it is dead.
NobodyWaitsOnDead ==
  \A p \in Ports : ~Active(p) => port[p].blocked = 0 /\ port[p].rcv = 0

\* A no-senders request never outlives the last send right: one that is still
\* registered without senders asked for a make-send count not reached yet.
NoSendersNotForgotten ==
  \A p \in Ports :
    Active(p) /\ port[p].ns # NoPort /\ port[p].s = 0 => port[p].ms < port[p].sync

\* The free list of a dead-name table runs through exactly the slots without
\* a name, whatever requests, cancellations and growths of two threads came
\* before.
FreeChain(dn) ==
  LET at[n \in 0..Len(dn.slot)] ==
        IF n = 0 THEN dn.next ELSE IF at[n - 1] = 0 THEN 0 ELSE dn.slot[at[n - 1]].next
  IN  at
DeadNameListExact ==
  \A p \in Ports :
    LET dn == port[p].dn
        free == {i \in DOMAIN dn.slot : dn.slot[i].name = NoPort}
        chain == FreeChain(dn)
    IN  /\ {chain[n] : n \in DOMAIN chain} \ {0} = free
        /\ chain[Cardinality(free)] = 0

\* The port keeps all of its accounts at once: references cover the pointers,
\* send rights are counted exactly, no sender waits on a dead port, no request
\* for no-senders is forgotten and the dead-name table lists its own entries.
PortConsistent ==
    /\ M4TypeOK
    /\ ReferencesCoverPointers /\ SendRightsExact /\ NobodyWaitsOnDead
    /\ NoSendersNotForgotten /\ DeadNameListExact
=============================================================================
