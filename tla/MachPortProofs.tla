--------------------------- MODULE MachPortProofs ---------------------------
(***************************************************************************)
(* Proofs about the port table, for every table size, ring length, set of  *)
(* messages and set of port arguments.                                     *)
(***************************************************************************)
EXTENDS MachPort, FiniteSetTheorems, WellFoundedInduction, TLAPS

\* The index x of a ring after at most one lap past its end.
Wrap(x) == IF x < MACH_PORT_QUEUE_MAX THEN x ELSE x - MACH_PORT_QUEUE_MAX

\* An index moved forward by at most one lap: the remainder in the index
\* computations of mach_port.c is a single conditional subtraction.
LEMMA WrapLemma ==
    ASSUME NEW a \in Slots, NEW b \in 0 .. MACH_PORT_QUEUE_MAX
    PROVE  /\ (a + b) % MACH_PORT_QUEUE_MAX = Wrap(a + b)
           /\ Wrap(a + b) \in Slots
  BY PortOpsAssumption DEF Slots, Wrap

LEMMA StepLemma ==
    ASSUME NEW a \in Slots
    PROVE  /\ (a + 1) % MACH_PORT_QUEUE_MAX = Wrap(a + 1)
           /\ Wrap(a + 1) \in Slots
  BY PortOpsAssumption DEF Slots, Wrap

\* One step of the tail, or of the head, keeps tail = head + count.
LEMMA WrapArithmetic ==
    ASSUME NEW h \in Slots, NEW c \in 0 .. MACH_PORT_QUEUE_MAX
    PROVE  /\ c < MACH_PORT_QUEUE_MAX => Wrap(Wrap(h + c) + 1) = Wrap(h + (c + 1))
           /\ c # 0 => Wrap(Wrap(h + 1) + (c - 1)) = Wrap(h + c)
  BY PortOpsAssumption DEF Slots, Wrap

\* Moving the head one slot brings every other slot one step nearer.
LEMMA DistanceStep ==
    ASSUME NEW h \in Slots, NEW s \in Slots
    PROVE  (IF s >= Wrap(h + 1) THEN s - Wrap(h + 1)
                                ELSE s - Wrap(h + 1) + MACH_PORT_QUEUE_MAX)
             = (IF s = h THEN MACH_PORT_QUEUE_MAX - 1
                ELSE (IF s >= h THEN s - h ELSE s - h + MACH_PORT_QUEUE_MAX) - 1)
  BY PortOpsAssumption DEF Slots, Wrap

LEMMA ObjectTypes ==
    /\ ZeroObject \in PortObject
    /\ FailedFresh \in PortObject
    /\ \A right \in Rights : Fresh(right) \in PortObject
<1>1. /\ 0 \in Slots /\ 0 \in 0 .. MACH_PORT_QUEUE_MAX
      /\ [s \in Slots |-> NULL] \in [Slots -> Messages \cup {NULL}]
  BY PortOpsAssumption DEF Slots
<1>2. ZeroObject \in PortObject
  BY <1>1 DEF ZeroObject, PortObject
<1>3. FailedFresh \in PortObject
  BY <1>2 DEF FailedFresh, PortObject, Rights
<1>4. ASSUME NEW right \in Rights PROVE Fresh(right) \in PortObject
  <2>1. (right = "RECEIVE") \in BOOLEAN
    OBVIOUS
  <2> QED  BY <1>2, <2>1 DEF Fresh, PortObject, Rights
<1> QED  BY <1>2, <1>3, <1>4
-----------------------------------------------------------------------------
(* What each function does to the ring of one port. *)

LEMMA FreshOK ==
    ASSUME NEW obj, obj = ZeroObject \/ obj = FailedFresh
                                     \/ \E r \in Rights : obj = Fresh(r)
    PROVE  RingOK(obj)
<1>1. /\ obj.queue_count = 0 /\ obj.queue_head = 0 /\ obj.queue_tail = 0
      /\ obj.queue = [s \in Slots |-> NULL]
  <2>1. CASE obj = ZeroObject
    BY <2>1 DEF ZeroObject
  <2>2. CASE obj = FailedFresh
    BY <2>2 DEF ZeroObject, FailedFresh
  <2>3. ASSUME NEW r \in Rights, obj = Fresh(r) PROVE <1>1!:
    BY <2>3 DEF ZeroObject, Fresh
  <2> QED  BY <2>1, <2>2, <2>3
<1>2. (0 + 0) % MACH_PORT_QUEUE_MAX = 0
  BY PortOpsAssumption
<1> QED  BY <1>1, <1>2 DEF RingOK, Distance, Slots

\* mach_port_queue_message writes the first empty slot.
LEMMA EnqueuedOK ==
    ASSUME NEW obj \in PortObject, NEW m \in Messages,
           RingOK(obj), obj.in_use, obj.queue_count < MACH_PORT_QUEUE_MAX
    PROVE  /\ Enqueued(obj, m) \in PortObject
           /\ RingOK(Enqueued(obj, m))
           /\ Enqueued(obj, m).in_use
           /\ Enqueued(obj, m).ref_count = obj.ref_count
<1> DEFINE new == Enqueued(obj, m)
<1>1. /\ obj.queue \in [Slots -> Messages \cup {NULL}]
      /\ obj.queue_head \in Slots /\ obj.queue_tail \in Slots
      /\ obj.queue_count \in 0 .. MACH_PORT_QUEUE_MAX
  BY DEF PortObject
<1>2. /\ new.queue = [obj.queue EXCEPT ![obj.queue_tail] = m]
      /\ new.queue_tail = (obj.queue_tail + 1) % MACH_PORT_QUEUE_MAX
      /\ new.queue_count = obj.queue_count + 1
      /\ new.queue_head = obj.queue_head
      /\ new.in_use = obj.in_use
      /\ new.ref_count = obj.ref_count
  BY DEF Enqueued, PortObject
<1>3. new.queue_tail = Wrap(obj.queue_tail + 1) /\ Wrap(obj.queue_tail + 1) \in Slots
  BY <1>1, <1>2, StepLemma
<1>4. obj.queue_tail = Wrap(obj.queue_head + obj.queue_count)
  BY <1>1, WrapLemma DEF RingOK
<1>5. new \in PortObject
  <2>1. (obj.queue_tail + 1) % MACH_PORT_QUEUE_MAX \in Slots
    BY <1>2, <1>3
  <2>2. obj.queue_count + 1 \in 0 .. MACH_PORT_QUEUE_MAX
    BY <1>1, PortOpsAssumption
  <2>3. [obj.queue EXCEPT ![obj.queue_tail] = m] \in [Slots -> Messages \cup {NULL}]
    BY <1>1
  <2> QED  BY <2>1, <2>2, <2>3 DEF Enqueued, PortObject
<1>6. new.queue_tail = (new.queue_head + new.queue_count) % MACH_PORT_QUEUE_MAX
  <2>1. obj.queue_count + 1 \in 0 .. MACH_PORT_QUEUE_MAX
    BY <1>1, PortOpsAssumption
  <2>2. (obj.queue_head + (obj.queue_count + 1)) % MACH_PORT_QUEUE_MAX
           = Wrap(obj.queue_head + (obj.queue_count + 1))
    BY <1>1, <2>1, WrapLemma
  <2>3. Wrap(obj.queue_tail + 1) = Wrap(obj.queue_head + (obj.queue_count + 1))
    BY <1>1, <1>4, WrapArithmetic
  <2> QED  BY <1>2, <1>3, <2>2, <2>3
<1>7. ASSUME NEW s \in Slots
      PROVE  new.queue[s] # NULL <=> Distance(new, s) < new.queue_count
  <2>1. obj.queue[s] # NULL <=> Distance(obj, s) < obj.queue_count
    BY DEF RingOK
  <2>2. new.queue[s] = IF s = obj.queue_tail THEN m ELSE obj.queue[s]
    BY <1>1, <1>2
  <2>3. m # NULL
    BY MachPortAssumption
  <2>4. Distance(new, s) = Distance(obj, s)
    BY <1>2 DEF Distance
  <2>5. s = obj.queue_tail <=> Distance(obj, s) = obj.queue_count
    BY <1>1, <1>4, PortOpsAssumption DEF Distance, Slots, Wrap
  <2>6. Distance(obj, s) \in Nat
    BY <1>1, PortOpsAssumption DEF Distance, Slots
  <2>7. /\ Distance(new, s) < new.queue_count <=>
             (Distance(obj, s) < obj.queue_count \/ Distance(obj, s) = obj.queue_count)
    BY <1>1, <1>2, <2>4, <2>6
  <2> QED  BY <2>1, <2>2, <2>3, <2>5, <2>7
<1> QED  BY <1>2, <1>5, <1>6, <1>7 DEF RingOK

\* mach_port_dequeue_message empties the oldest occupied slot.
LEMMA DequeuedOK ==
    ASSUME NEW obj \in PortObject, RingOK(obj), obj.in_use, obj.queue_count # 0
    PROVE  /\ Dequeued(obj) \in PortObject
           /\ RingOK(Dequeued(obj))
           /\ Dequeued(obj).in_use
           /\ Dequeued(obj).ref_count = obj.ref_count
<1> DEFINE new == Dequeued(obj)
<1>1. /\ obj.queue \in [Slots -> Messages \cup {NULL}]
      /\ obj.queue_head \in Slots /\ obj.queue_tail \in Slots
      /\ obj.queue_count \in 0 .. MACH_PORT_QUEUE_MAX
  BY DEF PortObject
<1>2. /\ new.queue = [obj.queue EXCEPT ![obj.queue_head] = NULL]
      /\ new.queue_head = (obj.queue_head + 1) % MACH_PORT_QUEUE_MAX
      /\ new.queue_count = obj.queue_count - 1
      /\ new.queue_tail = obj.queue_tail
      /\ new.in_use = obj.in_use
      /\ new.ref_count = obj.ref_count
  BY DEF Dequeued, PortObject
<1>3. new.queue_head = Wrap(obj.queue_head + 1) /\ Wrap(obj.queue_head + 1) \in Slots
  BY <1>1, <1>2, StepLemma
<1>4. obj.queue_tail = Wrap(obj.queue_head + obj.queue_count)
  BY <1>1, WrapLemma DEF RingOK
<1>5. new.queue_head \in Slots /\ new.queue_count \in 0 .. MACH_PORT_QUEUE_MAX
  BY <1>1, <1>2, <1>3, PortOpsAssumption, SMTT(30) DEF Slots
<1>6. new \in PortObject
  <2>1. [obj.queue EXCEPT ![obj.queue_head] = NULL] \in [Slots -> Messages \cup {NULL}]
    BY <1>1
  <2> QED  BY <1>2, <1>5, <2>1 DEF Dequeued, PortObject
<1>7. new.queue_tail = (new.queue_head + new.queue_count) % MACH_PORT_QUEUE_MAX
  <2>1. (new.queue_head + new.queue_count) % MACH_PORT_QUEUE_MAX
           = Wrap(new.queue_head + new.queue_count)
    BY <1>5, WrapLemma
  <2>2. Wrap(Wrap(obj.queue_head + 1) + (obj.queue_count - 1))
           = Wrap(obj.queue_head + obj.queue_count)
    BY <1>1, WrapArithmetic
  <2> QED  BY <1>2, <1>3, <1>4, <2>1, <2>2
<1>8. ASSUME NEW s \in Slots
      PROVE  new.queue[s] # NULL <=> Distance(new, s) < new.queue_count
  <2>1. obj.queue[s] # NULL <=> Distance(obj, s) < obj.queue_count
    BY DEF RingOK
  <2>2. new.queue[s] = IF s = obj.queue_head THEN NULL ELSE obj.queue[s]
    BY <1>1, <1>2
  <2>3. Distance(new, s) = IF s = obj.queue_head THEN MACH_PORT_QUEUE_MAX - 1
                                                 ELSE Distance(obj, s) - 1
    BY <1>1, <1>3, DistanceStep DEF Distance
  <2>4. Distance(obj, s) \in Nat
    BY <1>1, PortOpsAssumption DEF Distance, Slots
  <2>5. CASE s = obj.queue_head
    BY <1>1, <1>2, <2>2, <2>3, <2>5, PortOpsAssumption
  <2>6. CASE s # obj.queue_head
    BY <1>1, <1>2, <2>1, <2>2, <2>3, <2>4, <2>6
  <2> QED  BY <2>5, <2>6
<1> QED  BY <1>2, <1>6, <1>7, <1>8 DEF RingOK

\* mach_port_deallocate leaves an empty ring, no socket and no user.
LEMMA DeallocatedOK ==
    ASSUME NEW obj \in PortObject, RingOK(obj), obj.ref_count \in {0, 1}
    PROVE  /\ Deallocated(obj) \in PortObject
           /\ RingOK(Deallocated(obj))
           /\ ~ Deallocated(obj).in_use
           /\ ~ Deallocated(obj).fd_open
<1> DEFINE new == Deallocated(obj)
<1>1. /\ obj.queue \in [Slots -> Messages \cup {NULL}]
      /\ obj.queue_head \in Slots /\ obj.queue_tail \in Slots
      /\ obj.queue_count \in 0 .. MACH_PORT_QUEUE_MAX
  BY DEF PortObject
<1>2. /\ new.queue = [s \in Slots |-> IF Distance(obj, s) < obj.queue_count
                                      THEN NULL ELSE obj.queue[s]]
      /\ new.queue_head = (obj.queue_head + obj.queue_count) % MACH_PORT_QUEUE_MAX
      /\ new.queue_tail = obj.queue_tail
      /\ new.queue_count = 0
      /\ new.in_use = FALSE
      /\ new.fd_open = FALSE
      /\ new.ref_count = obj.ref_count - 1
  BY DEF Deallocated, Drained, PortObject
<1>3. new.queue_head = obj.queue_tail
  BY <1>2 DEF RingOK
<1>4. new.queue = [s \in Slots |-> NULL]
  BY <1>1, <1>2 DEF RingOK
<1>5. new.queue_tail = (new.queue_head + new.queue_count) % MACH_PORT_QUEUE_MAX
  <2>1. (obj.queue_tail + 0) % MACH_PORT_QUEUE_MAX = obj.queue_tail
    BY <1>1, PortOpsAssumption DEF Slots
  <2> QED  BY <1>2, <1>3, <2>1
<1>6. ASSUME NEW s \in Slots
      PROVE  new.queue[s] # NULL <=> Distance(new, s) < new.queue_count
  <2>1. Distance(new, s) >= 0
    BY <1>1, <1>3, PortOpsAssumption DEF Distance, Slots
  <2>2. Distance(new, s) \in Int
    BY <1>1, <1>3, PortOpsAssumption DEF Distance, Slots
  <2> QED  BY <1>2, <1>4, <2>1, <2>2
<1>7. new \in PortObject
  <2>1. obj.ref_count - 1 \in {-1, 0, 1}
    OBVIOUS
  <2>2. /\ [s \in Slots |-> NULL] \in [Slots -> Messages \cup {NULL}]
        /\ 0 \in 0 .. MACH_PORT_QUEUE_MAX
    BY PortOpsAssumption
  <2>3. new = [obj EXCEPT !.queue = [s \in Slots |-> NULL], !.queue_head = obj.queue_tail,
                          !.queue_count = 0, !.fd_open = FALSE, !.in_use = FALSE,
                          !.ref_count = obj.ref_count - 1]
    BY <1>2, <1>3, <1>4 DEF Deallocated, Drained, PortObject
  <2> QED  BY <1>1, <2>1, <2>2, <2>3 DEF PortObject
<1> QED  BY <1>2, <1>5, <1>6, <1>7 DEF RingOK

\* Changing the recorded right leaves the ring and the references alone.
LEMMA RightOK ==
    ASSUME NEW obj \in PortObject, NEW right \in Rights, RingOK(obj)
    PROVE  LET new == [obj EXCEPT !.rights = right]
           IN  /\ new \in PortObject /\ RingOK(new)
               /\ new.in_use = obj.in_use /\ new.fd_open = obj.fd_open
               /\ new.ref_count = obj.ref_count
<1> DEFINE new == [obj EXCEPT !.rights = right]
<1>1. /\ new \in PortObject
      /\ new.in_use = obj.in_use /\ new.fd_open = obj.fd_open
      /\ new.ref_count = obj.ref_count /\ new.queue = obj.queue
      /\ new.queue_head = obj.queue_head /\ new.queue_tail = obj.queue_tail
      /\ new.queue_count = obj.queue_count
  BY DEF PortObject
<1>2. RingOK(new)
  BY <1>1 DEF RingOK, Distance
<1> QED  BY <1>1, <1>2
-----------------------------------------------------------------------------
(* The inductive invariant: the four invariants of the runs together.  The  *)
(* range of ref_count needs DescriptorsOwned, the range of the counter      *)
(* needs TableCountOK, and the ring steps need the types.                   *)

Inv == /\ TypeOK
       /\ RingInvariant
       /\ TableCountOK
       /\ DescriptorsOwned

LEMMA FiniteNames == IsFiniteSet(Names) /\ Cardinality(Names) = MACH_PORT_TABLE_SIZE
  BY FS_Interval, PortOpsAssumption DEF Names

LEMMA FiniteInUse ==
    /\ IsFiniteSet(InUse)
    /\ Cardinality(InUse) \in 0 .. MACH_PORT_TABLE_SIZE
<1>1. InUse \subseteq Names
  BY DEF InUse
<1>2. /\ IsFiniteSet(InUse) /\ Cardinality(InUse) \in Nat
      /\ Cardinality(InUse) <= Cardinality(Names)
  BY <1>1, FiniteNames, FS_Subset, FS_CardinalityType
<1> QED  BY <1>2, FiniteNames, PortOpsAssumption

\* One slot is overwritten by a sound object and the counter follows in_use.
LEMMA UpdateSlot ==
    ASSUME Inv, NEW p \in Names, NEW obj \in PortObject, RingOK(obj),
           obj.fd_open => obj.in_use, obj.in_use => obj.ref_count = 1,
           mxwl_port_table' = [mxwl_port_table EXCEPT ![p] = obj],
           mxwl_port_table_count' =
               CASE obj.in_use /\ ~ mxwl_port_table[p].in_use -> mxwl_port_table_count + 1
                 [] ~ obj.in_use /\ mxwl_port_table[p].in_use -> mxwl_port_table_count - 1
                 [] OTHER -> mxwl_port_table_count
    PROVE  Inv'
<1>1. mxwl_port_table' \in [Names -> PortObject]
  BY DEF Inv, TypeOK
<1>2. \A q \in Names : mxwl_port_table'[q] = IF q = p THEN obj ELSE mxwl_port_table[q]
  BY DEF Inv, TypeOK
<1>3. RingInvariant'
  <2>1. \A q \in Names : RingOK(mxwl_port_table'[q])
    BY <1>2 DEF Inv, RingInvariant
  <2> QED  BY <2>1 DEF RingInvariant, RingOK, Distance, Slots, Names
<1>4. DescriptorsOwned'
  BY <1>2 DEF Inv, DescriptorsOwned
<1>5. TableCountOK'
  <2>1. CASE obj.in_use /\ ~ mxwl_port_table[p].in_use
    <3>1. InUse' = InUse \cup {p} /\ p \notin InUse
      BY <1>2, <2>1 DEF InUse
    <3>2. Cardinality(InUse') = Cardinality(InUse) + 1
      BY <3>1, FiniteInUse, FS_AddElement
    <3> QED  BY <2>1, <3>2 DEF Inv, TableCountOK
  <2>2. CASE ~ obj.in_use /\ mxwl_port_table[p].in_use
    <3>1. InUse' = InUse \ {p} /\ p \in InUse
      BY <1>2, <2>2 DEF InUse
    <3>2. Cardinality(InUse') = Cardinality(InUse) - 1
      BY <3>1, FiniteInUse, FS_RemoveElement
    <3> QED  BY <2>2, <3>2 DEF Inv, TableCountOK
  <2>3. CASE obj.in_use = mxwl_port_table[p].in_use
    <3>1. InUse' = InUse
      BY <1>2, <2>3 DEF InUse
    <3> QED  BY <2>3, <3>1 DEF Inv, TableCountOK
  <2>4. obj.in_use \in BOOLEAN /\ mxwl_port_table[p].in_use \in BOOLEAN
    BY DEF Inv, TypeOK, PortObject
  <2> QED  BY <2>1, <2>2, <2>3, <2>4
<1>6. mxwl_port_table_count' \in 0 .. MACH_PORT_TABLE_SIZE
  <2>1. InUse' \subseteq Names
    BY DEF InUse
  <2>2. /\ Cardinality(InUse') \in Nat
        /\ Cardinality(InUse') <= Cardinality(Names)
    BY <2>1, FiniteNames, FS_Subset, FS_CardinalityType
  <2> QED  BY <1>5, <2>2, FiniteNames, PortOpsAssumption DEF TableCountOK
<1> QED  BY <1>1, <1>3, <1>4, <1>5, <1>6 DEF Inv, TypeOK, PortObject, Slots, Names, Rights

LEMMA NoChange ==
    ASSUME Inv, UNCHANGED <<mxwl_port_table, mxwl_port_table_count>>
    PROVE  Inv'
  BY DEF Inv, TypeOK, RingInvariant, RingOK, Distance, TableCountOK, DescriptorsOwned,
         InUse, PortObject, Slots, Names, Rights

LEMMA InitInv == Init => Inv
<1> SUFFICES ASSUME Init PROVE Inv
  OBVIOUS
<1>1. \A p \in Names : mxwl_port_table[p] = ZeroObject
  BY DEF Init
<1>2. TypeOK
  BY ObjectTypes, PortOpsAssumption DEF Init, TypeOK
<1>3. RingInvariant
  BY <1>1, FreshOK DEF RingInvariant
<1>4. DescriptorsOwned
  BY <1>1 DEF DescriptorsOwned, ZeroObject
<1>5. InUse = {}
  BY <1>1 DEF InUse, ZeroObject
<1>6. TableCountOK
  BY <1>5, FS_EmptySet DEF Init, TableCountOK
<1> QED  BY <1>2, <1>3, <1>4, <1>6 DEF Inv

\* Every non-empty set of natural numbers has a least element.
LEMMA LeastElement ==
    ASSUME NEW T \in SUBSET Nat, T # {}
    PROVE  \E x \in T : \A y \in T : x <= y
<1>1. IsWellFoundedOn(OpToRel(<, Nat), Nat)
  BY NatLessThanWellFounded
<1>2. PICK x \in T : \A y \in T : ~(<<y, x>> \in OpToRel(<, Nat))
  BY <1>1, WFMin
<1>3. \A y \in T : ~(y < x)
  BY <1>2 DEF OpToRel
<1> QED  BY <1>3

\* The slot mach_port_allocate finds is free, and is the first such slot.
LEMMA FirstFreeOK ==
    ASSUME ~ Names \subseteq InUse
    PROVE  /\ FirstFree \in Names \ InUse
           /\ \A r \in Names \ InUse : FirstFree <= r
<1> DEFINE free == Names \ InUse
<1>1. free \subseteq Nat /\ free # {}
  BY DEF Names
<1>2. \E p \in free : \A r \in free : p <= r
  BY <1>1, LeastElement
<1> QED  BY <1>2 DEF FirstFree

\* Every call of mach_port.c preserves the invariant.
LEMMA NextInv == Inv /\ [Next]_vars => Inv'
<1> SUFFICES ASSUME Inv, [Next]_vars PROVE Inv'
  OBVIOUS
<1>0. /\ mxwl_port_table \in [Names -> PortObject]
      /\ \A p \in Names : /\ mxwl_port_table[p] \in PortObject
                          /\ RingOK(mxwl_port_table[p])
                          /\ mxwl_port_table[p].fd_open => mxwl_port_table[p].in_use
                          /\ mxwl_port_table[p].in_use => mxwl_port_table[p].ref_count = 1
  BY DEF Inv, TypeOK, RingInvariant, DescriptorsOwned
<1>1. ASSUME NEW right \in Rights, mach_port_allocate(right) PROVE Inv'
  <2>1. CASE UNCHANGED <<mxwl_port_table, mxwl_port_table_count>>
    BY <2>1, NoChange
  <2>2. CASE /\ ~ Names \subseteq InUse
             /\ mxwl_port_table' = [mxwl_port_table EXCEPT ![FirstFree] = Fresh(right)]
             /\ mxwl_port_table_count' = mxwl_port_table_count + 1
    <3>1. FirstFree \in Names /\ ~ mxwl_port_table[FirstFree].in_use
      BY <2>2, FirstFreeOK DEF InUse
    <3>2. /\ Fresh(right) \in PortObject /\ RingOK(Fresh(right))
          /\ Fresh(right).in_use /\ Fresh(right).ref_count = 1
      BY ObjectTypes, FreshOK DEF Fresh, ZeroObject
    <3> QED  BY <2>2, <3>1, <3>2, UpdateSlot
  <2>3. CASE /\ ~ Names \subseteq InUse
             /\ mxwl_port_table' = [mxwl_port_table EXCEPT ![FirstFree] = FailedFresh]
             /\ UNCHANGED mxwl_port_table_count
    <3>1. FirstFree \in Names /\ ~ mxwl_port_table[FirstFree].in_use
      BY <2>3, FirstFreeOK DEF InUse
    <3>2. /\ FailedFresh \in PortObject /\ RingOK(FailedFresh)
          /\ ~ FailedFresh.in_use /\ ~ FailedFresh.fd_open
      BY ObjectTypes, FreshOK DEF FailedFresh, ZeroObject
    <3> QED  BY <2>3, <3>1, <3>2, UpdateSlot
  <2> QED  BY <1>1, <2>1, <2>2, <2>3 DEF mach_port_allocate
<1>2. ASSUME NEW p \in PortArgs, mach_port_deallocate(p) PROVE Inv'
  <2>1. CASE InvalidRight(p)
    BY <2>1, NoChange DEF InvalidRight
  <2>2. CASE /\ Lookup(p)
             /\ mxwl_port_table' =
                  [mxwl_port_table EXCEPT ![p] = Deallocated(mxwl_port_table[p])]
             /\ mxwl_port_table_count' = mxwl_port_table_count - 1
    <3>1. /\ p \in Names /\ mxwl_port_table[p].in_use
          /\ mxwl_port_table[p].ref_count \in {0, 1}
      BY <1>0, <2>2 DEF Lookup
    <3>2. /\ Deallocated(mxwl_port_table[p]) \in PortObject
          /\ RingOK(Deallocated(mxwl_port_table[p]))
          /\ ~ Deallocated(mxwl_port_table[p]).in_use
          /\ ~ Deallocated(mxwl_port_table[p]).fd_open
      BY <1>0, <3>1, DeallocatedOK
    <3> QED  BY <2>2, <3>1, <3>2, UpdateSlot
  <2> QED  BY <1>2, <2>1, <2>2 DEF mach_port_deallocate
<1>3. ASSUME NEW p \in PortArgs, mach_port_destroy(p) PROVE Inv'
  <2>1. CASE InvalidRight(p)
    BY <2>1, NoChange DEF InvalidRight
  <2> DEFINE zero == [mxwl_port_table[p] EXCEPT !.ref_count = 0]
  <2>2. CASE /\ Lookup(p)
             /\ mxwl_port_table' = [mxwl_port_table EXCEPT ![p] = Deallocated(zero)]
             /\ mxwl_port_table_count' = mxwl_port_table_count - 1
    <3>1. p \in Names /\ mxwl_port_table[p].in_use
      BY <2>2 DEF Lookup
    <3>2. /\ zero \in PortObject /\ zero.ref_count = 0
          /\ zero.queue = mxwl_port_table[p].queue
          /\ zero.queue_head = mxwl_port_table[p].queue_head
          /\ zero.queue_tail = mxwl_port_table[p].queue_tail
          /\ zero.queue_count = mxwl_port_table[p].queue_count
          /\ zero.in_use = mxwl_port_table[p].in_use
      BY <1>0, <3>1 DEF PortObject
    <3>3. RingOK(zero)
      BY <1>0, <3>1, <3>2 DEF RingOK, Distance
    <3> HIDE DEF zero
    <3>4. /\ Deallocated(zero) \in PortObject /\ RingOK(Deallocated(zero))
          /\ ~ Deallocated(zero).in_use /\ ~ Deallocated(zero).fd_open
      BY <3>2, <3>3, DeallocatedOK
    <3> QED  BY <2>2, <3>1, <3>4, UpdateSlot
  <2> QED  BY <1>3, <2>1, <2>2 DEF mach_port_destroy
<1>4. ASSUME NEW p \in PortArgs, NEW m \in Messages, mach_port_queue_message(p, m)
      PROVE  Inv'
  <2>1. CASE UNCHANGED <<mxwl_port_table, mxwl_port_table_count>>
    BY <2>1, NoChange
  <2>2. CASE /\ Lookup(p) /\ mxwl_port_table[p].queue_count < MACH_PORT_QUEUE_MAX
             /\ mxwl_port_table' =
                  [mxwl_port_table EXCEPT ![p] = Enqueued(mxwl_port_table[p], m)]
             /\ UNCHANGED mxwl_port_table_count
    <3>1. p \in Names /\ mxwl_port_table[p].in_use
      BY <2>2 DEF Lookup
    <3>2. /\ Enqueued(mxwl_port_table[p], m) \in PortObject
          /\ RingOK(Enqueued(mxwl_port_table[p], m))
          /\ Enqueued(mxwl_port_table[p], m).in_use
          /\ Enqueued(mxwl_port_table[p], m).ref_count = 1
      BY <1>0, <2>2, <3>1, EnqueuedOK
    <3> QED  BY <2>2, <3>1, <3>2, UpdateSlot
  <2> QED  BY <1>4, <2>1, <2>2 DEF mach_port_queue_message, InvalidRight
<1>5. ASSUME NEW p \in PortArgs, mach_port_dequeue_message(p) PROVE Inv'
  <2>1. CASE UNCHANGED <<mxwl_port_table, mxwl_port_table_count>>
    BY <2>1, NoChange
  <2>2. CASE /\ Lookup(p) /\ mxwl_port_table[p].queue_count # 0
             /\ mxwl_port_table' =
                  [mxwl_port_table EXCEPT ![p] = Dequeued(mxwl_port_table[p])]
             /\ UNCHANGED mxwl_port_table_count
    <3>1. p \in Names /\ mxwl_port_table[p].in_use
      BY <2>2 DEF Lookup
    <3>2. /\ Dequeued(mxwl_port_table[p]) \in PortObject
          /\ RingOK(Dequeued(mxwl_port_table[p]))
          /\ Dequeued(mxwl_port_table[p]).in_use
          /\ Dequeued(mxwl_port_table[p]).ref_count = 1
      BY <1>0, <2>2, <3>1, DequeuedOK
    <3> QED  BY <2>2, <3>1, <3>2, UpdateSlot
  <2> QED  BY <1>5, <2>1, <2>2 DEF mach_port_dequeue_message
<1>6. ASSUME NEW p \in PortArgs, NEW right \in Rights, mach_port_insert(p, right)
      PROVE  Inv'
  <2>1. CASE InvalidRight(p)
    BY <2>1, NoChange DEF InvalidRight
  <2> DEFINE new == [mxwl_port_table[p] EXCEPT !.rights = right]
  <2>2. CASE /\ Lookup(p)
             /\ mxwl_port_table' = [mxwl_port_table EXCEPT ![p] = new]
             /\ UNCHANGED mxwl_port_table_count
    <3>1. p \in Names /\ mxwl_port_table[p].in_use
      BY <2>2 DEF Lookup
    <3>2. /\ new \in PortObject /\ RingOK(new)
          /\ new.in_use /\ new.ref_count = 1
      BY <1>0, <3>1, RightOK
    <3> HIDE DEF new
    <3> QED  BY <2>2, <3>1, <3>2, UpdateSlot
  <2> QED  BY <1>6, <2>1, <2>2 DEF mach_port_insert
<1>7. CASE UNCHANGED vars
  BY <1>7, NoChange DEF vars
<1> QED  BY <1>1, <1>2, <1>3, <1>4, <1>5, <1>6, <1>7 DEF Next

\* The inductive invariant holds throughout every sequence of calls.
THEOREM PortTableInvariant == Spec => []Inv
  BY InitInv, NextInv, PTL DEF Spec

\* Every slot keeps the shape of a port object and the counter stays within
\* the table (mach_port.h: mxwl_port_table, mxwl_port_table_count).
THEOREM TypeCorrect == Spec => []TypeOK
<1>1. Inv => TypeOK
  BY DEF Inv
<1> QED  BY <1>1, PortTableInvariant, PTL

\* The ring indices of every port agree with its slots, for every ring
\* length: no queued copy is lost, duplicated or left in a freed slot.
THEOREM RingsConsistent == Spec => []RingInvariant
<1>1. Inv => RingInvariant
  BY DEF Inv
<1> QED  BY <1>1, PortTableInvariant, PTL

\* mxwl_port_table_count counts the slots in use.
THEOREM CountExact == Spec => []TableCountOK
<1>1. Inv => TableCountOK
  BY DEF Inv
<1> QED  BY <1>1, PortTableInvariant, PTL

\* A descriptor is held only by a port in use, and a port in use has its
\* reference.
THEOREM DescriptorsSafe == Spec => []DescriptorsOwned
<1>1. Inv => DescriptorsOwned
  BY DEF Inv
<1> QED  BY <1>1, PortTableInvariant, PTL
-----------------------------------------------------------------------------
(* Refinement: the ring of a port, read from its head, is the abstract      *)
(* queue.                                                                   *)

LEMMA SeqEqual ==
    ASSUME NEW S, NEW s \in Seq(S), NEW t \in Seq(S), Len(s) = Len(t),
           \A i \in 1 .. Len(s) : s[i] = t[i]
    PROVE  s = t
  OBVIOUS

\* Different positions of a ring are different slots.
LEMMA WrapInjective ==
    ASSUME NEW h \in Slots, NEW a \in 0 .. MACH_PORT_QUEUE_MAX - 1,
           NEW b \in 0 .. MACH_PORT_QUEUE_MAX - 1, a # b
    PROVE  Wrap(h + a) # Wrap(h + b)
  BY PortOpsAssumption DEF Slots, Wrap

LEMMA ContentsType ==
    ASSUME NEW obj \in PortObject
    PROVE  /\ Contents(obj) \in Seq(Messages \cup {NULL})
           /\ Len(Contents(obj)) = obj.queue_count
           /\ \A i \in 1 .. obj.queue_count :
                 Contents(obj)[i] = obj.queue[Wrap(obj.queue_head + (i - 1))]
<1>1. /\ obj.queue \in [Slots -> Messages \cup {NULL}]
      /\ obj.queue_head \in Slots
      /\ obj.queue_count \in 0 .. MACH_PORT_QUEUE_MAX
  BY DEF PortObject
<1>2. ASSUME NEW i \in 1 .. obj.queue_count
      PROVE  /\ (obj.queue_head + (i - 1)) % MACH_PORT_QUEUE_MAX
                   = Wrap(obj.queue_head + (i - 1))
             /\ Wrap(obj.queue_head + (i - 1)) \in Slots
  <2>1. i - 1 \in 0 .. MACH_PORT_QUEUE_MAX
    BY <1>1, PortOpsAssumption
  <2> QED  BY <1>1, <2>1, WrapLemma
<1>3. Contents(obj) \in [1 .. obj.queue_count -> Messages \cup {NULL}]
  BY <1>1, <1>2 DEF Contents
<1>4. obj.queue_count \in Nat
  BY <1>1
<1>5. /\ Contents(obj) \in Seq(Messages \cup {NULL})
      /\ Len(Contents(obj)) = obj.queue_count
  BY <1>3, <1>4
<1>6. \A i \in 1 .. obj.queue_count :
         Contents(obj)[i] = obj.queue[Wrap(obj.queue_head + (i - 1))]
  BY <1>2 DEF Contents
<1> QED  BY <1>5, <1>6

LEMMA ContentsEnqueued ==
    ASSUME NEW obj \in PortObject, NEW m \in Messages,
           RingOK(obj), obj.in_use, obj.queue_count < MACH_PORT_QUEUE_MAX
    PROVE  Contents(Enqueued(obj, m)) = Append(Contents(obj), m)
<1> DEFINE new == Enqueued(obj, m)
<1>1. /\ obj.queue \in [Slots -> Messages \cup {NULL}]
      /\ obj.queue_head \in Slots /\ obj.queue_tail \in Slots
      /\ obj.queue_count \in 0 .. MACH_PORT_QUEUE_MAX
  BY DEF PortObject
<1>2. /\ new.queue = [obj.queue EXCEPT ![obj.queue_tail] = m]
      /\ new.queue_count = obj.queue_count + 1
      /\ new.queue_head = obj.queue_head
  BY DEF Enqueued, PortObject
<1>3. new \in PortObject
  BY EnqueuedOK
<1>4. obj.queue_tail = Wrap(obj.queue_head + obj.queue_count)
  BY <1>1, WrapLemma DEF RingOK
<1> HIDE DEF new
<1>5. /\ Contents(new) \in Seq(Messages \cup {NULL})
      /\ Len(Contents(new)) = obj.queue_count + 1
      /\ \A i \in 1 .. obj.queue_count + 1 :
            Contents(new)[i] = new.queue[Wrap(obj.queue_head + (i - 1))]
  BY <1>2, <1>3, ContentsType, ZenonT(60)
<1>6. /\ Contents(obj) \in Seq(Messages \cup {NULL})
      /\ Len(Contents(obj)) = obj.queue_count
      /\ \A i \in 1 .. obj.queue_count :
            Contents(obj)[i] = obj.queue[Wrap(obj.queue_head + (i - 1))]
  BY ContentsType
<1>7. ASSUME NEW i \in 1 .. obj.queue_count
      PROVE  Contents(new)[i] = Contents(obj)[i]
  <2>1. /\ i - 1 \in 0 .. MACH_PORT_QUEUE_MAX - 1 /\ i - 1 # obj.queue_count
        /\ obj.queue_count \in 0 .. MACH_PORT_QUEUE_MAX - 1
        /\ i - 1 \in 0 .. MACH_PORT_QUEUE_MAX /\ i \in 1 .. obj.queue_count + 1
    BY <1>1, PortOpsAssumption
  <2>2. Wrap(obj.queue_head + (i - 1)) # obj.queue_tail
    BY <1>1, <1>4, <2>1, WrapInjective
  <2>3. Wrap(obj.queue_head + (i - 1)) \in Slots
    BY <1>1, <2>1, WrapLemma
  <2>4. new.queue[Wrap(obj.queue_head + (i - 1))]
           = obj.queue[Wrap(obj.queue_head + (i - 1))]
    BY <1>1, <1>2, <2>2, <2>3
  <2> QED  BY <1>5, <1>6, <2>1, <2>4
<1>8. Contents(new)[obj.queue_count + 1] = m
  <2>1. (obj.queue_count + 1) - 1 = obj.queue_count
    BY <1>1
  <2>2. obj.queue_count + 1 \in 1 .. obj.queue_count + 1
    BY <1>1
  <2>3. Contents(new)[obj.queue_count + 1]
           = new.queue[Wrap(obj.queue_head + ((obj.queue_count + 1) - 1))]
    BY <1>5, <2>2
  <2>4. new.queue[obj.queue_tail] = m
    BY <1>1, <1>2
  <2> QED  BY <1>4, <2>1, <2>3, <2>4
<1>9. Append(Contents(obj), m) \in Seq(Messages \cup {NULL})
  BY <1>6
<1>10. /\ Len(Append(Contents(obj), m)) = obj.queue_count + 1
       /\ \A i \in 1 .. obj.queue_count + 1 :
             Append(Contents(obj), m)[i] = IF i = obj.queue_count + 1 THEN m
                                           ELSE Contents(obj)[i]
  BY <1>1, <1>6
<1>11. \A i \in 1 .. obj.queue_count + 1 : i = obj.queue_count + 1 \/ i \in 1 .. obj.queue_count
  BY <1>1
<1>12. \A i \in 1 .. obj.queue_count + 1 :
         Contents(new)[i] = Append(Contents(obj), m)[i]
  BY <1>7, <1>8, <1>10, <1>11
<1>13. Contents(new) = Append(Contents(obj), m)
  BY <1>5, <1>9, <1>10, <1>12, SeqEqual
<1> QED  BY <1>13 DEF new

LEMMA ContentsDequeued ==
    ASSUME NEW obj \in PortObject, RingOK(obj), obj.in_use, obj.queue_count # 0
    PROVE  /\ Contents(obj) # <<>>
           /\ Head(Contents(obj)) = obj.queue[obj.queue_head]
           /\ Contents(Dequeued(obj)) = Tail(Contents(obj))
<1> DEFINE new == Dequeued(obj)
<1>1. /\ obj.queue \in [Slots -> Messages \cup {NULL}]
      /\ obj.queue_head \in Slots
      /\ obj.queue_count \in 0 .. MACH_PORT_QUEUE_MAX
  BY DEF PortObject
<1>2. /\ new.queue = [obj.queue EXCEPT ![obj.queue_head] = NULL]
      /\ new.queue_head = Wrap(obj.queue_head + 1)
      /\ new.queue_count = obj.queue_count - 1
  BY <1>1, StepLemma DEF Dequeued, PortObject
<1>3. new \in PortObject
  BY DequeuedOK
<1> HIDE DEF new
<1>4. /\ Contents(new) \in Seq(Messages \cup {NULL})
      /\ Len(Contents(new)) = obj.queue_count - 1
      /\ \A i \in 1 .. obj.queue_count - 1 :
            Contents(new)[i] = new.queue[Wrap(Wrap(obj.queue_head + 1) + (i - 1))]
  BY <1>2, <1>3, ContentsType, ZenonT(60)
<1>5. /\ Contents(obj) \in Seq(Messages \cup {NULL})
      /\ Len(Contents(obj)) = obj.queue_count
      /\ \A i \in 1 .. obj.queue_count :
            Contents(obj)[i] = obj.queue[Wrap(obj.queue_head + (i - 1))]
  BY ContentsType
<1>6. Wrap(obj.queue_head + 0) = obj.queue_head
  BY <1>1, PortOpsAssumption DEF Slots, Wrap
<1>7. Contents(obj) # <<>> /\ Head(Contents(obj)) = obj.queue[obj.queue_head]
  <2>1. 1 \in 1 .. obj.queue_count /\ 1 - 1 = 0
    BY <1>1
  <2>2. Contents(obj)[1] = obj.queue[obj.queue_head]
    BY <1>5, <1>6, <2>1
  <2>3. Len(Contents(obj)) # 0
    BY <1>5
  <2> QED  BY <1>5, <2>2, <2>3
<1>8. ASSUME NEW i \in 1 .. obj.queue_count - 1
      PROVE  Contents(new)[i] = Contents(obj)[i + 1]
  <2>1. /\ i \in 0 .. MACH_PORT_QUEUE_MAX - 1 /\ i # 0 /\ (i + 1) - 1 = i
        /\ 0 \in 0 .. MACH_PORT_QUEUE_MAX - 1 /\ i \in 0 .. MACH_PORT_QUEUE_MAX
        /\ i + 1 \in 1 .. obj.queue_count
    BY <1>1, PortOpsAssumption
  <2>2. Wrap(Wrap(obj.queue_head + 1) + (i - 1)) = Wrap(obj.queue_head + i)
    BY <1>1, <2>1, WrapArithmetic
  <2>3. Wrap(obj.queue_head + i) # obj.queue_head
    BY <1>1, <1>6, <2>1, WrapInjective
  <2>4. Wrap(obj.queue_head + i) \in Slots
    BY <1>1, <2>1, WrapLemma
  <2>5. new.queue[Wrap(obj.queue_head + i)] = obj.queue[Wrap(obj.queue_head + i)]
    BY <1>1, <1>2, <2>3, <2>4
  <2>6. Contents(obj)[i + 1] = obj.queue[Wrap(obj.queue_head + ((i + 1) - 1))]
    BY <1>5, <2>1
  <2> QED  BY <1>4, <2>1, <2>2, <2>5, <2>6
<1>9. /\ Tail(Contents(obj)) \in Seq(Messages \cup {NULL})
      /\ Len(Tail(Contents(obj))) = obj.queue_count - 1
      /\ \A i \in 1 .. obj.queue_count - 1 : Tail(Contents(obj))[i] = Contents(obj)[i + 1]
  BY <1>1, <1>5, <1>7
<1>10. Contents(new) = Tail(Contents(obj))
  BY <1>4, <1>8, <1>9, SeqEqual
<1> QED  BY <1>7, <1>10 DEF new

\* The abstract port space of the current table.
Space == [p \in InUse |-> Contents(mxwl_port_table[p])]

LEMMA SpaceFacts ==
    ASSUME Inv
    PROVE  /\ DOMAIN Space = InUse
           /\ \A p \in InUse : /\ p \in Names
                               /\ mxwl_port_table[p] \in PortObject
                               /\ RingOK(mxwl_port_table[p])
                               /\ mxwl_port_table[p].in_use
                               /\ Space[p] = Contents(mxwl_port_table[p])
                               /\ Len(Space[p]) = mxwl_port_table[p].queue_count
                               /\ Space[p] \in Seq(Messages \cup {NULL})
  BY ContentsType DEF Inv, TypeOK, RingInvariant, InUse, Space

LEMMA LookupInUse == \A p : Lookup(p) <=> p \in InUse
  BY DEF Lookup, InUse

\* A slot in use is overwritten by an object that is still in use.
LEMMA SpaceUpdate ==
    ASSUME Inv, NEW p \in InUse, NEW obj \in PortObject, obj.in_use,
           mxwl_port_table' = [mxwl_port_table EXCEPT ![p] = obj]
    PROVE  Space' = [Space EXCEPT ![p] = Contents(obj)]
<1>1. \A q \in Names : mxwl_port_table'[q] = IF q = p THEN obj ELSE mxwl_port_table[q]
  BY DEF Inv, TypeOK
<1>2. InUse' = InUse
  BY <1>1 DEF InUse
<1>3. \A q \in InUse : q \in Names
  BY DEF InUse
<1>4. \A q \in InUse : Contents(mxwl_port_table'[q])
                          = IF q = p THEN Contents(obj) ELSE Contents(mxwl_port_table[q])
  BY <1>1, <1>3
<1>5. Space' = [q \in InUse |-> Contents(mxwl_port_table'[q])]
  BY <1>2 DEF Space, Contents
<1> QED  BY <1>4, <1>5 DEF Space

\* A slot in use is released.
LEMMA SpaceClose ==
    ASSUME Inv, NEW p \in InUse, NEW obj \in PortObject, ~ obj.in_use,
           mxwl_port_table' = [mxwl_port_table EXCEPT ![p] = obj]
    PROVE  Space' = [q \in InUse \ {p} |-> Space[q]]
<1>1. \A q \in Names : mxwl_port_table'[q] = IF q = p THEN obj ELSE mxwl_port_table[q]
  BY DEF Inv, TypeOK
<1>2. InUse' = InUse \ {p}
  BY <1>1 DEF InUse
<1>3. \A q \in InUse \ {p} : mxwl_port_table'[q] = mxwl_port_table[q] /\ q \in InUse
  BY <1>1 DEF InUse
<1>4. Space' = [q \in InUse \ {p} |-> Contents(mxwl_port_table'[q])]
  BY <1>2 DEF Space, Contents
<1> QED  BY <1>3, <1>4 DEF Space

\* A free slot is taken into use with an empty ring, or stays free.
LEMMA SpaceOpen ==
    ASSUME Inv, NEW p \in Names \ InUse, NEW obj \in PortObject,
           mxwl_port_table' = [mxwl_port_table EXCEPT ![p] = obj]
    PROVE  /\ obj.in_use /\ obj.queue_count = 0 =>
                 Space' = [q \in InUse \cup {p} |-> IF q = p THEN <<>> ELSE Space[q]]
           /\ ~ obj.in_use => Space' = Space
<1>1. \A q \in Names : mxwl_port_table'[q] = IF q = p THEN obj ELSE mxwl_port_table[q]
  BY DEF Inv, TypeOK
<1>2. ASSUME obj.in_use, obj.queue_count = 0
      PROVE  Space' = [q \in InUse \cup {p} |-> IF q = p THEN <<>> ELSE Space[q]]
  <2>1. InUse' = InUse \cup {p}
    BY <1>1, <1>2 DEF InUse
  <2>2. \A q \in InUse : mxwl_port_table'[q] = mxwl_port_table[q] /\ q # p
    BY <1>1 DEF InUse
  <2>3. Contents(obj) = <<>>
    <3>1. Contents(obj) \in Seq(Messages \cup {NULL}) /\ Len(Contents(obj)) = 0
      BY <1>2, ContentsType
    <3> QED  BY <3>1
  <2>4. Contents(mxwl_port_table'[p]) = <<>>
    BY <1>1, <2>3
  <2>5. Space' = [q \in InUse \cup {p} |-> Contents(mxwl_port_table'[q])]
    BY <2>1 DEF Space, Contents
  <2> QED  BY <2>2, <2>4, <2>5 DEF Space
<1>3. ASSUME ~ obj.in_use PROVE Space' = Space
  <2>1. InUse' = InUse
    BY <1>1, <1>3 DEF InUse
  <2>2. \A q \in InUse : mxwl_port_table'[q] = mxwl_port_table[q]
    BY <1>1 DEF InUse
  <2>3. Space' = [q \in InUse |-> Contents(mxwl_port_table'[q])]
    BY <2>1 DEF Space, Contents
  <2> QED  BY <2>2, <2>3 DEF Space
<1> QED  BY <1>2, <1>3

LEMMA SpaceSame ==
    ASSUME UNCHANGED mxwl_port_table
    PROVE  Space' = Space
  BY DEF Space, InUse, Contents, Names

\* Every call of mach_port.c is a call of the abstract port space with the
\* same result, or changes nothing.
LEMMA StepRefines ==
    ASSUME Inv, [Next]_vars
    PROVE  [Abstract!Next]_(Abstract!vars)
<1> USE SpaceFacts
<1>1. ASSUME NEW right \in Rights, mach_port_allocate(right) PROVE Abstract!Allocate
  <2>1. CASE /\ ret' = <<"name", MACH_PORT_NULL>>
             /\ UNCHANGED mxwl_port_table
    BY <2>1, SpaceSame DEF Space, Abstract!Allocate, Abstract!MACH_PORT_NULL, MACH_PORT_NULL
  <2>2. CASE /\ ~ Names \subseteq InUse
             /\ mxwl_port_table' = [mxwl_port_table EXCEPT ![FirstFree] = Fresh(right)]
             /\ ret' = <<"name", FirstFree>>
    <3>1. FirstFree \in Names \ InUse
      BY <2>2, FirstFreeOK
    <3>2. Fresh(right) \in PortObject /\ Fresh(right).in_use /\ Fresh(right).queue_count = 0
      BY ObjectTypes DEF Fresh, ZeroObject
    <3>3. Space' = [q \in InUse \cup {FirstFree} |-> IF q = FirstFree THEN <<>> ELSE Space[q]]
      BY <2>2, <3>1, <3>2, SpaceOpen
    <3>4. FirstFree = FreshName(Space)
      BY DEF FirstFree, FreshName
    <3>5. ~ Full(Space) /\ Space' = Opened(Space, FreshName(Space))
      BY <2>2, <3>3, <3>4 DEF Full, Opened
    <3> QED  BY <2>2, <3>4, <3>5
             DEF Space, Abstract!Allocate, Abstract!Full, Abstract!Opened,
                 Abstract!FreshName, Abstract!Names, Full, Opened, FreshName, Names
  <2>3. CASE /\ ~ Names \subseteq InUse
             /\ mxwl_port_table' = [mxwl_port_table EXCEPT ![FirstFree] = FailedFresh]
             /\ ret' = <<"name", MACH_PORT_NULL>>
    <3>1. FirstFree \in Names \ InUse
      BY <2>3, FirstFreeOK
    <3>2. FailedFresh \in PortObject /\ ~ FailedFresh.in_use
      BY ObjectTypes DEF FailedFresh, ZeroObject
    <3>3. Space' = Space
      BY <2>3, <3>1, <3>2, SpaceOpen
    <3> QED  BY <2>3, <3>3 DEF Space, Abstract!Allocate, Abstract!MACH_PORT_NULL, MACH_PORT_NULL
  <2> QED  BY <1>1, <2>1, <2>2, <2>3 DEF mach_port_allocate
<1>2. ASSUME NEW p \in PortArgs, mach_port_deallocate(p) \/ mach_port_destroy(p)
      PROVE  Abstract!Deallocate(p)
  <2>1. CASE InvalidRight(p)
    <3>1. p \notin DOMAIN Space /\ Space' = Space /\ ret' = <<"kr", "KERN_INVALID_RIGHT">>
      BY <2>1, LookupInUse, SpaceSame DEF InvalidRight
    <3> QED  BY <3>1 DEF Space, Abstract!Deallocate, Abstract!Live
  <2>2. ASSUME NEW obj \in PortObject, ~ obj.in_use, Lookup(p),
               mxwl_port_table' = [mxwl_port_table EXCEPT ![p] = obj],
               ret' = <<"kr", "KERN_SUCCESS">>
        PROVE  Abstract!Deallocate(p)
    <3>1. p \in InUse
      BY <2>2, LookupInUse
    <3>2. Space' = Closed(Space, p)
      BY <2>2, <3>1, SpaceClose DEF Closed
    <3> QED  BY <2>2, <3>1, <3>2 DEF Space, Abstract!Deallocate, Abstract!Live,
                                     Abstract!Closed, Closed
  <2>3. CASE /\ Lookup(p) /\ ret' = <<"kr", "KERN_SUCCESS">>
             /\ mxwl_port_table' =
                  [mxwl_port_table EXCEPT ![p] = Deallocated(mxwl_port_table[p])]
    <3>1. /\ mxwl_port_table[p] \in PortObject /\ RingOK(mxwl_port_table[p])
          /\ mxwl_port_table[p].ref_count \in {0, 1}
      BY <2>3 DEF Lookup, Inv, TypeOK, RingInvariant, DescriptorsOwned
    <3>2. /\ Deallocated(mxwl_port_table[p]) \in PortObject
          /\ ~ Deallocated(mxwl_port_table[p]).in_use
      BY <3>1, DeallocatedOK
    <3> QED  BY <2>2, <2>3, <3>2
  <2> DEFINE zero == [mxwl_port_table[p] EXCEPT !.ref_count = 0]
  <2>4. CASE /\ Lookup(p) /\ ret' = <<"kr", "KERN_SUCCESS">>
             /\ mxwl_port_table' = [mxwl_port_table EXCEPT ![p] = Deallocated(zero)]
    <3>1. p \in Names /\ mxwl_port_table[p] \in PortObject /\ RingOK(mxwl_port_table[p])
      BY <2>4 DEF Lookup, Inv, TypeOK, RingInvariant
    <3>2. /\ zero \in PortObject /\ zero.ref_count = 0
          /\ zero.queue = mxwl_port_table[p].queue
          /\ zero.queue_head = mxwl_port_table[p].queue_head
          /\ zero.queue_tail = mxwl_port_table[p].queue_tail
          /\ zero.queue_count = mxwl_port_table[p].queue_count
          /\ zero.in_use = mxwl_port_table[p].in_use
      BY <3>1 DEF PortObject
    <3>3. RingOK(zero)
      BY <3>1, <3>2 DEF RingOK, Distance
    <3> HIDE DEF zero
    <3>4. Deallocated(zero) \in PortObject /\ ~ Deallocated(zero).in_use
      BY <3>2, <3>3, DeallocatedOK
    <3> QED  BY <2>2, <2>4, <3>4
  <2> QED  BY <1>2, <2>1, <2>3, <2>4 DEF mach_port_deallocate, mach_port_destroy
<1>3. ASSUME NEW p \in PortArgs, NEW m \in Messages, mach_port_queue_message(p, m)
      PROVE  Abstract!QueueMessage(p, m)
  <2> USE DEF Abstract!QueueMessage, Abstract!SendResult, Abstract!Accepts, Abstract!Sent
  <2>1. CASE InvalidRight(p)
    <3>1. p \notin DOMAIN Space /\ Space' = Space /\ ret' = <<"kr", "KERN_INVALID_RIGHT">>
      BY <2>1, LookupInUse, SpaceSame DEF InvalidRight
    <3> QED  BY <3>1 DEF Space
  <2>2. CASE /\ Lookup(p)
             /\ mxwl_port_table[p].queue_count >= MACH_PORT_QUEUE_MAX
             /\ ret' = <<"kr", "KERN_NO_SPACE">>
             /\ UNCHANGED mxwl_port_table
    <3>1. p \in DOMAIN Space /\ ~ (Len(Space[p]) < MACH_PORT_QUEUE_MAX) /\ Space' = Space
      <4>1. mxwl_port_table[p].queue_count \in 0 .. MACH_PORT_QUEUE_MAX
        BY <2>2, LookupInUse DEF PortObject
      <4> QED  BY <2>2, <4>1, LookupInUse, SpaceSame, PortOpsAssumption
    <3> QED  BY <2>2, <3>1 DEF Space
  <2>3. CASE /\ Lookup(p)
             /\ mxwl_port_table[p].queue_count < MACH_PORT_QUEUE_MAX
             /\ mxwl_port_table' =
                  [mxwl_port_table EXCEPT ![p] = Enqueued(mxwl_port_table[p], m)]
             /\ ret' = <<"kr", "KERN_SUCCESS">>
    <3>1. p \in InUse /\ Len(Space[p]) < MACH_PORT_QUEUE_MAX
      BY <2>3, LookupInUse
    <3>2. /\ Enqueued(mxwl_port_table[p], m) \in PortObject
          /\ Enqueued(mxwl_port_table[p], m).in_use
      BY <2>3, <3>1, EnqueuedOK
    <3>3. Space' = [Space EXCEPT ![p] = Contents(Enqueued(mxwl_port_table[p], m))]
      BY <2>3, <3>1, <3>2, SpaceUpdate
    <3>4. Contents(Enqueued(mxwl_port_table[p], m)) = Append(Space[p], m)
      BY <2>3, <3>1, ContentsEnqueued
    <3>5. Space' = [Space EXCEPT ![p] = Append(Space[p], m)]
      BY <3>3, <3>4
    <3> QED  BY <2>3, <3>1, <3>5 DEF Space
  <2>4. CASE /\ Lookup(p)
             /\ mxwl_port_table[p].queue_count < MACH_PORT_QUEUE_MAX
             /\ ret' = <<"kr", "KERN_FAILURE">>
             /\ UNCHANGED mxwl_port_table
    <3>1. p \in DOMAIN Space /\ Len(Space[p]) < MACH_PORT_QUEUE_MAX /\ Space' = Space
      BY <2>4, LookupInUse, SpaceSame
    <3> QED  BY <2>4, <3>1 DEF Space
  <2> QED  BY <1>3, <2>1, <2>2, <2>3, <2>4 DEF mach_port_queue_message
<1>4. ASSUME NEW p \in PortArgs, mach_port_dequeue_message(p)
      PROVE  Abstract!DequeueMessage(p)
  <2> USE DEF Abstract!DequeueMessage, Abstract!HasMessage, Abstract!Taken
  <2>1. CASE /\ ~ (Lookup(p) /\ mxwl_port_table[p].queue_count # 0)
             /\ ret' = <<"msg", NULL>>
             /\ UNCHANGED mxwl_port_table
    <3>1. ~ (p \in DOMAIN Space /\ Space[p] # <<>>) /\ Space' = Space
      BY <2>1, LookupInUse, SpaceSame
    <3> QED  BY <2>1, <3>1 DEF Space
  <2>2. CASE /\ Lookup(p) /\ mxwl_port_table[p].queue_count # 0
             /\ ret' = <<"msg", mxwl_port_table[p].queue[mxwl_port_table[p].queue_head]>>
             /\ mxwl_port_table' =
                  [mxwl_port_table EXCEPT ![p] = Dequeued(mxwl_port_table[p])]
    <3>1. p \in InUse
      BY <2>2, LookupInUse
    <3>2. Dequeued(mxwl_port_table[p]) \in PortObject /\ Dequeued(mxwl_port_table[p]).in_use
      BY <2>2, <3>1, DequeuedOK
    <3>3. Space' = [Space EXCEPT ![p] = Contents(Dequeued(mxwl_port_table[p]))]
      BY <2>2, <3>1, <3>2, SpaceUpdate
    <3>4. /\ Space[p] # <<>>
          /\ Head(Space[p]) = mxwl_port_table[p].queue[mxwl_port_table[p].queue_head]
          /\ Contents(Dequeued(mxwl_port_table[p])) = Tail(Space[p])
      BY <2>2, <3>1, ContentsDequeued
    <3>5. Space' = [Space EXCEPT ![p] = Tail(Space[p])]
      BY <3>3, <3>4
    <3>6. ret' = <<"msg", Head(Space[p])>>
      BY <2>2, <3>4
    <3> QED  BY <3>1, <3>4, <3>5, <3>6 DEF Space
  <2> QED  BY <1>4, <2>1, <2>2 DEF mach_port_dequeue_message
<1>5. ASSUME NEW p \in PortArgs, NEW right \in Rights, mach_port_insert(p, right)
      PROVE  Abstract!InsertRight(p)
  <2>1. CASE InvalidRight(p)
    <3>1. p \notin DOMAIN Space /\ Space' = Space /\ ret' = <<"kr", "KERN_INVALID_RIGHT">>
      BY <2>1, LookupInUse, SpaceSame DEF InvalidRight
    <3> QED  BY <3>1 DEF Space, Abstract!InsertRight, Abstract!Live
  <2> DEFINE new == [mxwl_port_table[p] EXCEPT !.rights = right]
  <2>2. CASE /\ Lookup(p) /\ ret' = <<"kr", "KERN_SUCCESS">>
             /\ mxwl_port_table' = [mxwl_port_table EXCEPT ![p] = new]
    <3>1. p \in InUse
      BY <2>2, LookupInUse
    <3>2. /\ new \in PortObject /\ new.in_use
          /\ new.queue = mxwl_port_table[p].queue
          /\ new.queue_head = mxwl_port_table[p].queue_head
          /\ new.queue_count = mxwl_port_table[p].queue_count
      BY <3>1 DEF PortObject
    <3>3. Contents(new) = Space[p]
      BY <3>1, <3>2 DEF Contents
    <3> HIDE DEF new
    <3>4. Space' = [Space EXCEPT ![p] = Space[p]]
      BY <2>2, <3>1, <3>2, <3>3, SpaceUpdate
    <3>5. Space' = Space
      BY <3>4 DEF Space
    <3> QED  BY <2>2, <3>1, <3>5 DEF Space, Abstract!InsertRight, Abstract!Live
  <2> QED  BY <1>5, <2>1, <2>2 DEF mach_port_insert
<1>6. CASE UNCHANGED vars
  <2>1. Space' = Space /\ ret' = ret
    BY <1>6, SpaceSame DEF vars
  <2> QED  BY <2>1 DEF Space, Abstract!vars
<1> QED  BY <1>1, <1>2, <1>3, <1>4, <1>5, <1>6 DEF Next, Abstract!Next

\* For every table size and ring length the port table of mach_port.c
\* implements the port space its header promises: the callers cannot tell
\* the rings and slots from first-in first-out queues under live names.
THEOREM PortTableRefines == Spec => PortSpaceSpec
<1>1. Init => Abstract!Init
  <2> SUFFICES ASSUME Init PROVE Abstract!Init
    OBVIOUS
  <2>1. InUse = {}
    BY DEF Init, InUse, ZeroObject
  <2> QED  BY <2>1 DEF Init, Abstract!Init
<1>2. Inv /\ [Next]_vars => [Abstract!Next]_(Abstract!vars)
  BY StepRefines
<1> QED  BY <1>1, <1>2, PortTableInvariant, PTL DEF Spec, PortSpaceSpec, Abstract!Spec
=============================================================================
