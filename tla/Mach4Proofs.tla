---------------------------- MODULE Mach4Proofs ----------------------------
(* Proofs about the Mach 4 ports of Mach4Port, for every number of ports and *)
(* threads and every schedule of sizes: what is proved is that references    *)
(* cover pointers, that rights are counted and that the free list of a       *)
(* dead-name table runs through exactly its free slots.                      *)
EXTENDS Mach4Port, FiniteSetTheorems, TLAPS

-----------------------------------------------------------------------------
(* The inductive invariant.                                                  *)

PortOrNull == Ports \cup {NoPort}
Slots == [name : PortNames \cup {NoPort}, next : Nat, right : PortOrNull]
Tables == [its : Nat, next : Nat, slot : Seq(Slots)]
PortRecords ==
  [st : {"free", "active", "dying", "dead"}, refs : Nat, inSpace : BOOLEAN,
   dest : PortOrNull, ms : Nat, s : Nat, so : Nat, ns : PortOrNull, pd : PortOrNull,
   sync : Nat, dn : Tables,
   q : Nat, seqno : Nat, msgs : Nat, blocked : Nat, rcv : Nat]
Rights == [s : Nat, so : Nat]

\* A thread that grows a table has the next size for the port it works on.
Growths ==
  {g \in [port : PortOrNull, its : Nat, was : Nat] :
     \/ g = Idle
     \/ g.port \in Ports /\ g.its = g.was + 1 /\ g.its \in 1..Len(DnSizes) - 1}

\* The slots of a table with its header; there is no table at first.
SizeAt(its) == IF its = 0 THEN 1 ELSE DnSizes[its]
FreeSlots(dn) == {i \in DOMAIN dn.slot : dn.slot[i].name = NoPort}

\* c lists the free slots of the table, each once, in the order of the list.
IsChain(dn, m, c) ==
  /\ c \in [0..m -> 0..Len(dn.slot)] /\ c[0] = dn.next /\ c[m] = 0
  /\ \A n \in 0..m - 1 : c[n] \in FreeSlots(dn) /\ dn.slot[c[n]].next = c[n + 1]
  /\ \A n, k \in 0..m - 1 : c[n] = c[k] => n = k
  /\ \A i \in FreeSlots(dn) : \E n \in 0..m - 1 : c[n] = i
Chained(dn) == \E m \in Nat : \E c : IsChain(dn, m, c)

TableOK(dn) ==
  /\ dn \in Tables /\ dn.its \in 0..Len(DnSizes) - 1 /\ Len(dn.slot) = SizeAt(dn.its) - 1
  /\ \A i \in DOMAIN dn.slot : dn.slot[i].name = NoPort <=> dn.slot[i].right = NoPort
  /\ Chained(dn)

RecordOK(r) ==
  /\ r \in PortRecords /\ TableOK(r.dn)
  /\ r.st # "active" => r.blocked = 0 /\ r.rcv = 0
  /\ ~r.inSpace => r.rcv = 0
  /\ r.st = "active" /\ r.ns # NoPort /\ r.s = 0 => r.ms < r.sync

\* The accounts of one port: its record, the callers' naked rights, the
\* requests that name it, the ports sent to it, the threads that grow its table.
Living(r) == IF r.st \in {"active", "dying"} THEN 1 ELSE 0
Held(r, n, rq, st, gr) == n.s + n.so + r.msgs + Living(r) + rq + st + gr
Balanced(r, n, rq, st, gr) ==
  /\ IF r.st = "free" THEN Held(r, n, rq, st, gr) = 0
                      ELSE r.refs >= Held(r, n, rq, st, gr)
  /\ r.so >= n.so + rq
  /\ r.st \in {"active", "dying"} => r.s = n.s

Finite(ps, gs, p) ==
  IsFiniteSet(RequestsFor(ps, p)) /\ IsFiniteSet(SentTo(ps, p))
  /\ IsFiniteSet(GrowingOn(gs, p))
Counted(ps, nk, gs, p) ==
  /\ Finite(ps, gs, p)
  /\ Balanced(ps[p], nk[p], Cardinality(RequestsFor(ps, p)),
              Cardinality(SentTo(ps, p)), Cardinality(GrowingOn(gs, p)))

Shaped(ps, nk, gs) ==
  /\ ps \in [Ports -> PortRecords] /\ nk \in [Ports -> Rights]
  /\ gs \in [Growers -> Growths]
  /\ \A p \in Ports : RecordOK(ps[p])
M4Inv == Shaped(port, naked, growing) /\ \A p \in Ports : Counted(port, naked, growing, p)

-----------------------------------------------------------------------------
(* Sets that gain or lose one element.                                       *)

Count(x, S) == IF x \in S THEN 1 ELSE 0

\* Two sets that differ in x at most differ by x in their size.
LEMMA OneMoves ==
  ASSUME NEW S, NEW T, NEW x, IsFiniteSet(S), T \ {x} = S \ {x}
  PROVE  /\ IsFiniteSet(T) /\ Cardinality(S) \in Nat /\ Cardinality(T) \in Nat
         /\ Cardinality(T) + Count(x, S) = Cardinality(S) + Count(x, T)
<1>1. IsFiniteSet(S \ {x}) /\ Cardinality(S) \in Nat /\ Cardinality(S \ {x}) \in Nat
  BY FS_RemoveElement, FS_CardinalityType
<1>2. Cardinality(S) = Cardinality(S \ {x}) + Count(x, S)
  BY FS_RemoveElement, <1>1, FS_CardinalityType DEF Count
<1>3. IsFiniteSet(T) /\ Cardinality(T) = Cardinality(S \ {x}) + Count(x, T)
  <2>1. CASE x \in T
    <3>1. T = (S \ {x}) \cup {x} /\ x \notin S \ {x}
      BY <2>1
    <3> QED BY <3>1, <2>1, <1>1, FS_AddElement DEF Count
  <2>2. CASE x \notin T
    <3>1. T = S \ {x}
      BY <2>2
    <3> QED BY <3>1, <2>2, <1>1 DEF Count
  <2> QED BY <2>1, <2>2
<1>4. Count(x, S) \in Nat /\ Count(x, T) \in Nat
  BY DEF Count
<1> QED BY <1>1, <1>2, <1>3, <1>4, FS_CardinalityType

\* A set that only loses elements.
LEMMA SomeLeave ==
  ASSUME NEW S, NEW T, IsFiniteSet(S), T \subseteq S
  PROVE  /\ IsFiniteSet(T) /\ Cardinality(S) \in Nat /\ Cardinality(T) \in Nat
         /\ Cardinality(T) <= Cardinality(S)
BY FS_Subset, FS_CardinalityType

\* What it means to be a request for p.
LEMMA InRequests ==
  ASSUME NEW ps, NEW p, NEW z
  PROVE  z \in RequestsFor(ps, p) <=>
           \E q \in Ports : \E i \in RequestPlaces(ps[q]) :
              z = <<q, i>> /\ RightAt(ps[q], i) = p
BY DEF RequestsFor

-----------------------------------------------------------------------------
(* Tables of dead-name requests.                                             *)

\* Every size of the schedule has room for the header, and the next is larger.
LEMMA SizesGrow ==
  ASSUME NEW its \in 0..Len(DnSizes) - 1
  PROVE  /\ SizeAt(its) \in Nat /\ SizeAt(its) >= 1
         /\ its + 1 \in 1..Len(DnSizes) /\ DnSizes[its + 1] \in Nat
         /\ DnSizes[its + 1] # 0 => /\ its + 1 \in 1..Len(DnSizes) - 1
                                   /\ SizeAt(its + 1) = DnSizes[its + 1]
                                   /\ SizeAt(its + 1) > SizeAt(its)
<1>1. its + 1 \in 1..Len(DnSizes) /\ DnSizes[its + 1] \in Nat
  BY Mach4PortAssumption
<1>2. SizeAt(its) \in Nat /\ SizeAt(its) >= 1
  <2>1. CASE its = 0
    BY <2>1 DEF SizeAt
  <2>2. CASE its # 0
    <3>1. its \in 1..Len(DnSizes) - 1 /\ DnSizes[its] \in Nat
      BY <2>2, Mach4PortAssumption
    <3>2. DnSizes[its] > IF its = 1 THEN 1 ELSE DnSizes[its - 1]
      BY <3>1, Mach4PortAssumption
    <3>3. its # 1 => DnSizes[its - 1] \in Nat
      BY <3>1, Mach4PortAssumption
    <3> QED BY <3>1, <3>2, <3>3, <2>2 DEF SizeAt
  <2> QED BY <2>1, <2>2
<1>3. ASSUME DnSizes[its + 1] # 0
      PROVE  /\ its + 1 \in 1..Len(DnSizes) - 1
             /\ SizeAt(its + 1) = DnSizes[its + 1]
             /\ SizeAt(its + 1) > SizeAt(its)
  <2>1. its + 1 \in 1..Len(DnSizes) - 1
    BY <1>3, Mach4PortAssumption
  <2>2. DnSizes[its + 1] > IF its + 1 = 1 THEN 1 ELSE DnSizes[(its + 1) - 1]
    BY <2>1, Mach4PortAssumption
  <2>3. (its + 1) - 1 = its /\ its + 1 # 0 /\ (its + 1 = 1 <=> its = 0)
    OBVIOUS
  <2> QED BY <2>1, <2>2, <2>3 DEF SizeAt
<1> QED BY <1>1, <1>2, <1>3

LEMMA NoTableOK == TableOK(NoTable) /\ NoTable \in Tables
<1>1. IsChain(NoTable, 0, [n \in 0..0 |-> 0])
  BY DEF IsChain, NoTable, FreeSlots
<1>2. Chained(NoTable)
  BY <1>1 DEF Chained
<1>3. NoTable \in Tables
  BY DEF NoTable, Tables
<1>4. 0 \in 0..Len(DnSizes) - 1
  BY Mach4PortAssumption
<1> QED BY <1>2, <1>3, <1>4 DEF TableOK, NoTable, SizeAt

\* ipc_port_dnrequest takes the first free slot.
Taken(dn, name, n) ==
  [its |-> dn.its, next |-> dn.slot[dn.next].next,
   slot |-> [dn.slot EXCEPT ![dn.next] = [name |-> name, next |-> 0, right |-> n]]]

LEMMA TakenOK ==
  ASSUME NEW dn, TableOK(dn), dn.next # 0, NEW name \in PortNames, NEW n \in Ports
  PROVE  /\ TableOK(Taken(dn, name, n)) /\ dn.next \in DOMAIN dn.slot
         /\ dn.slot[dn.next].right = NoPort
         /\ Len(Taken(dn, name, n).slot) = Len(dn.slot)
<1> DEFINE i == dn.next
           w == [name |-> name, next |-> 0, right |-> n]
           d == Taken(dn, name, n)
<1>1. PICK m \in Nat : \E c : IsChain(dn, m, c)
  BY DEF TableOK, Chained
<1>2. PICK c : IsChain(dn, m, c)
  BY <1>1
<1>t. dn \in Tables /\ dn.slot \in Seq(Slots) /\ w \in Slots /\ Len(dn.slot) \in Nat
      /\ DOMAIN dn.slot = 1..Len(dn.slot)
  BY DEF TableOK, Tables, Slots, PortOrNull
<1>3. m # 0 /\ c[0] = i /\ i \in FreeSlots(dn)
  BY <1>2 DEF IsChain
<1>4. i \in DOMAIN dn.slot /\ dn.slot[i].name = NoPort /\ dn.slot[i].right = NoPort
  BY <1>3 DEF FreeSlots, TableOK
<1>5. /\ d.slot \in Seq(Slots) /\ Len(d.slot) = Len(dn.slot)
      /\ DOMAIN d.slot = DOMAIN dn.slot /\ d.slot[i] = w
      /\ \A j \in DOMAIN dn.slot : j # i => d.slot[j] = dn.slot[j]
  BY <1>t, <1>4 DEF Taken
<1>6. d.next \in Nat /\ d.next = dn.slot[i].next /\ d.its = dn.its /\ dn.its \in Nat
  <2>1. dn.slot[i] \in Slots
    BY <1>t, <1>4
  <2>2. dn.slot[i].next \in Nat
    BY <2>1 DEF Slots
  <2> QED BY <2>2, <1>t DEF Taken, Tables
<1>d. d \in Tables
  BY <1>5, <1>6 DEF Taken, Tables
<1> HIDE DEF d
<1>7. FreeSlots(d) = FreeSlots(dn) \ {i}
  BY <1>5, Mach4PortAssumption DEF FreeSlots
<1>8. IsChain(d, m - 1, [k \in 0..m - 1 |-> c[k + 1]])
  <2> DEFINE e == [k \in 0..m - 1 |-> c[k + 1]]
  <2>1. m - 1 \in Nat /\ c \in [0..m -> 0..Len(dn.slot)] /\ c[m] = 0
    BY <1>2, <1>3 DEF IsChain
  <2>2. e \in [0..m - 1 -> 0..Len(d.slot)] /\ e[0] = d.next /\ e[m - 1] = 0
    <3>1. dn.slot[c[0]].next = c[0 + 1]
      BY <1>2, <1>3 DEF IsChain
    <3> QED BY <2>1, <1>3, <1>5, <1>6, <3>1
  <2>3. ASSUME NEW k \in 0..(m - 1) - 1
        PROVE  e[k] \in FreeSlots(d) /\ d.slot[e[k]].next = e[k + 1]
    <3>1. k + 1 \in 0..m - 1 /\ e[k] = c[k + 1] /\ e[k + 1] = c[(k + 1) + 1] /\ k + 1 # 0
          /\ 0 \in 0..m - 1
      BY <2>1
    <3>2. c[k + 1] \in FreeSlots(dn) /\ dn.slot[c[k + 1]].next = c[(k + 1) + 1]
          /\ c[k + 1] # c[0]
      BY <3>1, <1>2 DEF IsChain
    <3> QED BY <3>1, <3>2, <1>3, <1>7, <1>5 DEF FreeSlots
  <2>4. \A a, b \in 0..(m - 1) - 1 : e[a] = e[b] => a = b
    <3>1. SUFFICES ASSUME NEW a \in 0..(m - 1) - 1, NEW b \in 0..(m - 1) - 1, e[a] = e[b]
                   PROVE  a = b
      OBVIOUS
    <3>2. a + 1 \in 0..m - 1 /\ b + 1 \in 0..m - 1 /\ e[a] = c[a + 1] /\ e[b] = c[b + 1]
      BY <2>1
    <3>3. a + 1 = b + 1
      BY <3>1, <3>2, <1>2 DEF IsChain
    <3> QED BY <3>3
  <2>5. \A j \in FreeSlots(d) : \E k \in 0..(m - 1) - 1 : e[k] = j
    <3>1. SUFFICES ASSUME NEW j \in FreeSlots(d)
                   PROVE  \E k \in 0..(m - 1) - 1 : e[k] = j
      OBVIOUS
    <3>2. PICK k \in 0..m - 1 : c[k] = j
      BY <1>7, <1>2 DEF IsChain
    <3>3. k # 0
      BY <3>2, <1>3, <1>7
    <3>4. k - 1 \in 0..(m - 1) - 1 /\ e[k - 1] = j
      BY <3>2, <3>3, <2>1
    <3> QED BY <3>4
  <2> HIDE DEF e
  <2>6. IsChain(d, m - 1, e)
    BY <2>2, <2>3, <2>4, <2>5 DEF IsChain
  <2> QED BY <2>6 DEF e
<1>9. Chained(d)
  <2>1. m - 1 \in Nat
    BY <1>3
  <2> QED BY <2>1, <1>8 DEF Chained
<1>10. \A j \in DOMAIN d.slot : d.slot[j].name = NoPort <=> d.slot[j].right = NoPort
  BY <1>5, Mach4PortAssumption DEF TableOK
<1>11. TableOK(d)
  BY <1>d, <1>5, <1>6, <1>9, <1>10 DEF TableOK
<1> QED BY <1>4, <1>5, <1>11 DEF d

\* ipc_port_dncancel puts a slot in front of the list.
Returned(dn, i) ==
  [its |-> dn.its, next |-> i, slot |-> [dn.slot EXCEPT ![i] = FreeSlot(dn.next)]]

LEMMA ReturnedOK ==
  ASSUME NEW dn, TableOK(dn), NEW i \in DOMAIN dn.slot, dn.slot[i].name # NoPort
  PROVE  /\ TableOK(Returned(dn, i)) /\ dn.slot[i].right \in Ports
         /\ Len(Returned(dn, i).slot) = Len(dn.slot)
<1> DEFINE d == Returned(dn, i)
           w == FreeSlot(dn.next)
<1>1. PICK m \in Nat : \E c : IsChain(dn, m, c)
  BY DEF TableOK, Chained
<1>2. PICK c : IsChain(dn, m, c)
  BY <1>1
<1>t. /\ dn \in Tables /\ dn.slot \in Seq(Slots) /\ Len(dn.slot) \in Nat
      /\ DOMAIN dn.slot = 1..Len(dn.slot) /\ dn.its \in Nat /\ dn.next \in Nat
  BY DEF TableOK, Tables
<1>w. w \in Slots /\ w.name = NoPort /\ w.right = NoPort /\ w.next = dn.next
  BY <1>t DEF FreeSlot, Slots, PortOrNull
<1>4. dn.slot[i].right \in Ports
  <2>1. dn.slot[i] \in Slots /\ dn.slot[i].right # NoPort
    BY <1>t DEF TableOK
  <2> QED BY <2>1 DEF Slots, PortOrNull
<1>5. /\ d.slot \in Seq(Slots) /\ Len(d.slot) = Len(dn.slot)
      /\ DOMAIN d.slot = DOMAIN dn.slot /\ d.slot[i] = w
      /\ \A j \in DOMAIN dn.slot : j # i => d.slot[j] = dn.slot[j]
  BY <1>t, <1>w DEF Returned
<1>6. d.next = i /\ i \in Nat /\ d.its = dn.its
  BY <1>t DEF Returned
<1>d. d \in Tables
  BY <1>5, <1>6, <1>t DEF Returned, Tables
<1> HIDE DEF d, w
<1>7. FreeSlots(d) = FreeSlots(dn) \cup {i} /\ i \notin FreeSlots(dn)
  BY <1>5, <1>w DEF FreeSlots
<1>8. IsChain(d, m + 1, [k \in 0..m + 1 |-> IF k = 0 THEN i ELSE c[k - 1]])
  <2> DEFINE e == [k \in 0..m + 1 |-> IF k = 0 THEN i ELSE c[k - 1]]
  <2>1. c \in [0..m -> 0..Len(dn.slot)] /\ c[m] = 0 /\ c[0] = dn.next
    BY <1>2 DEF IsChain
  <2>2. e \in [0..m + 1 -> 0..Len(d.slot)] /\ e[0] = d.next /\ e[m + 1] = 0
    BY <2>1, <1>5, <1>6, <1>t
  <2>3. ASSUME NEW k \in 0..(m + 1) - 1
        PROVE  e[k] \in FreeSlots(d) /\ d.slot[e[k]].next = e[k + 1]
    <3>1. CASE k = 0
      <4>1. e[0] = i /\ e[0 + 1] = c[0]
        BY <2>1
      <4> QED BY <3>1, <4>1, <1>7, <1>5, <1>w, <2>1
    <3>2. CASE k # 0
      <4>1. k - 1 \in 0..m - 1 /\ e[k] = c[k - 1] /\ e[k + 1] = c[k] /\ (k - 1) + 1 = k
        BY <3>2, <2>1
      <4>2. c[k - 1] \in FreeSlots(dn) /\ dn.slot[c[k - 1]].next = c[(k - 1) + 1]
        BY <4>1, <1>2 DEF IsChain
      <4>3. c[k - 1] # i /\ c[k - 1] \in DOMAIN dn.slot
        BY <4>2, <1>7 DEF FreeSlots
      <4> QED BY <4>1, <4>2, <4>3, <1>7, <1>5
    <3> QED BY <3>1, <3>2
  <2>4. \A a, b \in 0..(m + 1) - 1 : e[a] = e[b] => a = b
    <3>1. \A a \in 0..(m + 1) - 1 : a # 0 => e[a] = c[a - 1] /\ a - 1 \in 0..m - 1 /\ e[a] # i
      BY <2>1, <1>2, <1>7 DEF IsChain
    <3>2. e[0] = i
      BY <2>1
    <3>3. SUFFICES ASSUME NEW a \in 0..(m + 1) - 1, NEW b \in 0..(m + 1) - 1, e[a] = e[b]
                   PROVE  a = b
      OBVIOUS
    <3>4. CASE a = 0 \/ b = 0
      BY <3>1, <3>2, <3>3, <3>4
    <3>5. CASE a # 0 /\ b # 0
      <4>1. c[a - 1] = c[b - 1] /\ a - 1 \in 0..m - 1 /\ b - 1 \in 0..m - 1
        BY <3>1, <3>3, <3>5
      <4>2. a - 1 = b - 1
        BY <4>1, <1>2 DEF IsChain
      <4> QED BY <4>2
    <3> QED BY <3>4, <3>5
  <2>5. \A j \in FreeSlots(d) : \E k \in 0..(m + 1) - 1 : e[k] = j
    <3>1. SUFFICES ASSUME NEW j \in FreeSlots(d)
                   PROVE  \E k \in 0..(m + 1) - 1 : e[k] = j
      OBVIOUS
    <3>2. CASE j = i
      <4>1. 0 \in 0..(m + 1) - 1 /\ e[0] = j
        BY <3>2, <2>1
      <4> QED BY <4>1
    <3>3. CASE j # i
      <4>1. PICK k \in 0..m - 1 : c[k] = j
        BY <3>3, <1>7, <1>2 DEF IsChain
      <4>2. k + 1 \in 0..(m + 1) - 1 /\ e[k + 1] = j
        BY <4>1, <2>1
      <4> QED BY <4>2
    <3> QED BY <3>2, <3>3
  <2> HIDE DEF e
  <2>6. IsChain(d, m + 1, e)
    BY <2>2, <2>3, <2>4, <2>5 DEF IsChain
  <2> QED BY <2>6 DEF e
<1>9. Chained(d)
  <2>1. m + 1 \in Nat
    OBVIOUS
  <2> QED BY <2>1, <1>8 DEF Chained
<1>10. \A j \in DOMAIN d.slot : d.slot[j].name = NoPort <=> d.slot[j].right = NoPort
  BY <1>5, <1>w DEF TableOK
<1>11. TableOK(d)
  BY <1>d, <1>5, <1>6, <1>9, <1>10 DEF TableOK
<1> QED BY <1>4, <1>5, <1>11 DEF d

\* ipc_port_dngrow copies the slots and puts the new ones in front of the list.
LEMMA GrownOK ==
  ASSUME NEW dn, TableOK(dn), NEW its, its = dn.its + 1, its \in 1..Len(DnSizes) - 1
  PROVE  /\ TableOK(Grown(dn, its)) /\ Len(Grown(dn, its).slot) > Len(dn.slot)
         /\ \A i \in DOMAIN Grown(dn, its).slot :
              Grown(dn, its).slot[i].right # NoPort =>
                i \in DOMAIN dn.slot /\ Grown(dn, its).slot[i].right = dn.slot[i].right
<1> DEFINE osize == Len(dn.slot) + 1
           nsize == DnSizes[its]
           gap   == nsize - osize
           fresh(j) == FreeSlot(IF j = osize THEN dn.next ELSE j - 1)
           d == Grown(dn, its)
<1>1. PICK m \in Nat : \E c : IsChain(dn, m, c)
  BY DEF TableOK, Chained
<1>2. PICK c : IsChain(dn, m, c)
  BY <1>1
<1>t. /\ dn \in Tables /\ dn.slot \in Seq(Slots) /\ Len(dn.slot) \in Nat
      /\ DOMAIN dn.slot = 1..Len(dn.slot) /\ dn.its \in Nat /\ dn.next \in Nat
  BY DEF TableOK, Tables
<1>s. /\ osize \in Nat /\ nsize \in Nat /\ nsize > osize /\ osize >= 1
      /\ SizeAt(its) = nsize /\ its \in 0..Len(DnSizes) - 1
  <2>1. dn.its \in 0..Len(DnSizes) - 1 /\ osize = SizeAt(dn.its)
    <3>1. Len(dn.slot) = SizeAt(dn.its) - 1 /\ dn.its \in 0..Len(DnSizes) - 1
      BY DEF TableOK
    <3>2. SizeAt(dn.its) \in Nat
      BY <3>1, SizesGrow
    <3> QED BY <3>1, <3>2, <1>t
  <2>2. its \in 0..Len(DnSizes) - 1 /\ its # 0
    BY Mach4PortAssumption
  <2>3. SizeAt(its) = nsize /\ SizeAt(its) \in Nat /\ SizeAt(its) >= 1
    BY <2>2, SizesGrow DEF SizeAt
  <2>4. nsize # 0
    BY <2>3
  <2>5. SizeAt(dn.its + 1) > SizeAt(dn.its)
    BY <2>1, <2>4, SizesGrow
  <2> QED BY <2>1, <2>2, <2>3, <2>5, <1>t
<1>g. /\ gap \in Nat /\ gap >= 1 /\ nsize - 1 \in Nat /\ gap = nsize - osize
      /\ DOMAIN dn.slot = 1..osize - 1 /\ Len(dn.slot) = osize - 1
  BY <1>s, <1>t, SMTT(30)
<1> HIDE DEF nsize, osize, gap
<1>w. \A j \in osize..nsize - 1 :
        fresh(j) \in Slots /\ fresh(j).name = NoPort /\ fresh(j).right = NoPort
        /\ fresh(j).next = IF j = osize THEN dn.next ELSE j - 1
  BY <1>t, <1>s DEF FreeSlot, Slots, PortOrNull
<1> HIDE DEF fresh
<1>5. /\ d.slot \in Seq(Slots) /\ Len(d.slot) = nsize - 1
      /\ DOMAIN d.slot = 1..nsize - 1
      /\ \A j \in 1..nsize - 1 : d.slot[j] = IF j < osize THEN dn.slot[j] ELSE fresh(j)
  <2> DEFINE s == [j \in 1..nsize - 1 |-> IF j < osize THEN dn.slot[j] ELSE fresh(j)]
  <2>1. \A j \in 1..nsize - 1 : (IF j < osize THEN dn.slot[j] ELSE fresh(j)) \in Slots
    <3>1. SUFFICES ASSUME NEW j \in 1..nsize - 1
                   PROVE  (IF j < osize THEN dn.slot[j] ELSE fresh(j)) \in Slots
      OBVIOUS
    <3>2. CASE j < osize
      <4>1. j \in DOMAIN dn.slot
        BY <3>2, <1>g, <1>s
      <4> QED BY <3>2, <4>1, <1>t
    <3>3. CASE ~(j < osize)
      <4>1. j \in osize..nsize - 1
        BY <3>3, <1>s
      <4> QED BY <3>3, <4>1, <1>w
    <3> QED BY <3>2, <3>3
  <2>2. s \in Seq(Slots) /\ Len(s) = nsize - 1 /\ DOMAIN s = 1..nsize - 1
    <3>1. s \in [1..nsize - 1 -> Slots]
      BY <2>1
    <3>2. \A n \in Nat : \A f \in [1..n -> Slots] :
            f \in Seq(Slots) /\ Len(f) = n /\ DOMAIN f = 1..n
      OBVIOUS
    <3> HIDE DEF s
    <3> QED BY <3>1, <3>2, <1>g
  <2>3. d.slot = s
    BY DEF Grown, nsize, fresh, osize
  <2> QED BY <2>2, <2>3
<1>6. d.next = nsize - 1 /\ d.its = its
  BY DEF Grown, nsize
<1>d. d \in Tables
  <2>1. d = [its |-> d.its, next |-> d.next, slot |-> d.slot]
    BY DEF Grown
  <2>2. d.its \in Nat /\ d.next \in Nat
    BY <1>6, <1>g
  <2>3. d.slot \in Seq(Slots)
    BY <1>5
  <2> HIDE DEF d
  <2> QED BY <2>1, <2>2, <2>3 DEF Tables
<1> HIDE DEF d
<1>7. FreeSlots(d) = FreeSlots(dn) \cup osize..nsize - 1
  <2>1. \A j \in 1..nsize - 1 : j < osize => j \in DOMAIN dn.slot /\ d.slot[j] = dn.slot[j]
    BY <1>5, <1>t, <1>s, <1>g
  <2>2. \A j \in 1..nsize - 1 : ~(j < osize) => j \in osize..nsize - 1 /\ d.slot[j].name = NoPort
    BY <1>5, <1>w, <1>s
  <2>3. \A j \in DOMAIN dn.slot : j \in 1..nsize - 1 /\ j < osize
    BY <1>g, <1>s
  <2>4. \A j \in osize..nsize - 1 : j \in 1..nsize - 1 /\ ~(j < osize)
    BY <1>s
  <2> QED BY <2>1, <2>2, <2>3, <2>4, <1>5 DEF FreeSlots
<1>r. FreeSlots(dn) \subseteq 1..osize - 1
  BY <1>g DEF FreeSlots
<1>8. IsChain(d, m + gap, [k \in 0..m + gap |-> IF k < gap THEN nsize - 1 - k ELSE c[k - gap]])
  <2> DEFINE e == [k \in 0..m + gap |-> IF k < gap THEN nsize - 1 - k ELSE c[k - gap]]
  <2>1. c \in [0..m -> 0..Len(dn.slot)] /\ c[m] = 0 /\ c[0] = dn.next
    BY <1>2 DEF IsChain
  <2>a. \A k \in 0..m + gap :
          /\ k < gap => e[k] = nsize - 1 - k /\ e[k] \in osize..nsize - 1
          /\ ~(k < gap) => e[k] = c[k - gap] /\ k - gap \in 0..m
    <3>1. SUFFICES ASSUME NEW k \in 0..m + gap
                   PROVE  /\ k < gap => e[k] = nsize - 1 - k /\ e[k] \in osize..nsize - 1
                          /\ ~(k < gap) => e[k] = c[k - gap] /\ k - gap \in 0..m
      OBVIOUS
    <3>2. e[k] = IF k < gap THEN nsize - 1 - k ELSE c[k - gap]
      OBVIOUS
    <3> HIDE DEF e
    <3>3. k \in Nat /\ k <= m + gap
      BY <1>g
    <3>4. ASSUME k < gap PROVE nsize - 1 - k \in osize..nsize - 1
      BY <3>3, <3>4, <1>g, <1>s
    <3>5. ASSUME ~(k < gap) PROVE k - gap \in 0..m
      BY <3>3, <3>5, <1>g
    <3> QED BY <3>2, <3>4, <3>5
  <2>2. e \in [0..m + gap -> 0..Len(d.slot)] /\ e[0] = d.next /\ e[m + gap] = 0
    <3>1. ASSUME NEW k \in 0..m + gap PROVE e[k] \in 0..Len(d.slot)
      <4>1. CASE k < gap
        BY <4>1, <2>a, <1>5, <1>s
      <4>2. CASE ~(k < gap)
        <5>1. c[k - gap] \in 0..Len(dn.slot)
          BY <4>2, <2>a, <2>1
        <5> QED BY <4>2, <5>1, <2>a, <1>5, <1>s, <1>g
      <4> QED BY <4>1, <4>2
    <3>2. e[0] = d.next
      BY <2>a, <1>g, <1>6
    <3>3. e[m + gap] = 0
      <4>1. m + gap \in 0..m + gap /\ ~(m + gap < gap) /\ (m + gap) - gap = m
        BY <1>g
      <4> QED BY <4>1, <2>a, <2>1
    <3> QED BY <3>1, <3>2, <3>3
  <2> HIDE DEF e
  <2>3. ASSUME NEW k \in 0..(m + gap) - 1
        PROVE  e[k] \in FreeSlots(d) /\ d.slot[e[k]].next = e[k + 1]
    <3>0. k \in 0..m + gap /\ k + 1 \in 0..m + gap
      BY <1>g
    <3>1. CASE k < gap
      <4>1. e[k] = nsize - 1 - k /\ e[k] \in osize..nsize - 1
        BY <3>0, <3>1, <2>a
      <4>2. d.slot[e[k]] = fresh(e[k])
        BY <4>1, <1>5, <1>s
      <4>3. d.slot[e[k]].next = IF e[k] = osize THEN dn.next ELSE e[k] - 1
        BY <4>1, <4>2, <1>w
      <4>4. CASE k + 1 < gap
        <5>1. e[k + 1] = nsize - 1 - (k + 1) /\ e[k] # osize
          BY <3>0, <4>1, <4>4, <2>a, <1>g, <1>s
        <5> QED BY <5>1, <4>1, <4>3, <1>7, <1>s
      <4>5. CASE ~(k + 1 < gap)
        <5>0. k + 1 = gap
          BY <3>0, <3>1, <4>5, <1>g
        <5>1. e[k] = osize /\ (k + 1) - gap = 0
          BY <4>1, <5>0, <1>g, <1>s
        <5>2. e[k + 1] = dn.next
          BY <5>1, <3>0, <4>5, <2>a, <2>1
        <5> QED BY <5>1, <5>2, <4>1, <4>3, <1>7
      <4> QED BY <4>4, <4>5
    <3>2. CASE ~(k < gap)
      <4>1. /\ e[k] = c[k - gap] /\ e[k + 1] = c[(k + 1) - gap] /\ k - gap \in 0..m - 1
            /\ (k + 1) - gap = (k - gap) + 1
        BY <3>0, <3>2, <2>a, <1>g, SMTT(30)
      <4>2. e[k] \in FreeSlots(dn) /\ dn.slot[e[k]].next = e[k + 1]
        <5>1. c[k - gap] \in FreeSlots(dn) /\ dn.slot[c[k - gap]].next = c[(k - gap) + 1]
          BY <4>1, <1>2 DEF IsChain
        <5> QED BY <5>1, <4>1
      <4>3. e[k] \in 1..osize - 1
        BY <4>2, <1>r
      <4>4. d.slot[e[k]] = dn.slot[e[k]]
        BY <4>3, <1>5, <1>s, SMTT(30)
      <4> QED BY <4>2, <4>4, <1>7
    <3> QED BY <3>1, <3>2
  <2>4. \A a, b \in 0..(m + gap) - 1 : e[a] = e[b] => a = b
    <3>1. SUFFICES ASSUME NEW a \in 0..(m + gap) - 1, NEW b \in 0..(m + gap) - 1, e[a] = e[b]
                   PROVE  a = b
      OBVIOUS
    <3>2. \A k \in 0..(m + gap) - 1 :
            /\ k < gap => e[k] = nsize - 1 - k /\ e[k] \in osize..nsize - 1
            /\ ~(k < gap) => /\ e[k] = c[k - gap] /\ k - gap \in 0..m - 1
                             /\ e[k] \in 1..osize - 1
      <4>1. SUFFICES ASSUME NEW k \in 0..(m + gap) - 1
                     PROVE  /\ k < gap => e[k] = nsize - 1 - k /\ e[k] \in osize..nsize - 1
                            /\ ~(k < gap) => /\ e[k] = c[k - gap] /\ k - gap \in 0..m - 1
                                             /\ e[k] \in 1..osize - 1
        OBVIOUS
      <4>2. k \in 0..m + gap
        BY <1>g
      <4>3. ASSUME ~(k < gap) PROVE k - gap \in 0..m - 1 /\ c[k - gap] \in FreeSlots(dn)
        <5>1. k - gap \in 0..m - 1
          BY <4>3, <1>g, SMTT(30)
        <5> QED BY <5>1, <1>2 DEF IsChain
      <4> QED BY <4>2, <4>3, <2>a, <1>r
    <3>3. CASE a < gap /\ b < gap
      BY <3>1, <3>2, <3>3, <1>g
    <3>4. CASE ~(a < gap) /\ ~(b < gap)
      <4>1. a - gap \in 0..m - 1 /\ b - gap \in 0..m - 1 /\ c[a - gap] = c[b - gap]
        BY <3>1, <3>2, <3>4
      <4>2. a - gap = b - gap
        BY <4>1, <1>2 DEF IsChain
      <4> QED BY <4>2, <1>g
    <3>5. CASE (a < gap) # (b < gap)
      BY <3>1, <3>2, <3>5, <1>s, SMTT(30)
    <3> QED BY <3>3, <3>4, <3>5
  <2>5. \A j \in FreeSlots(d) : \E k \in 0..(m + gap) - 1 : e[k] = j
    <3>1. SUFFICES ASSUME NEW j \in FreeSlots(d)
                   PROVE  \E k \in 0..(m + gap) - 1 : e[k] = j
      OBVIOUS
    <3>2. CASE j \in osize..nsize - 1
      <4>1. nsize - 1 - j \in 0..(m + gap) - 1 /\ nsize - 1 - j \in 0..m + gap
            /\ nsize - 1 - j < gap /\ nsize - 1 - (nsize - 1 - j) = j
        BY <3>2, <1>g, <1>s
      <4>2. e[nsize - 1 - j] = j
        BY <4>1, <2>a
      <4> QED BY <4>1, <4>2
    <3>3. CASE j \in FreeSlots(dn)
      <4>1. PICK k \in 0..m - 1 : c[k] = j
        BY <3>3, <1>2 DEF IsChain
      <4>2. /\ k + gap \in 0..(m + gap) - 1 /\ k + gap \in 0..m + gap /\ ~(k + gap < gap)
            /\ (k + gap) - gap = k
        BY <1>g
      <4>3. e[k + gap] = j
        BY <4>1, <4>2, <2>a
      <4> QED BY <4>2, <4>3
    <3> QED BY <3>1, <3>2, <3>3, <1>7
  <2>6. IsChain(d, m + gap, e)
    BY <2>2, <2>3, <2>4, <2>5, <1>6 DEF IsChain
  <2> QED BY <2>6 DEF e
<1>9. Chained(d)
  <2>1. m + gap \in Nat
    BY <1>g
  <2> QED BY <2>1, <1>8 DEF Chained
<1>e. ASSUME NEW j \in DOMAIN d.slot
      PROVE  /\ d.slot[j].name = NoPort <=> d.slot[j].right = NoPort
             /\ d.slot[j].right # NoPort =>
                  j \in DOMAIN dn.slot /\ d.slot[j].right = dn.slot[j].right
  <2>1. j \in 1..nsize - 1
    BY <1>5
  <2>2. CASE j < osize
    <3>1. j \in DOMAIN dn.slot /\ d.slot[j] = dn.slot[j]
      BY <2>1, <2>2, <1>5, <1>g, <1>s
    <3> QED BY <3>1 DEF TableOK
  <2>3. CASE ~(j < osize)
    <3>1. j \in osize..nsize - 1 /\ d.slot[j] = fresh(j)
      BY <2>1, <2>3, <1>5, <1>s
    <3> QED BY <3>1, <1>w
  <2> QED BY <2>2, <2>3
<1>11. TableOK(d)
  <2>1. d.its \in 0..Len(DnSizes) - 1 /\ Len(d.slot) = SizeAt(d.its) - 1
    BY <1>5, <1>6, <1>s
  <2>2. \A j \in DOMAIN d.slot : d.slot[j].name = NoPort <=> d.slot[j].right = NoPort
    BY <1>e
  <2> QED BY <2>1, <2>2, <1>d, <1>9 DEF TableOK
<1>12. Len(d.slot) > Len(dn.slot)
  BY <1>5, <1>s, <1>g
<1>13. \A j \in DOMAIN d.slot : d.slot[j].right # NoPort =>
                               j \in DOMAIN dn.slot /\ d.slot[j].right = dn.slot[j].right
  BY <1>e
<1> QED BY <1>11, <1>12, <1>13 DEF d

-----------------------------------------------------------------------------
(* The list of free slots, followed from its head.                           *)

LEMMA LeastElement ==
  ASSUME NEW T \in SUBSET Nat, T # {}
  PROVE  \E x \in T : \A y \in T : x <= y
<1>1. PICK x \in T : \A y \in T : ~(<<y, x>> \in OpToRel(<, Nat))
  BY NatLessThanWellFounded, WFMin
<1>2. \A y \in T : ~(y < x)
  BY <1>1 DEF OpToRel
<1> QED BY <1>2

\* The equation that defines FreeChain.
FollowsList(f, dn) ==
  f = [n \in 0..Len(dn.slot) |->
         IF n = 0 THEN dn.next ELSE IF f[n - 1] = 0 THEN 0 ELSE dn.slot[f[n - 1]].next]

\* The chain of the invariant, followed by zeros, solves the equation.
LEMMA ChainFollows ==
  ASSUME NEW dn, dn \in Tables, NEW m \in Nat, NEW c, IsChain(dn, m, c)
  PROVE  FollowsList([n \in 0..Len(dn.slot) |-> IF n <= m THEN c[n] ELSE 0], dn)
<1> DEFINE N == Len(dn.slot)
           f == [n \in 0..N |-> IF n <= m THEN c[n] ELSE 0]
           g == [n \in 0..N |-> IF n = 0 THEN dn.next
                                ELSE IF f[n - 1] = 0 THEN 0 ELSE dn.slot[f[n - 1]].next]
<1>1. N \in Nat /\ DOMAIN dn.slot = 1..N
  BY DEF Tables
<1>2. c \in [0..m -> 0..N] /\ c[0] = dn.next /\ c[m] = 0
  BY DEF IsChain
<1>3. \A n \in 0..m - 1 : c[n] # 0 /\ dn.slot[c[n]].next = c[n + 1]
  BY <1>1 DEF IsChain, FreeSlots
<1> HIDE DEF N
<1>f. \A n \in 0..N : f[n] = IF n <= m THEN c[n] ELSE 0
  OBVIOUS
<1>g. \A n \in 0..N : g[n] = IF n = 0 THEN dn.next
                            ELSE IF f[n - 1] = 0 THEN 0 ELSE dn.slot[f[n - 1]].next
  OBVIOUS
<1>h. DOMAIN f = 0..N /\ DOMAIN g = 0..N /\ f = [n \in 0..N |-> f[n]]
      /\ g = [n \in 0..N |-> g[n]]
  OBVIOUS
<1> HIDE DEF f, g
<1>4. ASSUME NEW n \in 0..N PROVE f[n] = g[n]
  <2>1. CASE n = 0
    BY <2>1, <1>f, <1>g, <1>2, <1>1
  <2>2. CASE n # 0 /\ n <= m
    <3>1. n - 1 \in 0..N /\ n - 1 <= m /\ n - 1 \in 0..m - 1 /\ (n - 1) + 1 = n
      BY <2>2, <1>1
    <3>2. f[n - 1] = c[n - 1] /\ c[n - 1] # 0 /\ dn.slot[c[n - 1]].next = c[n]
      BY <3>1, <1>f, <1>3
    <3> QED BY <2>2, <3>2, <1>f, <1>g
  <2>3. CASE n = m + 1
    <3>1. n - 1 \in 0..N /\ n - 1 = m /\ n # 0 /\ ~(n <= m)
      BY <2>3, <1>1
    <3>2. f[n - 1] = 0
      BY <3>1, <1>f, <1>2
    <3> QED BY <3>1, <3>2, <1>f, <1>g
  <2>4. CASE n > m + 1
    <3>1. n - 1 \in 0..N /\ ~(n - 1 <= m) /\ n # 0 /\ ~(n <= m)
      BY <2>4, <1>1
    <3>2. f[n - 1] = 0
      BY <3>1, <1>f
    <3> QED BY <3>1, <3>2, <1>f, <1>g
  <2> QED BY <2>1, <2>2, <2>3, <2>4, <1>1
<1>5. f = g
  BY <1>4, <1>h
<1> QED BY <1>5 DEF f, g, FollowsList, N

\* Two solutions are the same.
LEMMA ListUnique ==
  ASSUME NEW dn, Len(dn.slot) \in Nat, NEW f, FollowsList(f, dn), NEW g, FollowsList(g, dn)
  PROVE  f = g
<1> DEFINE N == Len(dn.slot)
           B == {n \in 0..N : f[n] # g[n]}
           Next(h, n) == IF n = 0 THEN dn.next
                         ELSE IF h[n - 1] = 0 THEN 0 ELSE dn.slot[h[n - 1]].next
<1>1. N \in Nat /\ f = [n \in 0..N |-> Next(f, n)] /\ g = [n \in 0..N |-> Next(g, n)]
  BY DEF FollowsList
<1> HIDE DEF N
<1>2. \A n \in 0..N : f[n] = Next(f, n) /\ g[n] = Next(g, n)
  <2> HIDE DEF Next
  <2>1. \A n \in 0..N : [k \in 0..N |-> Next(f, k)][n] = Next(f, n)
                        /\ [k \in 0..N |-> Next(g, k)][n] = Next(g, n)
    OBVIOUS
  <2> QED BY <1>1, <2>1, Zenon
<1>3. B = {}
  <2> SUFFICES ASSUME B # {} PROVE FALSE
    OBVIOUS
  <2>1. B \in SUBSET Nat
    OBVIOUS
  <2>2. PICK n \in B : \A k \in B : n <= k
    <3> HIDE DEF B
    <3> QED BY <2>1, LeastElement
  <2>3. n \in 0..N /\ f[n] # g[n]
    OBVIOUS
  <2>4. n # 0
    BY <2>3, <1>2
  <2>5. n - 1 \in 0..N /\ n - 1 \notin B
    <3> HIDE DEF B, Next
    <3>1. N \in Nat
      BY <1>1
    <3>2. n \in 0..N
      BY <2>3
    <3>3. n - 1 \in 0..N /\ ~(n <= n - 1)
      BY <2>4, <3>1, <3>2
    <3> QED BY <2>2, <3>3
  <2>6. f[n - 1] = g[n - 1]
    BY <2>5
  <2> QED BY <2>3, <2>4, <2>6, <1>2
<1>4. \A n \in 0..N : f[n] = g[n]
  BY <1>3
<1>5. f = [n \in 0..N |-> f[n]] /\ g = [n \in 0..N |-> g[n]]
  <2> HIDE DEF Next
  <2> QED BY <1>1
<1> QED BY <1>4, <1>5

\* The list of a table runs through exactly its free slots.
LEMMA FreeListExact ==
  ASSUME NEW dn, TableOK(dn)
  PROVE  /\ {FreeChain(dn)[n] : n \in DOMAIN FreeChain(dn)} \ {0} = FreeSlots(dn)
         /\ FreeChain(dn)[Cardinality(FreeSlots(dn))] = 0
<1> DEFINE N == Len(dn.slot)
           F == FreeSlots(dn)
<1>1. PICK m \in Nat : \E c : IsChain(dn, m, c)
  BY DEF TableOK, Chained
<1>2. PICK c : IsChain(dn, m, c)
  BY <1>1
<1>t. dn \in Tables /\ N \in Nat /\ DOMAIN dn.slot = 1..N
  BY DEF TableOK, Tables
<1> DEFINE f == [n \in 0..N |-> IF n <= m THEN c[n] ELSE 0]
<1>3. FollowsList(f, dn)
  BY <1>2, <1>t, ChainFollows
<1>4. FreeChain(dn) = f
  <2> DEFINE h == CHOOSE x : FollowsList(x, dn)
  <2>1. FollowsList(h, dn)
    BY <1>3
  <2>2. FreeChain(dn) = h
    BY DEF FreeChain, FollowsList
  <2> HIDE DEF h, f
  <2> QED BY <2>1, <2>2, <1>3, <1>t, ListUnique
<1>5. Cardinality(F) = m /\ m <= N
  <2> DEFINE b == [n \in 0..m - 1 |-> c[n]]
  <2>1. b \in Bijection(0..m - 1, F)
    <3>1. \A n \in 0..m - 1 : c[n] \in F
      BY <1>2 DEF IsChain
    <3>2. \A n, k \in 0..m - 1 : c[n] = c[k] => n = k
      BY <1>2 DEF IsChain
    <3>3. \A i \in F : \E n \in 0..m - 1 : c[n] = i
      BY <1>2 DEF IsChain
    <3> HIDE DEF F
    <3>4. b \in [0..m - 1 -> F] /\ DOMAIN b = 0..m - 1 /\ \A n \in 0..m - 1 : b[n] = c[n]
      BY <3>1
    <3> HIDE DEF b
    <3>5. IsInjective(b)
      BY <3>2, <3>4 DEF IsInjective
    <3>6. \A i \in F : \E n \in 0..m - 1 : b[n] = i
      BY <3>3, <3>4
    <3> QED BY <3>4, <3>5, <3>6 DEF Bijection, Injection, Surjection
  <2>2. IsFiniteSet(0..m - 1) /\ Cardinality(0..m - 1) = m
    <3>1. 0 \in Int /\ m - 1 \in Int
      OBVIOUS
    <3>2. Cardinality(0..m - 1) = IF 0 > m - 1 THEN 0 ELSE (m - 1) - 0 + 1
      BY <3>1, FS_Interval
    <3> QED BY <3>1, <3>2, FS_Interval
  <2>3. ExistsBijection(0..m - 1, F)
    BY <2>1 DEF ExistsBijection
  <2>4. Cardinality(F) = m /\ IsFiniteSet(F)
    BY <2>2, <2>3, FS_Bijection
  <2>5. F \subseteq 1..N
    BY <1>t DEF FreeSlots
  <2>6. IsFiniteSet(1..N) /\ Cardinality(1..N) = N
    <3>1. 1 \in Int /\ N \in Int
      BY <1>t
    <3>2. Cardinality(1..N) = IF 1 > N THEN 0 ELSE N - 1 + 1
      BY <3>1, FS_Interval
    <3> QED BY <3>1, <3>2, <1>t, FS_Interval
  <2>7. Cardinality(F) <= Cardinality(1..N)
    BY <2>5, <2>6, FS_Subset
  <2> QED BY <2>4, <2>6, <2>7
<1>6. c[m] = 0 /\ \A n \in 0..m - 1 : c[n] \in F /\ c[n] # 0
  BY <1>2, <1>t DEF IsChain, FreeSlots
<1>7. \A i \in F : \E n \in 0..m - 1 : c[n] = i
  BY <1>2 DEF IsChain
<1>8. DOMAIN f = 0..N /\ \A n \in 0..N : f[n] = IF n <= m THEN c[n] ELSE 0
  OBVIOUS
<1> HIDE DEF f, N, F
<1>9. \A n \in 0..N : f[n] \in F \cup {0}
  <2>1. SUFFICES ASSUME NEW n \in 0..N PROVE f[n] \in F \cup {0}
    OBVIOUS
  <2>2. n \in 0..m - 1 \/ n = m \/ ~(n <= m)
    BY <1>t
  <2> QED BY <2>2, <1>6, <1>8
<1>10. \A i \in F : i # 0 /\ \E n \in 0..N : f[n] = i
  <2>1. SUFFICES ASSUME NEW i \in F PROVE i # 0 /\ \E n \in 0..N : f[n] = i
    OBVIOUS
  <2>2. PICK n \in 0..m - 1 : c[n] = i
    BY <1>7
  <2>3. n \in 0..N /\ n <= m
    BY <1>5, <1>t
  <2> QED BY <2>2, <2>3, <1>6, <1>8
<1>11. f[m] = 0
  BY <1>5, <1>6, <1>8, <1>t
<1>12. {f[n] : n \in 0..N} \ {0} = F
  BY <1>9, <1>10
<1> QED BY <1>4, <1>5, <1>8, <1>11, <1>12 DEF F

-----------------------------------------------------------------------------
(* What a step may do to one port.                                           *)

\* The new record keeps requests at most: it registers none.
Fades(old, new) ==
  \A i \in RequestPlaces(new) : RightAt(new, i) # NoPort =>
     i \in RequestPlaces(old) /\ RightAt(old, i) = RightAt(new, i)

LEMMA RequestsFade ==
  ASSUME NEW ps \in [Ports -> PortRecords], NEW p \in Ports, NEW r, Fades(ps[p], r),
         NEW qs, qs = [ps EXCEPT ![p] = r], NEW x \in Ports
  PROVE  RequestsFor(qs, x) \subseteq RequestsFor(ps, x)
<1>1. SUFFICES ASSUME NEW z \in RequestsFor(qs, x) PROVE z \in RequestsFor(ps, x)
  OBVIOUS
<1>2. PICK q \in Ports : \E i \in RequestPlaces(qs[q]) : z = <<q, i>> /\ RightAt(qs[q], i) = x
  BY <1>1 DEF RequestsFor
<1>3. PICK i \in RequestPlaces(qs[q]) : z = <<q, i>> /\ RightAt(qs[q], i) = x
  BY <1>2
<1>4. x # NoPort
  BY Mach4PortAssumption
<1>5. i \in RequestPlaces(ps[q]) /\ RightAt(ps[q], i) = x
  <2>1. CASE q = p
    BY <2>1, <1>3, <1>4 DEF Fades
  <2>2. CASE q # p
    BY <2>2, <1>3
  <2> QED BY <2>1, <2>2
<1> QED BY <1>3, <1>5, InRequests

\* Fewer pointers keep a balanced account balanced.
LEMMA StillBalanced ==
  ASSUME NEW r \in PortRecords, NEW n \in Rights,
         NEW a \in Nat, NEW b \in Nat, NEW c \in Nat, Balanced(r, n, a, b, c),
         NEW d \in Nat, NEW e \in Nat, NEW f \in Nat, d <= a, e <= b, f <= c
  PROVE  Balanced(r, n, d, e, f)
BY DEF Balanced, Held, Living, PortRecords, Rights

\* The threads that grow other tables than that of p go on, or are done.
OthersGrow(gs, hs, p) ==
  \A x \in Ports : x # p => GrowingOn(hs, x) \subseteq GrowingOn(gs, x)

\* The step of one port that registers no request, sends no port and keeps
\* its account: the others have at most fewer pointers to them.
LEMMA PortStep ==
  ASSUME NEW ps, NEW nk, NEW gs, Shaped(ps, nk, gs), \A x \in Ports : Counted(ps, nk, gs, x),
         NEW p \in Ports, NEW r, RecordOK(r), Fades(ps[p], r), r.dest \in {NoPort, ps[p].dest},
         NEW n \in Rights, NEW hs \in [Growers -> Growths],
         OthersGrow(gs, hs, p), IsFiniteSet(GrowingOn(hs, p)),
         Balanced(r, n, Cardinality(RequestsFor(ps, p)), Cardinality(SentTo(ps, p)),
                  Cardinality(GrowingOn(hs, p))),
         NEW qs, qs = [ps EXCEPT ![p] = r], NEW mk, mk = [nk EXCEPT ![p] = n]
  PROVE  Shaped(qs, mk, hs) /\ \A x \in Ports : Counted(qs, mk, hs, x)
<1>1. /\ ps \in [Ports -> PortRecords] /\ nk \in [Ports -> Rights]
      /\ \A x \in Ports : RecordOK(ps[x])
  BY DEF Shaped
<1>2. r \in PortRecords
  BY DEF RecordOK
<1>3. Shaped(qs, mk, hs)
  BY <1>1, <1>2 DEF Shaped
<1>4. ASSUME NEW x \in Ports PROVE Counted(qs, mk, hs, x)
  <2>1. RequestsFor(qs, x) \subseteq RequestsFor(ps, x)
    BY <1>1, RequestsFade
  <2>2. SentTo(qs, x) \subseteq SentTo(ps, x)
    BY <1>1, Mach4PortAssumption DEF SentTo
  <2>3. /\ IsFiniteSet(RequestsFor(ps, x)) /\ IsFiniteSet(SentTo(ps, x))
        /\ IsFiniteSet(GrowingOn(gs, x)) /\ IsFiniteSet(GrowingOn(hs, x))
        /\ x # p => GrowingOn(hs, x) \subseteq GrowingOn(gs, x)
    <3>1. Finite(ps, gs, x)
      BY DEF Counted
    <3> QED BY <3>1, FS_Subset DEF Finite, OthersGrow
  <2> DEFINE a == Cardinality(RequestsFor(ps, x))
             b == Cardinality(SentTo(ps, x))
             c == Cardinality(GrowingOn(IF x = p THEN hs ELSE gs, x))
             d == Cardinality(RequestsFor(qs, x))
             e == Cardinality(SentTo(qs, x))
             f == Cardinality(GrowingOn(hs, x))
  <2>4. /\ IsFiniteSet(RequestsFor(qs, x)) /\ a \in Nat /\ d \in Nat /\ d <= a
        /\ IsFiniteSet(SentTo(qs, x)) /\ b \in Nat /\ e \in Nat /\ e <= b
        /\ c \in Nat /\ f \in Nat /\ f <= c
    <3>1. IsFiniteSet(RequestsFor(qs, x)) /\ a \in Nat /\ d \in Nat /\ d <= a
      BY <2>1, <2>3, SomeLeave
    <3>2. IsFiniteSet(SentTo(qs, x)) /\ b \in Nat /\ e \in Nat /\ e <= b
      BY <2>2, <2>3, SomeLeave
    <3>3. c \in Nat /\ f \in Nat /\ f <= c
      <4>1. CASE x = p
        BY <4>1, <2>3, FS_CardinalityType
      <4>2. CASE x # p
        BY <4>2, <2>3, SomeLeave
      <4> QED BY <4>1, <4>2
    <3> QED BY <3>1, <3>2, <3>3
  <2>5. qs[x] \in PortRecords /\ mk[x] \in Rights
    BY <1>1, <1>2
  <2>6. Balanced(qs[x], mk[x], a, b, c)
    <3>1. CASE x = p
      <4>1. qs[x] = r /\ mk[x] = n
        BY <3>1, <1>1
      <4> QED BY <4>1, <3>1
    <3>2. CASE x # p
      <4>1. qs[x] = ps[x] /\ mk[x] = nk[x]
        BY <3>2, <1>1
      <4> QED BY <4>1, <3>2 DEF Counted
    <3> QED BY <3>1, <3>2
  <2> HIDE DEF a, b, c, d, e, f
  <2>7. Balanced(qs[x], mk[x], d, e, f)
    BY <2>4, <2>5, <2>6, StillBalanced
  <2> QED BY <2>3, <2>4, <2>7 DEF Counted, Finite, d, e, f
<1> QED BY <1>3, <1>4

\* What the invariant says of one port.
LEMMA PortFacts ==
  ASSUME M4Inv, NEW p \in Ports
  PROVE  /\ port \in [Ports -> PortRecords] /\ naked \in [Ports -> Rights]
         /\ port[p] \in PortRecords /\ naked[p] \in Rights /\ RecordOK(port[p])
         /\ Cardinality(RequestsFor(port, p)) \in Nat /\ Cardinality(SentTo(port, p)) \in Nat
         /\ Cardinality(GrowingOn(growing, p)) \in Nat
         /\ Balanced(port[p], naked[p], Cardinality(RequestsFor(port, p)),
                     Cardinality(SentTo(port, p)), Cardinality(GrowingOn(growing, p)))
BY FS_CardinalityType DEF M4Inv, Shaped, Counted, Finite

\* A step that leaves the threads in ipc_port_dngrow alone.
LEMMA QuietStep ==
  ASSUME M4Inv, NEW p \in Ports, NEW r, RecordOK(r), Fades(port[p], r),
         r.dest \in {NoPort, port[p].dest}, NEW n \in Rights,
         Balanced(r, n, Cardinality(RequestsFor(port, p)), Cardinality(SentTo(port, p)),
                  Cardinality(GrowingOn(growing, p))),
         Set(p, r), naked' = [naked EXCEPT ![p] = n], growing' = growing
  PROVE  M4Inv'
<1>1. /\ Shaped(port, naked, growing) /\ \A x \in Ports : Counted(port, naked, growing, x)
      /\ growing \in [Growers -> Growths] /\ IsFiniteSet(GrowingOn(growing, p))
  BY DEF M4Inv, Shaped, Counted, Finite
<1>2. port' = [port EXCEPT ![p] = r]
  BY DEF Set
<1>3. Shaped(port', naked', growing) /\ \A x \in Ports : Counted(port', naked', growing, x)
  BY <1>1, <1>2, PortStep DEF OthersGrow
<1> QED BY <1>3 DEF M4Inv

\* A record with the same table, and no other requests in its header.
LEMMA HeaderFades ==
  ASSUME NEW old, NEW r, r.dn = old.dn, r.ns \in {NoPort, old.ns}, r.pd \in {NoPort, old.pd}
  PROVE  Fades(old, r)
BY DEF Fades, RequestPlaces, RightAt

\* A step that leaves the callers' rights alone too.
LEMMA OwnStep ==
  ASSUME M4Inv, NEW p \in Ports, NEW r, RecordOK(r), Fades(port[p], r),
         r.dest \in {NoPort, port[p].dest},
         Balanced(r, naked[p], Cardinality(RequestsFor(port, p)), Cardinality(SentTo(port, p)),
                  Cardinality(GrowingOn(growing, p))),
         Set(p, r), UNCHANGED <<naked, growing>>
  PROVE  M4Inv'
<1>1. naked[p] \in Rights /\ naked' = [naked EXCEPT ![p] = naked[p]]
  BY PortFacts
<1> QED BY <1>1, QuietStep

LEMMA NothingLeft ==
  ASSUME NEW x \in Nat, NEW y \in Nat, NEW z \in Nat, NEW a \in Nat, NEW b \in Nat,
         NEW c \in Nat, x + y + z + a + b + c = 0
  PROVE  x = 0 /\ y = 0 /\ a = 0 /\ b = 0 /\ c = 0
OBVIOUS

LEMMA AllocKeeps ==
  ASSUME M4Inv, NEW p \in Ports, ipc_port_alloc(p)
  PROVE  M4Inv'
<1> DEFINE r == ipc_port_init(p)
<1>1. Set(p, r) /\ UNCHANGED <<naked, growing>> /\ port[p].st = "free"
  BY DEF ipc_port_alloc, Exists
<1>2. RecordOK(r)
  <2>1. QDefault \in Nat /\ NoTable \in Tables
    BY NoTableOK, Mach4PortAssumption
  <2>2. Unallocated \in PortRecords
    BY <2>1 DEF Unallocated, PortRecords, PortOrNull
  <2>3. r \in PortRecords
    BY <2>1, <2>2 DEF ipc_port_init, PortRecords
  <2> QED BY <2>3, NoTableOK DEF ipc_port_init, Unallocated, RecordOK
<1>3. Fades(port[p], r) /\ r.dest = NoPort
  BY DEF ipc_port_init, Unallocated, Fades, RequestPlaces, RightAt, NoTable
<1>4. Balanced(r, naked[p], Cardinality(RequestsFor(port, p)), Cardinality(SentTo(port, p)),
               Cardinality(GrowingOn(growing, p)))
  <2>1. /\ naked[p] \in Rights /\ port[p] \in PortRecords
        /\ Held(port[p], naked[p], Cardinality(RequestsFor(port, p)),
                Cardinality(SentTo(port, p)), Cardinality(GrowingOn(growing, p))) = 0
    BY <1>1, PortFacts DEF Balanced
  <2>2. /\ r.st = "active" /\ r.refs = 1 /\ r.msgs = 0 /\ r.s = 0 /\ r.so = 0
    BY DEF ipc_port_init, Unallocated
  <2> HIDE DEF r
  <2>3. /\ naked[p].s = 0 /\ naked[p].so = 0 /\ Cardinality(RequestsFor(port, p)) = 0
        /\ Cardinality(SentTo(port, p)) = 0 /\ Cardinality(GrowingOn(growing, p)) = 0
    <3> DEFINE a == Cardinality(RequestsFor(port, p))
               b == Cardinality(SentTo(port, p))
               c == Cardinality(GrowingOn(growing, p))
    <3>1. /\ naked[p].s \in Nat /\ naked[p].so \in Nat /\ port[p].msgs \in Nat
          /\ Living(port[p]) = 0 /\ a \in Nat /\ b \in Nat /\ c \in Nat
      BY <1>1, <2>1, PortFacts DEF Living, Rights, PortRecords
    <3>2. naked[p].s + naked[p].so + port[p].msgs + Living(port[p]) + a + b + c = 0
      BY <2>1 DEF Held
    <3>3. naked[p].s = 0 /\ naked[p].so = 0 /\ a = 0 /\ b = 0 /\ c = 0
      <4> HIDE DEF a, b, c
      <4>1. PICK x \in Nat, y \in Nat, z \in Nat :
                 x = naked[p].s /\ y = naked[p].so /\ z = port[p].msgs
        BY <3>1
      <4>2. x + y + z + a + b + c = 0
        BY <3>1, <3>2, <4>1
      <4>3. x = 0 /\ y = 0 /\ a = 0 /\ b = 0 /\ c = 0
        BY <3>1, <4>2, NothingLeft
      <4> QED BY <4>1, <4>3
    <3> HIDE DEF a, b, c
    <3> QED BY <3>3 DEF a, b, c
  <2> QED BY <2>2, <2>3 DEF Balanced, Held, Living
<1> HIDE DEF r
<1> QED BY <1>1, <1>2, <1>3, <1>4, OwnStep

LEMMA MakeSendKeeps ==
  ASSUME M4Inv, NEW p \in Ports, ipc_port_make_send(p) \/ ipc_port_copy_send(p)
  PROVE  M4Inv'
<1> DEFINE old == port[p]
           n == [naked[p] EXCEPT !.s = @ + 1]
<1>1. old \in PortRecords /\ naked[p] \in Rights /\ naked \in [Ports -> Rights]
  BY PortFacts
<1>2. PICK r :
        /\ Set(p, r) /\ growing' = growing /\ naked' = [naked EXCEPT ![p].s = @ + 1]
        /\ \/ r = [old EXCEPT !.ms = @ + 1, !.s = @ + 1, !.refs = @ + 1]
           \/ r = [old EXCEPT !.s = @ + 1, !.refs = @ + 1]
  BY DEF ipc_port_make_send, ipc_port_copy_send
<1>3. old.st = "active"
  BY DEF ipc_port_make_send, ipc_port_copy_send, Active
<1>4. /\ r \in PortRecords /\ r.st = "active" /\ r.s = old.s + 1 /\ r.refs = old.refs + 1
      /\ r.so = old.so /\ r.msgs = old.msgs /\ r.dn = old.dn /\ r.dest = old.dest
      /\ r.ns = old.ns /\ r.pd = old.pd /\ r.inSpace = old.inSpace /\ r.rcv = old.rcv
  <2> HIDE DEF old
  <2> DEFINE refs == old.refs + 1
             s == old.s + 1
  <2>1. PICK ms \in Nat : r = [old EXCEPT !.ms = ms, !.s = s, !.refs = refs]
    <3>1. old.ms \in Nat /\ old.ms + 1 \in Nat
      BY <1>1 DEF PortRecords
    <3>2. CASE r = [old EXCEPT !.ms = @ + 1, !.s = @ + 1, !.refs = @ + 1]
      BY <3>1, <3>2
    <3>3. CASE r = [old EXCEPT !.s = @ + 1, !.refs = @ + 1]
      <4>1. r = [old EXCEPT !.ms = old.ms, !.s = s, !.refs = refs]
        BY <1>1, <3>3 DEF PortRecords
      <4> QED BY <3>1, <4>1
    <3> QED BY <1>2, <3>2, <3>3
  <2>2. refs \in Nat /\ s \in Nat
    BY <1>1 DEF PortRecords
  <2> HIDE DEF refs, s
  <2>3. r \in PortRecords
    BY <1>1, <2>1, <2>2 DEF PortRecords
  <2>4. r.s = s /\ r.refs = refs
    BY <1>1, <2>1 DEF PortRecords
  <2>5. /\ r.so = old.so /\ r.msgs = old.msgs /\ r.dn = old.dn /\ r.dest = old.dest
        /\ r.ns = old.ns /\ r.pd = old.pd /\ r.inSpace = old.inSpace /\ r.rcv = old.rcv
        /\ r.st = old.st
    BY <1>1, <2>1 DEF PortRecords
  <2> QED BY <1>3, <2>3, <2>4, <2>5 DEF refs, s
<1>5. RecordOK(r)
  BY <1>1, <1>4, PortFacts DEF RecordOK, PortRecords
<1>6. n \in Rights /\ naked' = [naked EXCEPT ![p] = n] /\ n.s = naked[p].s + 1 /\ n.so = naked[p].so
  BY <1>1, <1>2 DEF Rights
<1>7. Fades(port[p], r)
  BY <1>4, HeaderFades
<1>8. Balanced(r, n, Cardinality(RequestsFor(port, p)), Cardinality(SentTo(port, p)),
               Cardinality(GrowingOn(growing, p)))
  <2> HIDE DEF n
  <2> QED BY <1>1, <1>3, <1>4, <1>6, PortFacts DEF Balanced, Held, Living, Rights, PortRecords
<1> HIDE DEF n, old
<1> QED BY <1>2, <1>4, <1>5, <1>6, <1>7, <1>8, QuietStep DEF old

\* An element that nothing points to goes back to the zone empty.
LEMMA CheckedOK ==
  ASSUME NEW old \in PortRecords, NEW r, RecordOK(r), Fades(old, r), r.st # "free",
         r.dest \in {NoPort, old.dest}, NEW n \in Rights, NEW a \in Nat, NEW b \in Nat,
         NEW c \in Nat, Balanced(r, n, a, b, c)
  PROVE  /\ RecordOK(CheckUnlock(r)) /\ Fades(old, CheckUnlock(r))
         /\ CheckUnlock(r).dest \in {NoPort, old.dest}
         /\ Balanced(CheckUnlock(r), n, a, b, c)
<1>1. CASE r.refs # 0
  BY <1>1 DEF CheckUnlock
<1>2. CASE r.refs = 0
  <2>1. CheckUnlock(r) = Unallocated
    BY <1>2 DEF CheckUnlock
  <2>2. Unallocated \in PortRecords
    BY NoTableOK, Mach4PortAssumption DEF Unallocated, PortRecords, PortOrNull
  <2>3. RecordOK(Unallocated)
    BY <2>2, NoTableOK DEF Unallocated, RecordOK
  <2>4. Fades(old, Unallocated) /\ Unallocated.dest = NoPort
    BY DEF Unallocated, Fades, RequestPlaces, RightAt, NoTable
  <2>5. Balanced(Unallocated, n, a, b, c)
    <3>1. /\ Unallocated.st = "free" /\ Unallocated.msgs = 0 /\ Unallocated.so = 0
          /\ Unallocated.refs = 0
      BY DEF Unallocated
    <3>2. PICK x \in Nat, y \in Nat, z \in Nat, l \in {0, 1} :
             x = n.s /\ y = n.so /\ z = r.msgs /\ l = Living(r)
      BY DEF Rights, RecordOK, PortRecords, Living
    <3>3. x + y + z + l + a + b + c <= 0
      BY <1>2, <3>2 DEF Balanced, Held
    <3>4. x = 0 /\ y = 0 /\ a = 0 /\ b = 0 /\ c = 0
      BY <3>3
    <3> QED BY <3>1, <3>2, <3>4 DEF Balanced, Held, Living
  <2> QED BY <2>1, <2>3, <2>4, <2>5
<1> QED BY <1>1, <1>2

\* The steps that count a right or a message and keep the port as it is.
LEMMA CountStep ==
  ASSUME M4Inv, NEW p \in Ports, NEW r \in PortRecords, NEW n \in Rights,
         port[p].st # "free", r.st = port[p].st, r.dn = port[p].dn,
         r.dest = port[p].dest, r.pd = port[p].pd, r.inSpace = port[p].inSpace,
         r.ns \in {NoPort, port[p].ns},
         r.st # "active" => r.blocked = 0, ~r.inSpace \/ r.st # "active" => r.rcv = 0,
         r.st = "active" /\ r.ns # NoPort /\ r.s = 0 => r.ms < r.sync,
         r.refs + naked[p].s + naked[p].so + port[p].msgs >=
           port[p].refs + n.s + n.so + r.msgs,
         r.so + naked[p].so >= port[p].so + n.so,
         r.st \in {"active", "dying"} => r.s + naked[p].s = port[p].s + n.s,
         Set(p, r) \/ Set(p, CheckUnlock(r)),
         naked' = [naked EXCEPT ![p] = n], growing' = growing
  PROVE  M4Inv'
<1> DEFINE old == port[p]
           a == Cardinality(RequestsFor(port, p))
           b == Cardinality(SentTo(port, p))
           c == Cardinality(GrowingOn(growing, p))
<1>1. /\ old \in PortRecords /\ naked[p] \in Rights /\ RecordOK(old)
      /\ a \in Nat /\ b \in Nat /\ c \in Nat /\ Balanced(old, naked[p], a, b, c)
  BY PortFacts
<1>2. RecordOK(r)
  BY <1>1 DEF RecordOK
<1>3. Fades(old, r) /\ r.dest \in {NoPort, old.dest}
  BY HeaderFades
<1>4. Balanced(r, n, a, b, c)
  <2>1. PICK x \in Nat, y \in Nat, z \in Nat, l \in Nat, k \in Nat, w \in Nat, v \in Nat :
          /\ x = naked[p].s /\ y = naked[p].so /\ z = old.msgs /\ l = Living(old)
          /\ k = old.refs /\ w = old.so /\ v = old.s
    BY <1>1 DEF Rights, PortRecords, Living
  <2>2. PICK x1 \in Nat, y1 \in Nat, z1 \in Nat, k1 \in Nat, w1 \in Nat, v1 \in Nat :
          /\ x1 = n.s /\ y1 = n.so /\ z1 = r.msgs
          /\ k1 = r.refs /\ w1 = r.so /\ v1 = r.s
    BY DEF Rights, PortRecords
  <2>3. Living(r) = l
    BY <2>1 DEF Living
  <2> HIDE DEF a, b, c
  <2>4. k >= x + y + z + l + a + b + c /\ w >= y + a /\ (old.st \in {"active", "dying"} => v = x)
    BY <1>1, <2>1 DEF Balanced, Held
  <2>5. k1 + x + y + z >= k + x1 + y1 + z1 /\ w1 + y >= w + y1
    BY <2>1, <2>2
  <2>6. k1 >= x1 + y1 + z1 + l + a + b + c /\ w1 >= y1 + a
    BY <1>1, <2>4, <2>5
  <2>7. old.st \in {"active", "dying"} => v1 + x = v + x1
    BY <2>1, <2>2
  <2>8. old.st \in {"active", "dying"} => v1 = x1
    BY <2>4, <2>7
  <2> QED BY <2>2, <2>3, <2>6, <2>8 DEF Balanced, Held
<1>5. CASE Set(p, r)
  <2> HIDE DEF old
  <2> QED BY <1>2, <1>3, <1>4, <1>5, QuietStep DEF old
<1>6. CASE Set(p, CheckUnlock(r))
  <2> DEFINE u == CheckUnlock(r)
  <2> HIDE DEF a, b, c
  <2>1. /\ RecordOK(u) /\ Fades(old, u) /\ u.dest \in {NoPort, old.dest}
        /\ Balanced(u, n, a, b, c)
    BY <1>1, <1>2, <1>3, <1>4, CheckedOK
  <2> HIDE DEF u, old
  <2> QED BY <2>1, <1>6, QuietStep DEF old, u, a, b, c
<1> QED BY <1>5, <1>6

\* A port with a naked right has its element: something points to it.
LEMMA HeldExists ==
  ASSUME M4Inv, NEW p \in Ports, naked[p].s # 0 \/ naked[p].so # 0
  PROVE  /\ port[p].st # "free" /\ port[p].refs - 1 \in Nat
         /\ naked[p].so # 0 => port[p].so - 1 \in Nat
         /\ naked[p].s # 0 /\ port[p].st # "dead" => port[p].s - 1 \in Nat
<1> DEFINE a == Cardinality(RequestsFor(port, p))
           b == Cardinality(SentTo(port, p))
           c == Cardinality(GrowingOn(growing, p))
<1>1. /\ port[p] \in PortRecords /\ naked[p] \in Rights /\ a \in Nat /\ b \in Nat /\ c \in Nat
      /\ Balanced(port[p], naked[p], a, b, c)
  BY PortFacts
<1>2. PICK x \in Nat, y \in Nat, z \in Nat, l \in Nat, k \in Nat, w \in Nat, v \in Nat :
        /\ x = naked[p].s /\ y = naked[p].so /\ z = port[p].msgs /\ l = Living(port[p])
        /\ k = port[p].refs /\ w = port[p].so /\ v = port[p].s
  BY <1>1 DEF Rights, PortRecords, Living
<1> HIDE DEF a, b, c
<1>3. x + y + z + l + a + b + c > 0
  <2>1. x # 0 \/ y # 0
    BY <1>2
  <2>2. x + y > 0 /\ z + l + a + b + c \in Nat
    BY <1>1, <2>1
  <2>3. x + y + z + l + a + b + c = (x + y) + (z + l + a + b + c)
    BY <1>1
  <2> HIDE DEF a, b, c
  <2> QED BY <2>2, <2>3
<1>4. /\ port[p].st # "free" /\ k >= x + y + z + l + a + b + c /\ w >= y + a
      /\ port[p].st # "dead" => v = x
  BY <1>1, <1>2, <1>3 DEF Balanced, Held, PortRecords
<1>5. k > 0 /\ w >= y
  BY <1>1, <1>3, <1>4
<1> QED BY <1>2, <1>4, <1>5

LEMMA ReleaseSendKeeps ==
  ASSUME M4Inv, NEW p \in Ports, ipc_port_release_send(p)
  PROVE  M4Inv'
<1> DEFINE old == port[p]
           refs == old.refs - 1
           n == [naked[p] EXCEPT !.s = @ - 1]
<1>1. old \in PortRecords /\ naked[p] \in Rights /\ RecordOK(old) /\ naked \in [Ports -> Rights]
  BY PortFacts
<1>2. /\ naked[p].s > 0 /\ naked' = [naked EXCEPT ![p] = n] /\ growing' = growing
      /\ n \in Rights /\ n.s = naked[p].s - 1 /\ n.so = naked[p].so
  BY <1>1 DEF ipc_port_release_send, Rights
<1>3. old.st # "free" /\ refs \in Nat /\ (old.st # "dead" => old.s - 1 \in Nat)
  BY <1>1, <1>2, HeldExists
<1>4. CASE old.st = "dead"
  <2> DEFINE r == [old EXCEPT !.refs = refs]
  <2>1. Set(p, CheckUnlock(r))
    BY <1>4 DEF ipc_port_release_send
  <2> HIDE DEF refs
  <2>2. r \in PortRecords
    BY <1>1, <1>3 DEF PortRecords
  <2>3. /\ r.refs = refs /\ r.st = old.st /\ r.dn = old.dn /\ r.dest = old.dest
        /\ r.pd = old.pd /\ r.inSpace = old.inSpace /\ r.ns = old.ns /\ r.blocked = old.blocked
        /\ r.rcv = old.rcv /\ r.msgs = old.msgs /\ r.so = old.so /\ r.s = old.s
    BY <1>1 DEF PortRecords
  <2>4. old.blocked = 0 /\ old.rcv = 0
    BY <1>1, <1>4 DEF RecordOK
  <2>5. /\ refs + naked[p].s + naked[p].so + old.msgs >= old.refs + n.s + n.so + old.msgs
        /\ old.so + naked[p].so >= old.so + n.so
    BY <1>1, <1>2 DEF refs, PortRecords, Rights
  <2> HIDE DEF r, n, old
  <2> QED BY <1>2, <1>3, <1>4, <2>1, <2>2, <2>3, <2>4, <2>5, CountStep DEF old
<1>5. CASE old.st # "dead"
  <2> DEFINE ns == IF old.s = 1 THEN NoPort ELSE old.ns
             s == old.s - 1
             r == [old EXCEPT !.refs = refs, !.s = s, !.ns = ns]
  <2>1. Set(p, r)
    <3>1. [old EXCEPT !.refs = @ - 1].st = old.st /\ [old EXCEPT !.refs = @ - 1].s = old.s
      BY <1>1 DEF PortRecords
    <3>2. Set(p, [[old EXCEPT !.refs = @ - 1] EXCEPT !.s = @ - 1, !.ns = ns])
      BY <1>5, <3>1 DEF ipc_port_release_send
    <3>3. [[old EXCEPT !.refs = @ - 1] EXCEPT !.s = @ - 1, !.ns = ns] = r
      BY <1>1 DEF PortRecords
    <3> QED BY <3>2, <3>3
  <2>2. s \in Nat /\ ns \in PortOrNull /\ ns \in {NoPort, old.ns} /\ (ns # NoPort => s # 0)
    BY <1>1, <1>3, <1>5 DEF PortRecords, PortOrNull
  <2> HIDE DEF refs, s, ns
  <2>3. r \in PortRecords
    BY <1>1, <1>3, <2>2 DEF PortRecords
  <2>4. /\ r.refs = refs /\ r.s = s /\ r.ns = ns /\ r.st = old.st /\ r.dn = old.dn
        /\ r.dest = old.dest /\ r.pd = old.pd /\ r.inSpace = old.inSpace
        /\ r.blocked = old.blocked /\ r.rcv = old.rcv /\ r.msgs = old.msgs /\ r.so = old.so
    BY <1>1 DEF PortRecords
  <2>5. /\ r.st # "active" => r.blocked = 0
        /\ ~r.inSpace \/ r.st # "active" => r.rcv = 0
    BY <1>1, <2>4 DEF RecordOK
  <2>6. /\ refs + naked[p].s + naked[p].so + old.msgs >= old.refs + n.s + n.so + old.msgs
        /\ old.so + naked[p].so >= old.so + n.so
        /\ s + naked[p].s = old.s + n.s
    BY <1>1, <1>2 DEF refs, s, PortRecords, Rights
  <2> HIDE DEF r, n, old
  <2> QED BY <1>2, <1>3, <2>1, <2>2, <2>3, <2>4, <2>5, <2>6, CountStep DEF old
<1> QED BY <1>4, <1>5

LEMMA MakeSonceKeeps ==
  ASSUME M4Inv, NEW p \in Ports, ipc_port_make_sonce(p)
  PROVE  M4Inv'
<1> DEFINE old == port[p]
           refs == old.refs + 1
           so == old.so + 1
           n == [naked[p] EXCEPT !.so = @ + 1]
           r == [old EXCEPT !.so = so, !.refs = refs]
<1>1. old \in PortRecords /\ naked[p] \in Rights /\ RecordOK(old) /\ naked \in [Ports -> Rights]
  BY PortFacts
<1>2. /\ naked' = [naked EXCEPT ![p] = n] /\ growing' = growing /\ Set(p, r)
      /\ n \in Rights /\ n.s = naked[p].s /\ n.so = naked[p].so + 1 /\ old.st = "active"
  BY <1>1 DEF ipc_port_make_sonce, Rights, Active
<1>3. refs \in Nat /\ so \in Nat
  BY <1>1 DEF PortRecords
<1>4. /\ refs + naked[p].s + naked[p].so + old.msgs >= old.refs + n.s + n.so + old.msgs
      /\ so + naked[p].so >= old.so + n.so
  BY <1>1, <1>2 DEF PortRecords, Rights
<1> HIDE DEF refs, so
<1>5. r \in PortRecords
  BY <1>1, <1>3 DEF PortRecords
<1>6. /\ r.refs = refs /\ r.so = so /\ r.s = old.s /\ r.ns = old.ns /\ r.st = old.st
      /\ r.dn = old.dn /\ r.dest = old.dest /\ r.pd = old.pd /\ r.inSpace = old.inSpace
      /\ r.rcv = old.rcv /\ r.msgs = old.msgs /\ r.ms = old.ms /\ r.sync = old.sync
  BY <1>1 DEF PortRecords
<1>7. /\ ~r.inSpace => r.rcv = 0
      /\ r.ns # NoPort /\ r.s = 0 => r.ms < r.sync
  BY <1>1, <1>2, <1>6 DEF RecordOK
<1> HIDE DEF r, n, old
<1> QED BY <1>2, <1>4, <1>5, <1>6, <1>7, CountStep DEF old

LEMMA ReleaseSonceKeeps ==
  ASSUME M4Inv, NEW p \in Ports, ipc_port_release_sonce(p)
  PROVE  M4Inv'
<1> DEFINE old == port[p]
           refs == old.refs - 1
           so == old.so - 1
           n == [naked[p] EXCEPT !.so = @ - 1]
           r == [old EXCEPT !.so = so, !.refs = refs]
<1>1. old \in PortRecords /\ naked[p] \in Rights /\ RecordOK(old) /\ naked \in [Ports -> Rights]
  BY PortFacts
<1>2. /\ naked' = [naked EXCEPT ![p] = n] /\ growing' = growing
      /\ Set(p, IF r.st = "dead" THEN CheckUnlock(r) ELSE r)
      /\ naked[p].so > 0 /\ n \in Rights /\ n.s = naked[p].s /\ n.so = naked[p].so - 1
  BY <1>1 DEF ipc_port_release_sonce, Rights
<1>3. refs \in Nat /\ so \in Nat /\ old.st # "free"
  BY <1>1, <1>2, HeldExists DEF Rights
<1>4. /\ refs + naked[p].s + naked[p].so + old.msgs >= old.refs + n.s + n.so + old.msgs
      /\ so + naked[p].so >= old.so + n.so
  BY <1>1, <1>2 DEF PortRecords, Rights
<1> HIDE DEF refs, so
<1>5. r \in PortRecords
  BY <1>1, <1>3 DEF PortRecords
<1>6. /\ r.refs = refs /\ r.so = so /\ r.s = old.s /\ r.ns = old.ns /\ r.st = old.st
      /\ r.dn = old.dn /\ r.dest = old.dest /\ r.pd = old.pd /\ r.inSpace = old.inSpace
      /\ r.rcv = old.rcv /\ r.msgs = old.msgs /\ r.ms = old.ms /\ r.sync = old.sync
      /\ r.blocked = old.blocked
  BY <1>1 DEF PortRecords
<1>7. /\ r.st # "active" => r.blocked = 0
      /\ ~r.inSpace \/ r.st # "active" => r.rcv = 0
      /\ r.st = "active" /\ r.ns # NoPort /\ r.s = 0 => r.ms < r.sync
  BY <1>1, <1>6 DEF RecordOK
<1>8. Set(p, r) \/ Set(p, CheckUnlock(r))
  BY <1>2
<1> HIDE DEF r, n, old
<1> QED BY <1>2, <1>3, <1>4, <1>5, <1>6, <1>7, <1>8, CountStep DEF old

\* The steps of the message queue: its limit, its senders and its receivers.
LEMMA QueueKeeps ==
  ASSUME M4Inv, NEW p \in Ports,
         \/ SendOrBlock(p) \/ WaitForMessage(p)
         \/ \E q \in QLimits : ipc_port_set_qlimit(p, q)
  PROVE  M4Inv'
<1> DEFINE old == port[p]
<1>1. /\ old \in PortRecords /\ naked[p] \in Rights /\ RecordOK(old)
      /\ naked' = [naked EXCEPT ![p] = naked[p]] /\ growing' = growing /\ old.st = "active"
  BY PortFacts DEF SendOrBlock, WaitForMessage, ipc_port_set_qlimit, Active
<1>2. PICK refs \in Nat, q \in Nat, msgs \in Nat, blocked \in Nat, rcv \in Nat :
        /\ Set(p, [old EXCEPT !.refs = refs, !.q = q, !.msgs = msgs,
                              !.blocked = blocked, !.rcv = rcv])
        /\ refs + old.msgs = old.refs + msgs /\ (rcv # 0 => old.rcv # 0 \/ old.inSpace)
  <2>1. /\ old.refs \in Nat /\ old.q \in Nat /\ old.msgs \in Nat /\ old.blocked \in Nat
        /\ old.rcv \in Nat /\ old.refs + 1 \in Nat /\ old.msgs + 1 \in Nat
    BY <1>1 DEF PortRecords
  <2>2. CASE SendOrBlock(p)
    <3> DEFINE refs == old.refs + 1
               msgs == old.msgs + 1
    <3>1. \/ Set(p, [old EXCEPT !.msgs = msgs, !.refs = refs])
          \/ Set(p, [old EXCEPT !.blocked = 1])
      BY <2>2 DEF SendOrBlock
    <3>2. refs + old.msgs = old.refs + msgs /\ refs \in Nat /\ msgs \in Nat
      BY <2>1
    <3> HIDE DEF refs, msgs
    <3>3. [old EXCEPT !.msgs = msgs, !.refs = refs]
             = [old EXCEPT !.refs = refs, !.q = old.q, !.msgs = msgs,
                           !.blocked = old.blocked, !.rcv = old.rcv]
      BY <1>1 DEF PortRecords
    <3>4. [old EXCEPT !.blocked = 1]
             = [old EXCEPT !.refs = old.refs, !.q = old.q, !.msgs = old.msgs,
                           !.blocked = 1, !.rcv = old.rcv]
      BY <1>1 DEF PortRecords
    <3> HIDE DEF old
    <3>5. CASE Set(p, [old EXCEPT !.msgs = msgs, !.refs = refs])
      <4>1. Set(p, [old EXCEPT !.refs = refs, !.q = old.q, !.msgs = msgs,
                               !.blocked = old.blocked, !.rcv = old.rcv])
        BY <3>3, <3>5
      <4> QED BY <2>1, <3>2, <4>1
    <3>6. CASE Set(p, [old EXCEPT !.blocked = 1])
      <4>1. Set(p, [old EXCEPT !.refs = old.refs, !.q = old.q, !.msgs = old.msgs,
                               !.blocked = 1, !.rcv = old.rcv])
        BY <3>4, <3>6
      <4> QED BY <2>1, <4>1
    <3> QED BY <3>1, <3>5, <3>6
  <2>3. CASE WaitForMessage(p)
    <3>1. [old EXCEPT !.rcv = 1]
             = [old EXCEPT !.refs = old.refs, !.q = old.q, !.msgs = old.msgs,
                           !.blocked = old.blocked, !.rcv = 1]
      BY <1>1 DEF PortRecords
    <3>2. Set(p, [old EXCEPT !.rcv = 1]) /\ old.inSpace
      BY <2>3 DEF WaitForMessage
    <3> HIDE DEF old
    <3> QED BY <2>1, <3>1, <3>2
  <2>4. ASSUME NEW q \in QLimits, ipc_port_set_qlimit(p, q)
        PROVE  \E blocked \in Nat : Set(p, [old EXCEPT !.q = q, !.blocked = blocked])
    <3> DEFINE w == IF q > old.q THEN q - old.q ELSE 0
               left == IF old.blocked > w THEN old.blocked - w ELSE 0
    <3>1. Set(p, [old EXCEPT !.q = q, !.blocked = left])
      BY <2>4 DEF ipc_port_set_qlimit
    <3>2. \A a, b \in Nat : (IF a > b THEN a - b ELSE 0) \in Nat
      OBVIOUS
    <3> HIDE DEF old
    <3>3. q \in Nat
      BY Mach4PortAssumption
    <3>4. w \in Nat
      BY <2>1, <3>2, <3>3
    <3> HIDE DEF w
    <3>5. left \in Nat
      BY <2>1, <3>2, <3>4
    <3> HIDE DEF left
    <3> QED BY <3>1, <3>5
  <2>5. CASE \E q \in QLimits : ipc_port_set_qlimit(p, q)
    <3>1. PICK q \in QLimits, blocked \in Nat : Set(p, [old EXCEPT !.q = q, !.blocked = blocked])
      BY <2>4, <2>5
    <3>2. q \in Nat
      BY Mach4PortAssumption
    <3>3. [old EXCEPT !.q = q, !.blocked = blocked]
             = [old EXCEPT !.refs = old.refs, !.q = q, !.msgs = old.msgs,
                           !.blocked = blocked, !.rcv = old.rcv]
      BY <1>1 DEF PortRecords
    <3> HIDE DEF old
    <3> QED BY <2>1, <3>1, <3>2, <3>3
  <2> QED BY <2>2, <2>3, <2>5
<1> DEFINE r == [old EXCEPT !.refs = refs, !.q = q, !.msgs = msgs, !.blocked = blocked, !.rcv = rcv]
<1>3. r \in PortRecords
  BY <1>1 DEF PortRecords
<1>4. /\ r.refs = refs /\ r.so = old.so /\ r.s = old.s /\ r.ns = old.ns /\ r.st = old.st
      /\ r.dn = old.dn /\ r.dest = old.dest /\ r.pd = old.pd /\ r.inSpace = old.inSpace
      /\ r.rcv = rcv /\ r.msgs = msgs /\ r.ms = old.ms /\ r.sync = old.sync
  BY <1>1 DEF PortRecords
<1>5. /\ ~r.inSpace => r.rcv = 0
      /\ r.ns # NoPort /\ r.s = 0 => r.ms < r.sync
  BY <1>1, <1>2, <1>4 DEF RecordOK
<1>6. /\ refs + naked[p].s + naked[p].so + old.msgs >= old.refs + naked[p].s + naked[p].so + msgs
      /\ old.so + naked[p].so >= old.so + naked[p].so
  <2>1. PICK x \in Nat, y \in Nat, z \in Nat, k \in Nat :
           x = naked[p].s /\ y = naked[p].so /\ z = old.msgs /\ k = old.refs
    BY <1>1 DEF Rights, PortRecords
  <2>2. refs + z = k + msgs
    BY <1>2, <2>1
  <2>3. refs + x + y + z >= k + x + y + msgs
    BY <2>2
  <2> QED BY <1>1, <2>1, <2>3 DEF PortRecords
<1>7. Set(p, r)
  BY <1>2
<1> HIDE DEF r, old
<1> QED BY <1>1, <1>3, <1>4, <1>5, <1>6, <1>7, CountStep DEF old

LEMMA DestroyFinishKeeps ==
  ASSUME M4Inv, NEW p \in Ports, ipc_port_destroy_finish(p)
  PROVE  M4Inv'
<1> DEFINE old == port[p]
           refs == old.refs - old.msgs - 1
           r == [old EXCEPT !.st = "dead", !.refs = refs, !.msgs = 0, !.dn = NoTable,
                            !.ns = NoPort]
           a == Cardinality(RequestsFor(port, p))
           b == Cardinality(SentTo(port, p))
           c == Cardinality(GrowingOn(growing, p))
<1>1. /\ old \in PortRecords /\ naked[p] \in Rights /\ RecordOK(old)
      /\ a \in Nat /\ b \in Nat /\ c \in Nat /\ Balanced(old, naked[p], a, b, c)
  BY PortFacts
<1>2. Set(p, r) /\ old.st = "dying" /\ UNCHANGED <<naked, growing>>
  BY DEF ipc_port_destroy_finish
<1>3. PICK x \in Nat, y \in Nat, z \in Nat, k \in Nat :
        x = naked[p].s /\ y = naked[p].so /\ z = old.msgs /\ k = old.refs
  BY <1>1 DEF Rights, PortRecords
<1>4. k >= x + y + z + 1 + a + b + c /\ old.so >= y + a /\ old.s = x
  BY <1>1, <1>2, <1>3 DEF Balanced, Held, Living
<1>5. refs = k - z - 1
  BY <1>3
<1> HIDE DEF a, b, c, refs
<1>6. refs \in Nat /\ refs >= x + y + a + b + c
  BY <1>1, <1>4, <1>5
<1>7. r \in PortRecords
  BY <1>1, <1>6, NoTableOK DEF PortRecords, PortOrNull
<1>8. /\ r.st = "dead" /\ r.refs = refs /\ r.msgs = 0 /\ r.dn = NoTable /\ r.ns = NoPort
      /\ r.pd = old.pd /\ r.dest = old.dest /\ r.so = old.so
      /\ r.blocked = old.blocked /\ r.rcv = old.rcv
  BY <1>1 DEF PortRecords
<1>9. RecordOK(r)
  BY <1>1, <1>2, <1>7, <1>8, NoTableOK DEF RecordOK
<1>10. Fades(old, r)
  BY <1>8 DEF Fades, RequestPlaces, RightAt, NoTable
<1>11. Balanced(r, naked[p], a, b, c)
  BY <1>3, <1>4, <1>6, <1>8 DEF Balanced, Held, Living
<1> HIDE DEF r
<1> QED BY <1>2, <1>8, <1>9, <1>10, <1>11, OwnStep DEF a, b, c

-----------------------------------------------------------------------------
(* ipc_port_dngrow: the thread that grows a table and its reference.         *)

\* Thread t starts or stops growing the table of p; the others go on.
LEMMA GrowerMoves ==
  ASSUME M4Inv, NEW t \in Growers, NEW g \in Growths, NEW p \in Ports,
         {growing[t].port, g.port} = {p, NoPort},
         NEW hs, hs = [growing EXCEPT ![t] = g]
  PROVE  /\ hs \in [Growers -> Growths]
         /\ OthersGrow(growing, hs, p) /\ IsFiniteSet(GrowingOn(hs, p))
         /\ Cardinality(GrowingOn(hs, p)) + (IF growing[t].port = p THEN 1 ELSE 0)
              = Cardinality(GrowingOn(growing, p)) + (IF g.port = p THEN 1 ELSE 0)
<1>1. growing \in [Growers -> Growths] /\ IsFiniteSet(GrowingOn(growing, p))
  BY DEF M4Inv, Shaped, Counted, Finite
<1>2. hs \in [Growers -> Growths] /\ hs[t] = g /\ \A u \in Growers : u # t => hs[u] = growing[u]
  BY <1>1
<1>3. NoPort \notin Ports
  BY Mach4PortAssumption
<1>4. OthersGrow(growing, hs, p)
  BY <1>2, <1>3 DEF GrowingOn, OthersGrow
<1>5. GrowingOn(hs, p) \ {t} = GrowingOn(growing, p) \ {t}
  BY <1>2 DEF GrowingOn
<1>6. /\ IsFiniteSet(GrowingOn(hs, p))
      /\ Cardinality(GrowingOn(hs, p)) + Count(t, GrowingOn(growing, p))
           = Cardinality(GrowingOn(growing, p)) + Count(t, GrowingOn(hs, p))
  BY <1>1, <1>5, OneMoves
<1>7. /\ Count(t, GrowingOn(growing, p)) = (IF growing[t].port = p THEN 1 ELSE 0)
      /\ Count(t, GrowingOn(hs, p)) = (IF g.port = p THEN 1 ELSE 0)
  BY <1>2 DEF Count, GrowingOn
<1> QED BY <1>2, <1>4, <1>6, <1>7

LEMMA GrowStep ==
  ASSUME M4Inv, NEW t \in Growers, NEW g \in Growths, NEW p \in Ports,
         {growing[t].port, g.port} = {p, NoPort},
         growing' = [growing EXCEPT ![t] = g], naked' = naked,
         NEW r, RecordOK(r), Fades(port[p], r), r.dest \in {NoPort, port[p].dest},
         Balanced(r, naked[p], Cardinality(RequestsFor(port, p)), Cardinality(SentTo(port, p)),
                  Cardinality(GrowingOn(growing', p))),
         Set(p, r)
  PROVE  M4Inv'
<1> DEFINE hs == [growing EXCEPT ![t] = g]
<1>1. /\ hs \in [Growers -> Growths] /\ IsFiniteSet(GrowingOn(hs, p))
      /\ OthersGrow(growing, hs, p)
  BY GrowerMoves
<1>2. Shaped(port, naked, growing) /\ \A x \in Ports : Counted(port, naked, growing, x)
  BY DEF M4Inv
<1>3. naked[p] \in Rights /\ naked' = [naked EXCEPT ![p] = naked[p]]
  BY PortFacts
<1>4. port' = [port EXCEPT ![p] = r] /\ growing' = hs
  BY DEF Set
<1>5. Balanced(r, naked[p], Cardinality(RequestsFor(port, p)), Cardinality(SentTo(port, p)),
               Cardinality(GrowingOn(hs, p)))
  BY <1>4
<1> HIDE DEF hs
<1>6. Shaped(port', naked', hs) /\ \A x \in Ports : Counted(port', naked', hs, x)
  <2>1. ASSUME NEW ps, NEW nk, NEW gs, ps = port, nk = naked, gs = growing,
               NEW qs, qs = port', NEW mk, mk = naked', NEW fs, fs = hs
        PROVE  Shaped(qs, mk, fs) /\ \A x \in Ports : Counted(qs, mk, fs, x)
    <3>1. /\ Shaped(ps, nk, gs) /\ \A x \in Ports : Counted(ps, nk, gs, x)
          /\ Fades(ps[p], r) /\ r.dest \in {NoPort, ps[p].dest} /\ nk[p] \in Rights
          /\ fs \in [Growers -> Growths] /\ OthersGrow(gs, fs, p)
          /\ IsFiniteSet(GrowingOn(fs, p))
          /\ Balanced(r, nk[p], Cardinality(RequestsFor(ps, p)),
                      Cardinality(SentTo(ps, p)), Cardinality(GrowingOn(fs, p)))
          /\ qs = [ps EXCEPT ![p] = r] /\ mk = [nk EXCEPT ![p] = nk[p]]
      BY <1>1, <1>2, <1>3, <1>4, <1>5, <2>1
    <3> QED BY ONLY <3>1, RecordOK(r), p \in Ports, PortStep
  <2> QED BY <2>1
<1> QED BY <1>4, <1>6 DEF M4Inv

LEMMA DngrowKeeps ==
  ASSUME M4Inv, NEW p \in Ports, NEW t \in Growers, ipc_port_dngrow(t, p)
  PROVE  M4Inv'
<1> DEFINE old == port[p]
           refs == old.refs + 1
           r == [old EXCEPT !.refs = refs]
           g == [port |-> p, its |-> old.dn.its + 1, was |-> old.dn.its]
           a == Cardinality(RequestsFor(port, p))
           b == Cardinality(SentTo(port, p))
           c == Cardinality(GrowingOn(growing, p))
           d == Cardinality(GrowingOn(growing', p))
<1>1. /\ old \in PortRecords /\ naked[p] \in Rights /\ RecordOK(old)
      /\ a \in Nat /\ b \in Nat /\ c \in Nat /\ Balanced(old, naked[p], a, b, c)
  BY PortFacts
<1>2. /\ Set(p, r) /\ naked' = naked /\ growing' = [growing EXCEPT ![t] = g]
      /\ growing[t] = Idle /\ old.st = "active" /\ DnSizes[old.dn.its + 1] # 0
  BY DEF ipc_port_dngrow, Active
<1>3. old.dn.its \in 0..Len(DnSizes) - 1 /\ old.dn.its \in Nat
  BY <1>1 DEF RecordOK, TableOK
<1>4. g \in Growths
  <2>1. old.dn.its + 1 \in 1..Len(DnSizes) - 1
    BY <1>2, <1>3, SizesGrow
  <2> QED BY <1>3, <2>1 DEF Growths, PortOrNull
<1>5. {growing[t].port, g.port} = {p, NoPort} /\ p # NoPort
  BY <1>2, Mach4PortAssumption DEF Idle
<1>6. d = c + 1
  <2>1. Cardinality(GrowingOn([growing EXCEPT ![t] = g], p))
           + (IF growing[t].port = p THEN 1 ELSE 0)
         = c + (IF g.port = p THEN 1 ELSE 0)
    <3> HIDE DEF g
    <3> QED BY <1>4, <1>5, GrowerMoves
  <2>2. growing[t].port # p /\ g.port = p
    BY <1>2, <1>5 DEF Idle
  <2>3. d + 0 = c + 1 /\ IsFiniteSet(GrowingOn(growing', p))
    <3> HIDE DEF g
    <3> QED BY <1>2, <2>1, <2>2, <1>4, <1>5, GrowerMoves
  <2>4. d \in Nat
    BY <2>3, FS_CardinalityType
  <2> HIDE DEF c, d
  <2> QED BY <2>3, <2>4
<1>7. refs \in Nat
  BY <1>1 DEF PortRecords
<1> HIDE DEF refs, g
<1>8. r \in PortRecords
  BY <1>1, <1>7 DEF PortRecords
<1>9. /\ r.refs = refs /\ r.so = old.so /\ r.s = old.s /\ r.ns = old.ns /\ r.st = old.st
      /\ r.dn = old.dn /\ r.dest = old.dest /\ r.pd = old.pd /\ r.inSpace = old.inSpace
      /\ r.rcv = old.rcv /\ r.msgs = old.msgs /\ r.ms = old.ms /\ r.sync = old.sync
  BY <1>1 DEF PortRecords
<1>10. RecordOK(r)
  BY <1>1, <1>2, <1>8, <1>9 DEF RecordOK
<1>11. Fades(old, r)
  BY <1>9, HeaderFades
<1>12. Balanced(r, naked[p], a, b, d)
  <2>1. PICK x \in Nat, y \in Nat, z \in Nat, k \in Nat :
          x = naked[p].s /\ y = naked[p].so /\ z = old.msgs /\ k = old.refs
    BY <1>1 DEF Rights, PortRecords
  <2>2. k >= x + y + z + 1 + a + b + c /\ old.so >= y + a /\ old.s = x
    BY <1>1, <1>2, <2>1 DEF Balanced, Held, Living
  <2>3. refs = k + 1
    BY <2>1 DEF refs
  <2> HIDE DEF a, b, c, d
  <2>4. refs >= x + y + z + 1 + a + b + d
    BY <1>1, <1>6, <2>2, <2>3
  <2> QED BY <1>2, <1>9, <2>1, <2>2, <2>4 DEF Balanced, Held, Living
<1> HIDE DEF r
<1> QED BY <1>2, <1>4, <1>5, <1>9, <1>10, <1>11, <1>12, GrowStep DEF a, b, d

\* A thread that is done gives its reference back; the table may be new.
LEMMA GrowerDone ==
  ASSUME M4Inv, NEW t \in Growers, growing[t] # Idle,
         NEW p, p = growing[t].port,
         growing' = [growing EXCEPT ![t] = Idle], naked' = naked,
         NEW refs, refs = port[p].refs - 1,
         NEW dn, TableOK(dn), Fades(port[p], [port[p] EXCEPT !.refs = refs, !.dn = dn]),
         LET r == [port[p] EXCEPT !.refs = refs, !.dn = dn]
         IN  Set(p, r) \/ Set(p, CheckUnlock(r))
  PROVE  M4Inv'
<1> DEFINE old == port[p]
           r == [old EXCEPT !.refs = refs, !.dn = dn]
           a == Cardinality(RequestsFor(port, p))
           b == Cardinality(SentTo(port, p))
           c == Cardinality(GrowingOn(growing, p))
           d == Cardinality(GrowingOn(growing', p))
<1>0. p \in Ports /\ Idle \in Growths /\ Idle.port = NoPort /\ p # NoPort
  <2>1. growing[t] \in Growths
    BY DEF M4Inv, Shaped
  <2>2. Idle \in Growths
    BY DEF Idle, Growths, PortOrNull
  <2> QED BY <2>1, <2>2, Mach4PortAssumption DEF Growths, Idle
<1>1. /\ old \in PortRecords /\ naked[p] \in Rights /\ RecordOK(old)
      /\ a \in Nat /\ b \in Nat /\ c \in Nat /\ Balanced(old, naked[p], a, b, c)
  BY <1>0, PortFacts
<1>6. d \in Nat /\ d + 1 = c
  <2>1. {growing[t].port, Idle.port} = {p, NoPort}
    BY <1>0
  <2>2. /\ Cardinality(GrowingOn(growing', p)) + (IF growing[t].port = p THEN 1 ELSE 0)
             = c + (IF Idle.port = p THEN 1 ELSE 0)
        /\ IsFiniteSet(GrowingOn(growing', p))
    BY <1>0, <2>1, GrowerMoves, ZenonT(60)
  <2>3. d \in Nat /\ d + 1 = c + 0
    BY <1>0, <2>2, FS_CardinalityType
  <2> HIDE DEF c, d
  <2> QED BY <1>1, <2>3
<1>2. PICK x \in Nat, y \in Nat, z \in Nat, l \in Nat, k \in Nat :
        /\ x = naked[p].s /\ y = naked[p].so /\ z = old.msgs /\ l = Living(old) /\ k = old.refs
  BY <1>1 DEF Rights, PortRecords, Living
<1>3. refs = k - 1
  BY <1>2
<1>4. old.st # "free" /\ k >= x + y + z + l + a + b + c
  <2> HIDE DEF a, b, c, d
  <2>1. x + y + z + l + a + b + c # 0
    BY <1>1, <1>6
  <2> QED BY <1>1, <1>2, <2>1 DEF Balanced, Held
<1> HIDE DEF d
<1>7. refs \in Nat /\ refs >= x + y + z + l + a + b + d
  <2> HIDE DEF a, b, c
  <2> QED BY <1>1, <1>3, <1>4, <1>6
<1>8. r \in PortRecords
  <2>1. dn \in Tables
    BY DEF TableOK
  <2> QED BY <1>1, <1>7, <2>1 DEF PortRecords
<1>9. /\ r.refs = refs /\ r.so = old.so /\ r.s = old.s /\ r.ns = old.ns /\ r.st = old.st
      /\ r.dn = dn /\ r.dest = old.dest /\ r.pd = old.pd /\ r.inSpace = old.inSpace
      /\ r.rcv = old.rcv /\ r.msgs = old.msgs /\ r.ms = old.ms /\ r.sync = old.sync
      /\ r.blocked = old.blocked
  BY <1>1 DEF PortRecords
<1>10. RecordOK(r)
  BY <1>1, <1>8, <1>9 DEF RecordOK
<1>11. Balanced(r, naked[p], a, b, d)
  <2>1. Living(r) = l
    BY <1>2, <1>9 DEF Living
  <2> QED BY <1>1, <1>2, <1>4, <1>7, <1>9, <2>1 DEF Balanced, Held
<1>12. {growing[t].port, Idle.port} = {p, NoPort}
  BY <1>0
<1>13. CASE Set(p, r)
  <2> HIDE DEF old
  <2>1. Fades(old, r)
    BY DEF old
  <2> HIDE DEF r
  <2> QED BY <1>0, <1>9, <1>10, <1>11, <1>12, <1>13, <2>1, GrowStep DEF old, a, b, d
<1>14. CASE Set(p, CheckUnlock(r))
  <2> DEFINE u == CheckUnlock(r)
  <2> HIDE DEF a, b, old
  <2>0. Fades(old, r)
    BY DEF old
  <2>1. /\ RecordOK(u) /\ Fades(old, u) /\ u.dest \in {NoPort, old.dest}
        /\ Balanced(u, naked[p], a, b, d)
    <3> HIDE DEF r
    <3> QED BY <1>1, <1>4, <1>6, <1>9, <1>10, <1>11, <2>0, CheckedOK
  <2> HIDE DEF u
  <2> QED BY <1>0, <1>12, <1>14, <2>1, GrowStep DEF old, u, a, b, d
<1> QED BY <1>13, <1>14

LEMMA DngrowDoneKeeps ==
  ASSUME M4Inv, NEW t \in Growers, ipc_port_dngrow_fails(t) \/ ipc_port_dngrow_install(t)
  PROVE  M4Inv'
<1> DEFINE g == growing[t]
           p == g.port
           old == port[p]
           refs == old.refs - 1
           same == [old EXCEPT !.refs = refs, !.dn = old.dn]
           full == [old EXCEPT !.refs = refs, !.dn = Grown(old.dn, g.its)]
<1>1. /\ g # Idle /\ growing' = [growing EXCEPT ![t] = Idle] /\ naked' = naked
  BY DEF ipc_port_dngrow_fails, ipc_port_dngrow_install
<1>2. p \in Ports /\ g.its = g.was + 1 /\ g.its \in 1..Len(DnSizes) - 1 /\ p # NoPort
  <2>1. g \in Growths
    BY DEF M4Inv, Shaped
  <2> HIDE DEF g
  <2> QED BY <1>1, <2>1, Mach4PortAssumption DEF Growths
<1>3. old \in PortRecords /\ TableOK(old.dn) /\ old.dn.its \in Nat /\ port \in [Ports -> PortRecords]
  <2> HIDE DEF p
  <2>1. old \in PortRecords /\ RecordOK(old) /\ port \in [Ports -> PortRecords]
    BY <1>2, PortFacts
  <2> HIDE DEF old
  <2> QED BY <2>1 DEF RecordOK, TableOK
<1>4. [old EXCEPT !.refs = refs] = same
  <2> HIDE DEF old, refs
  <2> QED BY <1>3 DEF PortRecords
<1>5. Fades(old, same)
  <2>1. same.dn = old.dn /\ same.ns = old.ns /\ same.pd = old.pd
    <3> HIDE DEF old, refs
    <3> QED BY <1>3 DEF PortRecords
  <2> HIDE DEF same
  <2> QED BY <2>1, HeaderFades
<1>6. CASE Set(p, same) \/ Set(p, CheckUnlock(same))
  <2>1. /\ TableOK(old.dn) /\ Fades(port[p], [port[p] EXCEPT !.refs = refs, !.dn = old.dn])
        /\ refs = port[p].refs - 1 /\ p = growing[t].port
    BY <1>3, <1>5
  <2>2. LET r == [port[p] EXCEPT !.refs = refs, !.dn = old.dn]
        IN  Set(p, r) \/ Set(p, CheckUnlock(r))
    BY <1>6
  <2> QED BY <1>1, <2>1, <2>2, GrowerDone
<1>7. CASE Set(p, full) /\ old.dn.its = g.was
  <2> DEFINE dn == Grown(old.dn, g.its)
  <2>1. /\ TableOK(dn) /\ Len(dn.slot) > Len(old.dn.slot)
        /\ \A i \in DOMAIN dn.slot : dn.slot[i].right # NoPort =>
             i \in DOMAIN old.dn.slot /\ dn.slot[i].right = old.dn.slot[i].right
    <3>1. g.its = old.dn.its + 1
      BY <1>2, <1>7
    <3> HIDE DEF g, old
    <3> QED BY <1>2, <1>3, <3>1, GrownOK
  <2> HIDE DEF dn
  <2>2. full.dn = dn /\ full.ns = old.ns /\ full.pd = old.pd
    <3>1. full = [old EXCEPT !.refs = refs, !.dn = dn]
      BY DEF dn
    <3> HIDE DEF full, old, refs
    <3> QED BY <1>3, <3>1 DEF PortRecords
  <2>3. /\ DOMAIN dn.slot = 1..Len(dn.slot) /\ Len(dn.slot) \in Nat
        /\ DOMAIN old.dn.slot = 1..Len(old.dn.slot) /\ Len(old.dn.slot) \in Nat
    <3>1. dn.slot \in Seq(Slots) /\ old.dn.slot \in Seq(Slots)
      BY <1>3, <2>1 DEF TableOK, Tables
    <3>2. \A s \in Seq(Slots) : DOMAIN s = 1..Len(s) /\ Len(s) \in Nat
      OBVIOUS
    <3> HIDE DEF old
    <3> QED BY <3>1, <3>2
  <2>4. Fades(old, full)
    <3>1. SUFFICES ASSUME NEW i \in RequestPlaces(full), RightAt(full, i) # NoPort
                   PROVE  i \in RequestPlaces(old) /\ RightAt(old, i) = RightAt(full, i)
      BY DEF Fades
    <3>2. i \in -1..Len(dn.slot)
      BY <2>2 DEF RequestPlaces
    <3>3. CASE i = -1 \/ i = 0
      <4> HIDE DEF full, old
      <4> QED BY <2>2, <2>3, <3>2, <3>3 DEF RequestPlaces, RightAt
    <3>4. CASE i # -1 /\ i # 0
      <4>1. i \in DOMAIN dn.slot /\ RightAt(full, i) = dn.slot[i].right
        <5> HIDE DEF full, old
        <5> QED BY <2>2, <2>3, <3>2, <3>4 DEF RightAt
      <4>2. i \in DOMAIN old.dn.slot /\ dn.slot[i].right = old.dn.slot[i].right
        BY <2>1, <3>1, <4>1
      <4>3. i \in -1..Len(old.dn.slot) /\ RightAt(old, i) = old.dn.slot[i].right
        <5> HIDE DEF full, old
        <5> QED BY <2>3, <3>4, <4>2 DEF RightAt
      <4> QED BY <4>1, <4>2, <4>3 DEF RequestPlaces
    <3> QED BY <3>3, <3>4
  <2>5. /\ TableOK(dn) /\ Fades(port[p], [port[p] EXCEPT !.refs = refs, !.dn = dn])
        /\ refs = port[p].refs - 1 /\ p = growing[t].port
    BY <2>1, <2>4 DEF dn
  <2>6. LET r == [port[p] EXCEPT !.refs = refs, !.dn = dn]
        IN  Set(p, r) \/ Set(p, CheckUnlock(r))
    BY <1>7 DEF dn
  <2> QED BY <1>1, <2>5, <2>6, GrowerDone
<1>8. \/ Set(p, same) \/ Set(p, CheckUnlock(same))
      \/ Set(p, full) /\ old.dn.its = g.was
  <2>1. CASE ipc_port_dngrow_fails(t)
    <3>1. port' = [port EXCEPT ![p].refs = @ - 1]
      BY <1>2, <2>1 DEF ipc_port_dngrow_fails, Unref
    <3>2. port' = [port EXCEPT ![p] = [old EXCEPT !.refs = refs]]
      BY <1>2, <1>3, <3>1
    <3>3. Set(p, same)
      BY <1>4, <3>2 DEF Set
    <3> QED BY <3>3
  <2>2. CASE ipc_port_dngrow_install(t)
    <3> DEFINE r == [old EXCEPT !.refs = refs]
    <3>1. Set(p, IF Active(p) /\ r.dn.its = g.was THEN [r EXCEPT !.dn = Grown(r.dn, g.its)]
                 ELSE CheckUnlock(r))
      BY <2>2 DEF ipc_port_dngrow_install
    <3>2. r.dn = old.dn
      <4> HIDE DEF old, refs
      <4> QED BY <1>3 DEF PortRecords
    <3>3. [r EXCEPT !.dn = Grown(r.dn, g.its)] = full
      <4> DEFINE dn == Grown(old.dn, g.its)
      <4> HIDE DEF old, refs, dn
      <4>1. [[old EXCEPT !.refs = refs] EXCEPT !.dn = dn] = [old EXCEPT !.refs = refs, !.dn = dn]
        BY <1>3 DEF PortRecords
      <4> QED BY <3>2, <4>1 DEF dn
    <3>4. CheckUnlock(r) = CheckUnlock(same)
      BY <1>4
    <3>5. CASE Active(p) /\ r.dn.its = g.was
      <4>1. Set(p, [r EXCEPT !.dn = Grown(r.dn, g.its)]) /\ old.dn.its = g.was
        BY <3>1, <3>2, <3>5
      <4> QED BY <3>3, <4>1
    <3>6. CASE ~(Active(p) /\ r.dn.its = g.was)
      <4>1. Set(p, CheckUnlock(r))
        BY <3>1, <3>6
      <4> QED BY <3>4, <4>1
    <3> QED BY <3>5, <3>6
  <2> QED BY <2>1, <2>2
<1> QED BY <1>6, <1>7, <1>8

-----------------------------------------------------------------------------
(* Requests: a send-once right goes from the caller into the port and the    *)
(* one registered before comes back.                                         *)

Same(u, v) == IF u = v THEN 1 ELSE 0

\* The caller gives up a send-once right of new and gets one of old.
Traded(nk, mk, new, old) ==
  /\ mk \in [Ports -> Rights]
  /\ \A x \in Ports : mk[x].s = nk[x].s /\ mk[x].so + Same(x, new) = nk[x].so + Same(x, old)

LEMMA SwappedTrades ==
  ASSUME naked \in [Ports -> Rights], NEW new \in PortOrNull, NEW old \in PortOrNull,
         new # NoPort => naked[new].so > 0
  PROVE  Traded(naked, Swapped(new, old), new, old)
<1>1. SUFFICES ASSUME NEW x \in Ports
               PROVE  /\ Swapped(new, old)[x] \in Rights
                      /\ Swapped(new, old)[x].s = naked[x].s
                      /\ Swapped(new, old)[x].so + Same(x, new) = naked[x].so + Same(x, old)
  <2>1. Swapped(new, old) = [x \in Ports |-> Swapped(new, old)[x]]
    BY DEF Swapped
  <2> QED BY <1>1, <2>1 DEF Traded
<1>2. PICK v \in Nat : v = naked[x].so
  BY DEF Rights
<1>3. x = new => v > 0
  BY <1>2, Mach4PortAssumption
<1> DEFINE so == v - (IF x = new THEN 1 ELSE 0) + (IF x = old THEN 1 ELSE 0)
<1>4. so \in Nat /\ so + Same(x, new) = v + Same(x, old)
  BY <1>3 DEF Same
<1>5. Swapped(new, old)[x] = [naked[x] EXCEPT !.so = so]
  BY <1>2 DEF Swapped
<1> HIDE DEF so
<1>6. /\ [naked[x] EXCEPT !.so = so] \in Rights
      /\ [naked[x] EXCEPT !.so = so].s = naked[x].s /\ [naked[x] EXCEPT !.so = so].so = so
  BY <1>4 DEF Rights
<1> QED BY <1>2, <1>4, <1>5, <1>6

\* The two records differ in the request of place i at most.
OnlyAt(old, new, i) ==
  /\ i \in RequestPlaces(old) /\ RequestPlaces(new) = RequestPlaces(old)
  /\ \A j \in RequestPlaces(new) : j # i => RightAt(new, j) = RightAt(old, j)

\* The requests for x, when place i of port p goes from ps to the record r.
RequestsMove(ps, qs, p, r, i, x) ==
  /\ IsFiniteSet(RequestsFor(qs, x))
  /\ Cardinality(RequestsFor(ps, x)) \in Nat /\ Cardinality(RequestsFor(qs, x)) \in Nat
  /\ Cardinality(RequestsFor(qs, x)) + Same(RightAt(ps[p], i), x)
       = Cardinality(RequestsFor(ps, x)) + Same(RightAt(r, i), x)

\* One place of one port changes its request.
LEMMA OneRequest ==
  ASSUME NEW ps \in [Ports -> PortRecords], NEW p \in Ports, NEW r \in PortRecords, NEW i,
         OnlyAt(ps[p], r, i),
         NEW qs, qs = [ps EXCEPT ![p] = r], NEW x \in Ports, IsFiniteSet(RequestsFor(ps, x))
  PROVE  RequestsMove(ps, qs, p, r, i, x)
<1> DEFINE S == RequestsFor(ps, x)
           T == RequestsFor(qs, x)
           z == <<p, i>>
<1>1. qs[p] = r /\ \A q \in Ports : q # p => qs[q] = ps[q]
  OBVIOUS
<1>2. \A q \in Ports : \A j : <<q, j>> \in S <=> j \in RequestPlaces(ps[q]) /\ RightAt(ps[q], j) = x
  BY DEF RequestsFor
<1>3. \A q \in Ports : \A j : <<q, j>> \in T <=> j \in RequestPlaces(qs[q]) /\ RightAt(qs[q], j) = x
  BY DEF RequestsFor
<1>4. /\ \A y \in S : \E q \in Ports : \E j \in RequestPlaces(ps[q]) : y = <<q, j>>
      /\ \A y \in T : \E q \in Ports : \E j \in RequestPlaces(qs[q]) : y = <<q, j>>
  BY DEF RequestsFor
<1> HIDE DEF S, T
<1>5. ASSUME NEW q \in Ports, NEW j, <<q, j>> # z
      PROVE  <<q, j>> \in S <=> <<q, j>> \in T
  <2>1. CASE q = p
    <3>1. j # i
      BY <1>5, <2>1
    <3> QED BY <1>1, <1>2, <1>3, <2>1, <3>1 DEF OnlyAt
  <2>2. CASE q # p
    BY <1>1, <1>2, <1>3, <2>2
  <2> QED BY <2>1, <2>2
<1>6. T \ {z} = S \ {z}
  <2>1. ASSUME NEW y \in T, y # z PROVE y \in S
    <3>1. PICK q \in Ports : \E j \in RequestPlaces(qs[q]) : y = <<q, j>>
      BY <1>4, <2>1
    <3>2. PICK j \in RequestPlaces(qs[q]) : y = <<q, j>>
      BY <3>1
    <3> QED BY <1>5, <2>1, <3>2
  <2>2. ASSUME NEW y \in S, y # z PROVE y \in T
    <3>1. PICK q \in Ports : \E j \in RequestPlaces(ps[q]) : y = <<q, j>>
      BY <1>4, <2>2
    <3>2. PICK j \in RequestPlaces(ps[q]) : y = <<q, j>>
      BY <3>1
    <3> QED BY <1>5, <2>2, <3>2
  <2> HIDE DEF z
  <2> QED BY <2>1, <2>2
<1>7. /\ Count(z, S) = Same(RightAt(ps[p], i), x)
      /\ Count(z, T) = Same(RightAt(r, i), x)
  BY <1>1, <1>2, <1>3 DEF Count, Same, OnlyAt
<1> HIDE DEF z
<1>8. /\ IsFiniteSet(T) /\ Cardinality(S) \in Nat /\ Cardinality(T) \in Nat
      /\ Cardinality(T) + Count(z, S) = Cardinality(S) + Count(z, T)
  <2>1. IsFiniteSet(S)
    BY DEF S
  <2> QED BY <1>6, <2>1, OneMoves
<1> QED BY <1>7, <1>8 DEF S, T, RequestsMove

\* The port takes the caller's right n as the request of place i, or drops it,
\* and hands the right registered there before to the caller.
LEMMA RequestStep ==
  ASSUME M4Inv, NEW p \in Ports, NEW r, RecordOK(r),
         NEW i, OnlyAt(port[p], r, i),
         NEW n \in PortOrNull, RightAt(r, i) \in {n, NoPort},
         r.refs = port[p].refs, r.msgs = port[p].msgs, r.so = port[p].so, r.s = port[p].s,
         r.dest = port[p].dest, r.st = port[p].st,
         Set(p, r), Traded(naked, naked', n, RightAt(port[p], i)), growing' = growing
  PROVE  M4Inv'
<1>1. /\ port \in [Ports -> PortRecords] /\ naked \in [Ports -> Rights]
      /\ growing \in [Growers -> Growths] /\ \A x \in Ports : RecordOK(port[x])
  BY DEF M4Inv, Shaped
<1>2. r \in PortRecords
  BY DEF RecordOK
<1>3. port' = [port EXCEPT ![p] = r] /\ naked' \in [Ports -> Rights]
  BY DEF Set, Traded
<1>4. Shaped(port', naked', growing)
  BY <1>1, <1>2, <1>3 DEF Shaped
<1>5. ASSUME NEW x \in Ports PROVE Counted(port', naked', growing, x)
  <2> DEFINE a == Cardinality(RequestsFor(port, x))
             b == Cardinality(SentTo(port, x))
             c == Cardinality(GrowingOn(growing, x))
             d == Cardinality(RequestsFor(port', x))
             old == port[x]
             new == port'[x]
  <2>1. /\ old \in PortRecords /\ naked[x] \in Rights /\ a \in Nat /\ b \in Nat /\ c \in Nat
        /\ Balanced(old, naked[x], a, b, c) /\ Finite(port, growing, x)
    BY PortFacts DEF M4Inv, Counted
  <2>2. IsFiniteSet(RequestsFor(port', x)) /\ d \in Nat
        /\ d + Same(RightAt(port[p], i), x) = a + Same(RightAt(r, i), x)
    <3>1. ASSUME NEW ps, NEW qs, ps = port, qs = port'
          PROVE  RequestsMove(ps, qs, p, r, i, x)
      <4>1. /\ ps \in [Ports -> PortRecords] /\ OnlyAt(ps[p], r, i)
            /\ qs = [ps EXCEPT ![p] = r] /\ IsFiniteSet(RequestsFor(ps, x))
        BY <1>1, <1>3, <2>1, <3>1 DEF Finite
      <4> QED BY ONLY <1>2, <4>1, p \in Ports, x \in Ports, OneRequest
    <3> QED BY <3>1 DEF RequestsMove
  <2>3. SentTo(port', x) = SentTo(port, x)
    BY <1>1, <1>3 DEF SentTo
  <2>4. Finite(port', growing, x)
    BY <2>1, <2>2, <2>3 DEF Finite
  <2>5. /\ new.refs = old.refs /\ new.msgs = old.msgs /\ new.so = old.so /\ new.s = old.s
        /\ new.st = old.st
    BY <1>1, <1>3
  <2>6. /\ naked'[x].s = naked[x].s
        /\ naked'[x].so + Same(x, n) = naked[x].so + Same(x, RightAt(port[p], i))
        /\ naked'[x].so \in Nat /\ naked'[x] \in Rights
    <3>1. naked'[x] \in Rights
      BY <1>3
    <3> QED BY <3>1 DEF Traded, Rights
  <2>7. PICK v \in {0, 1}, w \in {0, 1}, u \in {0, 1} :
          /\ v = Same(x, n) /\ w = Same(x, RightAt(port[p], i)) /\ u = Same(RightAt(r, i), x)
          /\ u <= v
    <3>1. RightAt(r, i) = x => x = n
      BY Mach4PortAssumption
    <3> QED BY <3>1 DEF Same
  <2>8. PICK s \in Nat, y \in Nat, z \in Nat, l \in Nat, k \in Nat, y1 \in Nat, o \in Nat :
          /\ s = naked[x].s /\ y = naked[x].so /\ z = old.msgs /\ l = Living(old)
          /\ k = old.refs /\ y1 = naked'[x].so /\ o = old.so
    BY <2>1, <2>6 DEF Rights, PortRecords, Living
  <2>9. Same(RightAt(port[p], i), x) = w
    BY <2>7 DEF Same
  <2>10. d + w = a + u /\ y1 + v = y + w
    BY <2>2, <2>6, <2>7, <2>8, <2>9
  <2>11. Living(new) = l
    BY <2>5, <2>8 DEF Living
  <2>12. /\ IF old.st = "free" THEN s + y + z + l + a + b + c = 0
                               ELSE k >= s + y + z + l + a + b + c
         /\ o >= y + a /\ (old.st \in {"active", "dying"} => old.s = s)
    BY <2>1, <2>8 DEF Balanced, Held
  <2> HIDE DEF a, b, c, d
  <2>13. y1 + d <= y + a
    BY <2>1, <2>2, <2>7, <2>10
  <2>14. s + y1 + z + l + d + b + c <= s + y + z + l + a + b + c
    BY <2>1, <2>2, <2>13
  <2>15. Balanced(new, naked'[x], d, b, c)
    <3>1. o >= y1 + d
      BY <2>1, <2>2, <2>12, <2>13
    <3>2. IF old.st = "free" THEN s + y1 + z + l + d + b + c = 0
                             ELSE k >= s + y1 + z + l + d + b + c
      BY <2>1, <2>2, <2>12, <2>14
    <3> HIDE DEF old, new
    <3> QED BY <2>5, <2>6, <2>8, <2>11, <2>12, <3>1, <3>2 DEF Balanced, Held
  <2> QED BY <2>3, <2>4, <2>15 DEF Counted, b, c, d
<1> QED BY <1>4, <1>5 DEF M4Inv

LEMMA TakenTrades ==
  ASSUME naked \in [Ports -> Rights], NEW n \in Ports
  PROVE  /\ naked[n].so > 0 => Traded(naked, [naked EXCEPT ![n].so = @ - 1], n, NoPort)
         /\ Traded(naked, [naked EXCEPT ![n].so = @ + 1], NoPort, n)
<1>1. n # NoPort /\ NoPort \notin Ports
  BY Mach4PortAssumption
<1>2. \A x \in Ports : naked[x] \in Rights /\ naked[x].so \in Nat /\ naked[x].s \in Nat
  BY DEF Rights
<1>3. ASSUME NEW v \in Nat, NEW mk, mk = [naked EXCEPT ![n].so = v], NEW x \in Ports
      PROVE  /\ mk[x] \in Rights /\ mk[x].s = naked[x].s
             /\ mk[x].so = IF x = n THEN v ELSE naked[x].so
  BY <1>2, <1>3 DEF Rights
<1>4. ASSUME naked[n].so > 0
      PROVE  Traded(naked, [naked EXCEPT ![n].so = @ - 1], n, NoPort)
  <2>1. PICK v \in Nat : v = naked[n].so - 1
    BY <1>2, <1>4
  <2>2. PICK mk : mk = [naked EXCEPT ![n].so = v]
    OBVIOUS
  <2>3. mk = [naked EXCEPT ![n].so = @ - 1]
    BY <2>1, <2>2
  <2>4. mk \in [Ports -> Rights]
    <3>1. \A x \in Ports : mk[x] \in Rights
      BY <1>3, <2>2
    <3> QED BY <2>2, <3>1
  <2>5. ASSUME NEW x \in Ports
        PROVE  mk[x].s = naked[x].s /\ mk[x].so + Same(x, n) = naked[x].so + Same(x, NoPort)
    BY <1>1, <1>2, <1>3, <2>1, <2>2 DEF Same
  <2>6. Traded(naked, mk, n, NoPort)
    BY <2>4, <2>5 DEF Traded
  <2> QED BY <2>3, <2>6
<1>5. Traded(naked, [naked EXCEPT ![n].so = @ + 1], NoPort, n)
  <2>1. PICK v \in Nat : v = naked[n].so + 1
    BY <1>2
  <2>2. PICK mk : mk = [naked EXCEPT ![n].so = v]
    OBVIOUS
  <2>3. mk = [naked EXCEPT ![n].so = @ + 1]
    BY <2>1, <2>2
  <2>4. mk \in [Ports -> Rights]
    <3>1. \A x \in Ports : mk[x] \in Rights
      BY <1>3, <2>2
    <3> QED BY <2>2, <3>1
  <2>5. ASSUME NEW x \in Ports
        PROVE  mk[x].s = naked[x].s /\ mk[x].so + Same(x, NoPort) = naked[x].so + Same(x, n)
    BY <1>1, <1>2, <1>3, <2>1, <2>2 DEF Same
  <2>6. Traded(naked, mk, NoPort, n)
    BY <2>4, <2>5 DEF Traded
  <2> QED BY <2>3, <2>6
<1> QED BY <1>4, <1>5

\* A record whose header changes in one place.
LEMMA HeaderOnly ==
  ASSUME NEW old \in PortRecords, NEW r, r.dn = old.dn
  PROVE  /\ r.ns = old.ns => OnlyAt(old, r, -1)
         /\ r.pd = old.pd => OnlyAt(old, r, 0)
         /\ RightAt(r, -1) = r.pd /\ RightAt(r, 0) = r.ns
<1>1. /\ RequestPlaces(old) = -1..Len(old.dn.slot) /\ Len(old.dn.slot) \in Nat
      /\ RequestPlaces(r) = RequestPlaces(old)
  BY DEF RequestPlaces, PortRecords, Tables
<1>2. /\ RightAt(r, -1) = r.pd /\ RightAt(r, 0) = r.ns
      /\ RightAt(old, -1) = old.pd /\ RightAt(old, 0) = old.ns
  BY DEF RightAt
<1>3. -1 \in RequestPlaces(old) /\ 0 \in RequestPlaces(old)
  BY <1>1
<1>4. \A j \in RequestPlaces(r) : j # -1 /\ j # 0 => RightAt(r, j) = RightAt(old, j)
  BY DEF RightAt
<1> QED BY <1>1, <1>2, <1>3, <1>4 DEF OnlyAt

LEMMA PdrequestKeeps ==
  ASSUME M4Inv, NEW p \in Ports, NEW n \in PortOrNull, ipc_port_pdrequest(p, n)
  PROVE  M4Inv'
<1> DEFINE old == port[p]
           r == [old EXCEPT !.pd = n]
<1>1. old \in PortRecords /\ RecordOK(old) /\ naked \in [Ports -> Rights] /\ old.pd \in PortOrNull
  BY PortFacts DEF PortRecords
<1>2. Set(p, r) /\ growing' = growing /\ naked' = Swapped(n, old.pd)
      /\ (n # NoPort => naked[n].so > 0)
  BY DEF ipc_port_pdrequest, MaySwap
<1>3. Traded(naked, naked', n, old.pd)
  BY <1>1, <1>2, SwappedTrades
<1>4. r \in PortRecords
  BY <1>1 DEF PortRecords
<1>5. /\ r.refs = old.refs /\ r.so = old.so /\ r.s = old.s /\ r.ns = old.ns /\ r.st = old.st
      /\ r.dn = old.dn /\ r.dest = old.dest /\ r.pd = n /\ r.inSpace = old.inSpace
      /\ r.rcv = old.rcv /\ r.msgs = old.msgs /\ r.ms = old.ms /\ r.sync = old.sync
      /\ r.blocked = old.blocked
  BY <1>1 DEF PortRecords
<1>6. RecordOK(r)
  BY <1>1, <1>4, <1>5 DEF RecordOK
<1>7. OnlyAt(old, r, -1) /\ RightAt(r, -1) = n /\ RightAt(old, -1) = old.pd
  BY <1>1, <1>5, HeaderOnly
<1> HIDE DEF r
<1>8. Traded(naked, naked', n, RightAt(port[p], -1)) /\ RightAt(r, -1) \in {n, NoPort}
  BY <1>3, <1>7
<1> QED BY <1>2, <1>5, <1>6, <1>7, <1>8, RequestStep

LEMMA NsrequestKeeps ==
  ASSUME M4Inv, NEW p \in Ports, NEW n \in PortOrNull, NEW sync \in 0..2,
         ipc_port_nsrequest(p, sync, n)
  PROVE  M4Inv'
<1> DEFINE old == port[p]
           atOnce == old.s = 0 /\ sync <= old.ms /\ n # NoPort
           ns == IF atOnce THEN NoPort ELSE n
           due == IF atOnce THEN old.sync ELSE sync
           r == [old EXCEPT !.ns = ns, !.sync = due]
<1>1. old \in PortRecords /\ RecordOK(old) /\ naked \in [Ports -> Rights] /\ old.ns \in PortOrNull
  BY PortFacts DEF PortRecords
<1>2. growing' = growing /\ naked' = Swapped(n, old.ns) /\ (n # NoPort => naked[n].so > 0)
  BY DEF ipc_port_nsrequest, MaySwap
<1>3. Traded(naked, naked', n, old.ns)
  BY <1>1, <1>2, SwappedTrades
<1>4. Set(p, r)
  <2>1. CASE atOnce
    <3>1. Set(p, [old EXCEPT !.ns = NoPort])
      BY <2>1 DEF ipc_port_nsrequest
    <3>2. [old EXCEPT !.ns = NoPort] = [old EXCEPT !.ns = NoPort, !.sync = old.sync]
      BY <1>1 DEF PortRecords
    <3> QED BY <2>1, <3>1, <3>2
  <2>2. CASE ~atOnce
    BY <2>2 DEF ipc_port_nsrequest
  <2> QED BY <2>1, <2>2
<1>5. /\ ns \in {n, NoPort} /\ ns \in PortOrNull /\ due \in Nat
      /\ ns # NoPort /\ old.s = 0 => old.ms < due
  BY <1>1 DEF PortRecords, PortOrNull
<1> HIDE DEF ns, due
<1>6. r \in PortRecords
  BY <1>1, <1>5 DEF PortRecords
<1>7. /\ r.refs = old.refs /\ r.so = old.so /\ r.s = old.s /\ r.ns = ns /\ r.st = old.st
      /\ r.dn = old.dn /\ r.dest = old.dest /\ r.pd = old.pd /\ r.inSpace = old.inSpace
      /\ r.rcv = old.rcv /\ r.msgs = old.msgs /\ r.ms = old.ms /\ r.sync = due
      /\ r.blocked = old.blocked
  BY <1>1 DEF PortRecords
<1>8. RecordOK(r)
  BY <1>1, <1>5, <1>6, <1>7 DEF RecordOK
<1>9. OnlyAt(old, r, 0) /\ RightAt(r, 0) = ns /\ RightAt(old, 0) = old.ns
  BY <1>1, <1>7, HeaderOnly
<1> HIDE DEF r
<1>10. Traded(naked, naked', n, RightAt(port[p], 0)) /\ RightAt(r, 0) \in {n, NoPort}
  BY <1>3, <1>5, <1>9
<1> QED BY <1>2, <1>4, <1>7, <1>8, <1>9, <1>10, RequestStep

\* A record whose table changes in one slot.
LEMMA SlotStep ==
  ASSUME M4Inv, NEW p \in Ports, NEW d, TableOK(d), NEW i \in DOMAIN port[p].dn.slot,
         Len(d.slot) = Len(port[p].dn.slot),
         \A j \in DOMAIN port[p].dn.slot : j # i => d.slot[j] = port[p].dn.slot[j],
         NEW n \in PortOrNull, d.slot[i].right \in {n, NoPort},
         Set(p, [port[p] EXCEPT !.dn = d]), growing' = growing,
         Traded(naked, naked', n, port[p].dn.slot[i].right)
  PROVE  M4Inv'
<1> DEFINE old == port[p]
           r == [old EXCEPT !.dn = d]
<1>1. old \in PortRecords /\ RecordOK(old) /\ d \in Tables
  BY PortFacts DEF TableOK
<1>2. /\ DOMAIN old.dn.slot = 1..Len(old.dn.slot) /\ Len(old.dn.slot) \in Nat
  <2>1. old.dn.slot \in Seq(Slots)
    BY <1>1 DEF PortRecords, Tables
  <2>2. \A s \in Seq(Slots) : DOMAIN s = 1..Len(s) /\ Len(s) \in Nat
    OBVIOUS
  <2> HIDE DEF old
  <2> QED BY <2>1, <2>2
<1>3. r \in PortRecords
  BY <1>1 DEF PortRecords
<1>4. /\ r.refs = old.refs /\ r.so = old.so /\ r.s = old.s /\ r.ns = old.ns /\ r.st = old.st
      /\ r.dn = d /\ r.dest = old.dest /\ r.pd = old.pd /\ r.inSpace = old.inSpace
      /\ r.rcv = old.rcv /\ r.msgs = old.msgs /\ r.ms = old.ms /\ r.sync = old.sync
      /\ r.blocked = old.blocked
  BY <1>1 DEF PortRecords
<1>5. RecordOK(r)
  BY <1>1, <1>3, <1>4 DEF RecordOK
<1>6. OnlyAt(old, r, i)
  <2>1. RequestPlaces(r) = RequestPlaces(old) /\ RequestPlaces(old) = -1..Len(old.dn.slot)
    BY <1>4 DEF RequestPlaces
  <2>2. i \in RequestPlaces(old)
    BY <1>2, <2>1
  <2>3. ASSUME NEW j \in RequestPlaces(r), j # i PROVE RightAt(r, j) = RightAt(old, j)
    <3>1. CASE j = -1 \/ j = 0
      <4> HIDE DEF r, old
      <4> QED BY <1>4, <3>1 DEF RightAt
    <3>2. CASE j # -1 /\ j # 0
      <4>1. j \in DOMAIN old.dn.slot
        BY <1>2, <2>1, <2>3, <3>2
      <4>2. d.slot[j] = old.dn.slot[j]
        BY <2>3, <4>1
      <4>3. RightAt(r, j) = r.dn.slot[j].right /\ RightAt(old, j) = old.dn.slot[j].right
        BY <3>2 DEF RightAt
      <4> QED BY <1>4, <4>2, <4>3
    <3> QED BY <3>1, <3>2
  <2> QED BY <2>1, <2>2, <2>3 DEF OnlyAt
<1>7. RightAt(r, i) = d.slot[i].right /\ RightAt(old, i) = old.dn.slot[i].right
  <2>1. i # -1 /\ i # 0
    BY <1>2
  <2> HIDE DEF r, old
  <2> QED BY <1>4, <2>1 DEF RightAt
<1> HIDE DEF r
<1>8. Traded(naked, naked', n, RightAt(port[p], i)) /\ RightAt(r, i) \in {n, NoPort}
  BY <1>7
<1>9. Set(p, r)
  BY DEF r
<1> QED BY <1>4, <1>5, <1>6, <1>8, <1>9, RequestStep

LEMMA TableWith ==
  ASSUME NEW dn \in Tables, NEW v \in Nat, NEW s \in Seq(Slots), NEW d,
         d = [its |-> dn.its, next |-> v, slot |-> s]
  PROVE  /\ [[dn EXCEPT !.next = v] EXCEPT !.slot = s] = d
         /\ [[dn EXCEPT !.slot = s] EXCEPT !.next = v] = d
<1>1. [[dn EXCEPT !.next = v] EXCEPT !.slot = s] = d
  <2> DEFINE a == [dn EXCEPT !.next = v]
  <2>1. a \in Tables /\ a.its = dn.its /\ a.next = v
    BY DEF Tables
  <2> HIDE DEF a
  <2>2. [a EXCEPT !.slot = s] = [its |-> a.its, next |-> a.next, slot |-> s]
    BY <2>1 DEF Tables
  <2> QED BY <2>1, <2>2 DEF a
<1>2. [[dn EXCEPT !.slot = s] EXCEPT !.next = v] = d
  <2> DEFINE a == [dn EXCEPT !.slot = s]
  <2>1. a \in Tables /\ a.its = dn.its /\ a.slot = s
    BY DEF Tables
  <2> HIDE DEF a
  <2>2. [a EXCEPT !.next = v] = [its |-> a.its, next |-> v, slot |-> a.slot]
    BY <2>1, SMTT(30) DEF Tables
  <2> QED BY <2>1, <2>2 DEF a
<1> QED BY <1>1, <1>2

LEMMA DnrequestKeeps ==
  ASSUME M4Inv, NEW p \in Ports, NEW name \in PortNames, NEW n \in Ports,
         ipc_port_dnrequest(p, name, n)
  PROVE  M4Inv'
<1> DEFINE dn == port[p].dn
           i == dn.next
           d == Taken(dn, name, n)
<1>1. port[p] \in PortRecords /\ TableOK(dn) /\ naked \in [Ports -> Rights]
  BY PortFacts DEF RecordOK
<1>2. /\ growing' = growing /\ naked' = [naked EXCEPT ![n].so = @ - 1] /\ naked[n].so > 0
      /\ dn.next # 0
  BY DEF ipc_port_dnrequest
<1>3. /\ TableOK(d) /\ i \in DOMAIN dn.slot /\ dn.slot[i].right = NoPort
      /\ Len(d.slot) = Len(dn.slot)
  <2> HIDE DEF dn
  <2> QED BY <1>1, <1>2, TakenOK
<1>4. Set(p, [port[p] EXCEPT !.dn = d])
  <2>1. Set(p, [port[p] EXCEPT !.dn.next = dn.slot[i].next,
                               !.dn.slot[i] = [name |-> name, next |-> 0, right |-> n]])
    BY DEF ipc_port_dnrequest
  <2>2. dn \in Tables
    BY <1>1 DEF TableOK
  <2> DEFINE v == dn.slot[i].next
             w == [name |-> name, next |-> 0, right |-> n]
             s == [dn.slot EXCEPT ![i] = w]
  <2>3. Set(p, [port[p] EXCEPT !.dn.next = v, !.dn.slot = s])
    BY <1>1, <2>1 DEF PortRecords
  <2>4. d = [its |-> dn.its, next |-> v, slot |-> s]
    BY DEF Taken
  <2>5. [port[p] EXCEPT !.dn.next = v, !.dn.slot = s] = [port[p] EXCEPT !.dn = d]
    <3>1. [[dn EXCEPT !.next = v] EXCEPT !.slot = s] = d
      <4>1. d \in Tables
        BY <1>3 DEF TableOK
      <4>2. v \in Nat /\ s \in Seq(Slots)
        <5>1. d.next = v /\ d.slot = s
          BY <2>4
        <5> HIDE DEF d, v, s
        <5> QED BY <4>1, <5>1 DEF Tables
      <4> HIDE DEF dn, d, v, s
      <4> QED BY <2>2, <2>4, <4>2, TableWith, Zenon
    <3> HIDE DEF v, s, i
    <3> HIDE DEF d
    <3> QED BY <1>1, <3>1 DEF PortRecords
  <2> QED BY <2>3, <2>5
<1>5. /\ \A j \in DOMAIN dn.slot : j # i => d.slot[j] = dn.slot[j]
      /\ d.slot[i].right = n
  <2>1. d.slot = [dn.slot EXCEPT ![i] = [name |-> name, next |-> 0, right |-> n]]
    BY DEF Taken
  <2> HIDE DEF d, dn, i
  <2> QED BY <1>3, <2>1
<1>6. Traded(naked, naked', n, port[p].dn.slot[i].right)
  <2>1. Traded(naked, naked', n, NoPort)
    BY <1>1, <1>2, TakenTrades
  <2> QED BY <1>3, <2>1
<1>7. n \in PortOrNull
  BY DEF PortOrNull
<1> HIDE DEF d
<1> QED BY <1>2, <1>3, <1>4, <1>5, <1>6, <1>7, SlotStep

LEMMA DncancelKeeps ==
  ASSUME M4Inv, NEW p \in Ports, NEW i, ipc_port_dncancel(p, i)
  PROVE  M4Inv'
<1> DEFINE dn == port[p].dn
           d == Returned(dn, i)
           n == dn.slot[i].right
<1>1. port[p] \in PortRecords /\ TableOK(dn) /\ naked \in [Ports -> Rights]
  BY PortFacts DEF RecordOK
<1>2. /\ growing' = growing /\ naked' = [naked EXCEPT ![n].so = @ + 1]
      /\ i \in DOMAIN dn.slot /\ dn.slot[i].name # NoPort
  BY DEF ipc_port_dncancel
<1>3. TableOK(d) /\ n \in Ports /\ Len(d.slot) = Len(dn.slot)
  <2> HIDE DEF dn
  <2> QED BY <1>1, <1>2, ReturnedOK
<1>4. Set(p, [port[p] EXCEPT !.dn = d])
  <2>1. Set(p, [port[p] EXCEPT !.dn.slot[i] = FreeSlot(dn.next), !.dn.next = i])
    BY DEF ipc_port_dncancel
  <2>2. dn \in Tables
    BY <1>1 DEF TableOK
  <2> DEFINE s == [dn.slot EXCEPT ![i] = FreeSlot(dn.next)]
  <2>3. Set(p, [port[p] EXCEPT !.dn.slot = s, !.dn.next = i])
    BY <1>1, <2>1 DEF PortRecords
  <2>4. d = [its |-> dn.its, next |-> i, slot |-> s]
    BY DEF Returned
  <2>5. [port[p] EXCEPT !.dn.slot = s, !.dn.next = i] = [port[p] EXCEPT !.dn = d]
    <3>1. [[dn EXCEPT !.slot = s] EXCEPT !.next = i] = d
      <4>1. d \in Tables
        BY <1>3 DEF TableOK
      <4>2. i \in Nat /\ s \in Seq(Slots)
        <5>1. d.next = i /\ d.slot = s
          BY <2>4
        <5> HIDE DEF d, s
        <5> QED BY <4>1, <5>1 DEF Tables
      <4> HIDE DEF dn, d, s
      <4> QED BY <2>2, <2>4, <4>2, TableWith, Zenon
    <3> HIDE DEF s
    <3> HIDE DEF d
    <3> QED BY <1>1, <3>1 DEF PortRecords
  <2> QED BY <2>3, <2>5
<1>5. /\ \A j \in DOMAIN dn.slot : j # i => d.slot[j] = dn.slot[j]
      /\ d.slot[i].right = NoPort
  <2>1. d.slot = [dn.slot EXCEPT ![i] = FreeSlot(dn.next)]
    BY DEF Returned
  <2>2. FreeSlot(dn.next).right = NoPort
    BY DEF FreeSlot
  <2> HIDE DEF d, dn
  <2> QED BY <1>2, <2>1, <2>2
<1>6. Traded(naked, naked', NoPort, n)
  <2> HIDE DEF n
  <2> QED BY <1>1, <1>2, <1>3, TakenTrades
<1>7. NoPort \in PortOrNull /\ Traded(naked, naked', NoPort, port[p].dn.slot[i].right)
  BY <1>6 DEF PortOrNull
<1> HIDE DEF d
<1> QED BY <1>2, <1>3, <1>4, <1>5, <1>7, SlotStep

-----------------------------------------------------------------------------
(* The end of a port: its right of receipt goes to its backup, or it dies.   *)

\* Requests and destinations are all that other ports see of a record.
LEMMA SeenSame ==
  ASSUME NEW ps \in [Ports -> PortRecords], NEW qs \in [Ports -> PortRecords],
         \A q \in Ports : /\ qs[q].dn = ps[q].dn /\ qs[q].ns = ps[q].ns
                          /\ qs[q].pd = ps[q].pd /\ qs[q].dest = ps[q].dest,
         NEW x \in Ports
  PROVE  RequestsFor(qs, x) = RequestsFor(ps, x) /\ SentTo(qs, x) = SentTo(ps, x)
<1>1. ASSUME NEW q \in Ports
      PROVE  /\ RequestPlaces(qs[q]) = RequestPlaces(ps[q])
             /\ \A i \in RequestPlaces(ps[q]) : RightAt(qs[q], i) = RightAt(ps[q], i)
  BY DEF RequestPlaces, RightAt
<1>2. RequestsFor(qs, x) = RequestsFor(ps, x)
  <2>1. ASSUME NEW q \in Ports
        PROVE  {i \in RequestPlaces(qs[q]) : RightAt(qs[q], i) = x}
                 = {i \in RequestPlaces(ps[q]) : RightAt(ps[q], i) = x}
    BY <1>1
  <2> QED BY <2>1 DEF RequestsFor
<1> QED BY <1>2 DEF SentTo

\* The ports sent to x, when port p goes from ps to the record r.
SentMove(ps, qs, p, r, x) ==
  /\ IsFiniteSet(SentTo(qs, x))
  /\ Cardinality(SentTo(ps, x)) \in Nat /\ Cardinality(SentTo(qs, x)) \in Nat
  /\ Cardinality(SentTo(qs, x)) + Same(ps[p].dest, x)
       = Cardinality(SentTo(ps, x)) + Same(r.dest, x)

LEMMA OneSent ==
  ASSUME NEW ps \in [Ports -> PortRecords], NEW p \in Ports, NEW r \in PortRecords,
         NEW qs, qs = [ps EXCEPT ![p] = r], NEW x \in Ports, IsFiniteSet(SentTo(ps, x))
  PROVE  SentMove(ps, qs, p, r, x)
<1> DEFINE S == SentTo(ps, x)
           T == SentTo(qs, x)
<1>1. T \ {p} = S \ {p}
  BY DEF SentTo
<1>2. Count(p, S) = Same(ps[p].dest, x) /\ Count(p, T) = Same(r.dest, x)
  BY DEF Count, Same, SentTo
<1>3. IsFiniteSet(S)
  OBVIOUS
<1> HIDE DEF S, T
<1>4. /\ IsFiniteSet(T) /\ Cardinality(S) \in Nat /\ Cardinality(T) \in Nat
      /\ Cardinality(T) + Count(p, S) = Cardinality(S) + Count(p, T)
  BY <1>1, <1>3, OneMoves
<1> QED BY <1>2, <1>4 DEF S, T, SentMove

\* A record whose references and send-once rights are counted anew.
Recount(r, k, w) == [r EXCEPT !.refs = k, !.so = w]
Recounting(ps, d, k, w) == [ps EXCEPT ![d] = Recount(ps[d], k, w)]

LEMMA RecountOK ==
  ASSUME NEW r, RecordOK(r), NEW k \in Nat, NEW w \in Nat, NEW u, u = Recount(r, k, w)
  PROVE  /\ RecordOK(u) /\ u \in PortRecords /\ u.refs = k /\ u.so = w
         /\ u.dn = r.dn /\ u.ns = r.ns /\ u.pd = r.pd /\ u.dest = r.dest
         /\ u.msgs = r.msgs /\ u.s = r.s /\ u.st = r.st
<1>1. r \in PortRecords
  BY DEF RecordOK
<1>2. u \in PortRecords
  BY <1>1 DEF Recount, PortRecords
<1>3. /\ u.refs = k /\ u.so = w /\ u.dn = r.dn /\ u.ns = r.ns /\ u.pd = r.pd /\ u.dest = r.dest
      /\ u.msgs = r.msgs /\ u.s = r.s /\ u.st = r.st /\ u.inSpace = r.inSpace
      /\ u.blocked = r.blocked /\ u.rcv = r.rcv /\ u.ms = r.ms /\ u.sync = r.sync
  BY <1>1 DEF Recount, PortRecords
<1>4. RecordOK(u)
  BY <1>2, <1>3 DEF RecordOK
<1> QED BY <1>2, <1>3, <1>4

\* Port p gives up its backup or its destination, or takes the first for the
\* second, and the references and send-once rights of d follow.
LEMMA HandOver ==
  ASSUME M4Inv, NEW p \in Ports, NEW r, RecordOK(r), r.dn = port[p].dn, r.ns = port[p].ns,
         r.refs = port[p].refs, r.so = port[p].so, r.msgs = port[p].msgs, r.s = port[p].s,
         port[p].st = "active", r.st \in {"active", "dying"}, r.pd \in {NoPort, port[p].pd},
         NEW mid, mid = [port EXCEPT ![p] = r],
         NEW d \in Ports, NEW k \in Nat, NEW w \in Nat,
         port' = Recounting(mid, d, k, w), UNCHANGED <<naked, growing>>,
         \A x \in Ports : Same(r.pd, x) + Same(r.dest, x)
                            <= Same(port[p].pd, x) + Same(port[p].dest, x),
         k + Same(port[p].pd, d) + Same(port[p].dest, d)
           >= port[d].refs + Same(r.pd, d) + Same(r.dest, d),
         w + Same(port[p].pd, d) >= port[d].so + Same(r.pd, d)
  PROVE  M4Inv'
<1>1. /\ port \in [Ports -> PortRecords] /\ naked \in [Ports -> Rights]
      /\ growing \in [Growers -> Growths] /\ \A x \in Ports : RecordOK(port[x])
  BY DEF M4Inv, Shaped
<1>2. /\ mid \in [Ports -> PortRecords] /\ \A x \in Ports : RecordOK(mid[x])
  BY <1>1 DEF RecordOK
<1>3. PICK u : u = Recount(mid[d], k, w)
  OBVIOUS
<1>4. /\ RecordOK(u) /\ u \in PortRecords /\ u.refs = k /\ u.so = w
      /\ u.dn = mid[d].dn /\ u.ns = mid[d].ns /\ u.pd = mid[d].pd /\ u.dest = mid[d].dest
      /\ u.msgs = mid[d].msgs /\ u.s = mid[d].s /\ u.st = mid[d].st
  BY <1>2, <1>3, RecountOK
<1>5. PICK qs : qs = [mid EXCEPT ![d] = u] /\ qs = port'
  BY <1>3 DEF Recounting
<1>6. /\ qs \in [Ports -> PortRecords] /\ \A x \in Ports : RecordOK(qs[x])
  BY <1>2, <1>4, <1>5
<1>7. Shaped(qs, naked', growing')
  BY <1>1, <1>6 DEF Shaped
<1>8. ASSUME NEW x \in Ports PROVE Counted(qs, naked, growing, x)
  <2> DEFINE a == Cardinality(RequestsFor(port, x))
             b == Cardinality(SentTo(port, x))
             c == Cardinality(GrowingOn(growing, x))
             a1 == Cardinality(RequestsFor(qs, x))
             b1 == Cardinality(SentTo(qs, x))
             old == port[x]
             new == qs[x]
  <2>1. /\ old \in PortRecords /\ naked[x] \in Rights /\ a \in Nat /\ b \in Nat /\ c \in Nat
        /\ Balanced(old, naked[x], a, b, c) /\ Finite(port, growing, x)
    BY PortFacts DEF M4Inv, Counted
  <2>2. RequestsFor(qs, x) = RequestsFor(mid, x) /\ SentTo(qs, x) = SentTo(mid, x)
    <3>1. \A q \in Ports : /\ qs[q].dn = mid[q].dn /\ qs[q].ns = mid[q].ns
                           /\ qs[q].pd = mid[q].pd /\ qs[q].dest = mid[q].dest
      BY <1>2, <1>4, <1>5
    <3> QED BY ONLY <1>2, <1>6, <3>1, x \in Ports, SeenSame
  <2>3. PICK ps : ps = port
    OBVIOUS
  <2>4. RequestsMove(ps, mid, p, r, -1, x) /\ SentMove(ps, mid, p, r, x)
    <3>1. /\ ps \in [Ports -> PortRecords] /\ r \in PortRecords /\ mid = [ps EXCEPT ![p] = r]
          /\ IsFiniteSet(RequestsFor(ps, x)) /\ IsFiniteSet(SentTo(ps, x))
      BY <1>1, <2>1, <2>3 DEF Finite, RecordOK
    <3>2. OnlyAt(ps[p], r, -1)
      BY <2>3, <3>1, HeaderOnly
    <3>3. RequestsMove(ps, mid, p, r, -1, x)
      BY ONLY <3>1, <3>2, p \in Ports, x \in Ports, OneRequest
    <3>4. SentMove(ps, mid, p, r, x)
      BY ONLY <3>1, p \in Ports, x \in Ports, OneSent
    <3> QED BY <3>3, <3>4
  <2>5. PICK pd \in Nat, pd1 \in Nat, to \in Nat, to1 \in Nat :
          /\ pd = Same(port[p].pd, x) /\ pd1 = Same(r.pd, x)
          /\ to = Same(port[p].dest, x) /\ to1 = Same(r.dest, x)
          /\ pd1 <= pd
    <3>1. r.pd = x => port[p].pd = x
      BY Mach4PortAssumption
    <3> QED BY <3>1 DEF Same
  <2>6. /\ a1 \in Nat /\ b1 \in Nat /\ a1 + pd = a + pd1 /\ b1 + to = b + to1
        /\ Finite(qs, growing, x)
    <3>1. RightAt(port[p], -1) = port[p].pd /\ RightAt(r, -1) = r.pd
      BY DEF RightAt
    <3> QED BY <2>1, <2>2, <2>3, <2>4, <2>5, <3>1 DEF RequestsMove, SentMove, Finite
  <2>7. pd1 + to1 <= pd + to
    BY <2>5
  <2>8. PICK s \in Nat, y \in Nat, z \in Nat, l \in Nat, o \in Nat, h \in Nat :
          /\ s = naked[x].s /\ y = naked[x].so /\ z = old.msgs /\ l = Living(old)
          /\ o = old.refs /\ h = old.so
    BY <2>1 DEF Rights, PortRecords, Living
  <2>9. /\ new.msgs = old.msgs /\ new.s = old.s /\ Living(new) = l
        /\ new.st = "free" <=> old.st = "free"
        /\ new.st \in {"active", "dying"} <=> old.st \in {"active", "dying"}
    <3>1. mid[x].msgs = old.msgs /\ mid[x].s = old.s
          /\ (mid[x].st = old.st \/ (old.st = "active" /\ mid[x].st = "dying"))
      BY <1>1
    <3>2. new.msgs = mid[x].msgs /\ new.s = mid[x].s /\ new.st = mid[x].st
      BY <1>2, <1>4, <1>5
    <3> HIDE DEF old, new
    <3> QED BY <2>8, <3>1, <3>2 DEF Living
  <2>10. PICK k1 \in Nat, w1 \in Nat :
           /\ k1 = new.refs /\ w1 = new.so
           /\ k1 + pd + to >= o + pd1 + to1 /\ w1 + pd >= h + pd1
    <3>1. CASE x = d
      <4>1. new.refs = k /\ new.so = w
        BY <1>2, <1>4, <1>5, <3>1
      <4>2. k + pd + to >= o + pd1 + to1 /\ w + pd >= h + pd1
        BY <2>5, <2>8, <3>1
      <4> QED BY <4>1, <4>2
    <3>2. CASE x # d
      <4>1. new.refs = o /\ new.so = h
        BY <1>1, <1>2, <1>5, <2>8, <3>2
      <4>2. o + pd + to >= o + pd1 + to1 /\ h + pd >= h + pd1
        BY <2>5, <2>7
      <4> QED BY <4>1, <4>2
    <3> QED BY <3>1, <3>2
  <2>11. /\ IF old.st = "free" THEN s + y + z + l + a + b + c = 0
                               ELSE o >= s + y + z + l + a + b + c
         /\ h >= y + a /\ (old.st \in {"active", "dying"} => old.s = s)
    BY <2>1, <2>8 DEF Balanced, Held
  <2> HIDE DEF a, b, c, a1, b1
  <2>12. /\ s + y + z + l + a1 + b1 + c <= s + y + z + l + a + b + c
         /\ o >= s + y + z + l + a + b + c => k1 >= s + y + z + l + a1 + b1 + c
         /\ h >= y + a => w1 >= y + a1
    <3>0. /\ a \in Nat /\ b \in Nat /\ a1 \in Nat /\ b1 \in Nat
          /\ a1 + pd = a + pd1 /\ b1 + to = b + to1 /\ pd1 + to1 <= pd + to
          /\ k1 + pd + to >= o + pd1 + to1 /\ w1 + pd >= h + pd1
      BY <2>1, <2>6, <2>7, <2>10
    <3>1. a1 + b1 <= a + b /\ k1 + a + b >= o + a1 + b1 /\ w1 + a >= h + a1
      <4>1. w1 + a >= h + a1
        BY <3>0
      <4>2. a1 + b1 <= a + b
        BY <3>0
      <4>3. k1 + a + b >= o + a1 + b1
        BY <3>0
      <4> QED BY <4>1, <4>2, <4>3
    <3>2. s + y + z + l + a1 + b1 + c <= s + y + z + l + a + b + c
      BY <2>1, <2>6, <3>1
    <3>3. o >= s + y + z + l + a + b + c => k1 >= s + y + z + l + a1 + b1 + c
      BY <2>1, <2>6, <3>1
    <3>4. h >= y + a => w1 >= y + a1
      BY <2>1, <2>6, <3>1
    <3> QED BY <3>2, <3>3, <3>4
  <2>13. Balanced(new, naked[x], a1, b1, c)
    <3>1. IF old.st = "free" THEN s + y + z + l + a1 + b1 + c = 0
                             ELSE k1 >= s + y + z + l + a1 + b1 + c
      <4>1. s + y + z + l + a1 + b1 + c \in Nat /\ s + y + z + l + a + b + c \in Nat
        BY <2>1, <2>6
      <4>2. CASE old.st = "free"
        BY <2>11, <2>12, <4>1, <4>2
      <4>3. CASE old.st # "free"
        BY <2>11, <2>12, <4>3
      <4> QED BY <4>2, <4>3
    <3> HIDE DEF old, new
    <3> QED BY <2>8, <2>9, <2>10, <2>11, <2>12, <3>1 DEF Balanced, Held
  <2> QED BY <2>6, <2>13 DEF Counted, a1, b1, c
<1> QED BY <1>5, <1>7, <1>8 DEF M4Inv

\* A port that is named as a backup or a destination has its element.
LEMMA NamedExists ==
  ASSUME M4Inv, NEW p \in Ports, NEW d \in Ports
  PROVE  /\ port[p].pd = d => port[d].refs - 1 \in Nat /\ port[d].so - 1 \in Nat
         /\ port[p].dest = d => port[d].refs - 1 \in Nat
<1> DEFINE a == Cardinality(RequestsFor(port, d))
           b == Cardinality(SentTo(port, d))
           c == Cardinality(GrowingOn(growing, d))
<1>1. /\ port[d] \in PortRecords /\ naked[d] \in Rights /\ a \in Nat /\ b \in Nat /\ c \in Nat
      /\ Balanced(port[d], naked[d], a, b, c) /\ Finite(port, growing, d)
  BY PortFacts DEF M4Inv, Counted
<1>2. PICK x \in Nat, y \in Nat, z \in Nat, l \in Nat, k \in Nat, w \in Nat :
        /\ x = naked[d].s /\ y = naked[d].so /\ z = port[d].msgs /\ l = Living(port[d])
        /\ k = port[d].refs /\ w = port[d].so
  BY <1>1 DEF Rights, PortRecords, Living
<1>3. port[p].pd = d => a # 0
  <2>1. SUFFICES ASSUME port[p].pd = d PROVE a # 0
    OBVIOUS
  <2>2. -1 \in RequestPlaces(port[p]) /\ RightAt(port[p], -1) = d
    <3>1. Len(port[p].dn.slot) \in Nat
      <4>1. port[p].dn.slot \in Seq(Slots)
        BY PortFacts DEF PortRecords, Tables
      <4> QED BY <4>1
    <3> QED BY <2>1, <3>1 DEF RequestPlaces, RightAt
  <2>3. <<p, -1>> \in RequestsFor(port, d)
    BY <2>2 DEF RequestsFor
  <2> QED BY <1>1, <2>3, FS_EmptySet DEF Finite
<1>4. port[p].dest = d => b # 0
  <2>1. port[p].dest = d => p \in SentTo(port, d)
    BY DEF SentTo
  <2> QED BY <1>1, <2>1, FS_EmptySet DEF Finite
<1> HIDE DEF a, b, c
<1>5. a # 0 \/ b # 0 => k >= 1
  <2>1. a # 0 \/ b # 0 => x + y + z + l + a + b + c # 0
    BY <1>1
  <2>2. a # 0 \/ b # 0 => k >= x + y + z + l + a + b + c
    BY <1>1, <1>2, <2>1 DEF Balanced, Held
  <2>3. x + y + z + l + a + b + c \in Nat
    BY <1>1
  <2> QED BY <2>1, <2>2, <2>3
<1>6. w >= y + a
  BY <1>1, <1>2 DEF Balanced
<1>7. a # 0 => w >= 1
  BY <1>1, <1>6
<1> QED BY <1>2, <1>3, <1>4, <1>5, <1>7

\* What is left of a port that leaves its space: its receiver is cleared.
LeftBehind(old, r) ==
  /\ RecordOK(r) /\ r \in PortRecords /\ r.pd = NoPort
  /\ r.dn = old.dn /\ r.ns = old.ns /\ r.refs = old.refs /\ r.so = old.so
  /\ r.msgs = old.msgs /\ r.s = old.s

Limbo(r) == [Cleared(r) EXCEPT !.pd = NoPort, !.inSpace = FALSE, !.dest = NoPort]
SentOn(r) == [Limbo(r) EXCEPT !.dest = r.pd]
Killed(r) == Dying(Limbo(r))

LEMMA LimboOK ==
  ASSUME NEW old, RecordOK(old), old.st = "active"
  PROVE  /\ LeftBehind(old, SentOn(old)) /\ SentOn(old).dest = old.pd
         /\ SentOn(old).st = "active"
         /\ LeftBehind(old, Killed(old)) /\ Killed(old).dest = NoPort
         /\ Killed(old).st = "dying" /\ Cleared(old).pd = old.pd
<1> DEFINE c == Cleared(old)
           limbo == Limbo(old)
           dest == old.pd
<1>1. old \in PortRecords
  BY DEF RecordOK
<1>2. /\ c \in PortRecords /\ c.rcv = 0 /\ c.ms = 0 /\ c.pd = old.pd /\ c.st = "active"
      /\ c.dn = old.dn /\ c.ns = old.ns /\ c.refs = old.refs /\ c.so = old.so
      /\ c.msgs = old.msgs /\ c.s = old.s /\ c.sync = old.sync
  BY <1>1 DEF Cleared, PortRecords
<1>d. limbo = [c EXCEPT !.pd = NoPort, !.inSpace = FALSE, !.dest = NoPort] /\ dest \in PortOrNull
  BY <1>1 DEF Limbo, PortRecords
<1> HIDE DEF c, limbo, dest
<1>3. /\ limbo \in PortRecords /\ limbo.rcv = 0 /\ limbo.ms = 0 /\ limbo.pd = NoPort
      /\ limbo.st = "active" /\ limbo.inSpace = FALSE /\ limbo.dest = NoPort
      /\ limbo.dn = old.dn /\ limbo.ns = old.ns /\ limbo.refs = old.refs /\ limbo.so = old.so
      /\ limbo.msgs = old.msgs /\ limbo.s = old.s /\ limbo.sync = old.sync
  BY <1>2, <1>d DEF PortRecords, PortOrNull
<1>4. old.ns # NoPort /\ old.s = 0 => 0 < old.sync
  BY <1>1 DEF RecordOK, PortRecords
<1>5. ASSUME NEW r, r = [limbo EXCEPT !.dest = dest]
      PROVE  /\ RecordOK(r) /\ r \in PortRecords /\ r.dest = dest /\ r.st = "active"
             /\ r.pd = NoPort /\ r.dn = old.dn /\ r.ns = old.ns /\ r.refs = old.refs
             /\ r.so = old.so /\ r.msgs = old.msgs /\ r.s = old.s
  <2>1. /\ r \in PortRecords /\ r.dest = dest /\ r.st = "active" /\ r.rcv = 0 /\ r.ms = 0
        /\ r.pd = NoPort /\ r.dn = old.dn /\ r.ns = old.ns /\ r.refs = old.refs
        /\ r.so = old.so /\ r.msgs = old.msgs /\ r.s = old.s /\ r.sync = old.sync
    <3>1. r \in PortRecords
      BY <1>3, <1>5, <1>d, ZenonT(60) DEF PortRecords
    <3>2. /\ r.dest = dest /\ r.st = limbo.st /\ r.rcv = limbo.rcv /\ r.ms = limbo.ms
          /\ r.pd = limbo.pd /\ r.dn = limbo.dn /\ r.ns = limbo.ns /\ r.refs = limbo.refs
          /\ r.so = limbo.so /\ r.msgs = limbo.msgs /\ r.s = limbo.s /\ r.sync = limbo.sync
      BY <1>3, <1>5 DEF PortRecords
    <3> QED BY <1>3, <3>1, <3>2
  <2>2. TableOK(old.dn)
    BY DEF RecordOK
  <2> QED BY <1>4, <2>1, <2>2 DEF RecordOK
<1>6. ASSUME NEW r, r = Dying(limbo)
      PROVE  /\ RecordOK(r) /\ r \in PortRecords /\ r.dest = NoPort /\ r.st = "dying"
             /\ r.pd = NoPort /\ r.dn = old.dn /\ r.ns = old.ns /\ r.refs = old.refs
             /\ r.so = old.so /\ r.msgs = old.msgs /\ r.s = old.s
  <2>1. /\ r \in PortRecords /\ r.dest = NoPort /\ r.st = "dying" /\ r.rcv = 0 /\ r.blocked = 0
        /\ r.pd = NoPort /\ r.dn = old.dn /\ r.ns = old.ns /\ r.refs = old.refs
        /\ r.so = old.so /\ r.msgs = old.msgs /\ r.s = old.s
    <3>1. r \in PortRecords
      <4>1. NoPort \in PortOrNull
        BY DEF PortOrNull
      <4>2. [limbo EXCEPT !.blocked = 0, !.st = "dying"] \in PortRecords
        <5>1. limbo \in PortRecords
          BY <1>3
        <5>2. PICK u : u = [limbo EXCEPT !.blocked = 0]
          OBVIOUS
        <5>3. u \in PortRecords
          BY <5>1, <5>2 DEF PortRecords
        <5>4. [u EXCEPT !.st = "dying"] \in PortRecords
          BY <5>3 DEF PortRecords
        <5>5. [limbo EXCEPT !.blocked = 0, !.st = "dying"] = [u EXCEPT !.st = "dying"]
          BY <5>2
        <5> QED BY <5>4, <5>5
      <4>3. [[limbo EXCEPT !.blocked = 0, !.st = "dying"] EXCEPT !.inSpace = FALSE, !.dest = NoPort]
              \in PortRecords
        BY <4>1, <4>2 DEF PortRecords
      <4> QED BY <1>6, <4>3 DEF Dying
    <3>2. /\ r.dest = NoPort /\ r.st = "dying" /\ r.rcv = limbo.rcv /\ r.blocked = 0
          /\ r.pd = limbo.pd /\ r.dn = limbo.dn /\ r.ns = limbo.ns /\ r.refs = limbo.refs
          /\ r.so = limbo.so /\ r.msgs = limbo.msgs /\ r.s = limbo.s
      BY <1>3, <1>6 DEF Dying, PortRecords
    <3> QED BY <1>3, <3>1, <3>2
  <2>2. TableOK(old.dn)
    BY DEF RecordOK
  <2> QED BY <2>1, <2>2 DEF RecordOK
<1> QED BY <1>2, <1>5, <1>6 DEF LeftBehind, SentOn, Killed, c, limbo, dest

\* The stub of a notification drops the send-once right and its reference.
Dropped(ps, d) == [ps EXCEPT ![d].so = @ - 1, ![d].refs = @ - 1]

LEMMA Recounted ==
  ASSUME NEW mid \in [Ports -> PortRecords], NEW d \in Ports, NEW k, NEW w,
         NEW qs, \/ k = mid[d].refs + 1 /\ w = mid[d].so /\ qs = Ref(mid, d)
                 \/ k = mid[d].refs - 1 /\ w = mid[d].so /\ qs = Unref(mid, d)
                 \/ k = mid[d].refs - 1 /\ w = mid[d].so - 1 /\ qs = Dropped(mid, d)
  PROVE  qs = Recounting(mid, d, k, w)
<1> DEFINE m == mid[d]
<1>1. m \in PortRecords /\ d # NoPort
  BY Mach4PortAssumption
<1>2. ASSUME w = m.so PROVE Recount(m, k, w) = [m EXCEPT !.refs = k]
  <2> HIDE DEF m
  <2> QED BY <1>1, <1>2 DEF Recount, PortRecords
<1>3. ASSUME k = m.refs + 1, w = m.so
      PROVE  Ref(mid, d) = [mid EXCEPT ![d] = Recount(m, k, w)]
  <2>1. Ref(mid, d) = [mid EXCEPT ![d] = [m EXCEPT !.refs = k]]
    BY <1>1, <1>3 DEF Ref
  <2> QED BY <1>2, <1>3, <2>1
<1>4. ASSUME k = m.refs - 1, w = m.so
      PROVE  Unref(mid, d) = [mid EXCEPT ![d] = Recount(m, k, w)]
  <2>1. Unref(mid, d) = [mid EXCEPT ![d] = [m EXCEPT !.refs = k]]
    BY <1>1, <1>4 DEF Unref
  <2> QED BY <1>2, <1>4, <2>1
<1>5. ASSUME k = m.refs - 1, w = m.so - 1
      PROVE  [mid EXCEPT ![d].so = @ - 1, ![d].refs = @ - 1]
               = [mid EXCEPT ![d] = Recount(m, k, w)]
  <2> DEFINE v == [mid EXCEPT ![d] = [m EXCEPT !.so = w]]
  <2>1. [mid EXCEPT ![d].so = @ - 1] = v
    BY <1>5
  <2>2. v[d] = [m EXCEPT !.so = w] /\ v[d].refs = m.refs
    <3>1. v[d] = [m EXCEPT !.so = w]
      OBVIOUS
    <3>2. [m EXCEPT !.so = w].refs = m.refs
      <4> HIDE DEF m
      <4> QED BY <1>1 DEF PortRecords
    <3> QED BY <3>1, <3>2
  <2>3. [v EXCEPT ![d].refs = @ - 1] = [v EXCEPT ![d] = [v[d] EXCEPT !.refs = k]]
    BY <1>5, <2>2
  <2>4. [[m EXCEPT !.so = w] EXCEPT !.refs = k] = Recount(m, k, w)
    <3> HIDE DEF m
    <3> QED BY <1>1 DEF Recount, PortRecords
  <2>5. [v EXCEPT ![d] = Recount(m, k, w)] = [mid EXCEPT ![d] = Recount(m, k, w)]
    OBVIOUS
  <2>6. [v EXCEPT ![d].refs = @ - 1] = [mid EXCEPT ![d] = Recount(m, k, w)]
    BY <2>2, <2>3, <2>4, <2>5
  <2>7. [mid EXCEPT ![d].so = @ - 1, ![d].refs = @ - 1]
          = [[mid EXCEPT ![d].so = @ - 1] EXCEPT ![d].refs = @ - 1]
    OBVIOUS
  <2> QED BY <2>1, <2>6, <2>7
<1> QED BY <1>3, <1>4, <1>5 DEF Recounting, Dropped

\* A port that dies gives up its requests for nothing but itself.
LEMMA DyingStep ==
  ASSUME M4Inv, NEW p \in Ports, NEW r, RecordOK(r), r.dn = port[p].dn, r.ns = port[p].ns,
         r.refs = port[p].refs, r.so = port[p].so, r.msgs = port[p].msgs, r.s = port[p].s,
         port[p].st = "active", r.st = "dying", r.pd \in {NoPort, port[p].pd}, r.dest = NoPort,
         Set(p, r), UNCHANGED <<naked, growing>>
  PROVE  M4Inv'
<1> DEFINE a == Cardinality(RequestsFor(port, p))
           b == Cardinality(SentTo(port, p))
           c == Cardinality(GrowingOn(growing, p))
<1>1. Balanced(port[p], naked[p], a, b, c)
  BY PortFacts
<1>2. Living(r) = Living(port[p])
  BY DEF Living
<1>3. Balanced(r, naked[p], a, b, c)
  <2> HIDE DEF a, b, c
  <2> QED BY <1>1, <1>2 DEF Balanced, Held
<1>4. Fades(port[p], r)
  BY HeaderFades
<1> QED BY <1>3, <1>4, OwnStep

LEMMA DeallocSpecialKeeps ==
  ASSUME M4Inv, NEW p \in Ports, ipc_port_dealloc_special(p)
  PROVE  M4Inv'
<1> DEFINE old == port[p]
           sent == SentOn(old)
           dead == Killed(old)
           d == old.pd
<1>1. /\ port \in [Ports -> PortRecords] /\ old \in PortRecords /\ RecordOK(old)
      /\ old.pd \in PortOrNull /\ old.st = "active"
      /\ UNCHANGED <<naked, growing>> /\ old.dest \in PortOrNull
  BY PortFacts DEF PortRecords, ipc_port_dealloc_special, ipc_port_destroy, Active
<1>2. /\ LeftBehind(old, sent) /\ sent.dest = d /\ sent.st = "active"
      /\ LeftBehind(old, dead) /\ dead.dest = NoPort /\ dead.st = "dying"
      /\ Cleared(old).pd = d
  <2> HIDE DEF old
  <2> QED BY <1>1, LimboOK
<1>3. \/ /\ d # NoPort
         /\ port' = Ref([port EXCEPT ![p] = sent], d)
      \/ d = NoPort /\ Set(p, dead)
      \/ /\ d # NoPort
         /\ port' = Dropped([port EXCEPT ![p] = dead], d)
  BY <1>2 DEF ipc_port_dealloc_special, ipc_port_destroy, Set, Dropped, SentOn, Killed, Limbo
<1> HIDE DEF sent, dead
<1>4. ASSUME d = NoPort, Set(p, dead) PROVE M4Inv'
  BY <1>1, <1>2, <1>4, DyingStep DEF LeftBehind
<1>5. ASSUME d # NoPort, port' = Ref([port EXCEPT ![p] = sent], d) PROVE M4Inv'
  <2>1. d \in Ports
    BY <1>1, <1>5 DEF PortOrNull
  <2>2. PICK mid : mid = [port EXCEPT ![p] = sent]
    OBVIOUS
  <2>3. mid \in [Ports -> PortRecords] /\ mid[d].refs = port[d].refs /\ mid[d].so = port[d].so
    BY <1>1, <1>2, <2>1, <2>2 DEF LeftBehind
  <2>4. PICK k \in Nat, w \in Nat : /\ k = mid[d].refs + 1 /\ w = mid[d].so
                                    /\ k = port[d].refs + 1 /\ w = port[d].so
    BY <1>1, <2>1, <2>3 DEF PortRecords
  <2>5. port' = Recounting(mid, d, k, w)
    <3>1. k = mid[d].refs + 1 /\ w = mid[d].so /\ port' = Ref(mid, d)
      BY <1>5, <2>2, <2>4
    <3> HIDE DEF d
    <3> QED BY ONLY <2>1, <2>3, <3>1, Recounted
  <2>6. \A x \in Ports : Same(sent.pd, x) + Same(sent.dest, x)
                           <= Same(port[p].pd, x) + Same(port[p].dest, x)
    BY <1>2, Mach4PortAssumption DEF Same, LeftBehind
  <2>7. /\ Same(port[p].pd, d) = 1 /\ Same(sent.pd, d) = 0 /\ Same(sent.dest, d) = 1
        /\ Same(port[p].dest, d) \in {0, 1}
    BY <1>2, <1>5 DEF Same, LeftBehind
  <2>8. /\ k + Same(port[p].pd, d) + Same(port[p].dest, d)
             >= port[d].refs + Same(sent.pd, d) + Same(sent.dest, d)
        /\ w + Same(port[p].pd, d) >= port[d].so + Same(sent.pd, d)
    <3>1. PICK o \in Nat, h \in Nat, t \in Nat :
             o = port[d].refs /\ h = port[d].so /\ t = Same(port[p].dest, d)
      BY <2>1, <2>7, <1>1 DEF PortRecords
    <3>2. k = o + 1 /\ w = h
      BY <2>4, <3>1
    <3>3. k + 1 + t >= o + 0 + 1 /\ w + 1 >= h + 0
      BY <3>2
    <3> QED BY <2>7, <3>1, <3>3
  <2> HIDE DEF d, old
  <2> QED BY <1>1, <1>2, <2>1, <2>2, <2>5, <2>6, <2>8, HandOver DEF old, LeftBehind
<1>6. ASSUME d # NoPort, port' = Dropped([port EXCEPT ![p] = dead], d) PROVE M4Inv'
  <2>1. d \in Ports
    BY <1>1, <1>6 DEF PortOrNull
  <2>2. PICK mid : mid = [port EXCEPT ![p] = dead]
    OBVIOUS
  <2>3. mid \in [Ports -> PortRecords] /\ mid[d].refs = port[d].refs /\ mid[d].so = port[d].so
    BY <1>1, <1>2, <2>1, <2>2 DEF LeftBehind
  <2>4. PICK k \in Nat, w \in Nat : /\ k = mid[d].refs - 1 /\ w = mid[d].so - 1
                                    /\ k = port[d].refs - 1 /\ w = port[d].so - 1
    BY <2>1, <2>3, NamedExists
  <2>5. port' = Recounting(mid, d, k, w)
    <3>1. k = mid[d].refs - 1 /\ w = mid[d].so - 1 /\ port' = Dropped(mid, d)
      BY <1>6, <2>2, <2>4
    <3> HIDE DEF d
    <3> QED BY ONLY <2>1, <2>3, <3>1, Recounted
  <2>6. \A x \in Ports : Same(dead.pd, x) + Same(dead.dest, x)
                           <= Same(port[p].pd, x) + Same(port[p].dest, x)
    BY <1>2, Mach4PortAssumption DEF Same, LeftBehind
  <2>7. /\ Same(port[p].pd, d) = 1 /\ Same(dead.pd, d) = 0 /\ Same(dead.dest, d) = 0
        /\ Same(port[p].dest, d) \in {0, 1}
    BY <1>2, <1>6 DEF Same, LeftBehind
  <2>8. /\ k + Same(port[p].pd, d) + Same(port[p].dest, d)
             >= port[d].refs + Same(dead.pd, d) + Same(dead.dest, d)
        /\ w + Same(port[p].pd, d) >= port[d].so + Same(dead.pd, d)
    <3>1. PICK o \in Nat, h \in Nat, t \in Nat :
             o = port[d].refs /\ h = port[d].so /\ t = Same(port[p].dest, d)
      BY <2>1, <2>7, <1>1 DEF PortRecords
    <3>2. k = o - 1 /\ w = h - 1
      BY <2>4, <3>1
    <3>3. k + 1 + t >= o + 0 + 0 /\ w + 1 >= h + 0
      BY <3>2
    <3> QED BY <2>7, <3>1, <3>3
  <2> HIDE DEF d, old
  <2> QED BY <1>1, <1>2, <2>1, <2>2, <2>5, <2>6, <2>8, HandOver DEF old, LeftBehind
<1> QED BY <1>3, <1>4, <1>5, <1>6

LEMMA ReleaseReceiveKeeps ==
  ASSUME M4Inv, NEW p \in Ports, ipc_port_release_receive(p)
  PROVE  M4Inv'
<1> DEFINE old == port[p]
           dead == Dying(old)
           d == old.dest
<1>1. /\ port \in [Ports -> PortRecords] /\ old \in PortRecords /\ RecordOK(old)
      /\ d \in PortOrNull /\ old.st = "active" /\ ~old.inSpace
      /\ UNCHANGED <<naked, growing>> /\ port' = Unref([port EXCEPT ![p] = dead], d)
  BY PortFacts DEF PortRecords, ipc_port_release_receive, Active
<1>2. /\ RecordOK(dead) /\ dead \in PortRecords /\ dead.dest = NoPort /\ dead.st = "dying"
      /\ dead.pd = old.pd /\ dead.dn = old.dn /\ dead.ns = old.ns /\ dead.refs = old.refs
      /\ dead.so = old.so /\ dead.msgs = old.msgs /\ dead.s = old.s
  <2> HIDE DEF old
  <2>1. NoPort \in PortOrNull
    BY DEF PortOrNull
  <2>2. PICK u : u = [old EXCEPT !.blocked = 0, !.st = "dying"]
    OBVIOUS
  <2>3. u \in PortRecords
    <3>1. PICK v : v = [old EXCEPT !.blocked = 0]
      OBVIOUS
    <3>2. v \in PortRecords
      BY <1>1, <3>1 DEF PortRecords
    <3>3. [v EXCEPT !.st = "dying"] \in PortRecords
      BY <3>2 DEF PortRecords
    <3>4. u = [v EXCEPT !.st = "dying"]
      BY <2>2, <3>1
    <3> QED BY <3>3, <3>4
  <2>4. dead = [u EXCEPT !.inSpace = FALSE, !.dest = NoPort]
    BY <2>2 DEF Dying
  <2>5. dead \in PortRecords
    BY <2>1, <2>3, <2>4 DEF PortRecords
  <2>6. /\ dead.dest = NoPort /\ dead.st = "dying" /\ dead.rcv = old.rcv /\ dead.blocked = 0
        /\ dead.pd = old.pd /\ dead.dn = old.dn /\ dead.ns = old.ns /\ dead.refs = old.refs
        /\ dead.so = old.so /\ dead.msgs = old.msgs /\ dead.s = old.s
    BY <1>1 DEF Dying, PortRecords
  <2>7. old.rcv = 0 /\ TableOK(old.dn)
    BY <1>1 DEF RecordOK
  <2>8. RecordOK(dead)
    <3> HIDE DEF dead
    <3> QED BY <2>5, <2>6, <2>7 DEF RecordOK
  <2> QED BY <2>5, <2>6, <2>8
<1> HIDE DEF dead
<1>4. ASSUME d = NoPort PROVE M4Inv'
  <2>1. Set(p, dead)
    BY <1>1, <1>4 DEF Unref, Set
  <2> QED BY <1>1, <1>2, <2>1, DyingStep
<1>5. ASSUME d # NoPort PROVE M4Inv'
  <2>1. d \in Ports
    BY <1>1, <1>5 DEF PortOrNull
  <2>2. PICK mid : mid = [port EXCEPT ![p] = dead]
    OBVIOUS
  <2>3. mid \in [Ports -> PortRecords] /\ mid[d].refs = port[d].refs /\ mid[d].so = port[d].so
    BY <1>1, <1>2, <2>1, <2>2
  <2>4. PICK k \in Nat, w \in Nat : /\ k = mid[d].refs - 1 /\ w = mid[d].so
                                    /\ k = port[d].refs - 1 /\ w = port[d].so
    <3>1. port[d].refs - 1 \in Nat
      BY <2>1, NamedExists
    <3> QED BY <1>1, <2>1, <2>3, <3>1 DEF PortRecords
  <2>5. port' = Recounting(mid, d, k, w)
    <3>1. k = mid[d].refs - 1 /\ w = mid[d].so /\ port' = Unref(mid, d)
      BY <1>1, <2>2, <2>4
    <3> HIDE DEF d
    <3> QED BY ONLY <2>1, <2>3, <3>1, Recounted
  <2>6. \A x \in Ports : Same(dead.pd, x) + Same(dead.dest, x)
                           <= Same(port[p].pd, x) + Same(port[p].dest, x)
    BY <1>2, Mach4PortAssumption DEF Same
  <2>7. /\ Same(port[p].dest, d) = 1 /\ Same(dead.dest, d) = 0
        /\ Same(port[p].pd, d) \in {0, 1} /\ Same(dead.pd, d) = Same(port[p].pd, d)
    BY <1>2, <1>5 DEF Same
  <2>8. /\ k + Same(port[p].pd, d) + Same(port[p].dest, d)
             >= port[d].refs + Same(dead.pd, d) + Same(dead.dest, d)
        /\ w + Same(port[p].pd, d) >= port[d].so + Same(dead.pd, d)
    <3>1. PICK o \in Nat, h \in Nat, t \in Nat :
             o = port[d].refs /\ h = port[d].so /\ t = Same(port[p].pd, d)
      BY <2>1, <2>7, <1>1 DEF PortRecords
    <3>2. k = o - 1 /\ w = h
      BY <2>4, <3>1
    <3>3. k + t + 1 >= o + t + 0 /\ w + t >= h + t
      BY <3>2
    <3> QED BY <2>7, <3>1, <3>3
  <2> HIDE DEF d, old
  <2> QED BY <1>1, <1>2, <2>1, <2>2, <2>5, <2>6, <2>8, HandOver, ZenonT(60) DEF old
<1> QED BY <1>4, <1>5

-----------------------------------------------------------------------------
(* The theorem.                                                              *)

LEMMA M4Initially == M4Init => M4Inv
<1> SUFFICES ASSUME M4Init PROVE M4Inv
  OBVIOUS
<1>1. /\ port = [p \in Ports |-> Unallocated] /\ naked = [p \in Ports |-> [s |-> 0, so |-> 0]]
      /\ growing = [t \in Growers |-> Idle]
  BY DEF M4Init
<1>2. Unallocated \in PortRecords /\ RecordOK(Unallocated)
  <2>1. Unallocated \in PortRecords
    BY NoTableOK, Mach4PortAssumption DEF Unallocated, PortRecords, PortOrNull
  <2> QED BY <2>1, NoTableOK DEF Unallocated, RecordOK
<1>3. [s |-> 0, so |-> 0] \in Rights /\ Idle \in Growths
  BY DEF Rights, Idle, Growths, PortOrNull
<1>4. Shaped(port, naked, growing)
  BY <1>1, <1>2, <1>3 DEF Shaped
<1>5. ASSUME NEW p \in Ports PROVE Counted(port, naked, growing, p)
  <2>1. p # NoPort
    BY Mach4PortAssumption
  <2>2. RequestsFor(port, p) = {}
    <3>1. ASSUME NEW q \in Ports PROVE {i \in RequestPlaces(port[q]) : RightAt(port[q], i) = p} = {}
      BY <1>1, <2>1 DEF Unallocated, RequestPlaces, RightAt, NoTable
    <3> QED BY <3>1 DEF RequestsFor
  <2>3. SentTo(port, p) = {} /\ GrowingOn(growing, p) = {}
    BY <1>1, <2>1 DEF Unallocated, SentTo, GrowingOn, Idle
  <2>4. Balanced(port[p], naked[p], 0, 0, 0)
    BY <1>1 DEF Unallocated, Balanced, Held, Living
  <2> QED BY <2>2, <2>3, <2>4, FS_EmptySet DEF Counted, Finite
<1> QED BY <1>4, <1>5 DEF M4Inv

LEMMA M4Step == M4Inv /\ [M4Next]_M4vars => M4Inv'
<1> SUFFICES ASSUME M4Inv, [M4Next]_M4vars PROVE M4Inv'
  OBVIOUS
<1>1. CASE UNCHANGED M4vars
  BY <1>1 DEF M4vars, M4Inv, Shaped, Counted, Finite
<1>2. ASSUME NEW p \in Ports,
             \/ ipc_port_alloc(p) \/ ipc_port_make_send(p) \/ ipc_port_copy_send(p)
             \/ ipc_port_release_send(p) \/ ipc_port_make_sonce(p)
             \/ ipc_port_release_sonce(p) \/ ipc_port_lookup_notify(p)
             \/ ipc_port_copyout_send(p) \/ ipc_port_alloc_special(p)
             \/ ipc_port_dealloc_special(p) \/ ipc_port_release_receive(p)
             \/ ipc_port_destroy_finish(p)
             \/ \E n \in Ports \cup {NoPort} : ipc_port_pdrequest(p, n)
      PROVE  M4Inv'
  <2>1. CASE ipc_port_alloc(p) \/ ipc_port_alloc_special(p)
    BY <2>1, AllocKeeps DEF ipc_port_alloc_special
  <2>2. CASE ipc_port_make_send(p) \/ ipc_port_copy_send(p)
    BY <2>2, MakeSendKeeps
  <2>3. CASE ipc_port_release_send(p) \/ ipc_port_copyout_send(p)
    BY <2>3, ReleaseSendKeeps DEF ipc_port_copyout_send
  <2>4. CASE ipc_port_make_sonce(p) \/ ipc_port_lookup_notify(p)
    BY <2>4, MakeSonceKeeps DEF ipc_port_lookup_notify
  <2>5. CASE ipc_port_release_sonce(p)
    BY <2>5, ReleaseSonceKeeps
  <2>6. CASE ipc_port_dealloc_special(p)
    BY <2>6, DeallocSpecialKeeps
  <2>7. CASE ipc_port_release_receive(p)
    BY <2>7, ReleaseReceiveKeeps
  <2>8. CASE ipc_port_destroy_finish(p)
    BY <2>8, DestroyFinishKeeps
  <2>9. CASE \E n \in Ports \cup {NoPort} : ipc_port_pdrequest(p, n)
    BY <2>9, PdrequestKeeps DEF PortOrNull
  <2> QED BY <1>2, <2>1, <2>2, <2>3, <2>4, <2>5, <2>6, <2>7, <2>8, <2>9
<1>3. ASSUME NEW p \in Served,
             \/ SendOrBlock(p) \/ WaitForMessage(p)
             \/ \E n \in Ports \cup {NoPort}, sync \in 0..2 : ipc_port_nsrequest(p, sync, n)
             \/ \E n \in Ports, name \in PortNames : ipc_port_dnrequest(p, name, n)
             \/ \E i \in DOMAIN port[p].dn.slot : ipc_port_dncancel(p, i)
             \/ \E q \in QLimits : ipc_port_set_qlimit(p, q)
             \/ \E t \in Growers : ipc_port_dngrow(t, p)
      PROVE  M4Inv'
  <2>0. p \in Ports
    BY Mach4PortAssumption
  <2>1. CASE \/ SendOrBlock(p) \/ WaitForMessage(p)
             \/ \E q \in QLimits : ipc_port_set_qlimit(p, q)
    BY <2>0, <2>1, QueueKeeps
  <2>2. CASE \E n \in Ports \cup {NoPort}, sync \in 0..2 : ipc_port_nsrequest(p, sync, n)
    BY <2>0, <2>2, NsrequestKeeps DEF PortOrNull
  <2>3. CASE \E n \in Ports, name \in PortNames : ipc_port_dnrequest(p, name, n)
    BY <2>0, <2>3, DnrequestKeeps
  <2>4. CASE \E i \in DOMAIN port[p].dn.slot : ipc_port_dncancel(p, i)
    BY <2>0, <2>4, DncancelKeeps
  <2>5. CASE \E t \in Growers : ipc_port_dngrow(t, p)
    BY <2>0, <2>5, DngrowKeeps
  <2> QED BY <1>3, <2>1, <2>2, <2>3, <2>4, <2>5
<1>4. ASSUME NEW t \in Growers, ipc_port_dngrow_fails(t) \/ ipc_port_dngrow_install(t)
      PROVE  M4Inv'
  BY <1>4, DngrowDoneKeeps
<1> QED BY <1>1, <1>2, <1>3, <1>4 DEF M4Next

\* The invariant says that every port keeps its accounts.
LEMMA M4Consistent == M4Inv => PortConsistent
<1> SUFFICES ASSUME M4Inv PROVE PortConsistent
  OBVIOUS
<1>1. /\ port \in [Ports -> PortRecords] /\ naked \in [Ports -> Rights]
      /\ \A p \in Ports : RecordOK(port[p])
  BY DEF M4Inv, Shaped
<1>2. M4TypeOK
  BY <1>1 DEF M4TypeOK, PortRecords, Rights, PortOrNull
<1>3. ReferencesCoverPointers
  <2>1. SUFFICES ASSUME NEW p \in Ports
                 PROVE  IF Exists(p) THEN port[p].refs >= Pointers(p) ELSE Pointers(p) = 0
    BY DEF ReferencesCoverPointers
  <2> QED BY <2>1, PortFacts DEF Balanced, Held, Living, Pointers, Exists
<1>4. SendRightsExact
  BY PortFacts DEF SendRightsExact, Balanced, Active
<1>5. NobodyWaitsOnDead /\ NoSendersNotForgotten
  BY <1>1 DEF NobodyWaitsOnDead, NoSendersNotForgotten, RecordOK, Active
<1>6. DeadNameListExact
  <2>1. SUFFICES ASSUME NEW p \in Ports, NEW dn, dn = port[p].dn
                 PROVE  LET free == {i \in DOMAIN dn.slot : dn.slot[i].name = NoPort}
                            chain == FreeChain(dn)
                        IN  /\ {chain[n] : n \in DOMAIN chain} \ {0} = free
                            /\ chain[Cardinality(free)] = 0
    BY DEF DeadNameListExact
  <2>2. TableOK(dn)
    BY <1>1, <2>1 DEF RecordOK
  <2> QED BY <2>2, FreeListExact DEF FreeSlots
<1> QED BY <1>2, <1>3, <1>4, <1>5, <1>6 DEF PortConsistent

\* The references of a port cover every pointer to it, its send rights are
\* counted, nobody waits on a dead port, a request for no-senders is served and
\* the dead-name table lists its free slots, whatever rights the callers make,
\* move and drop and whenever ports die (ipc_port.c).
THEOREM PortStaysConsistent == M4Spec => []PortConsistent
<1>1. M4Inv => PortConsistent
  BY M4Consistent
<1> QED BY <1>1, M4Initially, M4Step, PTL DEF M4Spec

=============================================================================
