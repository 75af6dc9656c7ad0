----------------------------- MODULE Mach4Space -----------------------------
(* A Mach 4 name space: the entry table with its free list, the tree of     *)
(* names beyond the table, the growth of the table, and the reverse hash    *)
(* from objects to names (src/Kernel/mxwl/ipc/ipc_entry.c, ipc_hash.c,      *)
(* ipc_init.c and the ipc_object routines of ipc_stubs.c).  Generations are *)
(* compiled out (IE_BITS_GEN_MASK is 0), so a name is its index and two     *)
(* names never collide.  The splay tree is the ordered map that SplayTree   *)
(* shows it to be.  What runs under the space lock is one action.           *)
EXTENDS Integers, Sequences, FiniteSets, FiniteSetsExt, SequencesExt, Functions

CONSTANTS SpaceThreads, NoThread,
          SpaceNames,           \* names that callers ask for
          Objects, NoObject,    \* IPC objects as addresses over 64, IO_NULL
          TableSizes,           \* ipc_table_entries, the last size twice
          PageEntries,          \* entries that fill a page
          TreeWeight,           \* sizeof ipc_tree_entry over sizeof ipc_entry
          NamedTypes            \* rights that callers enter under a chosen name

VARIABLES sp, th, tables          \* the space, its threads, allocated tables
SPvars == <<sp, th, tables>>

FreeEntry == [type |-> "none", obj |-> NoObject, next |-> 0, idx |-> 0]
IdleThread == [pc |-> "idle", name |-> 0, type |-> "none", obj |-> NoObject,
               ite |-> FALSE, new |-> 0]

\* ipc_space_create and ipc_space_create_special: calloc clears the table, so
\* its free list, which starts in entry 0, is empty.
ipc_space_create ==
  [active |-> TRUE, growing |-> FALSE, lock |-> NoThread, block |-> 1, step |-> 2,
   table |-> [i \in 0..TableSizes[1] - 1 |-> FreeEntry],
   tree |-> << >>, total |-> 0, small |-> 0, ghash |-> {}]

SPInit == sp = ipc_space_create /\ tables = {1} /\ th = [t \in SpaceThreads |-> IdleThread]

Size(s) == Cardinality(DOMAIN s.table)          \* is_table_size
NextSize(s) == TableSizes[s.step]               \* is_table_next->its_size
Unlocked == sp.lock = NoThread
Done(t) == th' = [th EXCEPT ![t] = IdleThread]

\* ipc_entry_lookup: in the table below its size, else in the tree.
Used(s) == {i \in DOMAIN s.table : s.table[i].type # "none"} \cup DOMAIN s.tree
Entry(s, n) == IF n \in DOMAIN s.table THEN s.table[n] ELSE s.tree[n]

-----------------------------------------------------------------------------
(* The local reverse hash lives in the ie_index fields of the table: open   *)
(* addressing with linear probing.                                          *)

HashOf(s, o) == o % Size(s)
Probe(s, o, k) == (HashOf(s, o) + k) % Size(s)

\* The first position from o's hash on where P holds of the index, if the
\* probe reaches it before an empty position.
Clump(s, o) == {k \in 0..Size(s) - 1 : \A j \in 0..k - 1 : s.table[Probe(s, o, j)].idx # 0}

ipc_hash_local_lookup(s, o) ==
  {s.table[Probe(s, o, k)].idx : k \in {j \in Clump(s, o) :
      LET i == s.table[Probe(s, o, j)].idx IN i # 0 /\ s.table[i].obj = o}}

ipc_hash_local_insert(s, o, i) ==
  LET k == CHOOSE j \in Clump(s, o) : s.table[Probe(s, o, j)].idx = 0
  IN  [s EXCEPT !.table[Probe(s, o, k)].idx = i]

\* Taking position h out of a clump moves up the first later object of the
\* clump that hashes to h or before it, and so on from where that one was.
Displaced(s, h, d) ==
  LET t == HashOf(s, s.table[s.table[d].idx].obj)
  IN  IF d < h THEN d < t /\ t <= h ELSE d < t \/ t <= h

CloseUp(s, hole) ==
  LET size == Size(s)
      run[k \in 0..size] ==       \* [table, hole] after looking k positions on
        IF k = 0 THEN [s |-> s, h |-> hole, end |-> FALSE]
        ELSE LET r == run[k - 1]
                 d == (hole + k) % size
             IN  IF r.end \/ r.s.table[d].idx = 0 THEN [r EXCEPT !.end = TRUE]
                 ELSE IF Displaced(r.s, r.h, d)
                 THEN [r EXCEPT !.s.table[r.h].idx = r.s.table[d].idx, !.h = d]
                 ELSE r
      last == run[size - 1]
  IN  [last.s EXCEPT !.table[last.h].idx = 0]

\* Mutant: the slot is cleared and the clump not closed up.
HashDeleteLeavesGap(s, o, i) ==
  LET at == {k \in Clump(s, o) : s.table[Probe(s, o, k)].idx = i}
  IN  IF at = {} THEN s ELSE [s EXCEPT !.table[Probe(s, o, Min(at))].idx = 0]

ipc_hash_local_delete(s, o, i) ==
  LET at == {k \in Clump(s, o) : s.table[Probe(s, o, k)].idx = i}
  IN  IF at = {} THEN s ELSE CloseUp(s, Probe(s, o, Min(at)))

\* ipc_hash_insert, _delete and _lookup choose between the table's hash and
\* the global one, which holds tree entries.
ipc_hash_insert(s, o, n) ==
  IF n \in DOMAIN s.table THEN ipc_hash_local_insert(s, o, n)
                          ELSE [s EXCEPT !.ghash = @ \cup {n}]
ipc_hash_delete(s, o, n) ==
  IF n \in DOMAIN s.table THEN ipc_hash_local_delete(s, o, n)
                          ELSE [s EXCEPT !.ghash = @ \ {n}]
ipc_hash_lookup(s, o) ==
  ipc_hash_local_lookup(s, o) \cup {n \in s.ghash : s.tree[n].obj = o}

-----------------------------------------------------------------------------
\* The caller fills in the entry it got while it still has the lock: a
\* receive right (ipc_object_alloc), or a send right, which is hashed.
Filled(s, n, t) ==
  LET e == [Entry(s, n) EXCEPT !.type = th[t].type, !.obj = th[t].obj, !.next = 0]
      f == IF n \in DOMAIN s.table THEN [s EXCEPT !.table[n] = e]
                                   ELSE [s EXCEPT !.tree[n] = e]
  IN  IF th[t].type = "send" THEN ipc_hash_insert(f, th[t].obj, n) ELSE f

\* ipc_object_alloc (name 0) and ipc_object_alloc_name for receive rights; for
\* send rights the callers, which are not part of this port.  An object has
\* at most one right in a space.
Request(t, n, type, o) ==
  /\ th[t] = IdleThread
  /\ \A u \in SpaceThreads : th[u].obj # o
  /\ \A i \in Used(sp) : Entry(sp, i).obj # o
  /\ th' = [th EXCEPT ![t] = [pc |-> IF n = 0 THEN "get" ELSE "name", name |-> n,
                              type |-> type, obj |-> o, ite |-> FALSE, new |-> 0]]
  /\ UNCHANGED <<sp, tables>>

\* The head of ipc_entry_grow_table: wait for another thread's growth, or
\* give up at the largest size, or mark the space and allocate unlocked.
GrowHead(t, s) ==
  /\ sp' = [s EXCEPT !.growing = TRUE]
  /\ th' = [th EXCEPT ![t].pc = IF s.growing THEN "wait" ELSE "alloc"]
  /\ UNCHANGED tables
Largest(s) == TableSizes[s.step - 1] = NextSize(s)

\* ipc_entry_alloc: ipc_entry_get pops the free list, else the table grows.
ipc_entry_alloc(t) ==
  LET i == sp.table[0].next IN
  /\ th[t].pc = "get" /\ Unlocked
  /\ IF ~sp.active THEN Done(t) /\ UNCHANGED <<sp, tables>>       \* KERN_INVALID_TASK
     ELSE IF i # 0
     THEN /\ sp' = Filled([sp EXCEPT !.table[0].next = sp.table[i].next], i, t)
          /\ Done(t) /\ UNCHANGED tables
     ELSE IF ~sp.growing /\ Largest(sp)
     THEN Done(t) /\ UNCHANGED <<sp, tables>>                     \* KERN_NO_SPACE
     ELSE GrowHead(t, sp)

\* The free list from entry 0 on: the index before n on it, if n is on it.
FreeList(s) ==
  LET at[k \in 0..Size(s)] == IF k = 0 THEN 0 ELSE s.table[at[k - 1]].next
  IN  at
Before(s, n) == {i \in Range(FreeList(s)) : s.table[i].next = n}

WorthGrowing(s, n) ==
  /\ Size(s) <= n /\ n < NextSize(s)
  /\ NextSize(s) - Size(s) < TreeWeight * (s.small + 1)

\* ipc_entry_alloc_name.  An entry that exists is returned, and
\* ipc_object_alloc_name writes its new object over it.  An index below the table size is ripped out of the
\* free list by a search that never ends if the index is not on it: the
\* thread then spins with the lock held.
ipc_entry_alloc_name(t) ==
  LET n == th[t].name IN
  /\ th[t].pc = "name" /\ Unlocked
  /\ IF ~sp.active THEN Done(t) /\ UNCHANGED <<sp, tables>>
     ELSE IF n \in Used(sp)
     THEN /\ sp' = IF th[t].type = "receive" THEN Filled(sp, n, t) ELSE sp
          /\ Done(t) /\ UNCHANGED tables
     ELSE IF n < Size(sp)
     THEN IF Before(sp, n) = {}
          THEN /\ sp' = [sp EXCEPT !.lock = t]
               /\ th' = [th EXCEPT ![t].pc = "spin"]
               /\ UNCHANGED tables
          ELSE LET b == Min(Before(sp, n))
               IN  /\ sp' = Filled([sp EXCEPT !.table[b].next = sp.table[n].next], n, t)
                   /\ Done(t) /\ UNCHANGED tables
     ELSE IF WorthGrowing(sp, n) THEN GrowHead(t, sp)
     ELSE IF th[t].ite
     THEN /\ sp' = Filled([sp EXCEPT !.total = @ + 1,
                             !.small = IF n < NextSize(sp) THEN @ + 1 ELSE @,
                             !.tree = (n :> FreeEntry) @@ @], n, t)
          /\ Done(t) /\ UNCHANGED tables
     ELSE \* ite_alloc with the space unlocked, then once more around
          /\ th' = [th EXCEPT ![t].ite = TRUE]
          /\ UNCHANGED <<sp, tables>>

-----------------------------------------------------------------------------
\* The rest of ipc_entry_grow_table.  A reallocable table is gone, or is the
\* new one already, as soon as realloc returns.
Reallocable(size) == size >= PageEntries
OldSize(s) == TableSizes[s.step - 1]

GrowAllocates(t, b) ==
  /\ th[t].pc = "alloc"
  /\ IF Reallocable(OldSize(sp))
     THEN tables' = (tables \ {sp.block}) \cup {b} /\ (b = sp.block \/ b \notin tables)
     ELSE tables' = tables \cup {b} /\ b \notin tables
  /\ th' = [th EXCEPT ![t].pc = "install", ![t].new = b]
  /\ UNCHANGED sp

\* Mutant: the last name of the new table stays in the tree.
MovesDownButLast(s) == {n \in DOMAIN s.tree : n < NextSize(s) - 1}

\* The old entries are copied and hashed anew, the tree entries that fall into
\* the new part move to the table, the others below the next size are counted,
\* and the unused new entries go in front of the free list in rising order.
MovesDown(s) == {n \in DOMAIN s.tree : n < NextSize(s)}
Enlarged(s, b) ==
  LET size  == NextSize(s)
      osize == Size(s)
      nsize == TableSizes[s.step + 1]
      moved == MovesDown(s)
      fresh == (osize..size - 1) \ moved
      after(i) == {j \in fresh : j > i}
      bare  == [i \in 0..size - 1 |->
                  IF i < osize THEN [s.table[i] EXCEPT !.idx = 0]
                  ELSE IF i \in moved THEN [s.tree[i] EXCEPT !.idx = 0]
                  ELSE [FreeEntry EXCEPT !.next =
                          IF after(i) = {} THEN s.table[0].next ELSE Min(after(i))]]
      base  == [s EXCEPT
                  !.table = [bare EXCEPT ![0].next = IF fresh = {} THEN @ ELSE Min(fresh)],
                  !.block = b, !.step = @ + 1, !.total = @ - Cardinality(moved),
                  !.tree = Restrict(s.tree, DOMAIN s.tree \ moved),
                  !.ghash = @ \ moved,
                  !.small = Cardinality({n \in DOMAIN s.tree : size <= n /\ n < nsize})]
      sends == {i \in 1..size - 1 : base.table[i].type = "send"}
  IN  FoldLeft(LAMBDA x, i : ipc_hash_local_insert(x, x.table[i].obj, i), base,
               SetToSortSeq(sends, <))

GrowInstalls(t) ==
  /\ th[t].pc = "install" /\ Unlocked
  /\ IF sp.active
     THEN /\ sp' = [Enlarged(sp, th[t].new) EXCEPT !.growing = FALSE]
          /\ tables' = tables \ {sp.block}                  \* it_entries_free(oits, otable)
          /\ th' = [th EXCEPT ![t].pc = "again", ![t].new = 0]
     ELSE /\ sp' = [sp EXCEPT !.growing = FALSE]
          /\ tables' = tables \ {th[t].new}
          /\ th' = [th EXCEPT ![t].pc = IF th[t].name = 0 THEN "get" ELSE "name",
                              ![t].new = 0]

GrowFails(t) ==                                         \* KERN_RESOURCE_SHORTAGE
  /\ th[t].pc = "alloc" /\ Unlocked
  /\ sp' = [sp EXCEPT !.growing = FALSE]
  /\ Done(t) /\ UNCHANGED tables

\* Growing once more pays if enough of the tree would fit.
GrowAgain(t) ==
  /\ th[t].pc = "again" /\ Unlocked
  /\ IF /\ sp.active /\ sp.small > 0 /\ ~sp.growing /\ ~Largest(sp)
        /\ NextSize(sp) - Size(sp) < TreeWeight * sp.small
     THEN GrowHead(t, sp)
     ELSE /\ th' = [th EXCEPT ![t].pc = IF th[t].name = 0 THEN "get" ELSE "name"]
          /\ UNCHANGED <<sp, tables>>

\* assert_wait and thread_block on the space; thread_wakeup after the growth.
GrowWaited(t) ==
  /\ th[t].pc = "wait" /\ ~sp.growing
  /\ th' = [th EXCEPT ![t].pc = IF th[t].name = 0 THEN "get" ELSE "name"]
  /\ UNCHANGED <<sp, tables>>

-----------------------------------------------------------------------------
\* A right is given up: its hash entry first, then ipc_entry_dealloc.
ipc_entry_dealloc(n) ==
  LET e == Entry(sp, n)
      s == IF e.type = "send" THEN ipc_hash_delete(sp, e.obj, n) ELSE sp
  IN  /\ sp.active /\ Unlocked /\ n \in Used(sp)
      /\ sp' = IF n \in DOMAIN sp.table
               THEN [s EXCEPT !.table[n].type = "none", !.table[n].obj = NoObject,
                              !.table[n].next = s.table[0].next, !.table[0].next = n]
               ELSE [s EXCEPT !.tree = Restrict(@, DOMAIN @ \ {n}), !.total = @ - 1,
                              !.small = IF n < NextSize(s) THEN @ - 1 ELSE @]
      /\ UNCHANGED <<th, tables>>

\* External: the owner of the space ends it.
SpaceDies ==
  /\ sp.active /\ Unlocked
  /\ sp' = [sp EXCEPT !.active = FALSE]
  /\ UNCHANGED <<th, tables>>

SPNext ==
  \/ \E t \in SpaceThreads :
       \/ \E n \in SpaceNames \cup {0}, o \in Objects :
            \E y \in IF n = 0 THEN {"receive", "send"} ELSE NamedTypes : Request(t, n, y, o)
       \/ ipc_entry_alloc(t) \/ ipc_entry_alloc_name(t)
       \/ \E b \in 1..Len(TableSizes) : GrowAllocates(t, b)
       \/ GrowInstalls(t) \/ GrowFails(t) \/ GrowAgain(t) \/ GrowWaited(t)
  \/ \E n \in Used(sp) : ipc_entry_dealloc(n)
  \/ SpaceDies

SPSpec == SPInit /\ [][SPNext]_SPvars

-----------------------------------------------------------------------------
SPTypeOK ==
  /\ sp.active \in BOOLEAN /\ sp.growing \in BOOLEAN
  /\ sp.lock \in SpaceThreads \cup {NoThread} /\ sp.step \in 2..Len(TableSizes)
  /\ DOMAIN sp.table = 0..TableSizes[sp.step - 1] - 1
  /\ tables \subseteq 1..Len(TableSizes)

\* The free list ends, and runs only through unused entries, each once.
FreeListSound ==
  LET at == FreeList(sp)
      end == Min({k \in DOMAIN at : k > 0 /\ at[k] = 0} \cup {Size(sp) + 1})
  IN  /\ end <= Size(sp)
      /\ \A k \in 1..end - 1 : sp.table[at[k]].type = "none"
      /\ Cardinality({at[k] : k \in 1..end - 1}) = end - 1

\* The counters that decide when the table grows agree with the tree, and no
\* name is in the tree that the table covers.
TreeCountsExact ==
  /\ sp.total = Cardinality(DOMAIN sp.tree)
  /\ sp.small = Cardinality({n \in DOMAIN sp.tree : n < NextSize(sp)})
  /\ \A n \in DOMAIN sp.tree : n >= Size(sp)

\* Every send right is found again from its object, and under its one name.
ReverseLookupExact ==
  \A n \in Used(sp) : Entry(sp, n).type = "send" =>
      ipc_hash_lookup(sp, Entry(sp, n).obj) = {n}

\* A name keeps denoting its object until it is deallocated: growing the
\* table, which moves and rehashes entries, loses and changes none.
Denoted(s, n) == [obj |-> Entry(s, n).obj, type |-> Entry(s, n).type]
KeepsNames ==
  \A n \in Used(sp) : \/ n \in Used(sp') /\ Denoted(sp', n) = Denoted(sp, n)
                      \/ n \notin Used(sp') /\ ipc_entry_dealloc(n)
NamesKept == [][KeepsNames]_SPvars

\* The table that the space uses is allocated memory.
TableAllocated == sp.block \in tables

\* An entry that is not in use is on the free list, where ipc_entry_alloc_name
\* looks for it ("3) The entry is free ... Rip the entry out of the free list").
FreeEntriesListed ==
  \A i \in DOMAIN sp.table : i # 0 /\ sp.table[i].type = "none" => Before(sp, i) # {}

\* The space as its functions leave it, between the steps of two threads: free
\* list, tree counts, reverse hash and allocated tables agree with the entries.
SpaceConsistent ==
    /\ SPTypeOK
    /\ FreeListSound /\ TreeCountsExact /\ ReverseLookupExact /\ TableAllocated
=============================================================================
