--------------------------- MODULE IntrusiveLists ---------------------------
(***************************************************************************)
(* The circular doubly linked lists of libkern (libkern/libkern_list.h),   *)
(* the counted queue built on them (libkern_queue.h), the chained hash     *)
(* table (libkern_hash.c) and the rings of threads and of messages at a    *)
(* Mach 4 port (ipc_stubs.c), link by link.                                *)
(***************************************************************************)
EXTENDS Integers, Sequences, FiniteSets, SequencesExt, Functions

CONSTANTS ListHeads,    \* list heads; each is also the end of its own list
          Queue,        \* the head that belongs to a fifo_queue
          ListNodes,    \* entries that can be linked
          Buckets,      \* nbuckets of the hash table
          HashValues    \* 32-bit hashes of the entries

NULL == "NULL"
ASSUME ListAssumption ==
    /\ Queue \in ListHeads
    /\ ListHeads \cap ListNodes = {} /\ NULL \notin ListHeads \cup ListNodes
    /\ Buckets \in Nat \ {0} /\ HashValues \subseteq Nat

VARIABLES next, prev,   \* links of heads and nodes
          count,        \* fifo_queue.count
          buckets,      \* index -> the chain of entries, first to last
          hashOf,       \* entry -> entry->hash, of the entries in the table
          entries       \* hash_table.count

linkVars == <<next, prev>>
hashVars == <<buckets, hashOf, entries>>
listVars == <<next, prev, count, buckets, hashOf, entries>>

VARIABLES kind,           \* what the rings hold, which decides what a node not queued holds
          base,           \* queue -> its first node
          rnext, rprev    \* the links of the nodes
ringVars == <<kind, base, rnext, rprev>>
BOGUS == "BOGUS"
Places == ListHeads \cup ListNodes
Linked(n) == next[n] # NULL

\* Links are a pair [next, prev] threaded through the calls of one action.
Links == [next |-> next, prev |-> prev]
SetLinks(l) == next' = l.next /\ prev' = l.prev

list_init(l, h) == [l EXCEPT !.next[h] = h, !.prev[h] = h]
list_add(l, new, p, n) ==
    LET l1 == [l EXCEPT !.prev[n] = new]
        l2 == [l1 EXCEPT !.next[new] = n, !.prev[new] = p]
    IN  [l2 EXCEPT !.next[p] = new]
list_add_head(l, new, h) == list_add(l, new, h, l.next[h])
\* Mutant: the tail is taken for the head.
AddTailAtHead(l, new, h) == list_add(l, new, h, l.next[h])
list_add_tail(l, new, h) == list_add(l, new, l.prev[h], h)
list_del(l, n) ==
    LET l1 == [l EXCEPT !.next[l.prev[n]] = l.next[n]]
        l2 == [l1 EXCEPT !.prev[l1.next[n]] = l1.prev[n]]
    IN  [l2 EXCEPT !.next[n] = NULL, !.prev[n] = NULL]
list_move(l, n, h) == list_add_tail(list_del(l, n), n, h)
list_empty(l, h) == l.next[h] = h

\* Splicing leaves the emptied head as it was; its owner initializes it.
list_splice(l, src, dst) ==
    IF list_empty(l, src) THEN l
    ELSE LET first == l.next[src]
             last == l.prev[src]
             at == l.next[dst]
             l1 == [l EXCEPT !.prev[first] = dst]
             l2 == [l1 EXCEPT !.next[dst] = first]
             l3 == [l2 EXCEPT !.next[last] = at]
         IN  [l3 EXCEPT !.prev[at] = last]
list_splice_tail(l, src, dst) ==
    IF list_empty(l, src) THEN l
    ELSE LET first == l.next[src]
             last == l.prev[src]
             at == l.prev[dst]
             l1 == [l EXCEPT !.prev[first] = at]
             l2 == [l1 EXCEPT !.next[at] = first]
             l3 == [l2 EXCEPT !.next[last] = dst]
         IN  [l3 EXCEPT !.prev[dst] = last]

-----------------------------------------------------------------------------
LIInit ==
    /\ next = [x \in Places |-> IF x \in ListHeads THEN x ELSE NULL]
    /\ prev = next
    /\ count = 0
    /\ buckets = [i \in 0..Buckets - 1 |-> << >>]
    /\ hashOf = << >>
    /\ entries = 0

AddHead(h, n) ==
    /\ h # Queue /\ ~Linked(n)
    /\ SetLinks(list_add_head(Links, n, h))
    /\ UNCHANGED <<count, hashVars>>
AddTail(h, n) ==
    /\ h # Queue /\ ~Linked(n)
    /\ SetLinks(list_add_tail(Links, n, h))
    /\ UNCHANGED <<count, hashVars>>

RECURSIVE ForEach(_, _, _)
ForEach(l, h, pos) == IF pos = h THEN << >> ELSE <<pos>> \o ForEach(l, h, l.next[pos])
RECURSIVE ForEachBack(_, _, _)
ForEachBack(l, h, pos) == IF pos = h THEN << >> ELSE <<pos>> \o ForEachBack(l, h, l.prev[pos])
On(h, n) == Contains(ForEach(Links, h, next[h]), n)

\* The entries of a fifo_queue only leave it through fifo_dequeue.
Delete(n) ==
    /\ Linked(n) /\ ~On(Queue, n)
    /\ SetLinks(list_del(Links, n))
    /\ UNCHANGED <<count, hashVars>>
MoveEntry(h, n) ==
    /\ h # Queue /\ Linked(n) /\ ~On(Queue, n)
    /\ SetLinks(list_move(Links, n, h))
    /\ UNCHANGED <<count, hashVars>>
SpliceLists(src, dst) ==
    /\ src # dst /\ Queue \notin {src, dst}
    /\ \/ SetLinks(list_init(list_splice(Links, src, dst), src))
       \/ SetLinks(list_init(list_splice_tail(Links, src, dst), src))
    /\ UNCHANGED <<count, hashVars>>

fifo_enqueue(n) ==
    /\ ~Linked(n)
    /\ SetLinks(list_add_tail(Links, n, Queue))
    /\ count' = count + 1
    /\ UNCHANGED hashVars
fifo_dequeue ==
    /\ ~list_empty(Links, Queue)
    /\ SetLinks(list_del(Links, next[Queue]))
    /\ count' = count - 1
    /\ UNCHANGED hashVars

hash_table_insert(n, hash) ==
    /\ n \notin DOMAIN hashOf
    /\ buckets' = [buckets EXCEPT ![hash % Buckets] = <<n>> \o @]
    /\ hashOf' = [m \in DOMAIN hashOf \cup {n} |-> IF m = n THEN hash ELSE hashOf[m]]
    /\ entries' = entries + 1
    /\ UNCHANGED <<linkVars, count>>
hash_table_remove(n) ==
    /\ n \in DOMAIN hashOf
    /\ LET i == hashOf[n] % Buckets IN
         /\ buckets' = [buckets EXCEPT ![i] = SelectSeq(@, LAMBDA m : m # n)]
         /\ entries' = IF Contains(buckets[i], n) THEN entries - 1 ELSE entries
    /\ hashOf' = Restrict(hashOf, DOMAIN hashOf \ {n})
    /\ UNCHANGED <<linkVars, count>>
hash_table_clear ==
    /\ buckets' = [i \in 0..Buckets - 1 |-> << >>]
    /\ hashOf' = << >>
    /\ entries' = 0
    /\ UNCHANGED <<linkVars, count>>
\* The newest entry with that hash, or NULL.
hash_table_lookup(hash) ==
    LET found == SelectSeq(buckets[hash % Buckets], LAMBDA m : hashOf[m] = hash)
    IN  IF found = << >> THEN NULL ELSE Head(found)

LinkStep ==
    \/ \E h \in ListHeads, n \in ListNodes : AddHead(h, n) \/ AddTail(h, n) \/ MoveEntry(h, n)
    \/ \E n \in ListNodes : Delete(n) \/ fifo_enqueue(n)
    \/ \E src, dst \in ListHeads : SpliceLists(src, dst)
    \/ fifo_dequeue
HashStep ==
    \/ \E n \in ListNodes : \/ hash_table_remove(n)
                            \/ \E v \in HashValues : hash_table_insert(n, v)
    \/ hash_table_clear
LINext == LinkStep \/ HashStep

LISpec == LIInit /\ [][LINext]_listVars

-----------------------------------------------------------------------------
(***************************************************************************)
(* Rings: a queue is its first node, whose predecessor is the last.  The   *)
(* queues are as many as ListHeads and the nodes are ListNodes again.      *)
(***************************************************************************)
Unlinked(k, n) == IF k = "thread" THEN n ELSE BOGUS
RingInit ==
    /\ kind \in {"thread", "kmsg"}
    /\ base = [q \in ListHeads |-> NULL]
    /\ rnext = [n \in ListNodes |-> Unlinked(kind, n)]
    /\ rprev = rnext

\* From one node to the next with ipc_kmsg_queue_next, until it answers NULL.
queue_next(q, n) == IF rnext[n] = base[q] THEN NULL ELSE rnext[n]
RECURSIVE Ring(_, _)
Ring(q, n) == IF n = NULL THEN << >> ELSE <<n>> \o Ring(q, queue_next(q, n))
RECURSIVE RingBack(_, _)
RingBack(q, n) == IF n = base[q] THEN <<n>> ELSE <<n>> \o RingBack(q, rprev[n])
Queued(n) == \E q \in ListHeads : Contains(Ring(q, base[q]), n)

\* A thread that is enqueued alone keeps the links it has.
enqueue(q, n) ==
    /\ ~Queued(n)
    /\ UNCHANGED kind
    /\ \/ /\ base[q] = NULL
          /\ base' = [base EXCEPT ![q] = n]
          /\ rnext' = IF kind = "thread" THEN rnext ELSE [rnext EXCEPT ![n] = n]
          /\ rprev' = IF kind = "thread" THEN rprev ELSE [rprev EXCEPT ![n] = n]
       \/ \E first \in ListNodes :
            /\ base[q] = first
            /\ rnext' = [rnext EXCEPT ![n] = first, ![rprev[first]] = n]
            /\ rprev' = [rprev EXCEPT ![n] = rprev[first], ![first] = n]
            /\ UNCHANGED base

\* Only the first node can be taken off, also by the calls that name another.
rmqueue_first(q) ==
    \E n \in ListNodes :
      /\ base[q] = n
      /\ UNCHANGED kind
      /\ base' = [base EXCEPT ![q] = IF rnext[n] = n THEN NULL ELSE rnext[n]]
      /\ rprev' = [rprev EXCEPT ![rnext[n]] = rprev[n], ![n] = Unlinked(kind, n)]
      /\ rnext' = [rnext EXCEPT ![rprev[n]] = rnext[n], ![n] = Unlinked(kind, n)]
RingStep == \E q \in ListHeads : rmqueue_first(q) \/ \E n \in ListNodes : enqueue(q, n)

-----------------------------------------------------------------------------
\* Walking a list backwards visits the same entries as walking it forwards,
\* in the opposite order, and the queue holds as many as its counter says.
LinksAgree ==
    /\ \A h \in ListHeads :
         ForEachBack(Links, h, prev[h]) = Reverse(ForEach(Links, h, next[h]))
    /\ count = Len(ForEach(Links, Queue, next[Queue]))

\* Both directions of a ring agree, what the code asserts of a thread that is
\* enqueued holds, and a message that is not queued names no other.
RingsAgree ==
    /\ \A q \in ListHeads : base[q] # NULL =>
         RingBack(q, rprev[base[q]]) = Reverse(Ring(q, base[q]))
    /\ \A n \in ListNodes : Queued(n) \/ {rnext[n], rprev[n]} = {Unlinked(kind, n)}

\* Every entry inserted and not removed is found under its hash unless a
\* newer one has the same hash, and the table counts its entries.
HashFinds ==
    /\ entries = Cardinality(DOMAIN hashOf)
    /\ \A n \in DOMAIN hashOf : hash_table_lookup(hashOf[n]) # NULL
    /\ \A v \in HashValues : LET n == hash_table_lookup(v) IN n # NULL => hashOf[n] = v

\* Each operation on the links is the operation on sequences of nodes.
Abstract == INSTANCE NodeLists WITH lists <- [h \in ListHeads |-> ForEach(Links, h, next[h])]
ImplementsLists == Abstract!NLSpec
Rings == INSTANCE NodeLists WITH lists <- [q \in ListHeads |-> Ring(q, base[q])]
=============================================================================
