----------------------------- MODULE PsVMProofs -----------------------------
(***************************************************************************)
(* Proofs about save and restore, for any number of save levels, any size  *)
(* of memory and of the operand stack: the undo records stand for a whole  *)
(* copy of memory per save (RestoresSnapshots), and no object a program    *)
(* can reach denotes memory that was given back (MemoryConsistent).        *)
(* Then about dictionaries, for any names, sizes and stacks: the name      *)
(* cache finds what a search finds (DictionariesConsistent).               *)
(***************************************************************************)
EXTENDS MCPsMemory, FiniteSetTheorems, SequenceTheorems, WellFoundedInduction, TLAPS

-----------------------------------------------------------------------------
(* What Undone computes.  Its recursion runs over the records from the      *)
(* newest to the oldest, so facts about it go down from the last index.     *)

\* Every non-empty set of natural numbers has a least element.
LEMMA LeastElement ==
  ASSUME NEW T \in SUBSET Nat, T # {}
  PROVE  \E x \in T : \A y \in T : x <= y
  <1>1. IsWellFoundedOn(OpToRel(<, Nat), Nat)
    BY NatLessThanWellFounded
  <1>2. PICK x \in T : \A y \in T : ~(<<y, x>> \in OpToRel(<, Nat))
    BY <1>1, WFMin
  <1>3. \A y \in T : ~(y < x)
    BY <1>2 DEF OpToRel
  <1> QED BY <1>3

\* What holds at b, and one lower wherever it holds above a, holds at a.
LEMMA DownTo ==
  ASSUME NEW a \in Nat, NEW b \in Nat, a <= b, NEW K, b \in K,
         \A k \in a + 1 .. b : k \in K => k - 1 \in K
  PROVE  a \in K
  <1> DEFINE T == {k \in a .. b : k \in K}
  <1>1. T \in SUBSET Nat /\ b \in T
    OBVIOUS
  <1>2. \A k \in T : k \in a .. b /\ k \in K
    OBVIOUS
  <1>3. \A k \in T : k # a => k - 1 \in T
    <2> SUFFICES ASSUME NEW k \in T, k # a PROVE k - 1 \in a .. b /\ k - 1 \in K
      OBVIOUS
    <2>1. k \in a + 1 .. b /\ k \in K
      BY <1>2
    <2> QED BY <2>1
  <1> HIDE DEF T
  <1>4. PICK x \in T : \A y \in T : x <= y
    BY <1>1, LeastElement
  <1>5. x = a
    BY <1>2, <1>3, <1>4
  <1> QED BY <1>2, <1>4, <1>5

\* One record undone.
UndoRecord(x, r, n) == RestoreDB(RestoreCE(RestoreObj(x, r.objs, n), r.ces, n), r.dbs, n)

\* g is what the recursive definition in Undone asks for.
IsUndo(g, m, sr, n) ==
  g = [i \in 1 .. Len(sr) + 1 |->
         IF i > Len(sr) THEN m ELSE UndoRecord(g[i + 1], sr[i], n)]

\* There is such a function.
LEMMA UndoExists ==
  ASSUME NEW m, NEW sr, Len(sr) \in Nat, NEW n
  PROVE  \E g : IsUndo(g, m, sr, n)
  <1> DEFINE N == Len(sr) + 1
             Good(g, i) == g[i] = IF i > Len(sr) THEN m ELSE UndoRecord(g[i + 1], sr[i], n)
             From(g, k) == /\ g = [i \in 1 .. N |-> g[i]]
                           /\ \A i \in k .. N : Good(g, i)
             K == {k \in 1 .. N : \E g : From(g, k)}
  <1>1. N \in K
    <2> DEFINE g == [i \in 1 .. N |-> m]
    <2>1. g = [i \in 1 .. N |-> g[i]] /\ \A i \in N .. N : Good(g, i)
      OBVIOUS
    <2> QED BY <2>1
  <1>2. ASSUME NEW k \in 2 .. N, k \in K PROVE k - 1 \in K
    <2>0. \E g : From(g, k)
      BY <1>2
    <2> HIDE DEF K
    <2>1. PICK g : From(g, k)
      BY <2>0
    <2> DEFINE h == [g EXCEPT ![k - 1] = UndoRecord(g[k], sr[k - 1], n)]
    <2>2. k - 1 \in 1 .. Len(sr) /\ DOMAIN g = 1 .. N
      BY <2>1
    <2>3. /\ h[k - 1] = UndoRecord(g[k], sr[k - 1], n)
          /\ \A i \in 1 .. N : i # k - 1 => h[i] = g[i]
          /\ h = [i \in 1 .. N |-> h[i]]
      <3> DEFINE v == UndoRecord(g[k], sr[k - 1], n)
      <3>1. h = [g EXCEPT ![k - 1] = v] /\ g = [i \in 1 .. N |-> g[i]] /\ k - 1 \in 1 .. N
        BY <2>1, <2>2
      <3> HIDE DEF v, h, N
      <3>2. /\ h[k - 1] = v /\ \A i \in 1 .. N : i # k - 1 => h[i] = g[i]
            /\ h = [i \in 1 .. N |-> h[i]]
        BY <3>1
      <3> QED BY <3>2 DEF v
    <2> HIDE DEF h
    <2>4. Good(h, k - 1)
      BY <2>2, <2>3
    <2>5. \A i \in k .. N : Good(h, i)
      <3> SUFFICES ASSUME NEW i \in k .. N PROVE Good(h, i)
        OBVIOUS
      <3>1. Good(g, i)
        BY <2>1
      <3>2. h[i] = g[i] /\ (i # N => h[i + 1] = g[i + 1])
        BY <2>2, <2>3
      <3> QED BY <3>1, <3>2
    <2>6. \A i \in k - 1 .. N : Good(h, i)
      BY <2>2, <2>4, <2>5
    <2>7. From(h, k - 1)
      <3> HIDE DEF Good, N
      <3> QED BY <2>3, <2>6
    <2>8. k - 1 \in 1 .. N
      BY <2>2
    <2> HIDE DEF From, N
    <2> QED BY <2>7, <2>8 DEF K
  <1>3. 1 \in K
    <2> HIDE DEF K
    <2>1. 1 + 1 .. N = 2 .. N
      OBVIOUS
    <2> QED BY <1>1, <1>2, <2>1, DownTo, N \in Nat, 1 <= N
  <1>4. PICK g : From(g, 1)
    BY <1>3
  <1>5. g = [i \in 1 .. N |-> IF i > Len(sr) THEN m ELSE UndoRecord(g[i + 1], sr[i], n)]
    BY <1>4
  <1> QED BY <1>5 DEF IsUndo

\* The values the recursion goes through.
UndoSteps(f, m, sr, n) ==
  /\ f[Len(sr) + 1] = m
  /\ \A i \in 1 .. Len(sr) : f[i] = UndoRecord(f[i + 1], sr[i], n)
  /\ Undone(m, sr, n) =
       [o \in Addresses |-> IF o < sr[n + 1].nextFree THEN f[n + 1][o] ELSE UnusedCell]

LEMMA UndoneSteps ==
  ASSUME NEW m, NEW sr, Len(sr) \in Nat, NEW n \in 0 .. Len(sr) - 1
  PROVE  \E f : UndoSteps(f, m, sr, n)
  <1> DEFINE f == CHOOSE g : g = [i \in 1 .. Len(sr) + 1 |->
                       IF i > Len(sr) THEN m ELSE UndoRecord(g[i + 1], sr[i], n)]
  <1>1. f = [i \in 1 .. Len(sr) + 1 |->
                       IF i > Len(sr) THEN m ELSE UndoRecord(f[i + 1], sr[i], n)]
    <2>1. f = CHOOSE g : IsUndo(g, m, sr, n)
      BY DEF IsUndo
    <2> HIDE DEF f
    <2>2. IsUndo(f, m, sr, n)
      BY <2>1, UndoExists
    <2> QED BY <2>2 DEF IsUndo
  <1>2. Undone(m, sr, n) =
           [o \in Addresses |-> IF o < sr[n + 1].nextFree THEN f[n + 1][o] ELSE UnusedCell]
    BY DEF Undone, UndoRecord
  <1> HIDE DEF f
  <1>3. f[Len(sr) + 1] = m
    BY <1>1
  <1>4. \A i \in 1 .. Len(sr) : f[i] = UndoRecord(f[i + 1], sr[i], n)
    BY <1>1
  <1> QED BY <1>2, <1>3, <1>4 DEF UndoSteps

-----------------------------------------------------------------------------
(* The invariant *)

\* What cells and stacks hold.
CacheValue == [kv : Int, ts : Int]
Cell == [type : {"none", "null", "array", "save", "dict", "cache"},
         val : Int \cup CacheValue, level : Nat]

Entry == [at : Int, old : Cell]
SaveRecord == [nextFree : Int, level : Nat, root : {0, 1},
               objs : SUBSET Entry, ces : SUBSET Entry, dbs : SUBSET Entry]

Entries(r) == r.objs \cup r.ces \cup r.dbs
HasLog(sr, i, o) == \E e \in Entries(sr[i]) : e.at = o

\* A cell o with level l after the saves 1 .. i was last written at l: since
\* then it was not logged, and it is older than the saves since; and at l it
\* was logged or allocated, unless l is 0.
Settled(sr, l, o, i) ==
    /\ l \in 0 .. i
    /\ \A j \in l + 1 .. i : ~HasLog(sr, j, o) /\ o < sr[j].nextFree
    /\ l = 0 \/ HasLog(sr, l, o) \/ sr[l].nextFree <= o

\* One save record: an old cell per address, of a place older than the record.
RecordOK(sr, i) ==
    /\ sr[i].nextFree \in 3 .. VMlast + 1
    /\ \A j \in 1 .. i : sr[j].nextFree <= sr[i].nextFree
    /\ \A e \in Entries(sr[i]) :
          /\ e.at \in 1 .. sr[i].nextFree - 1
          /\ e.old \in Cell /\ e.old.type # "none"
          /\ Settled(sr, e.old.level, e.at, i - 1)
          /\ e.at = CacheAt => e.old.type = "cache" /\ e.old.val \in CacheValue
    /\ \A e, g \in Entries(sr[i]) : e.at = g.at => e = g
    /\ \A e \in sr[i].objs : e.at \notin {DictAt, CacheAt}
    /\ \A e \in sr[i].ces : e.at = CacheAt
    /\ \A e \in sr[i].dbs : e.at = DictAt

RecordsOK(sr) == \A i \in 1 .. Len(sr) : RecordOK(sr, i)

\* An array is in use, and older than every save after its level.
ObjectOK(ob, m, free, sr) ==
    /\ ob.type = "array" => /\ ob.val \in 3 .. free - 1 /\ m[ob.val].type # "none"
                            /\ \A k \in 1 .. Len(sr) : k > ob.level => ob.val < sr[k].nextFree
    /\ ob.type = "save" => ob.val \in Nat

\* A cell in use was settled by the records; the rest is empty.
CellOK(m, free, sr, o) ==
    /\ m[o].type = "none" => m[o] = UnusedCell
    /\ o >= free => m[o].type = "none"
    /\ m[o].type # "none" => Settled(sr, m[o].level, o, Len(sr))
    /\ ObjectOK(m[o], m, free, sr)
    /\ o = DictAt => m[o].type # "none"
    /\ o = CacheAt => m[o].type = "cache" /\ m[o].val \in CacheValue

\* What a record keeps is still in use.
KeptOK(m, free, sr, i) ==
    /\ sr[i].nextFree <= free
    /\ \A e \in Entries(sr[i]) : m[e.at].type # "none" /\ ObjectOK(e.old, m, free, sr)

MemoryOK(m, free, sr) ==
    /\ m \in [Addresses -> Cell] /\ free \in 3 .. VMlast + 1
    /\ sr \in Seq(SaveRecord) /\ RecordsOK(sr)
    /\ \A i \in 1 .. Len(sr) : KeptOK(m, free, sr, i)
    /\ \A o \in Addresses : CellOK(m, free, sr, o)

StackOK(s, m, free, sr) ==
    /\ s \in Seq(Cell)
    /\ \A i \in 1 .. Len(s) : s[i].type # "none" /\ ObjectOK(s[i], m, free, sr)

VMInv ==
    /\ level \in 0 .. MAXlevel /\ Len(srList) = level /\ root \in {0, 1}
    /\ \A i \in 1 .. level : srList[i].level = i
    /\ MemoryOK(mem, nextFree, srList)
    /\ StackOK(ops, mem, nextFree, srList)

-----------------------------------------------------------------------------
(* What a restore finds: the oldest entry for a place among the records it *)
(* undoes, or the place itself when none of them has one.                  *)

\* An old cell as restore puts it back; a cache entry loses its time stamp.
Back(e) == IF e.at = CacheAt THEN [e.old EXCEPT !.val.ts = 0] ELSE e.old

LEMMA RestoreObjAt ==
  ASSUME NEW x, NEW list, NEW n, NEW o \in Addresses
  PROVE  /\ ~(\E e \in list : e.at = o /\ e.old.level <= n) => RestoreObj(x, list, n)[o] = x[o]
         /\ \A e \in list : /\ e.at = o /\ e.old.level <= n
                            /\ \A g \in list : g.at = e.at => g = e
                            => RestoreObj(x, list, n)[o] = e.old
  <1>1. RestoreObj(x, list, n)[o] =
          IF \E e \in list : e.at = o /\ e.old.level <= n
          THEN (CHOOSE e \in list : e.at = o).old ELSE x[o]
    BY DEF RestoreObj
  <1>2. ASSUME NEW e \in list, e.at = o, \A g \in list : g.at = e.at => g = e
        PROVE  (CHOOSE g \in list : g.at = o) = e
    BY <1>2
  <1> QED BY <1>1, <1>2

LEMMA RestoreCEAt ==
  ASSUME NEW x, NEW list, NEW n, NEW o \in Addresses
  PROVE  /\ ~(\E e \in list : e.at = o /\ e.old.level <= n) => RestoreCE(x, list, n)[o] = x[o]
         /\ \A e \in list : /\ e.at = o /\ e.old.level <= n
                            /\ \A g \in list : g.at = e.at => g = e
                            => RestoreCE(x, list, n)[o] = [e.old EXCEPT !.val.ts = 0]
  <1>1. RestoreCE(x, list, n)[o] =
          IF \E e \in list : e.at = o /\ e.old.level <= n
          THEN [(CHOOSE e \in list : e.at = o).old EXCEPT !.val.ts = 0] ELSE x[o]
    BY DEF RestoreCE
  <1>2. ASSUME NEW e \in list, e.at = o, \A g \in list : g.at = e.at => g = e
        PROVE  (CHOOSE g \in list : g.at = o) = e
    BY <1>2
  <1>3. ~(\E e \in list : e.at = o /\ e.old.level <= n) => RestoreCE(x, list, n)[o] = x[o]
    BY <1>1
  <1>4. ASSUME NEW e \in list, e.at = o, e.old.level <= n, \A g \in list : g.at = e.at => g = e
        PROVE  RestoreCE(x, list, n)[o] = [e.old EXCEPT !.val.ts = 0]
    <2>1. RestoreCE(x, list, n)[o] = [(CHOOSE g \in list : g.at = o).old EXCEPT !.val.ts = 0]
      BY <1>1, <1>4
    <2>2. (CHOOSE g \in list : g.at = o) = e
      BY <1>2, <1>4
    <2> QED BY <2>1, <2>2
  <1> QED BY <1>3, <1>4

\* One record undone, at one place: y follows x.
Follows(y, x, sr, i, n, o) ==
  /\ ~HasLog(sr, i, o) => y[o] = x[o]
  /\ \A e \in Entries(sr[i]) : e.at = o /\ e.old.level <= n => y[o] = Back(e)

LEMMA UndoRecordAt ==
  ASSUME NEW sr, NEW i, RecordOK(sr, i), NEW x, NEW n, NEW o \in Addresses
  PROVE  Follows(UndoRecord(x, sr[i], n), x, sr, i, n, o)
  <1> DEFINE r == sr[i]
             x1 == RestoreObj(x, r.objs, n)
             x2 == RestoreCE(x1, r.ces, n)
  <1>1. UndoRecord(x, r, n) = RestoreObj(x2, r.dbs, n)
    BY DEF UndoRecord, RestoreDB
  <1>2. /\ \A e, g \in Entries(r) : e.at = g.at => e = g
        /\ \A e \in r.objs : e \in Entries(r) /\ e.at # DictAt /\ e.at # CacheAt
        /\ \A e \in r.ces : e \in Entries(r) /\ e.at = CacheAt
        /\ \A e \in r.dbs : e \in Entries(r) /\ e.at = DictAt
        /\ DictAt # CacheAt
    BY DEF RecordOK, Entries, DictAt, CacheAt
  <1> HIDE DEF r, x1, x2
  <1>3. ASSUME ~HasLog(sr, i, o) PROVE UndoRecord(x, r, n)[o] = x[o]
    <2>1. \A e \in Entries(r) : e.at # o
      BY <1>3 DEF HasLog, r
    <2>2. x1[o] = x[o]
      BY <1>2, <2>1, RestoreObjAt DEF x1
    <2>3. x2[o] = x1[o]
      BY <1>2, <2>1, RestoreCEAt DEF x2
    <2>4. RestoreObj(x2, r.dbs, n)[o] = x2[o]
      BY <1>2, <2>1, RestoreObjAt
    <2> QED BY <1>1, <2>2, <2>3, <2>4
  <1>4. ASSUME NEW e \in Entries(r), e.at = o, e.old.level <= n
        PROVE  UndoRecord(x, r, n)[o] = Back(e)
    <2>1. CASE e \in r.objs
      <3>1. x1[o] = e.old
        BY <1>2, <1>4, <2>1, RestoreObjAt DEF x1
      <3>2. ~(\E g \in r.ces : g.at = o) /\ ~(\E g \in r.dbs : g.at = o)
        BY <1>2, <1>4, <2>1
      <3>3. x2[o] = x1[o]
        BY <3>2, RestoreCEAt DEF x2
      <3>4. RestoreObj(x2, r.dbs, n)[o] = x2[o]
        BY <3>2, RestoreObjAt
      <3> QED BY <1>1, <1>2, <2>1, <3>1, <3>3, <3>4 DEF Back
    <2>2. CASE e \in r.ces
      <3>1. x2[o] = [e.old EXCEPT !.val.ts = 0]
        BY <1>2, <1>4, <2>2, RestoreCEAt DEF x2
      <3>2. ~(\E g \in r.dbs : g.at = o)
        BY <1>2, <1>4, <2>2
      <3>3. RestoreObj(x2, r.dbs, n)[o] = x2[o]
        BY <3>2, RestoreObjAt
      <3>4. Back(e) = [e.old EXCEPT !.val.ts = 0]
        BY <1>2, <2>2 DEF Back
      <3> QED BY <1>1, <3>1, <3>3, <3>4
    <2>3. CASE e \in r.dbs
      <3>1. RestoreObj(x2, r.dbs, n)[o] = e.old
        BY <1>2, <1>4, <2>3, RestoreObjAt
      <3> QED BY <1>1, <1>2, <2>3, <3>1 DEF Back
    <2> QED BY <1>4, <2>1, <2>2, <2>3 DEF Entries
  <1> QED BY <1>3, <1>4 DEF r, Follows

\* Nothing is logged for o in the records a .. b.
Unlogged(sr, o, a, b) == \A j \in a .. b : ~HasLog(sr, j, o)

\* The first entry for a place older than save n + 1 is of a level up to n.
LEMMA FirstEntryOld ==
  ASSUME NEW sr, Len(sr) \in Nat, RecordsOK(sr), NEW n \in 0 .. Len(sr) - 1,
         NEW i \in n + 1 .. Len(sr), NEW e \in Entries(sr[i]),
         e.at < sr[n + 1].nextFree, Unlogged(sr, e.at, n + 1, i - 1)
  PROVE  e.old.level \in 0 .. n
  <1> DEFINE l == e.old.level
  <1>1. Settled(sr, l, e.at, i - 1) /\ l \in Nat
    BY DEF RecordsOK, RecordOK, Cell
  <1>2. CASE l > n
    <2>1. l \in n + 1 .. i - 1 /\ l \in 1 .. Len(sr)
      BY <1>1, <1>2 DEF Settled
    <2>2. ~HasLog(sr, l, e.at)
      BY <2>1 DEF Unlogged
    <2>3. sr[l].nextFree <= e.at
      BY <1>1, <2>1, <2>2 DEF Settled
    <2>4. /\ sr[n + 1].nextFree <= sr[l].nextFree
          /\ sr[l].nextFree \in 3 .. VMlast + 1 /\ sr[n + 1].nextFree \in 3 .. VMlast + 1
      <3>1. n + 1 \in 1 .. l /\ n + 1 \in 1 .. Len(sr)
        BY <2>1
      <3> QED BY <2>1, <3>1 DEF RecordsOK, RecordOK
    <2>5. e.at \in Int
      <3>1. RecordOK(sr, i) /\ i \in 1 .. Len(sr)
        BY DEF RecordsOK
      <3>2. sr[i].nextFree \in Int /\ e.at \in 1 .. sr[i].nextFree - 1
        BY <3>1, VMAssumption DEF RecordOK
      <3> QED BY <3>2
    <2>6. sr[l].nextFree \in Int /\ sr[n + 1].nextFree \in Int
      BY <2>4, VMAssumption
    <2> QED BY <2>3, <2>4, <2>5, <2>6
  <1>3. CASE ~(l > n)
    BY <1>1, <1>3
  <1> QED BY <1>2, <1>3

\* c is what stood at o when save n + 1 was made, and x is what stands there.
StoodAt(c, x, sr, n, o) ==
  /\ Unlogged(sr, o, n + 1, Len(sr)) => c = x
  /\ \A i \in n + 1 .. Len(sr) : \A e \in Entries(sr[i]) :
        e.at = o /\ Unlogged(sr, o, n + 1, i - 1) => c = Back(e)

\* Undone at a place older than save n + 1.
LEMMA UndoneAt ==
  ASSUME NEW m, NEW sr, Len(sr) \in Nat, RecordsOK(sr), NEW n \in 0 .. Len(sr) - 1,
         NEW o \in Addresses, o < sr[n + 1].nextFree
  PROVE  StoodAt(Undone(m, sr, n)[o], m[o], sr, n, o)
  <1> DEFINE N == Len(sr)
  <1>p. PICK f : UndoSteps(f, m, sr, n)
    BY UndoneSteps
  <1>1. /\ f[N + 1] = m
        /\ \A i \in 1 .. N : f[i] = UndoRecord(f[i + 1], sr[i], n)
        /\ Undone(m, sr, n) =
             [a \in Addresses |-> IF a < sr[n + 1].nextFree THEN f[n + 1][a] ELSE UnusedCell]
    BY <1>p DEF UndoSteps
  <1>u. ASSUME NEW i \in 1 .. N
        PROVE  /\ ~HasLog(sr, i, o) => f[i][o] = f[i + 1][o]
               /\ \A e \in Entries(sr[i]) :
                    e.at = o /\ e.old.level <= n => f[i][o] = Back(e)
    <2>1. RecordOK(sr, i) /\ f[i] = UndoRecord(f[i + 1], sr[i], n)
      BY <1>1 DEF RecordsOK
    <2>2. Follows(UndoRecord(f[i + 1], sr[i], n), f[i + 1], sr, i, n, o)
      BY <2>1, UndoRecordAt
    <2> QED BY <2>1, <2>2 DEF Follows
  <1>2. Undone(m, sr, n)[o] = f[n + 1][o]
    BY <1>1
  <1>3. ASSUME NEW b \in n + 1 .. N + 1, Unlogged(sr, o, n + 1, b - 1)
        PROVE  f[n + 1][o] = f[b][o]
    <2> DEFINE K == {k \in Nat : f[k][o] = f[b][o]}
    <2>1. b \in K /\ n + 1 \in Nat /\ b \in Nat /\ n + 1 <= b
      OBVIOUS
    <2>2. ASSUME NEW k \in n + 1 + 1 .. b, k \in K PROVE k - 1 \in K
      <3>1. k - 1 \in 1 .. N /\ k - 1 \in n + 1 .. b - 1 /\ k - 1 \in Nat /\ (k - 1) + 1 = k
        OBVIOUS
      <3>2. ~HasLog(sr, k - 1, o)
        BY <1>3, <3>1 DEF Unlogged
      <3>4. f[k - 1][o] = f[k][o]
        BY <1>u, <3>1, <3>2
      <3> QED BY <2>2, <3>1, <3>4
    <2>3. n + 1 \in K
      <3> HIDE DEF K
      <3> QED BY <2>1, <2>2, DownTo
    <2> QED BY <2>3
  <1>4. ASSUME Unlogged(sr, o, n + 1, N) PROVE Undone(m, sr, n)[o] = m[o]
    <2>1. N + 1 \in n + 1 .. N + 1 /\ (N + 1) - 1 = N
      OBVIOUS
    <2> QED BY <1>1, <1>2, <1>3, <1>4, <2>1
  <1>5. ASSUME NEW i \in n + 1 .. N, NEW e \in Entries(sr[i]), e.at = o,
               Unlogged(sr, o, n + 1, i - 1)
        PROVE  Undone(m, sr, n)[o] = Back(e)
    <2>1. e.old.level \in 0 .. n
      BY <1>5, FirstEntryOld
    <2>2. i \in 1 .. N /\ i \in n + 1 .. N + 1
      OBVIOUS
    <2>3. f[i][o] = Back(e)
      BY <1>u, <1>5, <2>1, <2>2
    <2> QED BY <1>2, <1>3, <1>5, <2>2, <2>3
  <1> QED BY <1>4, <1>5 DEF StoodAt

\* A place was logged first in some record, or in none.
LEMMA FirstEntry ==
  ASSUME NEW sr, NEW o, NEW a \in Nat, NEW b \in Int
  PROVE  \/ Unlogged(sr, o, a, b)
         \/ \E i \in a .. b : \E e \in Entries(sr[i]) : e.at = o /\ Unlogged(sr, o, a, i - 1)
  <1> DEFINE T == {i \in a .. b : HasLog(sr, i, o)}
  <1>1. CASE T = {}
    BY <1>1 DEF Unlogged
  <1>2. CASE T # {}
    <2>1. T \in SUBSET Nat
      OBVIOUS
    <2>2. PICK i \in T : \A j \in T : i <= j
      BY <1>2, <2>1, LeastElement
    <2>3. Unlogged(sr, o, a, i - 1)
      BY <2>1, <2>2 DEF Unlogged
    <2>4. i \in a .. b /\ \E e \in Entries(sr[i]) : e.at = o
      BY <2>2 DEF HasLog
    <2> QED BY <2>3, <2>4
  <1> QED BY <1>1, <1>2

\* Restore changes nothing of an old cell that a program sees.
Same(x, y) == Content(x) = Content(y) /\ x.type = y.type

LEMMA BackSame ==
  ASSUME NEW e, e.old \in Cell, e.at = CacheAt => e.old.type = "cache" /\ e.old.val \in CacheValue
  PROVE  /\ Back(e) \in Cell /\ Same(Back(e), e.old)
         /\ Back(e).type = e.old.type /\ Back(e).level = e.old.level
         /\ e.at = CacheAt => Back(e).val \in CacheValue
         /\ e.at # CacheAt => Back(e) = e.old
  <1>1. CASE e.at # CacheAt
    BY <1>1 DEF Back, Same
  <1>2. CASE e.at = CacheAt
    <2> DEFINE v == [e.old.val EXCEPT !.ts = 0]
    <2>1. e.old.val \in CacheValue /\ e.old.type = "cache" /\ e.old \in Cell
      BY <1>2
    <2>2. v \in CacheValue /\ v.kv = e.old.val.kv
      BY <2>1 DEF CacheValue
    <2>3. Back(e) = [e.old EXCEPT !.val = v]
      BY <1>2 DEF Back
    <2> HIDE DEF v
    <2>4. /\ Back(e) \in Cell /\ Back(e).type = "cache" /\ Back(e).val = v
          /\ Back(e).level = e.old.level
      BY <2>1, <2>2, <2>3 DEF Cell
    <2> QED BY <1>2, <2>1, <2>2, <2>4 DEF Same, Content
  <1> QED BY <1>1, <1>2

-----------------------------------------------------------------------------
(* Memory after a restore. *)

\* What a record says of its entries.
LEMMA EntryFacts ==
  ASSUME NEW m, NEW free, NEW sr, MemoryOK(m, free, sr),
         NEW i \in 1 .. Len(sr), NEW e \in Entries(sr[i])
  PROVE  /\ e.at \in Addresses /\ e.at < sr[i].nextFree /\ e.at < free
         /\ e.old \in Cell /\ e.old.type # "none"
         /\ m[e.at].type # "none" /\ ObjectOK(e.old, m, free, sr)
         /\ Settled(sr, e.old.level, e.at, i - 1)
         /\ e.at = CacheAt => e.old.type = "cache" /\ e.old.val \in CacheValue
  <1>1. /\ RecordOK(sr, i) /\ sr[i].nextFree <= free /\ free \in 3 .. VMlast + 1
        /\ m[e.at].type # "none" /\ ObjectOK(e.old, m, free, sr)
    BY DEF MemoryOK, RecordsOK, KeptOK
  <1>2. /\ sr[i].nextFree \in 3 .. VMlast + 1 /\ e.at \in 1 .. sr[i].nextFree - 1
        /\ e.old \in Cell /\ e.old.type # "none"
        /\ Settled(sr, e.old.level, e.at, i - 1)
        /\ e.at = CacheAt => e.old.type = "cache" /\ e.old.val \in CacheValue
    BY <1>1 DEF RecordOK
  <1>3. e.at \in Addresses /\ e.at < sr[i].nextFree /\ e.at < free
    BY <1>1, <1>2, VMAssumption, SMTT(30) DEF Addresses
  <1> QED BY <1>1, <1>2, <1>3

\* Saves are of places in order.
LEMMA SavesInOrder ==
  ASSUME NEW m, NEW free, NEW sr, MemoryOK(m, free, sr)
  PROVE  /\ Len(sr) \in Nat /\ free \in Int /\ VMlast \in Nat /\ free \in 3 .. VMlast + 1
         /\ RecordsOK(sr)
         /\ \A i \in 1 .. Len(sr) : sr[i].nextFree \in 3 .. free
         /\ \A i, j \in 1 .. Len(sr) : i <= j => sr[i].nextFree <= sr[j].nextFree
  <1>1. /\ Len(sr) \in Nat /\ free \in Int /\ VMlast \in Nat /\ free \in 3 .. VMlast + 1
        /\ RecordsOK(sr)
    BY VMAssumption DEF MemoryOK
  <1>2. ASSUME NEW j \in 1 .. Len(sr)
        PROVE  /\ sr[j].nextFree \in 3 .. free
               /\ \A i \in 1 .. j : sr[i].nextFree <= sr[j].nextFree
    <2>1. RecordOK(sr, j) /\ sr[j].nextFree <= free
      BY <1>1 DEF MemoryOK, RecordsOK, KeptOK
    <2>2. sr[j].nextFree \in 3 .. VMlast + 1
      BY <2>1 DEF RecordOK
    <2> QED BY <1>1, <2>1, <2>2 DEF RecordOK
  <1> QED BY <1>1, <1>2

\* A cell of a level above n is not older than save n + 1, or was logged since.
LEMMA OldIsSettled ==
  ASSUME NEW m, NEW free, NEW sr, MemoryOK(m, free, sr),
         NEW n \in 0 .. Len(sr) - 1, NEW b \in n .. Len(sr), NEW l, NEW o \in Int,
         Settled(sr, l, o, b), Unlogged(sr, o, n + 1, b), o < sr[n + 1].nextFree
  PROVE  l \in 0 .. n /\ Settled(sr, l, o, n)
  <1>1. l \in 0 .. b /\ Len(sr) \in Nat /\ \A i \in 1 .. Len(sr) : sr[i].nextFree \in Int
    BY SavesInOrder DEF Settled
  <1>2. CASE l > n
    <2>1. l \in n + 1 .. b /\ l \in 1 .. Len(sr) /\ n + 1 \in 1 .. Len(sr) /\ n + 1 <= l
      BY <1>1, <1>2
    <2>2. sr[l].nextFree <= o
      BY <2>1 DEF Settled, Unlogged
    <2>3. sr[n + 1].nextFree <= sr[l].nextFree
      BY <2>1, SavesInOrder
    <2> QED BY <1>1, <2>1, <2>2, <2>3
  <1>3. CASE ~(l > n)
    BY <1>1, <1>3 DEF Settled
  <1> QED BY <1>2, <1>3

\* Memory as restore to level n leaves it, cell by cell.
CellBack(c, m, free, sr, n, o) ==
  /\ c \in Cell
  /\ o >= sr[n + 1].nextFree => c = UnusedCell
  /\ c.type = "none" => c = UnusedCell
  /\ o < sr[n + 1].nextFree => (c.type = "none" <=> m[o].type = "none")
  /\ c.type # "none" => Settled(sr, c.level, o, n)
  /\ o = CacheAt => c.type = "cache" /\ c.val \in CacheValue
  /\ c.level \in 0 .. n
  /\ ObjectOK(c, m, free, sr)

LEMMA UnusedFacts ==
  ASSUME NEW m, NEW free, NEW sr
  PROVE  /\ UnusedCell \in Cell /\ UnusedCell.type = "none" /\ UnusedCell.level = 0
         /\ ObjectOK(UnusedCell, m, free, sr)
  BY DEF UnusedCell, Ob, Cell, ObjectOK

LEMMA UndoneCells ==
  ASSUME NEW m, NEW free, NEW sr, MemoryOK(m, free, sr),
         NEW n \in 0 .. Len(sr) - 1, NEW o \in Addresses
  PROVE  CellBack(Undone(m, sr, n)[o], m, free, sr, n, o)
  <1> DEFINE c == Undone(m, sr, n)[o]
             top == sr[n + 1].nextFree
  <1>0. /\ Len(sr) \in Nat /\ RecordsOK(sr) /\ n + 1 \in 1 .. Len(sr)
        /\ top \in 3 .. free /\ free \in Int /\ VMlast \in Nat /\ o \in 1 .. VMlast
        /\ o # CacheAt \/ o < top
    BY SavesInOrder DEF Addresses, CacheAt
  <1>1. CASE o >= top
    <2>1. c = UnusedCell
      <3>1. PICK f : UndoSteps(f, m, sr, n)
        BY <1>0, UndoneSteps
      <3> QED BY <1>0, <1>1, <3>1 DEF UndoSteps
    <2> HIDE DEF c, top
    <2>2. ~(o < top) /\ o # CacheAt
      BY <1>0, <1>1
    <2>3. /\ c \in Cell /\ c.type = "none" /\ c.level \in 0 .. n
          /\ ObjectOK(c, m, free, sr)
      BY <1>0, <2>1, UnusedFacts
    <2> QED BY <2>1, <2>2, <2>3 DEF c, top, CellBack
  <1>2. CASE o < top
    <2>0. StoodAt(c, m[o], sr, n, o)
      BY <1>0, <1>2, UndoneAt
    <2>1. CASE Unlogged(sr, o, n + 1, Len(sr))
      <3>1. c = m[o]
        BY <2>0, <2>1 DEF StoodAt
      <3>2. m[o] \in Cell /\ CellOK(m, free, sr, o)
        BY DEF MemoryOK
      <3>3. m[o].type # "none" => Settled(sr, m[o].level, o, n) /\ m[o].level \in 0 .. n
        BY <1>0, <1>2, <2>1, <3>2, OldIsSettled DEF CellOK
      <3>4. m[o].type = "none" => m[o].level \in 0 .. n
        BY <1>0, <3>2, UnusedFacts DEF CellOK
      <3>5. ~(o >= top)
        BY <1>0, <1>2
      <3> HIDE DEF c, top
      <3> QED BY <3>1, <3>2, <3>3, <3>4, <3>5 DEF c, top, CellBack, CellOK
    <2>2. CASE ~Unlogged(sr, o, n + 1, Len(sr))
      <3>1. PICK i \in n + 1 .. Len(sr) : \E e \in Entries(sr[i]) :
              e.at = o /\ Unlogged(sr, o, n + 1, i - 1)
        BY <1>0, <2>2, FirstEntry
      <3>2. PICK e \in Entries(sr[i]) : e.at = o /\ Unlogged(sr, o, n + 1, i - 1)
        BY <3>1
      <3>3. c = Back(e)
        BY <2>0, <3>2 DEF StoodAt
      <3>4. i \in 1 .. Len(sr) /\ i - 1 \in n .. Len(sr)
        BY <1>0
      <3>5. /\ e.old \in Cell /\ e.old.type # "none" /\ m[o].type # "none"
            /\ ObjectOK(e.old, m, free, sr)
            /\ Settled(sr, e.old.level, o, i - 1)
            /\ e.at = CacheAt => e.old.type = "cache" /\ e.old.val \in CacheValue
        BY <3>2, <3>4, EntryFacts
      <3>6. Settled(sr, e.old.level, o, n) /\ e.old.level \in 0 .. n
        BY <1>0, <1>2, <3>2, <3>4, <3>5, OldIsSettled, SMTT(30)
      <3>7. /\ c \in Cell /\ c.type = e.old.type /\ c.level = e.old.level
            /\ o = CacheAt => c.val \in CacheValue /\ c.type = "cache"
            /\ o # CacheAt => c = e.old
        BY <3>2, <3>3, <3>5, BackSame
      <3>8. ObjectOK(c, m, free, sr)
        <4>1. CASE o # CacheAt
          BY <3>5, <3>7, <4>1
        <4>2. CASE o = CacheAt
          <5>1. c.type = "cache"
            BY <3>7, <4>2
          <5> HIDE DEF c
          <5> QED BY <5>1 DEF ObjectOK
        <4> QED BY <4>1, <4>2
      <3>9. ~(o >= top)
        BY <1>0, <1>2
      <3> HIDE DEF c, top
      <3> QED BY <3>5, <3>6, <3>7, <3>8, <3>9 DEF c, top, CellBack
    <2> QED BY <2>1, <2>2
  <1> QED BY <1>0, <1>1, <1>2

\* Records that agree up to n say the same up to n.
LEMMA SamePrefix ==
  ASSUME NEW sr, NEW sr2, NEW n \in Nat, \A i \in 1 .. n : sr2[i] = sr[i]
  PROVE  /\ \A i \in 1 .. n : \A o : HasLog(sr2, i, o) <=> HasLog(sr, i, o)
         /\ \A i \in 0 .. n : \A l, o : Settled(sr, l, o, i) => Settled(sr2, l, o, i)
         /\ \A i \in 1 .. n : RecordOK(sr, i) => RecordOK(sr2, i)
  <1>1. \A i \in 1 .. n : \A o : HasLog(sr2, i, o) <=> HasLog(sr, i, o)
    BY DEF HasLog
  <1>2. ASSUME NEW i \in 0 .. n, NEW l, NEW o, Settled(sr, l, o, i)
        PROVE  Settled(sr2, l, o, i)
    <2>1. l \in 0 .. i /\ (l = 0 \/ l \in 1 .. n)
      BY <1>2 DEF Settled
    <2>2. \A j \in l + 1 .. i : j \in 1 .. n
      BY <2>1
    <2> QED BY <1>1, <1>2, <2>1, <2>2 DEF Settled
  <1>3. ASSUME NEW i \in 1 .. n, RecordOK(sr, i) PROVE RecordOK(sr2, i)
    <2>1. sr2[i] = sr[i] /\ \A j \in 1 .. i : sr2[j] = sr[j]
      OBVIOUS
    <2>2. \A l, o : Settled(sr, l, o, i - 1) => Settled(sr2, l, o, i - 1)
      BY <1>2
    <2> QED BY <1>3, <2>1, <2>2 DEF RecordOK
  <1> QED BY <1>1, <1>2, <1>3

LEMMA UndoneIsMemory ==
  ASSUME NEW m, NEW free, NEW sr, MemoryOK(m, free, sr), NEW n \in 0 .. Len(sr) - 1
  PROVE  Undone(m, sr, n) \in [Addresses -> Cell]
  <1>1. Len(sr) \in Nat
    BY SavesInOrder
  <1>2. PICK f : UndoSteps(f, m, sr, n)
    BY <1>1, UndoneSteps
  <1>3. \A o \in Addresses : Undone(m, sr, n)[o] \in Cell
    BY UndoneCells DEF CellBack
  <1>4. Undone(m, sr, n) = [o \in Addresses |-> Undone(m, sr, n)[o]]
    BY <1>2 DEF UndoSteps
  <1> HIDE DEF UndoSteps
  <1> QED BY <1>3, <1>4

\* An object of level n or older survives a restore to n.
LEMMA ObjectBack ==
  ASSUME NEW m, NEW free, NEW sr, MemoryOK(m, free, sr), NEW n \in 0 .. Len(sr) - 1,
         NEW ob, ObjectOK(ob, m, free, sr), ob.type = "array" => ob.level \in Int /\ ob.level <= n
  PROVE  ObjectOK(ob, Undone(m, sr, n), sr[n + 1].nextFree, SubSeq(sr, 1, n))
  <1> DEFINE m2 == Undone(m, sr, n)
             sr2 == SubSeq(sr, 1, n)
             top == sr[n + 1].nextFree
  <1>0. /\ Len(sr) \in Nat /\ n + 1 \in 1 .. Len(sr) /\ free \in 3 .. VMlast + 1
        /\ top \in 3 .. free /\ VMlast \in Nat
    BY SavesInOrder
  <1>1. Len(sr2) = n /\ \A i \in 1 .. n : sr2[i] = sr[i]
    BY <1>0 DEF MemoryOK
  <1>2. CASE ob.type # "array"
    BY <1>2 DEF ObjectOK
  <1>3. CASE ob.type = "array"
    <2>1. /\ ob.val \in 3 .. free - 1 /\ m[ob.val].type # "none"
          /\ \A k \in 1 .. Len(sr) : k > ob.level => ob.val < sr[k].nextFree
      BY <1>3 DEF ObjectOK
    <2>2. ob.val < top
      BY <1>0, <1>3, <2>1
    <2>3. ob.val \in Addresses /\ ob.val \in 3 .. top - 1
      BY <1>0, <2>1, <2>2 DEF Addresses
    <2>4. m2[ob.val].type # "none"
      BY <2>1, <2>2, <2>3, UndoneCells DEF CellBack
    <2>5. \A k \in 1 .. Len(sr2) : k > ob.level => ob.val < sr2[k].nextFree
      BY <1>0, <1>1, <2>1
    <2> HIDE DEF m2, sr2, top
    <2>6. ObjectOK(ob, m2, top, sr2)
      BY <1>3, <2>3, <2>4, <2>5 DEF ObjectOK
    <2> QED BY <2>6 DEF m2, sr2, top
  <1> QED BY <1>2, <1>3

LEMMA RestoreKeepsMemory ==
  ASSUME NEW m, NEW free, NEW sr, MemoryOK(m, free, sr), NEW n \in 0 .. Len(sr) - 1
  PROVE  MemoryOK(Undone(m, sr, n), sr[n + 1].nextFree, SubSeq(sr, 1, n))
  <1> DEFINE m2 == Undone(m, sr, n)
             sr2 == SubSeq(sr, 1, n)
             top == sr[n + 1].nextFree
  <1>0. /\ Len(sr) \in Nat /\ n + 1 \in 1 .. Len(sr) /\ free \in 3 .. VMlast + 1
        /\ top \in 3 .. free /\ VMlast \in Nat /\ RecordsOK(sr) /\ n \in Nat
    BY SavesInOrder
  <1>s. sr \in Seq(SaveRecord)
    BY DEF MemoryOK
  <1>n. \A i \in 1 .. n : i \in 1 .. Len(sr) /\ i <= n + 1 /\ sr[i].nextFree <= top
    <2> SUFFICES ASSUME NEW i \in 1 .. n PROVE sr[i].nextFree <= top
      BY <1>0
    <2>1. i \in 1 .. Len(sr) /\ i <= n + 1
      BY <1>0
    <2> QED BY <1>0, <2>1, SavesInOrder
  <1>1. Len(sr2) = n /\ sr2 \in Seq(SaveRecord) /\ \A i \in 1 .. n : sr2[i] = sr[i]
    BY <1>0, <1>s
  <1>2. m2 \in [Addresses -> Cell] /\ top \in 3 .. VMlast + 1
    BY <1>0, UndoneIsMemory
  <1>3. RecordsOK(sr2)
    BY <1>0, <1>n, <1>1, SamePrefix DEF RecordsOK
  <1>c. \A o \in Addresses : CellBack(m2[o], m, free, sr, n, o)
    BY UndoneCells
  <1>o. \A ob : ObjectOK(ob, m, free, sr) /\ (ob.type = "array" => ob.level \in Int /\ ob.level <= n)
          => ObjectOK(ob, m2, top, sr2)
    BY ObjectBack
  <1> HIDE DEF m2, sr2, top
  <1>4. ASSUME NEW i \in 1 .. n PROVE KeptOK(m2, top, sr2, i)
    <2>1. ASSUME NEW e \in Entries(sr[i])
          PROVE  m2[e.at].type # "none" /\ ObjectOK(e.old, m2, top, sr2)
      <3>1. /\ e.at \in Addresses /\ e.at < sr[i].nextFree /\ e.old \in Cell
            /\ m[e.at].type # "none" /\ ObjectOK(e.old, m, free, sr)
            /\ Settled(sr, e.old.level, e.at, i - 1)
        BY <1>n, EntryFacts
      <3>2. e.at < top
        <4>1. sr[i].nextFree \in Int
          BY <1>n, SavesInOrder
        <4> QED BY <1>0, <1>n, <3>1, <4>1 DEF Addresses
      <3>3. m2[e.at].type # "none"
        BY <1>c, <3>1, <3>2 DEF CellBack, top
      <3>4. e.old.level \in Int /\ e.old.level <= n
        BY <3>1 DEF Settled
      <3> QED BY <1>o, <3>1, <3>3, <3>4
    <2> QED BY <1>n, <1>1, <2>1 DEF KeptOK
  <1>5. ASSUME NEW o \in Addresses PROVE CellOK(m2, top, sr2, o)
    <2>1. /\ m2[o].type = "none" => m2[o] = UnusedCell
          /\ o >= top => m2[o] = UnusedCell
          /\ o < top => (m2[o].type = "none" <=> m[o].type = "none")
          /\ m2[o].type # "none" => Settled(sr, m2[o].level, o, n)
          /\ o = CacheAt => m2[o].type = "cache" /\ m2[o].val \in CacheValue
          /\ m2[o].level \in 0 .. n /\ ObjectOK(m2[o], m, free, sr)
      BY <1>c DEF CellBack, top
    <2>2. m2[o].type # "none" => Settled(sr2, m2[o].level, o, n)
      <3>1. \A l : Settled(sr, l, o, n) => Settled(sr2, l, o, n)
        BY <1>0, <1>1, SamePrefix, n \in 0 .. n
      <3> QED BY <2>1, <3>1
    <2>3. ObjectOK(m2[o], m2, top, sr2)
      BY <1>o, <2>1
    <2>4. o = DictAt => m2[o].type # "none"
      <3>1. o = DictAt => m[o].type # "none" /\ o < top
        BY <1>0 DEF MemoryOK, CellOK, DictAt
      <3> QED BY <2>1, <3>1
    <2> QED BY <1>1, <2>1, <2>2, <2>3, <2>4, UnusedFacts DEF CellOK
  <1>6. MemoryOK(m2, top, sr2)
    BY <1>1, <1>2, <1>3, <1>4, <1>5 DEF MemoryOK
  <1> QED BY <1>6 DEF m2, sr2, top

-----------------------------------------------------------------------------
(* Memory after an allocation, a save and a write. *)

\* An object stays good while what is in use stays in use.
LEMMA ObjectKept ==
  ASSUME NEW ob, NEW m, NEW free \in Int, NEW sr, ObjectOK(ob, m, free, sr),
         NEW m2, NEW free2 \in Int, NEW sr2, free <= free2, free <= VMlast + 1,
         \A o \in Addresses : m[o].type # "none" => m2[o].type # "none",
         Len(sr) \in Nat, Len(sr2) \in Nat,
         \A k \in 1 .. Len(sr2) : \/ k \in 1 .. Len(sr) /\ sr2[k].nextFree = sr[k].nextFree
                                  \/ sr2[k].nextFree = free
  PROVE  ObjectOK(ob, m2, free2, sr2)
  <1>1. CASE ob.type # "array"
    BY <1>1 DEF ObjectOK
  <1>2. CASE ob.type = "array"
    <2>1. /\ ob.val \in 3 .. free - 1 /\ m[ob.val].type # "none"
          /\ \A k \in 1 .. Len(sr) : k > ob.level => ob.val < sr[k].nextFree
      BY <1>2 DEF ObjectOK
    <2>2. ob.val \in Addresses /\ ob.val \in 3 .. free2 - 1 /\ ob.val < free
      BY <2>1, VMAssumption DEF Addresses
    <2>3. \A k \in 1 .. Len(sr2) : k > ob.level => ob.val < sr2[k].nextFree
      BY <2>1, <2>2
    <2> QED BY <1>2, <2>1, <2>2, <2>3 DEF ObjectOK
  <1> QED BY <1>1, <1>2

\* What an allocation leaves of the cells that were in use.
LEMMA GrowKeepsMemory ==
  ASSUME NEW m, NEW free, NEW sr, MemoryOK(m, free, sr), free <= VMlast
  PROVE  /\ MemoryOK([m EXCEPT ![free] = Ob("null", 0, Len(sr))], free + 1, sr)
         /\ \A ob : ObjectOK(ob, m, free, sr)
              => ObjectOK(ob, [m EXCEPT ![free] = Ob("null", 0, Len(sr))], free + 1, sr)
         /\ ObjectOK(Ob("array", free, Len(sr)),
                     [m EXCEPT ![free] = Ob("null", 0, Len(sr))], free + 1, sr)
  <1> DEFINE c == Ob("null", 0, Len(sr))
             m2 == [m EXCEPT ![free] = c]
  <1>0. /\ Len(sr) \in Nat /\ free \in Int /\ VMlast \in Nat /\ free \in 3 .. VMlast
        /\ free \in Addresses /\ free + 1 \in 3 .. VMlast + 1 /\ free # DictAt /\ free # CacheAt
    BY SavesInOrder DEF Addresses, DictAt, CacheAt
  <1>1. c.type = "null" /\ c.level = Len(sr) /\ c \in Cell
    BY <1>0 DEF Ob, Cell
  <1>2. m \in [Addresses -> Cell] /\ m[free].type = "none"
    BY <1>0 DEF MemoryOK, CellOK
  <1> HIDE DEF c
  <1>3. /\ m2 \in [Addresses -> Cell] /\ m2[free] = c
        /\ \A o \in Addresses : o # free => m2[o] = m[o]
    BY <1>0, <1>1, <1>2
  <1> HIDE DEF m2
  <1>4. ASSUME NEW ob, ObjectOK(ob, m, free, sr) PROVE ObjectOK(ob, m2, free + 1, sr)
    BY <1>0, <1>1, <1>2, <1>3, <1>4, ObjectKept
  <1>5. ASSUME NEW i \in 1 .. Len(sr) PROVE KeptOK(m2, free + 1, sr, i)
    <2>1. /\ sr[i].nextFree \in 3 .. free
          /\ \A e \in Entries(sr[i]) : /\ e.at \in Addresses /\ m[e.at].type # "none"
                                       /\ ObjectOK(e.old, m, free, sr)
      BY SavesInOrder, EntryFacts
    <2>2. \A e \in Entries(sr[i]) : m2[e.at].type # "none" /\ ObjectOK(e.old, m2, free + 1, sr)
      BY <1>1, <1>3, <1>4, <2>1
    <2> QED BY <1>0, <2>1, <2>2 DEF KeptOK
  <1>6. ASSUME NEW o \in Addresses PROVE CellOK(m2, free + 1, sr, o)
    <2>1. CASE o # free
      <3>1. CellOK(m, free, sr, o) /\ m2[o] = m[o]
        BY <1>3, <2>1 DEF MemoryOK
      <3>2. o >= free + 1 => o >= free
        BY <1>0 DEF Addresses
      <3> QED BY <1>4, <3>1, <3>2 DEF CellOK
    <2>2. CASE o = free
      <3>1. Settled(sr, Len(sr), free, Len(sr))
        BY <1>0, SavesInOrder DEF Settled
      <3>2. ObjectOK(c, m2, free + 1, sr)
        BY <1>1 DEF ObjectOK
      <3>3. ~(free >= free + 1)
        BY <1>0
      <3> QED BY <1>0, <1>1, <1>3, <2>2, <3>1, <3>2, <3>3 DEF CellOK
    <2> QED BY <2>1, <2>2
  <1>7. MemoryOK(m2, free + 1, sr)
    BY <1>0, <1>3, <1>5, <1>6 DEF MemoryOK
  <1>8. ObjectOK(Ob("array", free, Len(sr)), m2, free + 1, sr)
    <2>1. m2[free].type # "none" /\ free \in 3 .. (free + 1) - 1
      BY <1>0, <1>1, <1>3
    <2> QED BY <1>0, <2>1 DEF ObjectOK, Ob
  <1> QED BY <1>4, <1>7, <1>8 DEF m2, c

\* A save takes a word and adds an empty record.
LEMMA SaveKeepsMemory ==
  ASSUME NEW m, NEW free, NEW sr, MemoryOK(m, free, sr), free <= VMlast,
         NEW r \in SaveRecord, Entries(r) = {}, r.nextFree = free
  PROVE  /\ MemoryOK(m, free + 1, Append(sr, r))
         /\ \A ob : ObjectOK(ob, m, free, sr) => ObjectOK(ob, m, free + 1, Append(sr, r))
  <1> DEFINE sr2 == Append(sr, r)
             L == Len(sr)
  <1>0. /\ L \in Nat /\ free \in Int /\ VMlast \in Nat /\ free \in 3 .. VMlast + 1
        /\ free + 1 \in 3 .. VMlast + 1 /\ RecordsOK(sr)
    BY SavesInOrder
  <1>s. sr \in Seq(SaveRecord)
    BY DEF MemoryOK
  <1>1. /\ sr2 \in Seq(SaveRecord) /\ Len(sr2) = L + 1 /\ sr2[L + 1] = r
        /\ \A i \in 1 .. L : sr2[i] = sr[i]
    BY <1>s
  <1> HIDE DEF sr2, L
  <1>2. /\ \A i \in 0 .. L : \A l, o : Settled(sr, l, o, i) => Settled(sr2, l, o, i)
        /\ \A i \in 1 .. L : RecordOK(sr, i) => RecordOK(sr2, i)
        /\ \A o : ~HasLog(sr2, L + 1, o)
    BY <1>0, <1>1, SamePrefix DEF HasLog
  <1>3. RecordOK(sr2, L + 1)
    <2>1. \A j \in 1 .. L : sr2[j].nextFree \in 3 .. free
      BY <1>1, SavesInOrder DEF L
    <2>2. r.objs = {} /\ r.ces = {} /\ r.dbs = {}
      BY DEF Entries
    <2>3. \A j \in 1 .. L + 1 : sr2[j].nextFree <= sr2[L + 1].nextFree
      BY <1>0, <1>1, <2>1
    <2> QED BY <1>0, <1>1, <2>2, <2>3 DEF RecordOK
  <1>4. RecordsOK(sr2)
    BY <1>0, <1>1, <1>2, <1>3 DEF RecordsOK, L
  <1>5. ASSUME NEW ob, ObjectOK(ob, m, free, sr) PROVE ObjectOK(ob, m, free + 1, sr2)
    <2>1. \A k \in 1 .. Len(sr2) : \/ k \in 1 .. Len(sr) /\ sr2[k].nextFree = sr[k].nextFree
                                   \/ sr2[k].nextFree = free
      BY <1>0, <1>1 DEF L
    <2> QED BY <1>0, <1>1, <1>5, <2>1, ObjectKept DEF L
  <1>6. ASSUME NEW i \in 1 .. L + 1 PROVE KeptOK(m, free + 1, sr2, i)
    <2>1. CASE i \in 1 .. L
      <3>1. /\ sr[i].nextFree \in 3 .. free /\ sr2[i] = sr[i]
            /\ \A e \in Entries(sr[i]) : m[e.at].type # "none" /\ ObjectOK(e.old, m, free, sr)
        BY <1>1, <2>1, SavesInOrder, EntryFacts DEF L
      <3> QED BY <1>0, <1>5, <3>1 DEF KeptOK
    <2>2. CASE i = L + 1
      BY <1>0, <1>1, <2>2 DEF KeptOK
    <2> QED BY <1>0, <2>1, <2>2
  <1>7. ASSUME NEW o \in Addresses PROVE CellOK(m, free + 1, sr2, o)
    <2>1. CellOK(m, free, sr, o) /\ o \in Int
      BY DEF MemoryOK, Addresses
    <2>2. o >= free + 1 => o >= free
      BY <1>0, <2>1
    <2>3. ASSUME m[o].type # "none" PROVE Settled(sr2, m[o].level, o, L + 1)
      <3>1. Settled(sr, m[o].level, o, L) /\ o < free
        BY <1>0, <2>1, <2>3 DEF CellOK, L
      <3>2. Settled(sr2, m[o].level, o, L)
        BY <1>0, <1>2, <3>1
      <3> QED BY <1>0, <1>1, <1>2, <3>1, <3>2 DEF Settled
    <2> QED BY <1>1, <1>5, <2>1, <2>2, <2>3 DEF CellOK
  <1>8. MemoryOK(m, free + 1, sr2)
    BY <1>0, <1>1, <1>4, <1>6, <1>7 DEF MemoryOK
  <1> QED BY <1>5, <1>8 DEF sr2

\* What may be written to o: an object of the present level that is in use.
Writable(c, m, free, sr, o) ==
  /\ c \in Cell /\ c.type # "none" /\ c.level = Len(sr) /\ ObjectOK(c, m, free, sr)
  /\ o = CacheAt => c.type = "cache" /\ c.val \in CacheValue

\* The cell of an address at the present level needs no entry.
LEMMA WriteKeepsMemory ==
  ASSUME NEW m, NEW free, NEW sr, MemoryOK(m, free, sr), NEW o \in Addresses,
         m[o].type # "none", m[o].level = Len(sr), NEW c, Writable(c, m, free, sr, o)
  PROVE  /\ MemoryOK([m EXCEPT ![o] = c], free, sr)
         /\ \A ob : ObjectOK(ob, m, free, sr) => ObjectOK(ob, [m EXCEPT ![o] = c], free, sr)
  <1> DEFINE m2 == [m EXCEPT ![o] = c]
  <1>0. /\ Len(sr) \in Nat /\ free \in Int /\ VMlast \in Nat /\ free \in 3 .. VMlast + 1
    BY SavesInOrder
  <1>1. /\ m2 \in [Addresses -> Cell] /\ m2[o] = c
        /\ \A a \in Addresses : a # o => m2[a] = m[a]
    BY DEF MemoryOK, Writable
  <1> HIDE DEF m2
  <1>2. \A a \in Addresses : m[a].type # "none" => m2[a].type # "none"
    BY <1>1 DEF Writable
  <1>3. ASSUME NEW ob, ObjectOK(ob, m, free, sr) PROVE ObjectOK(ob, m2, free, sr)
    BY <1>0, <1>2, <1>3, ObjectKept
  <1>4. ASSUME NEW i \in 1 .. Len(sr) PROVE KeptOK(m2, free, sr, i)
    <2>1. /\ KeptOK(m, free, sr, i)
          /\ \A e \in Entries(sr[i]) : /\ e.at \in Addresses /\ m[e.at].type # "none"
                                       /\ ObjectOK(e.old, m, free, sr)
      BY EntryFacts DEF MemoryOK
    <2> QED BY <1>2, <1>3, <2>1 DEF KeptOK
  <1>5. ASSUME NEW a \in Addresses PROVE CellOK(m2, free, sr, a)
    <2>1. CellOK(m, free, sr, a)
      BY DEF MemoryOK
    <2>2. CASE a # o
      BY <1>1, <1>3, <2>1, <2>2 DEF CellOK
    <2>3. CASE a = o
      BY <1>1, <1>3, <2>1, <2>3 DEF CellOK, Writable
    <2> QED BY <2>2, <2>3
  <1>6. MemoryOK(m2, free, sr)
    BY <1>1, <1>4, <1>5 DEF MemoryOK
  <1> QED BY <1>3, <1>6 DEF m2

\* sr2 is sr with one entry more in the newest record.
Entered(sr, sr2, e) ==
  LET L == Len(sr)
  IN  /\ sr2 \in Seq(SaveRecord) /\ Len(sr2) = L /\ \A i \in 1 .. L - 1 : sr2[i] = sr[i]
      /\ Entries(sr2[L]) = Entries(sr[L]) \cup {e}
      /\ sr2[L].nextFree = sr[L].nextFree /\ sr2[L].root = sr[L].root
      /\ sr2[L].level = sr[L].level
      /\ \A x \in sr2[L].objs : x \in sr[L].objs \/ x.at \notin {DictAt, CacheAt}
      /\ \A x \in sr2[L].ces : x \in sr[L].ces \/ x.at = CacheAt
      /\ \A x \in sr2[L].dbs : x \in sr[L].dbs \/ x.at = DictAt

\* A cell of an older level was not logged yet, and the newest record is to
\* protect it.
LEMMA OlderCell ==
  ASSUME NEW m, NEW free, NEW sr, MemoryOK(m, free, sr), NEW o \in Addresses,
         m[o].type # "none", m[o].level # Len(sr)
  PROVE  /\ Len(sr) \in Nat \ {0} /\ m[o].level \in 0 .. Len(sr) - 1
         /\ ~HasLog(sr, Len(sr), o) /\ o < sr[Len(sr)].nextFree
         /\ Settled(sr, m[o].level, o, Len(sr) - 1)
  <1>1. Len(sr) \in Nat /\ Settled(sr, m[o].level, o, Len(sr))
    BY SavesInOrder DEF MemoryOK, CellOK
  <1>2. m[o].level \in 0 .. Len(sr) - 1 /\ Len(sr) \in m[o].level + 1 .. Len(sr)
    BY <1>1 DEF Settled
  <1> QED BY <1>1, <1>2 DEF Settled

\* Entries and settled cells after one entry is added.
LEMMA LoggedSettled ==
  ASSUME NEW m, NEW free, NEW sr, MemoryOK(m, free, sr), Len(sr) \in Nat \ {0},
         NEW sr2, NEW e, Entered(sr, sr2, e)
  PROVE  /\ \A i \in 1 .. Len(sr) : \A o :
                HasLog(sr2, i, o) <=> HasLog(sr, i, o) \/ (i = Len(sr) /\ o = e.at)
         /\ \A i \in 1 .. Len(sr) : sr2[i].nextFree = sr[i].nextFree
         /\ \A i \in 0 .. Len(sr) - 1 : \A l, o : Settled(sr, l, o, i) => Settled(sr2, l, o, i)
         /\ \A l, o : Settled(sr, l, o, Len(sr)) /\ o # e.at => Settled(sr2, l, o, Len(sr))
         /\ Settled(sr2, Len(sr), e.at, Len(sr))
  <1> DEFINE L == Len(sr)
  <1>0. L \in Nat \ {0} /\ L - 1 \in Nat
    OBVIOUS
  <1>1. /\ \A i \in 1 .. L - 1 : sr2[i] = sr[i]
        /\ Entries(sr2[L]) = Entries(sr[L]) \cup {e} /\ sr2[L].nextFree = sr[L].nextFree
    BY DEF Entered
  <1> HIDE DEF L
  <1>2. \A i \in 1 .. L : \A o : HasLog(sr2, i, o) <=> HasLog(sr, i, o) \/ (i = L /\ o = e.at)
    <2> SUFFICES ASSUME NEW i \in 1 .. L, NEW o
                 PROVE  HasLog(sr2, i, o) <=> HasLog(sr, i, o) \/ (i = L /\ o = e.at)
      OBVIOUS
    <2>1. CASE i = L
      BY <1>1, <2>1 DEF HasLog
    <2>2. CASE i # L
      <3>1. i \in 1 .. L - 1
        BY <1>0, <2>2
      <3> QED BY <1>1, <2>2, <3>1 DEF HasLog
    <2> QED BY <2>1, <2>2
  <1>3. \A i \in 1 .. L : sr2[i].nextFree = sr[i].nextFree
    <2> SUFFICES ASSUME NEW i \in 1 .. L PROVE sr2[i].nextFree = sr[i].nextFree
      OBVIOUS
    <2>1. i = L \/ i \in 1 .. L - 1
      BY <1>0
    <2> QED BY <1>1, <2>1
  <1>4. \A i \in 0 .. L - 1 : \A l, o : Settled(sr, l, o, i) => Settled(sr2, l, o, i)
    BY <1>0, <1>1, SamePrefix
  <1>5. ASSUME NEW l, NEW o, Settled(sr, l, o, L), o # e.at PROVE Settled(sr2, l, o, L)
    <2>1. l \in 0 .. L /\ (l = 0 \/ l \in 1 .. L) /\ \A j \in l + 1 .. L : j \in 1 .. L
      BY <1>0, <1>5 DEF Settled
    <2> QED BY <1>2, <1>3, <1>5, <2>1 DEF Settled
  <1>6. Settled(sr2, L, e.at, L)
    <2>1. HasLog(sr2, L, e.at)
      BY <1>0, <1>2
    <2> QED BY <1>0, <2>1 DEF Settled
  <1> QED BY <1>2, <1>3, <1>4, <1>5, <1>6 DEF L

LEMMA LogKeepsRecords ==
  ASSUME NEW m, NEW free, NEW sr, MemoryOK(m, free, sr), NEW o \in Addresses,
         m[o].type # "none", m[o].level # Len(sr),
         NEW sr2, Entered(sr, sr2, [at |-> o, old |-> m[o]])
  PROVE  RecordsOK(sr2)
  <1> DEFINE L == Len(sr)
             e == [at |-> o, old |-> m[o]]
  <1>0. L \in Nat \ {0} /\ L - 1 \in Nat /\ Len(sr2) = L
    BY OlderCell DEF Entered
  <1>1. ASSUME NEW i \in 1 .. L - 1 PROVE RecordOK(sr2, i)
    <2>1. \A k \in 1 .. L - 1 : sr2[k] = sr[k]
      BY DEF Entered
    <2>2. RecordOK(sr, i)
      BY <1>0 DEF MemoryOK, RecordsOK
    <2> QED BY <1>0, <2>1, <2>2, SamePrefix
  <1>2. RecordOK(sr2, L)
    <2>1. RecordOK(sr, L)
      BY <1>0 DEF MemoryOK, RecordsOK
    <2>2. /\ ~HasLog(sr, L, o) /\ o < sr[L].nextFree /\ Settled(sr, m[o].level, o, L - 1)
      BY OlderCell
    <2>3. /\ \A i \in 1 .. L : sr2[i].nextFree = sr[i].nextFree
          /\ \A l, a : Settled(sr, l, a, L - 1) => Settled(sr2, l, a, L - 1)
      BY <1>0, LoggedSettled, L - 1 \in 0 .. L - 1
    <2>4. Entries(sr2[L]) = Entries(sr[L]) \cup {e} /\ e.at = o /\ e.old = m[o]
      BY DEF Entered
    <2>5. m[o] \in Cell /\ (o = CacheAt => m[o].type = "cache" /\ m[o].val \in CacheValue)
      BY DEF MemoryOK, CellOK
    <2>6. /\ \A x \in sr2[L].objs : x \in sr[L].objs \/ x.at \notin {DictAt, CacheAt}
          /\ \A x \in sr2[L].ces : x \in sr[L].ces \/ x.at = CacheAt
          /\ \A x \in sr2[L].dbs : x \in sr[L].dbs \/ x.at = DictAt
      BY DEF Entered
    <2>7. L \in 1 .. L /\ \A i \in 1 .. L : sr2[i].nextFree <= sr2[L].nextFree
      BY <1>0, <2>1, <2>3 DEF RecordOK
    <2>8. o \in 1 .. sr2[L].nextFree - 1 /\ sr2[L].nextFree = sr[L].nextFree
      <3>1. sr[L].nextFree \in 3 .. VMlast + 1
        BY <2>1 DEF RecordOK
      <3> QED BY <2>2, <2>3, <2>7, <3>1, VMAssumption DEF Addresses
    <2> HIDE DEF e, L
    <2>9. ASSUME NEW x \in Entries(sr2[L])
          PROVE  /\ x.at \in 1 .. sr2[L].nextFree - 1
                 /\ x.old \in Cell /\ x.old.type # "none"
                 /\ Settled(sr2, x.old.level, x.at, L - 1)
                 /\ x.at = CacheAt => x.old.type = "cache" /\ x.old.val \in CacheValue
      <3>1. CASE x = e
        BY <2>2, <2>3, <2>4, <2>5, <2>8, <3>1
      <3>2. CASE x # e
        <4>1. x \in Entries(sr[L])
          BY <2>4, <3>2
        <4> QED BY <2>1, <2>3, <2>8, <4>1 DEF RecordOK
      <3> QED BY <3>1, <3>2
    <2>10. \A x, y \in Entries(sr2[L]) : x.at = y.at => x = y
      <3>1. \A x \in Entries(sr[L]) : x.at # o
        BY <2>2 DEF HasLog
      <3>2. \A x, y \in Entries(sr[L]) : x.at = y.at => x = y
        BY <2>1 DEF RecordOK
      <3> QED BY <2>4, <3>1, <3>2
    <2>11. /\ \A x \in sr2[L].objs : x.at \notin {DictAt, CacheAt}
           /\ \A x \in sr2[L].ces : x.at = CacheAt
           /\ \A x \in sr2[L].dbs : x.at = DictAt
      BY <2>1, <2>6 DEF RecordOK
    <2>12. sr2[L].nextFree \in 3 .. VMlast + 1
      BY <2>1, <2>8 DEF RecordOK
    <2> QED BY <2>7, <2>9, <2>10, <2>11, <2>12 DEF RecordOK
  <1> QED
    <2> SUFFICES ASSUME NEW i \in 1 .. L PROVE RecordOK(sr2, i)
      BY <1>0 DEF RecordsOK
    <2>1. i = L \/ i \in 1 .. L - 1
      BY <1>0
    <2> QED BY <1>1, <1>2, <2>1

\* The cell of an older level is logged before it is written.
LEMMA LogKeepsMemory ==
  ASSUME NEW m, NEW free, NEW sr, MemoryOK(m, free, sr), NEW o \in Addresses,
         m[o].type # "none", m[o].level # Len(sr), NEW c, Writable(c, m, free, sr, o),
         free <= VMlast, NEW sr2, Entered(sr, sr2, [at |-> o, old |-> m[o]])
  PROVE  /\ MemoryOK([m EXCEPT ![o] = c], free + 1, sr2)
         /\ \A ob : ObjectOK(ob, m, free, sr)
              => ObjectOK(ob, [m EXCEPT ![o] = c], free + 1, sr2)
  <1> DEFINE m2 == [m EXCEPT ![o] = c]
             e == [at |-> o, old |-> m[o]]
             L == Len(sr)
  <1>0. /\ L \in Nat \ {0} /\ free \in Int /\ VMlast \in Nat /\ free \in 3 .. VMlast + 1
        /\ free + 1 \in 3 .. VMlast + 1
    BY SavesInOrder, OlderCell
  <1>1. /\ m2 \in [Addresses -> Cell] /\ m2[o] = c
        /\ \A a \in Addresses : a # o => m2[a] = m[a]
    BY DEF MemoryOK, Writable
  <1>2. /\ sr2 \in Seq(SaveRecord) /\ Len(sr2) = L /\ \A i \in 1 .. L - 1 : sr2[i] = sr[i]
        /\ Entries(sr2[L]) = Entries(sr[L]) \cup {e} /\ e.at = o /\ e.old = m[o]
    BY DEF Entered
  <1>3. RecordsOK(sr2)
    BY LogKeepsRecords
  <1>4. /\ \A i \in 1 .. L : sr2[i].nextFree = sr[i].nextFree
        /\ \A l, a : Settled(sr, l, a, L) /\ a # o => Settled(sr2, l, a, L)
        /\ Settled(sr2, L, o, L)
    BY <1>0, LoggedSettled
  <1> HIDE DEF m2, e, L
  <1>5. \A a \in Addresses : m[a].type # "none" => m2[a].type # "none"
    BY <1>1 DEF Writable
  <1>6. ASSUME NEW ob, ObjectOK(ob, m, free, sr) PROVE ObjectOK(ob, m2, free + 1, sr2)
    BY <1>0, <1>2, <1>4, <1>5, <1>6, ObjectKept DEF L
  <1>7. ObjectOK(m[o], m, free, sr)
    BY DEF MemoryOK, CellOK
  <1>8. ASSUME NEW i \in 1 .. L PROVE KeptOK(m2, free + 1, sr2, i)
    <2>1. /\ sr[i].nextFree \in 3 .. free
          /\ \A x \in Entries(sr[i]) : /\ x.at \in Addresses /\ m[x.at].type # "none"
                                       /\ ObjectOK(x.old, m, free, sr)
      BY SavesInOrder, EntryFacts DEF L
    <2>2. Entries(sr2[i]) \subseteq Entries(sr[i]) \cup {e}
      <3>1. i = L \/ i \in 1 .. L - 1
        BY <1>0
      <3> QED BY <1>2, <3>1
    <2>3. \A x \in Entries(sr2[i]) : m2[x.at].type # "none" /\ ObjectOK(x.old, m2, free + 1, sr2)
      BY <1>2, <1>5, <1>6, <1>7, <2>1, <2>2
    <2> QED BY <1>0, <1>4, <2>1, <2>3 DEF KeptOK
  <1>9. ASSUME NEW a \in Addresses PROVE CellOK(m2, free + 1, sr2, a)
    <2>1. CellOK(m, free, sr, a) /\ a \in Int
      BY DEF MemoryOK, Addresses
    <2>2. a >= free + 1 => a >= free
      BY <1>0, <2>1
    <2>3. CASE a # o
      BY <1>1, <1>2, <1>4, <1>6, <2>1, <2>2, <2>3 DEF CellOK, L
    <2>4. CASE a = o
      <3>1. ObjectOK(c, m2, free + 1, sr2)
        BY <1>6 DEF Writable
      <3> QED BY <1>1, <1>2, <1>4, <2>1, <2>2, <2>4, <3>1 DEF CellOK, Writable, L
    <2> QED BY <2>3, <2>4
  <1>10. MemoryOK(m2, free + 1, sr2)
    BY <1>0, <1>1, <1>2, <1>3, <1>8, <1>9 DEF MemoryOK, L
  <1> QED BY <1>6, <1>10 DEF m2

-----------------------------------------------------------------------------
(* The operand stack and the steps of the program. *)

\* Moving and dropping operands brings nothing new.
LEMMA StackKept ==
  ASSUME NEW s, NEW m, NEW free, NEW sr, StackOK(s, m, free, sr),
         NEW s2 \in Seq(Cell), NEW m2, NEW free2, NEW sr2,
         \A i \in 1 .. Len(s2) : \E j \in 1 .. Len(s) :
            s2[i] = s[j] /\ ObjectOK(s[j], m2, free2, sr2)
  PROVE  StackOK(s2, m2, free2, sr2)
  BY DEF StackOK

LEMMA VMInitInv == ASSUME VMInit PROVE VMInv
  <1>1. /\ level = 0 /\ srList = <<>> /\ root = 0 /\ nextFree = 3 /\ ops = <<>>
        /\ mem = [o \in Addresses |-> CASE o = DictAt -> Ob("dict", 0, 0)
                                        [] o = CacheAt -> Ob("cache", [kv |-> 0, ts |-> 0], 0)
                                        [] OTHER -> UnusedCell]
    BY DEF VMInit
  <1>2. /\ Ob("dict", 0, 0) \in Cell /\ Ob("cache", [kv |-> 0, ts |-> 0], 0) \in Cell
        /\ UnusedCell \in Cell /\ [kv |-> 0, ts |-> 0] \in CacheValue
    BY DEF Ob, UnusedCell, Cell, CacheValue
  <1>3. mem \in [Addresses -> Cell]
    BY <1>1, <1>2
  <1>4. ASSUME NEW o \in Addresses PROVE CellOK(mem, nextFree, srList, o)
    <2>1. \A l : l = 0 => Settled(srList, l, o, Len(srList))
      BY <1>1 DEF Settled
    <2>2. CASE o = DictAt
      <3>1. mem[o] = Ob("dict", 0, 0) /\ o = 1 /\ o # CacheAt
        BY <1>1, <2>2 DEF DictAt, CacheAt
      <3> QED BY <1>1, <2>1, <3>1 DEF CellOK, ObjectOK, Ob
    <2>3. CASE o = CacheAt
      <3>1. mem[o] = Ob("cache", [kv |-> 0, ts |-> 0], 0) /\ o = 2 /\ o # DictAt
        BY <1>1, <2>3 DEF DictAt, CacheAt
      <3> QED BY <1>1, <1>2, <2>1, <3>1 DEF CellOK, ObjectOK, Ob
    <2>4. CASE o # DictAt /\ o # CacheAt
      <3>1. mem[o] = UnusedCell
        BY <1>1, <2>4
      <3> QED BY <2>4, <3>1, UnusedFacts DEF CellOK
    <2> QED BY <2>2, <2>3, <2>4
  <1>5. MemoryOK(mem, nextFree, srList)
    BY <1>1, <1>3, <1>4, VMAssumption DEF MemoryOK, RecordsOK
  <1>6. StackOK(ops, mem, nextFree, srList)
    BY <1>1 DEF StackOK
  <1> QED BY <1>1, <1>5, <1>6, VMAssumption DEF VMInv

\* The two ways of a write: the cell is of this level, or it is logged.
LEMMA PutCases ==
  ASSUME VMInv, NEW o \in Addresses, mem[o].type # "none",
         NEW list \in {"objs", "ces", "dbs"},
         list = "objs" => o \notin {DictAt, CacheAt},
         list = "ces" => o = CacheAt, list = "dbs" => o = DictAt,
         NEW ob, Put(list, o, ob)
  PROVE  /\ mem' = [mem EXCEPT ![o] = [ob EXCEPT !.level = level]]
         /\ UNCHANGED <<level, root, ops>>
         /\ \/ mem[o].level = level /\ UNCHANGED <<srList, nextFree>>
            \/ /\ mem[o].level # level /\ nextFree <= VMlast /\ nextFree' = nextFree + 1
               /\ Entered(srList, srList', [at |-> o, old |-> mem[o]])
  <1>1. /\ mem' = [mem EXCEPT ![o] = [ob EXCEPT !.level = level]]
        /\ UNCHANGED <<level, root, ops>>
        /\ VMRoom(LogWords(o)) /\ srList' = LoggedIn(list, o)
        /\ nextFree' = nextFree + LogWords(o)
    BY DEF Put
  <1>m. MemoryOK(mem, nextFree, srList) /\ Len(srList) = level
    BY DEF VMInv
  <1>2. /\ nextFree \in Int /\ VMlast \in Nat /\ level \in Nat
        /\ srList \in Seq(SaveRecord) /\ mem[o] \in Cell
    <2>1. nextFree \in Int /\ VMlast \in Nat /\ level \in Nat
      BY <1>m, SavesInOrder
    <2> QED BY <1>m, <2>1 DEF MemoryOK
  <1>3. CASE mem[o].level = level
    BY <1>1, <1>2, <1>3 DEF MustLog, LoggedIn, LogWords
  <1>4. CASE mem[o].level # level
    <2> DEFINE e == [at |-> o, old |-> mem[o]]
               r == srList[level]
    <2>1. /\ nextFree <= VMlast /\ nextFree' = nextFree + 1
          /\ srList' = [srList EXCEPT ![level][list] = @ \cup {e}]
      BY <1>1, <1>2, <1>m, <1>4 DEF MustLog, LoggedIn, LogWords, VMRoom, Log
    <2>2. level \in 1 .. level /\ r \in SaveRecord /\ e \in Entry
      <3>1. level \in Nat \ {0}
        BY <1>m, <1>4, OlderCell
      <3>2. o \in Int
        BY DEF Addresses
      <3> QED BY <1>m, <1>2, <3>1, <3>2 DEF Entry
    <2> DEFINE r2 == [r EXCEPT ![list] = @ \cup {e}]
    <2>3. srList' = [srList EXCEPT ![level] = r2]
      BY <2>1
    <2>4. /\ r2 \in SaveRecord /\ r2.nextFree = r.nextFree /\ r2.root = r.root
          /\ r2.level = r.level /\ Entries(r2) = Entries(r) \cup {e}
          /\ \A x \in r2.objs : x \in r.objs \/ x.at \notin {DictAt, CacheAt}
          /\ \A x \in r2.ces : x \in r.ces \/ x.at = CacheAt
          /\ \A x \in r2.dbs : x \in r.dbs \/ x.at = DictAt
      <3>0. e.at = o
        OBVIOUS
      <3> HIDE DEF e, r
      <3>1. CASE list = "objs"
        <4>1. r2 = [r EXCEPT !.objs = r.objs \cup {e}]
          BY <3>1
        <4> HIDE DEF r2
        <4>2. /\ r2.objs = r.objs \cup {e} /\ r2.ces = r.ces /\ r2.dbs = r.dbs
              /\ r2 \in SaveRecord /\ r2.nextFree = r.nextFree /\ r2.root = r.root
              /\ r2.level = r.level
          BY <2>2, <4>1 DEF SaveRecord
        <4> QED BY <3>0, <3>1, <4>2 DEF Entries
      <3>2. CASE list = "ces"
        <4>1. r2 = [r EXCEPT !.ces = r.ces \cup {e}]
          BY <3>2
        <4> HIDE DEF r2
        <4>2. /\ r2.objs = r.objs /\ r2.ces = r.ces \cup {e} /\ r2.dbs = r.dbs
              /\ r2 \in SaveRecord /\ r2.nextFree = r.nextFree /\ r2.root = r.root
              /\ r2.level = r.level
          BY <2>2, <4>1 DEF SaveRecord
        <4> QED BY <3>0, <3>2, <4>2 DEF Entries
      <3>3. CASE list = "dbs"
        <4>1. r2 = [r EXCEPT !.dbs = r.dbs \cup {e}]
          BY <3>3
        <4> HIDE DEF r2
        <4>2. /\ r2.objs = r.objs /\ r2.ces = r.ces /\ r2.dbs = r.dbs \cup {e}
              /\ r2 \in SaveRecord /\ r2.nextFree = r.nextFree /\ r2.root = r.root
              /\ r2.level = r.level
          BY <2>2, <4>1 DEF SaveRecord
        <4> QED BY <3>0, <3>3, <4>2 DEF Entries
      <3> QED BY <3>1, <3>2, <3>3
    <2> HIDE DEF r2, e
    <2>5. /\ srList' \in Seq(SaveRecord) /\ Len(srList') = level /\ srList'[level] = r2
          /\ \A i \in 1 .. level - 1 : srList'[i] = srList[i]
      BY <1>m, <1>2, <2>2, <2>3, <2>4
    <2>6. Entered(srList, srList', e)
      BY <1>m, <2>4, <2>5 DEF Entered
    <2> QED BY <1>1, <1>4, <2>1, <2>6 DEF e
  <1> QED BY <1>3, <1>4

LEMMA PutKeeps ==
  ASSUME VMInv, NEW o \in Addresses, mem[o].type # "none",
         NEW list \in {"objs", "ces", "dbs"},
         list = "objs" => o \notin {DictAt, CacheAt},
         list = "ces" => o = CacheAt, list = "dbs" => o = DictAt,
         NEW ob, Writable([ob EXCEPT !.level = level], mem, nextFree, srList, o),
         Put(list, o, ob)
  PROVE  VMInv'
  <1> DEFINE c == [ob EXCEPT !.level = level]
  <1>1. /\ mem' = [mem EXCEPT ![o] = c] /\ UNCHANGED <<level, root, ops>>
        /\ \/ mem[o].level = level /\ UNCHANGED <<srList, nextFree>>
           \/ /\ mem[o].level # level /\ nextFree <= VMlast /\ nextFree' = nextFree + 1
              /\ Entered(srList, srList', [at |-> o, old |-> mem[o]])
    BY PutCases
  <1>2. /\ level \in 0 .. MAXlevel /\ Len(srList) = level /\ root \in {0, 1}
        /\ \A i \in 1 .. level : srList[i].level = i
        /\ MemoryOK(mem, nextFree, srList) /\ StackOK(ops, mem, nextFree, srList)
    BY DEF VMInv
  <1> HIDE DEF c
  <1>3. /\ MemoryOK(mem', nextFree', srList') /\ Len(srList') = level
        /\ \A x : ObjectOK(x, mem, nextFree, srList) => ObjectOK(x, mem', nextFree', srList')
        /\ \A i \in 1 .. level : srList'[i].level = srList[i].level
    <2>1. Writable(c, mem, nextFree, srList, o)
      BY DEF c
    <2>2. CASE mem[o].level = level /\ UNCHANGED <<srList, nextFree>>
      <3>1. /\ MemoryOK([mem EXCEPT ![o] = c], nextFree, srList)
            /\ \A x : ObjectOK(x, mem, nextFree, srList)
                 => ObjectOK(x, [mem EXCEPT ![o] = c], nextFree, srList)
        BY <1>2, <2>1, <2>2, WriteKeepsMemory
      <3> QED BY <1>1, <1>2, <2>2, <3>1
    <2>3. CASE /\ mem[o].level # level /\ nextFree <= VMlast /\ nextFree' = nextFree + 1
               /\ Entered(srList, srList', [at |-> o, old |-> mem[o]])
      <3>1. /\ MemoryOK([mem EXCEPT ![o] = c], nextFree + 1, srList')
            /\ \A x : ObjectOK(x, mem, nextFree, srList)
                 => ObjectOK(x, [mem EXCEPT ![o] = c], nextFree + 1, srList')
        BY <1>2, <2>1, <2>3, LogKeepsMemory
      <3>2. Len(srList') = level /\ \A i \in 1 .. level : srList'[i].level = srList[i].level
        <4>1. /\ Len(srList') = level /\ srList'[level].level = srList[level].level
              /\ \A i \in 1 .. level - 1 : srList'[i] = srList[i]
          BY <1>2, <2>3 DEF Entered
        <4>2. \A i \in 1 .. level : i = level \/ i \in 1 .. level - 1
          BY <1>2
        <4> QED BY <4>1, <4>2
      <3> QED BY <1>1, <2>3, <3>1, <3>2
    <2> QED BY <1>1, <2>2, <2>3
  <1>4. StackOK(ops', mem', nextFree', srList')
    BY <1>1, <1>2, <1>3 DEF StackOK
  <1> QED BY <1>1, <1>2, <1>3, <1>4 DEF VMInv

\* An object of this level may be written anywhere but to the cache entry.
LEMMA ElementWritable ==
  ASSUME VMInv, NEW ob \in Cell, ob.type # "none", ObjectOK(ob, mem, nextFree, srList),
         NEW o, o = CacheAt => ob.type = "cache" /\ ob.val \in CacheValue
  PROVE  Writable([ob EXCEPT !.level = level], mem, nextFree, srList, o)
  <1> DEFINE c == [ob EXCEPT !.level = level]
  <1>1. level \in Nat /\ Len(srList) = level
    BY SavesInOrder DEF VMInv
  <1>2. c \in Cell /\ c.type = ob.type /\ c.val = ob.val /\ c.level = level
    BY <1>1 DEF Cell
  <1>3. \A k \in 1 .. Len(srList) : ~(k > c.level)
    BY <1>1, <1>2
  <1> HIDE DEF c
  <1>4. ObjectOK(c, mem, nextFree, srList)
    BY <1>2, <1>3 DEF ObjectOK
  <1> QED BY <1>1, <1>2, <1>4 DEF Writable, c

\* The operand of put denotes a cell in use.
LEMMA OperandInUse ==
  ASSUME VMInv, NEW i \in 1 .. Len(ops), ops[i].type = "array"
  PROVE  /\ ops[i].val \in Addresses /\ ops[i].val \notin {DictAt, CacheAt}
         /\ mem[ops[i].val] \in Cell /\ mem[ops[i].val].type # "none"
         /\ ObjectOK(mem[ops[i].val], mem, nextFree, srList)
  <1>1. ops[i].val \in 3 .. nextFree - 1 /\ mem[ops[i].val].type # "none"
    BY DEF VMInv, StackOK, ObjectOK
  <1>2. ops[i].val \in Addresses /\ ops[i].val \notin {DictAt, CacheAt}
    <2>1. nextFree \in 3 .. VMlast + 1
      BY DEF VMInv, MemoryOK
    <2> QED BY <1>1, <2>1, VMAssumption DEF Addresses, DictAt, CacheAt
  <1> QED BY <1>1, <1>2 DEF VMInv, MemoryOK, CellOK

LEMMA PSPutKeeps == ASSUME VMInv, PSPut PROVE VMInv'
  <1>1. PICK i \in 1 .. Len(ops), j \in 1 .. Len(ops) :
          ops[i].type = "array" /\ Put("objs", ops[i].val, ops[j])
    BY DEF PSPut, VMPutElem
  <1>2. /\ ops[j] \in Cell /\ ops[j].type # "none"
        /\ ObjectOK(ops[j], mem, nextFree, srList)
    BY DEF VMInv, StackOK
  <1>3. /\ ops[i].val \in Addresses /\ ops[i].val \notin {DictAt, CacheAt}
        /\ mem[ops[i].val].type # "none"
    BY <1>1, OperandInUse
  <1>4. Writable([ops[j] EXCEPT !.level = level], mem, nextFree, srList, ops[i].val)
    BY <1>2, <1>3, ElementWritable
  <1> QED BY <1>1, <1>3, <1>4, PutKeeps

\* The two places in memory that are no operands.
LEMMA FixedPlaces ==
  ASSUME VMInv
  PROVE  /\ DictAt \in Addresses /\ CacheAt \in Addresses /\ DictAt # CacheAt
         /\ mem[DictAt].type # "none" /\ mem[CacheAt].type # "none"
         /\ Writable([Ob("dict", level, level) EXCEPT !.level = level],
                     mem, nextFree, srList, DictAt)
         /\ Writable([Ob("cache", [kv |-> level, ts |-> 1], level) EXCEPT !.level = level],
                     mem, nextFree, srList, CacheAt)
  <1>1. DictAt \in Addresses /\ CacheAt \in Addresses /\ DictAt # CacheAt
    BY VMAssumption DEF Addresses, DictAt, CacheAt
  <1>2. mem[DictAt].type # "none" /\ mem[CacheAt].type # "none" /\ level \in Nat
    BY <1>1 DEF VMInv, MemoryOK, CellOK
  <1>3. /\ Ob("dict", level, level) \in Cell
        /\ Ob("dict", level, level).type = "dict"
        /\ Ob("cache", [kv |-> level, ts |-> 1], level) \in Cell
        /\ Ob("cache", [kv |-> level, ts |-> 1], level).type = "cache"
        /\ Ob("cache", [kv |-> level, ts |-> 1], level).val \in CacheValue
    BY <1>2 DEF Ob, Cell, CacheValue
  <1>4. /\ ObjectOK(Ob("dict", level, level), mem, nextFree, srList)
        /\ ObjectOK(Ob("cache", [kv |-> level, ts |-> 1], level), mem, nextFree, srList)
    BY <1>3 DEF ObjectOK
  <1>5. Writable([Ob("dict", level, level) EXCEPT !.level = level],
                 mem, nextFree, srList, DictAt)
    BY <1>1, <1>3, <1>4, ElementWritable
  <1>6. Writable([Ob("cache", [kv |-> level, ts |-> 1], level) EXCEPT !.level = level],
                 mem, nextFree, srList, CacheAt)
    BY <1>1, <1>3, <1>4, ElementWritable
  <1> QED BY <1>1, <1>2, <1>5, <1>6

LEMMA DictDefKeeps == ASSUME VMInv, DictDef PROVE VMInv'
  <1>1. CASE VMPutDict(level)
    <2>1. Put("dbs", DictAt, Ob("dict", level, level))
      BY <1>1 DEF VMPutDict
    <2> QED BY <2>1, FixedPlaces, PutKeeps
  <1>2. CASE VMPutCE(level)
    <2>1. Put("ces", CacheAt, Ob("cache", [kv |-> level, ts |-> 1], level))
      BY <1>2 DEF VMPutCE
    <2> QED BY <2>1, FixedPlaces, PutKeeps
  <1> QED BY <1>1, <1>2 DEF DictDef

LEMMA SaveVMKeeps == ASSUME VMInv, SaveVM PROVE VMInv'
  <1> DEFINE r == [nextFree |-> nextFree, level |-> level + 1, root |-> root,
                   objs |-> {}, ces |-> {}, dbs |-> {}]
             save == Ob("save", level, level)
  <1>1. /\ level < MAXlevel /\ nextFree + 1 - 1 <= VMlast /\ level' = level + 1
        /\ srList' = Append(srList, r) /\ nextFree' = nextFree + 1
        /\ ops' = Append(ops, save) /\ UNCHANGED <<mem, root>>
    BY DEF SaveVM, VMRoom
  <1>2. /\ level \in 0 .. MAXlevel /\ Len(srList) = level /\ root \in {0, 1}
        /\ \A i \in 1 .. level : srList[i].level = i
        /\ MemoryOK(mem, nextFree, srList) /\ StackOK(ops, mem, nextFree, srList)
    BY DEF VMInv
  <1>3. /\ nextFree \in Int /\ srList \in Seq(SaveRecord) /\ level \in Nat /\ MAXlevel \in Nat
        /\ ops \in Seq(Cell)
    <2>1. nextFree \in Int
      BY <1>2, SavesInOrder
    <2> QED BY <1>2, <2>1, VMAssumption DEF MemoryOK, StackOK
  <1>4. r \in SaveRecord /\ Entries(r) = {} /\ r.nextFree = nextFree /\ r.level = level + 1
    BY <1>2, <1>3 DEF SaveRecord, Entries
  <1>5. save \in Cell /\ save.type = "save" /\ save.val = level
    BY <1>3 DEF Ob, Cell
  <1> HIDE DEF r, save
  <1>6. /\ MemoryOK(mem, nextFree + 1, Append(srList, r))
        /\ \A ob : ObjectOK(ob, mem, nextFree, srList)
             => ObjectOK(ob, mem, nextFree + 1, Append(srList, r))
    <2>1. nextFree <= VMlast
      BY <1>1, <1>3
    <2> QED BY <1>2, <1>4, <2>1, SaveKeepsMemory
  <1>7. StackOK(ops', mem', nextFree', srList')
    <2>1. ops' \in Seq(Cell) /\ Len(ops') = Len(ops) + 1
      BY <1>1, <1>3, <1>5
    <2>2. ASSUME NEW i \in 1 .. Len(ops')
          PROVE  ops'[i].type # "none" /\ ObjectOK(ops'[i], mem', nextFree', srList')
      <3>1. CASE i = Len(ops) + 1
        <4>1. ops'[i] = save
          BY <1>1, <1>3, <3>1
        <4>2. ObjectOK(save, mem', nextFree', srList')
          BY <1>3, <1>5 DEF ObjectOK
        <4> QED BY <1>5, <4>1, <4>2
      <3>2. CASE i # Len(ops) + 1
        <4>1. i \in 1 .. Len(ops) /\ ops'[i] = ops[i]
          BY <1>1, <1>3, <2>1, <3>2
        <4> QED BY <1>1, <1>2, <1>6, <4>1 DEF StackOK
      <3> QED BY <3>1, <3>2
    <2> QED BY <2>1, <2>2 DEF StackOK
  <1>8. /\ level' \in 0 .. MAXlevel /\ Len(srList') = level'
        /\ \A i \in 1 .. level' : srList'[i].level = i
    BY <1>1, <1>2, <1>3, <1>4
  <1>9. MemoryOK(mem', nextFree', srList') /\ root' \in {0, 1}
    BY <1>1, <1>2, <1>6
  <1> QED BY <1>7, <1>8, <1>9 DEF VMInv

LEMMA PSArrayKeeps == ASSUME VMInv, PSArray PROVE VMInv'
  <1> DEFINE array == Ob("array", nextFree, level)
  <1>1. /\ nextFree + 1 - 1 <= VMlast /\ nextFree' = nextFree + 1
        /\ mem' = [mem EXCEPT ![nextFree] = Ob("null", 0, level)]
        /\ ops' = Append(ops, array) /\ UNCHANGED <<level, srList, root>>
    BY DEF PSArray, VMRoom, AllocArray
  <1>2. /\ level \in 0 .. MAXlevel /\ Len(srList) = level
        /\ MemoryOK(mem, nextFree, srList) /\ StackOK(ops, mem, nextFree, srList)
    BY DEF VMInv
  <1>3. nextFree \in Int /\ nextFree <= VMlast /\ level \in Nat
    <2>1. nextFree \in Int /\ VMlast \in Nat
      BY <1>2, SavesInOrder
    <2> QED BY <1>1, <1>2, <2>1, VMAssumption
  <1>4. /\ MemoryOK(mem', nextFree', srList)
        /\ \A ob : ObjectOK(ob, mem, nextFree, srList) => ObjectOK(ob, mem', nextFree', srList)
        /\ ObjectOK(array, mem', nextFree', srList)
    BY <1>1, <1>2, <1>3, GrowKeepsMemory
  <1>5. array \in Cell /\ array.type = "array" /\ ops \in Seq(Cell)
    BY <1>2, <1>3 DEF Ob, Cell, StackOK
  <1> HIDE DEF array
  <1>6. StackOK(ops', mem', nextFree', srList)
    <2>1. ops' \in Seq(Cell) /\ Len(ops') = Len(ops) + 1
      BY <1>1, <1>5
    <2>2. ASSUME NEW i \in 1 .. Len(ops')
          PROVE  ops'[i].type # "none" /\ ObjectOK(ops'[i], mem', nextFree', srList)
      <3>1. CASE i = Len(ops) + 1
        <4>1. ops'[i] = array
          BY <1>1, <1>5, <3>1
        <4> QED BY <1>4, <1>5, <4>1
      <3>2. CASE i # Len(ops) + 1
        <4>1. i \in 1 .. Len(ops) /\ ops'[i] = ops[i]
          BY <1>1, <1>5, <2>1, <3>2
        <4> QED BY <1>2, <1>4, <4>1 DEF StackOK
      <3> QED BY <3>1, <3>2
    <2> QED BY <2>1, <2>2 DEF StackOK
  <1> QED BY <1>1, <1>2, <1>4, <1>6 DEF VMInv

\* What CheckAllStacks leaves: no object of a place in memory that is younger.
LEMMA CleanStackOld ==
  ASSUME NEW s \in Seq(Cell), NEW n \in Nat
  PROVE  /\ CleanStack(s, n) \in Seq(Cell)
         /\ \A i \in 1 .. Len(CleanStack(s, n)) :
               /\ i \in 1 .. Len(s) /\ CleanStack(s, n)[i] = s[i]
               /\ s[i].type \in Composite => s[i].level <= n
  <1> DEFINE Y == YoungerThan(s, n)
             t == CleanStack(s, n)
  <1>0. Len(s) \in Nat /\ Y \in SUBSET (1 .. Len(s)) /\ \A i \in 1 .. Len(s) : s[i] \in Cell
    BY DEF YoungerThan
  <1>1. ASSUME NEW i \in 1 .. Len(s), i \notin Y, s[i].type \in Composite
        PROVE  s[i].level <= n
    <2>1. s[i].level \in Nat
      BY <1>0 DEF Cell
    <2> QED BY <1>1, <2>1 DEF YoungerThan
  <1>2. CASE Y = {}
    <2>1. t = s
      BY <1>2 DEF CleanStack
    <2>2. CleanStack(s, n) = s
      BY <2>1
    <2> HIDE DEF t, Y
    <2>3. \A i \in 1 .. Len(s) : s[i].type \in Composite => s[i].level <= n
      BY <1>1, <1>2
    <2> QED BY <2>2, <2>3
  <1>3. CASE Y # {}
    <2> DEFINE k == CHOOSE i \in Y : \A j \in Y : i <= j
    <2>1. Y \in SUBSET Nat
      BY <1>0
    <2>2. \E i \in Y : \A j \in Y : i <= j
      BY <1>3, <2>1, LeastElement
    <2>3. k \in Y /\ \A j \in Y : k <= j
      BY <2>2
    <2>4. t = SubSeq(s, 1, k - 1)
      BY <1>3 DEF CleanStack
    <2> HIDE DEF k, t, Y
    <2>5. /\ t \in Seq(Cell) /\ Len(t) = k - 1 /\ k \in 1 .. Len(s)
          /\ \A i \in 1 .. k - 1 : t[i] = s[i]
      BY <1>0, <2>3, <2>4
    <2>6. \A i \in 1 .. k - 1 : i \in 1 .. Len(s) /\ i \notin Y
      BY <1>0, <2>3, <2>5
    <2>7. \A i \in 1 .. Len(t) : /\ i \in 1 .. Len(s) /\ t[i] = s[i]
                                /\ s[i].type \in Composite => s[i].level <= n
      BY <1>1, <2>5, <2>6
    <2> QED BY <2>5, <2>7 DEF t
  <1> QED BY <1>2, <1>3

\* What the top of the stack is to PSRestore.
LEMMA RestoreTarget ==
  ASSUME VMInv, PSRestore
  PROVE  LET n == ops[Len(ops)].val
         IN  /\ n \in 0 .. level - 1 /\ n \in Nat
             /\ mem' = Undone(mem, srList, n) /\ nextFree' = srList[n + 1].nextFree
             /\ root' = srList[n + 1].root /\ srList' = SubSeq(srList, 1, n) /\ level' = n
             /\ ops' = CleanStack(SubSeq(ops, 1, Len(ops) - 1), n)
             /\ Len(ops) \in Nat \ {0}
  <1>1. Len(ops) \in Nat \ {0} /\ ops[Len(ops)].type = "save"
    BY DEF PSRestore, VMInv, StackOK
  <1>2. ops[Len(ops)].val \in Nat
    BY <1>1 DEF VMInv, StackOK, ObjectOK
  <1>3. level \in Nat
    BY DEF VMInv
  <1> QED BY <1>1, <1>2, <1>3 DEF PSRestore

LEMMA PSRestoreKeeps == ASSUME VMInv, PSRestore PROVE VMInv'
  <1> DEFINE n == ops[Len(ops)].val
             s == SubSeq(ops, 1, Len(ops) - 1)
  <1>1. /\ n \in 0 .. level - 1 /\ n \in Nat
        /\ mem' = Undone(mem, srList, n) /\ nextFree' = srList[n + 1].nextFree
        /\ root' = srList[n + 1].root /\ srList' = SubSeq(srList, 1, n) /\ level' = n
        /\ ops' = CleanStack(s, n) /\ Len(ops) \in Nat \ {0}
    BY RestoreTarget
  <1>2. /\ level \in 0 .. MAXlevel /\ Len(srList) = level /\ root \in {0, 1}
        /\ \A i \in 1 .. level : srList[i].level = i
        /\ MemoryOK(mem, nextFree, srList) /\ StackOK(ops, mem, nextFree, srList)
        /\ srList \in Seq(SaveRecord) /\ ops \in Seq(Cell) /\ MAXlevel \in Nat
    BY VMAssumption DEF VMInv, MemoryOK, StackOK
  <1>3. /\ s \in Seq(Cell) /\ Len(s) = Len(ops) - 1
        /\ \A i \in 1 .. Len(s) : i \in 1 .. Len(ops) /\ s[i] = ops[i]
    <2> DEFINE N == Len(ops)
    <2>1. N \in Nat \ {0} /\ \A i \in 1 .. N - 1 : i \in 1 .. N /\ ops[i] \in Cell
      BY <1>1, <1>2
    <2> HIDE DEF N, n
    <2>2. /\ SubSeq(ops, 1, N - 1) \in Seq(Cell) /\ Len(SubSeq(ops, 1, N - 1)) = N - 1
          /\ \A i \in 1 .. N - 1 : SubSeq(ops, 1, N - 1)[i] = ops[i]
      BY <2>1, SubSeqProperties
    <2> QED BY <2>1, <2>2 DEF N
  <1> HIDE DEF n, s
  <1>4. MemoryOK(mem', nextFree', srList')
    BY <1>1, <1>2, RestoreKeepsMemory
  <1>5. /\ level' \in 0 .. MAXlevel /\ Len(srList') = level' /\ root' \in {0, 1}
        /\ \A i \in 1 .. level' : srList'[i].level = i
    <2>1. n + 1 \in 1 .. level /\ srList[n + 1] \in SaveRecord
      BY <1>1, <1>2
    <2>2. root' \in {0, 1}
      BY <1>1, <2>1 DEF SaveRecord
    <2> QED BY <1>1, <1>2, <2>2
  <1>6. StackOK(ops', mem', nextFree', srList')
    <2>1. /\ ops' \in Seq(Cell)
          /\ \A i \in 1 .. Len(ops') :
                /\ i \in 1 .. Len(s) /\ ops'[i] = s[i]
                /\ s[i].type \in Composite => s[i].level <= n
      BY <1>1, <1>3, CleanStackOld
    <2>2. ASSUME NEW i \in 1 .. Len(ops')
          PROVE  ops'[i].type # "none" /\ ObjectOK(ops'[i], mem', nextFree', srList')
      <3>1. /\ i \in 1 .. Len(ops) /\ ops'[i] = ops[i]
            /\ ops[i].type = "array" => ops[i].level <= n
        BY <1>3, <2>1 DEF Composite
      <3>2. /\ ops[i].type # "none" /\ ObjectOK(ops[i], mem, nextFree, srList)
            /\ ops[i] \in Cell
        BY <1>2, <3>1 DEF StackOK
      <3>3. ops[i].level \in Int
        BY <3>2 DEF Cell
      <3>4. ObjectOK(ops[i], Undone(mem, srList, n), srList[n + 1].nextFree, SubSeq(srList, 1, n))
        BY <1>1, <1>2, <3>1, <3>2, <3>3, ObjectBack
      <3> QED BY <1>1, <3>1, <3>2, <3>4
    <2> QED BY <2>1, <2>2 DEF StackOK
  <1> QED BY <1>4, <1>5, <1>6 DEF VMInv

LEMMA FlushKeeps == ASSUME VMInv, VMFlushVMStart PROVE VMInv'
  <1>1. /\ level \in 0 .. MAXlevel /\ Len(srList) = level /\ root \in {0, 1}
        /\ MemoryOK(mem, nextFree, srList)
        /\ srList \in Seq(SaveRecord) /\ MAXlevel \in Nat
    BY VMAssumption DEF VMInv, MemoryOK
  <1>2. level' = 0 /\ ops' = <<>> /\ srList' = <<>>
    BY DEF VMFlushVMStart
  <1>3. MemoryOK(mem', nextFree', srList') /\ root' \in {0, 1}
    <2>1. CASE srList = <<>>
      BY <1>1, <1>2, <2>1 DEF VMFlushVMStart
    <2>2. CASE srList # <<>>
      <3>1. 0 \in 0 .. Len(srList) - 1 /\ SubSeq(srList, 1, 0) = <<>> /\ srList[1] \in SaveRecord
        BY <1>1, <2>2
      <3>2. /\ mem' = Undone(mem, srList, 0) /\ nextFree' = srList[0 + 1].nextFree
            /\ root' = srList[1].root
        BY <2>2 DEF VMFlushVMStart
      <3>3. MemoryOK(Undone(mem, srList, 0), srList[0 + 1].nextFree, SubSeq(srList, 1, 0))
        BY <1>1, <3>1, RestoreKeepsMemory
      <3>4. root' \in {0, 1}
        BY <3>1, <3>2 DEF SaveRecord
      <3> QED BY <1>2, <3>1, <3>2, <3>3, <3>4
    <2> QED BY <2>1, <2>2
  <1>4. StackOK(ops', mem', nextFree', srList')
    BY <1>2 DEF StackOK
  <1> QED BY <1>1, <1>2, <1>3, <1>4 DEF VMInv

\* Operators that only move objects to the stack and on it.
LEMMA MovesKeep ==
  ASSUME VMInv, PSGet \/ PSPop \/ PSExch
  PROVE  VMInv' /\ UNCHANGED <<mem, nextFree, level, srList, root>>
  <1>1. /\ MemoryOK(mem, nextFree, srList) /\ ops \in Seq(Cell)
        /\ \A i \in 1 .. Len(ops) : ops[i] \in Cell /\ ops[i].type # "none"
                                 /\ ObjectOK(ops[i], mem, nextFree, srList)
    BY DEF VMInv, StackOK
  <1>2. UNCHANGED <<mem, nextFree, level, srList, root>>
    BY DEF PSGet, PSPop, PSExch
  <1>3. StackOK(ops', mem, nextFree, srList)
    <2>1. CASE PSGet
      <3>1. PICK i \in 1 .. Len(ops) :
              ops[i].type = "array" /\ ops' = Append(ops, mem[ops[i].val])
        BY <2>1 DEF PSGet
      <3> DEFINE x == mem[ops[i].val]
      <3>2. x \in Cell /\ x.type # "none" /\ ObjectOK(x, mem, nextFree, srList)
        BY <3>1, OperandInUse
      <3> HIDE DEF x
      <3>3. ops' = Append(ops, x)
        BY <3>1 DEF x
      <3>4. ops' \in Seq(Cell) /\ \A j \in 1 .. Len(ops') : ops'[j] = x \/ \E k \in 1 .. Len(ops) : ops'[j] = ops[k]
        BY <1>1, <3>2, <3>3
      <3> QED BY <1>1, <3>2, <3>4 DEF StackOK
    <2>2. CASE PSPop
      <3>1. ops # <<>> /\ ops' = SubSeq(ops, 1, Len(ops) - 1)
        BY <2>2 DEF PSPop
      <3>2. ops' \in Seq(Cell) /\ \A j \in 1 .. Len(ops') : \E k \in 1 .. Len(ops) : ops'[j] = ops[k]
        BY <1>1, <3>1
      <3> QED BY <1>1, <3>2 DEF StackOK
    <2>3. CASE PSExch
      <3> DEFINE N == Len(ops)
                 s == SubSeq(ops, 1, N - 2)
                 two == <<ops[N], ops[N - 1]>>
      <3>1. N >= 2 /\ ops' = s \o two
        BY <2>3 DEF PSExch
      <3>2. /\ N \in Nat /\ s \in Seq(Cell) /\ Len(s) = N - 2
            /\ \A j \in 1 .. N - 2 : s[j] = ops[j]
        BY <1>1, <3>1
      <3>3. two \in Seq(Cell) /\ Len(two) = 2 /\ two[1] = ops[N] /\ two[2] = ops[N - 1]
        BY <1>1, <3>1
      <3> HIDE DEF s, two
      <3>4. /\ ops' \in Seq(Cell) /\ Len(ops') = N
            /\ \A j \in 1 .. N : ops'[j] = IF j <= N - 2 THEN s[j] ELSE two[j - (N - 2)]
        <4>1. /\ s \o two \in Seq(Cell) /\ Len(s \o two) = Len(s) + Len(two)
              /\ \A j \in 1 .. Len(s) + Len(two) :
                    (s \o two)[j] = IF j <= Len(s) THEN s[j] ELSE two[j - Len(s)]
          BY <3>2, <3>3, ConcatProperties
        <4>2. Len(s) + Len(two) = N
          BY <3>2, <3>3
        <4> HIDE DEF N
        <4> QED BY <3>1, <3>2, <4>1, <4>2
      <3>5. \A j \in 1 .. N : \E k \in 1 .. N : ops'[j] = ops[k]
        <4> SUFFICES ASSUME NEW j \in 1 .. N PROVE \E k \in 1 .. N : ops'[j] = ops[k]
          OBVIOUS
        <4>1. CASE j <= N - 2
          BY <3>2, <3>4, <4>1
        <4>2. CASE j = N - 1
          BY <3>1, <3>2, <3>3, <3>4, <4>2
        <4>3. CASE j = N
          BY <3>1, <3>2, <3>3, <3>4, <4>3
        <4> QED BY <3>2, <4>1, <4>2, <4>3
      <3>6. \A j \in 1 .. N : /\ ops'[j] \in Cell /\ ops'[j].type # "none"
                              /\ ObjectOK(ops'[j], mem, nextFree, srList)
        <4> HIDE DEF N
        <4>1. \A k \in 1 .. N : /\ ops[k] \in Cell /\ ops[k].type # "none"
                                /\ ObjectOK(ops[k], mem, nextFree, srList)
          BY <1>1 DEF N
        <4> QED BY <3>5, <4>1
      <3> HIDE DEF N
      <3> QED BY <3>4, <3>6 DEF StackOK
    <2> QED BY <2>1, <2>2, <2>3
  <1>4. StackOK(ops', mem', nextFree', srList')
    BY <1>2, <1>3
  <1> QED BY <1>1, <1>2, <1>4 DEF VMInv

LEMMA VMStepInv == ASSUME VMInv, [VMNext]_vmVars PROVE VMInv'
  <1>1. CASE SaveVM
    BY <1>1, SaveVMKeeps
  <1>2. CASE PSRestore
    BY <1>2, PSRestoreKeeps
  <1>3. CASE PSArray
    BY <1>3, PSArrayKeeps
  <1>4. CASE PSGet \/ PSPop \/ PSExch
    BY <1>4, MovesKeep
  <1>5. CASE PSPut
    BY <1>5, PSPutKeeps
  <1>6. CASE DictDef
    BY <1>6, DictDefKeeps
  <1>7. CASE VMPutRoot
    BY <1>7 DEF VMPutRoot, VMInv
  <1>8. CASE VMFlushVMStart
    BY <1>8, FlushKeeps
  <1>9. CASE UNCHANGED vmVars
    BY <1>9 DEF vmVars, VMInv
  <1> QED BY <1>1, <1>2, <1>3, <1>4, <1>5, <1>6, <1>7, <1>8, <1>9 DEF VMNext

-----------------------------------------------------------------------------
(* What a program sees of memory, and of the copies the records stand for. *)

LEMMA VisibleSame ==
  ASSUME NEW x, NEW y, NEW r, NEW top \in Int, top <= VMlast + 1,
         \A o \in Addresses : o < top => Same(y[o], x[o])
  PROVE  Visible(y, top, r) = Visible(x, top, r)
  <1> DEFINE D(m) == {0} \cup {o \in 1 .. top - 1 : m[o].type # "none"}
             V(m, a) == IF a = 0 THEN <<"root", r>> ELSE Content(m[a])
  <1>1. \A o \in 1 .. top - 1 : /\ y[o].type = x[o].type /\ Content(y[o]) = Content(x[o])
                               /\ o # 0
    BY VMAssumption DEF Same, Addresses
  <1>2. D(y) = D(x)
    BY <1>1
  <1>3. \A a \in D(x) : V(y, a) = V(x, a)
    BY <1>1
  <1>4. Visible(y, top, r) = [a \in D(y) |-> V(y, a)] /\ Visible(x, top, r) = [a \in D(x) |-> V(x, a)]
    BY DEF Visible
  <1> HIDE DEF D, V
  <1> QED BY <1>2, <1>3, <1>4

\* A word that no program can name is not seen.
LEMMA VisibleMore ==
  ASSUME NEW m, NEW r, NEW free \in Nat \ {0}, m[free].type = "none"
  PROVE  Visible(m, free + 1, r) = Visible(m, free, r)
  <1>1. {o \in 1 .. (free + 1) - 1 : m[o].type # "none"} = {o \in 1 .. free - 1 : m[o].type # "none"}
    OBVIOUS
  <1> QED BY <1>1 DEF Visible

\* Two memories whose records stand for the same cells hold the same copy.
LEMMA CopySame ==
  ASSUME NEW m, NEW free, NEW sr, MemoryOK(m, free, sr),
         NEW m2, NEW free2, NEW sr2, MemoryOK(m2, free2, sr2),
         NEW k \in 0 .. Len(sr) - 1, k \in 0 .. Len(sr2) - 1,
         sr2[k + 1].nextFree = sr[k + 1].nextFree, sr2[k + 1].root = sr[k + 1].root,
         \A o \in Addresses : o < sr[k + 1].nextFree =>
            \A c, c2 : StoodAt(c, m[o], sr, k, o) /\ StoodAt(c2, m2[o], sr2, k, o) => Same(c2, c)
  PROVE  CopyAt(m2, sr2, k) = CopyAt(m, sr, k)
  <1> DEFINE top == sr[k + 1].nextFree
             x == Undone(m, sr, k)
             y == Undone(m2, sr2, k)
  <1>0. /\ Len(sr) \in Nat /\ Len(sr2) \in Nat /\ RecordsOK(sr) /\ RecordsOK(sr2)
        /\ free \in 3 .. VMlast + 1 /\ top \in 3 .. free
    BY SavesInOrder
  <1>1. ASSUME NEW o \in Addresses, o < top PROVE Same(y[o], x[o])
    <2>1. StoodAt(x[o], m[o], sr, k, o)
      BY <1>0, <1>1, UndoneAt
    <2>2. StoodAt(y[o], m2[o], sr2, k, o)
      BY <1>0, <1>1, UndoneAt
    <2> QED BY <1>1, <2>1, <2>2
  <1>2. CopyAt(m2, sr2, k) = Visible(y, top, sr[k + 1].root)
    BY DEF CopyAt
  <1>3. CopyAt(m, sr, k) = Visible(x, top, sr[k + 1].root)
    BY DEF CopyAt
  <1>4. top \in Int /\ top <= VMlast + 1
    BY <1>0, VMAssumption
  <1> HIDE DEF x, y, top
  <1>5. Visible(y, top, sr[k + 1].root) = Visible(x, top, sr[k + 1].root)
    BY <1>1, <1>4, VisibleSame
  <1> QED BY <1>2, <1>3, <1>5

\* The records and the cell say which cell it was.
LEMMA StoodOnce ==
  ASSUME NEW sr, Len(sr) \in Nat, NEW k \in Nat, NEW o, NEW x, NEW c, NEW c2,
         StoodAt(c, x, sr, k, o), StoodAt(c2, x, sr, k, o)
  PROVE  c2 = c
  <1>1. CASE Unlogged(sr, o, k + 1, Len(sr))
    BY <1>1 DEF StoodAt
  <1>2. CASE ~Unlogged(sr, o, k + 1, Len(sr))
    <2>1. PICK i \in k + 1 .. Len(sr) :
            \E e \in Entries(sr[i]) : e.at = o /\ Unlogged(sr, o, k + 1, i - 1)
      BY <1>2, FirstEntry
    <2>2. PICK e \in Entries(sr[i]) : e.at = o /\ Unlogged(sr, o, k + 1, i - 1)
      BY <2>1
    <2>3. c = Back(e)
      BY <2>2 DEF StoodAt
    <2>4. c2 = Back(e)
      BY <2>2 DEF StoodAt
    <2> QED BY <2>3, <2>4
  <1> QED BY <1>1, <1>2

\* A save adds a record without entries: the older copies stay.
LEMMA SaveStood ==
  ASSUME NEW sr, NEW sr2, NEW k \in Nat, NEW b \in Nat, Len(sr) = b, Len(sr2) = b + 1,
         \A i \in 1 .. b : sr2[i] = sr[i], Entries(sr2[b + 1]) = {},
         NEW o, NEW x, NEW c, NEW c2, StoodAt(c, x, sr, k, o), StoodAt(c2, x, sr2, k, o)
  PROVE  c2 = c
  <1>1. CASE Unlogged(sr, o, k + 1, b)
    <2>1. Unlogged(sr2, o, k + 1, b + 1)
      <3> SUFFICES ASSUME NEW j \in k + 1 .. b + 1 PROVE ~HasLog(sr2, j, o)
        BY DEF Unlogged
      <3>1. CASE j = b + 1
        BY <3>1 DEF HasLog
      <3>2. CASE j # b + 1
        <4>1. j \in k + 1 .. b /\ j \in 1 .. b
          BY <3>2
        <4> QED BY <1>1, <4>1 DEF Unlogged, HasLog
      <3> QED BY <3>1, <3>2
    <2> QED BY <1>1, <2>1 DEF StoodAt
  <1>2. CASE ~Unlogged(sr, o, k + 1, b)
    <2>1. PICK i \in k + 1 .. b : \E e \in Entries(sr[i]) : e.at = o /\ Unlogged(sr, o, k + 1, i - 1)
      BY <1>2, FirstEntry
    <2>2. PICK e \in Entries(sr[i]) : e.at = o /\ Unlogged(sr, o, k + 1, i - 1)
      BY <2>1
    <2>3. Unlogged(sr2, o, k + 1, i - 1)
      <3> SUFFICES ASSUME NEW j \in k + 1 .. i - 1 PROVE ~HasLog(sr2, j, o)
        BY DEF Unlogged
      <3>1. j \in 1 .. b
        OBVIOUS
      <3> QED BY <2>2, <3>1 DEF Unlogged, HasLog
    <2>4. i \in 1 .. b /\ i \in k + 1 .. b + 1 /\ e \in Entries(sr2[i])
      OBVIOUS
    <2>5. c = Back(e)
      BY <2>2 DEF StoodAt
    <2>6. c2 = Back(e)
      BY <2>2, <2>3, <2>4 DEF StoodAt
    <2> QED BY <2>5, <2>6
  <1> QED BY <1>1, <1>2

\* Restoring to n and then to k is restoring to k.
LEMMA RestoreStood ==
  ASSUME NEW sr, NEW sr2, NEW n \in Nat, Len(sr) \in Nat, n \in 0 .. Len(sr) - 1, Len(sr2) = n,
         \A i \in 1 .. n : sr2[i] = sr[i], NEW k \in 0 .. n - 1,
         NEW o, NEW x, NEW y, NEW c, NEW c2,
         StoodAt(c, x, sr, k, o), StoodAt(y, x, sr, n, o), StoodAt(c2, y, sr2, k, o)
  PROVE  c2 = c
  <1>0. \A j \in 1 .. n : HasLog(sr2, j, o) <=> HasLog(sr, j, o)
    BY DEF HasLog
  <1>1. CASE ~Unlogged(sr, o, k + 1, n)
    <2>1. PICK i \in k + 1 .. n : \E e \in Entries(sr[i]) : e.at = o /\ Unlogged(sr, o, k + 1, i - 1)
      BY <1>1, FirstEntry
    <2>2. PICK e \in Entries(sr[i]) : e.at = o /\ Unlogged(sr, o, k + 1, i - 1)
      BY <2>1
    <2>3. i \in 1 .. n /\ i \in k + 1 .. Len(sr) /\ e \in Entries(sr2[i])
      OBVIOUS
    <2>4. Unlogged(sr2, o, k + 1, i - 1)
      <3> SUFFICES ASSUME NEW j \in k + 1 .. i - 1 PROVE ~HasLog(sr2, j, o)
        BY DEF Unlogged
      <3>1. j \in 1 .. n
        OBVIOUS
      <3> QED BY <1>0, <2>2, <3>1 DEF Unlogged
    <2>5. c = Back(e)
      BY <2>2, <2>3 DEF StoodAt
    <2>6. c2 = Back(e)
      BY <2>2, <2>3, <2>4 DEF StoodAt
    <2> QED BY <2>5, <2>6
  <1>2. CASE Unlogged(sr, o, k + 1, n)
    <2>1. c2 = y
      <3>1. Unlogged(sr2, o, k + 1, n)
        BY <1>0, <1>2 DEF Unlogged
      <3> QED BY <3>1 DEF StoodAt
    <2>2. CASE Unlogged(sr, o, n + 1, Len(sr))
      <3>1. Unlogged(sr, o, k + 1, Len(sr))
        BY <1>2, <2>2 DEF Unlogged
      <3> QED BY <2>1, <2>2, <3>1 DEF StoodAt
    <2>3. CASE ~Unlogged(sr, o, n + 1, Len(sr))
      <3>1. PICK i \in n + 1 .. Len(sr) : \E e \in Entries(sr[i]) : e.at = o /\ Unlogged(sr, o, n + 1, i - 1)
        BY <2>3, FirstEntry
      <3>2. PICK e \in Entries(sr[i]) : e.at = o /\ Unlogged(sr, o, n + 1, i - 1)
        BY <3>1
      <3>3. Unlogged(sr, o, k + 1, i - 1) /\ i \in k + 1 .. Len(sr)
        BY <1>2, <3>2 DEF Unlogged
      <3>4. y = Back(e)
        BY <3>2 DEF StoodAt
      <3>5. c = Back(e)
        BY <3>2, <3>3 DEF StoodAt
      <3> QED BY <2>1, <3>4, <3>5
    <2> QED BY <2>2, <2>3
  <1> QED BY <1>1, <1>2

\* A cell written at this level is in an entry of every copy that holds it.
StandsAlike(x, y, sr, k, o) ==
    \A c, c2 : StoodAt(c, x, sr, k, o) /\ StoodAt(c2, y, sr, k, o) => c2 = c

LEMMA WriteStood ==
  ASSUME NEW m, NEW free, NEW sr, MemoryOK(m, free, sr), NEW o \in Addresses,
         m[o].type # "none", m[o].level = Len(sr),
         NEW k \in 0 .. Len(sr) - 1, o < sr[k + 1].nextFree, NEW x
  PROVE  StandsAlike(m[o], x, sr, k, o)
  <1> SUFFICES ASSUME NEW c, NEW c2, StoodAt(c, m[o], sr, k, o), StoodAt(c2, x, sr, k, o)
               PROVE  c2 = c
    BY DEF StandsAlike
  <1>1. /\ Len(sr) \in Nat /\ Settled(sr, Len(sr), o, Len(sr)) /\ o \in Int
        /\ sr[k + 1].nextFree <= sr[Len(sr)].nextFree
        /\ sr[k + 1].nextFree \in Int /\ sr[Len(sr)].nextFree \in Int
    <2>1. Len(sr) \in Nat
      BY SavesInOrder
    <2>2. k + 1 \in 1 .. Len(sr) /\ Len(sr) \in 1 .. Len(sr) /\ k + 1 <= Len(sr)
      BY <2>1
    <2>3. /\ sr[k + 1].nextFree <= sr[Len(sr)].nextFree
          /\ sr[k + 1].nextFree \in Int /\ sr[Len(sr)].nextFree \in Int
      BY <2>1, <2>2, SavesInOrder
    <2>4. Settled(sr, Len(sr), o, Len(sr))
      BY DEF MemoryOK, CellOK
    <2> QED BY <2>1, <2>3, <2>4 DEF Addresses
  <1>2. HasLog(sr, Len(sr), o)
    BY <1>1 DEF Settled
  <1>3. ~Unlogged(sr, o, k + 1, Len(sr))
    BY <1>1, <1>2 DEF Unlogged
  <1>4. PICK i \in k + 1 .. Len(sr) :
          \E e \in Entries(sr[i]) : e.at = o /\ Unlogged(sr, o, k + 1, i - 1)
    BY <1>1, <1>3, FirstEntry
  <1>5. PICK e \in Entries(sr[i]) : e.at = o /\ Unlogged(sr, o, k + 1, i - 1)
    BY <1>4
  <1>6. c = Back(e)
    BY <1>5 DEF StoodAt
  <1>7. c2 = Back(e)
    BY <1>5 DEF StoodAt
  <1> QED BY <1>6, <1>7

\* A write that is logged: the copies that had the cell in memory have it in
\* the entry, all others are untouched.
LEMMA LogStood ==
  ASSUME NEW m, NEW free, NEW sr, MemoryOK(m, free, sr), NEW o \in Addresses,
         m[o].type # "none", m[o].level # Len(sr),
         NEW sr2, Entered(sr, sr2, [at |-> o, old |-> m[o]]),
         NEW a \in Addresses, NEW k \in 0 .. Len(sr) - 1,
         NEW x, a # o => x = m[a],
         NEW c, NEW c2, StoodAt(c, m[a], sr, k, a), StoodAt(c2, x, sr2, k, a)
  PROVE  Same(c2, c)
  <1> DEFINE L == Len(sr)
             e == [at |-> o, old |-> m[o]]
  <1>1. /\ L \in Nat \ {0} /\ Len(sr2) = L
        /\ \A i \in 1 .. L : \A p : HasLog(sr2, i, p) <=> HasLog(sr, i, p) \/ (i = L /\ p = e.at)
    <2>1. L \in Nat \ {0}
      BY OlderCell
    <2>2. Len(sr2) = L
      BY DEF Entered
    <2> QED BY <2>1, <2>2, LoggedSettled
  <1>2. /\ \A i \in 1 .. L - 1 : sr2[i] = sr[i]
        /\ Entries(sr2[L]) = Entries(sr[L]) \cup {e} /\ e.at = o /\ e.old = m[o]
    BY DEF Entered
  <1>3. \A i \in 1 .. L : Entries(sr[i]) \subseteq Entries(sr2[i])
    <2> SUFFICES ASSUME NEW i \in 1 .. L PROVE Entries(sr[i]) \subseteq Entries(sr2[i])
      OBVIOUS
    <2>1. i = L \/ i \in 1 .. L - 1
      BY <1>1
    <2> QED BY <1>2, <2>1
  <1>4. Same(c, c)
    BY DEF Same
  <1> HIDE DEF e
  <1>5. ASSUME NEW b \in k .. L - 1, Unlogged(sr, a, k + 1, b) PROVE Unlogged(sr2, a, k + 1, b)
    <2> SUFFICES ASSUME NEW j \in k + 1 .. b PROVE ~HasLog(sr2, j, a)
      BY DEF Unlogged
    <2>1. j \in 1 .. L /\ j # L
      BY <1>1
    <2> QED BY <1>1, <1>5, <2>1 DEF Unlogged
  <1>6. CASE ~Unlogged(sr, a, k + 1, L)
    <2>1. PICK i \in k + 1 .. L : \E g \in Entries(sr[i]) : g.at = a /\ Unlogged(sr, a, k + 1, i - 1)
      BY <1>1, <1>6, FirstEntry
    <2>2. PICK g \in Entries(sr[i]) : g.at = a /\ Unlogged(sr, a, k + 1, i - 1)
      BY <2>1
    <2>3. i - 1 \in k .. L - 1 /\ i \in 1 .. L
      BY <1>1
    <2>4. Unlogged(sr2, a, k + 1, i - 1) /\ g \in Entries(sr2[i])
      BY <1>3, <1>5, <2>2, <2>3
    <2>5. c = Back(g)
      BY <2>2 DEF StoodAt
    <2>6. c2 = Back(g)
      BY <1>1, <2>2, <2>4 DEF StoodAt
    <2> QED BY <1>4, <2>5, <2>6
  <1>7. CASE Unlogged(sr, a, k + 1, L) /\ a # o
    <2>1. Unlogged(sr2, a, k + 1, L)
      <3> SUFFICES ASSUME NEW j \in k + 1 .. L PROVE ~HasLog(sr2, j, a)
        BY DEF Unlogged
      <3>1. j \in 1 .. L
        BY <1>1
      <3> QED BY <1>1, <1>2, <1>7, <3>1 DEF Unlogged
    <2>2. c = m[a]
      BY <1>7 DEF StoodAt
    <2>3. c2 = x
      BY <1>1, <2>1 DEF StoodAt
    <2> QED BY <1>4, <1>7, <2>2, <2>3
  <1>8. CASE Unlogged(sr, a, k + 1, L) /\ a = o
    <2>1. c = m[o]
      BY <1>8 DEF StoodAt
    <2>2. L - 1 \in k .. L - 1 /\ Unlogged(sr, a, k + 1, L - 1)
      BY <1>1, <1>8 DEF Unlogged
    <2>3. Unlogged(sr2, a, k + 1, L - 1) /\ L \in k + 1 .. Len(sr2) /\ e \in Entries(sr2[L])
      BY <1>1, <1>2, <1>5, <2>2
    <2>4. c2 = Back(e)
      BY <1>2, <1>8, <2>3 DEF StoodAt
    <2>5. m[o] \in Cell /\ (o = CacheAt => m[o].type = "cache" /\ m[o].val \in CacheValue)
      BY DEF MemoryOK, CellOK
    <2>6. Same(Back(e), e.old)
      BY <1>2, <2>5, BackSame
    <2> QED BY <1>2, <2>1, <2>4, <2>6
  <1> QED BY <1>6, <1>7, <1>8

-----------------------------------------------------------------------------
(* The steps of memory are steps of the copies (PsSnapshots). *)

CopiesOf(m, sr, n) == [i \in 1 .. n |-> CopyAt(m, sr, i - 1)]
Now == Visible(mem, nextFree, root)
Copies == CopiesOf(mem, srList, level)

LEMMA CopiesSequence ==
  ASSUME NEW m, NEW sr, NEW n \in Nat
  PROVE  /\ Len(CopiesOf(m, sr, n)) = n
         /\ \A S : (\A i \in 1 .. n : CopyAt(m, sr, i - 1) \in S) => CopiesOf(m, sr, n) \in Seq(S)
  <1> DEFINE f == CopiesOf(m, sr, n)
  <1>1. f = [i \in 1 .. n |-> CopyAt(m, sr, i - 1)]
    BY DEF CopiesOf
  <1> HIDE DEF f
  <1>2. ASSUME NEW S, \A i \in 1 .. n : CopyAt(m, sr, i - 1) \in S PROVE f \in Seq(S)
    <2>1. f \in [1 .. n -> S]
      BY <1>1, <1>2
    <2> QED BY <2>1, SeqDef
  <1>3. Len(f) = n
    <2> DEFINE S == {CopyAt(m, sr, i - 1) : i \in 1 .. n}
    <2>1. f \in Seq(S)
      BY <1>2
    <2>2. Len(f) \in Nat /\ DOMAIN f = 1 .. Len(f) /\ DOMAIN f = 1 .. n
      BY <1>1, <2>1, LenProperties
    <2> DEFINE b == Len(f)
    <2> HIDE DEF b
    <2>3. b \in Nat /\ 1 .. b = 1 .. n
      BY <2>2 DEF b
    <2>4. b <= n
      <3>1. b = 0 \/ b \in 1 .. b
        BY <2>3
      <3> QED BY <2>3, <3>1
    <2>5. n <= b
      <3>1. n = 0 \/ n \in 1 .. n
        OBVIOUS
      <3> QED BY <2>3, <3>1
    <2> QED BY <2>3, <2>4, <2>5 DEF b
  <1> QED BY <1>2, <1>3 DEF f

\* The first n copies are the same.
SameCopies(m, sr, m2, sr2, n) == \A k \in 0 .. n - 1 : CopyAt(m2, sr2, k) = CopyAt(m, sr, k)

LEMMA CopiesSame ==
  ASSUME NEW m, NEW sr, NEW m2, NEW sr2, NEW n \in Nat,
         SameCopies(m, sr, m2, sr2, n)
  PROVE  CopiesOf(m2, sr2, n) = CopiesOf(m, sr, n)
  <1>1. \A i \in 1 .. n : CopyAt(m2, sr2, i - 1) = CopyAt(m, sr, i - 1)
    BY DEF SameCopies
  <1> QED BY <1>1 DEF CopiesOf

LEMMA CopiesAppend ==
  ASSUME NEW m, NEW sr, NEW m2, NEW sr2, NEW n \in Nat,
         SameCopies(m, sr, m2, sr2, n)
  PROVE  CopiesOf(m2, sr2, n + 1) = Append(CopiesOf(m, sr, n), CopyAt(m2, sr2, n))
  <1> DEFINE S == {CopyAt(m2, sr2, i - 1) : i \in 1 .. n + 1}
             f == CopiesOf(m, sr, n)
             g == CopiesOf(m2, sr2, n + 1)
             c == CopyAt(m2, sr2, n)
  <1>1. \A i \in 1 .. n : i \in 1 .. n + 1 /\ f[i] = CopyAt(m2, sr2, i - 1)
    <2> SUFFICES ASSUME NEW i \in 1 .. n PROVE i \in 1 .. n + 1 /\ f[i] = CopyAt(m2, sr2, i - 1)
      OBVIOUS
    <2>1. i - 1 \in 0 .. n - 1 /\ f[i] = CopyAt(m, sr, i - 1)
      BY DEF CopiesOf
    <2> QED BY <2>1 DEF SameCopies
  <1>2. \A i \in 1 .. n + 1 : g[i] = CopyAt(m2, sr2, i - 1)
    BY DEF CopiesOf
  <1>3. (n + 1) - 1 = n /\ n + 1 \in 1 .. n + 1
    OBVIOUS
  <1>4. c \in S /\ \A i \in 1 .. n + 1 : CopyAt(m2, sr2, i - 1) \in S
    BY <1>3
  <1>5. \A i \in 1 .. n : CopyAt(m, sr, i - 1) \in S
    <2> SUFFICES ASSUME NEW i \in 1 .. n PROVE CopyAt(m, sr, i - 1) \in S
      OBVIOUS
    <2>1. i - 1 \in 0 .. n - 1 /\ i \in 1 .. n + 1
      OBVIOUS
    <2> QED BY <1>4, <2>1 DEF SameCopies
  <1> HIDE DEF S
  <1>6. /\ f \in Seq(S) /\ Len(f) = n
        /\ g \in Seq(S) /\ Len(g) = n + 1
    BY <1>4, <1>5, CopiesSequence
  <1> HIDE DEF f, g
  <1>7. g[n + 1] = c
    BY <1>2, <1>3
  <1> HIDE DEF c
  <1>8. /\ Append(f, c) \in Seq(S) /\ Len(Append(f, c)) = n + 1
        /\ \A i \in 1 .. n + 1 : Append(f, c)[i] = g[i]
    BY <1>1, <1>2, <1>4, <1>6, <1>7
  <1>9. g = Append(f, c)
    BY <1>6, <1>8, SeqEqual
  <1> QED BY <1>9 DEF f, g, c

LEMMA CopiesShorter ==
  ASSUME NEW m, NEW sr, NEW m2, NEW sr2, NEW b \in Nat, NEW n \in 0 .. b,
         SameCopies(m, sr, m2, sr2, n)
  PROVE  CopiesOf(m2, sr2, n) = SubSeq(CopiesOf(m, sr, b), 1, n)
  <1> DEFINE S == {CopyAt(m, sr, i - 1) : i \in 1 .. b}
             f == CopiesOf(m, sr, b)
             g == CopiesOf(m2, sr2, n)
  <1>1. \A i \in 1 .. b : CopyAt(m, sr, i - 1) \in S /\ f[i] = CopyAt(m, sr, i - 1)
    BY DEF CopiesOf
  <1>2. \A i \in 1 .. n : i \in 1 .. b /\ CopyAt(m2, sr2, i - 1) = CopyAt(m, sr, i - 1)
    <2> SUFFICES ASSUME NEW i \in 1 .. n
                 PROVE  i \in 1 .. b /\ CopyAt(m2, sr2, i - 1) = CopyAt(m, sr, i - 1)
      OBVIOUS
    <2>1. i - 1 \in 0 .. n - 1
      OBVIOUS
    <2> QED BY <2>1 DEF SameCopies
  <1>3. \A i \in 1 .. n : g[i] = CopyAt(m2, sr2, i - 1)
    BY DEF CopiesOf
  <1> HIDE DEF S
  <1>4. f \in Seq(S) /\ Len(f) = b
    BY <1>1, CopiesSequence
  <1>5. g \in Seq(S) /\ Len(g) = n
    BY <1>1, <1>2, CopiesSequence, n \in Nat
  <1> HIDE DEF f, g
  <1>6. \A i \in 1 .. n : f[i] \in S
    BY <1>1, <1>2
  <1>7. /\ SubSeq(f, 1, n) \in Seq(S) /\ Len(SubSeq(f, 1, n)) = n
        /\ \A i \in 1 .. n : SubSeq(f, 1, n)[i] = f[i]
    BY <1>6, SubSeqProperties
  <1>8. \A i \in 1 .. n : g[i] = SubSeq(f, 1, n)[i]
    BY <1>1, <1>2, <1>3, <1>7
  <1>9. g = SubSeq(f, 1, n)
    BY <1>5, <1>7, <1>8, SeqEqual
  <1> QED BY <1>9 DEF f, g

\* A step that leaves Now and Copies alone, or moves them as PsSnapshots does.
LEMMA SaveRefines ==
  ASSUME VMInv, SaveVM
  PROVE  Now' = Now /\ Copies' = Append(Copies, Now)
  <1> DEFINE r == [nextFree |-> nextFree, level |-> level + 1, root |-> root,
                   objs |-> {}, ces |-> {}, dbs |-> {}]
             sr2 == Append(srList, r)
  <1>1. /\ nextFree + 1 - 1 <= VMlast /\ level' = level + 1
        /\ srList' = sr2 /\ nextFree' = nextFree + 1 /\ UNCHANGED <<mem, root>>
    BY DEF SaveVM, VMRoom
  <1>2. /\ level \in Nat /\ Len(srList) = level /\ root \in {0, 1}
        /\ MemoryOK(mem, nextFree, srList) /\ srList \in Seq(SaveRecord)
    BY DEF VMInv, MemoryOK
  <1>3. /\ nextFree \in 3 .. VMlast + 1 /\ VMlast \in Nat /\ nextFree \in Addresses
        /\ nextFree <= VMlast
    <2>1. nextFree \in 3 .. VMlast + 1 /\ VMlast \in Nat
      BY <1>2, SavesInOrder
    <2> QED BY <1>1, <2>1 DEF Addresses
  <1>4. r \in SaveRecord /\ Entries(r) = {} /\ r.nextFree = nextFree /\ r.root = root
    BY <1>2, <1>3 DEF SaveRecord, Entries
  <1> HIDE DEF r
  <1>5. /\ Len(sr2) = level + 1 /\ sr2[level + 1] = r
        /\ \A i \in 1 .. level : sr2[i] = srList[i]
    BY <1>2, <1>4
  <1>6. MemoryOK(mem, nextFree + 1, sr2)
    BY <1>2, <1>3, <1>4, SaveKeepsMemory
  <1> HIDE DEF sr2
  <1>7. mem[nextFree].type = "none"
    BY <1>2, <1>3 DEF MemoryOK, CellOK
  <1>8. Visible(mem, nextFree + 1, root) = Visible(mem, nextFree, root)
    BY <1>3, <1>7, VisibleMore
  <1>9. ASSUME NEW k \in 0 .. level - 1 PROVE CopyAt(mem, sr2, k) = CopyAt(mem, srList, k)
    <2>1. k \in 0 .. Len(srList) - 1 /\ k \in 0 .. Len(sr2) - 1 /\ k + 1 \in 1 .. level /\ k \in Nat
      BY <1>2, <1>5
    <2>2. \A o \in Addresses : \A c, c2 :
            StoodAt(c, mem[o], srList, k, o) /\ StoodAt(c2, mem[o], sr2, k, o) => Same(c2, c)
      <3> SUFFICES ASSUME NEW o \in Addresses, NEW c, NEW c2, StoodAt(c, mem[o], srList, k, o),
                          StoodAt(c2, mem[o], sr2, k, o)
                   PROVE  c2 = c
        BY DEF Same
      <3>1. Entries(sr2[level + 1]) = {}
        BY <1>4, <1>5
      <3> QED BY <1>2, <1>5, <2>1, <3>1, SaveStood
    <2>3. sr2[k + 1] = srList[k + 1]
      BY <1>5, <2>1
    <2> QED BY <1>2, <1>6, <2>1, <2>2, <2>3, CopySame
  <1>10. CopyAt(mem, sr2, level) = Visible(mem, nextFree, root)
    <2> DEFINE y == Undone(mem, sr2, level)
    <2>1. Len(sr2) \in Nat /\ RecordsOK(sr2) /\ level \in 0 .. Len(sr2) - 1
      BY <1>2, <1>5, <1>6 DEF MemoryOK
    <2>2. ASSUME NEW o \in Addresses, o < nextFree PROVE Same(y[o], mem[o])
      <3>1. StoodAt(y[o], mem[o], sr2, level, o)
        BY <1>4, <1>5, <2>1, <2>2, UndoneAt
      <3>2. Unlogged(sr2, o, level + 1, Len(sr2))
        BY <1>2, <1>4, <1>5 DEF Unlogged, HasLog
      <3> QED BY <3>1, <3>2 DEF StoodAt, Same
    <2>3. CopyAt(mem, sr2, level) = Visible(y, nextFree, root)
      BY <1>4, <1>5 DEF CopyAt
    <2> HIDE DEF y
    <2>4. nextFree \in Int /\ nextFree <= VMlast + 1
      BY <1>3
    <2> QED BY <2>2, <2>3, <2>4, VisibleSame
  <1>11. CopiesOf(mem, sr2, level + 1) = Append(CopiesOf(mem, srList, level), CopyAt(mem, sr2, level))
    <2>1. SameCopies(mem, srList, mem, sr2, level)
      BY <1>9 DEF SameCopies
    <2> QED BY <1>2, <2>1, CopiesAppend
  <1> QED BY <1>1, <1>8, <1>10, <1>11 DEF Now, Copies

LEMMA RestoreRefines ==
  ASSUME VMInv, PSRestore
  PROVE  \E n \in 0 .. Len(Copies) - 1 : Now' = Copies[n + 1] /\ Copies' = SubSeq(Copies, 1, n)
  <1> DEFINE n == ops[Len(ops)].val
  <1>1. /\ n \in 0 .. level - 1 /\ n \in Nat
        /\ mem' = Undone(mem, srList, n) /\ nextFree' = srList[n + 1].nextFree
        /\ root' = srList[n + 1].root /\ srList' = SubSeq(srList, 1, n) /\ level' = n
    BY RestoreTarget
  <1>2. /\ level \in Nat /\ Len(srList) = level
        /\ MemoryOK(mem, nextFree, srList) /\ srList \in Seq(SaveRecord)
    BY DEF VMInv, MemoryOK
  <1> HIDE DEF n
  <1>3. Now' = Copies[n + 1]
    <2>1. n + 1 \in 1 .. level /\ (n + 1) - 1 = n
      BY <1>1, <1>2
    <2>2. Copies[n + 1] = CopyAt(mem, srList, n)
      BY <2>1 DEF Copies, CopiesOf
    <2> QED BY <1>1, <2>2 DEF Now, CopyAt
  <1>4. ASSUME NEW k \in 0 .. n - 1 PROVE CopyAt(mem', srList', k) = CopyAt(mem, srList, k)
    <2>1. k \in 0 .. Len(srList) - 1 /\ n \in 0 .. Len(srList) - 1 /\ n \in 0 .. Len(srList)
          /\ k + 1 \in 1 .. n /\ k + 1 \in 1 .. level /\ n + 1 \in 1 .. level /\ k + 1 <= n + 1
      BY <1>1, <1>2
    <2>2. Len(srList') = n /\ \A i \in 1 .. n : srList'[i] = srList[i]
      BY <1>1, <1>2, <2>1
    <2>3. MemoryOK(mem', nextFree', srList')
      BY PSRestoreKeeps DEF VMInv
    <2>4. \A o \in Addresses : o < srList[k + 1].nextFree => \A c, c2 :
            StoodAt(c, mem[o], srList, k, o) /\ StoodAt(c2, mem'[o], srList', k, o) => Same(c2, c)
      <3> SUFFICES ASSUME NEW o \in Addresses, o < srList[k + 1].nextFree, NEW c, NEW c2,
                          StoodAt(c, mem[o], srList, k, o), StoodAt(c2, mem'[o], srList', k, o)
                   PROVE  c2 = c
        BY DEF Same
      <3>1. o < srList[n + 1].nextFree
        <4>1. /\ srList[k + 1].nextFree <= srList[n + 1].nextFree
              /\ srList[k + 1].nextFree \in Int /\ srList[n + 1].nextFree \in Int /\ o \in Int
          <5>1. /\ nextFree \in Int /\ srList[k + 1].nextFree <= srList[n + 1].nextFree
                /\ srList[k + 1].nextFree \in 3 .. nextFree
                /\ srList[n + 1].nextFree \in 3 .. nextFree
            BY <1>2, <2>1, SavesInOrder
          <5> QED BY <5>1 DEF Addresses
        <4> QED BY <4>1
      <3>2. StoodAt(Undone(mem, srList, n)[o], mem[o], srList, n, o)
        BY <1>2, <2>1, <3>1, UndoneAt DEF MemoryOK
      <3>3. StoodAt(mem'[o], mem[o], srList, n, o)
        BY <1>1, <3>2
      <3> QED BY <1>1, <1>2, <2>1, <2>2, <3>3, RestoreStood
    <2>5. srList'[k + 1] = srList[k + 1] /\ k \in 0 .. Len(srList') - 1
      BY <2>1, <2>2
    <2> QED BY <1>2, <2>1, <2>3, <2>4, <2>5, CopySame
  <1>5. CopiesOf(mem', srList', n) = SubSeq(CopiesOf(mem, srList, level), 1, n)
    <2>1. SameCopies(mem, srList, mem', srList', n)
      BY <1>4 DEF SameCopies
    <2>2. n \in 0 .. level /\ level \in Nat
      BY <1>1, <1>2
    <2> QED BY <2>1, <2>2, CopiesShorter
  <1>6. Copies' = SubSeq(Copies, 1, n)
    BY <1>1, <1>5 DEF Copies
  <1>7. n \in 0 .. Len(Copies) - 1
    BY <1>1, <1>2, CopiesSequence DEF Copies
  <1> QED BY <1>3, <1>6, <1>7

\* A write that keeps what is in use: one address of Now changes, no copy.
InUseBelow(m, top) == {o \in 1 .. top - 1 : m[o].type # "none"}
SameBut(m, m2, top, a) == \A o \in 1 .. top - 1 : o # a => m2[o] = m[o]
OneChange(x, y) == /\ DOMAIN y = DOMAIN x
                   /\ \E p \in DOMAIN x : \A q \in DOMAIN x \ {p} : y[q] = x[q]

LEMMA WriteSeen ==
  ASSUME NEW m, NEW m2, NEW top \in Nat, NEW top2 \in Nat, NEW r, NEW a \in InUseBelow(m, top),
         InUseBelow(m2, top2) = InUseBelow(m, top), SameBut(m, m2, top, a)
  PROVE  OneChange(Visible(m, top, r), Visible(m2, top2, r))
  <1> USE DEF InUseBelow, SameBut
  <1> DEFINE x == Visible(m, top, r)
             y == Visible(m2, top2, r)
             D == {0} \cup {o \in 1 .. top - 1 : m[o].type # "none"}
  <1>1. x = [o \in D |-> IF o = 0 THEN <<"root", r>> ELSE Content(m[o])]
    BY DEF Visible
  <1>2. y = [o \in D |-> IF o = 0 THEN <<"root", r>> ELSE Content(m2[o])]
    BY DEF Visible
  <1>3. a \in D /\ \A q \in D : q # 0 => q \in 1 .. top - 1
    OBVIOUS
  <1> HIDE DEF x, y, D
  <1>4. DOMAIN x = D /\ DOMAIN y = D
    BY <1>1, <1>2
  <1>5. \A q \in D \ {a} : y[q] = x[q]
    BY <1>1, <1>2, <1>3
  <1>6. /\ DOMAIN y = DOMAIN x
        /\ \E p \in DOMAIN x : \A q \in DOMAIN x \ {p} : y[q] = x[q]
    BY <1>3, <1>4, <1>5
  <1> QED BY <1>6 DEF x, y, OneChange

\* What PsSnapshots calls Write.
Written == /\ DOMAIN Now' = DOMAIN Now
           /\ \E a \in DOMAIN Now : \A b \in DOMAIN Now \ {a} : Now'[b] = Now[b]
           /\ Copies' = Copies

LEMMA PutRefines ==
  ASSUME VMInv, NEW o \in Addresses, mem[o].type # "none",
         NEW list \in {"objs", "ces", "dbs"},
         list = "objs" => o \notin {DictAt, CacheAt},
         list = "ces" => o = CacheAt, list = "dbs" => o = DictAt,
         NEW ob, Writable([ob EXCEPT !.level = level], mem, nextFree, srList, o),
         Put(list, o, ob)
  PROVE  Written
  <1> DEFINE c == [ob EXCEPT !.level = level]
  <1>1. /\ mem' = [mem EXCEPT ![o] = c] /\ UNCHANGED <<level, root, ops>>
        /\ \/ mem[o].level = level /\ UNCHANGED <<srList, nextFree>>
           \/ /\ mem[o].level # level /\ nextFree <= VMlast /\ nextFree' = nextFree + 1
              /\ Entered(srList, srList', [at |-> o, old |-> mem[o]])
    BY PutCases
  <1>2. /\ level \in Nat /\ Len(srList) = level /\ MemoryOK(mem, nextFree, srList)
        /\ mem \in [Addresses -> Cell]
    BY DEF VMInv, MemoryOK
  <1>3. VMInv' /\ MemoryOK(mem', nextFree', srList') /\ Len(srList') = level
    <2>1. VMInv'
      BY PutKeeps
    <2> QED BY <1>1, <2>1 DEF VMInv
  <1>c. c.type # "none"
    BY DEF Writable
  <1> HIDE DEF c
  <1>4. /\ mem'[o] = c /\ \A a \in Addresses : a # o => mem'[a] = mem[a]
        /\ \A a \in Addresses : mem'[a].type = "none" <=> mem[a].type = "none"
    <2>1. mem'[o] = c /\ \A a \in Addresses : a # o => mem'[a] = mem[a]
      BY <1>1, <1>2
    <2> QED BY <1>c, <2>1
  <1>5. /\ nextFree \in 3 .. VMlast + 1 /\ VMlast \in Nat /\ nextFree' \in {nextFree, nextFree + 1}
        /\ nextFree' <= VMlast + 1 /\ o \in 1 .. nextFree - 1
        /\ \A a \in 1 .. nextFree' - 1 : a \in Addresses
        /\ \A a \in Addresses : a >= nextFree => mem[a].type = "none"
    <2>1. nextFree \in 3 .. VMlast + 1 /\ VMlast \in Nat /\ nextFree' \in 3 .. VMlast + 1
      BY <1>2, <1>3, SavesInOrder
    <2>2. \A a \in Addresses : a >= nextFree => mem[a].type = "none"
      BY <1>2 DEF MemoryOK, CellOK
    <2>3. nextFree' \in {nextFree, nextFree + 1}
      BY <1>1
    <2>4. o \in 1 .. nextFree - 1 /\ \A a \in 1 .. nextFree' - 1 : a \in Addresses
      BY <2>1, <2>2 DEF Addresses
    <2> QED BY <2>1, <2>2, <2>3, <2>4
  <1>6. /\ DOMAIN Now' = DOMAIN Now
        /\ \E a \in DOMAIN Now : \A b \in DOMAIN Now \ {a} : Now'[b] = Now[b]
    <2>1. InUseBelow(mem', nextFree') = InUseBelow(mem, nextFree)
      <3>1. ASSUME NEW a, a \in 1 .. nextFree' - 1, mem'[a].type # "none"
            PROVE  a \in 1 .. nextFree - 1 /\ mem[a].type # "none"
        BY <1>4, <1>5, <3>1
      <3>2. ASSUME NEW a, a \in 1 .. nextFree - 1, mem[a].type # "none"
            PROVE  a \in 1 .. nextFree' - 1 /\ mem'[a].type # "none"
        BY <1>4, <1>5, <3>2
      <3> QED BY <3>1, <3>2 DEF InUseBelow
    <2>2. SameBut(mem, mem', nextFree, o)
      BY <1>4, <1>5 DEF Addresses, SameBut
    <2>3. nextFree \in Nat /\ nextFree' \in Nat /\ o \in InUseBelow(mem, nextFree)
      BY <1>5 DEF InUseBelow
    <2>4. OneChange(Visible(mem, nextFree, root), Visible(mem', nextFree', root))
      BY <2>1, <2>2, <2>3, WriteSeen
    <2> QED BY <1>1, <2>4 DEF Now, OneChange
  <1>7. ASSUME NEW k \in 0 .. level - 1 PROVE CopyAt(mem', srList', k) = CopyAt(mem, srList, k)
    <2>0. k \in 0 .. Len(srList) - 1 /\ k \in 0 .. Len(srList') - 1 /\ k + 1 \in 1 .. level
      BY <1>2, <1>3
    <2>1. CASE mem[o].level = level /\ UNCHANGED <<srList, nextFree>>
      <3>1. \A a \in Addresses : a < srList[k + 1].nextFree => \A d, d2 :
              StoodAt(d, mem[a], srList, k, a) /\ StoodAt(d2, mem'[a], srList', k, a) => Same(d2, d)
        <4> SUFFICES ASSUME NEW a \in Addresses, a < srList[k + 1].nextFree, NEW d, NEW d2,
                            StoodAt(d, mem[a], srList, k, a), StoodAt(d2, mem'[a], srList, k, a)
                     PROVE  d2 = d
          BY <2>1 DEF Same
        <4>1. CASE a = o
          <5>1. o < srList[k + 1].nextFree /\ mem[o].level = Len(srList) /\ mem[o].type # "none"
            BY <1>2, <2>1, <4>1
          <5>2. StandsAlike(mem[o], mem'[o], srList, k, o)
            BY <1>2, <2>0, <5>1, WriteStood
          <5>3. StoodAt(d, mem[o], srList, k, o) /\ StoodAt(d2, mem'[o], srList, k, o)
            BY <4>1
          <5> QED BY <5>2, <5>3 DEF StandsAlike
        <4>2. CASE a # o
          <5>1. StoodAt(d2, mem[a], srList, k, a)
            BY <1>4, <4>2
          <5> QED BY <1>2, <5>1, StoodOnce
        <4> QED BY <4>1, <4>2
      <3> QED BY <1>2, <1>3, <2>0, <2>1, <3>1, CopySame
    <2>2. CASE /\ mem[o].level # level
               /\ Entered(srList, srList', [at |-> o, old |-> mem[o]])
      <3>1. \A a \in Addresses : a < srList[k + 1].nextFree => \A d, d2 :
              StoodAt(d, mem[a], srList, k, a) /\ StoodAt(d2, mem'[a], srList', k, a) => Same(d2, d)
        <4> SUFFICES ASSUME NEW a \in Addresses, NEW d, NEW d2,
                            StoodAt(d, mem[a], srList, k, a), StoodAt(d2, mem'[a], srList', k, a)
                     PROVE  Same(d2, d)
          OBVIOUS
        <4> QED BY <1>2, <1>4, <2>0, <2>2, LogStood
      <3>2. srList'[k + 1].nextFree = srList[k + 1].nextFree /\ srList'[k + 1].root = srList[k + 1].root
        <4>1. k + 1 = level \/ k + 1 \in 1 .. level - 1
          BY <1>2, <2>0
        <4> QED BY <1>2, <2>2, <4>1 DEF Entered
      <3> QED BY <1>2, <1>3, <2>0, <3>1, <3>2, CopySame
    <2> QED BY <1>1, <2>1, <2>2
  <1>8. CopiesOf(mem', srList', level) = CopiesOf(mem, srList, level)
    <2>1. SameCopies(mem, srList, mem', srList', level)
      BY <1>7 DEF SameCopies
    <2> QED BY <1>2, <2>1, CopiesSame
  <1> QED BY <1>1, <1>6, <1>8 DEF Written, Copies

LEMMA PSPutRefines == ASSUME VMInv, PSPut PROVE Written
  <1>1. PICK i \in 1 .. Len(ops), j \in 1 .. Len(ops) :
          ops[i].type = "array" /\ Put("objs", ops[i].val, ops[j])
    BY DEF PSPut, VMPutElem
  <1>2. /\ ops[j] \in Cell /\ ops[j].type # "none"
        /\ ObjectOK(ops[j], mem, nextFree, srList)
    BY DEF VMInv, StackOK
  <1>3. /\ ops[i].val \in Addresses /\ ops[i].val \notin {DictAt, CacheAt}
        /\ mem[ops[i].val].type # "none"
    BY <1>1, OperandInUse
  <1>4. Writable([ops[j] EXCEPT !.level = level], mem, nextFree, srList, ops[i].val)
    BY <1>2, <1>3, ElementWritable
  <1> QED BY <1>1, <1>3, <1>4, PutRefines

LEMMA DictDefRefines == ASSUME VMInv, DictDef PROVE Written
  <1>1. CASE VMPutDict(level)
    <2>1. Put("dbs", DictAt, Ob("dict", level, level))
      BY <1>1 DEF VMPutDict
    <2> QED BY <2>1, FixedPlaces, PutRefines
  <1>2. CASE VMPutCE(level)
    <2>1. Put("ces", CacheAt, Ob("cache", [kv |-> level, ts |-> 1], level))
      BY <1>2 DEF VMPutCE
    <2> QED BY <2>1, FixedPlaces, PutRefines
  <1> QED BY <1>1, <1>2 DEF DictDef

LEMMA RootRefines == ASSUME VMInv, VMPutRoot PROVE Written
  <1>1. root' = 1 - root /\ UNCHANGED <<mem, nextFree, level, srList>>
    BY DEF VMPutRoot
  <1> DEFINE D == {0} \cup {o \in 1 .. nextFree - 1 : mem[o].type # "none"}
  <1>2. Now = [a \in D |-> IF a = 0 THEN <<"root", root>> ELSE Content(mem[a])]
    BY DEF Now, Visible
  <1>3. Now' = [a \in D |-> IF a = 0 THEN <<"root", root'>> ELSE Content(mem[a])]
    BY <1>1 DEF Now, Visible
  <1>4. 0 \in D
    OBVIOUS
  <1> HIDE DEF D
  <1>5. /\ DOMAIN Now' = D /\ DOMAIN Now = D
        /\ \A b \in D \ {0} : Now'[b] = Now[b]
    BY <1>2, <1>3
  <1>6. Copies' = Copies
    BY <1>1 DEF Copies
  <1> QED BY <1>4, <1>5, <1>6 DEF Written

LEMMA ArrayRefines ==
  ASSUME VMInv, PSArray
  PROVE  /\ DOMAIN Now \subseteq DOMAIN Now'
         /\ \A a \in DOMAIN Now : Now'[a] = Now[a]
         /\ Copies' = Copies
  <1>1. /\ nextFree + 1 - 1 <= VMlast /\ nextFree' = nextFree + 1
        /\ mem' = [mem EXCEPT ![nextFree] = Ob("null", 0, level)]
        /\ UNCHANGED <<level, srList, root>>
    BY DEF PSArray, VMRoom, AllocArray
  <1>2. /\ level \in Nat /\ Len(srList) = level /\ MemoryOK(mem, nextFree, srList)
        /\ mem \in [Addresses -> Cell] /\ nextFree \in 3 .. VMlast + 1
    BY DEF VMInv, MemoryOK
  <1>3. MemoryOK(mem', nextFree', srList)
    BY <1>1, PSArrayKeeps DEF VMInv
  <1>4. \A a \in Addresses : a # nextFree => mem'[a] = mem[a]
    BY <1>1, <1>2
  <1>5. \A a \in 1 .. nextFree - 1 : mem'[a] = mem[a] /\ a \in 1 .. nextFree' - 1
    BY <1>1, <1>2, <1>4, VMAssumption DEF Addresses
  <1>6. /\ DOMAIN Now \subseteq DOMAIN Now'
        /\ \A a \in DOMAIN Now : Now'[a] = Now[a]
    <2> DEFINE D == {0} \cup {o \in 1 .. nextFree - 1 : mem[o].type # "none"}
               E == {0} \cup {o \in 1 .. nextFree' - 1 : mem'[o].type # "none"}
    <2>1. Now = [a \in D |-> IF a = 0 THEN <<"root", root>> ELSE Content(mem[a])]
      BY DEF Now, Visible
    <2>2. Now' = [a \in E |-> IF a = 0 THEN <<"root", root>> ELSE Content(mem'[a])]
      BY <1>1 DEF Now, Visible
    <2>3. D \subseteq E /\ \A a \in D : a # 0 => mem'[a] = mem[a]
      BY <1>5
    <2> HIDE DEF D, E
    <2>4. DOMAIN Now = D /\ DOMAIN Now' = E
      BY <2>1, <2>2
    <2>5. \A a \in D : Now'[a] = Now[a]
      BY <2>1, <2>2, <2>3
    <2> QED BY <2>3, <2>4, <2>5
  <1>7. ASSUME NEW k \in 0 .. level - 1 PROVE CopyAt(mem', srList, k) = CopyAt(mem, srList, k)
    <2>1. k \in 0 .. Len(srList) - 1 /\ k + 1 \in 1 .. Len(srList) /\ k \in Nat
      BY <1>2
    <2>2. srList[k + 1].nextFree \in 3 .. nextFree /\ nextFree \in Int
      BY <1>2, <2>1, SavesInOrder
    <2>3. \A a \in Addresses : a < srList[k + 1].nextFree => \A d, d2 :
            StoodAt(d, mem[a], srList, k, a) /\ StoodAt(d2, mem'[a], srList, k, a) => Same(d2, d)
      <3> SUFFICES ASSUME NEW a \in Addresses, a < srList[k + 1].nextFree, NEW d, NEW d2,
                          StoodAt(d, mem[a], srList, k, a), StoodAt(d2, mem'[a], srList, k, a)
                   PROVE  d2 = d
        BY DEF Same
      <3>1. a # nextFree
        BY <2>2 DEF Addresses
      <3>2. StoodAt(d2, mem[a], srList, k, a)
        BY <1>4, <3>1
      <3> QED BY <1>2, <2>1, <3>2, StoodOnce
    <2> QED BY <1>2, <1>3, <2>1, <2>3, CopySame
  <1>8. CopiesOf(mem', srList, level) = CopiesOf(mem, srList, level)
    <2>1. SameCopies(mem, srList, mem', srList, level)
      BY <1>7 DEF SameCopies
    <2> QED BY <1>2, <2>1, CopiesSame
  <1> QED BY <1>1, <1>6, <1>8 DEF Copies

LEMMA FlushRefines ==
  ASSUME VMInv, VMFlushVMStart
  PROVE  Now' = (IF Copies = <<>> THEN Now ELSE Copies[1]) /\ Copies' = <<>>
  <1>1. /\ level \in Nat /\ Len(srList) = level /\ srList \in Seq(SaveRecord)
    BY DEF VMInv, MemoryOK
  <1>2. Copies' = <<>>
    <2>1. level' = 0
      BY DEF VMFlushVMStart
    <2>2. Copies' = CopiesOf(mem', srList', 0)
      BY <2>1 DEF Copies
    <2>3. CopiesOf(mem', srList', 0) = <<>>
      BY DEF CopiesOf
    <2> QED BY <2>2, <2>3
  <1>3. CASE srList = <<>>
    <2>1. level = 0 /\ UNCHANGED <<mem, nextFree, root>>
      BY <1>1, <1>3 DEF VMFlushVMStart
    <2>2. Copies = <<>>
      BY <2>1 DEF Copies, CopiesOf
    <2> QED BY <1>2, <2>1, <2>2 DEF Now
  <1>4. CASE srList # <<>>
    <2>1. level \in Nat \ {0} /\ 1 \in 1 .. level
      BY <1>1, <1>4
    <2>2. /\ mem' = Undone(mem, srList, 0) /\ nextFree' = srList[1].nextFree
          /\ root' = srList[1].root
      BY <1>4 DEF VMFlushVMStart
    <2>3. Copies[1] = CopyAt(mem, srList, 0)
      BY <2>1 DEF Copies, CopiesOf
    <2>4. Now' = CopyAt(mem, srList, 0)
      BY <2>2 DEF Now, CopyAt
    <2>5. Copies # <<>>
      <3>1. Len(Copies) = level
        BY <1>1, CopiesSequence DEF Copies
      <3> QED BY <2>1, <3>1
    <2> QED BY <1>2, <2>3, <2>4, <2>5
  <1> QED BY <1>3, <1>4

-----------------------------------------------------------------------------
(* The theorems.                                                           *)

\* Every step of memory is a step of whole copies, or nothing a program sees.
LEMMA VMStepRefines ==
  ASSUME VMInv, [VMNext]_vmVars
  PROVE  [Snapshots!SnapNext]_(Snapshots!snapshotVars)
  <1> USE DEF Snapshots!SnapNext, Snapshots!snapshotVars
  <1>1. /\ Now = Visible(mem, nextFree, root)
        /\ Copies = [i \in 1 .. level |-> CopyAt(mem, srList, i - 1)]
    BY DEF Now, Copies, CopiesOf
  <1>2. CASE SaveVM
    <2>1. Now' = Now /\ Copies' = Append(Copies, Now)
      BY <1>2, SaveRefines
    <2> QED BY <2>1 DEF Now, Copies, CopiesOf, Snapshots!SaveCopy
  <1>3. CASE PSRestore
    <2>1. \E n \in 0 .. Len(Copies) - 1 : Now' = Copies[n + 1] /\ Copies' = SubSeq(Copies, 1, n)
      BY <1>3, RestoreRefines
    <2> QED BY <2>1 DEF Now, Copies, CopiesOf, Snapshots!RestoreCopy
  <1>4. CASE PSArray
    <2>1. /\ DOMAIN Now \subseteq DOMAIN Now'
          /\ \A a \in DOMAIN Now : Now'[a] = Now[a]
          /\ Copies' = Copies
      BY <1>4, ArrayRefines
    <2> QED BY <2>1 DEF Now, Copies, CopiesOf, Snapshots!Grow
  <1>5. CASE PSGet \/ PSPop \/ PSExch
    <2>1. UNCHANGED <<mem, nextFree, level, srList, root>>
      BY <1>5, MovesKeep
    <2>2. Now' = Now /\ Copies' = Copies
      BY <2>1 DEF Now, Copies
    <2> QED BY <2>2 DEF Now, Copies, CopiesOf
  <1>6. CASE PSPut \/ DictDef \/ VMPutRoot
    <2>1. Written
      BY <1>6, PSPutRefines, DictDefRefines, RootRefines
    <2> QED BY <2>1 DEF Written, Now, Copies, CopiesOf, Snapshots!Write
  <1>7. CASE VMFlushVMStart
    <2>1. Now' = (IF Copies = <<>> THEN Now ELSE Copies[1]) /\ Copies' = <<>>
      BY <1>7, FlushRefines
    <2> QED BY <2>1 DEF Now, Copies, CopiesOf, Snapshots!Restart
  <1>8. CASE UNCHANGED vmVars
    <2>1. Now' = Now /\ Copies' = Copies
      BY <1>8 DEF vmVars, Now, Copies
    <2> QED BY <2>1 DEF Now, Copies, CopiesOf
  <1> QED BY <1>2, <1>3, <1>4, <1>5, <1>6, <1>7, <1>8 DEF VMNext

LEMMA VMInitRefines == ASSUME VMInit PROVE Snapshots!SnapInit
  <1>1. level = 0
    BY DEF VMInit
  <1> QED BY <1>1 DEF Snapshots!SnapInit

LEMMA VMInvTypes == ASSUME VMInv PROVE VMTypeOK
  <1>1. /\ level \in 0 .. MAXlevel /\ Len(srList) = level /\ level \in Nat
        /\ \A i \in 1 .. level : srList[i].level = i
        /\ MemoryOK(mem, nextFree, srList)
    BY DEF VMInv
  <1>2. nextFree \in 3 .. VMlast + 1 /\ \A i \in 1 .. level : srList[i].nextFree <= nextFree
    BY <1>1 DEF MemoryOK, KeptOK
  <1>3. ASSUME NEW o \in Addresses PROVE mem[o].level <= level
    <2>1. CellOK(mem, nextFree, srList, o)
      BY <1>1 DEF MemoryOK
    <2>2. CASE mem[o].type = "none"
      <3>1. mem[o].level = 0
        BY <2>1, <2>2 DEF CellOK, UnusedCell, Ob
      <3> QED BY <1>1, <3>1
    <2>3. CASE mem[o].type # "none"
      <3>1. mem[o].level \in 0 .. Len(srList)
        BY <2>1, <2>3 DEF CellOK, Settled
      <3> QED BY <1>1, <3>1
    <2> QED BY <2>2, <2>3
  <1> QED BY <1>1, <1>2, <1>3 DEF VMTypeOK

LEMMA VMInvNothingDangles == ASSUME VMInv PROVE NoDanglingObjects
  <1>1. /\ MemoryOK(mem, nextFree, srList) /\ StackOK(ops, mem, nextFree, srList)
        /\ nextFree \in 3 .. VMlast + 1 /\ VMlast \in Nat
    BY SavesInOrder DEF VMInv
  <1>2. ASSUME NEW ob, ObjectOK(ob, mem, nextFree, srList)
        PROVE  ob.type = "array" => ob.val < nextFree /\ mem[ob.val].type # "none"
    BY <1>1, <1>2 DEF ObjectOK
  <1>3. \A i \in 1 .. Len(ops) : ObjectOK(ops[i], mem, nextFree, srList)
    BY <1>1 DEF StackOK
  <1>4. \A o \in 1 .. nextFree - 1 : ObjectOK(mem[o], mem, nextFree, srList)
    BY <1>1 DEF MemoryOK, CellOK, Addresses
  <1> QED BY <1>2, <1>3, <1>4 DEF NoDanglingObjects

\* The undo records of vm.c always stand for the memory of every save still
\* open: each old cell is logged once per record and in a record as deep as
\* its level, whatever save, restore, put, def and checkpoint do in turn.
THEOREM MemoryInvariant == MCSpec => []VMInv
  <1>1. MCInit => VMInv
    BY VMInitInv DEF MCInit
  <1>2. VMInv /\ [MCNext]_mcVars => VMInv'
    <2>1. [MCNext]_mcVars => [VMNext]_vmVars
      BY DEF MCNext, mcVars
    <2> QED BY <2>1, VMStepInv
  <1> QED BY <1>1, <1>2, PTL DEF MCSpec

\* No object a program can reach, on the operand stack or in memory, denotes
\* memory that restore gave back, although CheckAllStacks in vm.c looks at
\* levels and never at memory.
THEOREM MemoryStaysConsistent == MCSpec => []MemoryConsistent
  <1>1. VMInv => MemoryConsistent
    BY VMInvTypes, VMInvNothingDangles DEF MemoryConsistent
  <1> QED BY <1>1, MemoryInvariant, PTL

\* save and restore with undo records do what whole copies of memory would
\* do: a restore across any number of saves yields the memory of its save,
\* and a session started from a checkpoint that of level 0.
THEOREM MemoryRefinesSnapshots == MCSpec => RestoresSnapshots
  <1>1. MCInit => Snapshots!SnapInit
    BY VMInitRefines DEF MCInit
  <1>2. VMInv /\ [MCNext]_mcVars
          => [part = "memory" => [Snapshots!SnapNext]_(Snapshots!snapshotVars)]_mcVars
    <2>1. [MCNext]_mcVars => [VMNext]_vmVars
      BY DEF MCNext, mcVars
    <2> QED BY <2>1, VMStepRefines
  <1> QED BY <1>1, <1>2, MemoryInvariant, PTL DEF MCSpec, RestoresSnapshots

\* The same of the memory alone.
THEOREM VMRefinesSnapshots == VMSpec => ImplementsSnapshots
  <1>1. VMInit => VMInv /\ Snapshots!SnapInit
    BY VMInitInv, VMInitRefines
  <1>2. VMInv /\ [VMNext]_vmVars => VMInv' /\ [Snapshots!SnapNext]_(Snapshots!snapshotVars)
    BY VMStepInv, VMStepRefines
  <1> QED BY <1>1, <1>2, PTL DEF VMSpec, ImplementsSnapshots, Snapshots!SnapSpec

-----------------------------------------------------------------------------
(* The sizes of tables. *)

LEMMA PrimesNear ==
  /\ Len(Primes) = 56 /\ Primes[1] = 17 /\ Primes[56] = 2477
  /\ \A i \in 1 .. 56 : Primes[i] \in Nat
  /\ \A i \in 1 .. 55 : /\ 3 * Primes[i] >= 2 * Primes[i + 1]
                        /\ Primes[i + 1] > 602 => 6 * Primes[i] >= 5 * Primes[i + 1]
<1>1. Len(Primes) = 56
  BY DEF Primes
<1>2. Primes[1] = 17
  BY DEF Primes
<1>3. Primes[56] = 2477
  BY DEF Primes
<1>4. \A i \in 1 .. 56 : Primes[i] \in Nat
  BY DEF Primes
<1>5. \A i \in 1 .. 55 : 3 * Primes[i] >= 2 * Primes[i + 1]
  BY DEF Primes
<1>6. \A i \in 1 .. 55 : Primes[i + 1] > 602 => 6 * Primes[i] >= 5 * Primes[i + 1]
  BY DEF Primes
<1> QED BY <1>1, <1>2, <1>3, <1>4, <1>5, <1>6

\* Every table is larger than its dictionary may get, at every length that
\* PrimeSize accepts (dict.c): a search for an absent name meets an empty slot.
LEMMA SizesNatural ==
  ASSUME NEW s \in 0 .. MAXdictLength PROVE PrimeSize(s) > s /\ PrimeSize(s) \in Nat
<1>1. s \in 0 .. 2000
  BY DEF MAXdictLength
<1>2. CASE s <= 10
  <2>1. s \in {0, 1, 2, 3, 4, 5, 6, 7, 8, 9, 10}
    BY <1>1, <1>2
  <2> QED BY <1>2, <2>1 DEF PrimeSize
<1>3. CASE ~(s <= 10)
  <2> DEFINE T == Stretch(s)
             Between(i) == Primes[i] <= T /\ T < Primes[i + 1]
             i == CHOOSE j \in 1 .. Len(Primes) - 1 : Between(j)
             K == {j \in 1 .. 56 : Primes[j] > T}
  <2>1. /\ T \in Nat /\ 17 <= T /\ T < 2477
        /\ s <= 500 => 3 * s < 2 * T
        /\ ~(s <= 500) => T > 601 /\ 6 * s < 5 * T
    BY <1>1, <1>3 DEF Stretch
  <2> HIDE DEF T
  <2>2. K \in SUBSET Nat /\ 56 \in K /\ 1 \notin K
    BY <2>1, PrimesNear
  <2>3. PICK k \in K : \A j \in K : k <= j
    <3> HIDE DEF K
    <3> QED BY <2>2, LeastElement
  <2>4. k \in 1 .. 56 /\ k # 1 /\ Primes[k] > T
    BY <2>2, <2>3
  <2>5. k - 1 \in 1 .. 55 /\ k - 1 \notin K /\ (k - 1) + 1 = k
    <3>1. k - 1 \in 1 .. 55 /\ ~(k <= k - 1) /\ (k - 1) + 1 = k
      BY <2>4
    <3> HIDE DEF K
    <3> QED BY <2>3, <3>1
  <2>6. Between(k - 1)
    <3>1. k - 1 \in 1 .. 56 /\ Primes[k - 1] \in Nat
      BY <2>5, PrimesNear
    <3>2. ~(Primes[k - 1] > T)
      BY <2>5, <3>1
    <3> QED BY <2>1, <2>4, <2>5, <3>1, <3>2
  <2> HIDE DEF Between
  <2>7. i \in 1 .. 55 /\ Between(i)
    BY <2>5, <2>6, PrimesNear
  <2> HIDE DEF i
  <2>8. /\ Primes[i] \in Nat /\ Primes[i + 1] \in Nat
        /\ Primes[i] <= T /\ T < Primes[i + 1] /\ 3 * Primes[i] >= 2 * Primes[i + 1]
        /\ Primes[i + 1] > 602 => 6 * Primes[i] >= 5 * Primes[i + 1]
    BY <2>7, PrimesNear DEF Between
  <2>9. Primes[i] > s
    BY <2>1, <2>8
  <2>10. PrimeSize(s) = Primes[i]
    BY <1>3 DEF PrimeSize, i, Between, T
  <2> QED BY <2>8, <2>9, <2>10
<1> QED BY <1>1, <1>2, <1>3

\* No table is as small as its dictionary may get, whatever length it is made
\* with: probing always ends.
THEOREM TableSizesSuffice == TablesHaveRoom
BY SizesNatural DEF TablesHaveRoom

LEMMA SizeOK == DictSize \in Nat /\ DictSize > MaxLength /\ MaxLength \in Nat
<1>1. MaxLength \in 0 .. MAXdictLength /\ MaxLength \in Nat
  BY DictAssumption DEF MAXdictLength
<1>2. PrimeSize(MaxLength) > MaxLength /\ PrimeSize(MaxLength) \in Nat
  BY <1>1, SizesNatural
<1> QED BY <1>1, <1>2 DEF DictSize

-----------------------------------------------------------------------------
(* Probing. *)

Probe(n, j) == (n + j) % DictSize

\* The probes for a name run through all slots.
LEMMA ProbesAll ==
  ASSUME NEW n \in NameIds
  PROVE  /\ \A j \in Slots : Probe(n, j) \in Slots
         /\ \A i \in Slots : \E j \in Slots : Probe(n, j) = i
         /\ \A j, k \in Slots : Probe(n, j) = Probe(n, k) => j = k
<1> DEFINE D == DictSize
           q == n \div D
           r == n % D
<1>1. n \in Nat /\ D \in Nat \ {0} /\ Slots = 0 .. D - 1
  BY SizeOK, DictAssumption DEF Slots
<1> HIDE DEF D
<1>2. /\ q \in Int /\ r \in 0 .. D - 1 /\ n = D * q + r
  BY <1>1
<1>3. \A j \in Slots : Probe(n, j) \in Slots
  BY <1>1 DEF Probe, D
<1>4. ASSUME NEW a \in Nat, NEW b \in Int, NEW i \in 0 .. D - 1, a = D * b + i PROVE a % D = i
  <2> DEFINE x == a \div D
             y == a % D
  <2>1. x \in Int /\ y \in 0 .. D - 1 /\ a = D * x + y
    BY <1>1, <1>4
  <2> HIDE DEF x, y
  <2>2. CASE x > b
    <3>1. D * x >= D * (b + 1) /\ D * (b + 1) = D * b + D
      BY <2>1, <2>2, <1>1
    <3> QED BY <3>1, <2>1, <1>4, <1>1
  <2>3. CASE x < b
    <3>1. D * b >= D * (x + 1) /\ D * (x + 1) = D * x + D
      BY <2>1, <2>3, <1>1
    <3> QED BY <3>1, <2>1, <1>4, <1>1
  <2>4. CASE x = b
    <3>1. D * x = D * b
      BY <2>4
    <3>2. y = i
      BY <3>1, <2>1, <1>4, <1>1
    <3> QED BY <3>2 DEF y
  <2> QED BY <2>1, <2>2, <2>3, <2>4
<1> HIDE DEF q, r
<1>5. ASSUME NEW i \in Slots PROVE \E j \in Slots : Probe(n, j) = i
  <2>1. CASE r <= i
    <3>1. i - r \in Slots /\ n + (i - r) \in Nat /\ n + (i - r) = D * q + i
      BY <2>1, <1>1, <1>2
    <3>2. (n + (i - r)) % D = i
      BY <3>1, <1>1, <1>2, <1>4
    <3> QED BY <3>1, <3>2 DEF Probe, D
  <2>2. CASE ~(r <= i)
    <3>1. /\ (i - r) + D \in Slots /\ n + ((i - r) + D) \in Nat
          /\ q + 1 \in Int /\ D * (q + 1) = D * q + D
      BY <2>2, <1>1, <1>2
    <3>2. n + ((i - r) + D) = D * (q + 1) + i
      BY <3>1, <1>1, <1>2
    <3>3. (n + ((i - r) + D)) % D = i
      BY <3>1, <3>2, <1>1, <1>4
    <3> QED BY <3>1, <3>3 DEF Probe, D
  <2> QED BY <2>1, <2>2, <1>1, <1>2
<1>6. ASSUME NEW j \in Slots, NEW k \in Slots, Probe(n, j) = Probe(n, k), j < k PROVE FALSE
  <2> DEFINE x == (n + j) \div D
             z == (n + k) \div D
             y == Probe(n, j)
  <2>1. n + j \in Nat /\ n + k \in Nat /\ n + j < n + k /\ n + k < n + j + D
    BY <1>1, <1>6
  <2>2. x \in Int /\ z \in Int /\ y \in 0 .. D - 1 /\ n + j = D * x + y /\ n + k = D * z + y
    BY <2>1, <1>1, <1>6 DEF Probe, D
  <2> HIDE DEF x, y, z
  <2>3. CASE z <= x
    <3>1. D * z <= D * x
      BY <2>2, <2>3, <1>1
    <3> QED BY <3>1, <2>1, <2>2, <1>1
  <2>4. CASE ~(z <= x)
    <3>1. D * z >= D * (x + 1) /\ D * (x + 1) = D * x + D
      BY <2>2, <2>4, <1>1
    <3> QED BY <3>1, <2>1, <2>2, <1>1
  <2> QED BY <2>3, <2>4
<1>7. \A j, k \in Slots : Probe(n, j) = Probe(n, k) => j = k
  <2>1. SUFFICES ASSUME NEW j \in Slots, NEW k \in Slots, Probe(n, j) = Probe(n, k), j # k
                 PROVE  FALSE
    OBVIOUS
  <2>2. j < k \/ k < j
    BY <2>1, <1>1
  <2> QED BY <2>1, <2>2, <1>6
<1> QED BY <1>3, <1>5, <1>7

-----------------------------------------------------------------------------
(* Tables. *)

Filled(T) == {i \in Slots : T[i] # NilSlot}
HasName(T, n) == \E i \in Slots : T[i] = n

\* Whoever probes for a name in the table finds it before an empty slot.
Reachable(T) ==
  \A n \in NameIds, j \in Slots : T[Probe(n, j)] = n =>
     \A i \in Slots : i < j => T[Probe(n, i)] \notin {n, NilSlot}
TableOK(T) == /\ T \in [Slots -> NameIds \cup {NilSlot}]
              /\ Cardinality(Filled(T)) <= MaxLength /\ Reachable(T)

\* The first probe that ends the search, and the answer of SearchDict.
Ends(T, n, j) == /\ T[Probe(n, j)] \in {n, NilSlot}
                 /\ \A i \in 0 .. j - 1 : T[Probe(n, i)] \notin {n, NilSlot}
Place(T, n) == Probe(n, CHOOSE j \in Slots : Ends(T, n, j))

LEMMA SlotsFinite ==
  IsFiniteSet(Slots) /\ Cardinality(Slots) = DictSize /\ NilSlot \notin NameIds \cup Slots
<1>1. 0 \in Int /\ DictSize - 1 \in Int /\ DictSize \in Nat /\ DictSize > 0
  BY SizeOK
<1>2. /\ IsFiniteSet(0 .. DictSize - 1)
      /\ Cardinality(0 .. DictSize - 1)
           = IF 0 > DictSize - 1 THEN 0 ELSE (DictSize - 1) - 0 + 1
  BY <1>1, FS_Interval
<1>3. Cardinality(0 .. DictSize - 1) = DictSize
  BY <1>1, <1>2
<1> QED BY <1>2, <1>3, NilAssumption DEF Slots

LEMMA PlaceOK ==
  ASSUME NEW T, TableOK(T), NEW n \in NameIds
  PROVE  /\ Place(T, n) \in Slots /\ T[Place(T, n)] \in {n, NilSlot}
         /\ HasName(T, n) <=> T[Place(T, n)] = n
         /\ \A i \in Slots : T[i] = n => i = Place(T, n)
         /\ \E j \in Slots : Ends(T, n, j) /\ Place(T, n) = Probe(n, j)
<1> DEFINE K == {j \in Slots : T[Probe(n, j)] \in {n, NilSlot}}
           c == CHOOSE j \in Slots : Ends(T, n, j)
<1>1. Slots \subseteq Nat /\ \A j \in Slots : \A i \in 0 .. j - 1 : i \in Slots
  BY SizeOK DEF Slots
<1>2. K # {}
  <2>1. PICK i \in Slots : T[i] = NilSlot
    <3>1. CASE Filled(T) = Slots
      BY <3>1, SlotsFinite, SizeOK DEF TableOK
    <3>2. CASE Filled(T) # Slots
      BY <3>2 DEF Filled
    <3> QED BY <3>1, <3>2
  <2>2. PICK j \in Slots : Probe(n, j) = i
    BY ProbesAll
  <2> QED BY <2>1, <2>2
<1>3. PICK k \in K : \A j \in K : k <= j
  <2>1. K \in SUBSET Nat
    BY <1>1
  <2> HIDE DEF K
  <2> QED BY <1>2, <2>1, LeastElement
<1>4. Ends(T, n, k)
  <2>1. \A i \in 0 .. k - 1 : i \in Slots /\ ~(k <= i)
    BY <1>1, <1>3
  <2>2. \A i \in 0 .. k - 1 : i \notin K
    BY <1>3, <2>1
  <2> QED BY <1>3, <2>1, <2>2 DEF Ends
<1>5. c \in Slots /\ Ends(T, n, c)
  BY <1>3, <1>4
<1> HIDE DEF c, K
<1>6. Probe(n, c) \in Slots /\ Place(T, n) = Probe(n, c) /\ T[Place(T, n)] \in {n, NilSlot}
  BY <1>5, ProbesAll DEF Ends, Place, c
<1>7. ASSUME NEW i \in Slots, T[i] = n PROVE i = Place(T, n)
  <2>1. PICK j \in Slots : Probe(n, j) = i
    BY ProbesAll
  <2>2. ~(c < j)
    BY <1>5, <1>6, <1>7, <2>1 DEF TableOK, Reachable
  <2>3. ~(j < c)
    <3>1. ASSUME j < c PROVE j \in 0 .. c - 1
      BY <3>1, <1>1, <1>5
    <3> QED BY <3>1, <1>7, <2>1, <1>5 DEF Ends
  <2>4. j = c
    BY <2>2, <2>3, <1>1, <1>5
  <2> QED BY <2>1, <2>4, <1>6
<1>8. HasName(T, n) <=> T[Place(T, n)] = n
  BY <1>6, <1>7 DEF HasName
<1> QED BY <1>5, <1>6, <1>7, <1>8

\* What SearchDict answers.
LEMMA SearchIs ==
  ASSUME NEW d
  PROVE  \A n : SearchDict(d, n)
           = [known |-> dicts[d].slot[Place(dicts[d].slot, n)] = n,
              kv |-> IF \/ dicts[d].slot[Place(dicts[d].slot, n)] = n
                        \/ Cardinality(Filled(dicts[d].slot)) < MaxLength
                     THEN Place(dicts[d].slot, n) ELSE NilSlot]
BY DEF SearchDict, Place, Ends, Probe, CurLength, Filled

\* A name put at its place: the table stays a table, other names stay.
Insert(T, n) == [T EXCEPT ![Place(T, n)] = n]

LEMMA InsertOK ==
  ASSUME NEW T, TableOK(T), NEW n \in NameIds,
         T[Place(T, n)] = n \/ Cardinality(Filled(T)) < MaxLength
  PROVE  /\ TableOK(Insert(T, n)) /\ HasName(Insert(T, n), n)
         /\ Place(T, n) \in Slots /\ Insert(T, n)[Place(T, n)] = n
         /\ \A i \in Slots : T[i] # NilSlot => Insert(T, n)[i] = T[i]
         /\ \A m \in NameIds : m # n => (HasName(Insert(T, n), m) <=> HasName(T, m))
         /\ HasName(T, n) => Insert(T, n) = T
<1> DEFINE p == Place(T, n)
           U == Insert(T, n)
<1>0. U = [T EXCEPT ![p] = n] /\ (T[p] = n \/ Cardinality(Filled(T)) < MaxLength)
  BY DEF Insert
<1> HIDE DEF p, U
<1>1. /\ p \in Slots /\ T[p] \in {n, NilSlot} /\ (HasName(T, n) <=> T[p] = n)
      /\ \A i \in Slots : T[i] = n => i = p
      /\ \E j \in Slots : Ends(T, n, j) /\ p = Probe(n, j)
  BY PlaceOK DEF p
<1>2. /\ T \in [Slots -> NameIds \cup {NilSlot}] /\ Cardinality(Filled(T)) <= MaxLength
      /\ Reachable(T)
  BY DEF TableOK
<1>3. /\ U \in [Slots -> NameIds \cup {NilSlot}] /\ U[p] = n
      /\ \A i \in Slots : i # p => U[i] = T[i]
  BY <1>0, <1>1, <1>2
<1>4. \A i \in Slots : T[i] # NilSlot => U[i] = T[i]
  BY <1>1, <1>3
<1>5. \A m \in NameIds : m # n => (HasName(U, m) <=> HasName(T, m))
  BY <1>1, <1>3, SlotsFinite DEF HasName
<1>6. HasName(T, n) => U = T
  BY <1>0, <1>1, <1>2
<1>7. Cardinality(Filled(U)) <= MaxLength
  <2>1. CASE T[p] = n
    BY <2>1, <1>1, <1>2, <1>6
  <2>2. CASE T[p] # n
    <3>1. Filled(U) = Filled(T) \cup {p} /\ p \notin Filled(T)
      BY <2>2, <1>1, <1>3, SlotsFinite DEF Filled
    <3>2. IsFiniteSet(Filled(T))
      BY SlotsFinite, FS_Subset DEF Filled
    <3>3. Cardinality(Filled(U)) = Cardinality(Filled(T)) + 1 /\ Cardinality(Filled(T)) \in Nat
      BY <3>1, <3>2, FS_AddElement, FS_CardinalityType
    <3> QED BY <1>0, <3>3, <2>2, SizeOK
  <2> QED BY <2>1, <2>2
<1>8. Reachable(U)
  <2>1. SUFFICES ASSUME NEW m \in NameIds, NEW j \in Slots, U[Probe(m, j)] = m,
                        NEW i \in Slots, i < j
                 PROVE  U[Probe(m, i)] \notin {m, NilSlot}
    BY DEF Reachable
  <2>2. Probe(m, i) \in Slots /\ Probe(m, j) \in Slots
    BY ProbesAll
  <2>3. CASE T[Probe(m, j)] = m
    <3>1. T[Probe(m, i)] \notin {m, NilSlot}
      BY <2>1, <2>3, <1>2 DEF Reachable
    <3> QED BY <3>1, <2>2, <1>4
  <2>4. CASE T[Probe(m, j)] # m
    <3>1. Probe(m, j) = p /\ m = n
      BY <2>1, <2>2, <2>4, <1>3
    <3>2. PICK k \in Slots : Ends(T, n, k) /\ p = Probe(n, k)
      BY <1>1
    <3>3. i < k => T[Probe(n, i)] \notin {n, NilSlot}
      <4>1. Slots \subseteq Nat
        BY SizeOK DEF Slots
      <4>2. i < k => i \in 0 .. k - 1
        BY <4>1
      <4> QED BY <4>2, <3>2 DEF Ends
    <3>4. i < k
      BY <2>1, <3>1, <3>2, ProbesAll
    <3> QED BY <3>1, <3>3, <3>4, <2>2, <1>4
  <2> QED BY <2>3, <2>4
<1>9. TableOK(U) /\ HasName(U, n)
  BY <1>1, <1>3, <1>7, <1>8 DEF TableOK, HasName
<1> QED BY <1>1, <1>3, <1>4, <1>5, <1>6, <1>9 DEF p, U

-----------------------------------------------------------------------------
(* The inductive invariant of dictionaries and name cache. *)

Access == SUBSET {"r", "w"}
Dict == [slot : [Slots -> NameIds \cup {NilSlot}], acc : Access]
CacheEntry == [dict : DictIds \cup {NilSlot}, kv : Slots \cup {NilSlot}, ts : Nat,
          vec : SUBSET {BitOf[d] : d \in DictIds}, acc : Access]
DictCopies == [dicts : [DictIds -> Dict], cache : [NameIds -> CacheEntry], names : SUBSET NameIds]

Has(ds, d, n) == HasName(ds[d].slot, n)

\* An entry that names a dictionary has the place of the name there, and it
\* has the bits of all dictionaries with the name.
EntryOK(ds, e, n) ==
  /\ e.dict = NilSlot <=> e.kv = NilSlot
  /\ e.dict # NilSlot => ds[e.dict].slot[e.kv] = n /\ e.acc = ds[e.dict].acc
  /\ \A d \in DictIds : Has(ds, d, n) => BitOf[d] \in e.vec
Coherent(ds, c) ==
  /\ ds \in [DictIds -> Dict] /\ c \in [NameIds -> CacheEntry]
  /\ \A d \in DictIds : TableOK(ds[d].slot)
  /\ \A n \in NameIds : EntryOK(ds, c[n], n)

\* The topmost dictionary with the name is d.
Topmost(ds, st, n, d) ==
  \E i \in 1 .. Len(st) : /\ st[i] = d /\ Has(ds, d, n)
                          /\ \A j \in 1 .. Len(st) : j > i => ~Has(ds, st[j], n)

\* A current stamp is on the entry of the topmost dictionary.
StampOK(ds, st, t, e, n) ==
  e.ts <= t /\ (e.ts = t /\ e.kv # NilSlot => Topmost(ds, st, n, e.dict))

\* Dictionaries gain names and lose none.
Extends(old, ds) ==
  \A d \in DictIds : \A i \in Slots : old[d].slot[i] # NilSlot => ds[d].slot[i] = old[d].slot[i]

\* The save in force is coherent, dictionaries have grown since, and an entry
\* that is not logged is as it was.
SaveOK(u, ds, c) ==
  u # NilSlot => /\ u \in DictCopies /\ Coherent(u.dicts, u.cache) /\ Extends(u.dicts, ds)
                 /\ \A n \in NameIds \ u.names : c[n] = u.cache[n]

DInv ==
  /\ Coherent(dicts, cache)
  /\ \A n \in NameIds : StampOK(dicts, dictStack, timestamp, cache[n], n)
  /\ SaveOK(undo, dicts, cache)
  /\ dictStack \in Seq(DictIds) /\ Len(dictStack) >= 2
  /\ timestamp \in 1 .. MAXcardinal

\* What SearchDict answers in a coherent dictionary.
LEMMA SearchOK ==
  ASSUME Coherent(dicts, cache), NEW d \in DictIds, NEW n \in NameIds
  PROVE  /\ SearchDict(d, n).known <=> Has(dicts, d, n)
         /\ Has(dicts, d, n) => /\ SearchDict(d, n).kv \in Slots
                                /\ dicts[d].slot[SearchDict(d, n).kv] = n
         /\ \A i \in Slots : dicts[d].slot[i] = n => i = SearchDict(d, n).kv
         /\ SearchDict(d, n).kv \in Slots \cup {NilSlot}
<1>1. TableOK(dicts[d].slot)
  BY DEF Coherent
<1>2. /\ Place(dicts[d].slot, n) \in Slots
      /\ Has(dicts, d, n) <=> dicts[d].slot[Place(dicts[d].slot, n)] = n
      /\ \A i \in Slots : dicts[d].slot[i] = n => i = Place(dicts[d].slot, n)
  BY <1>1, PlaceOK DEF Has
<1>3. /\ SearchDict(d, n).known <=> dicts[d].slot[Place(dicts[d].slot, n)] = n
      /\ dicts[d].slot[Place(dicts[d].slot, n)] = n
            => SearchDict(d, n).kv = Place(dicts[d].slot, n)
      /\ SearchDict(d, n).kv \in {Place(dicts[d].slot, n), NilSlot}
  BY SearchIs
<1> QED BY <1>2, <1>3

\* If any dictionary on the stack has the name, one is topmost, and only one.
LEMMA TopmostOf ==
  ASSUME NEW ds, NEW st \in Seq(DictIds), NEW n
  PROVE  /\ (\E i \in 1 .. Len(st) : Has(ds, st[i], n)) => \E d \in DictIds : Topmost(ds, st, n, d)
         /\ \A a, b : Topmost(ds, st, n, a) /\ Topmost(ds, st, n, b) => a = b
<1>1. ASSUME NEW k \in 1 .. Len(st), Has(ds, st[k], n)
      PROVE  \E d \in DictIds : Topmost(ds, st, n, d)
  <2> DEFINE K == {x \in Nat : x <= Len(st) /\ Len(st) - x \in 1 .. Len(st)
                                /\ Has(ds, st[Len(st) - x], n)}
  <2>1. Len(st) \in Nat /\ \A i \in 1 .. Len(st) : st[i] \in DictIds
    OBVIOUS
  <2>2. Len(st) - k \in K
    <3>1. Len(st) - k \in Nat /\ Len(st) - (Len(st) - k) = k /\ Len(st) - k <= Len(st)
      BY <2>1
    <3> QED BY <3>1, <1>1
  <2>3. PICK x \in K : \A y \in K : x <= y
    <3>1. K \in SUBSET Nat
      OBVIOUS
    <3> HIDE DEF K
    <3> QED BY <2>2, <3>1, LeastElement
  <2>4. Len(st) - x \in 1 .. Len(st) /\ Has(ds, st[Len(st) - x], n)
    OBVIOUS
  <2>5. ASSUME NEW j \in 1 .. Len(st), j > Len(st) - x, Has(ds, st[j], n) PROVE FALSE
    <3>1. /\ Len(st) - j \in Nat /\ Len(st) - (Len(st) - j) = j /\ Len(st) - j <= Len(st)
          /\ ~(x <= Len(st) - j)
      BY <2>1, <2>3, <2>5
    <3>2. Len(st) - j \in K
      BY <3>1, <2>5
    <3> HIDE DEF K
    <3> QED BY <3>1, <3>2, <2>3
  <2> HIDE DEF K
  <2> QED BY <2>1, <2>4, <2>5 DEF Topmost
<1>2. ASSUME NEW a, NEW b, Topmost(ds, st, n, a), Topmost(ds, st, n, b) PROVE a = b
  <2>1. PICK i \in 1 .. Len(st) : /\ st[i] = a /\ Has(ds, a, n)
                                  /\ \A j \in 1 .. Len(st) : j > i => ~Has(ds, st[j], n)
    BY <1>2 DEF Topmost
  <2>2. PICK k \in 1 .. Len(st) : /\ st[k] = b /\ Has(ds, b, n)
                                  /\ \A j \in 1 .. Len(st) : j > k => ~Has(ds, st[j], n)
    BY <1>2 DEF Topmost
  <2>3. ~(i < k) /\ ~(k < i)
    BY <2>1, <2>2
  <2> QED BY <2>1, <2>2, <2>3
<1> QED BY <1>1, <1>2

\* trytoload finds the topmost dictionary with the name and the place there,
\* and the entry it leaves in the cache is right.
LEMMA LoadFinds ==
  ASSUME DInv, NEW n \in NameIds, NEW z, z = trytoload(n)
  PROVE  /\ (\A i \in 1 .. Len(dictStack) : ~Has(dicts, dictStack[i], n)) =>
               z.dict = NilSlot /\ z.ce = cache[n]
         /\ \A d \in DictIds : Topmost(dicts, dictStack, n, d) =>
               /\ z.dict = d /\ z.kv \in Slots /\ dicts[d].slot[z.kv] = n
               /\ z.ce \in CacheEntry /\ EntryOK(dicts, z.ce, n)
               /\ StampOK(dicts, dictStack, timestamp, z.ce, n)
<1> DEFINE st == dictStack
           e == cache[n]
           at == {i \in 1 .. Len(st) : Stops(st[i], n)}
           top == CHOOSE i \in at : \A j \in at : j <= i
<1>1. /\ e \in CacheEntry /\ EntryOK(dicts, e, n) /\ StampOK(dicts, st, timestamp, e, n)
      /\ st \in Seq(DictIds) /\ timestamp \in Nat /\ timestamp >= 1
      /\ Coherent(dicts, cache)
  BY DEF DInv, Coherent
<1>2. \A d \in DictIds : Stops(d, n) <=> Has(dicts, d, n)
  <2>1. SUFFICES ASSUME NEW d \in DictIds PROVE Stops(d, n) <=> Has(dicts, d, n)
    OBVIOUS
  <2>2. e.dict = d => Has(dicts, d, n)
    BY <1>1, SlotsFinite, NilAssumption DEF EntryOK, Has, HasName, CacheEntry
  <2>3. Has(dicts, d, n) => BitOf[d] \in e.vec
    BY <1>1 DEF EntryOK
  <2> QED BY <1>1, <2>2, <2>3, SearchOK DEF Stops, MayHold
<1>3. \A i \in 1 .. Len(st) : st[i] \in DictIds /\ (i \in at <=> Has(dicts, st[i], n))
  BY <1>1, <1>2
<1>4. Hit(n) => Topmost(dicts, st, n, e.dict)
  BY <1>1 DEF StampOK, Hit
<1> HIDE DEF e, at
<1>5. ASSUME \A i \in 1 .. Len(st) : ~Has(dicts, st[i], n)
      PROVE  z.dict = NilSlot /\ z.ce = e
  <2>1. ~Hit(n)
    BY <1>4, <1>5 DEF Topmost
  <2>2. at = {}
    BY <1>3, <1>5 DEF at
  <2> QED BY <2>1, <2>2 DEF trytoload, at, e
<1>6. ASSUME NEW d \in DictIds, Topmost(dicts, st, n, d)
      PROVE  /\ z.dict = d /\ z.kv \in Slots /\ dicts[d].slot[z.kv] = n
             /\ z.ce \in CacheEntry /\ EntryOK(dicts, z.ce, n)
             /\ StampOK(dicts, st, timestamp, z.ce, n)
  <2>1. Has(dicts, d, n)
    BY <1>6 DEF Topmost
  <2>2. CASE Hit(n)
    <3>1. z = [dict |-> e.dict, kv |-> e.kv, ce |-> e]
      BY <2>2 DEF trytoload, e
    <3>2. e.dict = d
      BY <1>1, <1>4, <1>6, <2>2, TopmostOf
    <3> QED BY <3>1, <3>2, <1>1, NilAssumption DEF EntryOK, CacheEntry
  <2>3. CASE ~Hit(n)
    <3>1. at # {} /\ st[top] = d
      <4>1. PICK i \in 1 .. Len(st) : /\ st[i] = d /\ Has(dicts, d, n)
                                      /\ \A j \in 1 .. Len(st) : j > i => ~Has(dicts, st[j], n)
        BY <1>6 DEF Topmost
      <4>2. i \in at /\ \A j \in at : j <= i
        BY <4>1, <1>3 DEF at
      <4>3. top \in at /\ \A j \in at : j <= top
        BY <4>2
      <4>4. at \subseteq Nat
        BY DEF at
      <4> HIDE DEF top
      <4>5. top = i
        BY <4>2, <4>3, <4>4
      <4> QED BY <4>1, <4>2, <4>5
    <3> HIDE DEF top
    <3>2. CASE e.dict = d
      <4>1. z = [dict |-> d, kv |-> e.kv, ce |-> [e EXCEPT !.ts = timestamp]]
        BY <2>3, <3>1, <3>2 DEF trytoload, at, e, top
      <4>2. /\ z.ce \in CacheEntry /\ z.ce.dict = e.dict /\ z.ce.kv = e.kv /\ z.ce.ts = timestamp
            /\ z.ce.vec = e.vec /\ z.ce.acc = e.acc
        BY <4>1, <1>1 DEF CacheEntry
      <4>3. e.kv \in Slots /\ dicts[d].slot[e.kv] = n
        BY <1>1, <3>2, NilAssumption DEF EntryOK, CacheEntry
      <4>4. EntryOK(dicts, z.ce, n)
        BY <4>2, <1>1 DEF EntryOK
      <4>5. StampOK(dicts, st, timestamp, z.ce, n)
        BY <4>2, <3>2, <1>1, <1>6 DEF StampOK
      <4> QED BY <4>1, <4>2, <4>3, <4>4, <4>5
    <3>3. CASE e.dict # d
      <4> DEFINE kv == SearchDict(d, n).kv
      <4>1. z = [dict |-> d, kv |-> kv, ce |-> UpdateCE(n, d, kv)]
        BY <2>3, <3>1, <3>3 DEF trytoload, at, e, top
      <4>2. kv \in Slots /\ dicts[d].slot[kv] = n
        BY <1>1, <2>1, SearchOK
      <4> HIDE DEF kv
      <4>3. /\ z.dict = d /\ z.kv = kv
            /\ z.ce = [dict |-> d, kv |-> kv, ts |-> timestamp,
                       vec |-> e.vec \cup {BitOf[d]}, acc |-> dicts[d].acc]
        BY <4>1 DEF UpdateCE, e
      <4>4. z.ce \in CacheEntry
        BY <4>2, <4>3, <1>1 DEF CacheEntry, Coherent, Dict
      <4>5. EntryOK(dicts, z.ce, n)
        BY <4>2, <4>3, <1>1, NilAssumption DEF EntryOK
      <4>6. StampOK(dicts, st, timestamp, z.ce, n)
        BY <4>3, <1>1, <1>6 DEF StampOK
      <4> QED BY <4>2, <4>3, <4>4, <4>5, <4>6
    <3> QED BY <3>2, <3>3
  <2> QED BY <2>2, <2>3
<1> QED BY <1>5, <1>6 DEF e

-----------------------------------------------------------------------------
(* The steps. *)

\* Where no dictionary gains or loses m, the topmost one with m stays.
LEMMA TopmostKept ==
  ASSUME NEW ds, NEW es, NEW st \in Seq(DictIds), NEW m,
         \A i \in 1 .. Len(st) : Has(ds, st[i], m) <=> Has(es, st[i], m)
  PROVE  \A d : Topmost(ds, st, m, d) => Topmost(es, st, m, d)
BY DEF Topmost

\* The entry e replaces that of n, and dictionaries gain the name n at most.
LEMMA EntryStep ==
  ASSUME DInv, NEW n \in NameIds, NEW e \in CacheEntry, NEW ds \in [DictIds -> Dict],
         \A d \in DictIds : TableOK(ds[d].slot) /\ ds[d].acc = dicts[d].acc,
         Extends(dicts, ds),
         \A d \in DictIds, m \in NameIds : m # n => (Has(ds, d, m) <=> Has(dicts, d, m)),
         EntryOK(ds, e, n), StampOK(ds, dictStack, timestamp, e, n),
         dicts' = ds, cache' = [cache EXCEPT ![n] = e],
         undo' = IF e = cache[n] THEN undo ELSE Logged({n}),
         UNCHANGED <<dictStack, timestamp>>
  PROVE  DInv'
<1>1. /\ Coherent(dicts, cache) /\ SaveOK(undo, dicts, cache)
      /\ dictStack \in Seq(DictIds) /\ cache \in [NameIds -> CacheEntry]
      /\ \A m \in NameIds : EntryOK(dicts, cache[m], m)
      /\ \A m \in NameIds : StampOK(dicts, dictStack, timestamp, cache[m], m)
  BY DEF DInv, Coherent
<1>2. /\ cache' \in [NameIds -> CacheEntry] /\ cache'[n] = e
      /\ \A m \in NameIds : m # n => cache'[m] = cache[m]
  BY <1>1
<1>3. ASSUME NEW m \in NameIds, m # n
      PROVE  EntryOK(ds, cache[m], m) /\ StampOK(ds, dictStack, timestamp, cache[m], m)
  <2>1. cache[m] \in CacheEntry /\ EntryOK(dicts, cache[m], m)
        /\ StampOK(dicts, dictStack, timestamp, cache[m], m)
    BY <1>1
  <2>2. EntryOK(ds, cache[m], m)
    <3>1. cache[m].dict # NilSlot =>
             /\ cache[m].dict \in DictIds /\ cache[m].kv \in Slots
             /\ dicts[cache[m].dict].slot[cache[m].kv] = m
             /\ cache[m].acc = dicts[cache[m].dict].acc
      BY <2>1 DEF EntryOK, CacheEntry
    <3>2. cache[m].dict # NilSlot =>
             /\ ds[cache[m].dict].slot[cache[m].kv] = m
             /\ cache[m].acc = ds[cache[m].dict].acc
      BY <3>1, SlotsFinite DEF Extends
    <3> QED BY <2>1, <3>2, <1>3 DEF EntryOK
  <2>3. \A d : Topmost(dicts, dictStack, m, d) => Topmost(ds, dictStack, m, d)
    <3>1. \A i \in 1 .. Len(dictStack) : Has(dicts, dictStack[i], m) <=> Has(ds, dictStack[i], m)
      BY <1>1, <1>3
    <3> QED BY <3>1, <1>1, TopmostKept
  <2> QED BY <2>1, <2>2, <2>3 DEF StampOK
<1>4. Coherent(ds, cache')
  BY <1>2, <1>3 DEF Coherent
<1>5. \A m \in NameIds : StampOK(ds, dictStack, timestamp, cache'[m], m)
  BY <1>2, <1>3
<1>6. SaveOK(undo', ds, cache')
  <2>1. CASE undo = NilSlot
    BY <2>1 DEF SaveOK, Logged
  <2>2. CASE undo # NilSlot
    <3>1. /\ undo \in DictCopies /\ Coherent(undo.dicts, undo.cache) /\ Extends(undo.dicts, dicts)
          /\ \A m \in NameIds \ undo.names : cache[m] = undo.cache[m]
      BY <1>1, <2>2 DEF SaveOK
    <3>2. Extends(undo.dicts, ds)
      BY <3>1 DEF Extends
    <3>3. CASE e = cache[n]
      <4>1. undo' = undo /\ cache' = cache
        BY <3>3, <1>1
      <4> QED BY <4>1, <3>1, <3>2 DEF SaveOK
    <3>4. CASE e # cache[n]
      <4>1. undo' = [undo EXCEPT !.names = @ \cup {n}]
        BY <3>4, <2>2 DEF Logged
      <4>2. /\ undo' \in DictCopies /\ undo'.dicts = undo.dicts /\ undo'.cache = undo.cache
            /\ undo'.names = undo.names \cup {n}
        BY <4>1, <3>1 DEF DictCopies
      <4> QED BY <4>2, <3>1, <3>2, <1>2 DEF SaveOK
    <3> QED BY <3>3, <3>4
  <2> QED BY <2>1, <2>2
<1> QED BY <1>4, <1>5, <1>6 DEF DInv

LEMMA TryToLoadKeeps ==
  ASSUME DInv, NEW n \in NameIds, TryToLoad(n)
  PROVE  DInv'
<1> DEFINE z == trytoload(n)
<1>1. /\ cache' = [cache EXCEPT ![n] = z.ce]
      /\ undo' = IF z.ce = cache[n] THEN undo ELSE Logged({n})
      /\ UNCHANGED <<dicts, dictStack, timestamp>>
  BY DEF TryToLoad, PutCE
<1>2. /\ Coherent(dicts, cache) /\ dictStack \in Seq(DictIds)
      /\ cache[n] \in CacheEntry /\ EntryOK(dicts, cache[n], n)
      /\ StampOK(dicts, dictStack, timestamp, cache[n], n)
      /\ dicts \in [DictIds -> Dict] /\ \A d \in DictIds : TableOK(dicts[d].slot)
  BY DEF DInv, Coherent
<1>3. z.ce \in CacheEntry /\ EntryOK(dicts, z.ce, n) /\ StampOK(dicts, dictStack, timestamp, z.ce, n)
  <2> HIDE DEF z
  <2>1. CASE \A i \in 1 .. Len(dictStack) : ~Has(dicts, dictStack[i], n)
    BY <2>1, <1>2, LoadFinds DEF z
  <2>2. CASE \E i \in 1 .. Len(dictStack) : Has(dicts, dictStack[i], n)
    <3>1. PICK d \in DictIds : Topmost(dicts, dictStack, n, d)
      BY <2>2, <1>2, TopmostOf
    <3> QED BY <3>1, LoadFinds DEF z
  <2> QED BY <2>1, <2>2
<1> HIDE DEF z
<1>4. Extends(dicts, dicts)
  BY DEF Extends
<1> QED BY <1>1, <1>2, <1>3, <1>4, EntryStep

\* A put into d keeps the invariant: from the top it goes to the topmost
\* dictionary with the name, or to the top of the stack; other puts give no
\* new name to a dictionary on the stack.
LEMMA PutInDictKeeps ==
  ASSUME DInv, NEW n \in NameIds, NEW d \in DictIds, NEW top \in BOOLEAN, PutInDict(d, n, top),
         top => d = TopDict \/ Topmost(dicts, dictStack, n, d),
         ~top => ~OnStack(d) \/ Has(dicts, d, n)
  PROVE  DInv'
<1> DEFINE old == cache[n]
           dl == SearchDict(d, n)
           T == dicts[d].slot
<1>1. /\ Coherent(dicts, cache) /\ dictStack \in Seq(DictIds) /\ Len(dictStack) >= 2
      /\ timestamp \in Nat /\ timestamp >= 1
      /\ old \in CacheEntry /\ EntryOK(dicts, old, n) /\ StampOK(dicts, dictStack, timestamp, old, n)
      /\ dicts \in [DictIds -> Dict] /\ \A x \in DictIds : TableOK(dicts[x].slot)
      /\ cache \in [NameIds -> CacheEntry]
  BY DEF DInv, Coherent
<1>2. undo' = (IF cache' = cache THEN undo ELSE Logged({n})) /\ UNCHANGED <<dictStack, timestamp>>
  BY DEF PutInDict
<1>3. Extends(dicts, dicts)
  BY DEF Extends
<1>4. TopDict \in DictIds /\ \A ds : Has(ds, TopDict, n) => Topmost(ds, dictStack, n, TopDict)
  <2>1. Len(dictStack) \in 1 .. Len(dictStack) /\ \A j \in 1 .. Len(dictStack) : ~(j > Len(dictStack))
    BY <1>1
  <2> QED BY <2>1, <1>1 DEF TopDict, Topmost
<1>e. \A e : [cache EXCEPT ![n] = e] = cache <=> e = old
  BY <1>1
<1> HIDE DEF old, dl
<1>5. CASE old.dict = d
  <2> DEFINE e == IF top THEN [old EXCEPT !.ts = timestamp] ELSE old
  <2>1. dicts' = dicts /\ cache' = [cache EXCEPT ![n] = e]
    <3>1. CASE top
      BY <3>1, <1>5 DEF PutInDict, PutCE, old
    <3>2. CASE ~top
      BY <3>2, <1>5, <1>1 DEF PutInDict, PutCE, old
    <3> QED BY <3>1, <3>2
  <2>2. Has(dicts, d, n)
    BY <1>1, <1>5, NilAssumption DEF EntryOK, CacheEntry, Has, HasName
  <2>3. /\ e \in CacheEntry /\ e.dict = old.dict /\ e.kv = old.kv /\ e.acc = old.acc /\ e.vec = old.vec
        /\ e.ts = IF top THEN timestamp ELSE old.ts
    BY <1>1 DEF CacheEntry
  <2> HIDE DEF e
  <2>4. EntryOK(dicts, e, n)
    BY <2>3, <1>1 DEF EntryOK
  <2>5. top => Topmost(dicts, dictStack, n, d)
    BY <1>4, <2>2
  <2>6. StampOK(dicts, dictStack, timestamp, e, n)
    <3>1. CASE top
      BY <3>1, <2>3, <2>5, <1>1, <1>5 DEF StampOK
    <3>2. CASE ~top
      BY <3>2, <2>3, <1>1 DEF StampOK
    <3> QED BY <3>1, <3>2
  <2>7. undo' = IF e = cache[n] THEN undo ELSE Logged({n})
    BY <2>1, <1>2, <1>e DEF old
  <2> QED BY <2>1, <2>3, <2>4, <2>6, <2>7, <1>1, <1>2, <1>3, EntryStep
<1>6. CASE old.dict # d
  <2> DEFINE entry == UpdateCE(n, d, dl.kv)
             e == CASE top -> entry
                    [] ~top /\ dl.known -> old
                    [] ~top /\ ~dl.known /\ old.vec = {} -> [entry EXCEPT !.ts = 0]
                    [] OTHER -> [old EXCEPT !.vec = @ \cup {BitOf[d]}]
             p == Place(T, n)
             U == Insert(T, n)
             ds == [dicts EXCEPT ![d].slot[p] = n]
  <2>1. /\ dl.kv # NilSlot /\ dicts' = [dicts EXCEPT ![d].slot[dl.kv] = n]
        /\ cache' = [cache EXCEPT ![n] = e]
    BY <1>6 DEF PutInDict, PutCE, old, dl
  <2>2. /\ dl.known <=> T[p] = n
        /\ dl.kv = IF T[p] = n \/ Cardinality(Filled(T)) < MaxLength THEN p ELSE NilSlot
    BY SearchIs DEF dl
  <2>3. dl.kv = p /\ (T[p] = n \/ Cardinality(Filled(T)) < MaxLength)
    BY <2>1, <2>2
  <2>4. TableOK(T) /\ (HasName(T, n) <=> T[p] = n)
    BY <1>1, PlaceOK
  <2>5. /\ TableOK(U) /\ p \in Slots /\ U[p] = n /\ HasName(U, n)
        /\ \A i \in Slots : T[i] # NilSlot => U[i] = T[i]
        /\ \A m \in NameIds : m # n => (HasName(U, m) <=> HasName(T, m))
        /\ HasName(T, n) => U = T
    BY <2>3, <2>4, InsertOK DEF Insert
  <2>6. /\ ds \in [DictIds -> Dict] /\ ds[d].slot = U /\ ds[d].acc = dicts[d].acc
        /\ \A x \in DictIds : x # d => ds[x] = dicts[x]
        /\ U = T => ds = dicts
    <3>1. dicts[d] \in Dict /\ T \in [Slots -> NameIds \cup {NilSlot}]
      BY <1>1 DEF Dict
    <3>2. ds = [dicts EXCEPT ![d] = [dicts[d] EXCEPT !.slot = U]]
      BY <1>1 DEF Insert
    <3>3. U \in [Slots -> NameIds \cup {NilSlot}]
      BY <2>5 DEF TableOK
    <3> HIDE DEF U, p, ds
    <3>4. /\ [dicts[d] EXCEPT !.slot = U] \in Dict /\ [dicts[d] EXCEPT !.slot = U].slot = U
          /\ [dicts[d] EXCEPT !.slot = U].acc = dicts[d].acc
          /\ U = T => [dicts[d] EXCEPT !.slot = U] = dicts[d]
      BY <3>1, <3>3 DEF Dict
    <3> QED BY <3>2, <3>4, <1>1
  <2>7. dicts' = ds
    BY <2>1, <2>3
  <2> HIDE DEF ds, U, T, p
  <2>8. /\ \A x \in DictIds : TableOK(ds[x].slot) /\ ds[x].acc = dicts[x].acc
        /\ Extends(dicts, ds)
        /\ \A x \in DictIds, m \in NameIds : m # n => (Has(ds, x, m) <=> Has(dicts, x, m))
        /\ \A x \in DictIds : x # d => (Has(ds, x, n) <=> Has(dicts, x, n))
        /\ Has(ds, d, n) /\ (Has(dicts, d, n) <=> dl.known)
    BY <2>2, <2>4, <2>5, <2>6, <1>1 DEF Extends, Has, T
  <2>9. dl.known => ds = dicts
    BY <2>2, <2>4, <2>5, <2>6
  <2>10. /\ entry = [dict |-> d, kv |-> p, ts |-> timestamp,
                     vec |-> old.vec \cup {BitOf[d]}, acc |-> dicts[d].acc]
    BY <2>3 DEF UpdateCE, old
  <2> HIDE DEF entry
  <2>11. /\ entry \in CacheEntry /\ entry.dict = d /\ entry.kv = p /\ entry.ts = timestamp
         /\ entry.vec = old.vec \cup {BitOf[d]} /\ entry.acc = dicts[d].acc
    BY <2>5, <2>10, <1>1 DEF CacheEntry, Dict
  <2>12. EntryOK(ds, entry, n)
    <3>1. \A x \in DictIds : Has(ds, x, n) => BitOf[x] \in entry.vec
      BY <2>8, <2>11, <1>1 DEF EntryOK
    <3> QED BY <3>1, <2>5, <2>6, <2>11, NilAssumption DEF EntryOK
  <2>13. ~top => \A x : Topmost(dicts, dictStack, n, x) => Topmost(ds, dictStack, n, x)
    <3>1. CASE dl.known
      BY <3>1, <2>9
    <3>2. CASE ~dl.known
      <4>1. ~top => \A i \in 1 .. Len(dictStack) :
                       Has(dicts, dictStack[i], n) <=> Has(ds, dictStack[i], n)
        BY <3>2, <2>8, <1>1 DEF OnStack
      <4> QED BY <4>1, <1>1, TopmostKept
    <3> QED BY <3>1, <3>2
  <2>14. \A f \in CacheEntry : f.dict = old.dict /\ f.kv = old.kv /\ f.acc = old.acc
              /\ f.ts = old.ts /\ (\A x \in DictIds : Has(ds, x, n) => BitOf[x] \in f.vec) /\ ~top
            => EntryOK(ds, f, n) /\ StampOK(ds, dictStack, timestamp, f, n)
    <3>1. old.dict # NilSlot =>
             /\ old.dict \in DictIds /\ old.kv \in Slots
             /\ ds[old.dict].slot[old.kv] = n /\ old.acc = ds[old.dict].acc
      BY <1>1, <1>6, <2>6 DEF EntryOK, CacheEntry
    <3>2. old.dict = NilSlot <=> old.kv = NilSlot
      BY <1>1 DEF EntryOK
    <3> QED BY <3>1, <3>2, <2>13, <1>1 DEF EntryOK, StampOK
  <2>15. e \in CacheEntry /\ EntryOK(ds, e, n) /\ StampOK(ds, dictStack, timestamp, e, n)
    <3>1. CASE top
      <4>1. e = entry
        BY <3>1
      <4>2. Topmost(ds, dictStack, n, d)
        <5>1. CASE d = TopDict
          BY <5>1, <1>4, <2>8
        <5>2. CASE Topmost(dicts, dictStack, n, d)
          <6>1. Has(dicts, d, n)
            BY <5>2 DEF Topmost
          <6> QED BY <5>2, <6>1, <2>8, <2>9
        <5> QED BY <3>1, <5>1, <5>2
      <4> HIDE DEF e
      <4> QED BY <4>1, <4>2, <2>11, <2>12, <1>1 DEF StampOK
    <3>2. CASE ~top /\ dl.known
      <4>1. e = old /\ ds = dicts
        BY <3>2, <2>9
      <4> HIDE DEF e
      <4> QED BY <4>1, <1>1
    <3>3. CASE ~top /\ ~dl.known /\ old.vec = {}
      <4>1. e = [entry EXCEPT !.ts = 0]
        BY <3>3
      <4>2. /\ e \in CacheEntry /\ e.dict = entry.dict /\ e.kv = entry.kv /\ e.acc = entry.acc
            /\ e.vec = entry.vec /\ e.ts = 0
        BY <4>1, <2>11 DEF CacheEntry
      <4> HIDE DEF e
      <4>3. EntryOK(ds, e, n)
        BY <4>2, <2>12 DEF EntryOK
      <4>4. StampOK(ds, dictStack, timestamp, e, n)
        BY <4>2, <1>1 DEF StampOK
      <4> QED BY <4>2, <4>3, <4>4
    <3>4. CASE ~top /\ ~dl.known /\ old.vec # {}
      <4>1. e = [old EXCEPT !.vec = @ \cup {BitOf[d]}]
        BY <3>4
      <4> HIDE DEF e
      <4>2. /\ e \in CacheEntry /\ e.dict = old.dict /\ e.kv = old.kv /\ e.acc = old.acc
            /\ e.vec = old.vec \cup {BitOf[d]} /\ e.ts = old.ts
        <5> DEFINE v == old.vec \cup {BitOf[d]}
        <5>1. v \in SUBSET {BitOf[x] : x \in DictIds}
          BY <1>1 DEF CacheEntry
        <5> HIDE DEF v
        <5>2. e = [old EXCEPT !.vec = v]
          BY <4>1 DEF v
        <5>3. /\ e \in CacheEntry /\ e.dict = old.dict /\ e.kv = old.kv /\ e.acc = old.acc
              /\ e.vec = v /\ e.ts = old.ts
          BY <5>1, <5>2, <1>1 DEF CacheEntry
        <5> QED BY <5>3 DEF v
      <4>3. \A x \in DictIds : Has(ds, x, n) => BitOf[x] \in e.vec
        BY <4>2, <2>8, <1>1 DEF EntryOK
      <4> QED BY <3>4, <4>2, <4>3, <2>14
    <3> QED BY <3>1, <3>2, <3>3, <3>4
  <2> HIDE DEF e
  <2>16. undo' = IF e = cache[n] THEN undo ELSE Logged({n})
    BY <2>1, <1>2, <1>e DEF old
  <2> QED BY <2>1, <2>6, <2>7, <2>8, <2>15, <2>16, <1>2, EntryStep
<1> QED BY <1>5, <1>6

LEMMA DefKeeps ==
  ASSUME DInv, NEW n \in NameIds, PSDef(n) \/ PSStore(n)
  PROVE  DInv'
<1>1. dictStack \in Seq(DictIds) /\ TopDict \in DictIds
  BY DEF DInv, TopDict
<1>2. CASE PSDef(n)
  BY <1>1, <1>2, PutInDictKeeps DEF PSDef
<1>3. CASE PSStore(n)
  <2> DEFINE z == trytoload(n)
             d == IF z.dict = NilSlot THEN TopDict ELSE z.dict
  <2>1. PutInDict(d, n, TRUE)
    BY <1>3 DEF PSStore
  <2>2. d \in DictIds /\ (d = TopDict \/ Topmost(dicts, dictStack, n, d))
    <3> HIDE DEF z
    <3>1. CASE \A i \in 1 .. Len(dictStack) : ~Has(dicts, dictStack[i], n)
      BY <3>1, <1>1, LoadFinds DEF z
    <3>2. CASE \E i \in 1 .. Len(dictStack) : Has(dicts, dictStack[i], n)
      <4>1. PICK x \in DictIds : Topmost(dicts, dictStack, n, x)
        BY <3>2, <1>1, TopmostOf
      <4>2. z.dict = x
        BY <4>1, LoadFinds DEF z
      <4> QED BY <4>1, <4>2, <1>1
    <3> QED BY <3>1, <3>2
  <2> HIDE DEF d
  <2> QED BY <2>1, <2>2, PutInDictKeeps
<1> QED BY <1>2, <1>3

LEMMA DputKeeps ==
  ASSUME DInv, ~DputOnStack, NEW n \in NameIds, NEW d \in DictIds, PSDput(d, n)
  PROVE  DInv'
<1>1. PutInDict(d, n, FALSE) /\ (~OnStack(d) \/ SearchDict(d, n).known)
  BY DEF PSDput
<1>2. SearchDict(d, n).known <=> Has(dicts, d, n)
  BY SearchOK DEF DInv
<1> QED BY <1>1, <1>2, PutInDictKeeps

LEMMA DCopyKeeps ==
  ASSUME DInv, NEW f \in DictIds, NEW t \in DictIds, PSDCopy(f, t)
  PROVE  DInv'
<1>1. PICK n \in NameIds : PutInDict(t, n, FALSE) /\ ~OnStack(t)
  BY DEF PSDCopy
<1> QED BY <1>1, PutInDictKeeps

\* Begin and end advance the stamp: no entry is current any more, so that any
\* stack of dictionaries may follow.
LEMMA NextSlotKeeps ==
  ASSUME DInv, ~StampWraps, NextSlot, dictStack' \in Seq(DictIds), Len(dictStack') >= 2
  PROVE  DInv'
<1>1. /\ timestamp \in 1 .. MAXcardinal /\ MAXcardinal \in Nat
      /\ timestamp' = timestamp + 1 /\ timestamp + 1 < MAXcardinal
      /\ UNCHANGED <<dicts, cache, undo>>
  BY DictAssumption DEF DInv, NextSlot
<1>2. \A n \in NameIds : cache[n] \in CacheEntry /\ cache[n].ts <= timestamp
  BY DEF DInv, Coherent, StampOK
<1>3. \A n \in NameIds : StampOK(dicts, dictStack', timestamp', cache[n], n)
  <2>1. SUFFICES ASSUME NEW n \in NameIds
                 PROVE  StampOK(dicts, dictStack', timestamp', cache[n], n)
    OBVIOUS
  <2>2. cache[n].ts \in Nat /\ cache[n].ts <= timestamp
    BY <1>2 DEF CacheEntry
  <2>3. cache[n].ts <= timestamp' /\ cache[n].ts # timestamp'
    BY <2>2, <1>1
  <2> QED BY <2>3 DEF StampOK
<1>4. timestamp' \in 1 .. MAXcardinal
  BY <1>1
<1> QED BY <1>1, <1>3, <1>4 DEF DInv

LEMMA BeginKeeps ==
  ASSUME DInv, ~StampWraps, NEW d \in DictIds, Begin(d)
  PROVE  DInv'
<1>1. dictStack' \in Seq(DictIds) /\ Len(dictStack') >= 2 /\ NextSlot
  BY DEF DInv, Begin
<1> QED BY <1>1, NextSlotKeeps

LEMMA EndKeeps ==
  ASSUME DInv, ~StampWraps, PSEnd
  PROVE  DInv'
<1>1. /\ dictStack \in Seq(DictIds) /\ Len(dictStack) > 2 /\ NextSlot
      /\ dictStack' = SubSeq(dictStack, 1, Len(dictStack) - 1)
  BY DEF DInv, PSEnd
<1>2. dictStack' \in Seq(DictIds) /\ Len(dictStack') = Len(dictStack) - 1
  BY <1>1
<1> QED BY <1>1, <1>2, NextSlotKeeps

LEMMA SaveDictsKeeps ==
  ASSUME DInv, SaveDicts
  PROVE  DInv'
<1>1. /\ undo' = [dicts |-> dicts, cache |-> cache, names |-> {}]
      /\ UNCHANGED <<dicts, dictStack, cache, timestamp>>
  BY DEF SaveDicts
<1>2. Coherent(dicts, cache) /\ dicts \in [DictIds -> Dict] /\ cache \in [NameIds -> CacheEntry]
  BY DEF DInv, Coherent
<1>3. /\ undo' \in DictCopies /\ undo'.dicts = dicts /\ undo'.cache = cache /\ undo'.names = {}
  BY <1>1, <1>2 DEF DictCopies
<1>4. SaveOK(undo', dicts, cache)
  BY <1>2, <1>3 DEF SaveOK, Extends
<1> QED BY <1>1, <1>4 DEF DInv

LEMMA ReadOnlyKeeps ==
  ASSUME DInv, NEW d \in DictIds, ReadOnlyDict(d)
  PROVE  DInv'
<1> DEFINE ds == [dicts EXCEPT ![d].acc = @ \ {"w"}]
           c == [n \in NameIds |-> IF cache[n].dict = d
                                   THEN [cache[n] EXCEPT !.acc = @ \ {"w"}] ELSE cache[n]]
           log == {n \in NameIds : cache[n].dict = d}
<1>1. /\ dicts' = ds /\ cache' = c /\ undo' = Logged(log)
      /\ UNCHANGED <<dictStack, timestamp>>
  BY DEF ReadOnlyDict
<1>2. /\ Coherent(dicts, cache) /\ SaveOK(undo, dicts, cache)
      /\ dictStack \in Seq(DictIds) /\ cache \in [NameIds -> CacheEntry] /\ dicts \in [DictIds -> Dict]
      /\ \A n \in NameIds : EntryOK(dicts, cache[n], n)
      /\ \A n \in NameIds : StampOK(dicts, dictStack, timestamp, cache[n], n)
      /\ \A x \in DictIds : TableOK(dicts[x].slot)
  BY DEF DInv, Coherent
<1>3. /\ ds \in [DictIds -> Dict] /\ \A x \in DictIds : ds[x].slot = dicts[x].slot
      /\ ds[d].acc = dicts[d].acc \ {"w"} /\ \A x \in DictIds : x # d => ds[x] = dicts[x]
  <2> DEFINE a == dicts[d].acc \ {"w"}
             e == [dicts[d] EXCEPT !.acc = a]
  <2>1. a \in Access /\ dicts[d] \in Dict
    BY <1>2 DEF Dict, Access
  <2> HIDE DEF a
  <2>2. e \in Dict /\ e.slot = dicts[d].slot /\ e.acc = a
    BY <2>1 DEF Dict
  <2>3. ds = [dicts EXCEPT ![d] = e]
    BY <1>2 DEF a
  <2> HIDE DEF e, ds
  <2> QED BY <2>2, <2>3, <1>2 DEF a
<1>4. c \in [NameIds -> CacheEntry]
      /\ \A n \in NameIds : /\ c[n].dict = cache[n].dict /\ c[n].kv = cache[n].kv
                            /\ c[n].ts = cache[n].ts /\ c[n].vec = cache[n].vec
                            /\ c[n].acc = IF cache[n].dict = d THEN cache[n].acc \ {"w"}
                                          ELSE cache[n].acc
                            /\ n \notin log => c[n] = cache[n]
  <2>1. SUFFICES ASSUME NEW n \in NameIds
                 PROVE  /\ c[n] \in CacheEntry
                        /\ c[n].dict = cache[n].dict /\ c[n].kv = cache[n].kv
                        /\ c[n].ts = cache[n].ts /\ c[n].vec = cache[n].vec
                        /\ c[n].acc = IF cache[n].dict = d THEN cache[n].acc \ {"w"}
                                      ELSE cache[n].acc
                        /\ n \notin log => c[n] = cache[n]
    OBVIOUS
  <2>2. CASE cache[n].dict = d
    <3> DEFINE a == cache[n].acc \ {"w"}
    <3>1. a \in Access /\ cache[n] \in CacheEntry
      BY <1>2 DEF CacheEntry, Access
    <3> HIDE DEF a
    <3>2. c[n] = [cache[n] EXCEPT !.acc = a]
      BY <2>2 DEF a
    <3>3. n \in log
      BY <2>2
    <3> HIDE DEF c, log
    <3>4. /\ c[n] \in CacheEntry /\ c[n].dict = cache[n].dict /\ c[n].kv = cache[n].kv
          /\ c[n].ts = cache[n].ts /\ c[n].vec = cache[n].vec /\ c[n].acc = a
      BY <3>1, <3>2 DEF CacheEntry
    <3> QED BY <2>2, <3>3, <3>4 DEF a
  <2>3. CASE cache[n].dict # d
    BY <2>3, <1>2
  <2> QED BY <2>2, <2>3
<1> HIDE DEF ds, c, log
<1>5. \A x \in DictIds, n \in NameIds : Has(ds, x, n) <=> Has(dicts, x, n)
  BY <1>3 DEF Has
<1>6. ASSUME NEW n \in NameIds
      PROVE  EntryOK(ds, c[n], n) /\ StampOK(ds, dictStack, timestamp, c[n], n)
  <2>1. cache[n] \in CacheEntry /\ EntryOK(dicts, cache[n], n)
        /\ StampOK(dicts, dictStack, timestamp, cache[n], n)
    BY <1>2
  <2>2. cache[n].dict # NilSlot =>
           /\ cache[n].dict \in DictIds
           /\ dicts[cache[n].dict].slot[cache[n].kv] = n
           /\ cache[n].acc = dicts[cache[n].dict].acc
    BY <2>1 DEF EntryOK, CacheEntry
  <2>3. c[n].dict # NilSlot =>
           ds[c[n].dict].slot[c[n].kv] = n /\ c[n].acc = ds[c[n].dict].acc
    <3> DEFINE x == cache[n].dict
    <3>1. /\ c[n].dict = x /\ c[n].kv = cache[n].kv
          /\ c[n].acc = IF x = d THEN cache[n].acc \ {"w"} ELSE cache[n].acc
      BY <1>4
    <3>2. x # NilSlot => x \in DictIds /\ dicts[x].slot[cache[n].kv] = n
                         /\ cache[n].acc = dicts[x].acc
      BY <2>2
    <3> HIDE DEF x
    <3>3. x # NilSlot => ds[x].slot = dicts[x].slot
                         /\ ds[x].acc = IF x = d THEN dicts[x].acc \ {"w"} ELSE dicts[x].acc
      BY <3>2, <1>3
    <3> QED BY <3>1, <3>2, <3>3
  <2>4. EntryOK(ds, c[n], n)
    BY <2>1, <2>3, <1>4, <1>5 DEF EntryOK
  <2>5. \A x : Topmost(dicts, dictStack, n, x) => Topmost(ds, dictStack, n, x)
    <3>1. \A i \in 1 .. Len(dictStack) : Has(dicts, dictStack[i], n) <=> Has(ds, dictStack[i], n)
      BY <1>2, <1>5
    <3> QED BY <3>1, <1>2, TopmostKept
  <2> QED BY <2>1, <2>4, <2>5, <1>4 DEF StampOK
<1>7. Coherent(ds, c)
  BY <1>2, <1>3, <1>4, <1>6 DEF Coherent
<1>8. SaveOK(undo', ds, c)
  <2>1. CASE undo = NilSlot
    BY <2>1, <1>1 DEF SaveOK, Logged
  <2>2. CASE undo # NilSlot
    <3>1. /\ undo \in DictCopies /\ Coherent(undo.dicts, undo.cache) /\ Extends(undo.dicts, dicts)
          /\ \A m \in NameIds \ undo.names : cache[m] = undo.cache[m]
      BY <1>2, <2>2 DEF SaveOK
    <3>2. Extends(undo.dicts, ds)
      BY <3>1, <1>3 DEF Extends
    <3>3. undo' = [undo EXCEPT !.names = @ \cup log] /\ log \in SUBSET NameIds
      BY <2>2, <1>1 DEF Logged, log
    <3>4. /\ undo' \in DictCopies /\ undo'.dicts = undo.dicts /\ undo'.cache = undo.cache
          /\ undo'.names = undo.names \cup log
      BY <3>1, <3>3 DEF DictCopies
    <3> QED BY <3>1, <3>2, <3>4, <1>4 DEF SaveOK
  <2> QED BY <2>1, <2>2
<1> QED BY <1>1, <1>6, <1>7, <1>8 DEF DInv

\* Restore gives back the dictionaries of the save.  A current entry that was
\* not written since is still that of the topmost dictionary with the name:
\* its dictionary has the name there, and those above it had no more names
\* than now.
LEMMA RestoreDictsKeeps ==
  ASSUME DInv, RestoreDicts
  PROVE  DInv'
<1> DEFINE ds == undo.dicts
           old == undo.cache
           c == [n \in NameIds |-> IF n \in undo.names THEN [old[n] EXCEPT !.ts = 0]
                                   ELSE cache[n]]
<1>1. /\ undo # NilSlot /\ dicts' = ds /\ cache' = c /\ undo' = NilSlot
      /\ UNCHANGED <<dictStack, timestamp>>
  BY DEF RestoreDicts
<1>2. /\ undo \in DictCopies /\ Coherent(ds, old) /\ Extends(ds, dicts)
      /\ \A n \in NameIds \ undo.names : cache[n] = old[n]
      /\ dictStack \in Seq(DictIds) /\ timestamp \in Nat /\ timestamp >= 1
      /\ \A n \in NameIds : StampOK(dicts, dictStack, timestamp, cache[n], n)
  BY <1>1 DEF DInv, SaveOK
<1>3. /\ ds \in [DictIds -> Dict] /\ old \in [NameIds -> CacheEntry]
      /\ \A d \in DictIds : TableOK(ds[d].slot)
      /\ \A n \in NameIds : EntryOK(ds, old[n], n)
  BY <1>2 DEF Coherent
<1>4. c \in [NameIds -> CacheEntry]
      /\ \A n \in NameIds :
           /\ c[n].dict = old[n].dict /\ c[n].kv = old[n].kv
           /\ c[n].vec = old[n].vec /\ c[n].acc = old[n].acc
           /\ c[n].ts = IF n \in undo.names THEN 0 ELSE cache[n].ts
  <2>1. SUFFICES ASSUME NEW n \in NameIds
                 PROVE  /\ c[n] \in CacheEntry
                        /\ c[n].dict = old[n].dict /\ c[n].kv = old[n].kv
                        /\ c[n].vec = old[n].vec /\ c[n].acc = old[n].acc
                        /\ c[n].ts = IF n \in undo.names THEN 0 ELSE cache[n].ts
    OBVIOUS
  <2>2. CASE n \in undo.names
    <3>1. c[n] = [old[n] EXCEPT !.ts = 0] /\ old[n] \in CacheEntry
      BY <2>2, <1>3
    <3> HIDE DEF c, old
    <3> QED BY <2>2, <3>1 DEF CacheEntry
  <2>3. CASE n \notin undo.names
    <3>1. c[n] = old[n] /\ c[n] = cache[n] /\ old[n] \in CacheEntry
      BY <2>3, <1>2, <1>3
    <3> HIDE DEF c, old
    <3> QED BY <2>3, <3>1
  <2> QED BY <2>2, <2>3
<1> HIDE DEF ds, c, old
<1>5. \A n \in NameIds : EntryOK(ds, c[n], n)
  BY <1>3, <1>4 DEF EntryOK
<1>6. ASSUME NEW n \in NameIds
      PROVE  StampOK(ds, dictStack, timestamp, c[n], n)
  <2>1. CASE n \in undo.names
    BY <2>1, <1>2, <1>4 DEF StampOK
  <2>2. CASE n \notin undo.names
    <3>1. cache[n] = old[n] /\ c[n].ts = cache[n].ts /\ c[n].dict = cache[n].dict
          /\ c[n].kv = cache[n].kv /\ c[n] \in CacheEntry
      BY <2>2, <1>2, <1>4
    <3>2. ASSUME c[n].ts = timestamp, c[n].kv # NilSlot
          PROVE  Topmost(ds, dictStack, n, c[n].dict)
      <4>1. Topmost(dicts, dictStack, n, c[n].dict)
        BY <3>1, <3>2, <1>2 DEF StampOK
      <4>2. PICK i \in 1 .. Len(dictStack) :
               /\ dictStack[i] = c[n].dict
               /\ \A j \in 1 .. Len(dictStack) : j > i => ~Has(dicts, dictStack[j], n)
        BY <4>1 DEF Topmost
      <4>3. Has(ds, c[n].dict, n)
        BY <3>1, <3>2, <1>5 DEF EntryOK, CacheEntry, Has, HasName
      <4>4. \A d \in DictIds : Has(ds, d, n) => Has(dicts, d, n)
        BY <1>2, SlotsFinite DEF Extends, Has, HasName
      <4>5. \A j \in 1 .. Len(dictStack) : dictStack[j] \in DictIds
        BY <1>2
      <4> QED BY <4>2, <4>3, <4>4, <4>5 DEF Topmost
    <3>3. c[n].ts <= timestamp
      BY <3>1, <1>2 DEF StampOK
    <3> QED BY <3>2, <3>3 DEF StampOK
  <2> QED BY <2>1, <2>2
<1>7. Coherent(ds, c)
  BY <1>3, <1>4, <1>5 DEF Coherent
<1>8. SaveOK(undo', ds, c)
  BY <1>1 DEF SaveOK
<1> QED BY <1>1, <1>6, <1>7, <1>8 DEF DInv

LEMMA DictInit ==
  ASSUME DCInit
  PROVE  DInv
<1>1. /\ dicts = [d \in DictIds |-> [slot |-> [i \in Slots |-> NilSlot], acc |-> {"r", "w"}]]
      /\ dictStack = <<SysDict, UserDict>> /\ cache = [n \in NameIds |-> NoEntry]
      /\ timestamp = 1 /\ undo = NilSlot
  BY DEF DCInit
<1>2. /\ dicts \in [DictIds -> Dict]
      /\ \A d \in DictIds : dicts[d].slot = [i \in Slots |-> NilSlot]
  BY <1>1 DEF Dict, Access
<1>3. TableOK([i \in Slots |-> NilSlot])
  <2> DEFINE T == [i \in Slots |-> NilSlot]
  <2>1. Filled(T) = {}
    BY DEF Filled
  <2>2. Cardinality(Filled(T)) = 0
    BY <2>1, FS_EmptySet
  <2>3. \A n \in NameIds, j \in Slots : T[Probe(n, j)] # n
    BY ProbesAll, SlotsFinite
  <2>4. Reachable(T)
    <3> HIDE DEF T
    <3> QED BY <2>3 DEF Reachable
  <2> QED BY <2>2, <2>4, SizeOK DEF TableOK
<1>4. \A d \in DictIds, n \in NameIds : ~Has(dicts, d, n)
  BY <1>2, SlotsFinite DEF Has, HasName
<1>5. NoEntry \in CacheEntry
  BY DEF NoEntry, CacheEntry, Access
<1>6. /\ cache \in [NameIds -> CacheEntry] /\ \A n \in NameIds : cache[n] = NoEntry
  BY <1>1, <1>5
<1>7. NoEntry.dict = NilSlot /\ NoEntry.kv = NilSlot /\ NoEntry.ts = 0
  BY DEF NoEntry
<1>8. \A n \in NameIds : EntryOK(dicts, cache[n], n)
  BY <1>4, <1>6, <1>7 DEF EntryOK
<1>9. \A n \in NameIds : StampOK(dicts, dictStack, timestamp, cache[n], n)
  BY <1>1, <1>6, <1>7 DEF StampOK
<1>10. Coherent(dicts, cache)
  BY <1>2, <1>3, <1>6, <1>8 DEF Coherent
<1>11. dictStack \in Seq(DictIds) /\ Len(dictStack) >= 2 /\ timestamp \in 1 .. MAXcardinal
  BY <1>1, DictAssumption
<1>12. SaveOK(undo, dicts, cache)
  BY <1>1 DEF SaveOK
<1> QED BY <1>9, <1>10, <1>11, <1>12 DEF DInv

LEMMA DictStep ==
  ASSUME DInv, ~StampWraps, ~DputOnStack, DCNext
  PROVE  DInv'
<1>1. CASE \E n \in NameIds : TryToLoad(n) \/ PSDef(n) \/ PSStore(n)
  BY <1>1, TryToLoadKeeps, DefKeeps
<1>2. CASE \E n \in NameIds, d \in DictIds : PSDput(d, n)
  BY <1>2, DputKeeps
<1>3. CASE \E d \in DictIds : Begin(d)
  BY <1>3, BeginKeeps
<1>4. CASE \E d \in Sealed : ReadOnlyDict(d)
  BY <1>4, ReadOnlyKeeps, DictAssumption
<1>5. CASE \E f, t \in DictIds : PSDCopy(f, t)
  BY <1>5, DCopyKeeps
<1>6. CASE PSEnd \/ SaveDicts \/ RestoreDicts
  BY <1>6, EndKeeps, SaveDictsKeeps, RestoreDictsKeeps
<1> QED BY <1>1, <1>2, <1>3, <1>4, <1>5, <1>6 DEF DCNext

\* What the invariant says of lookups.
LEMMA DictMeans ==
  ASSUME DInv
  PROVE  DCTypeOK /\ LookupCorrect /\ CachedPlaceKnown /\ CachedAccessCurrent
<1>1. /\ Coherent(dicts, cache) /\ dictStack \in Seq(DictIds)
      /\ cache \in [NameIds -> CacheEntry] /\ timestamp \in 1 .. MAXcardinal
      /\ \A n \in NameIds : cache[n] \in CacheEntry /\ EntryOK(dicts, cache[n], n)
      /\ \A d \in DictIds : TableOK(dicts[d].slot)
  BY DEF DInv, Coherent
<1>2. DCTypeOK
  <2>1. \A d \in DictIds : CurLength(d) <= MaxLength
    BY <1>1 DEF TableOK, CurLength, Filled
  <2> QED BY <1>1, <2>1 DEF DCTypeOK, CacheEntry
<1>3. CachedPlaceKnown /\ CachedAccessCurrent
  BY <1>1 DEF CachedPlaceKnown, CachedAccessCurrent, EntryOK
<1>4. LookupCorrect
  <2> SUFFICES ASSUME NEW n \in NameIds
               PROVE  LET holds == {i \in 1 .. Len(dictStack) : SearchDict(dictStack[i], n).known}
                          d == dictStack[CHOOSE i \in holds : \A j \in holds : j <= i]
                      IN  IF holds = {} THEN trytoload(n).dict = NilSlot
                          ELSE trytoload(n).dict = d /\ trytoload(n).kv = SearchDict(d, n).kv
    BY DEF LookupCorrect
  <2> DEFINE holds == {i \in 1 .. Len(dictStack) : SearchDict(dictStack[i], n).known}
             top == CHOOSE i \in holds : \A j \in holds : j <= i
             d == dictStack[top]
             z == trytoload(n)
  <2>1. \A i \in 1 .. Len(dictStack) : i \in holds <=> Has(dicts, dictStack[i], n)
    BY <1>1, SearchOK
  <2>2. holds \subseteq 1 .. Len(dictStack) /\ 1 .. Len(dictStack) \subseteq Nat
    OBVIOUS
  <2> HIDE DEF holds, z
  <2>3. CASE holds = {}
    <3>1. \A i \in 1 .. Len(dictStack) : ~Has(dicts, dictStack[i], n)
      BY <2>1, <2>3
    <3>2. z.dict = NilSlot
      BY <3>1, LoadFinds DEF z
    <3> QED BY <2>3, <3>2 DEF z, holds
  <2>4. CASE holds # {}
    <3>1. PICK x \in DictIds : Topmost(dicts, dictStack, n, x)
      BY <2>1, <2>2, <2>4, <1>1, TopmostOf
    <3>2. PICK i \in 1 .. Len(dictStack) :
             /\ dictStack[i] = x /\ Has(dicts, x, n)
             /\ \A j \in 1 .. Len(dictStack) : j > i => ~Has(dicts, dictStack[j], n)
      BY <3>1 DEF Topmost
    <3>3. i \in holds /\ \A j \in holds : j <= i
      BY <3>2, <2>1, <2>2
    <3>4. top \in holds /\ \A j \in holds : j <= top
      BY <3>3
    <3> HIDE DEF top
    <3>5. top = i
      BY <3>3, <3>4, <2>2
    <3>6. z.dict = x /\ z.kv \in Slots /\ dicts[x].slot[z.kv] = n
      BY <3>1, LoadFinds DEF z
    <3>7. z.kv = SearchDict(x, n).kv
      BY <3>6, <1>1, SearchOK
    <3>8. d = x
      BY <3>2, <3>5
    <3> QED BY <2>4, <3>6, <3>7, <3>8 DEF z, holds, top
  <2> QED BY <2>3, <2>4
<1> QED BY <1>2, <1>3, <1>4

DictInv == part = "dictionaries" => DInv

\* What the name cache finds is what a search of the dictionary stack finds,
\* and an entry that names a dictionary has its place and its access there,
\* as long as the time stamp does not wrap and no program puts new names into
\* dictionaries that are on the stack, for all dictionaries, names and sizes.
THEOREM DictionariesStayConsistent ==
  ASSUME ~StampWraps, ~DputOnStack
  PROVE  MCSpec => []DictionariesConsistent
<1>1. MCInit => DictInv
  BY DictInit DEF MCInit, DictInv
<1>2. DictInv /\ [MCNext]_mcVars => DictInv'
  <2> SUFFICES ASSUME DictInv, [MCNext]_mcVars, part' = "dictionaries" PROVE DInv'
    BY DEF DictInv
  <2>1. CASE part = "dictionaries" /\ DCNext
    BY <2>1, DictStep DEF DictInv
  <2>2. CASE part = "dictionaries" /\ UNCHANGED dictVars
    <3>1. DInv
      BY <2>2 DEF DictInv
    <3> QED BY <2>2, <3>1 DEF dictVars, DInv
  <2>3. part = "dictionaries" /\ (DCNext \/ UNCHANGED dictVars)
    BY DEF MCNext, mcVars
  <2> QED BY <2>1, <2>2, <2>3
<1>3. DictInv => DictionariesConsistent
  BY DictMeans DEF DictInv, DictionariesConsistent
<1> QED BY <1>1, <1>2, <1>3, PTL DEF MCSpec
=============================================================================
