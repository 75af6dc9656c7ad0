-------------------------------- MODULE PsVM --------------------------------
(***************************************************************************)
(* The PostScript virtual memory (PostScript/Adobe/vm.c).  Memory is one   *)
(* region with an allocation pointer.  Every cell carries the save level   *)
(* it was last written at; the first write at a deeper level logs the old  *)
(* cell in the newest save record, which itself lives in the memory it     *)
(* protects.  Restore undoes the records of all levels it leaves, then     *)
(* looks for objects on the stacks that outlived their memory.  VMFlush    *)
(* writes memory to a file, and a later session starts from that file,     *)
(* restored to level 0.                                                    *)
(***************************************************************************)
EXTENDS Integers, Sequences

CONSTANTS MAXlevel,   \* nesting of saves
          VMlast,     \* cells of memory
          OpMax       \* operand stack size

ASSUME VMAssumption == MAXlevel \in Nat /\ VMlast \in Nat /\ VMlast >= 3 /\ OpMax \in Nat

VARIABLES mem,      \* address -> cell
          nextFree, \* vmInfo->free: the first unused address
          level, srList, root,
          ops       \* the operand stack, top last

vmVars == <<mem, nextFree, level, srList, root, ops>>

Addresses == 1 .. VMlast
DictAt == 1    \* the body of a dictionary
CacheAt == 2   \* an entry of the name cache

\* An object as memory and stacks hold it; "none" is memory not in use or
\* holding a save record, which no program can name.
Ob(t, v, l) == [type |-> t, val |-> v, level |-> l]
UnusedCell == Ob("none", 0, 0)
Composite == {"array", "save"}

\* AllocWords: with memory full the interpreter asks its operator for more
\* or quits; the bound stands for that.
VMRoom(n) == nextFree + n - 1 <= VMlast
AllocArray(m) == [m EXCEPT ![nextFree] = Ob("null", 0, level)]

-----------------------------------------------------------------------------
(* Save records: the lists objs, ces and dbs hold old cells. *)

Log(o) == [at |-> o, old |-> mem[o]]

\* SaveObj, VMPutCE and VMPutDict log a cell the first time it is written
\* at this level.  The record takes a word of memory.
MustLog(o) == mem[o].level # level
LoggedIn(list, o) ==
    IF MustLog(o) THEN [srList EXCEPT ![Len(srList)][list] = @ \cup {Log(o)}] ELSE srList
LogWords(o) == IF MustLog(o) THEN 1 ELSE 0

Put(list, o, ob) ==
    /\ VMRoom(LogWords(o))
    /\ srList' = LoggedIn(list, o)
    /\ nextFree' = nextFree + LogWords(o)
    /\ mem' = [mem EXCEPT ![o] = [ob EXCEPT !.level = level]]
    /\ UNCHANGED <<level, root, ops>>

VMPutElem(a, ob) == Put("objs", a.val, ob)
VMPutDict(v) == Put("dbs", DictAt, Ob("dict", v, level))
VMPutCE(v) == Put("ces", CacheAt, Ob("cache", [kv |-> v, ts |-> 1], level))

\* Mutant: cells as old as the level restored are not put back.
RestoreOlderOnly(m, list, n) ==
    [o \in Addresses |->
        IF \E e \in list : e.at = o /\ e.old.level < n
        THEN (CHOOSE e \in list : e.at = o).old ELSE m[o]]

\* One list of one record undone: an old cell is put back only when it is
\* no younger than the level being restored.
RestoreObj(m, list, n) ==
    [o \in Addresses |->
        IF \E e \in list : e.at = o /\ e.old.level <= n
        THEN (CHOOSE e \in list : e.at = o).old ELSE m[o]]
RestoreDB(m, list, n) == RestoreObj(m, list, n)
RestoreCE(m, list, n) ==
    [o \in Addresses |->
        IF \E e \in list : e.at = o /\ e.old.level <= n
        THEN [(CHOOSE e \in list : e.at = o).old EXCEPT !.val.ts = 0] ELSE m[o]]

\* Memory and root after the records newer than level n are undone, newest
\* first; what lies above the oldest of them is free again.
Undone(m, sr, n) ==
    LET f[i \in 1 .. Len(sr) + 1] ==
            IF i > Len(sr) THEN m
            ELSE RestoreDB(RestoreCE(RestoreObj(f[i + 1], sr[i].objs, n),
                                     sr[i].ces, n), sr[i].dbs, n)
    IN  [o \in Addresses |-> IF o < sr[n + 1].nextFree THEN f[n + 1][o] ELSE UnusedCell]

-----------------------------------------------------------------------------
SaveVM ==
    /\ level < MAXlevel /\ VMRoom(1) /\ Len(ops) < OpMax
    /\ level' = level + 1
    /\ srList' = Append(srList, [nextFree |-> nextFree, level |-> level + 1, root |-> root,
                                 objs |-> {}, ces |-> {}, dbs |-> {}])
    /\ nextFree' = nextFree + 1
    /\ ops' = Append(ops, Ob("save", level, level))
    /\ UNCHANGED <<mem, root>>

\* Mutant: objects of the level just restored pass the stack check.
YoungerByTwo(s, n) == {i \in 1 .. Len(s) : s[i].level > n + 1 /\ s[i].type \in Composite}

\* CheckAllStacks on the operand stack: objects younger than n whose value
\* is a place in memory.
YoungerThan(s, n) == {i \in 1 .. Len(s) : s[i].level > n /\ s[i].type \in Composite}
CleanStack(s, n) ==
    IF YoungerThan(s, n) = {} THEN s
    ELSE SubSeq(s, 1, (CHOOSE i \in YoungerThan(s, n) : \A j \in YoungerThan(s, n) : i <= j) - 1)

\* The memory is restored before the stacks are looked at: a younger object
\* on a stack is an invalidrestore error, but an error after the fact.
PSRestore ==
    /\ ops # <<>> /\ ops[Len(ops)].type = "save"
    /\ LET n == ops[Len(ops)].val
       IN  /\ n < level
           /\ mem' = Undone(mem, srList, n)
           /\ nextFree' = srList[n + 1].nextFree
           /\ root' = srList[n + 1].root
           /\ srList' = SubSeq(srList, 1, n)
           /\ level' = n
           /\ ops' = CleanStack(SubSeq(ops, 1, Len(ops) - 1), n)

\* Operators that allocate, fetch and discard (array.c, stack.c, dict.c).
PSArray ==
    /\ VMRoom(1) /\ Len(ops) < OpMax
    /\ mem' = AllocArray(mem) /\ nextFree' = nextFree + 1
    /\ ops' = Append(ops, Ob("array", nextFree, level))
    /\ UNCHANGED <<level, srList, root>>
PSGet ==
    \E i \in 1 .. Len(ops) :
        /\ ops[i].type = "array" /\ Len(ops) < OpMax
        /\ ops' = Append(ops, mem[ops[i].val])
        /\ UNCHANGED <<mem, nextFree, level, srList, root>>
PSPut == \E i, j \in 1 .. Len(ops) : ops[i].type = "array" /\ VMPutElem(ops[i], ops[j])
PSPop == /\ ops # <<>> /\ ops' = SubSeq(ops, 1, Len(ops) - 1)
         /\ UNCHANGED <<mem, nextFree, level, srList, root>>
PSExch == /\ Len(ops) >= 2
          /\ ops' = SubSeq(ops, 1, Len(ops) - 2) \o <<ops[Len(ops)], ops[Len(ops) - 1]>>
          /\ UNCHANGED <<mem, nextFree, level, srList, root>>

\* What is written to a dictionary or the name cache: the level stands for it.
DictDef == VMPutDict(level) \/ VMPutCE(level)

\* Dict and NewCommand count in the root and VMPutRoot writes it back.
VMPutRoot ==
    /\ root' = 1 - root
    /\ UNCHANGED <<mem, nextFree, level, srList, ops>>

\* VMFlush writes memory and root to PS.VM, from quit or checkpointvm; the
\* process ends, and VMStart in a new one reads the file, takes the save
\* records from its root and restores to level 0.  What a process does after
\* its last checkpoint is lost, since VMStart looks at nothing but the file.
VMFlushVMStart ==
    /\ level' = 0 /\ ops' = <<>> /\ srList' = <<>>
    /\ IF srList = <<>>
       THEN UNCHANGED <<mem, nextFree, root>>
       ELSE /\ mem' = Undone(mem, srList, 0)
            /\ nextFree' = srList[1].nextFree
            /\ root' = srList[1].root

VMInit ==
    /\ mem = [o \in Addresses |-> CASE o = DictAt -> Ob("dict", 0, 0)
                                    [] o = CacheAt -> Ob("cache", [kv |-> 0, ts |-> 0], 0)
                                    [] OTHER -> UnusedCell]
    /\ nextFree = 3 /\ level = 0 /\ srList = <<>> /\ root = 0
    /\ ops = <<>>

VMNext == \/ SaveVM \/ PSRestore \/ PSArray \/ PSGet \/ PSPut \/ PSPop \/ PSExch \/ DictDef
          \/ VMPutRoot \/ VMFlushVMStart

VMSpec == VMInit /\ [][VMNext]_vmVars

-----------------------------------------------------------------------------
\* The levels of the records, and the places they describe, are in order.
VMTypeOK ==
    /\ level \in 0 .. MAXlevel /\ Len(srList) = level
    /\ nextFree \in 3 .. VMlast + 1
    /\ \A i \in 1 .. level : srList[i].level = i /\ srList[i].nextFree <= nextFree
    /\ \A o \in Addresses : mem[o].level <= level

\* No object that a program can reach, on the stack or in memory, denotes
\* memory that a restore has given back: the level test on the stacks and
\* the undo records together catch every way of carrying one across.
NoDanglingObjects ==
    LET live(ob) == ob.type = "array" => ob.val < nextFree /\ mem[ob.val].type # "none"
    IN  /\ \A i \in 1 .. Len(ops) : live(ops[i])
        /\ \A o \in 1 .. nextFree - 1 : live(mem[o])

-----------------------------------------------------------------------------
(* What a program can see of memory: types and values, not levels, record  *)
(* space or time stamps.  The root is address 0.                           *)

Content(ob) == IF ob.type = "cache" THEN <<"cache", ob.val.kv>> ELSE <<ob.type, ob.val>>
Visible(m, top, r) ==
    [a \in {0} \cup {o \in 1 .. top - 1 : m[o].type # "none"} |->
        IF a = 0 THEN <<"root", r>> ELSE Content(m[a])]
CopyAt(m, sr, n) == Visible(Undone(m, sr, n), sr[n + 1].nextFree, sr[n + 1].root)

Snapshots == INSTANCE PsSnapshots WITH
    now <- Visible(mem, nextFree, root),
    copies <- [i \in 1 .. level |-> CopyAt(mem, srList, i - 1)]

\* Save, restore and restart behave as if each save had copied the whole
\* memory: every write keeps all the copies the undo records stand for,
\* a restore across several levels yields the right one, and a session
\* that starts from a checkpoint finds the memory of level 0.
ImplementsSnapshots == Snapshots!SnapSpec
=============================================================================
