------------------------------- MODULE PsDict -------------------------------
(***************************************************************************)
(* Dictionaries and the name cache (PostScript/Adobe/dict.c).  A name is   *)
(* looked up through the dictionary stack, but each name has a cache entry *)
(* with the place it was last found, good as long as its time stamp equals *)
(* the current one (begin and end advance it), and a bit vector of the     *)
(* dictionaries that may hold it.  Values are left out: what matters is    *)
(* the place a lookup lands on.                                            *)
(***************************************************************************)
EXTENDS Integers, Sequences, FiniteSets

CONSTANTS DictIds, SysDict, UserDict,
          NameIds,       \* naturals: a name hashes to its own number
          MaxLength,     \* capacity of every dictionary
          BitOf,         \* dictionary -> its bit; several may share one
          MAXcardinal,   \* the time stamp starts again at 1 when it gets here
          StampWraps,    \* do sessions last that long?
          DputOnStack,   \* do programs dput new names into stacked dictionaries?
          DictStackMax,
          Sealed,        \* dictionaries that programs make read-only
          NilSlot

MAXdictLength == 2000

ASSUME DictAssumption ==
    /\ SysDict \in DictIds /\ UserDict \in DictIds
    /\ NameIds \subseteq Nat /\ MaxLength \in 0 .. MAXdictLength
    /\ MAXcardinal \in Nat \ {0} /\ DictStackMax \in Nat /\ Sealed \subseteq DictIds
    /\ StampWraps \in BOOLEAN /\ DputOnStack \in BOOLEAN

VARIABLES dicts,     \* dictionary -> slots and access
          dictStack, \* bottom first
          cache,     \* name -> cache entry
          timestamp,
          undo       \* the save in force: memory then, and cache entries written since

dictVars == <<dicts, dictStack, cache, timestamp, undo>>

-----------------------------------------------------------------------------
(* Table sizes.  PrimeSize picks a prime above s, below 1.5 s or 1.2 s.    *)

Primes == <<17,19,23,29,31,37,41,43,47,59,67,79,89,97,109,113,127,139,149,
    157,167,179,199,211,229,257,277,307,331,353,373,401,433,463,491,523,569,
    659,769,877,997,1097,1193,1297,1399,1499,1597,1699,1789,1889,1999,2099,
    2179,2297,2399,2477>>
Stretch(s) == IF s <= 500 THEN s + s \div 2 + 1 ELSE s + s \div 5 + 1
PrimeSize(s) ==
    IF s <= 10 THEN <<3, 3, 3, 5, 7, 7, 11, 11, 13, 13, 13>>[s + 1]
    ELSE Primes[CHOOSE i \in 1 .. Len(Primes) - 1 :
                    Primes[i] <= Stretch(s) /\ Stretch(s) < Primes[i + 1]]

DictSize == PrimeSize(MaxLength)
Slots == 0 .. DictSize - 1
ASSUME NilAssumption == NilSlot \notin NameIds /\ NilSlot \notin DictIds /\ NilSlot \notin Slots
CurLength(d) == Cardinality({i \in Slots : dicts[d].slot[i] # NilSlot})

\* Linear probing from the hash to the name or the first empty slot.
SearchDict(d, n) ==
    LET at(i) == (n + i) % DictSize
        i == CHOOSE j \in Slots :
                 /\ dicts[d].slot[at(j)] \in {n, NilSlot}
                 /\ \A k \in 0 .. j - 1 : dicts[d].slot[at(k)] \notin {n, NilSlot}
    IN  [known |-> dicts[d].slot[at(i)] = n,
         kv |-> IF dicts[d].slot[at(i)] = n \/ CurLength(d) < MaxLength THEN at(i) ELSE NilSlot]

-----------------------------------------------------------------------------
(* Cache entries. *)

NoEntry == [dict |-> NilSlot, kv |-> NilSlot, ts |-> 0, vec |-> {}, acc |-> {"r", "w"}]

\* VMPutCE logs the entry when a save is in force.
PutCE(c, n, e) == [c EXCEPT ![n] = e]
Logged(ns) == IF undo = NilSlot THEN undo ELSE [undo EXCEPT !.names = @ \cup ns]

UpdateCE(n, d, kv) ==
    [dict |-> d, kv |-> kv, ts |-> timestamp,
     vec |-> cache[n].vec \cup {BitOf[d]}, acc |-> dicts[d].acc]

\* At the wrap the entries lose place and stamp, but not their dictionary.
ResetCache(c) == [n \in NameIds |-> [c[n] EXCEPT !.kv = NilSlot, !.ts = 0]]

\* The dictionary in which trytoload's scan stops, from the top of the stack.
MayHold(d, n) == cache[n].vec = {} \/ BitOf[d] \in cache[n].vec
Stops(d, n) == MayHold(d, n) /\ (cache[n].dict = d \/ SearchDict(d, n).known)
Hit(n) == cache[n].ts = timestamp /\ cache[n].kv # NilSlot

trytoload(n) ==
    LET at == {i \in 1 .. Len(dictStack) : Stops(dictStack[i], n)}
        d == dictStack[CHOOSE i \in at : \A j \in at : j <= i]
    IN  CASE Hit(n) -> [dict |-> cache[n].dict, kv |-> cache[n].kv, ce |-> cache[n]]
          [] ~Hit(n) /\ at = {} -> [dict |-> NilSlot, kv |-> NilSlot, ce |-> cache[n]]
          [] OTHER ->
               IF cache[n].dict = d   \* the name is here but ts is not current
               THEN [dict |-> d, kv |-> cache[n].kv,
                     ce |-> [cache[n] EXCEPT !.ts = timestamp]]
               ELSE [dict |-> d, kv |-> SearchDict(d, n).kv,
                     ce |-> UpdateCE(n, d, SearchDict(d, n).kv)]

-----------------------------------------------------------------------------
(* Operators. *)

TryToLoad(n) ==
    /\ cache' = PutCE(cache, n, trytoload(n).ce)
    /\ undo' = IF trytoload(n).ce = cache[n] THEN undo ELSE Logged({n})
    /\ UNCHANGED <<dicts, dictStack, timestamp>>

\* PutInDict: through the cache when it names this dictionary, else by search.
\* A put that does not come from the top of the stack leaves the stamp alone.
PutInDict(d, n, top) ==
    LET dl == SearchDict(d, n)
        entry == UpdateCE(n, d, dl.kv)
    IN  /\ "w" \in dicts[d].acc
        /\ IF cache[n].dict = d
           THEN /\ cache' = IF top THEN PutCE(cache, n, [cache[n] EXCEPT !.ts = timestamp])
                            ELSE cache
                /\ UNCHANGED dicts
           ELSE /\ dl.kv # NilSlot
                /\ dicts' = [dicts EXCEPT ![d].slot[dl.kv] = n]
                /\ cache' = PutCE(cache, n,
                       CASE top -> entry
                         [] ~top /\ dl.known -> cache[n]
                         [] ~top /\ ~dl.known /\ cache[n].vec = {} -> [entry EXCEPT !.ts = 0]
                         [] OTHER -> [cache[n] EXCEPT !.vec = @ \cup {BitOf[d]}])
        /\ undo' = IF cache' = cache THEN undo ELSE Logged({n})
        /\ UNCHANGED <<dictStack, timestamp>>

TopDict == dictStack[Len(dictStack)]
PSDef(n) == PutInDict(TopDict, n, TRUE)
PSStore(n) == PutInDict(IF trytoload(n).dict = NilSlot THEN TopDict ELSE trytoload(n).dict, n, TRUE)
OnStack(d) == \E i \in 1 .. Len(dictStack) : dictStack[i] = d
PSDput(d, n) ==
    /\ DputOnStack \/ ~OnStack(d) \/ SearchDict(d, n).known
    /\ PutInDict(d, n, FALSE)

\* Begin and end advance the stamp; at the top of its range the cache is reset.
NextSlot ==
    /\ StampWraps \/ timestamp + 1 < MAXcardinal
    /\ IF timestamp + 1 = MAXcardinal
       THEN timestamp' = 1 /\ cache' = ResetCache(cache) /\ undo' = Logged(NameIds)
       ELSE timestamp' = timestamp + 1 /\ UNCHANGED <<cache, undo>>
    /\ UNCHANGED dicts

Begin(d) ==
    /\ Len(dictStack) < DictStackMax
    /\ dictStack' = Append(dictStack, d)
    /\ NextSlot
\* Mutant: end leaves the time stamp as it is.
EndKeepsStamp ==
    /\ Len(dictStack) > 2
    /\ dictStack' = SubSeq(dictStack, 1, Len(dictStack) - 1)
    /\ UNCHANGED <<dicts, timestamp, cache, undo>>
PSEnd ==
    /\ Len(dictStack) > 2   \* sysdict and userdict stay
    /\ dictStack' = SubSeq(dictStack, 1, Len(dictStack) - 1)
    /\ NextSlot

ReadOnlyDict(d) ==
    /\ "r" \in dicts[d].acc
    /\ dicts' = [dicts EXCEPT ![d].acc = @ \ {"w"}]
    /\ cache' = [n \in NameIds |-> IF cache[n].dict = d
                                   THEN [cache[n] EXCEPT !.acc = @ \ {"w"}] ELSE cache[n]]
    /\ undo' = Logged({n \in NameIds : cache[n].dict = d})
    /\ UNCHANGED <<dictStack, timestamp>>

\* dcopy: every name of one dictionary is put into an empty one, by ForcePut.
PSDCopy(f, t) ==
    LET ns == {n \in NameIds : \E i \in Slots : dicts[f].slot[i] = n}
    IN  /\ f # t /\ "w" \in dicts[t].acc /\ CurLength(t) = 0 /\ ~OnStack(t)
        /\ Cardinality(ns) = 1   \* one name at a time, the rest are further puts
        /\ \E n \in ns : PutInDict(t, n, FALSE)

\* Save and restore as module PsSnapshots has them; a cache entry that was
\* written since comes back without its stamp (RestoreCE).
SaveDicts == /\ undo = NilSlot
             /\ undo' = [dicts |-> dicts, cache |-> cache, names |-> {}]
             /\ UNCHANGED <<dicts, dictStack, cache, timestamp>>
RestoreDicts ==
    /\ undo # NilSlot
    /\ dicts' = undo.dicts
    /\ cache' = [n \in NameIds |-> IF n \in undo.names THEN [undo.cache[n] EXCEPT !.ts = 0]
                                   ELSE cache[n]]
    /\ undo' = NilSlot
    /\ UNCHANGED <<dictStack, timestamp>>

DCInit ==
    /\ dicts = [d \in DictIds |-> [slot |-> [i \in Slots |-> NilSlot], acc |-> {"r", "w"}]]
    /\ dictStack = <<SysDict, UserDict>>
    /\ cache = [n \in NameIds |-> NoEntry]
    /\ timestamp = 1
    /\ undo = NilSlot

DCNext ==
    \/ \E n \in NameIds : TryToLoad(n) \/ PSDef(n) \/ PSStore(n)
    \/ \E n \in NameIds, d \in DictIds : PSDput(d, n)
    \/ \E d \in DictIds : Begin(d)
    \/ \E d \in Sealed : ReadOnlyDict(d)
    \/ \E f, t \in DictIds : PSDCopy(f, t)
    \/ PSEnd \/ SaveDicts \/ RestoreDicts

DCSpec == DCInit /\ [][DCNext]_dictVars

-----------------------------------------------------------------------------
\* Entries and tables hold what the operators can put there.
DCTypeOK ==
    /\ timestamp \in 1 .. MAXcardinal
    /\ \A n \in NameIds : /\ cache[n].dict \in DictIds \cup {NilSlot}
                          /\ cache[n].kv \in Slots \cup {NilSlot}
    /\ \A d \in DictIds : CurLength(d) <= MaxLength

\* A lookup through the cache lands where a plain search of the dictionary
\* stack from the top would: no begin, end, definition, put into another
\* dictionary, save or restore leaves a stale entry or a missing bit behind.
LookupCorrect ==
    \A n \in NameIds :
        LET holds == {i \in 1 .. Len(dictStack) : SearchDict(dictStack[i], n).known}
            d == dictStack[CHOOSE i \in holds : \A j \in holds : j <= i]
        IN  IF holds = {} THEN trytoload(n).dict = NilSlot
            ELSE trytoload(n).dict = d /\ trytoload(n).kv = SearchDict(d, n).kv

\* A cache entry that names a dictionary knows where in it the name is: the
\* assertion in trytoload, and what PutInDict, dget and Known rely on.
CachedPlaceKnown ==
    \A n \in NameIds : cache[n].dict # NilSlot => cache[n].kv # NilSlot

\* The access bits copied into cache entries are those of the dictionary, so
\* a read-only dictionary cannot be written through the cache.
CachedAccessCurrent ==
    \A n \in NameIds : cache[n].dict # NilSlot => cache[n].acc = dicts[cache[n].dict].acc

\* Every table is larger than the dictionary it is for, so that probing for
\* an absent name always ends at an empty slot, at every length allowed.
TablesHaveRoom == \A s \in 0 .. MAXdictLength : PrimeSize(s) > s
=============================================================================
