----------------------------- MODULE PsFontCache -----------------------------
(***************************************************************************)
(* The cache of character bitmaps (PostScript/Adobe/fontcache.c) and the   *)
(* operators that fill and use it: show (fontshow.c), BuildChar and        *)
(* setcachedevice (fontbuild.c).  A bitmap is found by its character and   *)
(* by the number (MID) of the font and matrix it was built for; a character*)
(* without one is built by a procedure of the font, which runs any         *)
(* operator, and then moved from a scratch bitmap into the cache.          *)
(***************************************************************************)
EXTENDS Integers, Sequences, FiniteSets

CONSTANTS Names, Chars, Matrices,
          Strings,      \* sequences of characters that programs show
          Fids,         \* fonts that fit the VM: 1 .. Fids
          CacheSize, MTSize, BMSize,
          Widths,       \* words a bitmap takes, its header included
          Limits,       \* [mids, items, words] that trimcache keeps within
          ShowLevels,   \* nested and unfinished shows: a bound
          SettledPurges,  \* fonts are redefined, trimmed and restored only when
                          \* no graphics state and no show holds their MID
          Orderly,      \* procedures of characters call setcachedevice once and do
                        \* not fail after it
          KShow,        \* the procedure of kshow changes font or matrix
          ArgKept,      \* the argument FindBMHole is not given is the caller's
          NilItem

ASSUME FontCacheAssumption ==
    /\ {Fids, CacheSize, MTSize, BMSize, ShowLevels} \subseteq Nat \ {0}
    /\ Widths \subseteq Nat \ {0, 1} /\ {SettledPurges, Orderly, KShow, ArgKept} \subseteq BOOLEAN
    /\ Matrices \subseteq Nat /\ Strings \subseteq Seq(Chars)

VARIABLES fonts,     \* [dir: FontDirectory, free: the next font, mark: of save]
          gstate,    \* [font, mtx, mid]: gs
          MIDTable, byAge,            \* slots from the eldest to the youngest
          Cache, cv,                  \* items; per character its chain and cmp
          arena,                      \* [bm, BMFree, used]
          drawn,                      \* what used bitmaps and the scratch bitmap show
          shows,                      \* ShowInternal calls, the last innermost
          showLevel, currentMID, mostRecentCIO, mostRecentCMO,
          dead                        \* an assertion failed or NIL was followed

fontVars == <<fonts, gstate, MIDTable, byAge, Cache, cv, arena, drawn, shows, showLevel,
              currentMID, mostRecentCIO, mostRecentCMO, dead>>
cacheVars == <<MIDTable, byAge, Cache, cv, arena, drawn>>
recentVars == <<currentMID, mostRecentCIO, mostRecentCMO>>

Items == 1 .. CacheSize
MIDs == 1 .. MTSize
Words == 0 .. BMSize - 1
BMOverhead == 1
BMScratch == BMSize       \* behind the arena
NoFont == [fid |-> NilItem, mtx |-> NilItem]
Unused == [type |-> "free", link |-> NilItem, mid |-> NilItem, offset |-> NilItem]
OnlyItem(S) == CHOOSE x \in S : TRUE
Least(S) == CHOOSE x \in S : \A y \in S : x <= y

FontInit ==
    /\ fonts = [dir |-> [n \in Names |-> NilItem], free |-> 1, mark |-> NilItem]
    /\ gstate = [font |-> NilItem, mtx |-> CHOOSE m \in Matrices : TRUE, mid |-> NilItem]
    /\ MIDTable = [m \in MIDs |-> NoFont] /\ byAge = <<>>
    /\ Cache = [i \in Items |-> Unused]
    /\ cv = [c \in Chars |-> [cio |-> NilItem, cmp |-> NilItem]]
    /\ arena = [bm |-> [o \in Words |-> IF o = 0 THEN [tag |-> "free", len |-> BMSize] ELSE NilItem],
                BMFree |-> 0, used |-> 0]
    /\ drawn = [o \in Words \cup {BMScratch} |-> NilItem]
    /\ shows = <<>> /\ showLevel = 0
    /\ currentMID = NilItem /\ mostRecentCIO = NilItem /\ mostRecentCMO = NilItem
    /\ dead = FALSE
----------------------------------------------------------------------------
(***************************************************************************)
(* Storage for bitmaps.                                                    *)
(***************************************************************************)
Blocks(a, tag) == {o \in Words : a.bm[o] # NilItem /\ a.bm[o].tag = tag}

\* Mutant: a block taken whole is counted as the words asked for.
TakeCountsAsked(a, o, n) ==
    LET len == a.bm[o].len
        split == len > n + BMOverhead
    IN  [bm |-> [w \in Words |->
                    IF w = o THEN [tag |-> "used", len |-> IF split THEN n ELSE len]
                    ELSE IF split /\ w = o + n THEN [tag |-> "free", len |-> len - n]
                    ELSE a.bm[w]],
         BMFree |-> IF o # a.BMFree THEN a.BMFree ELSE IF split THEN o + n ELSE NilItem,
         used |-> a.used + n]

\* Takes n words of the free block at o, with the rest unless it is too small.
Take(a, o, n) ==
    LET len == a.bm[o].len
        split == len > n + BMOverhead
    IN  [bm |-> [w \in Words |->
                    IF w = o THEN [tag |-> "used", len |-> IF split THEN n ELSE len]
                    ELSE IF split /\ w = o + n THEN [tag |-> "free", len |-> len - n]
                    ELSE a.bm[w]],
         BMFree |-> IF o # a.BMFree THEN a.BMFree ELSE IF split THEN o + n ELSE NilItem,
         used |-> a.used + (IF split THEN n ELSE len)]

Holes(a, n) == {o \in Blocks(a, "free") : a.bm[o].len >= n}
AtFree(a, n) == a.BMFree # NilItem /\ a.bm[a.BMFree].len >= n
FindBMHole(a, n) == IF BMSize - a.used >= n /\ Holes(a, n) # {} THEN Least(Holes(a, n)) ELSE NilItem

\* AllocBM(n, scratch): the outcomes, [a, o]; o is NIL when nothing fits.  The
\* call of FindBMHole leaves out its second argument.
AllocBM(a, n, scratch) ==
    LET hole == FindBMHole(a, n)
        asScratch == [a |-> a, o |-> BMScratch]
        marked == [Take(a, hole, n) EXCEPT !.used = a.used]    \* taken, not counted
    IN  IF AtFree(a, n)
        THEN {IF scratch THEN asScratch ELSE [a |-> Take(a, a.BMFree, n), o |-> a.BMFree]}
        ELSE IF hole = NilItem THEN {[a |-> a, o |-> NilItem]}
        ELSE (IF scratch /\ ~ArgKept THEN {[a |-> marked, o |-> BMScratch]} ELSE {}) \cup
             (IF ~scratch /\ ~ArgKept THEN {asScratch} ELSE {}) \cup
             {IF scratch THEN asScratch ELSE [a |-> Take(a, hole, n), o |-> hole]}

CoalesceBM(a) ==
    LET f == Blocks(a, "free")
        first == {o \in f : ~\E p \in f : p + a.bm[p].len = o}
        stop(o) == Least({p \in Words \cup {BMSize} : p > o /\ (p = BMSize \/ p \in Blocks(a, "used"))})
    IN  [a EXCEPT !.bm = [o \in Words |->
                             IF o \in first THEN [tag |-> "free", len |-> stop(o) - o]
                             ELSE IF o \in f THEN NilItem ELSE a.bm[o]],
                  !.BMFree = IF first = {} THEN @ ELSE CHOOSE o \in first : \A p \in first : p <= o]
----------------------------------------------------------------------------
(***************************************************************************)
(* The chain of a character, and MIDs.                                     *)
(***************************************************************************)
Chain(ch, from) ==
    LET at[k \in 0 .. CacheSize] == IF k = 0 THEN from
                                    ELSE LET i == at[k - 1] IN IF i = NilItem THEN NilItem ELSE ch[i].link
        len == Cardinality({k \in 0 .. CacheSize - 1 : at[k] # NilItem})
    IN  [k \in 1 .. len |-> at[k - 1]]
InChain(c) == {Chain(Cache, cv[c].cio)[k] : k \in DOMAIN Chain(Cache, cv[c].cio)}
Matching(c, m) == {i \in InChain(c) : Cache[i].mid = m /\ Cache[i].type = "vmem"}

\* A hit moves the item to the front of its chain.
MoveToFront(c, i) ==
    IF i = cv[c].cio THEN UNCHANGED <<Cache, cv>>
    ELSE /\ Cache' = [j \in Items |->
                         IF j = i THEN [Cache[i] EXCEPT !.link = cv[c].cio]
                         ELSE IF Cache[j].link = i THEN [Cache[j] EXCEPT !.link = Cache[i].link]
                         ELSE Cache[j]]
         /\ cv' = [cv EXCEPT ![c] = [cio |-> i, cmp |-> Cache[i].offset]]

HashMID(f, m) == 1 + ((f + m) % MTSize)
\* The slots InsertMID tries, in order, and the one it stops at; NIL: MIDNULL.
Probe(f, m, k) == 1 + ((HashMID(f, m) + k - 1) % MTSize)
InsertMID(f, m) ==
    LET stops == {k \in 0 .. MTSize - 1 :
                    MIDTable[Probe(f, m, k)] \in {NoFont, [fid |-> f, mtx |-> m]}}
    IN  IF stops = {} THEN NilItem ELSE Probe(f, m, Least(stops))
Younger(m) == Append(SelectSeq(byAge, LAMBDA x : x # m), m)

\* What purging the MIDs in S leaves: their characters leave the chains, their
\* bitmaps and items become free.
PurgeMIDs(S) ==
    LET out == UNION {Matching(c, m) : c \in Chars, m \in S}
        freed == {Cache[i].offset : i \in out} \cap Words
        after[k \in 0 .. CacheSize, i \in Items \cup {NilItem}] ==
            IF i \notin out \/ k = 0 THEN i ELSE after[k - 1, Cache[i].link]
        skip(i) == after[CacheSize, i]
        front(c) == skip(cv[c].cio)
    IN  /\ Cache' = [i \in Items |-> IF i \in out THEN Unused
                                     ELSE [Cache[i] EXCEPT !.link = skip(@)]]
        /\ cv' = [c \in Chars |->
                     IF InChain(c) \cap out = {} THEN cv[c]
                     ELSE [cio |-> front(c),
                           cmp |-> IF front(c) = NilItem THEN NilItem ELSE Cache[front(c)].offset]]
        /\ MIDTable' = [m \in MIDs |-> IF m \in S THEN NoFont ELSE MIDTable[m]]
        /\ byAge' = SelectSeq(byAge, LAMBDA x : x \notin S)
        /\ arena' = CoalesceBM([arena EXCEPT
               !.bm = [o \in Words |-> IF o \in freed THEN [arena.bm[o] EXCEPT !.tag = "free"]
                                       ELSE arena.bm[o]],
               !.used = @ - Cardinality({<<o, w>> \in freed \X Words : w < arena.bm[o].len})])
        /\ drawn' = [o \in DOMAIN drawn |-> IF o \in freed THEN NilItem ELSE drawn[o]]
----------------------------------------------------------------------------
(***************************************************************************)
(* Fonts: definefont, setfont, save, restore, trimcache.                   *)
(***************************************************************************)
Held == {gstate.mid} \cup {shows[k].gs.mid : k \in DOMAIN shows} \cup {currentMID}
        \cup {shows[k].mid : k \in DOMAIN shows}
        \cup (IF fonts.mark = NilItem THEN {} ELSE {fonts.mark.gs.mid})
ShowRest == UNCHANGED <<shows, showLevel, recentVars, dead>>
MIDsOf(F) == {m \in MIDs : MIDTable[m].fid \in F}

\* A name that is known keeps its old dictionary: only the cache is purged.
PSDefineFont(n) ==
    /\ fonts.free <= Fids
    /\ IF fonts.dir[n] # NilItem
       THEN /\ SettledPurges => MIDsOf({fonts.dir[n]}) \cap Held = {}
            /\ PurgeMIDs(MIDsOf({fonts.dir[n]}))
            /\ fonts' = [fonts EXCEPT !.free = @ + 1]
       ELSE /\ fonts' = [fonts EXCEPT !.free = @ + 1, !.dir[n] = fonts.free]
            /\ UNCHANGED cacheVars
    /\ UNCHANGED gstate /\ ShowRest

\* setfont, setmatrix.
psSetFont(f) == /\ f < fonts.free /\ f # gstate.font
                /\ gstate' = [gstate EXCEPT !.font = f, !.mid = NilItem]
                /\ UNCHANGED <<fonts, cacheVars>> /\ ShowRest
psSetMatrix(m) == /\ gstate' = [gstate EXCEPT !.mtx = m, !.mid = NilItem]
                  /\ UNCHANGED <<fonts, cacheVars>> /\ ShowRest

Save == /\ shows = <<>> /\ fonts.mark = NilItem
        /\ fonts' = [fonts EXCEPT !.mark = [free |-> fonts.free, dir |-> fonts.dir, gs |-> gstate]]
        /\ UNCHANGED <<gstate, cacheVars>> /\ ShowRest

\* restore: PurgeOnRestore looks in FontDirectory for values that are fontIDs;
\* they are dictionaries, so it purges nothing.
PurgeOnRestore ==
    /\ shows = <<>> /\ fonts.mark # NilItem
    /\ SettledPurges => MIDsOf(fonts.mark.free .. Fids) = {}
    /\ fonts' = [fonts EXCEPT !.dir = fonts.mark.dir, !.free = fonts.mark.free, !.mark = NilItem]
    /\ gstate' = fonts.mark.gs
    /\ UNCHANGED cacheVars /\ ShowRest

\* trimcache purges the eldest MIDs until everything is within its limit: here
\* the first k of them.
Within(k) ==
    LET S == {byAge[j] : j \in 1 .. k}
        out == UNION {Matching(c, m) : c \in Chars, m \in S}
        words == {<<o, w>> \in Words \X Words :
                     o \in {Cache[i].offset : i \in out} /\ w < arena.bm[o].len}
    IN  /\ Len(byAge) - k <= Limits.mids
        /\ Cardinality({i \in Items : Cache[i].type # "free"} \ out) <= Limits.items
        /\ arena.used - Cardinality(words) <= Limits.words
PSTrimCache ==
    /\ UNCHANGED <<fonts, gstate, shows, showLevel, recentVars>>
    /\ LET enough == {k \in 0 .. Len(byAge) : Within(k)}
       IN  IF enough = {} THEN dead' = TRUE /\ UNCHANGED cacheVars    \* Assert(eldestAge)
           ELSE LET S == {byAge[j] : j \in 1 .. Least(enough)}
                IN  /\ SettledPurges => S \cap Held = {}
                    /\ PurgeMIDs(S)
                    /\ UNCHANGED dead
----------------------------------------------------------------------------
(***************************************************************************)
(* show.  Each call keeps what it saved (SaveShowState: not mostRecentCIO),*)
(* the characters left, and, while one is built, the gs below BuildChar's. *)
(***************************************************************************)
Top == shows[Len(shows)]
Building == shows # <<>> /\ Top.building
SetTop(f) == shows' = [shows EXCEPT ![Len(shows)] = f]
FontRest == UNCHANGED <<fonts, dead>>

\* ShowInternal: currentMID is gs's, made now if gs has none.
ShowInternal(s) ==
    /\ gstate.font # NilItem /\ showLevel < ShowLevels
    /\ shows = <<>> \/ Building
    /\ showLevel' = showLevel + 1
    /\ shows' = Append(shows, [left |-> s, building |-> FALSE, room |-> 0, gs |-> gstate,
                               mid |-> currentMID, cmo |-> mostRecentCMO])
    /\ LET m == InsertMID(gstate.font, gstate.mtx)
       IN  IF gstate.mid # NilItem \/ m = NilItem
           THEN /\ currentMID' = gstate.mid
                /\ UNCHANGED <<gstate, MIDTable, byAge>>
           ELSE /\ currentMID' = m /\ gstate' = [gstate EXCEPT !.mid = m]
                /\ MIDTable' = [MIDTable EXCEPT ![m] = [fid |-> gstate.font, mtx |-> gstate.mtx]]
                /\ byAge' = Younger(m)
    /\ UNCHANGED <<Cache, cv, arena, drawn, mostRecentCIO, mostRecentCMO>> /\ FontRest

Next1 == Top.left[1]
Waiting == shows # <<>> /\ ~Top.building /\ Top.left # <<>>
Found == IF currentMID = NilItem THEN {} ELSE Matching(Next1, currentMID)

\* SlowShow, FastShow: the character is in the cache.
ShowChar ==
    /\ Waiting /\ Found # {}
    /\ MoveToFront(Next1, OnlyItem(Found))
    /\ SetTop([Top EXCEPT !.left = Tail(@)])
    /\ UNCHANGED <<gstate, MIDTable, byAge, arena, drawn, showLevel, recentVars>> /\ FontRest

\* BuildChar saves the graphics state; Concat gives the new one no MID.
BuildChar ==
    /\ Waiting /\ Found = {}
    /\ mostRecentCMO' = NilItem
    /\ SetTop([Top EXCEPT !.building = TRUE, !.gs = gstate])
    /\ gstate' = [gstate EXCEPT !.mid = NilItem]
    /\ UNCHANGED <<cacheVars, showLevel, currentMID, mostRecentCIO>> /\ FontRest

\* setcachedevice: the procedure draws into the scratch bitmap if there is room
\* for n words and an item.  Calling it again forgets the item taken before.
SetCacheDevice(n) ==
    /\ Building
    /\ currentMID # NilItem /\ showLevel = 1
    /\ Orderly => mostRecentCMO = NilItem
    /\ \E i \in {j \in Items : Cache[j].type = "free" /\ \A k \in 1 .. j - 1 : Cache[k].type # "free"} :
        \E r \in AllocBM(arena, n, TRUE) :
            /\ arena' = r.a
            /\ mostRecentCMO' = r.o
            /\ IF r.o = NilItem THEN mostRecentCIO' = NilItem /\ UNCHANGED <<Cache, drawn>>
               ELSE /\ mostRecentCIO' = i
                    /\ Cache' = [Cache EXCEPT ![i].type = "alloc"]
                    /\ drawn' = [drawn EXCEPT ![BMScratch] = <<Top.gs.font, Top.gs.mtx, Next1>>]
    /\ SetTop([Top EXCEPT !.room = n])
    /\ UNCHANGED <<fonts, gstate, MIDTable, byAge, cv, showLevel, currentMID, dead>>

BuildEnds == /\ Building
             /\ gstate' = Top.gs
             /\ UNCHANGED <<fonts, MIDTable, byAge, showLevel, currentMID>>
Advance == SetTop([Top EXCEPT !.left = Tail(@), !.building = FALSE, !.room = 0])

\* The character was drawn on the page, or into the cache: MoveScratch copies
\* what is set in the scratch bitmap, n words, and the item heads the chain.
BuiltDirectly ==
    /\ BuildEnds /\ mostRecentCMO = NilItem
    /\ Advance
    /\ UNCHANGED <<Cache, cv, arena, drawn, mostRecentCIO, mostRecentCMO, dead>>
MoveScratch(n) ==
    /\ BuildEnds /\ mostRecentCMO # NilItem /\ n <= Top.room
    /\ \E r \in AllocBM(arena, n, FALSE) :
        /\ arena' = r.a /\ mostRecentCMO' = r.o
        /\ IF r.o = NilItem THEN dead' = TRUE /\ UNCHANGED <<Cache, cv, drawn>>
           ELSE /\ drawn' = [drawn EXCEPT ![BMScratch] = NilItem, ![r.o] = drawn[BMScratch]]
                /\ Cache' = [Cache EXCEPT ![mostRecentCIO] =
                       [type |-> "vmem", mid |-> currentMID, offset |-> r.o, link |-> cv[Next1].cio]]
                /\ cv' = [cv EXCEPT ![Next1] = [cio |-> mostRecentCIO, cmp |-> r.o]]
                /\ UNCHANGED dead
    /\ Advance
    /\ UNCHANGED <<mostRecentCIO>>

\* exit or stop in the procedure: the show ends, its item is released.
EndShow(s) == /\ shows' = SubSeq(shows, 1, Len(shows) - 1)
              /\ showLevel' = showLevel - 1
              /\ currentMID' = Top.mid /\ mostRecentCMO' = Top.cmo
BuildInterrupted ==
    /\ Building
    /\ gstate' = Top.gs
    /\ EndShow(Top)
    /\ IF mostRecentCMO = NilItem THEN UNCHANGED <<Cache, mostRecentCIO>>
       ELSE /\ Cache' = [Cache EXCEPT ![mostRecentCIO] = Unused]
            /\ mostRecentCIO' = NilItem
    /\ UNCHANGED <<fonts, MIDTable, byAge, cv, arena, drawn, dead>>
ShowEnds ==
    /\ shows # <<>> /\ ~Top.building /\ Top.left = <<>>
    /\ EndShow(Top)
    /\ UNCHANGED <<fonts, gstate, cacheVars, mostRecentCIO, dead>>

\* An error leaves every show by longjmp: showLevel is not counted down, the
\* graphics state stays, and an item taken for the scratch bitmap is lost.
ShowFails ==
    /\ Building
    /\ Orderly => \A i \in Items : Cache[i].type # "alloc"
    /\ shows' = <<>>
    /\ UNCHANGED <<fonts, gstate, cacheVars, showLevel, recentVars, dead>>

\* Programs run outside show, in the procedure of a character, and in kshow's.
Running == shows # <<>> => Top.building \/ (KShow /\ Len(Top.left) = 1)
FontStep == \/ \E n \in Names : PSDefineFont(n)
            \/ \E f \in 1 .. Fids : psSetFont(f)
            \/ \E m \in Matrices : psSetMatrix(m)
            \/ Save \/ PurgeOnRestore \/ PSTrimCache
ShowStep == \/ \E s \in Strings : ShowInternal(s)
            \/ ShowChar \/ BuildChar \/ BuiltDirectly \/ BuildInterrupted \/ ShowEnds \/ ShowFails
            \/ \E n \in Widths : SetCacheDevice(n) \/ MoveScratch(n)
FontNext == ~dead /\ ((Running /\ FontStep) \/ ShowStep)
FontSpec == FontInit /\ [][FontNext]_fontVars
----------------------------------------------------------------------------
FontTypeOK ==
    /\ \A m \in MIDs : MIDTable[m] = NoFont \/ MIDTable[m] \in [fid : 1 .. Fids, mtx : Matrices]
    /\ \A i \in Items : Cache[i].type \in {"free", "alloc", "vmem"}
    /\ showLevel \in 0 .. ShowLevels
    /\ gstate.mid \in MIDs \cup {NilItem}

\* The blocks tile the arena, BMused counts the used ones exactly, and BMFree
\* is one of the free ones: AllocBM relies on all three without looking.
StorageExact ==
    LET a == arena
        starts == Blocks(a, "free") \cup Blocks(a, "used")
    IN  /\ 0 \in starts
        /\ \A o \in starts : o + a.bm[o].len \in starts \cup {BMSize}
        /\ a.used = Cardinality({<<o, w>> \in Blocks(a, "used") \X Words : w < a.bm[o].len})
        /\ a.BMFree # NilItem => a.BMFree \in Blocks(a, "free")

\* Every item is free, in the chain of one character, or being built, and every
\* used block belongs to one chained item: neither is ever lost.
ItemsConserved ==
    /\ \A i \in Items : Cache[i].type = "vmem" <=> \E c \in Chars : i \in InChain(c)
    /\ \A c, d \in Chars : c # d => InChain(c) \cap InChain(d) = {}
    /\ \A i \in Items : Cache[i].type = "alloc" =>
           i = mostRecentCIO /\ \E k \in DOMAIN shows : shows[k].building
    /\ \A o \in Blocks(arena, "used") :
           Cardinality({i \in Items : Cache[i].type = "vmem" /\ Cache[i].offset = o}) = 1

\* A hit shows the right picture: what a chain holds under a MID was drawn for
\* that font, matrix and character, the MID of a graphics state is the number
\* of its own font and matrix, and cmp follows the front of the chain.
HitsShowTheCharacter ==
    /\ \A c \in Chars : \A i \in InChain(c) :
           LET m == Cache[i].mid IN
           /\ Cache[i].offset \in Blocks(arena, "used")
           /\ drawn[Cache[i].offset] = <<MIDTable[m].fid, MIDTable[m].mtx, c>>
    /\ gstate.mid # NilItem =>
           MIDTable[gstate.mid] = [fid |-> gstate.font, mtx |-> gstate.mtx]
    /\ \A c \in Chars : cv[c].cmp = IF cv[c].cio = NilItem THEN NilItem ELSE Cache[cv[c].cio].offset

\* AllocBM finds room for the bitmap that setcachedevice promised room for,
\* whatever ran in between, and trimcache can always reach its limits.
NeverDies == ~dead
=============================================================================
