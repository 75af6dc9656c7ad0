------------------------------ MODULE PsStrings ------------------------------
(***************************************************************************)
(* Strings, arrays and names (PostScript/Adobe/string.c, array.c, name.c   *)
(* and the access operators and comparison of type.c).  A string or array  *)
(* is an interval of virtual memory with rights; objects share storage,    *)
(* and the rights of each protect it.  Operators take their operands from  *)
(* what a program holds and put their results there: stack order is left   *)
(* out.  An operator that fails changes nothing.                           *)
(***************************************************************************)
EXTENDS Integers, SequencesExt

CONSTANTS Chars, Values,   \* what strings and arrays hold
          CharSpace, CellSpace,    \* the free part of virtual memory
          Held,            \* objects a program holds at once
          NSArray,         \* length of the name table, a prime
          MAXnameLength, MAXnumeralString,
          Word             \* bits of a CARDINAL: more than a numeral has characters

ASSUME StringsAssumption == Chars # {} /\ CharSpace \in Nat /\ CellSpace \in Nat

VARIABLES vm, used,        \* characters, and how many are allocated
          cells, cellsUsed,    \* array elements
          names,           \* the name table: string objects
          held,            \* objects
          numeral          \* the last number converted: value, radix, digits, sign, fit
stringVars == <<vm, used, cells, cellsUsed, names, held, numeral>>

All == {"r", "w", "x"}
Null == [type |-> "null"]
Interval(t, b, n) == [type |-> t, beg |-> b, len |-> n, access |-> All]
NameOb(h) == [type |-> "name", at |-> h]
Is(i, t) == held[i].type = t
Hold(i, o) == held' = [held EXCEPT ![i] = o]
Text(o) == SubSeq(vm, o.beg + 1, o.beg + o.len)
Elems(o) == SubSeq(cells, o.beg + 1, o.beg + o.len)

SHead(o, n) == IF n < o.len THEN [o EXCEPT !.len = n] ELSE o
STail(o, n) == [o EXCEPT !.beg = @ + (IF n > o.len THEN o.len ELSE n),
                         !.len = @ - (IF n > o.len THEN o.len ELSE n)]
Fits(o, beg, n) == beg <= o.len /\ n <= o.len - beg
SubString(o, beg, n) == SHead(STail(o, beg), n)

\* Mutant: always from the first element to the last.
MovedUpward(mem, s, d, n) ==
    LET f[k \in 0 .. n] ==
            IF k = 0 THEN mem
            ELSE CHOOSE m \in {[y EXCEPT ![d + k] = y[s + k]] : y \in {f[k - 1]}} : TRUE
    IN  f[n]

\* n elements from s to d in the order that keeps what overlaps.
Moved(mem, s, d, n) ==
    LET at(k) == IF d < s THEN k ELSE n + 1 - k
        f[k \in 0 .. n] ==
            IF k = 0 THEN mem
            ELSE CHOOSE m \in {[y EXCEPT ![d + at(k)] = y[s + at(k)]] : y \in {f[k - 1]}} : TRUE
    IN  f[n]
MayMove(s, d) == s.beg = d.beg \/ ("r" \in s.access /\ "w" \in d.access)
VMCopyString(s, d) == IF s.len = 0 \/ s.beg = d.beg THEN vm ELSE Moved(vm, s.beg, d.beg, s.len)
VMCopyArray(s, d) ==
    IF s.beg = d.beg THEN cells
    ELSE Moved(cells, s.beg, d.beg, IF s.len < d.len THEN s.len ELSE d.len)

StringsInit ==
    /\ vm = [k \in 1 .. CharSpace |-> CHOOSE c \in Chars : TRUE]
    /\ cells = [k \in 1 .. CellSpace |-> CHOOSE v \in Values : TRUE]
    /\ used = 0 /\ cellsUsed = 0
    /\ names = [h \in 0 .. NSArray - 1 |-> Null]
    /\ held = [i \in 1 .. Held |-> Null]
    /\ numeral = [n |-> 0, r |-> 10, s |-> <<0>>, neg |-> FALSE, fits |-> TRUE]

KeepCells == UNCHANGED <<cells, cellsUsed, numeral>>
KeepStrings == UNCHANGED <<vm, used, names, numeral>>

----------------------------------------------------------------------------
\* Strings.

PSString(i, n) ==
    /\ used + n <= CharSpace
    /\ used' = used + n /\ Hold(i, Interval("str", used, n))
    /\ UNCHANGED <<vm, names>> /\ KeepCells
PSSCopy(i, j) ==
    /\ Is(i, "str") /\ Is(j, "str") /\ held[i].len <= held[j].len
    /\ held[i].len = 0 \/ MayMove(held[i], held[j])
    /\ vm' = VMCopyString(held[i], held[j])
    /\ Hold(j, SHead(held[j], held[i].len))
    /\ UNCHANGED <<used, names>> /\ KeepCells
PSSubString(i, beg, n) ==
    /\ Is(i, "str") /\ Fits(held[i], beg, n)
    /\ \E j \in 1 .. Held : Hold(j, SubString(held[i], beg, n))
    /\ UNCHANGED <<vm, used, names>> /\ KeepCells
PutString(s, beg, into) ==
    /\ Fits(into, beg, s.len)
    /\ s.len = 0 \/ MayMove(s, STail(into, beg))
    /\ vm' = VMCopyString(s, STail(into, beg))
PSPutString(i, beg, j) ==
    /\ Is(i, "str") /\ Is(j, "str")
    /\ PutString(held[i], beg, held[j])
    /\ UNCHANGED <<used, names, held>> /\ KeepCells
\* Mutant: put does not ask for the right to write.
PutUnchecked(i, k, c) ==
    /\ Is(i, "str") /\ k < held[i].len
    /\ vm' = [vm EXCEPT ![held[i].beg + k + 1] = c]
    /\ UNCHANGED <<used, names, held>> /\ KeepCells
PSSPut(i, k, c) ==
    /\ Is(i, "str") /\ k < held[i].len /\ "w" \in held[i].access
    /\ vm' = [vm EXCEPT ![held[i].beg + k + 1] = c]
    /\ UNCHANGED <<used, names, held>> /\ KeepCells

\* Where StringSearch finds s in t: an empty t is not searched at all.
SMatch(s, t, j) == \A k \in 1 .. s.len : Text(s)[k] = Text(t)[j + k]
Matches(s, t) == {j \in 0 .. t.len - 1 : t.len - j >= s.len /\ SMatch(s, t, j)}
First(s, t) == CHOOSE j \in Matches(s, t) : \A k \in Matches(s, t) : j <= k
StringSearch(i, j, k) ==
    /\ Is(i, "str") /\ Is(j, "str")
    /\ "r" \in held[i].access /\ "r" \in held[j].access
    /\ Matches(held[i], held[j]) # {}
    /\ \E m \in {First(held[i], held[j])} : \E r \in {STail(held[j], m)} :
        \E o \in {STail(r, held[i].len), SHead(r, held[i].len), SHead(held[j], m)} : Hold(k, o)
    /\ UNCHANGED <<vm, used, names>> /\ KeepCells
Anchored(s, t) == t.len >= s.len /\ SMatch(s, t, 0)
StringAnchorSearch(i, j, k) ==
    /\ Is(i, "str") /\ Is(j, "str")
    /\ "r" \in held[i].access /\ "r" \in held[j].access
    /\ Anchored(held[i], held[j])
    /\ \E o \in {STail(held[j], held[i].len), SHead(held[j], held[i].len)} : Hold(k, o)
    /\ UNCHANGED <<vm, used, names>> /\ KeepCells

----------------------------------------------------------------------------
\* Names.

\* Some function of the characters; the table is probed in steps of NTincr.
HashStr(t) == (FoldFunction(LAMBDA c, n : c + n, 0, t) + Len(t)) % NSArray
NTincr == NSArray \div 2
Probe(t, k) == (HashStr(t) + k * NTincr) % NSArray
Stops(t) == {k \in 0 .. NSArray - 1 : \/ names[Probe(t, k)] = Null
                                      \/ Text(names[Probe(t, k)]) = t}
\* The slot of a text, or -1 when the table is full without it.
Slot(t) == IF Stops(t) = {} THEN -1
           ELSE Probe(t, CHOOSE k \in Stops(t) : \A j \in Stops(t) : k <= j)
Enter(t, h) ==     \* a copy of the characters, readable
    IF names[h] # Null THEN UNCHANGED <<vm, used, names>>
    ELSE /\ used + Len(t) <= CharSpace
         /\ vm' = [k \in DOMAIN vm |-> IF k \in used + 1 .. used + Len(t) THEN t[k - used] ELSE vm[k]]
         /\ used' = used + Len(t)
         /\ names' = [names EXCEPT ![h] = [Interval("str", used, Len(t)) EXCEPT !.access = {"r"}]]
StringToName(i) ==
    /\ Is(i, "str") /\ held[i].len <= MAXnameLength /\ "r" \in held[i].access
    /\ \E t \in {Text(held[i])} : \E h \in {Slot(t)} :
        /\ h >= 0 /\ Enter(t, h)
        /\ Hold(i, NameOb(h))
    /\ KeepCells
MakeName(i, t) ==    \* a name in the program text
    /\ \E h \in {Slot(t)} : h >= 0 /\ Enter(t, h) /\ Hold(i, NameOb(h))
    /\ KeepCells
\* cvs: the text of a name is copied into the string given; of an operator's
\* name, the string of the name table itself is the result.
CVSName(i, j) ==
    /\ Is(i, "name") /\ Is(j, "str")
    /\ PutString(names[held[i].at], 0, held[j])
    /\ Hold(j, SHead(held[j], names[held[i].at].len))
    /\ UNCHANGED <<used, names>> /\ KeepCells
CVSOperator(h, j) ==
    /\ names[h] # Null /\ Is(j, "str") /\ Hold(j, names[h])
    /\ UNCHANGED <<vm, used, names>> /\ KeepCells

----------------------------------------------------------------------------
\* Arrays.

PSArray(i, n) ==
    /\ cellsUsed + n <= CellSpace
    /\ cellsUsed' = cellsUsed + n /\ Hold(i, Interval("array", cellsUsed, n))
    /\ cells' = [k \in DOMAIN cells |->
                    IF k \in cellsUsed + 1 .. cellsUsed + n THEN CHOOSE v \in Values : TRUE
                    ELSE cells[k]]
    /\ KeepStrings
PSAPut(i, k, v) ==
    /\ Is(i, "array") /\ k < held[i].len /\ "w" \in held[i].access
    /\ cells' = [cells EXCEPT ![held[i].beg + k + 1] = v]
    /\ UNCHANGED <<cellsUsed, held>> /\ KeepStrings
PSACopy(i, j) ==
    /\ Is(i, "array") /\ Is(j, "array") /\ MayMove(held[i], held[j])
    /\ cells' = VMCopyArray(held[i], held[j])
    /\ Hold(j, SHead(held[j], held[i].len))
    /\ UNCHANGED cellsUsed /\ KeepStrings
PSSubArray(i, beg, n) ==
    /\ Is(i, "array") /\ Fits(held[i], beg, n)
    /\ \E j \in 1 .. Held : Hold(j, SubString(held[i], beg, n))
    /\ UNCHANGED <<cells, cellsUsed>> /\ KeepStrings
PSPutArray(i, beg, j) ==
    /\ Is(i, "array") /\ Is(j, "array") /\ Fits(held[j], beg, held[i].len)
    /\ MayMove(held[i], STail(held[j], beg))
    /\ cells' = VMCopyArray(held[i], STail(held[j], beg))
    /\ UNCHANGED <<cellsUsed, held>> /\ KeepStrings
AStore(i, vals) ==
    /\ Is(i, "array") /\ held[i].len = Len(vals)
    /\ vals = << >> \/ "w" \in held[i].access
    /\ cells' = [k \in DOMAIN cells |-> IF k \in held[i].beg + 1 .. held[i].beg + held[i].len
                                        THEN vals[k - held[i].beg] ELSE cells[k]]
    /\ UNCHANGED <<cellsUsed, held>> /\ KeepStrings

----------------------------------------------------------------------------
\* Rights, copies of objects, numbers.

Rights(i, needed, given) ==
    /\ held[i].type \in {"str", "array"}
    /\ needed = {} \/ held[i].access \cap needed # {}
    /\ Hold(i, [held[i] EXCEPT !.access = given])
    /\ UNCHANGED <<vm, used, names, cells, cellsUsed, numeral>>
PSXctOnly(i) == Rights(i, {"r", "x"}, {"x"})
PSReadOnly(i) == Rights(i, {"r"}, {"r"})
PSNoAccess(i) == Rights(i, {}, {})
PSDup(i, j) ==
    /\ Hold(j, held[i])
    /\ UNCHANGED <<vm, used, names, cells, cellsUsed, numeral>>

Cardinal(n) == n % 2^Word
\* NumEncode: digits from the last, then reversed; with the NUL at their end
\* they fit the buffer or run over it, which nothing checks.
NumEncode(n, r) ==
    LET q[k \in Nat] == IF k = 0 THEN n ELSE q[k - 1] \div r
        last == CHOOSE k \in 0 .. Word : q[k] < r /\ \A j \in 0 .. k - 1 : q[j] >= r
    IN  [i \in 1 .. last + 1 |-> q[last + 1 - i] % r]
\* An integer, into a string that is long enough.  With radix 10 it is cvs that
\* converts it, by the library's sprintf; with another it has no sign.
CVRS(n, r) ==
    /\ numeral.fits
    /\ numeral' = IF r = 10
          THEN [n |-> n, r |-> r, s |-> NumEncode(IF n < 0 THEN -n ELSE n, r),
                neg |-> n < 0, fits |-> TRUE]
          ELSE LET s == NumEncode(Cardinal(n), r)  fits == Len(s) < MAXnumeralString
               IN  [n |-> n, r |-> r, s |-> IF fits THEN s ELSE << >>,
                    neg |-> FALSE, fits |-> fits]
    /\ UNCHANGED <<vm, used, names, cells, cellsUsed, held>>

----------------------------------------------------------------------------
\* Comparison: a set with the answer, {} where the types cannot be compared.
\* Numbers are small enough to be exact as reals.
Scalar(t, v) == [type |-> t, val |-> v]
NameToString(o) == IF o.type = "name" THEN names[o.at] ELSE o
StringMatch(a, b) == a.len = b.len /\ Text(a) = Text(b)
Compare(a, b) ==
    LET both(S) == a.type \in S /\ b.type \in S
    IN  CASE both({"null"}) \/ both({"mark"}) -> {TRUE}
          [] both({"int", "real"}) \/ both({"bool"}) \/ both({"cmd"}) \/ both({"dict"})
             \/ both({"save"}) \/ both({"font"}) -> {a.val = b.val}
          [] both({"name"}) -> {a.at = b.at}
          [] both({"name", "str"}) /\ ~both({"name"}) ->
                {StringMatch(NameToString(a), NameToString(b))}
          [] both({"array"}) -> {a.len = b.len /\ a.beg = b.beg}
          [] both({"stm"}) -> {a.len = b.len /\ a.val = b.val}
          [] OTHER -> {}
Equal(a, b) == IF a.type = "name" /\ b.type = "name" THEN a.at = b.at
               ELSE Compare(a, b) = {TRUE}

Lengths == 0 .. CharSpace
StringOp ==
    \E i \in 1 .. Held :
        \/ StringToName(i) \/ PSXctOnly(i) \/ PSReadOnly(i) \/ PSNoAccess(i)
        \/ \E n \in Lengths : PSString(i, n) \/ \E b \in Lengths : PSSubString(i, b, n)
        \/ \E c \in Chars : MakeName(i, <<c>>) \/ \E k \in Lengths : PSSPut(i, k, c)
        \/ \E h \in DOMAIN names : CVSOperator(h, i)
        \/ \E j \in 1 .. Held :
              \/ PSSCopy(i, j) \/ CVSName(i, j) \/ PSDup(i, j)
              \/ \E n \in Lengths : PSPutString(i, n, j)
              \/ StringSearch(i, j, i) \/ StringAnchorSearch(i, j, i)
ArrayOp ==
    \E i \in 1 .. Held :
        \/ PSXctOnly(i) \/ PSReadOnly(i) \/ PSNoAccess(i)
        \/ \E n \in 0 .. CellSpace : PSArray(i, n) \/ \E b \in 0 .. CellSpace : PSSubArray(i, b, n)
        \/ \E k \in 0 .. CellSpace, v \in Values : PSAPut(i, k, v)
        \/ \E n \in 0 .. 2 : \E vals \in [1 .. n -> Values] : AStore(i, vals)
        \/ \E j \in 1 .. Held :
              PSACopy(i, j) \/ PSDup(i, j) \/ \E n \in 0 .. CellSpace : PSPutArray(i, n, j)
NumberOp == \E n \in -(2^(Word - 1)) .. 2^(Word - 1) - 1, r \in {2, 3, 4, 10} : CVRS(n, r)

StringsSpec == StringsInit /\ [][StringOp \/ ArrayOp \/ NumberOp]_stringVars
----------------------------------------------------------------------------
HeldObjects == {held[i] : i \in 1 .. Held}
StringsTypeOK ==
    /\ used \in 0 .. CharSpace /\ cellsUsed \in 0 .. CellSpace
    /\ \A o \in HeldObjects : o.type = "str" => o.beg + o.len <= used
    /\ \A o \in HeldObjects : o.type = "array" => o.beg + o.len <= cellsUsed

\* Rights protect the storage: what no object held can write never changes,
\* whatever operators run.
Covered(k, t) == \E i \in 1 .. Held : /\ Is(i, t) /\ "w" \in held[i].access
                                      /\ k \in held[i].beg + 1 .. held[i].beg + held[i].len
WritesCovered ==
    /\ \A k \in 1 .. used : ~Covered(k, "str") => vm'[k] = vm[k]
    /\ \A k \in 1 .. cellsUsed : ~Covered(k, "array") => cells'[k] = cells[k]
RightsProtect == [][WritesCovered]_stringVars

\* Names stand for their texts: one slot for each text, and two strings are
\* equal exactly when cvn gives the same name.
NamesInterned ==
    \A g, h \in DOMAIN names : names[g] # Null /\ names[h] # Null /\ g # h =>
        Text(names[g]) # Text(names[h])
NamesFound == \A h \in DOMAIN names : names[h] # Null => Slot(Text(names[h])) = h

\* Equality is one whichever way it is asked, and goes from a name over a
\* string with its text to another: names are equal where their texts are.
StreamOb(n) == [type |-> "stm", len |-> n, val |-> 1]
Samples == HeldObjects \cup {NameOb(h) : h \in {g \in DOMAIN names : names[g] # Null}}
Others == {Null, StreamOb(0), StreamOb(1)}
          \cup {Scalar(t, 1) : t \in {"int", "real", "bool", "cmd", "mark"}}
EqualityConsistent ==
    LET samples == Samples
        texts == {a \in samples : a.type \in {"name", "str"}}
    IN  /\ \A a \in samples, b \in samples \cup Others : Compare(a, b) = Compare(b, a)
        /\ \A a, b \in samples : Equal(a, b) =>
              \A c \in samples : Equal(b, c) => Equal(a, c)
        /\ \A a, b \in texts : Equal(a, b) = (Text(NameToString(a)) = Text(NameToString(b)))

\* Overlapping parts of one string or array are copied as if read first.
Overlay(mem, s, d, n) == [k \in DOMAIN mem |-> IF k \in d + 1 .. d + n THEN mem[s + k - d] ELSE mem[k]]
CopiesKeepSource ==
    \A a, b \in HeldObjects :
        /\ a.type = "str" /\ b.type = "str" /\ a.len <= b.len =>
             VMCopyString(a, b) = Overlay(vm, a.beg, b.beg, a.len)
        /\ a.type = "array" /\ b.type = "array" /\ a.len <= b.len =>
             VMCopyArray(a, b) = Overlay(cells, a.beg, b.beg, a.len)

\* anchorsearch is search that matches at the beginning, and the parts search
\* returns are the string again.
SearchesAgree ==
    \A s, t \in HeldObjects : s.type = "str" /\ t.type = "str" /\ t.len > 0 =>
        /\ Anchored(s, t) = (Matches(s, t) # {} /\ First(s, t) = 0)
        /\ Matches(s, t) # {} =>
             Text(SHead(t, First(s, t))) \o Text(s)
               \o Text(STail(STail(t, First(s, t)), s.len)) = Text(t)

\* Digits stand for the number, signed where the radix is 10.  They overrun the
\* buffer they are built in exactly when the unsigned number is too long for it.
Value(s, r) == LET f[k \in 0 .. Len(s)] == IF k = 0 THEN 0 ELSE r * f[k - 1] + s[k] IN f[Len(s)]
NumeralExact ==
    LET v == Value(numeral.s, numeral.r)
    IN  IF numeral.r = 10 THEN numeral.n = (IF numeral.neg THEN -v ELSE v)
        ELSE /\ numeral.fits = (Cardinal(numeral.n) < numeral.r^(MAXnumeralString - 1))
             /\ numeral.fits => v = Cardinal(numeral.n)
=============================================================================
