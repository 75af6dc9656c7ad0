---------------------------- MODULE LibkernValues ----------------------------
(***************************************************************************)
(* The bounded string functions (libkern/libkern_string.c) on one buffer,  *)
(* and the bit operations (libkern_bitops.h, libkern_util.h) on one array  *)
(* of words and one register, with words of WordBits bits instead of 32.   *)
(***************************************************************************)
EXTENDS Integers, Sequences, SequencesExt, FiniteSetsExt

CONSTANTS Texts,       \* C strings, as sequences of characters other than NUL
          BufferSize,  \* bytes of the destination buffer
          WordBits,    \* bits in a word
          Words        \* words in the bit array

ASSUME ValueAssumption ==
    /\ BufferSize \in Nat \ {0}
    /\ WordBits \in {4, 8, 16, 32}
    /\ Words \in Nat \ {0}

VARIABLES buffer,    \* the destination, 1..BufferSize
          result,    \* what the last string function returned
          array,     \* words of the bit array, 0..Words - 1
          register   \* the word that is rotated
valueVars == <<buffer, result, array, register>>

NUL == 0
Bits == 0..WordBits - 1
Doublings == SelectSeq(<<1, 2, 4, 8, 16>>, LAMBDA r : r < WordBits)

-----------------------------------------------------------------------------
libkern_strnlen(s, maxlen) ==
    LET ends == {i \in 0..maxlen - 1 : i < Len(s) /\ s[i + 1] = NUL}
    IN  IF ends = {} THEN maxlen ELSE CHOOSE i \in ends : \A j \in ends : i <= j

\* Mutant: a string that just fits leaves no room for its terminator.
StrlcpyOffByOne(dst, offset, src, n) ==
    LET copy == IF Len(src) > n THEN n - 1 ELSE Len(src)
    IN  IF n = 0 THEN dst
        ELSE [i \in DOMAIN dst |-> CASE i \in offset + 1 .. offset + copy -> src[i - offset]
                                     [] i = offset + copy + 1 -> NUL
                                     [] OTHER -> dst[i]]

\* n bytes at offset; what was truncated shows in the length returned.
StrlcpyAt(dst, offset, src, n) ==
    LET copy == IF Len(src) >= n THEN n - 1 ELSE Len(src)
    IN  IF n = 0 THEN dst
        ELSE [i \in DOMAIN dst |-> CASE i \in offset + 1 .. offset + copy -> src[i - offset]
                                     [] i = offset + copy + 1 -> NUL
                                     [] OTHER -> dst[i]]

libkern_strlcpy(src, n) ==
    /\ buffer' = StrlcpyAt(buffer, 0, src, n)
    /\ result' = Len(src)
    /\ UNCHANGED <<array, register>>

libkern_strlcat(src, n) ==
    /\ LET dlen == libkern_strnlen(buffer, n) IN
         IF dlen = n THEN buffer' = buffer /\ result' = n + Len(src)
         ELSE buffer' = StrlcpyAt(buffer, dlen, src, n - dlen) /\ result' = dlen + Len(src)
    /\ UNCHANGED <<array, register>>

ToLower(c) == IF c \in 65..90 THEN c + 32 ELSE c
\* The first difference, or the two ends; the ends are compared unfolded.
libkern_strncasecmp(s1, s2, n) ==
    LET at(s, i) == IF i <= Len(s) THEN s[i] ELSE NUL
        stops == {i \in 1..n : at(s1, i) = NUL \/ at(s2, i) = NUL
                                \/ ToLower(at(s1, i)) # ToLower(at(s2, i))}
        stop == CHOOSE i \in stops : \A j \in stops : i <= j
    IN  IF stops = {} THEN 0
        ELSE IF NUL \in {at(s1, stop), at(s2, stop)} THEN at(s1, stop) - at(s2, stop)
        ELSE ToLower(at(s1, stop)) - ToLower(at(s2, stop))
libkern_strcasecmp(s1, s2) == libkern_strncasecmp(s1, s2, Len(s1) + Len(s2) + 1)

-----------------------------------------------------------------------------
\* A word is the set of its bits that are 1; | and & are union and intersection.
Shl(x, r) == {i + r : i \in x} \cap Bits
Shr(x, r) == {i - r : i \in x} \cap Bits
MinusOne(x) == IF x = {} THEN Bits ELSE (x \ {Min(x)}) \cup 0..Min(x) - 1
PlusOne(x) == IF x = Bits THEN {} ELSE LET low == Min(Bits \ x) IN (x \ 0..low - 1) \cup {low}
bit_rol(x, r) == Shl(x, r) \cup Shr(x, WordBits - r)
bit_ror(x, r) == Shr(x, r) \cup Shl(x, WordBits - r)
bit_is_pow2(x) == x # {} /\ x \cap MinusOne(x) = {}
Smear(x, r) == x \cup Shr(x, r)
bit_next_pow2(x) == IF x = {} THEN {0} ELSE PlusOne(FoldLeft(Smear, MinusOne(x), Doublings))
bit_test(words, n) == (n % WordBits) \in words[n \div WordBits]
bit_set(n) ==
    /\ array' = [array EXCEPT ![n \div WordBits] = @ \cup Shl({0}, n % WordBits)]
    /\ UNCHANGED <<buffer, result, register>>
bit_clear(n) ==
    /\ array' = [array EXCEPT ![n \div WordBits] = @ \ Shl({0}, n % WordBits)]
    /\ UNCHANGED <<buffer, result, register>>
RotateRegister(r) ==
    /\ register' \in {bit_rol(register, r), bit_ror(register, r), PlusOne(register)}
    /\ UNCHANGED <<buffer, result, array>>
\* (int)(x << shift) >> shift: the arithmetic shift repeats the sign bit.
sign_extend(x, bits) ==
    LET shift == WordBits - bits
        y == Shl(x, shift)
    IN  Shr(y, shift) \cup (IF WordBits - 1 \in y THEN bits..WordBits - 1 ELSE {})
\* swap32 for a word of four parts of WordBits \div 4 bits.
swap(x) ==
    LET q == WordBits \div 4
    IN  (Shr(x, 3 * q) \cap 0..q - 1) \cup (Shr(x, q) \cap q..2 * q - 1)
          \cup (Shl(x, q) \cap 2 * q..3 * q - 1) \cup Shl(x, 3 * q)

-----------------------------------------------------------------------------
LVInit ==
    /\ buffer = [i \in 1..BufferSize |-> 97]
    /\ result = 0
    /\ array = [i \in 0..Words - 1 |-> {}]
    /\ register = {0}

StringStep ==
    \E src \in Texts, n \in 0..BufferSize : libkern_strlcpy(src, n) \/ libkern_strlcat(src, n)
ArrayStep == \E n \in 0..WordBits * Words - 1 : bit_set(n) \/ bit_clear(n)
RegisterStep == \E r \in 1..WordBits - 1 : RotateRegister(r)

LVNext == StringStep \/ ArrayStep \/ RegisterStep

LVSpec == LVInit /\ [][LVNext]_valueVars

-----------------------------------------------------------------------------
\* strlcpy and strlcat with size n write at most n bytes, leave the first
\* n - 1 characters of the string they were to build, terminated, and return
\* a length of n or more exactly when that string did not fit.
StringIn(b, n) == SubSeq(b, 1, libkern_strnlen(b, n))
Builds(wanted, n) ==
    /\ n > 0 => StringIn(buffer', n) = SubSeq(wanted, 1, IF Len(wanted) < n THEN Len(wanted) ELSE n - 1)
    /\ \A i \in n + 1..BufferSize : buffer'[i] = buffer[i]
    /\ result' = Len(wanted)
BoundsStrings ==
    \A src \in Texts, n \in 0..BufferSize :
        /\ libkern_strlcpy(src, n) => Builds(src, n)
        /\ libkern_strlcat(src, n) =>
             IF libkern_strnlen(buffer, n) = n THEN buffer' = buffer /\ result' >= n
             ELSE Builds(StringIn(buffer, n) \o src, n)
StringsBounded == [][BoundsStrings]_<<buffer, result>>

\* Comparing without case is zero exactly for strings equal but for case,
\* is reversed when the strings change places, and with a limit compares the
\* prefixes of that length.
Lower(s) == [i \in DOMAIN s |-> ToLower(s[i])]
Prefix(s, n) == SubSeq(s, 1, IF Len(s) < n THEN Len(s) ELSE n)
ComparesWithoutCase ==
    LET s == StringIn(buffer, BufferSize) IN
    \A t \in Texts :
      /\ (libkern_strcasecmp(s, t) = 0) <=> (Lower(s) = Lower(t))
      /\ (libkern_strcasecmp(s, t) < 0) <=> (libkern_strcasecmp(t, s) > 0)
      /\ \A n \in 0..BufferSize :
           libkern_strncasecmp(s, t, n) = libkern_strcasecmp(Prefix(s, n), Prefix(t, n))

\* What is set in the array is set until it is cleared, whatever is done to
\* the other bits, in the same word or in another.
ChangesBits ==
    \A n \in 0..WordBits * Words - 1 : \A m \in 0..WordBits * Words - 1 :
        /\ bit_set(n) => (bit_test(array', m) <=> m = n \/ bit_test(array, m))
        /\ bit_clear(n) => (bit_test(array', m) <=> m # n /\ bit_test(array, m))
BitChanges == [][ChangesBits]_array

\* A rotation moves every bit and is undone by the rotation back, a swap is
\* undone by a swap, the next power of two is the least that is not smaller
\* (0 when it would need one more bit), and sign extension keeps the low bits
\* and repeats the sign.
WordsExact ==
    LET p == bit_next_pow2(register)
        top == Max(register \cup {0})
    IN  /\ \A r \in 1..WordBits - 1 :
             /\ bit_ror(bit_rol(register, r), r) = register
             /\ \A i \in Bits : (i + r) % WordBits \in bit_rol(register, r) <=> i \in register
        /\ swap(swap(register)) = register
        /\ p = CASE register \in {{}, {top}} -> {top}
                 [] top = WordBits - 1 /\ register # {top} -> {}
                 [] OTHER -> {top + 1}
        /\ p # {} => bit_is_pow2(p)
        /\ \A b \in 1..WordBits : \A i \in Bits :
             i \in sign_extend(register, b) <=> (IF i < b THEN i ELSE b - 1) \in register
=============================================================================
