--------------------------- MODULE OperandSequence ---------------------------
(***************************************************************************)
(* What the stack operators promise: the operand stack is a sequence; an   *)
(* operator either does its work or leaves its operands as they were with  *)
(* itself on top of them; on overflow the stack is replaced by an array.   *)
(* Converting the text of a procedure to a number is the exception: what   *)
(* fails leaves a mark, or what followed it too, in place of the text.     *)
(***************************************************************************)
EXTENDS Integers, Sequences

CONSTANTS Size, Ints,
          LossWhenFull   \* may an operator that fails on a full stack lose operands?

VARIABLES stack, crashed   \* top last

Thing(t) == [type |-> t, val |-> 0]
Number(v) == [type |-> "int", val |-> v]
Without(s, k) == SubSeq(s, 1, Len(s) - k)
IsInt(s, i) == i > 0 /\ s[i].type = "int"
IsNumber(v) == v.type \in {"int", "real"}
Marks(s) == {i \in 1 .. Len(s) : s[i].type = "mark"}
LastMark(s) == CHOOSE i \in Marks(s) : \A j \in Marks(s) : j <= i

\* The top m of a sequence, rotated upwards by k.
Rotated(s, m, k) ==
    [i \in 1 .. Len(s) |-> IF i <= Len(s) - m THEN s[i]
                           ELSE s[Len(s) - m + 1 + ((i - (Len(s) - m) - 1 - k) % m)]]

\* The results an operator may leave on a stack of n, whatever they are on it.
Plain(s, n, t) ==
    \/ t = <<>> \/ t = Append(s, Thing("mark")) \/ \E i \in Ints \cup {n} : t = Append(s, Number(i))
    \/ n > 0 /\ (t = Without(s, 1) \/ t = Append(s, s[n]))
    \/ n > 1 /\ t = Without(s, 2) \o <<s[n], s[n - 1]>>
\* And with v on top.
CopyIndex(s, n, v) ==
    (IF v \in 0 .. n - 1 THEN {Without(s, 1) \o SubSeq(s, n - v, n - 1)} ELSE {})
    \cup (IF v \in 0 .. n - 2 THEN {Append(Without(s, 1), s[n - 1 - v])} ELSE {})
Rolls(s, n, v, m) ==
    (IF m \in 0 .. n - 2 THEN {Rotated(Without(s, 2), m, v)} ELSE {})
    \cup (IF m > 0 /\ v % m = 0 THEN {Without(s, 2)} ELSE {})  \* however few operands
\* Of the operand on top: another of its type, a real, an integer, a name.
\* A real or the text of a string may be read as an integer.
Readable(o) == o.type \in {"real", "other"}
Converted(s, n) ==
    {Append(Without(s, 1), v) : v \in {Thing("other")}
        \cup (IF IsNumber(s[n]) \/ Readable(s[n]) THEN {s[n], Thing("real")} ELSE {})
        \cup (IF Readable(s[n]) THEN {Number(i) : i \in Ints} ELSE {})}
ToMark(s, n) == {Without(s, n - LastMark(s) + 1), Append(s, Number(n - LastMark(s)))}

Result(s, t) ==
    LET n == Len(s)
    IN  \/ Plain(s, n, t) \/ t = s \o <<Thing("real"), Thing("real")>>
        \/ n > 0 /\ t \in Converted(s, n)
        \/ n > 1 /\ IsNumber(s[n]) /\ IsNumber(s[n - 1]) /\ t = Without(s, 2)
        \/ IsInt(s, n) /\ t \in CopyIndex(s, n, s[n].val)
        \/ IsInt(s, n) /\ IsInt(s, n - 1) /\ t \in Rolls(s, n, s[n].val, s[n - 1].val)
        \/ Marks(s) # {} /\ t \in ToMark(s, n)

\* The string on top holds no number but some of a procedure.
NotConverted(s) ==
    {Without(s, 1) \o <<Thing("mark")>> \o parts \o <<Thing("other")>> :
        parts \in {<<>>} \cup {<<p>> : p \in {Number(i) : i \in Ints} \cup {Thing("mark")}}}

Failed(s, t) ==
    \/ t \in {Append(s, Thing("other")), <<Thing("other")>>}
    \/ s # <<>> /\ s[Len(s)] = Thing("other") /\ t \in NotConverted(s)
    \/ /\ LossWhenFull /\ Len(s) = Size
       /\ t \in {Append(Without(s, k), Thing("other")) : k \in 1 .. Size}

OSInit == stack = <<>> /\ crashed = FALSE
OSNext ==
    /\ ~crashed
    /\ \/ /\ UNCHANGED crashed
          /\ \E s \in {stack}, t \in {stack'} : Failed(s, t) \/ (Len(t) <= Size /\ Result(s, t))
       \/ crashed' = TRUE /\ UNCHANGED stack
OSSpec == OSInit /\ [][OSNext]_<<stack, crashed>>
=============================================================================
