------------------------------- MODULE PsStack -------------------------------
(***************************************************************************)
(* The operand stack (PostScript/Adobe/stack.c) and the pops and pushes of *)
(* type.c: nodes linked into a stack and a free list.  A command that      *)
(* fails is undone by moving the nodes it popped back from the free list,  *)
(* which works only as long as nothing has been pushed over them (exec.c   *)
(* and RestoreStack).                                                      *)
(***************************************************************************)
EXTENDS Integers, Sequences, FiniteSets

CONSTANTS Size,   \* initOpstkSize
          Ints,   \* integers programs push
          NIL

ASSUME StackAssumption == Size \in Nat /\ Ints \subseteq Int

VARIABLES head, free, next,   \* next[NIL] = NIL ends every list
          ob,
          crashed    \* the process died

stackVars == <<head, free, next, ob, crashed>>
Nodes == 1 .. Size

Int1(v) == [type |-> "int", val |-> v]
Thing(t) == [type |-> t, val |-> 0]

\* A stack as operators build it up: psPush and psPop on the record.
St == [head |-> head, free |-> free, next |-> next, ob |-> ob, err |-> "none"]
psPush(s, v) ==
    IF s.err # "none" THEN s
    ELSE IF s.free = NIL THEN [s EXCEPT !.err = "overflow"]
    ELSE [s EXCEPT !.head = s.free, !.free = s.next[s.free],
                   !.next[s.free] = s.head, !.ob[s.free] = v]
psPop(s) ==
    IF s.err # "none" THEN s
    ELSE IF s.head = NIL THEN [s EXCEPT !.err = "error"]
    ELSE [s EXCEPT !.head = s.next[s.head], !.free = s.head, !.next[s.head] = s.free]
Fail(s) == IF s.err = "none" THEN [s EXCEPT !.err = "error"] ELSE s

\* The nodes of a list, in order.
List(nx, from) ==
    LET l[x \in DOMAIN nx] == IF x = NIL THEN << >> ELSE <<x>> \o l[nx[x]] IN l[from]
Count(nx, from) == Len(List(nx, from))

\* Popping an integer, a cardinal: another type is an error after the pop.
NodeValue(s) == IF s.head = NIL THEN 0 ELSE s.ob[s.head].val
PopInteger(s) == IF s.err = "none" /\ s.head # NIL /\ s.ob[s.head].type # "int"
                 THEN Fail(psPop(s)) ELSE psPop(s)
PopCardinal(s) == IF s.err = "none" /\ NodeValue(s) < 0 THEN Fail(psPop(s)) ELSE PopInteger(s)

IsNumber(v) == v.type \in {"int", "real"}
PopReal(s) == IF s.err = "none" /\ s.head # NIL /\ ~IsNumber(s.ob[s.head])
              THEN Fail(psPop(s)) ELSE psPop(s)

\* Two numbers are taken off at once; otherwise the second pop is what fails.
PopCoord(s) ==
    LET ny == s.head
        nx == s.next[ny]
    IN  IF /\ s.err = "none" /\ ny # NIL /\ nx # NIL
           /\ IsNumber(s.ob[nx]) /\ IsNumber(s.ob[ny])
        THEN [s EXCEPT !.head = s.next[nx], !.free = nx,
                       !.next[ny] = s.free, !.next[nx] = ny]
        ELSE PopReal(PopReal(s))

RestoreStack(s, mark) ==
    LET fl == List(s.next, s.free)
        at == {i \in 1 .. Len(fl) : fl[i] = mark}
        hd == (CHOOSE i \in at : TRUE) - 1    \* nodes in front of the mark
    IN  IF mark = NIL \/ at = {} THEN s      \* a NIL mark is never found
        ELSE [s EXCEPT !.free = mark,
                       !.head = IF hd = 0 THEN s.head ELSE fl[hd],
                       !.next = [x \in DOMAIN s.next |->
                           IF \E i \in 1 .. hd : fl[i] = x
                           THEN LET i == CHOOSE j \in 1 .. hd : fl[j] = x
                                IN  IF i = 1 THEN s.head ELSE fl[i - 1]
                           ELSE s.next[x]]]

ClearStack(s) ==
    LET up == List(s.next, s.head)
        d == Len(up)
    IN  IF d = 0 THEN s
        ELSE [s EXCEPT !.head = NIL, !.free = up[d],
                       !.next = [x \in DOMAIN s.next |->
                           IF x = up[1] THEN s.free
                           ELSE IF \E i \in 2 .. d : up[i] = x
                                THEN up[(CHOOSE i \in 2 .. d : up[i] = x) - 1]
                                ELSE s.next[x]]]

\* The end of a command begun with the stack as it is now: InnerExecute's
\* handler restores the operands and pushes the command; an overflow there
\* or in the command makes the stack an array on the emptied stack.  What
\* is left in free nodes is dropped, since no later command can see it.
Undone(s) == psPush([RestoreStack(s, free) EXCEPT !.err = "none"], Thing("other"))
AsArray(s) == psPush(ClearStack([s EXCEPT !.err = "none"]), Thing("other"))
Finish(result) ==
    \E s \in {result} :
    \E t \in {IF s.err = "error" THEN Undone(s) ELSE s} :
    \E r \in {IF t.err = "overflow" THEN AsArray(t) ELSE t} :
    \E l \in {List(r.next, r.head)} : \E used \in {{l[i] : i \in DOMAIN l}} :
        /\ head' = r.head /\ free' = r.free /\ next' = r.next
        /\ ob' = [x \in Nodes |-> IF x \in used THEN r.ob[x] ELSE Thing("null")]
        /\ UNCHANGED crashed

-----------------------------------------------------------------------------
(* The operators. *)

PushLiteral(v) == Finish(psPush(St, Int1(v)))
PSMark == Finish(psPush(St, Thing("mark")))
PSPop == Finish(psPop(St))

PSDupTop ==
    IF free # NIL /\ head # NIL
    THEN Finish([St EXCEPT !.free = next[free], !.ob[free] = ob[head],
                           !.next[free] = head, !.head = free])
    ELSE Finish(IF head = NIL THEN Fail(St) ELSE psPush(St, ob[head]))

PSExch ==
    IF head # NIL /\ next[head] # NIL
    THEN LET nb == next[head]
         IN  Finish([St EXCEPT !.head = nb, !.next[head] = next[nb], !.next[nb] = head])
    ELSE Finish(psPop(psPop(St)))

\* Mutant: the copies come out in reverse.
CopyReversed(s, k) ==
    LET up == List(s.next, s.head)
        fl == List(s.next, s.free)
    IN  IF s.err # "none" \/ k = 0 THEN s
        ELSE IF Len(up) < k THEN Fail(s)
        ELSE IF Len(fl) < k THEN [s EXCEPT !.err = "overflow"]
        ELSE [s EXCEPT !.head = fl[1],
                       !.free = s.next[fl[k]],
                       !.next[fl[k]] = s.head,
                       !.ob = [x \in Nodes |->
                           IF \E i \in 1 .. k : fl[i] = x
                           THEN s.ob[up[k + 1 - (CHOOSE i \in 1 .. k : fl[i] = x)]]
                           ELSE s.ob[x]]]

\* The top k copied, node by node from the free list.
Copy(s, k) ==
    LET up == List(s.next, s.head)
        fl == List(s.next, s.free)
    IN  IF s.err # "none" \/ k = 0 THEN s
        ELSE IF Len(up) < k THEN Fail(s)
        ELSE IF Len(fl) < k THEN [s EXCEPT !.err = "overflow"]
        ELSE [s EXCEPT !.head = fl[1],
                       !.free = s.next[fl[k]],
                       !.next[fl[k]] = s.head,
                       !.ob = [x \in Nodes |->
                           IF \E i \in 1 .. k : fl[i] = x
                           THEN s.ob[up[CHOOSE i \in 1 .. k : fl[i] = x]] ELSE s.ob[x]]]
PSCopy == Finish(Copy(PopCardinal(St), NodeValue(St)))

\* The top nn turned by kk in the direction of popping, by relinking.
Roll(s, nn, kk) ==
    LET up == List(s.next, s.head)
    IN  IF nn = 0 \/ kk % nn = 0 THEN s
        ELSE IF Len(up) < nn THEN Fail(s)
        ELSE [s EXCEPT !.head = s.next[up[kk]],
                       !.next = [s.next EXCEPT ![up[kk]] = s.next[up[nn]], ![up[nn]] = s.head]]
PSRoll ==
    LET s1 == PopInteger(St)
        s2 == PopInteger(s1)
    IN  IF s2.err # "none" THEN Finish(s2)
        ELSE LET kk == NodeValue(St)
                 nn == NodeValue(s1)
             IN  IF nn < 0 THEN Finish(Fail(s2))
                 ELSE Finish(Roll(s2, nn, IF nn = 0 THEN 0 ELSE kk % nn))

PSClear == Finish(ClearStack(St))
PSCount == Finish(psPush(St, Int1(Count(next, head))))

MarksUp == LET up == List(next, head) IN {i \in DOMAIN up : ob[up[i]].type = "mark"}
CountToMark == LET marks == MarksUp IN (CHOOSE i \in marks : \A j \in marks : i <= j) - 1
PSCountToMark == Finish(IF MarksUp = {} THEN Fail(St) ELSE psPush(St, Int1(CountToMark)))

PopN(s, k) == LET p[i \in 0 .. Size] == IF i = 0 THEN s ELSE psPop(p[i - 1]) IN p[k]
PSClearToMark ==
    Finish(IF MarksUp = {} THEN Fail(PopN(St, Count(next, head)))
           ELSE PopN(St, CountToMark + 1))

\* Past the bottom the loop stops with a null node, which is then read.
PSIndex ==
    LET s == PopCardinal(St)
        up == List(s.next, s.head)
    IN  IF s.err # "none" THEN Finish(s)
        ELSE IF NodeValue(St) >= Len(up)
             THEN crashed' = TRUE /\ UNCHANGED <<head, free, next, ob>>
             ELSE Finish(psPush(s, s.ob[up[NodeValue(St) + 1]]))

\* Conversions take the operand off before they look at its type.  The value
\* of a real and the text of a string are left out: an integer made of them is
\* any, or the conversion fails.
Readable(o) == o.type \in {"real", "other"}
\* StringToken puts the parts of a procedure on the stack, over the string that
\* was popped: a mark, then elements, one here.  The procedure takes them off
\* again and is no number; an error in the middle of it leaves them.
PartsOfProcedure == {<<>>} \cup {<<p>> : p \in {Int1(v) : v \in Ints} \cup {Thing("mark")}}
StringToken(parts) ==
    LET s == psPush(psPop(St), Thing("mark")) IN IF parts = <<>> THEN s ELSE psPush(s, parts[1])
NoNumber ==
    /\ head # NIL /\ ob[head].type = "other"
    /\ \E parts \in PartsOfProcedure :
        \/ Finish(Fail(StringToken(parts)))
        \/ Finish(Fail(PopN(StringToken(parts), Len(parts) + 1)))
PSCvI ==
    \/ NoNumber
    \/ Finish(IF head # NIL /\ ob[head].type = "int" THEN psPush(psPop(St), ob[head])
              ELSE Fail(psPop(St)))
    \/ /\ head # NIL /\ Readable(ob[head])
       /\ \E v \in Ints : Finish(psPush(psPop(St), Int1(v)))
PSCvR ==
    \/ NoNumber
    \/ Finish(psPush(PopReal(St), Thing("real")))
    \/ head # NIL /\ Readable(ob[head]) /\ Finish(psPush(psPop(St), Thing("real")))
PSType == Finish(psPush(psPop(St), Thing("other")))

\* An operator with a coordinate, such as moveto, and currentpoint.
PSMoveTo == Finish(PopCoord(St))
PushCoord == Finish(psPush(psPush(St, Thing("real")), Thing("real")))

NewStack == [x \in Nodes \cup {NIL} |-> IF x \in {1, NIL} THEN NIL ELSE x - 1]
SKInit ==
    /\ head = NIL /\ free = Size /\ next = NewStack
    /\ ob = [x \in Nodes |-> Thing("null")]
    /\ crashed = FALSE

SKNext ==
    /\ ~crashed
    /\ \/ \E v \in Ints : PushLiteral(v)
       \/ PSMark \/ PSPop \/ PSDupTop \/ PSExch \/ PSCopy \/ PSRoll \/ PSClear \/ PSCount
       \/ PSCountToMark \/ PSClearToMark \/ PSIndex
       \/ PSCvI \/ PSCvR \/ PSType \/ PSMoveTo \/ PushCoord

SKSpec == SKInit /\ [][SKNext]_stackVars

-----------------------------------------------------------------------------
\* Stack and free list between them hold every node exactly once, after
\* every operator, failed or not: no node is lost, shared or on both lists.
NodesConserved ==
    LET all == List(next, head) \o List(next, free)
    IN  Len(all) = Size /\ Nodes \subseteq {all[i] : i \in 1 .. Size}

Operands ==
    LET up[x \in DOMAIN next] == IF x = NIL THEN << >> ELSE Append(up[next[x]], ob[x]) IN up[head]
Sequence == INSTANCE OperandSequence WITH stack <- Operands, LossWhenFull <- TRUE
Strict == INSTANCE OperandSequence WITH stack <- Operands, LossWhenFull <- FALSE

\* The linked lists behave as a sequence with all-or-nothing operators: a
\* command that fails half way leaves its operands in order, except that
\* RestoreStack gives up when the stack was full, and that cvi and cvr leave
\* what they have scanned of a procedure in the place of its string.
ImplementsSequence == Sequence!OSSpec

\* The same without the first exception, as the comment on RestoreStack has it:
\* the stack is restored so that the marked node heads the free list.
FailureKeepsOperands == Strict!OSSpec
=============================================================================
