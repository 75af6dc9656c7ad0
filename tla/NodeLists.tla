----------------------------- MODULE NodeLists -----------------------------
(* What the lists of libkern promise: each list is a sequence of nodes, no *)
(* node is on two lists, and every operation is one on sequences.          *)
EXTENDS Integers, Sequences, SequencesExt

CONSTANTS ListHeads, ListNodes

VARIABLES lists         \* list head -> the nodes on it, in order
NLvars == <<lists>>

NLInit == lists = [h \in ListHeads |-> << >>]
Free(n) == \A h \in ListHeads : ~Contains(lists[h], n)
Without(s, n) == SelectSeq(s, LAMBDA m : m # n)

Push(h, n) == Free(n) /\ lists' = [lists EXCEPT ![h] = <<n>> \o @]
Add(h, n) == Free(n) /\ lists' = [lists EXCEPT ![h] = Append(@, n)]
Take(n) == ~Free(n) /\ lists' = [h \in ListHeads |-> Without(lists[h], n)]
MoveTo(h, n) ==
    ~Free(n) /\ lists' = [g \in ListHeads |-> IF g = h THEN Append(Without(lists[g], n), n)
                                              ELSE Without(lists[g], n)]
Splice(src, dst, front) ==
    /\ src # dst
    /\ lists' = [lists EXCEPT ![src] = << >>,
                              ![dst] = IF front THEN lists[src] \o @ ELSE @ \o lists[src]]

NLNext ==
    \/ \E h \in ListHeads, n \in ListNodes : Push(h, n) \/ Add(h, n) \/ MoveTo(h, n)
    \/ \E n \in ListNodes : Take(n)
    \/ \E src, dst \in ListHeads, front \in BOOLEAN : Splice(src, dst, front)

NLSpec == NLInit /\ [][NLNext]_NLvars
=============================================================================
