------------------------------- MODULE RbTree -------------------------------
(***************************************************************************)
(* The red-black tree of libkern (libkern/libkern_tree.c), link by link.   *)
(* A node is named by its key; Nil is the null pointer.  The code writes   *)
(* every case twice, mirrored: here a side is a parameter.                 *)
(***************************************************************************)
EXTENDS Integers, Sequences, FiniteSets, FiniteSetsExt

CONSTANTS RbKeys,      \* keys that may be in the tree
          DeepErase    \* nodes whose successor lies deeper than their right
                       \* child may be erased (see RbBalanced)

ASSUME RbAssumption == RbKeys \subseteq Nat \ {0} /\ IsFiniteSet(RbKeys) /\ DeepErase \in BOOLEAN

Nil == 0
Other(side) == IF side = "left" THEN "right" ELSE "left"

VARIABLES rb,       \* [root, left, right, parent, color]
          rbKeys    \* the nodes in the tree
rbVars == <<rb, rbKeys>>

EmptyTree == [root |-> Nil,
              left |-> [k \in RbKeys |-> Nil], right |-> [k \in RbKeys |-> Nil],
              parent |-> [k \in RbKeys |-> Nil], color |-> [k \in RbKeys |-> "red"]]

Red(t, n) == n # Nil /\ t.color[n] = "red"
SideOf(t, n) == IF n = t.left[t.parent[n]] THEN "left" ELSE "right"
SetParent(t, n, p) == IF n = Nil THEN t ELSE [t EXCEPT !.parent[n] = p]
SetColor(t, n, c) == IF n = Nil THEN t ELSE [t EXCEPT !.color[n] = c]
\* The link that leads to node is made to lead to new.
Relink(t, node, new) ==
    IF t.parent[node] = Nil THEN [t EXCEPT !.root = new]
    ELSE [t EXCEPT ![SideOf(t, node)][t.parent[node]] = new]

\* rb_rotate_left and rb_rotate_right: node goes down on that side.
Rotate(t, node, side) ==
    LET up == t[Other(side)][node]
        inner == t[side][up]
        t1 == SetParent([t EXCEPT ![Other(side)][node] = inner], inner, node)
        t2 == Relink([t1 EXCEPT !.parent[up] = t1.parent[node]], node, up)
    IN  [t2 EXCEPT ![side][up] = node, !.parent[node] = up]

RECURSIVE InsertFixup(_, _)
InsertFixup(t, node) ==
    IF node = t.root \/ ~Red(t, t.parent[node]) THEN SetColor(t, t.root, "black")
    ELSE LET parent == t.parent[node]
             grand == t.parent[parent]
             side == SideOf(t, parent)
             uncle == t[Other(side)][grand]
             bent == node = t[Other(side)][parent]
             t1 == IF bent THEN Rotate(t, parent, side) ELSE t
             low == IF bent THEN parent ELSE node
             t2 == SetColor(SetColor(t1, t1.parent[low], "black"), grand, "red")
         IN  IF Red(t, uncle)
             THEN InsertFixup([t EXCEPT !.color[parent] = "black", !.color[uncle] = "black",
                                        !.color[grand] = "red"], grand)
             ELSE InsertFixup(Rotate(t2, grand, Other(side)), low)

\* The leaf below which a new key is hung.
RECURSIVE Leaf(_, _, _)
Leaf(t, n, key) ==
    LET next == IF key < n THEN t.left[n] ELSE t.right[n]
    IN  IF next = Nil THEN n ELSE Leaf(t, next, key)

rb_insert(t, key) ==
    LET clean == [t EXCEPT !.left[key] = Nil, !.right[key] = Nil, !.color[key] = "red"]
        leaf == Leaf(t, t.root, key)
    IN  IF t.root = Nil THEN InsertFixup([clean EXCEPT !.root = key, !.parent[key] = Nil], key)
        ELSE InsertFixup([clean EXCEPT !.parent[key] = leaf,
                            ![IF key < leaf THEN "left" ELSE "right"][leaf] = key], key)

\* The fixup of rb_erase: child (perhaps Nil) below parent lacks a black node.
RECURSIVE EraseFixup(_, _, _)
EraseFixup(t, child, parent) ==
    IF child = t.root \/ Red(t, child) THEN SetColor(t, child, "black")
    ELSE LET side == IF child = t.left[parent] THEN "left" ELSE "right"
             far == Other(side)
             redSibling == Red(t, t[far][parent])
             t1 == IF redSibling
                   THEN Rotate([t EXCEPT !.color[t[far][parent]] = "black",
                                         !.color[parent] = "red"], parent, side)
                   ELSE t
             sibling == t1[far][parent]
             outerBlack == ~Red(t1, t1[far][sibling])
             t2 == IF outerBlack
                   THEN Rotate(SetColor(SetColor(t1, t1[side][sibling], "black"), sibling, "red"),
                               sibling, far)
                   ELSE t1
             near == t2[far][parent]
             t3 == [SetColor(t2, t2[far][near], "black") EXCEPT
                      !.color[near] = t2.color[parent], !.color[parent] = "black"]
             done == Rotate(t3, parent, side)
         IN  IF outerBlack /\ ~Red(t1, t1[side][sibling])
             THEN EraseFixup(SetColor(t1, sibling, "red"), parent, t1.parent[parent])
             ELSE SetColor(done, done.root, "black")

RECURSIVE Leftmost(_, _)
Leftmost(t, n) == IF t.left[n] = Nil THEN n ELSE Leftmost(t, t.left[n])

\* A node with two children is replaced by its successor, which keeps the
\* node's colour.  The fixup is given the right child that the successor has
\* by then, and the successor as its parent, also when the successor came
\* from further down the tree.
EraseInner(t, node) ==
    LET new == Leftmost(t, t.right[node])
        color == t.color[new]
        t1 == IF t.parent[new] = node THEN t
              ELSE LET u == SetParent([t EXCEPT !.left[t.parent[new]] = t.right[new]],
                                      t.right[new], t.parent[new])
                   IN  [u EXCEPT !.right[new] = u.right[node], !.parent[u.right[node]] = new]
        t2 == [t1 EXCEPT !.left[new] = t1.left[node], !.parent[t1.left[node]] = new,
                         !.color[new] = t1.color[node]]
        t3 == [Relink(t2, node, new) EXCEPT !.parent[new] = t2.parent[node]]
    IN  IF color = "black" THEN EraseFixup(t3, t3.right[new], new) ELSE t3

\* Mutant: a black node leaves without the fixup.
EraseOuterUnfixed(t, node) ==
    LET child == IF t.left[node] = Nil THEN t.right[node] ELSE t.left[node]
    IN  Relink(SetParent(t, child, t.parent[node]), node, child)

EraseOuter(t, node) ==
    LET child == IF t.left[node] = Nil THEN t.right[node] ELSE t.left[node]
        t1 == Relink(SetParent(t, child, t.parent[node]), node, child)
    IN  IF t.color[node] = "black" THEN EraseFixup(t1, child, t.parent[node]) ELSE t1

rb_erase(t, node) ==
    IF t.left[node] # Nil /\ t.right[node] # Nil THEN EraseInner(t, node) ELSE EraseOuter(t, node)

RECURSIVE Climb(_, _, _)
Climb(t, n, side) == IF t.parent[n] # Nil /\ n = t[side][t.parent[n]]
                     THEN Climb(t, t.parent[n], side) ELSE t.parent[n]
RECURSIVE Rightmost(_, _)
Rightmost(t, n) == IF t.right[n] = Nil THEN n ELSE Rightmost(t, t.right[n])
rb_first(t) == IF t.root = Nil THEN Nil ELSE Leftmost(t, t.root)
rb_last(t) == IF t.root = Nil THEN Nil ELSE Rightmost(t, t.root)
rb_next(t, n) == IF t.right[n] # Nil THEN Leftmost(t, t.right[n]) ELSE Climb(t, n, "right")
rb_prev(t, n) == IF t.left[n] # Nil THEN Rightmost(t, t.left[n]) ELSE Climb(t, n, "left")

-----------------------------------------------------------------------------
RBInit == rb = EmptyTree /\ rbKeys = {}

Insert(key) ==
    /\ key \notin rbKeys
    /\ \E t \in {rb_insert(rb, key)} : rb' = t
    /\ rbKeys' = rbKeys \cup {key}

ErasesOnlyNear(key) ==
    rb.left[key] # Nil /\ rb.right[key] # Nil => rb.left[rb.right[key]] = Nil

\* The links of an erased node are read by nothing; they are cleared here.
Erase(key) ==
    /\ key \in rbKeys
    /\ DeepErase \/ ErasesOnlyNear(key)
    /\ \E t \in {rb_erase(rb, key)} :
         rb' = [t EXCEPT !.left[key] = Nil, !.right[key] = Nil, !.parent[key] = Nil, !.color[key] = "red"]
    /\ rbKeys' = rbKeys \ {key}

RBNext == \E key \in RbKeys : Insert(key) \/ Erase(key)
RBSpec == RBInit /\ [][RBNext]_rbVars

-----------------------------------------------------------------------------
\* Walking with rb_next from rb_first, or with rb_prev from rb_last, visits
\* the keys that were inserted and not erased, all of them and in order.
Walks ==
    /\ rb_first(rb) = IF rbKeys = {} THEN Nil ELSE Min(rbKeys)
    /\ rb_last(rb) = IF rbKeys = {} THEN Nil ELSE Max(rbKeys)
    /\ \A k \in rbKeys :
         LET above == {j \in rbKeys : j > k}
             below == {j \in rbKeys : j < k}
         IN  /\ rb_next(rb, k) = IF above = {} THEN Nil ELSE Min(above)
             /\ rb_prev(rb, k) = IF below = {} THEN Nil ELSE Max(below)

\* No red node has a red child, and every path from a node down to a null
\* link passes the same number of black nodes, whatever was inserted and
\* erased before: this is what bounds the depth of the tree.
RECURSIVE BlackHeights(_, _)
BlackHeights(t, n) ==
    IF n = Nil THEN {0}
    ELSE {h + (IF Red(t, n) THEN 0 ELSE 1) : h \in BlackHeights(t, t.left[n]) \cup BlackHeights(t, t.right[n])}
RbBalanced ==
    /\ ~Red(rb, rb.root)
    /\ \A k \in rbKeys : Red(rb, k) => ~Red(rb, rb.left[k]) /\ ~Red(rb, rb.right[k])
    /\ Cardinality(BlackHeights(rb, rb.root)) = 1
=============================================================================
