------------------------------ MODULE NameSet ------------------------------
(* What the splay tree of ipc/ipc_splay.c promises: an ordered set of port *)
(* names that can be searched, split below a name, joined again, bounded   *)
(* around a name and thinned out by a traversal.                           *)
EXTENDS Integers, Sequences, FiniteSetsExt, SequencesExt

CONSTANT Names          \* the port names that may be entered

LARGEST == Max(Names) + 1      \* MACH_PORT_LARGEST, no name reaches it
SMALLEST == 0                  \* MACH_PORT_SMALLEST, MACH_PORT_NULL

VARIABLES keys,         \* names in the tree
          lower,        \* names split off into "small"
          answer        \* what the last query returned

NSvars == <<keys, lower, answer>>

NSInit == keys = {} /\ lower = {} /\ answer = << >>

\* The largest name at most n and the smallest at least n, or the codes that
\* ipc_splay_tree_bounds uses for "none".
BoundsOf(S, n) ==
  LET below == {k \in S : k <= n}
      above == {k \in S : k >= n}
  IN  <<IF below = {} THEN LARGEST ELSE Max(below),
        IF above = {} THEN SMALLEST ELSE Min(above)>>

Query(n) ==
  /\ answer' = IF n \in keys THEN <<n>> ELSE << >>
  /\ UNCHANGED <<keys, lower>>

Enter(n) ==
  /\ n \notin keys
  /\ lower = {} \/ n > Max(lower)
  /\ keys' = keys \cup {n}
  /\ UNCHANGED <<lower, answer>>

Leave(n) ==
  /\ n \in keys
  /\ keys' = keys \ {n}
  /\ UNCHANGED <<lower, answer>>

SplitOff(n) ==
  /\ lower = {}
  /\ lower' = {k \in keys : k < n}
  /\ keys' = {k \in keys : k >= n}
  /\ UNCHANGED answer

JoinBack ==
  /\ keys' = keys \cup lower
  /\ lower' = {}
  /\ UNCHANGED answer

Bounds(n) ==
  /\ answer' = BoundsOf(keys, n)
  /\ UNCHANGED <<keys, lower>>

Sweep(D) ==
  /\ keys' = keys \ D
  /\ answer' = SetToSortSeq(keys, <)
  /\ UNCHANGED lower

NSNext ==
  \/ \E n \in Names : Query(n) \/ Enter(n) \/ Leave(n) \/ SplitOff(n) \/ Bounds(n)
  \/ JoinBack
  \/ \E D \in SUBSET Names : Sweep(D)

NSSpec == NSInit /\ [][NSNext]_NSvars
=============================================================================
