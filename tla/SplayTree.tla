----------------------------- MODULE SplayTree -----------------------------
(* The splay tree that holds the large names of a Mach 4 name space, from  *)
(* src/Kernel/mxwl/ipc/ipc_splay.c.  A tree is Null or a record with two   *)
(* subtrees.  Between operations the tree is kept dismantled as the last    *)
(* top-down search left it: the root, and the left and right trees with a  *)
(* hole at their inner edge (ltreep, rtreep).  Such a tree with a hole is   *)
(* the sequence of the nodes on its spine, the hole below the last one.     *)
EXTENDS Integers, Sequences, SequencesExt, FiniteSetsExt

CONSTANT Names

Null == << >>                           \* ITE_NULL
LARGEST == Max(Names) + 1
SMALLEST == 0
Node(n, l, r) == [name |-> n, l |-> l, r |-> r]

\* Storing t through ltreep (rtreep): the spine with its hole filled.
FillL(spine, t) == FoldRight(LAMBDA s, acc : Node(s.name, s.t, acc), spine, t)
FillR(spine, t) == FoldRight(LAMBDA s, acc : Node(s.name, acc, s.t), spine, t)

rotate_right(t) == Node(t.l.name, t.l.l, Node(t.name, t.l.r, t.r))
rotate_left(t)  == Node(t.r.name, Node(t.name, t.l, t.r.l), t.r.r)

\* link_left and link_right: the root joins a spine, the search goes on in
\* the child that hung on the inner edge.
LinkL(z) == [z EXCEPT !.lp = Append(@, [name |-> z.t.name, t |-> z.t.l]), !.t = z.t.r]
LinkR(z) == [z EXCEPT !.rp = Append(@, [name |-> z.t.name, t |-> z.t.r]), !.t = z.t.l]

RECURSIVE Descend(_, _)
Descend(n, z) ==
  LET t == z.t IN
  CASE n < t.name /\ t.l # Null ->
         LET zig  == n < t.l.name /\ t.l.l # Null
             zag  == n > t.l.name /\ t.l.r # Null
             next == LinkR([z EXCEPT !.t = IF zig THEN rotate_right(t) ELSE t])
         IN  Descend(n, IF zag THEN LinkL(next) ELSE next)
    [] n > t.name /\ t.r # Null ->
         LET zig  == n > t.r.name /\ t.r.r # Null
             zag  == n < t.r.name /\ t.r.l # Null
             next == LinkL([z EXCEPT !.t = IF zig THEN rotate_left(t) ELSE t])
         IN  Descend(n, IF zag THEN LinkR(next) ELSE next)
    [] OTHER -> z

ipc_splay_prim_lookup(n, t) == Descend(n, [t |-> t, lp |-> << >>, rp |-> << >>])

ipc_splay_prim_assemble(z) == Node(z.t.name, FillL(z.lp, z.t.l), FillR(z.rp, z.t.r))

\* ist_root, ist_ltreep, ist_rtreep and the name of the last search.
FreshEntry(t) == [t |-> t, lp |-> << >>, rp |-> << >>,
             name |-> IF t = Null THEN SMALLEST ELSE t.name]
ipc_splay_tree_init == FreshEntry(Null)

\* The search that every operation starts with; a repeated search for the
\* same name finds the tree already dismantled around it.
Searched(s, n) ==
  IF s.name = n THEN s
  ELSE LET z == ipc_splay_prim_lookup(n, ipc_splay_prim_assemble(s))
       IN  [t |-> z.t, lp |-> z.lp, rp |-> z.rp, name |-> n]

Assembled(s) == IF s.t = Null THEN Null ELSE ipc_splay_prim_assemble(s)

-----------------------------------------------------------------------------
VARIABLES splay, small, answer
STvars == <<splay, small, answer>>

STInit == splay = ipc_splay_tree_init /\ small = ipc_splay_tree_init /\ answer = << >>

ipc_splay_tree_lookup(n) ==
  /\ splay' = IF splay.t = Null THEN splay ELSE Searched(splay, n)
  /\ answer' = IF splay'.t # Null /\ splay'.t.name = n THEN <<n>> ELSE << >>
  /\ UNCHANGED small

RECURSIVE InOrder(_)
InOrder(t) == IF t = Null THEN << >> ELSE InOrder(t.l) \o <<t.name>> \o InOrder(t.r)
KeysOf(s) == ToSet(InOrder(Assembled(s)))

\* The entry must be new, and above what is split off (names in small are
\* smaller than those in splay).
ipc_splay_tree_insert(n) ==
  /\ n \notin KeysOf(splay) \cup KeysOf(small)
  /\ \A k \in KeysOf(small) : k < n
  /\ LET s == Searched(splay, n)
         below == n < s.t.name
     IN  splay' = FreshEntry(IF splay.t = Null THEN Node(n, Null, Null)
                        ELSE Node(n, FillL(s.lp, IF below THEN Null ELSE s.t),
                                     FillR(s.rp, IF below THEN s.t ELSE Null)))
  /\ UNCHANGED <<small, answer>>

\* A left tree gets its largest node splayed to its root, whose right child
\* is then free for the right tree.
Concat(l, r) ==
  IF l = Null THEN r
  ELSE IF r = Null THEN l
  ELSE LET top == ipc_splay_prim_assemble(ipc_splay_prim_lookup(LARGEST, l))
       IN  [top EXCEPT !.r = r]

ipc_splay_tree_delete(n) ==
  /\ n \in KeysOf(splay)
  /\ LET s == Searched(splay, n)
     IN  splay' = FreshEntry(Concat(FillL(s.lp, s.t.l), FillR(s.rp, s.t.r)))
  /\ UNCHANGED <<small, answer>>

ipc_splay_tree_split(n) ==
  /\ small.t = Null
  /\ LET s == Searched(splay, n) IN
     IF splay.t = Null THEN UNCHANGED <<splay, small>>
     ELSE IF s.t.name < n
     THEN /\ small' = FreshEntry([s.t EXCEPT !.l = FillL(s.lp, s.t.l)])
          /\ splay' = FreshEntry(FillR(s.rp, Null))
     ELSE /\ small' = FreshEntry(FillL(s.lp, s.t.l))
          /\ splay' = [s EXCEPT !.t.l = Null, !.lp = << >>]
  /\ UNCHANGED answer

\* The second assemble in the code stores the subtrees it has just read.
ipc_splay_tree_join ==
  /\ LET sroot == Assembled(small)
         root  == ipc_splay_prim_assemble(Searched(splay, SMALLEST))
     IN  splay' = IF sroot = Null THEN splay
                  ELSE IF splay.t = Null THEN FreshEntry(sroot)
                  ELSE FreshEntry([root EXCEPT !.l = sroot])
  /\ small' = ipc_splay_tree_init
  /\ UNCHANGED answer

ipc_splay_tree_bounds(n) ==
  /\ splay' = IF splay.t = Null THEN splay ELSE Searched(splay, n)
  /\ answer' = LET s == splay' IN
       IF s.t = Null THEN <<LARGEST, SMALLEST>>
       ELSE <<IF s.t.name <= n THEN s.t.name
              ELSE IF s.lp = << >> THEN LARGEST ELSE Last(s.lp).name,
              IF s.t.name >= n THEN s.t.name
              ELSE IF s.rp = << >> THEN SMALLEST ELSE Last(s.rp).name>>
  /\ UNCHANGED small

-----------------------------------------------------------------------------
(* The traversal reverses the child pointers on its way down, so the path  *)
(* to the root hangs off the current node; it tells from the names on which *)
(* side it came up.  A walk is the current node, the path (innermost        *)
(* parent first), the names visited and where to go on.                     *)

Walk(c, up, seen, at) == [c |-> c, up |-> up, seen |-> seen, at |-> at]

\* The current node is linked into its parent on the side its name tells.
Ascend(w, c, name) ==
  LET p == Head(w.up) IN
  IF name < p.name THEN Walk([p EXCEPT !.l = c], Tail(w.up), w.seen, "entry")
                   ELSE Walk([p EXCEPT !.r = c], Tail(w.up), w.seen, "back")

Deleted(w) ==
  LET c == w.c IN
  CASE c.l = Null /\ c.r = Null ->
         IF w.up = << >> THEN [w EXCEPT !.c = Null, !.at = "done"]
         ELSE Ascend(w, Null, c.name)
    [] c.l = Null /\ c.r # Null -> [w EXCEPT !.c = c.r, !.at = "left"]
    [] c.l # Null /\ c.r = Null -> [w EXCEPT !.c = c.l, !.at = "back"]
    [] OTHER -> [w EXCEPT !.c = Concat(c.l, c.r), !.at = "right"]

RECURSIVE Traverse(_, _)
Traverse(w, D) ==
  LET c == w.c IN
  CASE w.at = "left" ->
         Traverse(IF c.l # Null THEN [w EXCEPT !.c = c.l, !.up = <<c>> \o @]
                  ELSE [w EXCEPT !.at = "entry"], D)
    [] w.at = "entry" ->
         LET v == [w EXCEPT !.seen = Append(@, c.name), !.at = "right"]
         IN  Traverse(IF c.name \in D THEN Deleted(v) ELSE v, D)
    [] w.at = "right" ->
         Traverse(IF c.r # Null
                  THEN [w EXCEPT !.c = c.r, !.up = <<c>> \o @, !.at = "left"]
                  ELSE [w EXCEPT !.at = "back"], D)
    [] w.at = "back" ->
         Traverse(IF w.up = << >> THEN [w EXCEPT !.at = "done"]
                  ELSE Ascend(w, c, c.name), D)
    [] OTHER -> w

\* ipc_splay_traverse_start .. finish over the whole tree, with delete TRUE
\* for the names in D.
ipc_splay_traverse(D) ==
  /\ LET w == Traverse(Walk(Assembled(splay), << >>, << >>, "left"), D) IN
     IF splay.t = Null THEN answer' = << >> /\ UNCHANGED splay
     ELSE answer' = w.seen /\ splay' = FreshEntry(w.c)
  /\ UNCHANGED small

STNext ==
  \/ \E n \in Names : \/ ipc_splay_tree_lookup(n) \/ ipc_splay_tree_insert(n)
                      \/ ipc_splay_tree_delete(n) \/ ipc_splay_tree_split(n)
                      \/ ipc_splay_tree_bounds(n)
  \/ ipc_splay_tree_join
  \/ \E D \in SUBSET Names : ipc_splay_traverse(D)

STSpec == STInit /\ [][STNext]_STvars

-----------------------------------------------------------------------------
\* The tree and the part split off it are search trees, with every name in
\* one of them at most once, however the searches have dismantled them.
SearchOrder ==
  LET names == InOrder(Assembled(small)) \o InOrder(Assembled(splay))
  IN  \A i \in 1..Len(names) - 1 : names[i] < names[i + 1]

\* Every operation of the splay tree is the operation of the ordered set of
\* its names, answers included.
NS == INSTANCE NameSet WITH keys <- KeysOf(splay), lower <- KeysOf(small)
ImplementsNameSet == NS!NSSpec
=============================================================================
