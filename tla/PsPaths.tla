------------------------------- MODULE PsPaths -------------------------------
(***************************************************************************)
(* Paths of the PostScript interpreter (PostScript/Adobe/path.c) and the   *)
(* stack of graphics states that holds them (graphics.c).  A path is a     *)
(* list of elements taken from one free list.  gsave does not copy paths:  *)
(* the new state borrows its elements ("copy") from the state below and    *)
(* copies them when something is added.  charpath collects what the        *)
(* procedure of a character fills or strokes in a path of its own.         *)
(* Coordinates are one axis of a small grid, both axes being handled       *)
(* alike; the two corners of an edge across that axis are one element.     *)
(* The flag `secret`, which only pathforall reads, and gs->cp are left out.*)
(* Storage may run out in the middle of any operator (GetPathStorage): the *)
(* error leaves what the operator has done so far, half a curve too.  Who  *)
(* walks a path takes the two elements after a curve element for the rest  *)
(* of the curve; where they are missing it follows NIL, and the program    *)
(* ends.                                                                   *)
(***************************************************************************)
EXTENDS Integers, Sequences, FiniteSets

CONSTANTS Size,          \* elements that storage holds: a bound
          Levels,        \* gsSaveMax
          Longest,       \* elements of a path a program builds: a bound
          Operators,     \* operators a program executes: a bound
          Coords,
          TidyGlyphs,    \* character procedures balance gsave and grestore and
                         \* paint paths of their own
          PlainReverse,  \* reversepath is used on an unborrowed path whose
                         \* subpaths but the last are closed
          NIL

ASSUME PathAssumption == /\ Size \in Nat /\ Operators \in Nat /\ Levels \in Nat \ {0}
                         /\ TidyGlyphs \in BOOLEAN /\ PlainReverse \in BOOLEAN
                         /\ NIL \notin 1 .. Size /\ Coords \subseteq Int /\ Coords # {}

VARIABLES elmt,       \* the elements; a free one is Blank
          free,       \* pathFreeList, as a set
          gstack,     \* gsArray up to gs
          gsbase,     \* the level each save began at
          charPath, charPathStroke,
          glyph,      \* the level charpath was called at, 0: not in charpath
          ran,        \* operators executed so far
          leaked,     \* elements lost for good: StrokePath never frees its flattened
                      \* path, psCharPath not what a failed charpath collected, and
                      \* nobody the unfinished list of an operator out of storage
          limited,    \* has storage run out? (history)
          crashed     \* has the program followed NIL?

pathVars == <<elmt, free, gstack, gsbase, charPath, charPathStroke, glyph, leaked, limited,
              crashed, ran>>

Low == CHOOSE c \in Coords : \A d \in Coords : c <= d
High == CHOOSE c \in Coords : \A d \in Coords : d <= c
Elements == 1 .. Size
Blank == [tag |-> "free", at |-> Low, next |-> NIL]

InitPath == [head |-> NIL, tail |-> NIL, start |-> NIL, lo |-> Low, hi |-> Low,
             copy |-> FALSE]

(***************************************************************************)
(* Path operations work on x = [e, f, p, ok]: the elements, the free ones, *)
(* the path at hand, and whether storage sufficed.  When it did not        *)
(* (limitcheck), x stays as it was at that moment.                         *)
(***************************************************************************)
X(p) == [e |-> elmt, f |-> free, p |-> p, ok |-> TRUE]
With(x, p) == [x EXCEPT !.p = p]

\* The elements of the list at h in order; longer than Size if it never ends.
List(e, h) ==
    LET at[k \in 0 .. Size + 1] == IF k = 0 THEN h ELSE e[at[k - 1]].next
        len == Cardinality({k \in 0 .. Size : at[k] # NIL})
    IN  [i \in 1 .. len |-> at[i - 1]]
Only(S) == CHOOSE y \in S : TRUE
ListOf(x) == List(x.e, x.p.head)
EndOf(s) == s[Len(s)]
Range(s) == {s[i] : i \in DOMAIN s}

\* The elements of s at which a walk along the path looks at the tag; it has
\* taken the two after such an element with a curve's tag for its points.
Switched(s) ==
    LET looks[i \in DOMAIN s] ==
            \A j \in {i - 1, i - 2} \cap DOMAIN s : ~(looks[j] /\ s[j].tag = "curve")
    IN  {i \in DOMAIN s : looks[i]}
Whole(s) == \A i \in Switched(s) : s[i].tag = "curve" => i + 2 <= Len(s)
Walk(e, p) == LET list == List(e, p.head) IN [i \in DOMAIN list |-> e[list[i]]]

\* AddToPath on a path of its own elements: a pathstart replaces a pathstart.
AddElement(x, at, tag) ==
    LET p == x.p
        reuse == tag = "start" /\ p.tail # NIL /\ x.e[p.tail].tag = "start"
        pe == IF reuse THEN p.tail ELSE CHOOSE c \in x.f : \A d \in x.f : c <= d
        set == [x.e EXCEPT ![pe] = [tag |-> tag, at |-> at, next |-> NIL]]
    IN  IF ~x.ok \/ (~reuse /\ x.f = {}) THEN [x EXCEPT !.ok = FALSE]
        ELSE [e |-> IF p.tail \notin {NIL, pe} THEN [set EXCEPT ![p.tail].next = pe] ELSE set,
              f |-> x.f \ {pe}, ok |-> TRUE,
              p |-> [p EXCEPT !.head = IF p.tail = NIL THEN pe ELSE @, !.tail = pe,
                              !.start = IF tag = "start" THEN pe ELSE @,
                              !.lo = IF p.tail = NIL \/ @ > at THEN at ELSE @,
                              !.hi = IF p.tail = NIL \/ (p.lo <= at /\ @ < at) THEN at ELSE @]]

\* Several calls of AddToPath: each step is <<coordinate, tag>>.
AddAll(x, steps) ==
    LET to[k \in 0 .. Len(steps)] ==
            IF k = 0 THEN x
            ELSE Only({AddElement(y, steps[k][1], steps[k][2]) : y \in {to[k - 1]}})
    IN  to[Len(steps)]
AppendCopyToPath(list, x) ==
    AddAll(x, [k \in DOMAIN list |-> <<x.e[list[k]].at, x.e[list[k]].tag>>])
OwnCopy(x) == IF x.ok /\ x.p.copy THEN AppendCopyToPath(ListOf(x), With(x, InitPath)) ELSE x
AddToPath(x, at, tag) == Only({AddElement(y, at, tag) : y \in {OwnCopy(x)}})

\* Mutant: a borrowed path is freed with the rest.
FreeBorrowedToo(x) ==
    Only({[x EXCEPT !.e = [c \in DOMAIN x.e |-> IF c \in own THEN Blank ELSE x.e[c]],
                    !.f = @ \cup own, !.p = InitPath] : own \in {Range(ListOf(x))}})

FreePath(x) ==
    Only({[x EXCEPT !.e = [c \in DOMAIN x.e |-> IF c \in own THEN Blank ELSE x.e[c]],
                    !.f = @ \cup own, !.p = InitPath] :
          own \in {IF x.p.copy THEN {} ELSE Range(ListOf(x))}})

\* p takes over the elements of q; q is left empty.
AppendPath(x, q) ==
    IF q.head = NIL THEN x
    ELSE Only({IF ~y.ok THEN y
               ELSE IF y.p.tail = NIL THEN With(y, q)
               ELSE [y EXCEPT !.e[y.p.tail].next = q.head,
                              !.p = [y.p EXCEPT !.tail = q.tail, !.start = q.start,
                                                !.lo = IF @ > q.lo THEN q.lo ELSE @,
                                                !.hi = IF @ < q.hi THEN q.hi ELSE @]] :
               y \in {OwnCopy(x)}})

ClosePath(x) == IF x.p.tail = NIL \/ x.e[x.p.tail].tag = "close" THEN x
                ELSE LET y == AddToPath(x, x.e[x.p.start].at, "close")
                     IN  IF y.ok THEN [y EXCEPT !.p.start = y.p.tail] ELSE y

MoveTo(x, c) == AddToPath(x, c, "start")
LineTo(x, c) == AddToPath(x, c, IF x.p.head = NIL THEN "start" ELSE "line")
CurveTo(x, c) == AddAll(OwnCopy(x), <<<<Low, "curve">>, <<High, "curve">>, <<c, "curve">>>>)

\* AddTrapezoidToClip: one side, the other, and closepath.
AddTrapezoid(x, b, t) ==
    Only({ClosePath(y) : y \in {AddAll(x, <<<<b, "start">>, <<t, "line">>>>)}})
InitClip(x) == AddTrapezoid(FreePath(x), Low, High)

\* FlattenPath: a curve becomes lines that end where it ends, here one.  The
\* path must be Whole.
FlattenPath(x) ==
    LET to[s \in {Walk(x.e, x.p)}, k \in 0 .. Size] ==
            IF k = 0 THEN With(x, InitPath)
            ELSE Only({CASE k \notin Switched(s) -> y
                         [] s[k].tag = "start" -> MoveTo(y, s[k].at)
                         [] s[k].tag = "line" -> LineTo(y, s[k].at)
                         [] s[k].tag = "curve" -> LineTo(y, s[k + 2].at)
                         [] s[k].tag = "close" -> ClosePath(y) : y \in {to[s, k - 1]}})
    IN  Only({to[s, Len(s)] : s \in {Walk(x.e, x.p)}})

(***************************************************************************)
(* ReversePath turns the links around in place.  r.link is the element     *)
(* whose next field tailpe points at, NIL for path->head.                  *)
(***************************************************************************)
SetTail(r, c) == IF r.link = NIL THEN [r EXCEPT !.head = c] ELSE [r EXCEPT !.e[r.link].next = c]
ReverseStep(r) ==
    LET n == r.next
        tag == r.e[n].tag
        s == [r EXCEPT !.e[r.pe].tag = tag]
    IN  IF n = NIL
        THEN [SetTail([r EXCEPT !.e[r.pe].tag = "start", !.e[r.first].next = NIL,
                                !.tail = r.first], r.pe) EXCEPT !.done = TRUE]
        ELSE IF tag = "start"
        THEN [SetTail(s, r.pe) EXCEPT !.link = r.pe, !.first = n, !.pe = n,
                                      !.next = r.e[n].next]
        ELSE IF tag \in {"line", "curve"}
        THEN [s EXCEPT !.pe = n, !.next = r.e[n].next, !.e[n].next = r.pe]
        ELSE LET t == [SetTail([r EXCEPT !.e[r.pe].tag = "start"], r.pe)
                          EXCEPT !.e[r.first].next = n, !.e[n].at = r.e[r.pe].at]
             IN  IF t.e[n].next = NIL THEN [t EXCEPT !.tail = n, !.done = TRUE]
                 ELSE [t EXCEPT !.link = n, !.first = t.e[n].next, !.pe = t.e[n].next,
                                !.next = t.e[t.e[n].next].next]
ReversePath(x) ==
    LET to[k \in 0 .. Size + 1] ==
            IF k = 0 THEN [e |-> x.e, pe |-> x.p.head, next |-> x.e[x.p.head].next,
                           first |-> x.p.head, link |-> NIL, head |-> x.p.head,
                           tail |-> x.p.tail, done |-> FALSE]
            ELSE Only({IF r.done THEN r ELSE ReverseStep(r) : r \in {to[k - 1]}})
    IN  Only({[x EXCEPT !.e = r.e, !.p.head = r.head, !.p.tail = r.tail, !.p.start = r.pe] :
              r \in {to[Size + 1]}})
----------------------------------------------------------------------------
(***************************************************************************)
(* The operators.  gs is the top of the stack.                             *)
(***************************************************************************)
gs == gstack[Len(gstack)]
SetGs(g) == gstack' = [gstack EXCEPT ![Len(gstack)] = g]
Store(x) == /\ elmt' = x.e /\ free' = x.f
            /\ limited' = (limited \/ ~x.ok) /\ UNCHANGED crashed
Lose(x, lists) == \* what an operator forgets: the elements of lists
    leaked' = leaked \cup UNION {Range(List(x.e, p.head)) : p \in lists}
Unfinished(x) == IF x.ok THEN {} ELSE {x.p}
Same == UNCHANGED <<elmt, free, limited, crashed>>

\* An operator that walks paths which are not whole.
Walkable(paths) == \A p \in paths : Whole(Walk(elmt, p))
Crash == /\ crashed' = TRUE
         /\ UNCHANGED <<elmt, free, gstack, gsbase, charPath, charPathStroke, glyph, leaked,
                        limited>>
Charged == glyph > 0 /\ Len(gstack) = glyph + 1    \* a character procedure, at its own level
ClipOf == <<gs.clip.lo, gs.clip.hi>>

PathsInit ==
    \E x \in {InitClip([e |-> [c \in Elements \cup {NIL} |-> Blank], f |-> Elements, p |-> InitPath,
                        ok |-> TRUE])} :
        /\ elmt = x.e /\ free = x.f
        /\ gstack = <<[path |-> InitPath, clip |-> x.p, clipIsRect |-> TRUE, isCharPath |-> FALSE]>>
        /\ gsbase = <<1>>
        /\ charPath = InitPath /\ charPathStroke = FALSE /\ glyph = 0 /\ leaked = {} /\ ran = 0
        /\ limited = FALSE /\ crashed = FALSE

Rest == UNCHANGED <<gsbase, charPath, charPathStroke, glyph, leaked>>
SetPath(x) == Store(x) /\ SetGs([gs EXCEPT !.path = x.p]) /\ Rest
Room(n) == Len(List(elmt, gs.path.head)) + n <= Longest

psMoveTo(c) == Room(1) /\ SetPath(MoveTo(X(gs.path), c))
psLineTo(c) == Room(1) /\ SetPath(LineTo(X(gs.path), c))
psCurveTo(c) == gs.path.head # NIL /\ Room(3) /\ SetPath(CurveTo(X(gs.path), c))
\* arc, arcn: a line to where the arc begins, then its curves, here one.
psArc(c) == /\ Room(4)
            /\ \E x \in {LineTo(X(gs.path), Low)} : SetPath(CurveTo(x, c))
\* arcto: a line, then a curve unless the line is all there is.
psArcTo(c) == gs.path.head # NIL /\ (psLineTo(c) \/ psArc(c))
\* arcc: a curve to a given point.
psArcC(c) == psCurveTo(c)
psClosePath == Room(1) /\ SetPath(ClosePath(X(gs.path)))
NewPath == SetPath(FreePath(X(gs.path)))

\* Without storage the path stays and what there is of the flat one is lost.
psFlattenPath ==
    IF ~Walkable({gs.path}) THEN Crash
    ELSE \E flat \in {FlattenPath(X(gs.path))} :
         IF flat.ok
         THEN \E x \in {FreePath(With(flat, gs.path))} : SetPath(With(x, flat.p))
         ELSE /\ Store(flat) /\ Lose(flat, {flat.p})
              /\ UNCHANGED <<gstack, gsbase, charPath, charPathStroke, glyph>>

Reversible ==
    LET list == List(elmt, gs.path.head)
    IN  /\ ~gs.path.copy
        /\ \A i \in 2 .. Len(list) :
               elmt[list[i]].tag = "start" <=> elmt[list[i - 1]].tag = "close"
psReversePath ==
    /\ gs.path.head # NIL
    /\ PlainReverse => Reversible
    /\ SetPath(ReversePath(X(gs.path)))

psClipPath ==
    \E x \in {FreePath(X(gs.path))} :
        SetPath(AppendCopyToPath(List(x.e, gs.clip.head), x))

\* initclip.  An error on the way leaves part of the clip and the flag.
psInitClip ==
    \E x \in {InitClip(X(gs.clip))} :
        /\ Store(x)
        /\ SetGs([gs EXCEPT !.clip = x.p, !.clipIsRect = @ \/ x.ok])
        /\ Rest

\* PathIsRect: the tags of a rectangle; whether its sides are straight is open.
RectTags(x) ==
    LET tags == [i \in 1 .. Len(ListOf(x)) |-> x.e[ListOf(x)[i]].tag]
        sides == <<"start", "line">>
    IN  tags \in {sides, sides \o <<"close">>, sides \o <<"line">>, sides \o <<"line", "close">>}

\* clip, eoclip: a path inside a rectangle becomes the clip; else the reducer
\* computes trapezoids, none or one here, within both.
Inside == gs.path.lo >= gs.clip.lo /\ gs.path.hi <= gs.clip.hi
Copied(evenOdd) == ~evenOdd /\ gs.clipIsRect /\ Inside
Clipped(evenOdd) ==
    IF Copied(evenOdd)
    THEN {AppendCopyToPath(List(elmt, gs.path.head), FreePath(X(gs.clip)))}
    ELSE {FreePath(X(gs.clip))} \cup
         {AddTrapezoid(FreePath(X(gs.clip)), bt[1], bt[2]) :
              bt \in {w \in Coords \X Coords :
                          /\ gs.path.head # NIL /\ gs.clip.head # NIL /\ w[1] < w[2]
                          /\ gs.path.lo <= w[1] /\ w[2] <= gs.path.hi
                          /\ gs.clip.lo <= w[1] /\ w[2] <= gs.clip.hi}}
Clip(evenOdd) ==
    IF Copied(evenOdd) \/ Walkable({gs.path, gs.clip})
    THEN \E x \in Clipped(evenOdd), rect \in BOOLEAN :
        /\ IF x.ok THEN rect => RectTags(x) ELSE rect = gs.clipIsRect
        /\ Store(x)
        /\ SetGs([gs EXCEPT !.clip = x.p, !.clipIsRect = rect])
        /\ Rest
    ELSE Crash

Pushed == Append(gstack, [gs EXCEPT !.path.copy = TRUE, !.clip.copy = TRUE])
GSave == /\ Len(gstack) < Levels
         /\ gstack' = Pushed
         /\ Same /\ Rest

\* Frees both paths of the states above level lev, in the order of GRestore.
Unwound(x, lev) ==
    LET to[k \in lev .. Len(gstack)] ==
            IF k = Len(gstack) THEN x
            ELSE Only({FreePath(With(y, gstack[k + 1].clip)) :
                       y \in {FreePath(With(to[k + 1], gstack[k + 1].path))}})
    IN  to[lev]
Unwind(lev) == /\ Store(Unwound(X(InitPath), lev))
               /\ gstack' = SubSeq(gstack, 1, lev)
Floor == gsbase[Len(gsbase)]
Tidy(lev) == glyph = 0 \/ (TidyGlyphs => lev > glyph)

GRestore == /\ Len(gstack) > Floor /\ Tidy(Len(gstack) - 1)
            /\ Unwind(Len(gstack) - 1) /\ Rest
GRestoreAll == /\ Len(gstack) > Floor /\ Tidy(Floor)
               /\ Unwind(Floor) /\ Rest

\* save and restore (GraphicsSaveProc, GraphicsRestoreProc).
GraphicsSave == /\ Len(gstack) < Levels /\ glyph = 0
                /\ gstack' = Pushed
                /\ gsbase' = Append(gsbase, Len(gstack) + 1)
                /\ Same /\ UNCHANGED <<charPath, charPathStroke, glyph, leaked>>
GraphicsRestore(lev) ==
    /\ lev < Len(gsbase) /\ glyph = 0
    /\ Unwind(gsbase[lev + 1] - 1)
    /\ gsbase' = SubSeq(gsbase, 1, lev)
    /\ UNCHANGED <<charPath, charPathStroke, glyph, leaked>>

\* Paints the page: Fill of a path that borrows the elements of the clip.  In
\* charpath Fill hands them to charPath.
FillPage(x, clip) ==
    IF gs.isCharPath THEN AppendPath(With(x, charPath), [clip EXCEPT !.copy = TRUE])
    ELSE With(x, charPath)

\* showpage: InitGraphics, then the page is cleared.  An error in Fill leaves
\* the path that borrows the clip.
psShowPage ==
    /\ TidyGlyphs => ~gs.isCharPath
    /\ \E clear \in {FreePath(X(gs.path))} : \E x \in {InitClip(With(clear, gs.clip))} :
        \E y \in {IF x.ok THEN FillPage(x, x.p) ELSE With(x, charPath)} :
            /\ Store(y) /\ charPath' = y.p
            /\ SetGs([gs EXCEPT !.path = IF y.ok \/ ~x.ok THEN InitPath
                                         ELSE [x.p EXCEPT !.copy = TRUE],
                                !.clip = x.p, !.clipIsRect = @ \/ x.ok])
    /\ UNCHANGED <<gsbase, charPathStroke, glyph, leaked>>

\* erasepage: the same between GSave and GRestore, which an error leaves out.
psErasePage ==
    /\ Len(gstack) < Levels
    /\ TidyGlyphs => ~gs.isCharPath
    /\ \E x \in {InitClip(X([gs.clip EXCEPT !.copy = TRUE]))} :
        \E y \in {IF x.ok THEN FillPage(x, x.p) ELSE With(x, charPath)} :
            /\ charPath' = y.p
            /\ IF y.ok THEN Store(FreePath(With(y, x.p))) /\ UNCHANGED gstack
               ELSE /\ Store(y)
                    /\ gstack' = [Pushed EXCEPT ![Len(gstack) + 1].clip = x.p,
                                      ![Len(gstack) + 1].path =
                                          IF x.ok THEN [x.p EXCEPT !.copy = TRUE] ELSE @]
    /\ UNCHANGED <<gsbase, charPathStroke, glyph, leaked>>
----------------------------------------------------------------------------
(***************************************************************************)
(* charpath.  ShowInternal runs the procedure of the character in a        *)
(* graphics state of its own (BuildChar), then moves to the new point.     *)
(***************************************************************************)
psCharPath(stroke) ==
    /\ glyph = 0 /\ Len(gstack) < Levels
    /\ leaked' = leaked \cup Range(List(elmt, charPath.head))
    /\ charPath' = InitPath /\ charPathStroke' = stroke
    /\ glyph' = Len(gstack)
    /\ gstack' = Append([gstack EXCEPT ![Len(gstack)].isCharPath = TRUE],
                        [gs EXCEPT !.isCharPath = TRUE, !.path.copy = TRUE, !.clip.copy = TRUE])
    /\ Same /\ UNCHANGED gsbase

\* fill, eofill: outside charpath the path is painted and cleared.  A path
\* outside the clip is not walked, and the clip only when its box is not enough.
Outside == gs.path.hi <= gs.clip.lo \/ gs.path.lo >= gs.clip.hi
FillWalks == IF gs.path.head = NIL \/ (Outside /\ ~Inside) THEN {}
             ELSE {gs.path} \cup (IF Inside /\ gs.clipIsRect THEN {} ELSE {gs.clip})
psFill ==
    IF ~gs.isCharPath THEN IF Walkable(FillWalks) THEN NewPath ELSE Crash
    ELSE /\ gs.path.head # NIL
         /\ \E x \in {ClosePath(X(gs.path))} :
             /\ TidyGlyphs => ~x.p.copy
             /\ \E y \in {IF x.ok THEN AppendPath(With(x, charPath), x.p)
                          ELSE With(x, charPath)} :
                 /\ Store(y) /\ charPath' = y.p
                 /\ SetGs([gs EXCEPT !.path = IF y.ok THEN InitPath ELSE x.p])
         /\ UNCHANGED <<gsbase, charPathStroke, glyph, leaked>>

\* StrokePath: the outline of the line, from a flattened copy of the path.
Outline == LET flat == FlattenPath(X(gs.path))
           IN  [flat |-> flat.p,
                x |-> IF flat.ok THEN AddTrapezoid(With(flat, InitPath), gs.path.lo, gs.path.hi)
                      ELSE flat]

psStrokePath ==
    /\ gs.path.head # NIL
    /\ IF ~Walkable({gs.path}) THEN Crash
       ELSE /\ \E o \in {Outline} :
               \E x \in {IF o.x.ok THEN FreePath(With(o.x, gs.path)) ELSE o.x} :
                   /\ Store(x)
                   /\ SetGs([gs EXCEPT !.path = IF o.x.ok THEN o.x.p ELSE @])
                   /\ Lose(o.x, {o.flat} \cup Unfinished(o.x))
            /\ UNCHANGED <<gsbase, charPath, charPathStroke, glyph>>

\* A stroke that is painted quad by quad through paths of their own.
StrokePainted ==
    \/ Outside /\ NewPath
    \/ ~Walkable({gs.path}) /\ Crash
    \/ /\ Walkable({gs.path})
       /\ \E x \in {AddTrapezoid(X(InitPath), gs.path.lo, gs.path.hi)} :
             IF x.ok THEN NewPath
             ELSE /\ Store(x) /\ Lose(x, {x.p})
                  /\ UNCHANGED <<gstack, gsbase, charPath, charPathStroke, glyph>>

\* stroke: charPathStroke selects the outline instead of the path itself.
StrokeOutline ==
    \E o \in {Outline} :
        \E y \in {IF o.x.ok THEN AppendPath(With(o.x, charPath), o.x.p)
                  ELSE With(o.x, charPath)} :
            /\ Store(IF y.ok THEN FreePath(With(y, gs.path)) ELSE y)
            /\ charPath' = y.p
            /\ SetGs([gs EXCEPT !.path = IF y.ok THEN InitPath ELSE @])
            /\ Lose(y, {o.flat} \cup (IF y.ok THEN {} ELSE {o.x.p}))
StrokeSpine ==
    /\ \E y \in {AppendPath(X(charPath), gs.path)} :
           /\ Store(y) /\ charPath' = y.p
           /\ SetGs([gs EXCEPT !.path = IF y.ok THEN InitPath ELSE @])
    /\ UNCHANGED leaked
psStroke ==
    IF ~gs.isCharPath THEN IF gs.path.head = NIL THEN NewPath ELSE StrokePainted
    ELSE /\ gs.path.head # NIL
         /\ TidyGlyphs => ~gs.path.copy
         /\ IF charPathStroke /\ ~Walkable({gs.path}) THEN Crash
            ELSE /\ IF charPathStroke THEN StrokeOutline ELSE StrokeSpine
                 /\ UNCHANGED <<gsbase, charPathStroke, glyph>>

\* The procedure returns: GRestore, FixedMoveTo, and the end of psCharPath,
\* which an error in FixedMoveTo leaves out.
CharPathDone(c) ==
    /\ glyph > 0
    /\ TidyGlyphs => Charged
    /\ Len(gstack) > 1
    /\ \E x \in {Unwound(X(InitPath), Len(gstack) - 1)}, top \in {Len(gstack) - 1} :
        \E y \in {MoveTo(With(x, gstack[top].path), c)} :
            \E z \in {IF y.ok THEN AppendPath(y, charPath) ELSE y} :
                /\ Store(z)
                /\ gstack' = [SubSeq(gstack, 1, top) EXCEPT ![top].path = z.p,
                                                            ![top].isCharPath = ~z.ok]
                /\ charPath' = IF z.ok THEN InitPath ELSE charPath
    /\ glyph' = 0
    /\ UNCHANGED <<gsbase, charPathStroke, leaked>>

\* An error in the procedure: the interpreter unwinds past charpath, which
\* leaves isCharPath set and charPath as it is.
CharPathFails ==
    /\ glyph > 0
    /\ glyph' = 0
    /\ Same /\ UNCHANGED <<gstack, gsbase, charPath, charPathStroke, leaked>>

Build(c) == psMoveTo(c) \/ psLineTo(c) \/ psCurveTo(c) \/ psArc(c)
            \/ psArcTo(c) \/ psArcC(c)
Change == psClosePath \/ NewPath \/ psFlattenPath \/ psReversePath \/ psClipPath
ClipStep == psInitClip \/ Clip(FALSE) \/ Clip(TRUE)
StateStep == GSave \/ GRestore \/ GRestoreAll \/ GraphicsSave \/ psShowPage \/ psErasePage
             \/ \E lev \in 1 .. Levels : GraphicsRestore(lev)
CharStep == psFill \/ psStrokePath \/ psStroke \/ CharPathFails
            \/ \E b \in BOOLEAN : psCharPath(b)
            \/ \E c \in Coords : CharPathDone(c)
PathsNext == /\ ran < Operators /\ ran' = ran + 1 /\ ~crashed
             /\ \/ \E c \in Coords : Build(c)
                \/ Change \/ ClipStep \/ StateStep \/ CharStep
PathsSpec == PathsInit /\ [][PathsNext]_pathVars
----------------------------------------------------------------------------
PathSet == {gstack[i].path : i \in DOMAIN gstack} \cup {gstack[i].clip : i \in DOMAIN gstack}
           \cup {charPath}
Lists == \* every list that owns its elements, one entry per place it is held at
    {<<"path", i, gstack[i].path>> : i \in {j \in DOMAIN gstack : ~gstack[j].path.copy}}
    \cup {<<"clip", i, gstack[i].clip>> : i \in {j \in DOMAIN gstack : ~gstack[j].clip.copy}}
    \cup {<<"charPath", 0, charPath>>}

PathsTypeOK ==
    /\ \A c \in Elements : elmt[c].tag \in {"free", "start", "line", "curve", "close"}
                           /\ elmt[c].next \in Elements \cup {NIL}
    /\ free \subseteq Elements /\ leaked \subseteq Elements
    /\ Len(gstack) \in 1 .. Levels /\ gsbase \in Seq(1 .. Levels)
    /\ glyph \in 0 .. Levels /\ {charPathStroke, limited, crashed} \subseteq BOOLEAN

\* Every element is free or belongs to exactly one list, apart from those that
\* StrokePath, psCharPath and operators out of storage lose: FreePath never frees an element twice, no operator drops
\* one, and tail is the end of its list.
ElementsConserved ==
    /\ \A c \in Elements \ (free \cup leaked) :
           \E l \in Lists : c \in Range(List(elmt, l[3].head))
    /\ \A k \in Lists : /\ Range(List(elmt, k[3].head)) \cap (free \cup leaked) = {}
                        /\ \A l \in Lists \ {k} : Range(List(elmt, k[3].head))
                                                  \cap Range(List(elmt, l[3].head)) = {}
    /\ \A p \in PathSet : IF p.head = NIL THEN p.tail = NIL
                          ELSE LET l == List(elmt, p.head)
                               IN  Len(l) <= Size /\ EndOf(l) = p.tail

\* What a state borrowed is still a whole list of a state below it: nothing
\* below is freed, extended or turned around while it is lent.
BorrowedKept ==
    \A i \in DOMAIN gstack :
        /\ gstack[i].path.copy /\ gstack[i].path.head # NIL =>
              \E j \in 1 .. i - 1 : /\ gstack[j].path.head = gstack[i].path.head
                                    /\ gstack[j].path.tail = gstack[i].path.tail
                                    /\ ~gstack[j].path.copy
        /\ gstack[i].clip.copy /\ gstack[i].clip.head # NIL =>
              \E j \in 1 .. i - 1 : /\ gstack[j].clip.head = gstack[i].clip.head
                                    /\ gstack[j].clip.tail = gstack[i].clip.tail
                                    /\ ~gstack[j].clip.copy

\* The bounding box, by which fill and clip decide what to skip, covers every
\* element of the path.
BoxCoversPath ==
    \A p \in PathSet : \A c \in Range(List(elmt, p.head)) :
        p.lo <= elmt[c].at /\ elmt[c].at <= p.hi

\* closepath returns to where the last subpath began.
ClosesWhereItBegan ==
    \A p \in PathSet : p.head # NIL =>
        LET l == List(elmt, p.head)
            s == {i \in DOMAIN l : elmt[l[i]].tag = "start"}
        IN  /\ elmt[l[1]].tag = "start"
            /\ \E i \in s : (\A j \in s : j <= i) /\ elmt[p.start].at = elmt[l[i]].at

\* FeedPathToReducer asserts this of the paths it gets (path.c:671).
NoConsecutiveStarts ==
    \A p \in PathSet : LET l == List(elmt, p.head) IN
        \A i \in 2 .. Len(l) : /\ ~(elmt[l[i]].tag = "start" /\ elmt[l[i - 1]].tag = "start")
                               /\ ~(elmt[l[i]].tag = "close" /\ elmt[l[i - 1]].tag = "close")

-----------------------------------------------------------------------------
(***************************************************************************)
(* Filling: FeedPathToReducer hands a path to a reducer as polygons, here  *)
(* as the calls it makes.  A curve is flattened to its last point.         *)
(***************************************************************************)
NextPoint(c) == <<[call |-> "next", at |-> c]>>
LastPoint == <<[call |-> "last", at |-> Low]>>

FeedPathToReducer(list) ==
    LET n == Len(list)
        over(i) == i = n \/ list[i + 1].tag = "start"
        began(i) == LET S == {j \in 1 .. i : list[j].tag = "start"}
                    IN  list[CHOOSE j \in S : \A m \in S : m <= j].at
        calls(i) ==
            CASE i \notin Switched(list) -> <<>>
              [] list[i].tag = "start" -> IF i = n THEN <<>> ELSE NextPoint(list[i].at)
              [] list[i].tag = "line" ->
                    NextPoint(list[i].at) \o (IF over(i) THEN LastPoint ELSE <<>>)
              [] list[i].tag = "curve" ->
                    NextPoint(list[i + 2].at) \o (IF over(i + 2) THEN LastPoint ELSE <<>>)
              [] list[i].tag = "close" ->
                    LastPoint \o (IF over(i) THEN <<>> ELSE NextPoint(began(i)))
        to[k \in 0 .. n] == IF k = 0 THEN <<>> ELSE to[k - 1] \o calls(k)
    IN  to[n]

EndsInTwoStarts(l) ==
    Len(l) > 1 /\ \A i \in {Len(l) - 1, Len(l)} : elmt[l[i]].tag = "start"

\* Whatever a program builds is fed as whole polygons: none without a point,
\* and the last one closed, also after curves, closed subpaths and borrowing.
\* Where NoConsecutiveStarts fails at the end of a path, the last is left open.
FedAsPolygons ==
    \A p \in PathSet :
        LET s == Walk(elmt, p)
            calls == FeedPathToReducer(s)
        IN  Whole(s) =>
            /\ \A i \in DOMAIN calls : calls[i].call = "last" =>
                  i > 1 /\ calls[i - 1].call = "next"
            /\ calls # <<>> /\ ~EndsInTwoStarts(List(elmt, p.head)) =>
                  EndOf(calls).call = "last"

\* Only a limitcheck cuts a path off inside a curve: a program that never ran
\* out of storage follows no NIL, whatever it appends, borrows, reverses or
\* flattens.  One that did may (FeedPathToReducer, path.c:689-693).
CutByLimit ==
    crashed \/ (\E p \in PathSet : ~Whole(Walk(elmt, p))) => limited

-----------------------------------------------------------------------------
(***************************************************************************)
(* Clipping to a rectangle while the points arrive: four stages, left,     *)
(* top, right and bottom, each of which knows the first and the last point *)
(* of its polygon and on which side they are.  Coordinates are rounded.    *)
(***************************************************************************)
CONSTANTS Grid,     \* coordinates of the points of a polygon
          Edges,    \* where each stage clips, the bounding box with its margin
          FedMax    \* points fed, all polygons together: a bound

ASSUME ClipAssumption == Grid \subseteq Int /\ FedMax \in Nat

VARIABLES stages,    \* first, f, l, fin and lin of each
          reduced,   \* what the reducer got of the polygon
          fed,       \* points fed so far
          polygon,   \* ghost: the polygon as it was fed,
          ended      \* and whether its last point has come
clipVars == <<stages, reduced, fed, polygon, ended>>

Stages == 1 .. 4
Upright == {1, 3}
ClipTo(i) == Edges[i]
Keeps(i, c) == CASE i = 1 -> c.x >= ClipTo(i)
                 [] i = 2 -> c.y <= ClipTo(i)
                 [] i = 3 -> c.x <= ClipTo(i)
                 [] i = 4 -> c.y >= ClipTo(i)

\* Where the line from a to c crosses the edge of stage i.
Cross(i, a, c) ==
    LET part(from, to, n, d) == from + (IF d > 0 THEN ((to - from) * n) \div d
                                        ELSE ((to - from) * (0 - n)) \div (0 - d))
    IN  IF i \in Upright
        THEN [x |-> ClipTo(i), y |-> part(a.y, c.y, ClipTo(i) - a.x, c.x - a.x)]
        ELSE [x |-> part(a.x, c.x, ClipTo(i) - a.y, c.y - a.y), y |-> ClipTo(i)]

\* A point arrives at stage i of w = [s, out], after the last one the reducer.
RECURSIVE RectClipNew(_, _, _)
RectClipNew(i, w, c) ==
    LET s == w.s[i]
        cin == Keeps(i, c)
        w1 == IF ~s.first /\ s.lin # cin THEN RectClipNew(i + 1, w, Cross(i, s.l, c)) ELSE w
        w2 == [w1 EXCEPT !.s[i] = [first |-> FALSE, l |-> c, lin |-> cin,
                                   f |-> IF s.first THEN c ELSE s.f,
                                   fin |-> IF s.first THEN cin ELSE s.fin]]
    IN  CASE i \notin Stages -> [w EXCEPT !.out = Append(@, c)]
          [] i \in Stages /\ cin -> RectClipNew(i + 1, w2, c)
          [] OTHER -> w2

\* The flags are compared whether or not a point has come to the stage.
RectClipClose(i, w) ==
    LET s == w.s[i]
    IN  IF s.fin # s.lin THEN RectClipNew(i + 1, w, Cross(i, s.l, s.f)) ELSE w
AllClosed(w) == LET to[i \in 0 .. 4] == IF i = 0 THEN w ELSE RectClipClose(i, to[i - 1])
                IN  to[4]

Corner == [x |-> CHOOSE g \in Grid : TRUE, y |-> CHOOSE g \in Grid : TRUE]
FreshStage == [first |-> TRUE, f |-> Corner, l |-> Corner, fin |-> FALSE, lin |-> FALSE]

ClipStart ==
    /\ stages = [i \in Stages |-> FreshStage]
    /\ reduced = <<>> /\ fed = 0 /\ polygon = <<>> /\ ended = TRUE

RectClipNextPoint(c) ==
    /\ fed < FedMax /\ fed' = fed + 1
    /\ \E w \in {RectClipNew(1, [s |-> stages, out |-> IF ended THEN <<>> ELSE reduced], c)} :
          stages' = w.s /\ reduced' = w.out
    /\ polygon' = IF ended THEN <<c>> ELSE Append(polygon, c)
    /\ ended' = FALSE

\* Points a stage remembers with equal flags are not read again.
RectClipLastPoint ==
    /\ ~ended /\ ended' = TRUE
    /\ \E w \in {AllClosed([s |-> stages, out |-> reduced])} :
          /\ stages' = [i \in Stages |-> IF w.s[i].fin = w.s[i].lin THEN FreshStage
                                         ELSE [w.s[i] EXCEPT !.first = TRUE]]
          /\ reduced' = w.out
    /\ UNCHANGED <<polygon, fed>>

ClipNext == (\E x, y \in Grid : RectClipNextPoint([x |-> x, y |-> y])) \/ RectClipLastPoint

-----------------------------------------------------------------------------
\* One stage over a whole polygon.
ClipWhole(i, P) ==
    LET n == Len(P)
        edge(k) == LET a == IF k = 1 THEN n ELSE k - 1
                   IN  IF Keeps(i, P[a]) # Keeps(i, P[k]) THEN <<Cross(i, P[a], P[k])>> ELSE <<>>
        to[k \in 0 .. n] ==
            IF k = 0 THEN <<>>
            ELSE to[k - 1] \o (IF k = 1 THEN <<>> ELSE edge(k))
                           \o (IF Keeps(i, P[k]) THEN <<P[k]>> ELSE <<>>)
    IN  IF n = 0 THEN <<>> ELSE to[n] \o edge(1)

\* Clipping on the way gives what clipping the whole polygon edge by edge
\* gives, and nothing outside the rectangle.  A polygon that has no point
\* left may leave a single one, which covers nothing: a stage no point came
\* to still compares the flags of the polygon before.
ClippedAsWhole ==
    LET clipped[i \in 0 .. 4] == IF i = 0 THEN polygon ELSE ClipWhole(i, clipped[i - 1])
    IN  /\ \A k \in DOMAIN reduced : \A i \in Stages : Keeps(i, reduced[k])
        /\ ended => \/ reduced = clipped[4]
                    \/ clipped[4] = <<>> /\ Len(reduced) = 1
=============================================================================
