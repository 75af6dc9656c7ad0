----------------------------- MODULE ObjcRuntime -----------------------------
(***************************************************************************)
(* The Objective-C runtime (Developer/objc/objcrt.c): reference counting   *)
(* in the first part; in the second instance variables with their offsets, *)
(* and which protocols a class or protocol adopts; in the third the tables *)
(* of selectors, protocols, methods and properties that programs look up.  *)
(*                                                                         *)
(* Counts live in a hash table keyed by address, entered at the first      *)
(* retain or release and never removed.  Autoreleased objects wait in one  *)
(* pool; a scope of it is a remembered height.  Programs follow the rules  *)
(* of ownership; ghost variables say who owns what.                        *)
(***************************************************************************)
EXTENDS Integers, Sequences, FiniteSets
LOCAL INSTANCE SequencesExt

CONSTANTS Addrs,           \* addresses malloc can return, naturals
          RC_HASH_SIZE,
          AUTORELEASE_POOL_SIZE,
          CountMax,        \* bound on reference counts
          ScopeMax,        \* bound on nested pools
          DeallocFrees     \* do dealloc methods give the memory back to malloc?

ASSUME ObjectsAssumption ==
    /\ Addrs \subseteq Nat /\ RC_HASH_SIZE \in Nat /\ Cardinality(Addrs) <= RC_HASH_SIZE
    /\ {AUTORELEASE_POOL_SIZE, CountMax, ScopeMax} \subseteq Nat
    /\ DeallocFrees \in BOOLEAN

VARIABLES obj,      \* address -> "free", "live" or "dead"
          child,    \* address -> the object it owns, or 0
          rc_table, \* slot -> object and count
          pool,     \* _autorelease_pool up to its top
          scopes,   \* values of objc_autoreleasePoolPush not yet popped
          popping,  \* is the innermost scope being popped?
          owners,   \* ghost: references the program holds
          dropped   \* ghost: objects a full pool turned away

objectVars == <<obj, child, rc_table, pool, scopes, popping, owners, dropped>>

\* The heap as a call works on it.
ObjcHeap == [obj |-> obj, child |-> child, rc |-> rc_table, pool |-> pool, dropped |-> dropped]
Becomes(h) ==
    /\ obj' = h.obj /\ child' = h.child /\ rc_table' = h.rc
    /\ pool' = h.pool /\ dropped' = h.dropped

NoCount == [obj |-> 0, count |-> 0]
RcSlot(a, i) == (a + i) % RC_HASH_SIZE
\* The slot of an object, or the empty one that becomes its own.
_rc_find(rc, a) ==
    RcSlot(a, CHOOSE i \in 0 .. RC_HASH_SIZE - 1 :
                /\ rc[RcSlot(a, i)].obj \in {a, 0}
                /\ \A j \in 0 .. i - 1 : rc[RcSlot(a, j)].obj \notin {a, 0})
\* Mutant: a new entry counts from zero.
FoundAtZero(rc, a) ==
    IF rc[_rc_find(rc, a)].obj = a THEN rc
    ELSE [rc EXCEPT ![_rc_find(rc, a)] = [obj |-> a, count |-> 0]]
Found(rc, a) ==
    IF rc[_rc_find(rc, a)].obj = a THEN rc
    ELSE [rc EXCEPT ![_rc_find(rc, a)] = [obj |-> a, count |-> 1]]
CountOf(rc, a) == Found(rc, a)[_rc_find(rc, a)].count
AddTo(rc, a, d) == [Found(rc, a) EXCEPT ![_rc_find(rc, a)].count = @ + d]

autorelease(h, a) ==
    IF Len(h.pool) < AUTORELEASE_POOL_SIZE THEN [h EXCEPT !.pool = Append(@, a)]
    ELSE [h EXCEPT !.dropped = @ \cup {a}]

\* At zero the object's dealloc runs: it releases or autoreleases what the
\* object owns and may end in object_dispose.
RECURSIVE release(_, _, _)
release(h, a, auto) ==
    LET n == CountOf(h.rc, a)
        h1 == [h EXCEPT !.rc = AddTo(h.rc, a, IF n > 0 THEN -1 ELSE 0)]
        h2 == [h1 EXCEPT !.obj[a] = IF DeallocFrees THEN "free" ELSE "dead", !.child[a] = 0]
        c == h.child[a]
    IN  IF n > 1 THEN h1
        ELSE IF c = 0 THEN h2
        ELSE IF auto THEN autorelease(h2, c) ELSE release(h2, c, auto)

-----------------------------------------------------------------------------
Own(a, d) == owners' = [owners EXCEPT ![a] = @ + d]
Owned(a) == owners[a] > 0 /\ ~popping

class_createInstance(a) ==
    /\ obj[a] = "free" /\ ~popping
    /\ obj' = [obj EXCEPT ![a] = "live"]
    /\ Own(a, 1)
    /\ UNCHANGED <<child, rc_table, pool, scopes, popping, dropped>>

objc_retain(a) ==
    /\ Owned(a) /\ CountOf(rc_table, a) < CountMax
    /\ rc_table' = AddTo(rc_table, a, 1)
    /\ Own(a, 1)
    /\ UNCHANGED <<obj, child, pool, scopes, popping, dropped>>

objc_release(a) ==
    /\ Owned(a)
    /\ \E auto \in BOOLEAN : Becomes(release(ObjcHeap, a, auto))
    /\ Own(a, -1)
    /\ UNCHANGED <<scopes, popping>>

objc_autorelease(a) ==
    /\ Owned(a)
    /\ Becomes(autorelease(ObjcHeap, a))
    /\ Own(a, -1)
    /\ UNCHANGED <<scopes, popping>>

\* A program hands its reference to another object.
Give(a, b) ==
    /\ Owned(a) /\ Owned(b) /\ a # b /\ child[a] = 0
    /\ child' = [child EXCEPT ![a] = b]
    /\ Own(b, -1)
    /\ UNCHANGED <<obj, rc_table, pool, scopes, popping, dropped>>

objc_autoreleasePoolPush ==
    /\ ~popping /\ Len(scopes) < ScopeMax
    /\ scopes' = Append(scopes, Len(pool))
    /\ UNCHANGED <<obj, child, rc_table, pool, popping, owners, dropped>>

\* The loop of the pop: the top is read again after every release, because
\* a dealloc may have autoreleased more.
PopTo == scopes[Len(scopes)]
objc_autoreleasePoolPop ==
    /\ scopes # <<>> /\ ~popping
    /\ popping' = TRUE
    /\ UNCHANGED <<obj, child, rc_table, pool, scopes, owners, dropped>>
PopOne ==
    /\ popping /\ Len(pool) > PopTo
    /\ \E auto \in BOOLEAN :
           Becomes(release([ObjcHeap EXCEPT !.pool = SubSeq(pool, 1, Len(pool) - 1)],
                           pool[Len(pool)], auto))
    /\ UNCHANGED <<scopes, popping, owners>>
PoolPopped ==
    /\ popping /\ Len(pool) <= PopTo
    /\ popping' = FALSE /\ scopes' = SubSeq(scopes, 1, Len(scopes) - 1)
    /\ UNCHANGED <<obj, child, rc_table, pool, owners, dropped>>

OOInit ==
    /\ obj = [a \in Addrs |-> "free"] /\ child = [a \in Addrs |-> 0]
    /\ rc_table = [i \in 0 .. RC_HASH_SIZE - 1 |-> NoCount]
    /\ pool = <<>> /\ scopes = <<>> /\ popping = FALSE
    /\ owners = [a \in Addrs |-> 0] /\ dropped = {}

PopStep == PopOne \/ PoolPopped
OONext ==
    \/ \E a \in Addrs : \/ class_createInstance(a) \/ objc_retain(a) \/ objc_release(a)
                        \/ objc_autorelease(a) \/ \E b \in Addrs : Give(a, b)
    \/ objc_autoreleasePoolPush \/ objc_autoreleasePoolPop \/ PopStep

\* The pop loop is a running call.
OOSpec == OOInit /\ [][OONext]_objectVars /\ WF_objectVars(PopStep)

-----------------------------------------------------------------------------
InPool(a) == Cardinality({i \in 1 .. Len(pool) : pool[i] = a})
Parents(a) == Cardinality({p \in Addrs : child[p] = a})
References(a) == owners[a] + InPool(a) + Parents(a)

\* An object has one slot at most, and scopes lie inside one another.
OOTypeOK ==
    /\ \A i, j \in DOMAIN rc_table : rc_table[i].obj = rc_table[j].obj /\ i # j => rc_table[i].obj = 0
    /\ Len(pool) <= AUTORELEASE_POOL_SIZE
    /\ \A i \in 1 .. Len(scopes) : scopes[i] <= Len(pool)

\* The count of an object is the number of references to it: those of the
\* program, of the pool and of other objects.
CountsMatchReferences ==
    \A a \in Addrs : obj[a] = "live" /\ a \notin dropped => CountOf(rc_table, a) = References(a)

\* "Decrement the reference count; deallocate at zero": an object somebody
\* refers to is alive, and one that nobody refers to is deallocated, unless
\* the pool was full when it was put there.
AliveWhileReferenced ==
    \A a \in Addrs \ dropped : References(a) > 0 <=> obj[a] = "live"

\* Popping a pool comes to an end, deallocs that autorelease included.
PopsEnd == popping ~> ~popping

-----------------------------------------------------------------------------
(* Classes and protocols.                                                  *)

CONSTANTS Protocols,
          ClassMax, AddMax,    \* bounds on classes and on additions to them
          ListMax,             \* protocols a list has room for; nothing checks it
          AlignMax

ASSUME MetadataAssumption ==
    {ClassMax, AddMax, ListMax, AlignMax} \subseteq Nat

VARIABLES shape,    \* classes in order of allocation: superclass, size, variables
          adopts,   \* what each class adopts, and each protocol
          grown     \* ghost: classes that got variables after a subclass was made

metaVars == <<shape, adopts, grown>>

ClassIds == 1 .. Len(shape)
HeaderSize == 1    \* sizeof(struct objc_object), the unit of size

\* A subclass starts where its superclass ends now.
allocateClassPair(super) ==
    /\ Len(shape) < ClassMax
    /\ shape' = Append(shape, [super |-> super, ivars |-> <<>>,
                               size |-> IF super = 0 THEN HeaderSize ELSE shape[super].size])
    /\ UNCHANGED <<adopts, grown>>

\* Mutant: the offset is rounded down.
AlignDown(n, alignment) ==
    IF alignment = 0 THEN n ELSE (n \div 2 ^ alignment) * 2 ^ alignment

\* Variables can be added at any time: no call clears OBJC_CLASS_INFO_NIF.
AlignUp(n, alignment) ==
    IF alignment = 0 THEN n
    ELSE ((n + 2 ^ alignment - 1) \div 2 ^ alignment) * 2 ^ alignment
class_addIvar(c, size, alignment) ==
    LET offset == AlignUp(shape[c].size, alignment)
    IN  /\ shape' = [shape EXCEPT ![c].ivars = Append(@, [offset |-> offset, size |-> size]),
                                  ![c].size = offset + size]
        /\ grown' = IF \E d \in ClassIds : shape[d].super = c THEN grown \cup {c} ELSE grown
        /\ UNCHANGED adopts

class_addProtocol(c, p) ==
    /\ Len(adopts.class[c]) < ListMax
    /\ adopts' = [adopts EXCEPT !.class[c] = Append(@, p)]
    /\ UNCHANGED <<shape, grown>>
protocol_addProtocol(p, q) ==
    /\ Len(adopts.protocol[p]) < ListMax
    /\ adopts' = [adopts EXCEPT !.protocol[p] = Append(@, q)]
    /\ UNCHANGED <<shape, grown>>

\* A depth-first search in list order, which does not mark where it has
\* been: on a cycle it never returns.
RECURSIVE conforms(_, _, _)
conforms(p, other, path) ==
    LET list == adopts.protocol[p]
        answer == [i \in 1 .. Len(list) |-> conforms(list[i], other, path \cup {p})]
        ends == {i \in 1 .. Len(list) : answer[i] # "no"}
    IN  CASE p = other -> "yes"
          [] p # other /\ p \in path -> "never"
          [] OTHER -> IF ends = {} THEN "no"
                      ELSE answer[CHOOSE i \in ends : \A j \in ends : i <= j]
protocol_conformsToProtocol(p, other) == conforms(p, other, {})

RECURSIVE class_conformsToProtocol(_, _)
class_conformsToProtocol(c, other) ==
    LET list == adopts.class[c]
        ends == {i \in 1 .. Len(list) : protocol_conformsToProtocol(list[i], other) # "no"}
    IN  IF ends # {}
        THEN protocol_conformsToProtocol(list[CHOOSE i \in ends : \A j \in ends : i <= j], other)
        ELSE IF shape[c].super = 0 THEN "no"
        ELSE class_conformsToProtocol(shape[c].super, other)

OMInit ==
    /\ shape = <<>> /\ grown = {}
    /\ adopts = [class |-> [c \in 1 .. ClassMax |-> <<>>],
                 protocol |-> [p \in Protocols |-> <<>>]]

Additions ==
    LET sum[S \in SUBSET Protocols] == IF S = {} THEN 0
            ELSE LET p == CHOOSE x \in S : TRUE IN Len(adopts.protocol[p]) + sum[S \ {p}]
        of[c \in 0 .. Len(shape)] == IF c = 0 THEN 0
            ELSE Len(shape[c].ivars) + Len(adopts.class[c]) + of[c - 1]
    IN  sum[Protocols] + of[Len(shape)]

OMNext ==
    \/ \E s \in 0 .. Len(shape) : allocateClassPair(s)
    \/ /\ Additions < AddMax
       /\ \/ \E c \in ClassIds, size \in 1 .. 2, a \in 0 .. AlignMax : class_addIvar(c, size, a)
          \/ \E c \in ClassIds, p \in Protocols : class_addProtocol(c, p)
          \/ \E p, q \in Protocols : protocol_addProtocol(p, q)

OMSpec == OMInit /\ [][OMNext]_metaVars

-----------------------------------------------------------------------------
RECURSIVE Ancestors(_)
Ancestors(c) == IF c = 0 THEN {} ELSE {c} \cup Ancestors(shape[c].super)

\* The variables of a class and of the classes it inherits from take
\* different bytes of an instance, and the instance is large enough, unless
\* one of those grew after a subclass was made.
IvarsDisjoint ==
    \A c \in ClassIds :
        Ancestors(c) \cap (grown \ {c}) = {} =>
            LET all == {[v |-> shape[d].ivars[i], of |-> <<d, i>>] :
                            <<d, i>> \in {<<e, k>> \in Ancestors(c) \X (1 .. AddMax) :
                                              k <= Len(shape[e].ivars)}}
            IN  /\ \A x, y \in all : x # y => \/ x.v.offset + x.v.size <= y.v.offset
                                             \/ y.v.offset + y.v.size <= x.v.offset
                /\ \A x \in all : x.v.offset + x.v.size <= shape[c].size

\* The protocols reachable from a set of them.
Reach(ps) ==
    LET step[k \in 0 .. Cardinality(Protocols)] ==
            IF k = 0 THEN ps
            ELSE step[k - 1] \cup UNION {ToSet(adopts.protocol[p]) : p \in step[k - 1]}
    IN  step[Cardinality(Protocols)]
OnCycle(p) == p \in Reach(ToSet(adopts.protocol[p]))
Adopted(c) == UNION {ToSet(adopts.class[d]) : d \in Ancestors(c)}

\* A class conforms to what it or a superclass adopts, directly or through
\* other protocols, and to nothing else; the search returns unless there is
\* a cycle of protocols to run into.
ConformanceIsReachability ==
    \A c \in ClassIds, q \in Protocols :
        LET a == class_conformsToProtocol(c, q)
        IN  /\ a # "never" => (a = "yes" <=> q \in Reach(Adopted(c)))
            /\ a = "never" => \E p \in Reach(Adopted(c)) : OnCycle(p)

-----------------------------------------------------------------------------
(* What programs ask the runtime about itself: selectors and protocols by    *)
(* name, methods of classes, properties and method descriptions, all of them *)
(* kept in tables that grow while they are used.                             *)

CONSTANTS Names,          \* of selectors, protocols and properties
          NameHash,       \* name -> hash
          SEL_HASH_SIZE, PROTOCOL_HASH_SIZE,
          Values,         \* implementations and attributes
          ItemMax,        \* bound on properties and descriptions, all lists together
          Encodings       \* types of methods

ASSUME ReflectionAssumption ==
    /\ {SEL_HASH_SIZE, PROTOCOL_HASH_SIZE} \subseteq Nat \ {0}
    /\ NameHash \in [Names -> Nat] /\ "" \notin Names /\ ItemMax \in Nat

VARIABLES sel_hash,          \* slot -> the name of the selector there, or ""
          protocol_hash,     \* slot -> number of the protocol there, or 0
          protocols,         \* names of the protocols allocated, oldest first
          methods,           \* class -> its method lists, newest first
          properties,        \* class -> its property list
          descriptions,      \* of each protocol: methods of both kinds, properties
          added,             \* ghost: <<class, selector>> whose addition succeeded,
          noted              \* and the attributes each property should have

nameVars == <<sel_hash, protocol_hash, protocols>>
listVars == <<properties, descriptions>>
reflectionVars == <<nameVars, listVars, methods, added, noted>>

\* The slot a probe for a name ends at, in a table of some size: the first
\* one of those that are free or stop it.
ProbeEnd(h, size, stops) ==
    LET at(i) == (h + i) % size
    IN  at(CHOOSE i \in 0 .. size - 1 :
               at(i) \in stops /\ \A j \in 0 .. i - 1 : at(j) \notin stops)

\* Nothing grows the tables: a probe that finds no free slot never ends.
SelSlot(name) ==
    ProbeEnd(NameHash[name], SEL_HASH_SIZE, {x \in DOMAIN sel_hash : sel_hash[x] \in {"", name}})
sel_registerName(name) ==
    /\ \E x \in DOMAIN sel_hash : sel_hash[x] \in {"", name}
    /\ sel_hash' = [sel_hash EXCEPT ![SelSlot(name)] = name]
    /\ UNCHANGED <<protocol_hash, protocols>>

\* A name may be allocated again; both protocols stay in the table.
objc_allocateProtocol(name) ==
    LET free == {y \in DOMAIN protocol_hash : protocol_hash[y] = 0}
        x == ProbeEnd(NameHash[name], PROTOCOL_HASH_SIZE, free)
    IN  /\ free # {}
        /\ protocols' = Append(protocols, name)
        /\ protocol_hash' = [protocol_hash EXCEPT ![x] = Len(protocols) + 1]
        /\ UNCHANGED sel_hash

\* 0 when there is none; a full table without the name is searched for ever.
Endless == -1
objc_getProtocol(name) ==
    LET stops == {y \in DOMAIN protocol_hash :
                    protocol_hash[y] = 0 \/ protocols[protocol_hash[y]] = name}
    IN  IF stops # {}
        THEN protocol_hash[ProbeEnd(NameHash[name], PROTOCOL_HASH_SIZE, stops)] ELSE Endless

-----------------------------------------------------------------------------
(* Methods.  The superclass of class c is c - 1, 0 for none.                 *)

_method_list_find(list, sel) == {i \in DOMAIN list : list[i].sel = sel}

\* Where class c finds sel: class, list and position of the first match on
\* the way to the root.
RECURSIVE class_getInstanceMethod(_, _)
class_getInstanceMethod(c, sel) ==
    LET lists == {l \in DOMAIN methods[c] : _method_list_find(methods[c][l], sel) # {}}
        least(S) == CHOOSE x \in S : \A y \in S : x <= y
    IN  CASE c = 0 -> <<>>
          [] c # 0 /\ lists # {} ->
                <<c, least(lists), least(_method_list_find(methods[c][least(lists)], sel))>>
          [] OTHER -> class_getInstanceMethod(c - 1, sel)
class_hasMethod(c, sel) == class_getInstanceMethod(c, sel) # <<>>

\* Every list of the class, the newest first.
class_copyMethodList(c) == FlattenSeq(methods[c])

\* A method that the class has or inherits is not added; a full list gets a
\* new one in front.
AddedMethod(c, m) ==
    LET full == methods[c] = <<>> \/ Len(methods[c][1]) >= ListMax
    IN  CASE class_hasMethod(c, m.sel) -> methods
          [] ~class_hasMethod(c, m.sel) /\ full -> [methods EXCEPT ![c] = <<<<m>>>> \o @]
          [] OTHER -> [methods EXCEPT ![c][1] = Append(@, m)]

addMethod(c, m) ==
    /\ methods' = AddedMethod(c, m)
    /\ added' = IF class_hasMethod(c, m.sel) THEN added ELSE added \cup {<<c, m.sel>>}

\* The method is changed where it was found, in the superclass if it is
\* inherited.
class_replaceMethod(c, m) ==
    LET at == class_getInstanceMethod(c, m.sel)
    IN  IF at = <<>> THEN addMethod(c, m)
        ELSE methods' = [methods EXCEPT ![at[1]][at[2]][at[3]].imp = m.imp] /\ UNCHANGED added
method_setImplementation(c, sel, imp) ==
    LET at == class_getInstanceMethod(c, sel)
    IN  /\ at # <<>>
        /\ methods' = [methods EXCEPT ![at[1]][at[2]][at[3]].imp = imp]
        /\ UNCHANGED added

-----------------------------------------------------------------------------
(* Properties and method descriptions, in lists that are reallocated.        *)

\* A list that has not been made has no room.
NoList == [items |-> <<>>, space |-> 0, room |-> 0]
Made(list) == list.room > 0
Grown(list) == [list EXCEPT !.space = ListMax, !.room = Len(list.items) + ListMax]
WithItem(list, x) ==
    LET l == IF list.space <= 0 THEN Grown(list) ELSE list
    IN  [l EXCEPT !.items = Append(@, x), !.space = @ - 1]
Item(name, value) == [name |-> name, value |-> value]
FirstNamed(list, name) ==
    LET S == {i \in DOMAIN list.items : list.items[i].name = name}
    IN  IF S = {} THEN 0 ELSE CHOOSE i \in S : \A j \in S : i <= j

Note(c, name, v) == noted' = [noted EXCEPT ![c][name] = {v}]

class_addProperty(c, name, attributes) ==
    /\ properties' = [properties EXCEPT ![c] = WithItem(@, Item(name, attributes))]
    /\ IF noted[c][name] = {} THEN Note(c, name, attributes) ELSE UNCHANGED noted

\* The attributes class_getProperty finds, none if there is no such property.
class_getProperty(c, name) ==
    LET i == FirstNamed(properties[c], name)
    IN  IF i = 0 THEN {} ELSE {properties[c].items[i].value}

\* Without a list nothing is replaced and nothing added either.
class_replaceProperty(c, name, attributes) ==
    LET i == FirstNamed(properties[c], name)
    IN  CASE ~Made(properties[c]) -> UNCHANGED <<properties, noted>>
          [] Made(properties[c]) /\ i = 0 -> class_addProperty(c, name, attributes)
          [] OTHER -> /\ properties' = [properties EXCEPT ![c].items[i].value = attributes]
                      /\ Note(c, name, attributes)

\* Their types and attributes are left out.
protocol_addMethodDescription(p, sel, kind) ==
    descriptions' = [descriptions EXCEPT ![p][kind] = WithItem(@, Item(sel, 0))]
protocol_addProperty(p, name) ==
    descriptions' = [descriptions EXCEPT ![p]["property"] = WithItem(@, Item(name, 0))]
\* What the copying calls hand out.
class_copyPropertyList(c) == properties[c].items
protocol_copyMethodDescriptionList(p, kind) == descriptions[p][kind].items
protocol_copyPropertyList(p) == descriptions[p]["property"].items

-----------------------------------------------------------------------------
(* Type encodings: the return type, "@", ":" and the types of the arguments. *)

\* Skips from position i on while the characters are in S.
SkipFrom(types, i, S) ==
    LET stop == {j \in i .. Len(types) : types[j] \notin S}
    IN  IF stop = {} THEN Len(types) + 1 ELSE CHOOSE j \in stop : \A n \in stop : j <= n
SkipOne(types, i, c) == IF i <= Len(types) /\ types[i] = c THEN i + 1 ELSE i
ReturnEnd(types) == SkipFrom(types, 1, Range(types) \ {"@", ":"})

method_getNumberOfArguments(types) ==
    LET i == SkipOne(types, SkipOne(types, SkipOne(types, ReturnEnd(types), "@"), "@"), ":")
    IN  2 + Len(types) - i + 1

\* Only one "@" is skipped here.
method_getArgumentType(types, index) ==
    LET i == SkipOne(types, SkipOne(types, ReturnEnd(types), "@"), ":") + index - 2
    IN  CASE index = 0 -> "@"
          [] index = 1 -> ":"
          [] OTHER -> IF i <= Len(types) THEN types[i] ELSE ""

-----------------------------------------------------------------------------
ORInit ==
    /\ sel_hash = [x \in 0 .. SEL_HASH_SIZE - 1 |-> ""]
    /\ protocol_hash = [x \in 0 .. PROTOCOL_HASH_SIZE - 1 |-> 0] /\ protocols = <<>>
    /\ methods = [c \in 1 .. ClassMax |-> <<>>] /\ added = {}
    /\ properties = [c \in 1 .. ClassMax |-> NoList]
    /\ noted = [c \in 1 .. ClassMax |-> [n \in Names |-> {}]]
    /\ descriptions = [p \in Protocols |-> [instance |-> NoList, class |-> NoList,
                                            property |-> NoList]]

NamesMove ==
    /\ \E n \in Names : sel_registerName(n) \/ objc_allocateProtocol(n)
    /\ UNCHANGED <<listVars, methods, added, noted>>
MethodsMove ==
    /\ \E c \in 1 .. ClassMax, n \in Names, v \in Values :
           \/ addMethod(c, [sel |-> n, imp |-> v])
           \/ class_replaceMethod(c, [sel |-> n, imp |-> v])
           \/ method_setImplementation(c, n, v)
    /\ UNCHANGED <<nameVars, listVars, noted>>

Kinds == {"instance", "class", "property"}
Lists == {properties[c] : c \in DOMAIN properties}
            \cup {descriptions[p][kind] : p \in Protocols, kind \in Kinds}
Items == MapThenSumSet(LAMBDA c : Len(class_copyPropertyList(c)), DOMAIN properties)
            + MapThenSumSet(LAMBDA p : Len(protocol_copyPropertyList(p))
                                + Len(protocol_copyMethodDescriptionList(p, "instance"))
                                + Len(protocol_copyMethodDescriptionList(p, "class")), Protocols)
PropertiesMove ==
    \E c \in 1 .. ClassMax, n \in Names, v \in Values :
        \/ Items < ItemMax /\ class_addProperty(c, n, v)
        \/ Items < ItemMax /\ class_replaceProperty(c, n, v)
DescriptionsMove ==
    /\ Items < ItemMax
    /\ \E p \in Protocols, n \in Names :
           \/ protocol_addProperty(p, n)
           \/ \E kind \in {"instance", "class"} : protocol_addMethodDescription(p, n, kind)
ListsMove ==
    /\ \/ PropertiesMove /\ UNCHANGED descriptions
       \/ DescriptionsMove /\ UNCHANGED <<properties, noted>>
    /\ UNCHANGED <<nameVars, methods, added>>

-----------------------------------------------------------------------------
\* A selector is registered once and found where it was put; a protocol's
\* name finds the oldest protocol of that name.
NamesFound ==
    /\ \A x \in DOMAIN sel_hash : sel_hash[x] # "" => SelSlot(sel_hash[x]) = x
    /\ \A n \in Names :
          LET S == {i \in DOMAIN protocols : protocols[i] = n}
          IN  IF S = {} THEN objc_getProtocol(n) = IF Len(protocols) = PROTOCOL_HASH_SIZE
                                                   THEN Endless ELSE 0
              ELSE objc_getProtocol(n) \in S /\ \A i \in S : objc_getProtocol(n) <= i

\* Every method that was added is in one list of its class, once, and is the
\* one that class and its subclasses find, up to one that has its own.
MethodsFound ==
    \A c \in 1 .. ClassMax :
        LET list == class_copyMethodList(c)
        IN  /\ Len(list) = Cardinality({m \in added : m[1] = c})
            /\ {<<c, list[i].sel>> : i \in DOMAIN list} = {m \in added : m[1] = c}
            /\ \A n \in Names :
                  LET from == {d \in 1 .. c : <<d, n>> \in added}
                  IN  IF from = {} THEN ~class_hasMethod(c, n)
                      ELSE \A d \in from : d <= class_getInstanceMethod(c, n)[1]

\* Lists stay inside the memory allocated for them however often they grow,
\* and a property reads as it was added first or replaced last.
ListsInBounds ==
    /\ \A l \in Lists : l.space >= 0 /\ Len(l.items) + l.space = l.room
    /\ \A c \in DOMAIN properties, n \in Names : class_getProperty(c, n) = noted[c][n]

\* The arguments of a method are counted and read from its types, unless it
\* returns an object: then method_getArgumentType answers "@" for the first.
EncodingsRead ==
    \A t \in Encodings :
        LET colon == CHOOSE i \in DOMAIN t : t[i] = ":"
        IN  /\ method_getNumberOfArguments(t) = 2 + Len(t) - colon
            /\ t[1] # "@" => \A i \in colon + 1 .. Len(t) :
                                 method_getArgumentType(t, 1 + i - colon) = t[i]
=============================================================================
