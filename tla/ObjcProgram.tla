----------------------------- MODULE ObjcProgram -----------------------------
(***************************************************************************)
(* An Objective-C program from source to dispatch: the preprocessor        *)
(* (Developer/objc/objcpreproc.c) turns directives into C functions and,   *)
(* for each @implementation, a constructor that registers the class; the   *)
(* constructors run at load time against the runtime (objcrt.c), which     *)
(* then finds methods by walking the superclasses.  The source text is     *)
(* chosen freely, a directive at a time.                                   *)
(***************************************************************************)
EXTENDS Integers, Sequences, FiniteSets

CONSTANTS ClassNames,     \* classes of the program; "Object" is the runtime's
          Methods,        \* methods programs define: selector, and "inst" or "cls"
          Headers,        \* files that can be imported
          NestMax,        \* bound on nested imports
          MAX_METHODS, MAX_CLASSES, MAX_INCLUDES,
          CLASS_HASH_SIZE,
          HashOf          \* class name -> hash

ASSUME ProgramAssumption ==
    /\ "Object" \notin ClassNames
    /\ {NestMax, MAX_METHODS, MAX_CLASSES, MAX_INCLUDES} \subseteq Nat
    /\ CLASS_HASH_SIZE \in Nat /\ \A n \in ClassNames \cup {"Object"} : HashOf[n] \in Nat

VARIABLES stage,     \* "text", "load", "run"; "rejected" by the C compiler; "hung"
          inputs,    \* files being read, innermost last, each with c_brace_depth
          included,  \* included_files
          mode,      \* which directive is open: the in_... flags
          current_class, category_name,
          class_superclasses,   \* recorded name and superclass pairs, in order
          current_methods,
          emitted,   \* constructors, in order
          classes, class_hash,  \* the runtime's
          written,   \* ghost: the method definitions of the source,
          declared   \* and its interfaces

translator == <<inputs, included, mode, current_class, category_name, class_superclasses,
                current_methods, emitted, written, declared>>
programVars == <<stage, translator, classes, class_hash>>

None == ""
NoMode == [interface |-> FALSE, implementation |-> FALSE, protocol |-> FALSE, category |-> FALSE]
Method(s, k) == [sel |-> s, kind |-> k]
Innermost == inputs[Len(inputs)]
InFunction == Innermost.braces > 0

-----------------------------------------------------------------------------
(* process_source, one directive at a time.  What the translator copies    *)
(* through but C does not accept makes the compiler reject the program.    *)

Reading == stage = "text" /\ UNCHANGED <<classes, class_hash>>
Rejected == stage' = "rejected" /\ UNCHANGED <<inputs, included, mode, current_class, category_name,
                class_superclasses, current_methods, emitted, written, declared>>

check_include_guard(f) == f \in included
Guarded(f) == IF Cardinality(included) < MAX_INCLUDES THEN included \cup {f} ELSE included

\* Mutant: the file is read without being noted.
ImportUnnoted(f) ==
    /\ ~check_include_guard(f) /\ Len(inputs) <= NestMax
    /\ inputs' = Append(inputs, [file |-> f, braces |-> 0])
    /\ UNCHANGED <<included, stage, mode, current_class, category_name, class_superclasses,
                   current_methods, emitted, written, declared>>

\* The file is noted before it is read, and the state of the including file
\* waits, except that the open directive is shared.
process_import(f) ==
    /\ ~check_include_guard(f) /\ Len(inputs) <= NestMax
    /\ included' = Guarded(f)
    /\ inputs' = Append(inputs, [file |-> f, braces |-> 0])
    /\ UNCHANGED <<stage, mode, current_class, category_name, class_superclasses,
                   current_methods, emitted, written, declared>>
EndOfInput ==
    /\ inputs' = SubSeq(inputs, 1, Len(inputs) - 1)
    /\ stage' = IF Len(inputs) = 1 THEN "load" ELSE stage
    /\ UNCHANGED <<included, mode, current_class, category_name, class_superclasses,
                   current_methods, emitted, written, declared>>

RecordSuper(n, s) ==
    IF Len(class_superclasses) < MAX_CLASSES
    THEN Append(class_superclasses, [name |-> n, super |-> s]) ELSE class_superclasses
Declared(n) == \E d \in declared : d.class = n
Implemented(n) == \E w \in written : w.class = n

\* A class declared twice, which is also what a category interface looks
\* like, is a struct defined twice.
process_interface(n, s) ==
    IF Declared(n) THEN Rejected
    ELSE /\ mode' = [mode EXCEPT !.interface = TRUE]
         /\ current_class' = n
         /\ class_superclasses' = RecordSuper(n, s)
         /\ declared' = declared \cup {[class |-> n, super |-> s]}
         /\ UNCHANGED <<stage, inputs, included, category_name, current_methods, emitted, written>>

process_implementation(n, category) ==
    /\ mode' = [mode EXCEPT !.implementation = TRUE, !.category = @ \/ category]
    /\ current_methods' = <<>>
    /\ current_class' = n
    /\ category_name' = (category_name \/ category)
    /\ UNCHANGED <<stage, inputs, included, class_superclasses, emitted, written, declared>>

process_protocol ==
    /\ mode' = [mode EXCEPT !.protocol = TRUE]
    /\ UNCHANGED <<stage, inputs, included, current_class, category_name, class_superclasses,
                   current_methods, emitted, written, declared>>

\* Accessors are written out in Objective-C, which nothing translates again.
process_property == mode.interface /\ Rejected
process_synthesize == mode.implementation /\ Rejected

process_method_declaration ==
    /\ mode.interface \/ mode.protocol
    /\ UNCHANGED <<stage, inputs, included, mode, current_class, category_name,
                   class_superclasses, current_methods, emitted, written, declared>>

Already(m) == \E w \in written : w.class = current_class /\ w.method = m
process_method_definition(m) ==
    IF Already(m) THEN Rejected    \* the same C function twice
    ELSE /\ written' = written \cup {[class |-> current_class, method |-> m,
                                      category |-> category_name]}
         /\ current_methods' = IF Len(current_methods) < MAX_METHODS /\ ~mode.category
                               THEN Append(current_methods, m) ELSE current_methods
         /\ UNCHANGED <<stage, inputs, included, mode, current_class, category_name,
                        class_superclasses, emitted, declared>>

\* "+" and "-" begin a method only outside C functions and inside a
\* directive; elsewhere they are copied, and a method is not C.
MethodText(m) ==
    IF InFunction \/ mode = NoMode THEN Rejected
    ELSE IF mode.implementation THEN process_method_definition(m)
    ELSE process_method_declaration

\* A C function's braces, or one in a string, which counts all the same.
Brace(d) ==
    /\ Innermost.braces + d \in 0 .. 1
    /\ inputs' = [inputs EXCEPT ![Len(inputs)].braces = @ + d]
    /\ UNCHANGED <<stage, included, mode, current_class, category_name, class_superclasses,
                   current_methods, emitted, written, declared>>

SuperName(n) ==
    LET at == {i \in 1 .. Len(class_superclasses) : class_superclasses[i].name = n}
    IN  IF at = {} THEN None
        ELSE class_superclasses[CHOOSE i \in at : \A j \in at : i <= j].super

\* A class with no methods gets no constructor; two for a class clash.
Constructor == [class |-> current_class, super |-> SuperName(current_class),
                methods |-> current_methods]
Emits == mode.implementation /\ ~category_name /\ current_methods # <<>>
process_end ==
    IF Emits /\ \E i \in 1 .. Len(emitted) : emitted[i].class = current_class THEN Rejected
    ELSE /\ emitted' = IF Emits THEN Append(emitted, Constructor) ELSE emitted
         /\ category_name' = (category_name /\ ~mode.implementation)
         /\ mode' = NoMode /\ current_class' = None /\ current_methods' = <<>>
         /\ UNCHANGED <<stage, inputs, included, class_superclasses, written, declared>>

\* Sources are block structured: a directive opens where none is open, and
\* an interface comes before its implementation.
process_source ==
    /\ Reading
    /\ \/ mode = NoMode /\ \E f \in Headers : process_import(f)
       \/ mode = NoMode /\ EndOfInput
       \/ mode = NoMode /\ \E n \in ClassNames, s \in ClassNames \cup {"Object", None} :
              n # s /\ ~Implemented(n) /\ process_interface(n, s)
       \/ mode = NoMode /\ \E n \in ClassNames, c \in BOOLEAN : process_implementation(n, c)
       \/ mode = NoMode /\ process_protocol
       \/ process_property \/ process_synthesize
       \/ mode # NoMode /\ \E m \in Methods : MethodText(m)
       \/ \E d \in {-1, 1} : Brace(d)
       \/ mode # NoMode /\ process_end

-----------------------------------------------------------------------------
(* The runtime.  A class is its place in classes; its metaclass holds the  *)
(* class methods.  Both go into the hash table under the one name.         *)

Nil == 0
Slot(n, i) == (HashOf[n] + i) % CLASS_HASH_SIZE
MethodEntry(c, meta) == [class |-> c, meta |-> meta]
NoEntry == MethodEntry(Nil, FALSE)

objc_lookUpClass(n) ==
    LET ends == {i \in 0 .. CLASS_HASH_SIZE - 1 :
                    LET e == class_hash[Slot(n, i)]
                    IN  e = NoEntry \/ classes[e.class].name = n}
    IN  IF ends = {} THEN NoEntry
        ELSE class_hash[Slot(n, CHOOSE i \in ends : \A j \in ends : i <= j)]

HashPut(h, n, e) ==
    [h EXCEPT ![Slot(n, CHOOSE i \in 0 .. CLASS_HASH_SIZE - 1 :
                            /\ h[Slot(n, i)] = NoEntry
                            /\ \A j \in 0 .. i - 1 : h[Slot(n, j)] # NoEntry)] = e]
FreeSlots == Cardinality({i \in DOMAIN class_hash : class_hash[i] = NoEntry})

\* The superclasses of c, c first.
Chain(cs, c) ==
    LET up[k \in 1 .. Len(cs) + 1] ==
            IF k = 1 THEN c ELSE IF up[k - 1] = Nil THEN Nil ELSE cs[up[k - 1]].super
    IN  SelectSeq([k \in 1 .. Len(cs) + 1 |-> up[k]], LAMBDA x : x # Nil)

\* The implementation a message runs, or None: the nearest on the chain.
objc_lookup_method(cs, c, m) ==
    LET ch == Chain(cs, c)
        has == {i \in 1 .. Len(ch) : m \in cs[ch[i]].methods}
    IN  IF has = {} THEN None ELSE cs[ch[CHOOSE i \in has : \A j \in has : i <= j]].name

\* A method that is already there, inherited ones included, is refused.
class_addMethod(cs, c, m) ==
    IF objc_lookup_method(cs, c, m) # None THEN cs
    ELSE [cs EXCEPT ![c].methods = @ \cup {m}]

objc_allocateClassPair(cs, super, n) ==
    Append(cs, [name |-> n, super |-> super, methods |-> {}])

\* A constructor as emitted: super looked up, pair allocated, methods added
\* in order, alloc and new for a root, pair registered.
RootMethod == Method("new", "cls")
Added(cs, c, ms) ==
    LET add[i \in 0 .. Len(ms)] == IF i = 0 THEN cs ELSE class_addMethod(add[i - 1], c, ms[i])
    IN  add[Len(ms)]
objc_registerClassPair(h, n, c) == HashPut(HashPut(h, n, MethodEntry(c, FALSE)), n, MethodEntry(c, TRUE))

RunConstructor ==
    /\ stage = "load" /\ emitted # <<>>
    /\ IF FreeSlots < 2 THEN stage' = "hung" /\ UNCHANGED <<classes, class_hash, emitted>>
       ELSE LET k == Head(emitted)
                super == IF k.super = None THEN Nil ELSE objc_lookUpClass(k.super).class
                c == Len(classes) + 1
                ms == k.methods \o (IF k.super = None THEN <<RootMethod>> ELSE <<>>)
            IN  /\ classes' = Added(objc_allocateClassPair(classes, super, k.class), c, ms)
                /\ class_hash' = objc_registerClassPair(class_hash, k.class, c)
                /\ emitted' = Tail(emitted)
                /\ UNCHANGED stage
    /\ UNCHANGED <<inputs, included, mode, current_class, category_name, class_superclasses,
                   current_methods, written, declared>>
Loaded ==
    /\ stage = "load" /\ emitted = <<>>
    /\ stage' = "run"
    /\ UNCHANGED <<translator, classes, class_hash>>

ObjectClass == [name |-> "Object", super |-> Nil,
                methods |-> {Method("init", "inst"), RootMethod}]
OPInit ==
    /\ stage = "text" /\ inputs = <<[file |-> "main", braces |-> 0]>> /\ included = {}
    /\ mode = NoMode /\ current_class = None /\ category_name = FALSE
    /\ class_superclasses = <<>> /\ current_methods = <<>> /\ emitted = <<>>
    /\ classes = <<ObjectClass>>
    /\ class_hash = objc_registerClassPair([i \in 0 .. CLASS_HASH_SIZE - 1 |-> NoEntry], "Object", 1)
    /\ written = {} /\ declared = {}

OPNext == process_source \/ RunConstructor \/ Loaded

OPSpec == OPInit /\ [][OPNext]_programVars

-----------------------------------------------------------------------------
\* The stages, and tables within their limits.
OPTypeOK ==
    /\ stage \in {"text", "load", "run", "rejected", "hung"}
    /\ Len(class_superclasses) <= MAX_CLASSES /\ Len(current_methods) <= MAX_METHODS
    /\ Cardinality(included) <= MAX_INCLUDES

\* No file is read from within itself, so that translation ends: a file is
\* noted before it is read.  Once the table is full nothing is noted.
NoRecursiveImport ==
    Cardinality(included) < MAX_INCLUDES =>
        \A i, j \in 1 .. Len(inputs) : inputs[i].file = inputs[j].file => i = j

\* A name looked up yields the class first registered with it, never its
\* metaclass and never nothing, however the table is filled.
LookupFindsClass ==
    \A c \in 1 .. Len(classes) :
        LET e == objc_lookUpClass(classes[c].name)
        IN  /\ ~e.meta /\ e.class # Nil
            /\ classes[e.class].name = classes[c].name /\ e.class <= c

\* Which class, of those up the chain of c, defines m in the source.
Definers(c, m) ==
    {a \in {Chain(classes, c)[i] : i \in 1 .. Len(Chain(classes, c))} :
        \E w \in written : w.class = classes[a].name /\ w.method = m /\ ~w.category}
Nearest(c, m) == classes[CHOOSE a \in Definers(c, m) : \A b \in Definers(c, m) : b <= a].name
WithinLimits == Cardinality({w.method : w \in written}) <= MAX_METHODS

\* A program that compiles loses no method without a word: a message to a
\* class that defines the method, or inherits it, is answered, and by that
\* definition when no class further up has it too.  Category methods and
\* methods beyond the table are the exceptions.
MethodsRegistered ==
    stage = "run" /\ WithinLimits =>
        \A c \in 2 .. Len(classes), m \in Methods :
            Definers(c, m) # {} =>
                /\ objc_lookup_method(classes, c, m) # None
                /\ (Cardinality(Definers(c, m)) = 1 /\ \A a \in 1 .. Len(classes) :
                        m \in classes[a].methods => \E w \in written : w.class = classes[a].name
                                                        /\ w.method = m)
                   => objc_lookup_method(classes, c, m) = Nearest(c, m)

\* A class has the superclass its interface names, if that was loaded first
\* and the interface was noted, and then it inherits new from it; otherwise
\* it is a root.
SuperclassKept ==
    stage = "run" /\ Cardinality(declared) <= MAX_CLASSES =>
        \A c \in 2 .. Len(classes) :
            classes[c].super = Nil <=>
                ~\E d \in declared, b \in 1 .. c - 1 :
                    d.class = classes[c].name /\ d.super = classes[b].name

\* "The runtime locates the method implementation for the given receiver and
\* selector by walking the class hierarchy": the nearest definition runs.
NearestDefinitionRuns ==
    stage = "run" /\ WithinLimits =>
        \A c \in 2 .. Len(classes), m \in Methods :
            Definers(c, m) # {} => objc_lookup_method(classes, c, m) = Nearest(c, m)
=============================================================================
