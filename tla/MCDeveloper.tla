---------------------------- MODULE MCDeveloper ----------------------------
(* What src/Developer builds on the kernel: the BSD server (processes and    *)
(* descriptors, accounts and memory) and the Objective-C preprocessor and    *)
(* runtime.  part says which module moves.                                   *)
EXTENDS BsdServer, ObjcProgram, ObjcRuntime

VARIABLE part

MCIncrements == {-1, 0, 1}
MCHashOf == [n \in ClassNames \cup {"Object"} |-> IF n = "Object" THEN 5 ELSE 4]
MCMethods == {Method("init", "inst"), Method("draw", "cls")}
MCNameHash == [n \in {"x", "y", "z"} |-> IF n = "z" THEN 6 ELSE 3]
MCEncodings == {<<r, "@", ":">> \o s : r \in {"v", "@"},
                   s \in {<<>>} \cup [1 .. 1 -> {"i", "@"}] \cup [1 .. 2 -> {"i", "@", ":"}]}

serverVars == <<bsdVars, accountVars>>
objcVars == <<programVars, objectVars, metaVars, reflectionVars>>
mcVars == <<serverVars, objcVars, part>>

MCInit ==
    /\ part \in {"processes", "accounts", "program", "objects", "metadata",
                "names", "methods", "lists"}
    /\ BSInit /\ BAInit /\ OPInit /\ OOInit /\ OMInit /\ ORInit
MCNext ==
    /\ UNCHANGED part
    /\ \/ part = "processes" /\ BSNext /\ UNCHANGED <<accountVars, objcVars>>
       \/ part = "accounts" /\ BANext /\ UNCHANGED <<bsdVars, objcVars>>
       \/ part = "program" /\ OPNext /\ UNCHANGED <<serverVars, objectVars, metaVars, reflectionVars>>
       \/ part = "objects" /\ OONext /\ UNCHANGED <<serverVars, programVars, metaVars, reflectionVars>>
       \/ part = "metadata" /\ OMNext
             /\ UNCHANGED <<serverVars, programVars, objectVars, reflectionVars>>
       \/ /\ \/ part = "names" /\ NamesMove
             \/ part = "methods" /\ MethodsMove
             \/ part = "lists" /\ ListsMove
          /\ UNCHANGED <<serverVars, programVars, objectVars, metaVars>>

\* The server's loop turns, and autoreleasePool_pop goes on once begun.
MCReap == part = "processes" /\ ReapHalf /\ UNCHANGED <<accountVars, objcVars, part>>
MCServe == part = "processes" /\ ServeTurn /\ UNCHANGED <<accountVars, objcVars, part>>
MCPop == part = "objects" /\ PopStep /\ UNCHANGED <<serverVars, programVars, metaVars, reflectionVars, part>>
MCSpec == MCInit /\ [][MCNext]_mcVars /\ WF_mcVars(MCReap) /\ WF_mcVars(MCServe) /\ WF_mcVars(MCPop)

-----------------------------------------------------------------------------
\* The BSD server keeps its accounts: the process count is exact, a descriptor
\* reaches the file its own process opened, select reports what was asked for,
\* dead processes are zombies until reaped, breaks and mappings are covered.
ServerConsistent ==
    /\ part = "processes" => /\ BSTypeOK /\ ProcessCountExact /\ DescriptorsReachOwnFile
                             /\ SelectReportsAsked /\ DeadAreZombies
    /\ part = "accounts" => BATypeOK /\ BreakCovered /\ MapsCovered

\* A translated program runs as it was declared: no header imports itself, the
\* runtime finds each class, its methods and its superclass.
ProgramsRun ==
    part = "program" => /\ OPTypeOK /\ NoRecursiveImport /\ LookupFindsClass
                        /\ MethodsRegistered /\ SuperclassKept

\* The counts of the reference table are the references that variables and
\* pools hold, and an object lives while it is referenced.
ObjectsCounted ==
    part = "objects" => OOTypeOK /\ CountsMatchReferences /\ AliveWhileReferenced

\* Classes built at run time: instance variables never overlap, and conforming
\* to a protocol is reachability in the graph of classes and protocols.  Names
\* and methods are found where they were entered, in tables that wrap, collide
\* and grow, and lists stay inside their memory (objcrt.c).
MetadataConsistent ==
    /\ part = "metadata" => IvarsDisjoint /\ ConformanceIsReachability
    /\ part = "names" => NamesFound /\ EncodingsRead
    /\ part = "methods" => MethodsFound
    /\ part = "lists" => ListsInBounds

\* The server waits for each child that has died (bsd.c), unless the host never
\* answers a call the loop makes for a client, and popping an
\* autorelease pool ends (objcrt.c).
MCLoopsEnd ==
    /\ part = "processes" => ChildrenReaped
    /\ part = "objects" => PopsEnd
=============================================================================
