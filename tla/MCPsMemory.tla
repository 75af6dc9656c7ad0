----------------------------- MODULE MCPsMemory -----------------------------
(* The memory of the PostScript interpreter with save and restore, and its   *)
(* dictionaries with the name cache.  part says which one moves.             *)
EXTENDS PsVM, PsDict

VARIABLE part

MCBitOf == [d \in DictIds |-> IF d = SysDict THEN 0 ELSE 1]

mcVars == <<vmVars, dictVars, part>>
MCInit == part \in {"memory", "dictionaries"} /\ VMInit /\ DCInit
MCNext ==
    /\ UNCHANGED part
    /\ \/ part = "memory" /\ VMNext /\ UNCHANGED dictVars
       \/ part = "dictionaries" /\ DCNext /\ UNCHANGED vmVars
MCSpec == MCInit /\ [][MCNext]_mcVars

-----------------------------------------------------------------------------
\* Memory: no object that a program can reach denotes a released cell.
MemoryConsistent == part = "memory" => VMTypeOK /\ NoDanglingObjects

\* Memory with its log of changes behaves as if every save had copied it whole:
\* save, restore and the accesses between them are the steps of PsSnapshots.
RestoresSnapshots ==
    /\ Snapshots!SnapInit
    /\ [][part = "memory" => [Snapshots!SnapNext]_(Snapshots!snapshotVars)]_mcVars

\* A name denotes what a search of the dictionary stack finds, although it is
\* read from a cached place that definitions, begins, ends and restores outdate.
DictionariesConsistent ==
    part = "dictionaries" => /\ DCTypeOK /\ LookupCorrect
                             /\ CachedPlaceKnown /\ CachedAccessCurrent
=============================================================================
