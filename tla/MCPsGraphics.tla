---------------------------- MODULE MCPsGraphics ----------------------------
(* Paths and the font cache of the PostScript interpreter.  part says which  *)
(* one moves.                                                                *)
EXTENDS PsPaths, PsFontCache, TLC

VARIABLE part

MCLimits == [mids |-> 1, items |-> 1, words |-> 3]
MCStrings == {<<c>> : c \in Chars}
MCSymmetry == Permutations(Chars)

MCEdges == <<2, 6, 6, 2>>

mcVars == <<pathVars, clipVars, fontVars, part>>
MCInit == part \in {"paths", "clipping", "fonts"} /\ PathsInit /\ ClipStart /\ FontInit
MCNext ==
    /\ UNCHANGED part
    /\ \/ part = "paths" /\ PathsNext /\ UNCHANGED <<clipVars, fontVars>>
       \/ part = "clipping" /\ ClipNext /\ UNCHANGED <<pathVars, fontVars>>
       \/ part = "fonts" /\ FontNext /\ UNCHANGED <<pathVars, clipVars>>
MCSpec == MCInit /\ [][MCNext]_mcVars

-----------------------------------------------------------------------------
\* Path elements are never lost or shared, a borrowed path stays as it was, the
\* box covers its path, a closed subpath ends where it began, and a path is
\* filled as whole polygons, which are clipped on the way as they would be whole.
PathsConsistent ==
    /\ part = "paths" => /\ PathsTypeOK /\ ElementsConserved /\ BorrowedKept
                         /\ BoxCoversPath /\ ClosesWhereItBegan /\ FedAsPolygons
                         /\ CutByLimit
    /\ part = "clipping" => ClippedAsWhole

\* The font cache accounts for all of its storage and items, shows the character
\* that was asked for, and meets none of its fatal conditions.
FontsConsistent ==
    part = "fonts" => /\ FontTypeOK /\ StorageExact /\ ItemsConserved
                      /\ HitsShowTheCharacter /\ NeverDies
=============================================================================
