------------------------------ MODULE MCMach4 ------------------------------
(* The Mach 4 port object and a name space with its entry table, on small    *)
(* tables.  part says which one moves.                                       *)
EXTENDS Mach4Port, Mach4Space, TLC

VARIABLE part

MCDnSizes == <<2, 3, 0>>
MCSizes == <<2, 4, 6, 6>>
MCSymmetry == Permutations(Growers)

mcVars == <<M4vars, SPvars, part>>
MCInit == part \in {"port", "space"} /\ M4Init /\ SPInit
MCNext ==
    /\ UNCHANGED part
    /\ \/ part = "port" /\ M4Next /\ UNCHANGED SPvars
       \/ part = "space" /\ SPNext /\ UNCHANGED M4vars
MCSpec == MCInit /\ [][MCNext]_mcVars
=============================================================================
