---------------------------- MODULE PsSnapshots ----------------------------
(***************************************************************************)
(* What save, restore and the checkpoint file promise a PostScript         *)
(* program: memory as a function of addresses, a stack of whole copies of  *)
(* it, and the copy a new session starts from.  Module PsVM, which         *)
(* keeps undo records instead of copies, is shown to implement this.       *)
(***************************************************************************)
EXTENDS Naturals, Sequences

VARIABLES now,      \* address -> content
          copies    \* the copy each save took, oldest first

snapshotVars == <<now, copies>>

Grow == /\ DOMAIN now \subseteq DOMAIN now'
        /\ \A a \in DOMAIN now : now'[a] = now[a]
        /\ UNCHANGED copies

Write == /\ DOMAIN now' = DOMAIN now
         /\ \E a \in DOMAIN now : \A b \in DOMAIN now \ {a} : now'[b] = now[b]
         /\ UNCHANGED copies

SaveCopy == /\ copies' = Append(copies, now)
            /\ UNCHANGED now

RestoreCopy(n) == /\ n \in 0 .. Len(copies) - 1
                  /\ now' = copies[n + 1]
                  /\ copies' = SubSeq(copies, 1, n)

\* A checkpoint is written and a new session starts from it.
Restart == /\ now' = IF copies = <<>> THEN now ELSE copies[1]
           /\ copies' = <<>>

SnapInit == copies = <<>>

SnapNext == \/ Grow \/ Write \/ SaveCopy \/ Restart
            \/ \E n \in 0 .. Len(copies) - 1 : RestoreCopy(n)

SnapSpec == SnapInit /\ [][SnapNext]_snapshotVars
=============================================================================
