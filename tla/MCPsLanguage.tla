---------------------------- MODULE MCPsLanguage ----------------------------
(* The PostScript interpreter as a program sees it: scanner, strings, arrays *)
(* and names, files, the operand and execution stacks, and the interpreter's *)
(* own file PS.VM.  part says which one moves.                               *)
EXTENDS PsScanner, PsStrings, PsStreams, PsExec, PsStack

VARIABLE part

MCAlphabets == {{"1", "8", "+", ".", "e", "b"}, {"(", ")", "{", "}", "cr"},
                {"(", ")", "\\", "1", "x"}, {"%", "cr", "{", "}", "/"},
                {"[", "]", "x", "sp", "/"}}
MCContents == {<<1, 9, 2>>}
MCInts == {-1}

textVars == <<scanVars, stringVars>>
fileVars == <<streamVars, diskVars>>
machineVars == <<execVars, stackVars>>
mcVars == <<textVars, fileVars, machineVars, part>>

MCInit ==
    /\ part \in {"scanner", "strings", "arrays", "numbers", "streams", "disk",
                 "execution", "operands"}
    /\ ScanInit /\ StringsInit /\ StreamsInit /\ DiskInit /\ EXInit /\ SKInit
    /\ part # "scanner" => text = IF Newlines THEN <<"cr">> ELSE << >>
    /\ part # "streams" => orderly
    /\ part # "disk" => checkpoints
MCNext ==
    /\ UNCHANGED part
    /\ \/ part = "scanner" /\ ScanNext /\ UNCHANGED <<stringVars, fileVars, machineVars>>
       \/ part = "strings" /\ StringOp /\ UNCHANGED <<scanVars, fileVars, machineVars>>
       \/ part = "arrays" /\ ArrayOp /\ UNCHANGED <<scanVars, fileVars, machineVars>>
       \/ part = "numbers" /\ NumberOp /\ UNCHANGED <<scanVars, fileVars, machineVars>>
       \/ part = "streams" /\ StreamsStep /\ UNCHANGED <<textVars, diskVars, machineVars>>
       \/ part = "disk" /\ DiskNext /\ UNCHANGED <<textVars, streamVars, machineVars>>
       \/ part = "execution" /\ EXNext /\ UNCHANGED <<textVars, fileVars, stackVars>>
       \/ part = "operands" /\ SKNext /\ UNCHANGED <<textVars, fileVars, execVars>>

\* The interpreter goes on: it scans what it was given and executes.
MCScan == part = "scanner" /\ ScanNext /\ UNCHANGED <<stringVars, fileVars, machineVars, part>>
MCRun == part = "execution" /\ Interpreter /\ UNCHANGED <<textVars, fileVars, stackVars, part>>
MCSpec == MCInit /\ [][MCNext]_mcVars /\ WF_mcVars(MCScan) /\ WF_mcVars(MCRun)

-----------------------------------------------------------------------------
\* The scanner: it knows when a line is complete exactly when the tokens are,
\* its entries agree up to a numeral too long for the one of strings, lines lose
\* no character and numbers are read exactly.
ScannerConsistent ==
    part = "scanner" => /\ ScanTypeOK /\ LineCompleteExact /\ ScannersAgree
                        /\ LinesLoseNothing /\ NumbersExact

\* Strings, arrays and names: names are interned and found, equality is one of
\* texts, copies keep their source, searches agree, numerals are exact unless
\* they overrun their buffer, and those that do are known.
StringsConsistent ==
    part \in {"strings", "arrays", "numbers"} =>
        /\ StringsTypeOK /\ NamesInterned /\ NamesFound /\ EqualityConsistent
        /\ CopiesKeepSource /\ SearchesAgree /\ NumeralExact

\* Files: the standard ones stay, the list is the open ones, a file object
\* reaches its own file, reading skips nothing, and what was written is there
\* when the file is closed, unless the host refused it.
FilesConsistent ==
    part = "streams" => /\ StreamsTypeOK /\ StandardKept /\ FilesListed
                        /\ ObjectsReachOwnFile /\ NothingLost

\* PS.VM: a session starts from a whole file, and masks mean the bitmaps.
DiskConsistent == part = "disk" => DiskTypeOK /\ StartsWhole /\ MasksMeanBitmaps

\* The execution stack: its marks are the live calls until an unwinding gets
\* stuck, the interpreter meets none of the cases it calls impossible, at most
\* one exit is pending, and the files of run are closed.  The operand stack
\* loses and shares no node.
StacksConsistent ==
    /\ part = "execution" => /\ EXTypeOK /\ MarksMatchFrames /\ NothingImpossible
                             /\ OnePendingExit /\ RunFilesClosed
    /\ part = "operands" => NodesConserved

\* The linked lists of the operand stack behave as a sequence whose commands
\* take all of their operands or none; cvi and cvr of a procedure's text leave
\* what the scanner pushed in place of it, and a full stack is not restored.
StackIsSequence ==
    /\ Sequence!OSInit
    /\ [][part = "operands" => [Sequence!OSNext]_<<Operands, crashed>>]_mcVars

\* What a step may never do: write where no object held has write access, or
\* save a font cache other than the one an idle session has found.
StepsProtect ==
    [][/\ part \in {"strings", "arrays", "numbers"} => WritesCovered
       /\ part = "disk" => KeepsCache]_mcVars

\* Every text is scanned to its end, unless the last typed line leaves a string
\* open (scanner.c), and a program that is interrupted ends, whatever it is
\* executing, unless it has closed the file it is run from (exec.c).
MCProgramsEnd ==
    /\ part = "scanner" => ScansEnd
    /\ part = "execution" => InterruptEndsProgram
=============================================================================
