------------------------------- MODULE PsExec -------------------------------
(***************************************************************************)
(* The PostScript execution machinery (PostScript/Adobe/exec.c) under the  *)
(* interactive loop of control.c.  Procedures, loops and files being run   *)
(* live on the execution stack; operators that call back into the          *)
(* interpreter (pathforall, run) start a nested psExecute, a C frame whose *)
(* place on the stack an exec mark remembers.  exit, stop, errors,         *)
(* restore and stack overflow leave several of these at once, by popping   *)
(* the stack here and by longjmp there, and the two must stay in step.     *)
(* Instructions are chosen freely; operands are left out (PsStack).        *)
(***************************************************************************)
EXTENDS Integers, Sequences, FiniteSets

CONSTANTS ExecMax,        \* initExecstkSize
          FrameMax,       \* bound on nested psExecute calls
          BodyMax,        \* bound on the length of a procedure
          CountMax,       \* bound on repeat counts and path elements
          Files,
          KShow,          \* do programs use kshow, which ignores cleanup?
          NoAccessProcs   \* do programs hand noaccess procedures to operators?

ASSUME ExecAssumption ==
    /\ ExecMax \in Nat /\ FrameMax \in Nat /\ BodyMax \in Nat /\ CountMax \in Nat
    /\ {KShow, NoAccessProcs} \subseteq BOOLEAN

VARIABLES execStack,  \* bottom first
          frames,     \* live psExecute calls, outermost first
          execAbort,
          handler,    \* what SIGINT runs: "exec" or "input"
          pc,         \* "inner", "return", "idle", "quit", "cant" or "crashed"
          cleanup,    \* what the last psExecute returned
          phase,      \* where LineLoop is
          open,       \* files open
          spilled,    \* those open when calls were last abandoned
          stale       \* the stack still holds what abandoned calls left on it

execVars == <<execStack, frames, execAbort, handler, pc, cleanup, phase, open, spilled, stale>>

Item(t, n) == [type |-> t, n |-> n]
Exec(flag) == Item("exec", IF flag THEN 1 ELSE 0)
LoopMark == Item("loop", 0)
Proc(n) == Item("proc", n)     \* an array with n elements to go
Stream(f) == Item("stm", f)
Cmd(name) == Item(name, 0)     \* an internal command or a name

Top == execStack[Len(execStack)]
Popped(s) == SubSeq(s, 1, Len(s) - 1)
FrameTop == frames[Len(frames)]
StreamsOn(s) == {f \in Files : \E i \in 1 .. Len(s) : s[i] = Stream(f)}

-----------------------------------------------------------------------------
(* Overflow.  The exception passes every psExecute up to the outermost,    *)
(* which makes an array of the full stack and executes the error.  Only    *)
(* when the full stack is the execution stack is that stack cleared.  The  *)
(* files open at that moment are spilled: nobody unwinds them any more.    *)

HandleStackOverFlow(base, outer) ==
    /\ execStack' = base \o <<Exec(FALSE), Cmd("error")>>
    /\ frames' = <<outer>>
    /\ spilled' = open'
    /\ stale' = (base # <<>>)
    /\ pc' = "inner"

\* If even the first psExecute believes itself nested, because the stack was
\* not empty when it began, nobody handles the overflow: LineLoop quits, or
\* for want of a handler the raise has no effect and psExecute returns.
Overflow(base, outer) ==
    IF outer.outermost THEN HandleStackOverFlow(base, outer)
    ELSE /\ pc' = IF outer.kind \in {"line", "invxit"} THEN "quit" ELSE "return"
         /\ frames' = <<outer>>
         /\ spilled' = open'
         /\ UNCHANGED <<execStack, stale>>

\* A step that leaves s on the execution stack, or overflows on the way.
Pushed(s) ==
    IF Len(s) > ExecMax THEN Overflow(<<>>, frames[1])
    ELSE execStack' = s /\ pc' = "inner" /\ UNCHANGED <<frames, spilled, stale>>
Stay == UNCHANGED <<execAbort, cleanup, open, handler, phase>>
OpStackFull(s) ==
    /\ Len(s) + 2 <= ExecMax
    /\ Stay /\ Overflow(s, frames[1])

CantHappen == pc' = "cant" /\ UNCHANGED <<execStack, frames, spilled, stale>>

\* psExecute(ob) called by a C function with the stack s: a frame, its mark
\* and the object.  ExecPush runs before InnerExecute's handler is in place:
\* its invalidaccess error goes to psExecute, which does not expect one.
psExecute(s, fs, ob, access, call) ==
    LET f == [kind |-> call.kind, left |-> call.left, body |-> ob,
              outermost |-> s = <<>>]
    IN  IF ~access THEN CantHappen
        ELSE IF Len(s) + 2 > ExecMax
             THEN Overflow(<<>>, IF fs = <<>> THEN f ELSE fs[1])
             ELSE /\ execStack' = s \o <<Exec(FALSE), ob>>
                  /\ frames' = Append(fs, f)
                  /\ pc' = "inner" /\ UNCHANGED <<spilled, stale>>

-----------------------------------------------------------------------------
(* Unwinding. *)

\* The stack above the topmost object of one of the given types.
LastOf(s, types) ==
    LET at == {i \in 1 .. Len(s) : s[i].type \in types}
    IN  IF at = {} THEN 0 ELSE CHOOSE i \in at : \A j \in at : j <= i

\* exit: to the innermost loop mark, or tell this psExecute's caller to
\* clean up and exit in the surrounding context.
UnwindExit(s) ==
    LET i == LastOf(s, {"loop", "exec"})
    IN  IF s[i] = LoopMark THEN SubSeq(s, 1, i)
        ELSE SubSeq(s, 1, i - 1) \o (IF i = 1 THEN <<>> ELSE <<Cmd("exit")>>) \o <<Exec(TRUE)>>
\* Mutant: the mark of the psExecute that stops stays.
UnwindStopKeepsMark(s) == SubSeq(s, 1, LastOf(s, {"exec"}))
\* stop: this psExecute's mark goes too.
UnwindStop(s) == SubSeq(s, 1, LastOf(s, {"exec"}) - 1)
\* An error that discards this context and every one below it.
ResetExecStk(s, err) ==
    LET i == LastOf(s, {"exec"})
    IN  IF i = 1 THEN SubSeq(s, 1, 1) \o <<Cmd(err)>>
        ELSE SubSeq(s, 1, i - 1) \o <<Cmd(err), Cmd("@reset"), Exec(TRUE)>>
ClosedBy(s, keep) == StreamsOn(SubSeq(s, keep + 1, Len(s)))

\* Unwinding to keep closes the files it meets.  It does not get past one that
\* is closed already, by its own program or with another object of its number:
\* CloseFile's error leaves that file, and what is below, on the stack.
ClosedFiles(s) ==
    {i \in 1 .. Len(s) : /\ s[i] \in {Stream(f) : f \in Files}
                         /\ s[i].n \notin open \/ \E j \in i + 1 .. Len(s) : s[j] = s[i]}
Stuck(s, keep) == \E i \in ClosedFiles(s) : i > keep
StuckAt(s) == CHOOSE i \in ClosedFiles(s) : \A j \in ClosedFiles(s) : j <= i
\* In an operator the error is one like others.
StuckInOperator(s) ==
    /\ open' = open \ ClosedBy(s, StuckAt(s))
    /\ Pushed(Append(SubSeq(s, 1, StuckAt(s)), Cmd("error")))
    /\ UNCHANGED <<execAbort, cleanup, handler, phase>>
\* A psExecute that stops passes it up: to the InnerExecute that called it,
\* whose stack keeps a mark too many, to LineLoop, which quits, or to nobody,
\* and then CloseFile goes on.
StuckInStop(s, abort) ==
    LET t == Append(SubSeq(s, 1, StuckAt(s)), Cmd("error"))
    IN  /\ open' = open \ ClosedBy(s, StuckAt(s))
        /\ execAbort' = abort /\ UNCHANGED <<cleanup, handler, phase>>
        /\ IF Len(frames) = 1
           THEN /\ pc' = IF FrameTop.kind \in {"line", "invxit"} THEN "quit" ELSE "crashed"
                /\ UNCHANGED <<execStack, frames, spilled, stale>>
           ELSE IF Len(t) > ExecMax THEN Overflow(<<>>, frames[1])
           ELSE /\ execStack' = t /\ frames' = Popped(frames) /\ pc' = "inner"
                /\ spilled' = open' /\ stale' = TRUE

\* PS_STOPEXEC reaches the psExecute of the top frame.  A nested one asks
\* the level below to abort; an abort that was pending has been served.
StopExec(s, abort) ==
    IF Stuck(s, LastOf(s, {"exec"})) THEN StuckInStop(s, abort)
    ELSE /\ open' = open \ ClosedBy(s, LastOf(s, {"exec"}) - 1)
         /\ execStack' = IF FrameTop.outermost THEN <<>> ELSE UnwindStop(s)
         /\ execAbort' = (abort \/ ~FrameTop.outermost)
         /\ stale' = (stale /\ ~FrameTop.outermost)
         /\ cleanup' = ~FrameTop.outermost
         /\ pc' = "return"
         /\ UNCHANGED <<frames, spilled, handler, phase>>

\* PS_ERROR reaches InnerExecute: the handler of the error is pushed.
Error(s) == Stay /\ Pushed(Append(s, Cmd("error")))

-----------------------------------------------------------------------------
(* Loops and control operators.  s is the stack the command finds.         *)

MarkLoop(s) == Append(s, LoopMark)
UnmarkLoop(s) ==
    IF s[Len(s)] = LoopMark THEN Stay /\ Pushed(Popped(s))
    ELSE CantHappen /\ Stay

\* if, ifelse and exec push a procedure or nothing.
PushesProc(s) == \E n \in 0 .. BodyMax : Stay /\ Pushed(Append(s, Proc(n)))

Repeat(s) ==
    \E n \in 1 .. BodyMax, i \in 0 .. CountMax :
        Stay /\ Pushed(MarkLoop(s) \o <<Proc(n), Item("int", i), Cmd("@repeat")>>)
CRepeat(s) ==
    LET i == s[Len(s)].n
        body == s[Len(s) - 1]
    IN  IF i > 0 THEN Stay /\ Pushed(Popped(s) \o <<Item("int", i - 1), Cmd("@repeat"), body>>)
        ELSE UnmarkLoop(SubSeq(s, 1, Len(s) - 2))

\* for with integers: initial i, increment 1 or -1, limit k.
For(s) ==
    \E n \in 1 .. BodyMax, j \in {-1, 1}, i, k \in 0 .. CountMax :
        Stay /\ Pushed(MarkLoop(s) \o <<Proc(n), Item("int", k), Item("int", j),
                                Item("int", i), Cmd("@ifor")>>)
CIFor(s) ==
    LET z == Len(s)
        i == s[z].n
        j == s[z - 1].n
        k == s[z - 2].n
    IN  IF IF j > 0 THEN i > k ELSE i < k THEN UnmarkLoop(SubSeq(s, 1, z - 4))
        ELSE Stay /\ Pushed(SubSeq(s, 1, z - 1) \o <<Item("int", i + j), Cmd("@ifor"), s[z - 3]>>)

Loop(s) == \E n \in 1 .. BodyMax : Stay /\ Pushed(MarkLoop(s) \o <<Proc(n), Cmd("@loop")>>)
CLoop(s) == Stay /\ Pushed(s \o <<Cmd("@loop"), s[Len(s)]>>)

\* forall over an array: the rest of the array is on the stack.
PSArrayForAll(s) ==
    \E n \in 1 .. BodyMax, k \in 0 .. CountMax :
        Stay /\ Pushed(MarkLoop(s) \o <<Proc(n), Item("rest", k), Cmd("@arrayforall")>>)
ArrayForAll(s) ==
    LET k == s[Len(s)].n
    IN  IF k # 0
        THEN Stay /\ Pushed(Popped(s) \o <<Item("rest", k - 1), Cmd("@arrayforall"), s[Len(s) - 1]>>)
        ELSE UnmarkLoop(SubSeq(s, 1, Len(s) - 2))

\* Streams above the point of exit are closed; a loop mark found is popped.
Exit(s) ==
    LET t == UnwindExit(s)
    IN  IF Stuck(s, LastOf(s, {"loop", "exec"})) THEN StuckInOperator(s)
        ELSE
        /\ open' = open \ ClosedBy(s, LastOf(s, {"loop", "exec"}))
        /\ Pushed(IF t[Len(t)] = LoopMark THEN Popped(t) ELSE t)
        /\ UNCHANGED <<execAbort, cleanup, handler, phase>>
Stop(s) == StopExec(s, FALSE)

\* restore finds a young object on a stack.  At the bottom the reset leaves
\* the stack to this psExecute and the error on it.
InvalidRestore(s) ==
    IF Stuck(s, LastOf(s, {"exec"})) THEN StuckInOperator(s)
    ELSE /\ open' = open \ ClosedBy(s, LastOf(s, {"exec"}))
         /\ Pushed(ResetExecStk(s, "error"))
         /\ UNCHANGED <<execAbort, cleanup, handler, phase>>
CReset(s) == InvalidRestore(Popped(s))

\* Operators that call psExecute: pathforall and kshow once per element,
\* run once, on a file it opens.
psPathForAll(s) ==
    \E n \in 0 .. BodyMax, k \in 1 .. CountMax, kind \in {"pathforall", "kshow"},
       access \in {TRUE, ~NoAccessProcs} :
        /\ Len(frames) < FrameMax
        /\ kind = "kshow" => KShow
        /\ Stay /\ psExecute(s, frames, Proc(n), access, [kind |-> kind, left |-> k - 1])
PSRun(s) ==
    \E f \in Files \ open :
        /\ Len(frames) < FrameMax
        /\ open' = open \cup {f}
        /\ psExecute(s, frames, Stream(f), TRUE, [kind |-> "run", left |-> 0])
        /\ UNCHANGED <<execAbort, cleanup, handler, phase>>

\* "currentfile closefile", or reading the file that is executed to its end;
\* a program may have kept the file object of any call below it.
CloseFile(s) ==
    \E f \in StreamsOn(s) \cap open :
        /\ open' = open \ {f} /\ Pushed(s)
        /\ UNCHANGED <<execAbort, cleanup, handler, phase>>

\* One operator, name or literal of the program.
Instruction(s) ==
    \/ Stay /\ Pushed(s)
    \/ OpStackFull(s) \/ Error(s)
    \/ PushesProc(s) \/ Repeat(s) \/ For(s) \/ Loop(s) \/ PSArrayForAll(s)
    \/ Exit(s) \/ Stop(s) \/ InvalidRestore(s)
    \/ psPathForAll(s) \/ PSRun(s) \/ CloseFile(s)

-----------------------------------------------------------------------------
(* InnerExecute's loop: what is on top of the stack is executed.           *)

ExecProc ==
    /\ Top.type = "proc"
    /\ CASE Top.n = 0 -> Stay /\ Pushed(Popped(execStack))
         [] Top.n = 1 -> Instruction(Popped(execStack))
         [] OTHER -> Instruction(Append(Popped(execStack), Proc(Top.n - 1)))

\* A token of the file, or its end, or a syntax error: both close it.  GetStream
\* refuses a file that was closed meanwhile, which stays where it is.
ExecStream ==
    \/ Top.type = "stm" /\ Top.n \notin open /\ Error(execStack)
    \/ /\ Top.type = "stdin" \/ (Top.type = "stm" /\ Top.n \in open)
       /\ Instruction(execStack)
    \/ /\ Top.type = "stdin" \/ (Top.type = "stm" /\ Top.n \in open)
       /\ open' = open \ StreamsOn(<<Top>>)
       /\ \/ Pushed(Popped(execStack))
          \/ Pushed(Append(Popped(execStack), Cmd("error")))
       /\ UNCHANGED <<execAbort, cleanup, handler, phase>>

\* An error's handler stops (the default) or returns (a program's own).
ExecCmd ==
    LET s == Popped(execStack)
    IN  CASE Top.type = "@repeat" -> CRepeat(s)
          [] Top.type = "@ifor" -> CIFor(s)
          [] Top.type = "@loop" -> CLoop(s)
          [] Top.type = "@arrayforall" -> ArrayForAll(s)
          [] Top.type = "@reset" -> CReset(s)
          [] Top.type = "@invxit" -> Error(s)
          [] Top.type = "exit" -> Exit(s)
          [] Top.type = "error" -> Stop(s) \/ (Stay /\ Pushed(s))
          [] Top.type = "loop" -> CantHappen /\ Stay
          [] OTHER -> FALSE

ExecMark ==
    /\ Top.type = "exec"
    /\ execStack' = Popped(execStack)
    /\ cleanup' = (Top.n = 1)
    /\ pc' = "return"
    /\ UNCHANGED <<frames, execAbort, handler, phase, open, spilled, stale>>

InnerExecute ==
    /\ pc = "inner"
    /\ IF execAbort
       THEN IF Len(execStack) = ExecMax
            THEN Stay /\ Overflow(<<>>, frames[1])
            ELSE StopExec(execStack, FALSE)  \* the interrupt command is pushed and run
       ELSE ExecProc \/ ExecStream \/ ExecCmd \/ ExecMark

\* psExecute returns to the C function that called it.
Return ==
    LET fs == Popped(frames)
        call == [FrameTop EXCEPT !.left = @ - 1]
    IN  /\ pc = "return" /\ frames # <<>>
        /\ FrameTop.kind \in {"run", "pathforall", "kshow"}
        /\ UNCHANGED <<execAbort, cleanup, handler, phase, open>>
        /\ IF FrameTop.left > 0 /\ (~cleanup \/ FrameTop.kind = "kshow")
           THEN psExecute(execStack, fs, FrameTop.body, TRUE, call)
           ELSE frames' = fs /\ pc' = "inner" /\ UNCHANGED <<execStack, spilled, stale>>

-----------------------------------------------------------------------------
(* LineLoop: start code, then prompt, input and execution for ever.        *)

Run1(ob, ph) ==
    /\ psExecute(execStack, <<>>, ob, TRUE, [kind |-> ph, left |-> 0])
    /\ phase' = ph

LineLoop ==
    /\ pc = "idle" /\ UNCHANGED <<execAbort, cleanup, open>>
    /\ \/ phase \in {"init", "prompting"}
          /\ \E n \in 0 .. BodyMax :
                Run1(Proc(n), IF phase = "init" THEN "start" ELSE "prompt")
          /\ UNCHANGED handler
       \/ phase = "input" /\ Run1(Item("stdin", 0), "line") /\ handler' = "exec"

LineLoopReturn ==
    /\ pc = "return" /\ FrameTop.kind = phase
    /\ UNCHANGED <<execAbort, cleanup, open>>
    /\ CASE cleanup /\ phase \in {"start", "prompt"} ->
              /\ pc' = "quit" /\ frames' = <<>> /\ UNCHANGED <<execStack, spilled, stale, phase, handler>>
         [] cleanup /\ phase = "line" -> Run1(Cmd("@invxit"), "invxit") /\ UNCHANGED handler
         [] OTHER ->
              /\ pc' = "idle" /\ frames' = <<>> /\ UNCHANGED <<execStack, spilled, stale>>
              /\ phase' = IF phase = "prompt" THEN "input" ELSE "prompting"
              /\ handler' = IF phase = "prompt" THEN "input" ELSE handler

\* The end of input, and quit.
PSQuit ==
    /\ pc = "idle" /\ phase = "prompting"
    /\ pc' = "quit"
    /\ UNCHANGED <<execStack, frames, execAbort, handler, cleanup, phase, open, spilled, stale>>

\* SIGINT.  While a line is read it abandons the line, and leaves its
\* handler in place for the next prompt, which it then stops outright.
ccExecHandler ==
    /\ handler = "exec" /\ ~execAbort /\ pc \notin {"quit", "cant", "crashed"}
    /\ execAbort' = TRUE
    /\ UNCHANGED <<execStack, frames, handler, pc, cleanup, phase, open, spilled, stale>>
ccInputHandler ==
    /\ handler = "input"
    /\ \/ pc = "inner" /\ StopExec(execStack, execAbort)
       \/ /\ pc = "idle" /\ phase = "input"
          /\ phase' = "prompting"
          /\ UNCHANGED <<execStack, frames, execAbort, handler, pc, cleanup, open, spilled, stale>>

EXInit ==
    /\ execStack = <<>> /\ frames = <<>> /\ execAbort = FALSE
    /\ handler = "exec" /\ pc = "idle" /\ cleanup = FALSE /\ phase = "init"
    /\ open = {} /\ spilled = {} /\ stale = FALSE

Interpreter == InnerExecute \/ Return \/ LineLoop \/ LineLoopReturn
EXNext == Interpreter \/ PSQuit \/ ccExecHandler \/ ccInputHandler

\* The interpreter is a running process; signals come as they like.
EXSpec == EXInit /\ [][EXNext]_execVars /\ WF_execVars(Interpreter)

-----------------------------------------------------------------------------
\* The stack stays within its size and the call depth within its bound.
EXTypeOK ==
    /\ Len(execStack) <= ExecMax /\ Len(frames) <= FrameMax
    /\ pc \in {"inner", "return", "idle", "quit", "cant", "crashed"}
    /\ spilled \subseteq Files /\ open \subseteq Files

\* Exec marks on the stack and psExecute calls on the C stack correspond
\* one to one, through exits, stops, errors, restores and overflows of the
\* execution stack; between lines the stack is empty, which is how the next
\* psExecute knows that it is the outermost.  An overflow of the operand stack
\* breaks this until the next stop, and so does stopping a call whose program
\* has closed the file it is run from.
MarksMatchFrames ==
    LET marks == Cardinality({i \in 1 .. Len(execStack) : execStack[i].type = "exec"})
    IN  ~stale =>
        /\ pc = "inner" => marks = Len(frames)
        /\ pc = "return" => marks = Len(frames) - 1
        /\ pc = "idle" => execStack = <<>>
        /\ pc \in {"inner", "return"} => frames[1].outermost

\* The CantHappen calls and the assertion in UnmarkLoop are never reached, and
\* the interpreter crashes only on a file that its program has closed.
NothingImpossible == pc # "cant" /\ (pc = "crashed" => ClosedFiles(execStack) # {})

\* An exit that leaves a psExecute is carried out once more outside, never
\* twice: it leaves one loop, not two.
OnePendingExit ==
    ~stale => Cardinality({i \in 1 .. Len(execStack) : execStack[i].type = "exit"}) <= 1

\* "UnwindExecStk will close stream": a file that run opened is closed when
\* its execution ends, however it ends, unless a stack overflowed or the
\* unwinding was stuck.
RunFilesClosed ==
    pc \in {"inner", "return", "idle"} => open \subseteq StreamsOn(execStack) \cup spilled

\* Ctrl-C ends the program that is running, whatever it is and however deep
\* the calls are: the abort is passed on from level to level.  Only a file on
\* the stack that the program has closed can keep it.
InterruptEndsProgram ==
    (execAbort /\ pc = "inner") ~> (pc \in {"idle", "quit"} \/ ClosedFiles(execStack) # {})
=============================================================================
