------------------------------ MODULE PsScanner ------------------------------
(***************************************************************************)
(* The PostScript scanner (PostScript/Adobe/scanner.c).  One table drives  *)
(* three scanners: StreamToken, of a file or of a line typed by the user;  *)
(* StringToken, of a string; and LineComplete, by which GetLine decides    *)
(* that what has been typed so far can be handed to the interpreter.  Each *)
(* text is scanned as a file, then as a string, then line by line.         *)
(***************************************************************************)
EXTENDS Integers, SequencesExt

CONSTANTS Alphabets,     \* sets of characters texts are made of
          Longest,       \* characters in a text
          TokenRoom,     \* GetVMLast() - GetVMFirst() + 1
          NumeralRoom,   \* MAXnumeralString: characters of a numeral in a string
          MAXinteger, MAXoctal,    \* the numbers that stay integers
          StringTag,     \* the tag of the string given to "token"
          Newlines       \* every text ends with a newline

VARIABLES text,      \* what is scanned
          mode,      \* as a file, as a string, as lines; done, or crashed
          rest,      \* what StreamToken or StringToken has not read
          unread,    \* what GetLine has not read
          line,      \* the line buffer, leftovers included
          tok,       \* the token being scanned: state, parentheses, characters
          call,      \* the call in progress: nest, error, what it left on opStack
          toks       \* the tokens each mode found
scanVars == <<text, mode, rest, unread, line, tok, call, toks>>

\* Characters are named; "n" and "x" stand for letters, "1" and "8" for digits.
classArray ==
    [c \in {"sp", "cr", "%", "\\", "(", ")", "{", "}", "[", "]", "/", "1", "8",
            "+", "-", ".", "e", "b", "n", "x", "eos"} |->
        CASE c = "sp" -> "dlm"  [] c = "cr" -> "crt"  [] c \in {"1", "8"} -> "num"
          [] c \in {"+", "-"} -> "sgn"  [] c \in {"n", "x"} -> "oth"  [] OTHER -> c]
Enders == {"eos", "crt", "dlm", "%", "\\", "(", ")", "{", "}", "[", "]", "/"}
FinalStates == {"Snull", "lname", "xname", "strg", "inum", "onum", "rnum", "axbeg",
                "axend", "adbeg", "adend", "oops", "part"}

StartTo == [c \in {classArray[x] : x \in DOMAIN classArray} |->
    CASE c = "eos" -> "Snull"  [] c \in {"crt", "dlm"} -> "start"  [] c = "%" -> "comnt"
      [] c = "(" -> "paren"  [] c = ")" -> "oops"  [] c = "{" -> "axbeg"
      [] c = "}" -> "axend"  [] c = "[" -> "adbeg"  [] c = "]" -> "adend"
      [] c = "/" -> "ldent"  [] c = "num" -> "ipart"  [] c = "sgn" -> "msign"
      [] c = "." -> "point"  [] OTHER -> "ident"]
\* What a token is if it ends in this state, and how it goes on otherwise.
Ends == [ident |-> "xname", msign |-> "xname", ipart |-> "inum", octal |-> "onum",
         point |-> "xname", fpart |-> "rnum", expon |-> "xname", esign |-> "xname",
         epart |-> "rnum", ldent |-> "lname"]
GoesOn(s, c) ==
    CASE s = "ldent" -> "ldent"
      [] s \in {"msign", "ipart"} /\ c = "num" -> "ipart"
      [] s \in {"point", "fpart"} /\ c = "num" -> "fpart"
      [] s \in {"expon", "esign", "epart"} /\ c = "num" -> "epart"
      [] s = "msign" /\ c = "." -> "point"
      [] s = "ipart" /\ c = "." -> "fpart"
      [] s \in {"ipart", "fpart"} /\ c = "e" -> "expon"
      [] s = "ipart" /\ c = "b" -> "octal"
      [] s = "expon" /\ c = "sgn" -> "esign"
      [] OTHER -> "ident"
NewState(s, c) ==
    CASE s = "start" -> StartTo[c]
      [] s = "comnt" -> (CASE c = "eos" -> "Snull" [] c = "crt" -> "start" [] OTHER -> "comnt")
      [] OTHER -> IF c \in Enders THEN Ends[s] ELSE GoesOn(s, c)
NewAction(s, c) ==
    CASE c = "eos" -> "Anull"
      [] s = "comnt" \/ (s = "start" /\ c \in {"crt", "dlm", "%", "(", "/"}) -> "skip"
      [] s \notin {"start", "comnt"} /\ c \in Enders -> "back"
      [] OTHER -> "take"

\* F applied to the characters of s, one after the other, from base on.
Over(F(_, _), base, s) ==
    LET f[n \in 0 .. Len(s)] == IF n = 0 THEN base
                                ELSE CHOOSE r \in {F(y, s[n]) : y \in {f[n - 1]}} : TRUE
    IN  f[Len(s)]

----------------------------------------------------------------------------
\* Numbers.  Integers too large become reals.

Digit == [c \in {"1", "8"} |-> IF c = "1" THEN 1 ELSE 8]
Unsigned(s) == IF s[1] \in {"+", "-"} THEN Tail(s) ELSE s
MakeReal(s) == [kind |-> "real", text |-> s]
MakeInteger(s) ==
    LET add(r, c) == IF r > MAXinteger \div 10 \/ Digit[c] > MAXinteger - 10 * r
                     THEN MAXinteger + 1 ELSE 10 * r + Digit[c]
        v == Over(add, 0, Unsigned(s))
    IN  IF v > MAXinteger THEN MakeReal(s)
        ELSE [kind |-> "int", text |-> s, val |-> IF s[1] = "-" THEN -v ELSE v]
\* s ends with the "b"; a digit above 7 is an error.  The rounded value of a
\* number too long for an integer is built on an uninitialised variable.
MakeOctal(s) ==
    LET ds == Front(Unsigned(s))
        add(r, c) == 8 * r + Digit[c]
        v == Over(add, 0, ds)
    IN  IF "8" \in ToSet(ds) THEN [kind |-> "syntaxerror"]
        ELSE IF Len(ds) > MAXoctal THEN MakeReal(s)
        ELSE [kind |-> "int", text |-> s, val |-> IF s[1] = "-" THEN -v ELSE v]

----------------------------------------------------------------------------
\* LineComplete: a text with every string and procedure closed.

Fresh == [state |-> "start", depth |-> 0]
LineStart == [at |-> Fresh, nest |-> 0, quoted |-> FALSE]
\* Mutant: a closing brace counts even when nothing is open.
NestedUnguarded(n, s) == CASE s = "axbeg" -> n + 1 [] s = "axend" -> n - 1 [] OTHER -> n
Nested(n, s) == CASE s = "axbeg" -> n + 1 [] s = "axend" /\ n > 0 -> n - 1 [] OTHER -> n
\* A state reached: final ones end a token.
Reach(r, s) == IF s \in FinalStates THEN [r EXCEPT !.at = Fresh, !.nest = Nested(r.nest, s)]
               ELSE [r EXCEPT !.at = [state |-> s, depth |-> IF s = "paren" THEN 1 ELSE 0]]
InText(r, c) ==
    IF r.quoted THEN [r EXCEPT !.quoted = FALSE]
    ELSE CASE c = "\\" -> [r EXCEPT !.quoted = TRUE]
           [] c = "(" -> [r EXCEPT !.at.depth = @ + 1]
           [] c = ")" -> IF r.at.depth = 1 THEN [r EXCEPT !.at = Fresh]
                         ELSE [r EXCEPT !.at.depth = @ - 1]
           [] OTHER -> r
LineFeed(r, c) ==
    LET s == r.at.state  k == classArray[c]
    IN  IF s = "paren" THEN InText(r, c)
        ELSE IF NewAction(s, k) = "back" THEN Reach(Reach(r, NewState(s, k)), StartTo[k])
        ELSE Reach(r, NewState(s, k))
LineComplete(s) ==
    \E r \in {Over(LineFeed, LineStart, s)} : r.at.state # "paren" /\ r.nest = 0

----------------------------------------------------------------------------
NoCall == [nest |-> 0, error |-> FALSE, left |-> << >>]
NoToken == [state |-> "start", depth |-> 0, buf |-> << >>]
Modes == {"file", "string", "line"}
Scanning == mode \in Modes
Texts == UNION {[1 .. n -> A] : n \in 0 .. Longest, A \in Alphabets}
ScanInit ==
    /\ text \in {IF Newlines THEN Append(t, "cr") ELSE t : t \in Texts}
    /\ mode = "file" /\ rest = text /\ unread = << >> /\ line = << >>
    /\ tok = NoToken /\ call = NoCall
    /\ toks = [m \in Modes |-> << >>]

\* GetLine: to the first newline that completes the line, or to the end of the
\* file.  There the length counts one character too many: what an earlier line
\* left in the buffer.
Whole == {n \in 1 .. Len(unread) : unread[n] = "cr" /\ LineComplete(SubSeq(unread, 1, n))}
Leftover(n) == IF n < Len(line) THEN <<line[n + 1]>> ELSE <<"x">>
NeedsLine == /\ mode = "line" /\ rest = << >> /\ unread # << >>
             /\ tok = NoToken /\ call = NoCall
GetLine ==
    /\ NeedsLine
    /\ \E n \in {IF Whole = {} THEN Len(unread)
                 ELSE CHOOSE k \in Whole : \A j \in Whole : k <= j} :
        /\ unread' = SubSeq(unread, n + 1, Len(unread))
        /\ \E new \in {SubSeq(unread, 1, n)
                       \o (IF Whole = {} THEN Leftover(n) ELSE << >>)} :
            /\ rest' = new
            /\ line' = new \o SubSeq(line, Len(new) + 1, Len(line))
    /\ UNCHANGED <<text, mode, tok, call, toks>>

\* The call is over: a token, an error, or nothing left to scan.
NextMode == CASE mode = "file" -> "string" [] mode = "string" -> "line" [] OTHER -> "done"
Found(t, error) ==
    /\ toks' = [toks EXCEPT ![mode] = Append(@, [token |-> t, error |-> error])]
    /\ call' = NoCall /\ tok' = NoToken
    /\ UNCHANGED <<text, mode, rest, unread, line>>
Leave(t) ==     \* the rest of this source is not scanned
    /\ toks' = [toks EXCEPT ![mode] = IF t = "none" THEN @
                                    ELSE Append(@, [token |-> [kind |-> t], error |-> TRUE])]
    /\ mode' = NextMode /\ call' = NoCall /\ tok' = NoToken
    /\ rest' = (IF mode = "file" THEN text ELSE << >>)
    /\ unread' = (IF mode = "string" THEN text ELSE << >>)
    /\ UNCHANGED <<text, line>>
NotFound ==
    IF mode = "line" /\ unread # << >>
    THEN tok' = NoToken /\ UNCHANGED <<text, mode, rest, unread, line, call, toks>>
    ELSE Leave("none")

\* One character into the table.  The buffer of StreamToken is bounded; what
\* StringToken returns is a part of the string it scans.
Room == mode = "string" \/ Len(tok.buf) < TokenRoom
Now == IF rest = << >> THEN "eos" ELSE rest[1]
ScanChar ==
    /\ Scanning
    /\ tok.state \notin FinalStates \cup {"paren"}
    /\ ~call.error
    /\ ~NeedsLine
    /\ \E k \in {classArray[Now]} : \E a \in {NewAction(tok.state, k)} :
        IF a = "take" /\ ~Room THEN Leave("tokentoolong")
        ELSE /\ tok' = [state |-> NewState(tok.state, k),
                        depth |-> IF NewState(tok.state, k) = "paren" THEN 1 ELSE 0,
                        buf |-> IF a = "take" THEN Append(tok.buf, Now) ELSE tok.buf]
             /\ rest' = (IF a \in {"skip", "take"} THEN Tail(rest) ELSE rest)
             /\ UNCHANGED <<text, mode, unread, line, call, toks>>

\* Inside a string: "gobble strings as fast as possible".
Gobble(c, left, depth) ==
    IF ~Room THEN Leave("tokentoolong")
    ELSE /\ tok' = [tok EXCEPT !.buf = Append(@, c), !.depth = depth]
         /\ rest' = left
         /\ UNCHANGED <<text, mode, unread, line, call, toks>>
EndString(state, left) ==
    /\ tok' = [tok EXCEPT !.state = state]
    /\ rest' = left
    /\ UNCHANGED <<text, mode, unread, line, call, toks>>
\* The text ends inside the string.  Behind its first character the end is
\* looked for in the stream, and a line has none: feof(NIL).
TextEnds ==
    IF mode # "line" THEN EndString("part", << >>)
    ELSE mode' = "crashed" /\ UNCHANGED <<text, rest, unread, line, tok, call, toks>>
\* The octal digits after a backslash, at most three.
Octals == LET d == {n \in 0 .. 3 : n < Len(rest) /\ \A i \in 1 .. n : rest[i + 1] = "1"}
          IN  CHOOSE n \in d : \A j \in d : j <= n
Letter(c) == IF c = "n" THEN "cr" ELSE c
\* A letter that follows one or two digits is put back translated.
Escape ==
    \E n \in {Octals} : \E after \in {SubSeq(rest, n + 2, Len(rest))} :
        IF n < 3 /\ after = << >> THEN TextEnds
        ELSE IF n = 0 THEN Gobble(Letter(after[1]), Tail(after), tok.depth)
        ELSE Gobble([code |-> MakeOctal(Append(SubSeq(rest, 2, n + 1), "b")).val],
                    IF n = 3 THEN after ELSE <<Letter(after[1])>> \o Tail(after), tok.depth)
InString ==
    /\ Scanning /\ tok.state = "paren"
    /\ CASE rest = << >> /\ tok.buf = << >> -> EndString("part", << >>)
         [] rest = << >> /\ tok.buf # << >> -> TextEnds
         [] rest # << >> /\ Now = "\\" /\ mode # "string" -> Escape
         [] rest # << >> /\ Now = "(" -> Gobble(Now, Tail(rest), tok.depth + 1)
         [] rest # << >> /\ Now = ")" ->
              IF tok.depth = 1 THEN EndString("strg", Tail(rest))
              ELSE Gobble(Now, Tail(rest), tok.depth - 1)
         [] OTHER -> Gobble(Now, Tail(rest), tok.depth)

----------------------------------------------------------------------------
\* state and buffer now describe a token.

Name(tag) == [kind |-> "name", text |-> tok.buf, tag |-> tag]
Mark == [kind |-> "mark"]
Closes == tok.state = "axend" /\ call.nest > 0
\* A numeral in a string is copied to a buffer first.
StringToNumeral(t) ==
    IF mode = "string" /\ Len(tok.buf) > NumeralRoom THEN [kind |-> "limitcheck"] ELSE t
\* ArrayToMark: the operands above the last mark.
LastMark(s) == CHOOSE i \in DOMAIN s : s[i] = Mark /\ \A j \in i + 1 .. Len(s) : s[j] # Mark
TheToken ==
    CASE tok.state = "inum" -> StringToNumeral(MakeInteger(tok.buf))
      [] tok.state = "onum" -> StringToNumeral(MakeOctal(tok.buf))
      [] tok.state = "rnum" -> StringToNumeral(MakeReal(tok.buf))
      [] tok.state = "lname" -> Name("lit")
      [] tok.state \in {"xname", "oops", "adbeg", "adend"} -> Name("exec")
      [] tok.state \in {"strg", "part"} -> [kind |-> "string", text |-> tok.buf]
      [] tok.state = "axbeg" -> Mark
      [] OTHER ->
           IF Closes
           THEN [kind |-> "proc", items |-> SubSeq(call.left, LastMark(call.left) + 1,
                                                   Len(call.left))]
           ELSE Name(IF mode = "string" THEN StringTag ELSE "exec")
TokenEnds ==
    /\ Scanning /\ tok.state \in FinalStates \ {"Snull"}
    /\ \E t \in {TheToken} :
       \E nest \in {Nested(call.nest, tok.state)} :
       \E error \in {call.error \/ tok.state = "part"} :
       \E below \in {IF Closes THEN SubSeq(call.left, 1, LastMark(call.left) - 1)
                     ELSE call.left} :
        IF t.kind \in {"syntaxerror", "limitcheck"} THEN Leave(t.kind)
        ELSE IF nest = 0 THEN Found(t, error)
        ELSE /\ call' = [nest |-> nest, left |-> Append(below, t), error |-> error]
             /\ tok' = NoToken
             /\ UNCHANGED <<text, mode, rest, unread, line, toks>>
\* The text ends inside a procedure: an error that closes what is open.
NothingLeft ==
    /\ Scanning /\ tok.state = "Snull"
    /\ IF call.nest = 0 THEN NotFound
       ELSE /\ call' = [call EXCEPT !.error = TRUE] /\ tok' = NoToken
            /\ UNCHANGED <<text, mode, rest, unread, line, toks>>
\* Mutant: the outermost procedure is not closed for the program.
CloseInnerOnly ==
    /\ Scanning /\ call.error /\ tok.state = "start" /\ call.nest > 1
    /\ tok' = [tok EXCEPT !.state = "axend"]
    /\ UNCHANGED <<text, mode, rest, unread, line, call, toks>>
CloseOpen ==
    /\ Scanning /\ call.error /\ tok.state = "start"
    /\ tok' = [tok EXCEPT !.state = "axend"]
    /\ UNCHANGED <<text, mode, rest, unread, line, call, toks>>

ScanNext == GetLine \/ ScanChar \/ InString \/ TokenEnds \/ NothingLeft \/ CloseOpen
ScanSpec == ScanInit /\ [][ScanNext]_scanVars /\ WF_scanVars(ScanNext)

----------------------------------------------------------------------------
ScanTypeOK ==
    /\ mode \in Modes \cup {"done", "crashed"}
    /\ tok.state \in FinalStates \cup DOMAIN Ends \cup {"start", "comnt", "paren"}
    /\ (tok.depth > 0) = (tok.state = "paren")  \/ tok.state \in {"strg", "part"}
    /\ call.nest = Cardinality({i \in DOMAIN call.left : call.left[i] = Mark})

\* A user's line is handed over exactly when scanning it meets no open string
\* or procedure: LineComplete keeps no text and counts for itself.
Failed(m) == \E i \in DOMAIN toks[m] :
                toks[m][i].token.kind \in {"syntaxerror", "tokentoolong", "limitcheck"}
LineCompleteExact ==
    mode # "file" /\ ~Failed("file") =>
        LineComplete(text) = (\A i \in DOMAIN toks["file"] : ~toks["file"][i].error)

\* "token" of a string finds what executing it as a file finds, if nothing in
\* it is quoted, and stops short of that only at a numeral that is longer than
\* its buffer.
LongNumeral ==
    \E i \in 1 .. Len(text) - NumeralRoom :
        ToSet(SubSeq(text, i, i + NumeralRoom)) \subseteq {"1", "8", "+", "-", ".", "e", "b"}
ScannersAgree ==
    mode \notin {"file", "string"} /\ ~Failed("file") /\ "\\" \notin ToSet(text) =>
        IF Failed("string")
        THEN /\ LongNumeral /\ Last(toks["string"]).token.kind = "limitcheck"
             /\ IsStrictPrefix(Front(toks["string"]), toks["file"])
        ELSE toks["string"] = toks["file"]

\* Typed line by line, a text gives the same tokens: no token is cut where a
\* line ends.  Only one whose end leaves a string open crashes the program.
LinesLoseNothing ==
    /\ mode = "done" /\ ~Failed("file") /\ LineComplete(text) => toks["line"] = toks["file"]
    /\ mode = "crashed" => ~LineComplete(text)

\* The table recognises the numbers of the language, and nothing else as one.
Digits(s) == s # << >> /\ ToSet(s) \subseteq {"1", "8"}
Signed(s, P(_)) == P(s) \/ (s # << >> /\ s[1] \in {"+", "-"} /\ P(Tail(s)))
Fraction(s) == \E i \in DOMAIN s : /\ s[i] = "."  /\ Len(s) > 1
                                   /\ ToSet(Remove(s, ".")) \subseteq {"1", "8"}
                                   /\ \A j \in DOMAIN s : s[j] = "." => j = i
Power(s) == \E i \in DOMAIN s : /\ s[i] = "e"
                                /\ \E m \in {SubSeq(s, 1, i - 1)} : Digits(m) \/ Fraction(m)
                                /\ Signed(SubSeq(s, i + 1, Len(s)), Digits)
Real(s) == Fraction(s) \/ Power(s)
Octal(s) == s # << >> /\ Last(s) = "b" /\ Digits(Front(s))
DecimalValue(s) == Over(LAMBDA r, c : 10 * r + Digit[c], 0, Unsigned(s))
NumbersExact ==
    \A m \in DOMAIN toks : \A i \in DOMAIN toks[m] : LET t == toks[m][i].token IN
        CASE t.kind = "int" ->
               \/ /\ Signed(t.text, Digits)
                  /\ DecimalValue(t.text) = (IF t.val < 0 THEN -t.val ELSE t.val)
                  /\ t.val \in -MAXinteger .. MAXinteger
               \/ Signed(t.text, Octal)
          [] t.kind = "real" -> \/ Signed(t.text, Real) \/ Signed(t.text, Octal)
                                \/ /\ Signed(t.text, Digits)
                                   /\ DecimalValue(t.text) > MAXinteger
          [] t.kind = "name" /\ t.tag = "exec" ->
                /\ \A P \in {Signed(t.text, Digits), Signed(t.text, Real),
                            Signed(t.text, Octal)} : ~P
                /\ Len(t.text) > 1 => ToSet(t.text) \cap Enders = {} \/ t.text[1] = "\\"
          [] OTHER -> TRUE

\* Every text is scanned to its end, closing what an error left open too,
\* unless the scanner crashes where what was typed ends inside a string.
ScansEnd == <>(mode = "done" \/ (mode = "crashed" /\ ~LineComplete(text)))
=============================================================================
