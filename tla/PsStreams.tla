------------------------------ MODULE PsStreams ------------------------------
(***************************************************************************)
(* Files (PostScript/Adobe/stream.c) and, at the end, PS.VM, the file of   *)
(* the interpreter itself.  A table maps the numbers in file objects to    *)
(* open files; the first three are the standard streams and are never      *)
(* closed.  Reading operators close a file at its end; what is written     *)
(* waits in a buffer of the C library.  A program holds file objects, also *)
(* of files that were closed.                                              *)
(***************************************************************************)
EXTENDS Integers, Sequences, FiniteSets

CONSTANTS MAXnStreams,
          Contents,      \* what files hold: sequences of characters, NL among them
          NL,
          MaxObjects,    \* bound: file objects a program holds
          MaxWritten     \* bound: characters written to a file

VARIABLES streams,     \* the table, numbered from 0: a file, or NULL
          nStreams,
          opened,      \* open files: number -> what has not been read of them, or
                       \* what was put and not yet handed to the host
          objects,     \* file objects held: number, session, and the file opened
          access,      \* was a file opened to read or to write?
          errors,      \* ferror: files an operation failed on
          refused,     \* files of which the host refused something written
          written,     \* what each file held when it was opened, or what was put
          orderly,     \* do programs drop the objects of closed files, keep to
                       \* MAXnStreams files, and read into strings that they may
                       \* write and that hold the line?
          got,         \* what was read of each file, or what the host has of it
          outcome      \* of the last operator
streamVars == <<streams, nStreams, opened, objects, access, errors, refused, written,
                orderly, got, outcome>>

NULL == 0
STDERR == 2
Standard == {1, 2, 3}     \* stdin, stdout, stderr
Slots == 0 .. MAXnStreams     \* one beyond the table can be read
NewFile == CHOOSE f \in 4 .. MAXnStreams + 5 : f \notin DOMAIN opened /\ \A o \in objects : o.of # f
Insert(fn, f, v) == [x \in DOMAIN fn \cup {f} |-> IF x = f THEN v ELSE fn[x]]
Without(fn, f) == [x \in DOMAIN fn \ {f} |-> fn[x]]

StreamsInit ==
    /\ streams = [i \in Slots |-> IF i <= STDERR THEN i + 1 ELSE NULL]
    /\ nStreams = 3 /\ opened = << >> /\ written = << >> /\ got = << >> /\ outcome = "ok"
    /\ access = << >> /\ errors = {} /\ refused = {}
    /\ orderly \in BOOLEAN
    \* The object of stdin, and one that an earlier session left in memory.
    /\ objects = {[slot |-> 0, of |-> 1, now |-> TRUE], [slot |-> 3, of |-> 0, now |-> FALSE]}

\* The slots in use below nStreams are searched from above.
Unused == {i \in 0 .. nStreams - 1 : streams[i] = NULL}
Highest(S) == CHOOSE i \in S : \A j \in S : j <= i
\* CreateFileStream and MakeStream.  The count grows before the limit is checked.
PSFile(acc, c) ==
    /\ Cardinality(objects) < MaxObjects
    /\ orderly => Cardinality(DOMAIN opened) < MAXnStreams - 3
    /\ Cardinality(DOMAIN opened) < MAXnStreams - 1
    /\ nStreams <= MAXnStreams
    /\ \E f \in {NewFile} : \E i \in {IF Unused = {} THEN nStreams ELSE Highest(Unused)} :
        /\ opened' = Insert(opened, f, c)
        /\ nStreams' = (IF Unused = {} THEN nStreams + 1 ELSE nStreams)
        /\ got' = Insert(got, f, << >>) /\ written' = Insert(written, f, c)
        /\ access' = Insert(access, f, acc)
        /\ errors' = errors \ {f} /\ refused' = refused \ {f}
        /\ IF i >= MAXnStreams
           THEN /\ outcome' = "limitcheck" /\ UNCHANGED <<streams, objects>>
           ELSE /\ streams' = [streams EXCEPT ![i] = f]
                /\ objects' = objects \cup {[slot |-> i, of |-> f, now |-> TRUE]}
                /\ outcome' = "ok"
    /\ UNCHANGED orderly

Valid(o) == o.now /\ streams[o.slot] # NULL
\* Mutant: the table keeps the closed stream.
ClosedKeepsSlot(o, tbl, n, op) ==
    IF o.slot <= STDERR THEN [tbl |-> tbl, n |-> n, op |-> op]
    ELSE [tbl |-> tbl,
          n |-> IF o.slot = n - 1 THEN n - 1 ELSE n,
          op |-> Without(op, tbl[o.slot])]
\* CloseFile, which never closes the standard streams.
Closed(o, tbl, n, op) ==
    IF o.slot <= STDERR THEN [tbl |-> tbl, n |-> n, op |-> op]
    ELSE [tbl |-> [tbl EXCEPT ![o.slot] = NULL],
          n |-> IF o.slot = n - 1 THEN n - 1 ELSE n,
          op |-> Without(op, tbl[o.slot])]
Close(o, op) ==
    \E c \in {Closed(o, streams, nStreams, op)} :
        /\ streams' = c.tbl /\ nStreams' = c.n /\ opened' = c.op
        /\ objects' = (IF orderly THEN objects \ {o} ELSE objects)
Open(o, acc) == /\ Valid(o) /\ streams[o.slot] \in DOMAIN opened
                /\ access[streams[o.slot]] = acc
\* The first n characters of buffer are handed to the host.
Flush(f, buffer, n) ==
    \/ /\ got' = [got EXCEPT ![f] = @ \o SubSeq(buffer, 1, n)]
       /\ UNCHANGED <<errors, refused>>
    \/ /\ n > 0 /\ refused' = refused \cup {f}
       /\ errors' = errors \cup {f}
       /\ UNCHANGED got
\* Nobody asks fclose whether it could write what was left.
PSCloseFile(o) ==
    /\ IF Valid(o) THEN Close(o, opened) /\ outcome' = "ok"
       ELSE /\ outcome' = (IF o.now THEN "invalidfile" ELSE "ok")
            /\ UNCHANGED <<streams, nStreams, opened, objects>>
    /\ IF Open(o, "w")
       THEN \E f \in {streams[o.slot]} : Flush(f, opened[f], Len(opened[f]))
       ELSE UNCHANGED <<got, errors, refused>>
    /\ UNCHANGED <<access, written, orderly>>

\* n characters are taken from the file; at its end it is closed.
Take(o, n, atEnd, result) ==
    LET f == streams[o.slot] IN
    \E left \in {SubSeq(opened[f], n + 1, Len(opened[f]))} :
        /\ got' = [got EXCEPT ![f] = @ \o SubSeq(opened[f], 1, n)]
        /\ outcome' = result
        /\ IF atEnd THEN Close(o, [opened EXCEPT ![f] = left])
           ELSE opened' = [opened EXCEPT ![f] = left] /\ UNCHANGED <<streams, nStreams, objects>>
        /\ UNCHANGED <<access, errors, refused, written, orderly>>
\* An error after n characters were taken: the last of them nobody gets.
TakeAndFail(o, n, error) ==
    LET f == streams[o.slot] IN
    /\ opened' = [opened EXCEPT ![f] = SubSeq(@, n + 1, Len(@))] /\ outcome' = error
    /\ UNCHANGED <<streams, nStreams, objects, access, errors, refused, got, written, orderly>>
\* getc of a file opened to write fails, which is no end of it: the operators
\* go on with the character 255 until their string is full.
ReadWriter(o, result) ==
    /\ Open(o, "w") /\ errors' = errors \cup {streams[o.slot]} /\ outcome' = result
    /\ UNCHANGED <<streams, nStreams, opened, objects, access, refused, got, written, orderly>>
Reads(o) == Open(o, "r")
Rest(o) == opened[streams[o.slot]]
PSRead(o) ==
    \/ ReadWriter(o, "true")
    \/ /\ Reads(o)
       /\ IF Rest(o) = << >> THEN Take(o, 0, TRUE, "false") ELSE Take(o, 1, FALSE, "true")
\* Into a string of n characters.  VMPutChar asks for the right to write, and
\* by then a character has been read.
PSReadString(o, n, writable) ==
    \/ ReadWriter(o, IF writable THEN "true" ELSE "invalidaccess")
    \/ /\ Reads(o) /\ n > 0
       /\ orderly => writable
       /\ IF ~writable /\ Rest(o) # << >> THEN TakeAndFail(o, 1, "invalidaccess")
          ELSE IF Len(Rest(o)) < n THEN Take(o, Len(Rest(o)), TRUE, "false")
          ELSE Take(o, n, FALSE, "true")
\* The newline is read but not returned; a line too long is an error that has
\* read one character more than the string holds.
LineEnds(o) == {k \in 1 .. Len(Rest(o)) : Rest(o)[k] = NL}
LineEnd(o) == CHOOSE k \in LineEnds(o) : \A j \in LineEnds(o) : k <= j
LineLength(o) == IF LineEnds(o) = {} THEN Len(Rest(o)) ELSE LineEnd(o) - 1
PSReadLine(o, n, writable) ==
    \/ ReadWriter(o, IF writable THEN "rangecheck" ELSE "invalidaccess")
    \/ /\ Reads(o) /\ n > 0
       /\ orderly => writable /\ LineLength(o) <= n
       /\ IF ~writable /\ LineLength(o) > 0 THEN TakeAndFail(o, 1, "invalidaccess")
          ELSE IF LineLength(o) > n THEN TakeAndFail(o, n + 1, "rangecheck")
          ELSE IF LineEnds(o) = {} THEN Take(o, Len(Rest(o)), TRUE, "false")
          ELSE Take(o, LineEnd(o), FALSE, "true")

\* putc of each character: the library hands what it has to the host whenever
\* its buffer is full.  ferror stays set, so every later write is an error too.
Put(o, s) ==
    \E f \in {streams[o.slot]} :
        /\ IF Open(o, "w")
           THEN /\ Len(written[f]) + Len(s) <= MaxWritten
                /\ \E b \in {opened[f] \o s} : \E n \in 0 .. Len(b) :
                     /\ Flush(f, b, n)
                     /\ opened' = [opened EXCEPT ![f] = SubSeq(b, n + 1, Len(b))]
                /\ written' = [written EXCEPT ![f] = @ \o s]
           ELSE /\ errors' = errors \cup ({f} \cap DOMAIN opened)
                /\ UNCHANGED <<opened, refused, got, written>>
        /\ outcome' = IF Open(o, "w") /\ f \notin errors' THEN "ok" ELSE "ioerror"
        /\ UNCHANGED <<streams, nStreams, objects, access, orderly>>
PSWrite(o, c) == Valid(o) /\ Put(o, <<c>>)
PSWriteString(o, s) == Valid(o) /\ Put(o, s)

StreamsStep ==
    \/ \E c \in Contents : PSFile("r", c)
    \/ PSFile("w", << >>)
    \/ \E o \in objects : PSCloseFile(o) \/ PSRead(o) \/ PSWrite(o, 1) \/ PSWriteString(o, <<1, 2>>)
    \/ \E o \in objects, n \in 1 .. 2, writable \in BOOLEAN :
          PSReadString(o, n, writable) \/ PSReadLine(o, n, writable)
StreamsSpec == StreamsInit /\ [][StreamsStep]_streamVars
----------------------------------------------------------------------------
StreamsTypeOK ==
    /\ nStreams \in 3 .. MAXnStreams + 1
    /\ orderly => nStreams <= MAXnStreams
    /\ \A i \in Slots : i >= nStreams => streams[i] = NULL

\* The standard streams stay open, whatever is closed, and no file is in the
\* table twice.
StandardKept == /\ \A i \in 0 .. STDERR : streams[i] = i + 1
                /\ \A i, j \in Slots : streams[i] = streams[j] /\ streams[i] # NULL => i = j

\* Every open file is in the table and can still be closed.
FilesListed == orderly => DOMAIN opened = {streams[i] : i \in Slots} \ (Standard \cup {NULL})

\* An object denotes the file it was made for, although numbers are used again.
ObjectsReachOwnFile ==
    orderly => \A o \in objects : o.now => streams[o.slot] = o.of

\* Reading operators return what the file holds, each character once, in order;
\* what is written is in the buffer or at the host, in order, and all at the
\* host when the file is closed.  What the host refuses is lost: while the file
\* is open every later write says so, but closing it does not.
NothingLost ==
    /\ \A f \in DOMAIN opened \ refused :
          orderly \/ access[f] = "w" => got[f] \o opened[f] = written[f]
    /\ \A f \in DOMAIN written \ (DOMAIN opened \cup refused) :
          access[f] = "w" => got[f] = written[f]
    /\ refused \cap DOMAIN opened \subseteq errors

----------------------------------------------------------------------------
(***************************************************************************)
(* The file PS.VM (PostScript/Adobe/fontdisk.c; VMStart and VMFlush of     *)
(* vm.c).  It holds the font cache, in front of it a header that is        *)
(* written last, and behind it the virtual memory.  A session restores the *)
(* memory when it starts, and the cache only when it shows a character;    *)
(* quitting writes both.  The process may die at any point.  A version of  *)
(* the memory or of the cache is a number.                                 *)
(***************************************************************************)
CONSTANTS Versions,     \* bound: changes to the cache
          Releases      \* bound: values of FCversion

VARIABLES disk,      \* PS.VM
          session,   \* the process that runs, if any
          release,   \* FCversion of the program
          checkpoints,   \* do programs use checkpointvm?
          save       \* the number of the save, modulo 2: saves follow one another
diskVars == <<disk, session, release, checkpoints, save>>

\* What the masks of the cache hold.  BMtoOffset and OffsettoBM subtract and add
\* the address of the bitmaps: done twice, what is left is neither.
BMtoOffset(m) == IF m = "addresses" THEN "offsets" ELSE "neither"
OffsettoBM(m) == IF m = "offsets" THEN "addresses" ELSE "neither"
NoCache == [id |-> 0, masks |-> "addresses", version |-> 0]
NoFile == [header |-> "nofile", cache |-> NoCache, sections |-> 0, vm |-> 0, whole |-> FALSE]
Off == [step |-> "off", inited |-> FALSE, touched |-> FALSE, cache |-> NoCache,
        offset |-> "zero", found |-> NoCache, quits |-> FALSE]
DiskInit == disk = NoFile /\ session = Off /\ release = 1 /\ save = 0
            /\ checkpoints \in BOOLEAN

InitFontCache == [NoCache EXCEPT !.version = release]
\* RestoreFC: a header that was never written has no password.  The masks are
\* turned into addresses again.
RestoreFC ==
    IF disk.header = "cached" /\ disk.cache.version = release
    THEN [disk.cache EXCEPT !.masks = OffsettoBM(@)]
    ELSE InitFontCache
StartCache(s) == IF s.inited THEN s ELSE [s EXCEPT !.cache = RestoreFC, !.inited = TRUE]

\* VMStart: nothing but a memory that was written to its end is accepted.
VMStart ==
    /\ session = Off
    /\ disk.header = "nofile" \/ (disk.header # "torn" /\ disk.whole)
    /\ session' = [Off EXCEPT !.step = "run", !.found = disk.cache,
                              !.offset = CASE disk.header = "nofile" -> "zero"
                                           [] disk.header = "empty" -> "header"
                                           [] OTHER -> "beyond"]
    /\ UNCHANGED <<disk, release, checkpoints, save>>

Runs == session.step = "run"
ShowText ==       \* the cache changes
    /\ Runs /\ StartCache(session).cache.id < Versions
    /\ session' = [StartCache(session) EXCEPT !.touched = TRUE, !.cache.id = @ + 1]
    /\ UNCHANGED <<disk, release, checkpoints, save>>
PSCacheStatus ==
    /\ Runs /\ session' = StartCache(session)
    /\ UNCHANGED <<disk, release, checkpoints, save>>
PSInitFontCache ==     \* ignored when there is a cache
    /\ Runs /\ ~session.inited
    /\ session' = [session EXCEPT !.cache = InitFontCache, !.inited = TRUE, !.touched = TRUE]
    /\ UNCHANGED <<disk, release, checkpoints, save>>

\* VMFlush, by quit or by checkpointvm.  A cache nobody asked for is read before
\* its file is opened for writing, if the file holds one.
VMFlush(quits) ==
    /\ Runs /\ (quits \/ checkpoints)
    /\ session' = [(IF session.offset = "beyond" THEN StartCache(session) ELSE session)
                      EXCEPT !.step = "opened", !.quits = quits]
    /\ disk' = [NoFile EXCEPT !.header = "torn"]     \* fopen(name, "w")
    /\ save' = 1 - save
    /\ UNCHANGED <<release, checkpoints>>
\* Mutant: the masks are written as the addresses they are.
SaveAddresses ==
    /\ session.step = "opened" /\ session.inited
    /\ session' = [session EXCEPT !.step = "sections"]
    /\ disk' = [disk EXCEPT !.cache = session'.cache, !.sections = save]
    /\ UNCHANGED <<release, checkpoints, save>>
\* SaveFC: the sections; masks become offsets in the cache itself.
SaveSections ==
    /\ session.step = "opened" /\ session.inited
    /\ session' = [session EXCEPT !.cache.masks = BMtoOffset(@), !.step = "sections"]
    /\ disk' = [disk EXCEPT !.cache = session'.cache, !.sections = save]
    /\ UNCHANGED <<release, checkpoints, save>>
\* The header, or an error that leaves it unwritten.
SaveHeader ==
    /\ session.step = "sections" \/ (session.step = "opened" /\ ~session.inited)
    /\ session' = [session EXCEPT !.step = "append"]
    /\ \E h \in {IF session.inited THEN "cached" ELSE "empty", "torn"} :
        disk' = [disk EXCEPT !.header = h]
    /\ UNCHANGED <<release, checkpoints, save>>
\* The memory behind it; the cache is not turned back.
AppendVM ==
    /\ session.step = "append"
    /\ \E ok \in BOOLEAN : disk' = [disk EXCEPT !.vm = save, !.whole = ok]
    /\ session' = (IF session.quits THEN Off ELSE [session EXCEPT !.step = "run"])
    /\ UNCHANGED <<release, checkpoints, save>>
Dies ==
    /\ session # Off /\ session' = Off
    /\ UNCHANGED <<disk, release, checkpoints, save>>
\* Nobody but the user removes what a crash left, or installs a new program.
RemoveFile ==
    /\ session = Off /\ disk # NoFile /\ disk' = NoFile
    /\ UNCHANGED <<session, release, checkpoints, save>>
NewRelease ==
    /\ session = Off /\ release < Releases /\ release' = release + 1
    /\ UNCHANGED <<disk, session, checkpoints, save>>

DiskNext ==
    \/ VMStart \/ ShowText \/ PSCacheStatus \/ PSInitFontCache
    \/ VMFlush(TRUE) \/ VMFlush(FALSE) \/ SaveSections \/ SaveHeader \/ AppendVM
    \/ Dies \/ RemoveFile \/ NewRelease
DiskSpec == DiskInit /\ [][DiskNext]_diskVars
----------------------------------------------------------------------------
DiskTypeOK ==
    /\ disk.header \in {"nofile", "torn", "empty", "cached"}
    /\ session.step \in {"off", "run", "opened", "sections", "append"}
    /\ disk.header = "cached" => disk.cache # NoCache

\* Whatever was interrupted, a session starts from a memory and a cache that
\* were saved together, or from nothing.
Acceptable == disk.header \in {"empty", "cached"} /\ disk.whole
StartsWhole ==
    /\ Acceptable /\ disk.header = "cached" => disk.sections = disk.vm
    /\ Runs /\ session.inited /\ ~session.touched /\ session.found.version = release =>
           session.cache.id = session.found.id
\* A session that shows nothing keeps the cache it found.
KeepsCache ==
    /\ session.step = "append" /\ disk.header # "torn" /\ disk'.whole
    /\ ~session.touched /\ session.found.version = release
    => disk'.cache.id = session.found.id
CacheSurvives == [][KeepsCache]_diskVars

\* While programs run the masks of the cache are addresses, and in a file that
\* can be restored they are offsets: unless a session goes on after saving.
MasksMeanBitmaps ==
    ~checkpoints =>
    /\ Runs /\ session.inited => session.cache.masks = "addresses"
    /\ disk.header = "cached" => disk.cache.masks = "offsets"
=============================================================================
