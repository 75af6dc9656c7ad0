------------------------------ MODULE Devices ------------------------------
(***************************************************************************)
(* DeviceKit (src/Kernel/mxwl/devicekit): the driver registry, the life of *)
(* a driver from creation to destruction, and the shared frame buffer      *)
(* object that picks a display driver, starts it and keeps its mode.       *)
(* Everything runs in one thread: an action is one call made by the kernel *)
(* or by the shared object.  Driver records live in a heap that may hand   *)
(* the address of a destroyed driver out again.                            *)
(***************************************************************************)
EXTENDS Integers, Sequences, FiniteSets, SequencesExt

CONSTANTS Handles,       \* addresses malloc can return for a driver
          MAX_DRIVERS,   \* length of _driver_registry
          Modes,         \* modes that can be asked for
          DefaultMode,   \* mode set by nofb_initialize
          HaveX11,       \* the build defines HAVE_X11 (no makefile does)
          MixedInit      \* the platform's initialization may follow the shared object's

ASSUME DeviceAssumption ==
    /\ MAX_DRIVERS \in Nat \ {0}
    /\ DefaultMode \in Modes
    /\ {HaveX11, MixedInit} \subseteq BOOLEAN
    /\ IsFiniteSet(Handles)

CONSTANTS NoDriver,
          Failures       \* what may go wrong outside the program during a call, of
                         \* "x11 record", "null record", "display", "back buffer", "memory"
Kinds == {"X11Framebuffer", "NoFramebuffer"}
States == {"notLoaded", "loaded", "ready", "error"}

VARIABLES heap,         \* live drivers: handle -> record
          registry,     \* _driver_registry[0 .. _driver_count - 1]
          framebuffer,  \* _framebuffer_driver
          initialized,  \* _initialized
          shared,       \* _sharedFrameBuffer: [driver, active, mode]
          freedTwice    \* a buffer has been freed twice

deviceVars == <<heap, registry, framebuffer, initialized, shared, freedTwice>>
NoShared == [driver |-> NoDriver, active |-> FALSE, mode |-> DefaultMode, exists |-> FALSE]
NewShared == [NoShared EXCEPT !.exists = TRUE]

\* The registry part of the state, threaded through the calls of one action.
Manager == [heap |-> heap, registry |-> registry, fb |-> framebuffer,
            init |-> initialized, twice |-> freedTwice]

DKitCreateDriver(m, kind, h) ==
    [m EXCEPT !.heap = (h :> [kind |-> kind, state |-> "notLoaded", open |-> {},
                              mode |-> DefaultMode]) @@ m.heap]

DKitFindDriver(m, kind) == \E i \in DOMAIN m.registry : m.heap[m.registry[i]].kind = kind

DKitRegisterDriver(m, h) ==
    IF DKitFindDriver(m, m.heap[h].kind) \/ Len(m.registry) >= MAX_DRIVERS THEN m
    ELSE [m EXCEPT !.registry = Append(@, h), !.heap[h].state = "loaded"]

\* A new driver of the given kind, registered; nothing if the heap is full.
Install(m, kind, h) ==
    IF h = NoDriver THEN m ELSE DKitRegisterDriver(DKitCreateDriver(m, kind, h), h)

DKitProbeDrivers(m, failures) ==
    Cardinality({i \in DOMAIN m.registry :
        /\ m.heap[m.registry[i]].state = "loaded"
        /\ m.heap[m.registry[i]].kind = "X11Framebuffer" => HaveX11 /\ "display" \notin failures})

\* What starting a driver leaves open, and the state it ends in.
x11_initialize(d, failures) ==
    IF ~HaveX11 \/ "display" \in failures THEN [d EXCEPT !.state = "error"]
    ELSE IF "back buffer" \in failures
    THEN [d EXCEPT !.state = "error", !.open = @ \cup {"display"}]
    ELSE [d EXCEPT !.state = "ready", !.open = @ \cup {"display", "buffer", "image"}]

nofb_start(d, failures) ==
    IF "memory" \in failures THEN [d EXCEPT !.state = "error", !.mode = DefaultMode]
    ELSE [d EXCEPT !.state = "ready", !.mode = DefaultMode, !.open = @ \cup {"buffer"}]

Started(d, failures) ==
    CASE d.state # "loaded" -> d
      [] d.kind = "X11Framebuffer" -> x11_initialize(d, failures)
      [] OTHER -> nofb_start(d, failures)

DKitStartDrivers(m, failures) ==
    [m EXCEPT !.heap = [h \in DOMAIN m.heap |->
        IF \E i \in DOMAIN m.registry : m.registry[i] = h
        THEN Started(m.heap[h], failures) ELSE m.heap[h]]]

NumberStarted(before, after) ==
    Cardinality({h \in DOMAIN after.heap :
                   after.heap[h].state = "ready" /\ before.heap[h].state # "ready"})

\* XDestroyImage frees the image and the buffer it was made from, so the
\* free(fb->backBuffer) that follows frees it again.
DKitStopDrivers(m) ==
    LET ready == {m.registry[i] : i \in DOMAIN m.registry}
                   \cap {h \in DOMAIN m.heap : m.heap[h].state = "ready"}
    IN  [m EXCEPT !.heap = [h \in DOMAIN m.heap |->
                        IF h \in ready THEN [m.heap[h] EXCEPT !.state = "loaded", !.open = {}]
                        ELSE m.heap[h]],
                  !.twice = @ \/ \E h \in ready : "image" \in m.heap[h].open]

\* A driver that is still ready is refused; DKitShutdown ignores the refusal.
DKitDestroyDriver(m, h) ==
    IF m.heap[h].state = "ready" THEN m
    ELSE [m EXCEPT !.heap = [g \in DOMAIN m.heap \ {h} |-> m.heap[g]]]

DKitInitialize(m) ==
    IF m.init THEN m ELSE [m EXCEPT !.registry = << >>, !.fb = NoDriver, !.init = TRUE]

\* Mutant: shutdown frees the drivers and forgets to clear the framebuffer driver.
ShutdownKeepsFb(m) ==
    IF ~m.init THEN m
    ELSE LET stopped == DKitStopDrivers(m)
             freed == FoldLeft(DKitDestroyDriver, stopped, Reverse(stopped.registry))
         IN  [freed EXCEPT !.registry = << >>, !.init = FALSE]

DKitShutdown(m) ==
    IF ~m.init THEN m
    ELSE LET stopped == DKitStopDrivers(m)
             freed == FoldLeft(DKitDestroyDriver, stopped, Reverse(stopped.registry))
         IN  [freed EXCEPT !.registry = << >>, !.fb = NoDriver, !.init = FALSE]

\* The driver that initializeFrameBuffer settles on once the drivers are
\* registered and probed; x and n are the X11 and the null driver.
Chosen(m, n, failures) ==
    IF DKitProbeDrivers(m, failures) = 0 \/ m.fb = NoDriver THEN n ELSE m.fb

Commit(m) ==
    /\ heap' = m.heap
    /\ registry' = m.registry
    /\ framebuffer' = m.fb
    /\ initialized' = m.init
    /\ freedTwice' = m.twice

\* Addresses for one X11 and one null driver, NoDriver where malloc fails.
Fresh(failures) ==
    {p \in ((Handles \ DOMAIN heap) \cup {NoDriver}) \X ((Handles \ DOMAIN heap) \cup {NoDriver}) :
        /\ p[1] # p[2] \/ p[1] = NoDriver
        /\ p[1] = NoDriver <=> "x11 record" \in failures
        /\ p[2] = NoDriver <=> "null record" \in failures}

-----------------------------------------------------------------------------
DVInit ==
    /\ heap = << >>
    /\ registry = << >>
    /\ framebuffer = NoDriver
    /\ initialized = FALSE
    /\ shared = NoShared
    /\ freedTwice = FALSE

initializeFrameBuffer(failures) ==
    \E p \in Fresh(failures) :
      LET s == IF shared.exists THEN shared ELSE NewShared
          created == Install(Install(DKitInitialize(Manager), "X11Framebuffer", p[1]),
                             "NoFramebuffer", p[2])
          chosen == [created EXCEPT !.fb = Chosen(created, p[2], failures)]
          running == DKitStartDrivers(chosen, failures)
      IN  /\ Commit(running)
          /\ shared' = IF NumberStarted(chosen, running) > 0 /\ running.fb # NoDriver
                       THEN [s EXCEPT !.driver = running.fb, !.active = TRUE] ELSE s

shutdown ==
    /\ Commit(DKitShutdown(DKitStopDrivers(Manager)))
    /\ shared' = NoShared

\* x86_64_initialize_framebuffer, and the same function for i386 and mips:
\* only registers a driver and makes it the frame buffer driver.
PlatformInitialize(kind, failures) ==
  /\ initialized => MixedInit
  /\ \E p \in Fresh(failures) :
      LET h == IF kind = "X11Framebuffer" THEN p[1] ELSE p[2]
          m == Install(Manager, kind, h)
      IN  /\ h # NoDriver
          /\ Commit([m EXCEPT !.fb = h])
          /\ UNCHANGED shared

setMode(mode, failures) ==
    /\ shared.driver # NoDriver
    /\ \/ /\ heap[shared.driver].kind = "NoFramebuffer" => "memory" \notin failures
          /\ heap' = [heap EXCEPT ![shared.driver].mode = mode]
          /\ shared' = [shared EXCEPT !.mode = mode]
       \/ /\ heap[shared.driver].kind = "NoFramebuffer"
          /\ "memory" \in failures
          /\ mode # heap[shared.driver].mode
          /\ UNCHANGED <<heap, shared>>
    /\ UNCHANGED <<registry, framebuffer, initialized, freedTwice>>

DVNext ==
    \/ \E failures \in SUBSET Failures :
         \/ initializeFrameBuffer(failures)
         \/ \E kind \in Kinds : PlatformInitialize(kind, failures)
         \/ \E mode \in Modes : setMode(mode, failures)
    \/ shutdown

DVSpec == DVInit /\ [][DVNext]_deviceVars

-----------------------------------------------------------------------------
\* Types of the state of DKitDriverManager.c and of NXFrameBuffer.
DVTypeOK ==
    /\ DOMAIN heap \subseteq Handles
    /\ \A h \in DOMAIN heap : heap[h] \in
         [kind : Kinds, state : States, open : SUBSET {"display", "buffer", "image"}, mode : Modes]
    /\ registry \in Seq(Handles)
    /\ framebuffer \in Handles \cup {NoDriver}
    /\ initialized \in BOOLEAN

\* Whatever order the calls come in, no pointer that outlives a call (the
\* registry, _framebuffer_driver, the driver of the shared object) refers to
\* a driver that DKitDestroyDriver has freed, and no driver is listed twice
\* under one name.
DriversAlive ==
    /\ \A i \in DOMAIN registry : registry[i] \in DOMAIN heap
    /\ framebuffer # NoDriver => framebuffer \in DOMAIN heap
    /\ shared.driver # NoDriver => shared.driver \in DOMAIN heap
    /\ \A i, j \in DOMAIN registry : heap[registry[i]].kind = heap[registry[j]].kind => i = j

\* initializeFrameBuffer answers YES only with a driver that has started: the
\* driver behind an active shared object is running and holds its buffer, and
\* a driver that is not running holds nothing that its stop would release.
ActiveDriverRuns ==
    /\ shared.active => heap[shared.driver].state = "ready"
    /\ \A h \in DOMAIN heap : (heap[h].state = "ready") <=> (heap[h].open # {})

\* The bounds that the shared object reports are those of the buffer its
\* driver has, also after a mode change for which there was no memory.
BoundsFollowDriver == shared.active => shared.mode = heap[shared.driver].mode

\* x11_shutdown releases each buffer once.
BuffersFreedOnce == ~freedTwice

\* "Use X11 if available, otherwise null" (DeviceKit.appkit.m): an active
\* frame buffer runs on X11 when the X11 driver has started.
X11Preferred ==
    shared.active /\ (\E i \in DOMAIN registry : /\ heap[registry[i]].kind = "X11Framebuffer"
                                                 /\ heap[registry[i]].state = "ready")
      => heap[shared.driver].kind = "X11Framebuffer"

\* The registry, the active driver, its buffers and the screen bounds agree.
DriversConsistent == DVTypeOK /\ DriversAlive /\ ActiveDriverRuns /\ BoundsFollowDriver
-----------------------------------------------------------------------------
(* The off-screen buffer of the null display driver                        *)
(* (DeviceNoFramebuffer.c): its allocation by mode and the drawing         *)
(* operations that address it row by row.                                  *)

CONSTANTS ScreenModes,   \* <<width, height>> that set_mode may be asked for
          StartMode,     \* the mode nofb_initialize sets (640 x 480)
          Rects,         \* rectangles drawn: [x, y, width, height]
          Moves,         \* <<dx, dy>> of nofb_copy_rect
          Colors,        \* pixel values, 0 is black
          Modulus        \* 2^32: width * height * 4 is computed in uint32_t

ASSUME FramebufferAssumption ==
    /\ StartMode \in ScreenModes
    /\ \A m \in ScreenModes : m[1] \in Nat \ {0} /\ m[2] \in Nat \ {0}
    /\ 0 \in Colors
    /\ Modulus \in Nat \ {0}

VARIABLES pixels,   \* fb->framebuffer: index -> colour, << >> when not allocated
          size,     \* fb->framebufferSize, in bytes
          width, height

fbVars == <<pixels, size, width, height>>

Bytes(w, h) == (w * h * 4) % Modulus
Black(bytes) == [i \in 0..(bytes \div 4) - 1 |-> 0]
Allocated == pixels # << >>

FBInit ==
    /\ pixels = << >>
    /\ size = 0
    /\ width = 0
    /\ height = 0

\* The mode is set before the allocation that may fail.
nofb_initialize(memory) ==
    /\ ~Allocated
    /\ width' = StartMode[1]
    /\ height' = StartMode[2]
    /\ size' = Bytes(StartMode[1], StartMode[2])
    /\ pixels' = IF memory THEN Black(size') ELSE << >>

nofb_shutdown ==
    /\ Allocated
    /\ pixels' = << >>
    /\ UNCHANGED <<size, width, height>>

\* realloc only when the size changes; nothing changes when it fails.
nofb_set_mode(mode, memory) ==
    /\ Allocated
    /\ memory \/ Bytes(mode[1], mode[2]) = size
    /\ size' = Bytes(mode[1], mode[2])
    /\ width' = mode[1]
    /\ height' = mode[2]
    /\ pixels' = Black(size')

Clipped(rect) ==
    {p \in (rect.x .. rect.x + rect.width - 1) \X (rect.y .. rect.y + rect.height - 1) :
        p[1] \in 0..width - 1 /\ p[2] \in 0..height - 1}
IndexOf(p) == p[2] * width + p[1]

nofb_fill_rect(rect, color) ==
    /\ Allocated
    /\ LET written == {IndexOf(p) : p \in Clipped(rect)}
       IN  pixels' = [i \in DOMAIN pixels \cup written |->
                        IF i \in written THEN color ELSE pixels[i]]
    /\ UNCHANGED <<size, width, height>>

\* Source points whose destination is on the screen too, in the order in
\* which the two loops visit them: by rows, each from left to right.
CopyOrder(rect, dx, dy) ==
    SetToSortSeq({p \in Clipped(rect) : /\ p[1] + dx \in 0..width - 1
                                        /\ p[2] + dy \in 0..height - 1},
                 LAMBDA p, q : p[2] < q[2] \/ (p[2] = q[2] /\ p[1] < q[1]))

nofb_copy_rect(rect, dx, dy) ==
    /\ Allocated
    /\ pixels' = FoldLeft(LAMBDA buffer, p :
                            [buffer EXCEPT ![IndexOf(<<p[1] + dx, p[2] + dy>>)] = buffer[IndexOf(p)]],
                          pixels, CopyOrder(rect, dx, dy))
    /\ UNCHANGED <<size, width, height>>

FBNext ==
    \/ \E memory \in BOOLEAN :
         \/ nofb_initialize(memory)
         \/ \E mode \in ScreenModes : nofb_set_mode(mode, memory)
    \/ nofb_shutdown
    \/ \E rect \in Rects :
         \/ \E color \in Colors : nofb_fill_rect(rect, color)
         \/ \E move \in Moves : nofb_copy_rect(rect, move[1], move[2])

FBSpec == FBInit /\ [][FBNext]_fbVars

-----------------------------------------------------------------------------
\* After any sequence of mode changes, of which some find no memory, every
\* point of the screen has its own pixel inside the buffer: the rows that the
\* drawing loops address do not run past the size that was allocated.
BufferCoversScreen ==
    Allocated => /\ DOMAIN pixels = 0..(size \div 4) - 1
                 /\ \A p \in (0..width - 1) \X (0..height - 1) : IndexOf(p) \in DOMAIN pixels

\* A drawing call changes no pixel outside its rectangle: clipping at the
\* right edge keeps a row from running on into the next one.
Shifted(rect, dx, dy) == [rect EXCEPT !.x = @ + dx, !.y = @ + dy]
ChangesOnly(rect) ==
    \A i \in DOMAIN pixels : pixels'[i] # pixels[i] => i \in {IndexOf(p) : p \in Clipped(rect)}
DrawsInside ==
    \A rect \in Rects :
        /\ \A c \in Colors : nofb_fill_rect(rect, c) => ChangesOnly(rect)
        /\ \A m \in Moves : nofb_copy_rect(rect, m[1], m[2]) => ChangesOnly(Shifted(rect, m[1], m[2]))
DrawingStaysInside == [][DrawsInside]_fbVars

\* Copying up or to the left (the direction of a scroll) moves the old
\* contents: the loops never read a pixel they have already overwritten.
MovesBack(dx, dy) == dy < 0 \/ (dy = 0 /\ dx <= 0)
CopiesOldPixels ==
    \A rect \in Rects, m \in Moves :
        MovesBack(m[1], m[2]) /\ nofb_copy_rect(rect, m[1], m[2]) =>
          \A p \in Clipped(rect) :
            LET q == <<p[1] + m[1], p[2] + m[2]>>
            IN  q[1] \in 0..width - 1 /\ q[2] \in 0..height - 1
                  => pixels'[IndexOf(q)] = pixels[IndexOf(p)]
CopyMovesOldPixels == [][CopiesOldPixels]_fbVars
=============================================================================
