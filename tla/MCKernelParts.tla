--------------------------- MODULE MCKernelParts ---------------------------
(* The parts of the kernel that stand alone: one mach_msg_receive, the rights *)
(* that travel in messages, wait channels, the splay tree of Mach 4, DeviceKit *)
(* and libkern.  part says which one of them moves.                           *)
EXTENDS Messaging, SplayTree, Devices,
        RbTree, IntrusiveLists, LibkernValues

VARIABLE part

MCScreenModes == {<<2, 2>>, <<3, 2>>, <<2, 3>>}
MCStart == <<2, 2>>
MCRects == [x : {-1, 1}, y : {0, 1}, width : {1, 2}, height : {1, 2}]
MCMoves == {<<0, -1>>, <<-1, 0>>, <<1, 1>>, <<1, -1>>}
MCTexts == {<< >>, <<97>>, <<65>>, <<98, 65>>, <<66, 97, 98>>}

otherVars == <<STvars, deviceVars, fbVars, rbVars, listVars, ringVars, valueVars>>
mcVars == <<messageVars, otherVars, part>>

MCInit ==
    /\ part \in {"receive", "waiting", "rights", "splay", "devices", "framebuffer",
                 "tree", "lists", "hash", "rings", "strings", "array", "register"}
    /\ MSInit /\ STInit
    /\ DVInit /\ FBInit /\ RBInit /\ LIInit /\ RingInit /\ LVInit
    /\ part = "rings" \/ kind = "kmsg"

MCMessages ==
    /\ UNCHANGED otherVars
    /\ \/ part = "receive" /\ ReceiveMoves
       \/ part = "waiting" /\ WaitMoves
       \/ part = "rights" /\ RightsMove
MCDevices ==
    /\ UNCHANGED <<messageVars, STvars, rbVars, listVars, ringVars, valueVars>>
    /\ \/ part = "devices" /\ DVNext /\ UNCHANGED fbVars
       \/ part = "framebuffer" /\ FBNext /\ UNCHANGED deviceVars
MCStructures ==
    /\ UNCHANGED <<messageVars, deviceVars, fbVars, valueVars>>
    /\ \/ part = "splay" /\ STNext /\ UNCHANGED <<rbVars, listVars, ringVars>>
       \/ part = "tree" /\ RBNext /\ UNCHANGED <<STvars, listVars, ringVars>>
       \/ part = "lists" /\ LinkStep /\ UNCHANGED <<STvars, rbVars, hashVars, ringVars>>
       \/ part = "hash" /\ HashStep /\ UNCHANGED <<STvars, rbVars, linkVars, ringVars>>
       \/ part = "rings" /\ RingStep /\ UNCHANGED <<STvars, rbVars, listVars>>
MCValues ==
    /\ UNCHANGED <<messageVars, STvars, deviceVars, fbVars, rbVars, listVars, ringVars>>
    /\ \/ part = "strings" /\ StringStep
       \/ part = "array" /\ ArrayStep
       \/ part = "register" /\ RegisterStep
MCNext == UNCHANGED part /\ (MCMessages \/ MCDevices \/ MCStructures \/ MCValues)

\* The loop of mach_msg_receive turns, and a thread inside a call goes on: a
\* mutex that is free again and again is obtained in the end.
MCReceive == /\ part = "receive" /\ ReceiveStep
             /\ UNCHANGED <<waitVars, CCvars, otherVars, part>>
MCWait(t) == /\ part = "waiting" /\ place[t] # "find" /\ Step(t)
             /\ UNCHANGED <<receiveVars, CCvars, otherVars, part>>
MCCheck(t) == /\ part = "rights" /\ CCStep(t)
              /\ UNCHANGED <<receiveVars, waitVars, otherVars, part>>
MCSpec == /\ MCInit /\ [][MCNext]_mcVars
          /\ WF_mcVars(MCReceive)
          /\ \A t \in Threads : SF_mcVars(MCWait(t))
          /\ \A t \in Senders : SF_mcVars(MCCheck(t))

-----------------------------------------------------------------------------
\* Calls of the kernel return: mach_msg_receive with a timeout, whatever happens
\* to its port; thread_block once a wakeup came after its assert_wait; and
\* ipc_port_check_circularity, because the order in which it takes the locks of
\* ports leads no two threads into a deadlock.
MCCallsReturn ==
    /\ part = "receive" => ReceiveReturns
    /\ part = "waiting" => WokenReturns
    /\ part = "rights" => CheckReturns

\* DeviceKit: no driver of the registry is freed, the active one runs, bounds
\* and buffer follow the mode (DeviceKitDriverManager.c, DeviceNoFramebuffer.c).
DeviceKitConsistent ==
    /\ part = "devices" => DriversConsistent
    /\ part = "framebuffer" => BufferCoversScreen

\* The splay tree stays a search tree, the red-black tree of libkern is balanced
\* and walked in order, both links of every list and ring agree, a hash chain
\* finds what was entered, strings compare and words rotate as their names say.
StructuresConsistent ==
    /\ part = "splay" => SearchOrder
    /\ part = "tree" => Walks /\ RbBalanced
    /\ part = "lists" => LinksAgree
    /\ part = "hash" => HashFinds
    /\ part = "rings" => RingsAgree
    /\ part = "strings" => ComparesWithoutCase
    /\ part = "register" => WordsExact

\* The splay tree is the ordered set of its names and the intrusive lists are
\* sequences: each operation of the pointers is one of the abstract structure.
ImplementsAbstract ==
    /\ NS!NSInit /\ Abstract!NLInit /\ Rings!NLInit
    /\ [][/\ part = "splay" => [NS!NSNext]_(NS!NSvars)
          /\ part = "lists" => [Abstract!NLNext]_(Abstract!NLvars)
          /\ part = "rings" => [Rings!NLNext]_(Rings!NLvars)]_mcVars

\* What a step may never do: a drawing call changes no pixel outside its
\* rectangle, a bounded copy no byte beyond the buffer, an operation on a bit
\* no other bit; and scrolling moves the old pixels.
StepsKeepOthers ==
    [][/\ part = "framebuffer" => DrawsInside /\ CopiesOldPixels
       /\ part = "strings" => BoundsStrings
       /\ part = "array" => ChangesBits]_mcVars
=============================================================================
