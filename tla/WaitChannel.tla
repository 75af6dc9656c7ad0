----------------------------- MODULE WaitChannel -----------------------------
(***************************************************************************)
(* Wait channels (ipc/ipc_sched.c): assert_wait, thread_block and          *)
(* thread_wakeup of the Mach code on top of a mutex, a condition variable  *)
(* and a flag per event.  Host threads run these functions concurrently;   *)
(* the list of channels has no lock of its own, so the search, the reading *)
(* of its head and the writing of it are separate steps.                   *)
(***************************************************************************)
EXTENDS Integers, Sequences

CONSTANTS Waiters,   \* threads that call assert_wait and then thread_block
          Wakers,    \* threads that call thread_wakeup
          Existing   \* has the event's channel been created before?

ASSUME WaitAssumption == /\ Waiters \cap Wakers = {}
                         /\ Existing \in BOOLEAN

Threads == Waiters \cup Wakers
None == "none"   \* an unlocked mutex

VARIABLES channels,  \* allocated channels for the event, in order
          head,      \* mxwl_wait_channels: index of the first one, 0 for NULL
          place,     \* thread -> its position
          ch,        \* thread -> the channel it works on
          woken_since  \* waiters whose channel was signalled since assert_wait

waitVars == <<channels, head, place, ch, woken_since>>

NewChannel == [mutex |-> None, woken |-> FALSE, next |-> 0]

WCInit ==
        /\ channels = IF Existing THEN <<NewChannel>> ELSE <<>>
        /\ head = IF Existing THEN 1 ELSE 0
        /\ place = [t \in Threads |-> "find"]
        /\ ch = [t \in Threads |-> 0]
        /\ woken_since = {}

Goto(t, label) == place' = [place EXCEPT ![t] = label]
-----------------------------------------------------------------------------
(* mxwl_wait_find: all channels are for the one event, so the search ends  *)
(* at the head of the list.                                                *)

Search(t) ==
    /\ place[t] = "find"
    /\ \/ head # 0 /\ ch' = [ch EXCEPT ![t] = head] /\ Goto(t, "lock")
       \/ head = 0 /\ UNCHANGED ch /\ Goto(t, "create")
    /\ UNCHANGED <<channels, head, woken_since>>

\* calloc, initialisation and ch->mw_next = mxwl_wait_channels
Create(t) ==
    /\ place[t] = "create"
    /\ channels' = Append(channels, [NewChannel EXCEPT !.next = head])
    /\ ch' = [ch EXCEPT ![t] = Len(channels) + 1]
    /\ Goto(t, "publish")
    /\ UNCHANGED <<head, woken_since>>

\* calloc found no memory: mxwl_wait_find returns NULL, and with it the wakeup;
\* assert_wait returns too, with mxwl_current_wait still NULL from the
\* thread's last thread_block.
CreateFails(t) ==
    /\ place[t] = "create"
    /\ ch' = [ch EXCEPT ![t] = 0]
    /\ woken_since' = woken_since \ {t}
    /\ Goto(t, IF t \in Waiters THEN "unasserted" ELSE "done")
    /\ UNCHANGED <<channels, head>>

\* mxwl_wait_channels = ch
Publish(t) ==
    /\ place[t] = "publish"
    /\ head' = ch[t]
    /\ Goto(t, "lock")
    /\ UNCHANGED <<channels, ch, woken_since>>
-----------------------------------------------------------------------------
Free(t) == channels[ch[t]].mutex = None
Holds(t) == channels[ch[t]].mutex = t

\* Mutant: the flag of an earlier wakeup is left set.
AssertWaitKeepsFlag(t) ==
    /\ t \in Waiters /\ place[t] = "lock" /\ Free(t)
    /\ channels' = [channels EXCEPT ![ch[t]].mutex = t]
    /\ woken_since' = woken_since \ {t}
    /\ Goto(t, "block")
    /\ UNCHANGED <<head, ch>>

\* The rest of mxwl_assert_wait; the mutex stays locked.
mxwl_assert_wait(t) ==
    /\ t \in Waiters /\ place[t] = "lock" /\ Free(t)
    /\ channels' = [channels EXCEPT ![ch[t]].mutex = t, ![ch[t]].woken = FALSE]
    /\ woken_since' = woken_since \ {t}
    /\ Goto(t, "block")
    /\ UNCHANGED <<head, ch>>

\* mxwl_thread_block.  With a channel, the loop condition, the mutex held:
\* return, or release the mutex and wait in one step (pthread_cond_wait).
\* Without one it yields the processor and returns.
mxwl_thread_block(t) ==
    /\ \/ /\ place[t] = "block" /\ Holds(t)
          /\ channels' = [channels EXCEPT ![ch[t]].mutex = None]
          /\ Goto(t, IF channels[ch[t]].woken THEN "done" ELSE "waiting")
       \/ /\ place[t] = "unasserted"
          /\ Goto(t, "done")
          /\ UNCHANGED channels
    /\ UNCHANGED <<head, ch, woken_since>>

\* A signalled thread gets the mutex back and tests the flag again.
Reacquire(t) ==
    /\ place[t] = "signalled" /\ Free(t)
    /\ channels' = [channels EXCEPT ![ch[t]].mutex = t]
    /\ Goto(t, "block")
    /\ UNCHANGED <<head, ch, woken_since>>

\* pthread_cond_wait may return without a signal.
SpuriousWakeup(t) ==
    /\ place[t] = "waiting" /\ Free(t)
    /\ channels' = [channels EXCEPT ![ch[t]].mutex = t]
    /\ Goto(t, "block")
    /\ UNCHANGED <<head, ch, woken_since>>

Asserted(c) == {u \in Waiters : ch[u] = c /\ place[u] \in {"block", "waiting", "signalled"}}

\* Mutant: the waiters are signalled and the flag is not set.
WakeupNoFlag(t) ==
    /\ t \in Wakers /\ place[t] = "lock" /\ Free(t)
    /\ place' = [u \in Threads |-> IF u = t THEN "done"
                                ELSE IF place[u] = "waiting" /\ ch[u] = ch[t]
                                THEN "signalled" ELSE place[u]]
    /\ woken_since' = woken_since \cup Asserted(ch[t])
    /\ UNCHANGED <<channels, head, ch>>

\* Mutant: the waker returns with the mutex locked.
WakeupKeepsMutex(t) ==
    /\ t \in Wakers /\ place[t] = "lock" /\ Free(t)
    /\ channels' = [channels EXCEPT ![ch[t]].woken = TRUE, ![ch[t]].mutex = t]
    /\ place' = [u \in Threads |-> IF u = t THEN "done"
                                ELSE IF place[u] = "waiting" /\ ch[u] = ch[t]
                                THEN "signalled" ELSE place[u]]
    /\ woken_since' = woken_since \cup Asserted(ch[t])
    /\ UNCHANGED <<head, ch>>

\* The critical section of mxwl_thread_wakeup: flag and broadcast.
mxwl_thread_wakeup(t) ==
    /\ t \in Wakers /\ place[t] = "lock" /\ Free(t)
    /\ channels' = [channels EXCEPT ![ch[t]].woken = TRUE]
    /\ place' = [u \in Threads |-> IF u = t THEN "done"
                                ELSE IF place[u] = "waiting" /\ ch[u] = ch[t]
                                THEN "signalled" ELSE place[u]]
    /\ woken_since' = woken_since \cup Asserted(ch[t])
    /\ UNCHANGED <<head, ch>>

\* The next wait of a thread that has come back, and the next wakeup.
Again(t) ==
    /\ place[t] = "done"
    /\ Goto(t, "find")
    /\ UNCHANGED <<channels, head, ch, woken_since>>

Step(t) == \/ Search(t) \/ Create(t) \/ CreateFails(t) \/ Publish(t)
           \/ mxwl_assert_wait(t) \/ mxwl_thread_block(t)
           \/ Reacquire(t) \/ mxwl_thread_wakeup(t)

WCNext == \E t \in Threads : Step(t) \/ SpuriousWakeup(t) \/ Again(t)

\* A thread inside a call goes on; a mutex that is free again and again is
\* obtained in the end.  Nobody is obliged to start a wait or a wakeup.
Fairness == \A t \in Threads : SF_waitVars(place[t] # "find" /\ Step(t))

WCSpec == WCInit /\ [][WCNext]_waitVars
WCFairSpec == WCSpec /\ Fairness
-----------------------------------------------------------------------------
(* Properties *)

Ids == 0 .. Len(channels)

\* Positions, channel references and mutex owners are of their kinds.
WCTypeOK ==
          /\ \A c \in DOMAIN channels :
                channels[c] \in [mutex : Waiters \cup {None}, woken : BOOLEAN,
                                 next : Ids]
          /\ head \in Ids
          /\ place \in [Threads -> {"find", "create", "publish", "lock", "block",
                                 "waiting", "signalled", "unasserted", "done"}]
          /\ ch \in [Threads -> Ids]
          /\ woken_since \subseteq Waiters

\* thread_block of a thread whose assert_wait got a channel returns only when
\* the event was signalled after that assert_wait, in spite of spurious
\* wakeups, of wakeups that came before, and of other threads that use the
\* channel; it returns without a wakeup only if no memory was left for a
\* channel (ch[t] = 0).
NoEarlyReturn ==
    \A t \in Waiters : place[t] = "done" => t \in woken_since \/ ch[t] = 0

\* A waiter does not miss a wakeup that comes between its assert_wait and
\* the moment it sleeps, or while it sleeps, and the mutex is never left
\* with a thread that will not release it: the waiter comes back, unless
\* another one begins to wait on the same channel after the wakeup.
WokenReturns ==
    \A t \in Waiters :
        t \in woken_since /\ place[t] \in {"block", "waiting", "signalled"}
            ~> place[t] = "done" \/ Asserted(ch[t]) \ woken_since # {}

\* ipc_sched.c: "wake all threads waiting on an event".  A thread that was
\* waiting when the event was signalled comes back.
WakesAll == \A t \in Waiters : place[t] = "signalled" ~> place[t] = "done"
=============================================================================
