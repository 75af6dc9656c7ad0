-------------------------- MODULE MessagingProofs --------------------------
(***************************************************************************)
(* Proofs about Messaging, with the call that receives, WaitChannel and the *)
(* check for circularity, for any timeout, any numbers of messages,        *)
(* threads and ports.                                                      *)
(***************************************************************************)
EXTENDS Messaging, SequenceTheorems, TLAPS

(***************************************************************************)
(* mach_msg_receive.  The queue is in the order of sending, so the message *)
(* taken from its head is the oldest; a call that has not returned has no  *)
(* message and no result; and it has waited less than its timeout.         *)
(***************************************************************************)
Queued == {queue[i] : i \in DOMAIN queue}

QueueInOrder == \A i, j \in 1 .. Len(queue) : i < j => queue[i] < queue[j]

CallOpen ==
    pc # "done" => /\ got = 0 /\ kr = "none"
                   /\ TIMEOUT > 0 => elapsed < TIMEOUT

RCInv == RCTypeOK /\ MessagesConserved /\ QueueInOrder /\ CallOpen

LEMMA RCInitInv == ASSUME RCInit PROVE RCInv
  BY ReceiveAssumption DEF RCInit, RCInv, RCTypeOK, MessagesConserved, QueueInOrder, CallOpen

\* What is left of a queue when its head is taken.
LEMMA TailKeepsOrder ==
  ASSUME RCTypeOK, QueueInOrder, queue # <<>>, queue' = Tail(queue)
  PROVE  /\ queue' \in Seq(1 .. MaxSent) /\ Head(queue) \in 1 .. MaxSent
         /\ QueueInOrder'
         /\ Queued = Queued' \cup {Head(queue)}
         /\ \A m \in Queued' : Head(queue) < m
  <1>1. /\ Len(queue) \in Nat \ {0} /\ DOMAIN queue = 1 .. Len(queue)
        /\ Head(queue) = queue[1]
        /\ \A i \in DOMAIN queue : queue[i] \in 1 .. MaxSent
    <2>1. queue \in Seq(1 .. MaxSent) /\ queue # <<>>
      BY DEF RCTypeOK
    <2>2. Len(queue) \in Nat /\ DOMAIN queue = 1 .. Len(queue) /\ Len(queue) # 0
      BY <2>1, EmptySeq, LenProperties
    <2>3. Head(queue) = queue[1]
      BY <2>1
    <2>4. \A i \in 1 .. Len(queue) : queue[i] \in 1 .. MaxSent
      BY <2>1, ElementOfSeq
    <2> QED BY <2>2, <2>3, <2>4
  <1>2. /\ queue' \in Seq(1 .. MaxSent) /\ Len(queue') = Len(queue) - 1
        /\ DOMAIN queue' = 1 .. Len(queue) - 1
        /\ \A i \in 1 .. Len(queue) - 1 : queue'[i] = queue[i + 1]
    BY <1>1 DEF RCTypeOK
  <1>3. QueueInOrder'
    BY <1>1, <1>2 DEF QueueInOrder
  <1>4. Queued \subseteq Queued' \cup {Head(queue)}
    <2>1. SUFFICES ASSUME NEW i \in 1 .. Len(queue), i # 1 PROVE queue[i] \in Queued'
      BY <1>1 DEF Queued
    <2>2. i - 1 \in 1 .. Len(queue) - 1 /\ queue'[i - 1] = queue[i]
      BY <1>1, <1>2, <2>1
    <2> QED BY <1>2, <2>2 DEF Queued
  <1>5. Queued' \subseteq Queued /\ Head(queue) \in Queued
    <2>1. \A i \in 1 .. Len(queue) - 1 : i + 1 \in DOMAIN queue
      BY <1>1
    <2> QED BY <1>1, <1>2, <2>1 DEF Queued
  <1>6. \A m \in Queued' : Head(queue) < m
    <2>1. \A i \in 1 .. Len(queue) - 1 : queue[1] < queue[i + 1]
      BY <1>1 DEF QueueInOrder
    <2> QED BY <1>1, <1>2, <2>1 DEF Queued
  <1> QED BY <1>1, <1>2, <1>3, <1>4, <1>5, <1>6

\* A message sent is the youngest of the queue.
LEMMA SendKeepsOrder ==
  ASSUME RCTypeOK, MessagesConserved, QueueInOrder, Send
  PROVE  /\ queue' \in Seq(1 .. MaxSent)
         /\ QueueInOrder'
         /\ Queued' = Queued \cup {sent + 1}
  <1>1. /\ Len(queue) \in Nat /\ DOMAIN queue = 1 .. Len(queue)
        /\ \A i \in DOMAIN queue : queue[i] \in 1 .. MaxSent
        /\ sent + 1 \in 1 .. MaxSent
    BY ReceiveAssumption DEF RCTypeOK, Send
  <1>2. /\ queue' \in Seq(1 .. MaxSent)
        /\ DOMAIN queue' = 1 .. Len(queue) + 1 /\ Len(queue') = Len(queue) + 1
        /\ \A i \in 1 .. Len(queue) : queue'[i] = queue[i]
        /\ queue'[Len(queue) + 1] = sent + 1
    BY <1>1 DEF RCTypeOK, Send
  <1>3. \A i \in 1 .. Len(queue) : queue[i] <= sent
    BY <1>1 DEF MessagesConserved, RCTypeOK
  <1>4. QueueInOrder'
    BY <1>1, <1>2, <1>3, SMTT(30) DEF QueueInOrder, RCTypeOK
  <1>5. Queued' = Queued \cup {sent + 1}
    <2>1. Queued' = {queue'[i] : i \in 1 .. Len(queue) + 1}
      BY <1>2 DEF Queued
    <2>2. 1 .. Len(queue) + 1 = (1 .. Len(queue)) \cup {Len(queue) + 1}
      BY <1>1
    <2> QED BY <1>1, <1>2, <2>1, <2>2 DEF Queued
  <1> QED BY <1>2, <1>4, <1>5

\* The sets of MessagesConserved, by name.
Taken == IF got = 0 THEN {} ELSE {got}

LEMMA ConservedSets ==
  MessagesConserved <=>
    /\ Queued \cup dropped \cup Taken = 1 .. sent
    /\ Queued \cap dropped = {} /\ Taken \cap (Queued \cup dropped) = {}
    /\ got # 0 => \A m \in Queued : got < m
    /\ got # 0 <=> kr = "KERN_SUCCESS"
  BY DEF MessagesConserved, Queued, Taken

LEMMA RCStepInv == ASSUME RCInv, [RCNext]_receiveVars PROVE RCInv'
  <1> USE ReceiveAssumption
  <1>0. /\ Queued \cup dropped \cup Taken = 1 .. sent
        /\ Queued \cap dropped = {} /\ Taken \cap (Queued \cup dropped) = {}
        /\ got # 0 => \A m \in Queued : got < m
        /\ got # 0 <=> kr = "KERN_SUCCESS"
    BY ConservedSets DEF RCInv
  <1>c. ASSUME /\ (Queued \cup dropped \cup Taken)' = 1 .. sent'
               /\ (Queued \cap dropped)' = {} /\ (Taken \cap (Queued \cup dropped))' = {}
               /\ got' # 0 => \A m \in Queued' : got' < m
               /\ got' # 0 <=> kr' = "KERN_SUCCESS"
        PROVE  MessagesConserved'
    BY <1>c DEF MessagesConserved, Queued, Taken
  <1>1. CASE Lookup
    BY <1>1, <1>0, <1>c DEF Lookup, Return, RCInv, RCTypeOK, Queued, Taken, QueueInOrder, CallOpen
  <1>2. CASE Dequeue
    <2>1. CASE queue # <<>>
      <3>1. /\ got' = Head(queue) /\ queue' = Tail(queue)
            /\ pc' = "done" /\ kr' = "KERN_SUCCESS" /\ got = 0 /\ Taken = {}
            /\ UNCHANGED <<now, elapsed, sent, dropped, gen>>
        BY <1>2, <2>1 DEF Dequeue, Return, RCInv, CallOpen, Taken
      <3>2. /\ queue' \in Seq(1 .. MaxSent) /\ Head(queue) \in 1 .. MaxSent
            /\ QueueInOrder'
            /\ Queued = Queued' \cup {Head(queue)}
            /\ \A m \in Queued' : Head(queue) < m
        BY <2>1, <3>1, TailKeepsOrder DEF RCInv
      <3>3. Taken' = {Head(queue)}
        BY <3>1, <3>2 DEF Taken
      <3>4. Head(queue) \notin Queued'
        BY <3>2
      <3>5. MessagesConserved'
        BY <1>0, <1>c, <3>1, <3>2, <3>3, <3>4
      <3> QED BY <3>1, <3>2, <3>5 DEF RCInv, RCTypeOK, CallOpen
    <2>2. CASE queue = <<>>
      BY <1>2, <2>2, <1>0, <1>c DEF Dequeue, AfterEmpty, RCInv, RCTypeOK, Queued, Taken, QueueInOrder, CallOpen
    <2> QED BY <2>1, <2>2
  <1>3. CASE Poll
    BY <1>3, <1>0, <1>c DEF Poll, Return, RCInv, RCTypeOK, Queued, Taken, QueueInOrder, CallOpen
  <1>4. CASE Count
    BY <1>4, <1>0, <1>c DEF Count, Return, RCInv, RCTypeOK, Queued, Taken, QueueInOrder, CallOpen
  <1>5. CASE Send
    <2>1. /\ queue' \in Seq(1 .. MaxSent) /\ QueueInOrder'
          /\ Queued' = Queued \cup {sent + 1}
      BY <1>5, SendKeepsOrder DEF RCInv
    <2>2. /\ sent' = sent + 1 /\ sent \in Nat /\ sent' \in 0 .. MaxSent
          /\ UNCHANGED <<now, pc, elapsed, kr, got, dropped, gen>> /\ Taken' = Taken
      BY <1>5 DEF Send, RCInv, RCTypeOK, Taken
    <2>3. 1 .. sent' = (1 .. sent) \cup {sent + 1} /\ sent + 1 \notin 1 .. sent
      BY <2>2
    <2>4. (got # 0 => \A m \in Queued' : got < m)
      BY <1>0, <2>1, <2>2 DEF Taken
    <2>5. MessagesConserved'
      BY <1>0, <1>c, <2>1, <2>2, <2>3, <2>4
    <2> QED BY <2>1, <2>2, <2>5 DEF RCInv, RCTypeOK, CallOpen
  <1>6. CASE Destroy
    <2>1. /\ Queued' = {} /\ dropped' = dropped \cup Queued /\ queue' \in Seq(1 .. MaxSent)
          /\ QueueInOrder' /\ Queued \subseteq 1 .. MaxSent /\ Taken' = Taken
          /\ UNCHANGED <<now, pc, elapsed, kr, got, sent>> /\ gen' = "dead"
      BY <1>6 DEF Destroy, Queued, QueueInOrder, RCInv, RCTypeOK, Taken
    <2>2. MessagesConserved'
      BY <1>0, <1>c, <2>1
    <2> QED BY <2>1, <2>2 DEF RCInv, RCTypeOK, CallOpen
  <1>7. CASE Reuse
    BY <1>7, <1>0, <1>c DEF Reuse, RCInv, RCTypeOK, Queued, Taken, QueueInOrder, CallOpen
  <1>8. CASE Tick
    BY <1>8, <1>0, <1>c DEF Tick, RCInv, RCTypeOK, Queued, Taken, QueueInOrder, CallOpen
  <1>9. CASE UNCHANGED receiveVars
    BY <1>9, <1>0, <1>c DEF receiveVars, RCInv, RCTypeOK, Queued, Taken, QueueInOrder, CallOpen
  <1> QED BY <1>1, <1>2, <1>3, <1>4, <1>5, <1>6, <1>7, <1>8, <1>9 DEF RCNext, ReceiveStep

\* ipc.c, mach_msg_receive: however the call ends and whatever happens to the
\* port meanwhile, each message sent is queued, freed with the port or returned,
\* exactly one of the three, and what is returned is the oldest.
THEOREM ReceiveLosesNothing == RCSpec => [](RCTypeOK /\ MessagesConserved)
  <1>1. RCInv => RCTypeOK /\ MessagesConserved
    BY DEF RCInv
  <1> QED BY RCInitInv, RCStepInv, <1>1, PTL DEF RCSpec

-----------------------------------------------------------------------------
(***************************************************************************)
(* Wait channels.  A waiter between its assert_wait and its return whose   *)
(* channel has the flag set was among those present when it was set.       *)
(***************************************************************************)
AtChannel == {"publish", "lock", "block", "waiting", "signalled"}
InBlock == {"block", "waiting", "signalled"}

Channel == [mutex : Waiters \cup {None}, woken : BOOLEAN, next : Ids]

FlagForThose ==
    \A t \in Waiters :
        place[t] \in InBlock /\ channels[ch[t]].woken => t \in woken_since

WCInv ==
    /\ WCTypeOK /\ NoEarlyReturn /\ FlagForThose
    /\ channels \in Seq(Channel)
    /\ \A t \in Threads : place[t] \in AtChannel => ch[t] \in DOMAIN channels
    /\ \A t \in Threads : place[t] \in InBlock => t \in Waiters
    /\ \A t \in Threads : place[t] = "unasserted" => ch[t] = 0

LEMMA WCInitInv == ASSUME WCInit PROVE WCInv
  <1>1. channels \in Seq(Channel)
    <2>1. Len(channels) \in Nat /\ (channels = <<NewChannel>> \/ channels = <<>>)
      BY WaitAssumption DEF WCInit
    <2>2. NewChannel \in Channel
      BY <2>1 DEF NewChannel, Channel, Ids
    <2>3. <<>> \in Seq(Channel) /\ <<NewChannel>> \in Seq(Channel)
      <3> HIDE DEF Channel
      <3> QED BY <2>2
    <2> QED BY <2>1, <2>3
  <1> QED BY <1>1, WaitAssumption
       DEF WCInit, WCInv, WCTypeOK, NoEarlyReturn, FlagForThose, AtChannel, InBlock,
           NewChannel, Channel, Ids, Threads, None

\* A step that changes one channel at most, and its thread's place.
LEMMA ChannelStep ==
  ASSUME WCInv, NEW t \in Threads, NEW c \in Channel,
         ch[t] \in DOMAIN channels, channels' = [channels EXCEPT ![ch[t]] = c]
  PROVE  /\ channels' \in Seq(Channel) /\ DOMAIN channels' = DOMAIN channels
         /\ Len(channels') = Len(channels) /\ Channel' = Channel /\ Ids' = Ids
         /\ \A k \in DOMAIN channels : channels'[k] = IF k = ch[t] THEN c ELSE channels[k]
  <1>1. Len(channels) \in Nat /\ DOMAIN channels = 1 .. Len(channels)
    BY DEF WCInv
  <1>2. /\ channels' \in Seq(Channel) /\ DOMAIN channels' = DOMAIN channels
        /\ Len(channels') = Len(channels)
        /\ \A k \in DOMAIN channels : channels'[k] = IF k = ch[t] THEN c ELSE channels[k]
    BY <1>1 DEF WCInv
  <1> QED BY <1>2 DEF Channel, Ids

LEMMA WCStepInv == ASSUME WCInv, [WCNext]_waitVars PROVE WCInv'
  <1> DEFINE Places == {"find", "create", "publish", "lock", "block", "waiting", "signalled",
                    "unasserted", "done"}
  <1>0. /\ Len(channels) \in Nat /\ DOMAIN channels = 1 .. Len(channels)
        /\ channels \in Seq(Channel)
        /\ \A k \in DOMAIN channels : channels[k] \in Channel
        /\ place \in [Threads -> Places] /\ ch \in [Threads -> Ids]
        /\ head \in Ids /\ woken_since \subseteq Waiters /\ Ids = 0 .. Len(channels)
        /\ \A t \in Threads : place[t] \in AtChannel => ch[t] \in DOMAIN channels
        /\ \A t \in Threads : place[t] \in InBlock => t \in Waiters
        /\ \A t \in Threads : place[t] = "unasserted" => ch[t] = 0
        /\ NoEarlyReturn /\ FlagForThose
        /\ Waiters \subseteq Threads /\ Waiters \cap Wakers = {}
    BY WaitAssumption DEF WCInv, WCTypeOK, Ids, Threads
  <1>t. ASSUME /\ channels' \in Seq(Channel')
               /\ head' \in Ids' /\ place' \in [Threads -> Places] /\ ch' \in [Threads -> Ids']
               /\ woken_since' \subseteq Waiters
        PROVE  WCTypeOK'
    <2>1. \A k \in DOMAIN channels' : channels'[k] \in Channel'
      BY <1>t
    <2> QED BY <1>t, <2>1 DEF WCTypeOK, Channel
  <1>1. ASSUME NEW t \in Threads, Search(t) PROVE WCInv'
    <2>1. /\ UNCHANGED <<channels, head, woken_since>> /\ place[t] = "find"
          /\ \/ head # 0 /\ ch' = [ch EXCEPT ![t] = head] /\ place' = [place EXCEPT ![t] = "lock"]
             \/ head = 0 /\ ch' = ch /\ place' = [place EXCEPT ![t] = "create"]
      BY <1>1 DEF Search, Goto
    <2>2. WCTypeOK'
      BY <1>0, <1>t, <2>1 DEF Ids, Channel
    <2>3. \A u \in Threads : place'[u] = "unasserted" => ch'[u] = 0
      BY <1>0, <2>1
    <2>4. NoEarlyReturn' /\ FlagForThose'
      BY <1>0, <2>1 DEF NoEarlyReturn, FlagForThose, InBlock
    <2>5. /\ \A u \in Threads : place'[u] \in AtChannel => ch'[u] \in DOMAIN channels'
          /\ \A u \in Threads : place'[u] \in InBlock => u \in Waiters
      BY <1>0, <2>1 DEF AtChannel, InBlock, Ids
    <2>6. channels' \in Seq(Channel')
      BY <1>0, <2>1 DEF Channel, Ids
    <2> QED BY <2>2, <2>3, <2>4, <2>5, <2>6 DEF WCInv
  <1>2. ASSUME NEW t \in Threads, Create(t) PROVE WCInv'
    <2> DEFINE new == [NewChannel EXCEPT !.next = head]
    <2>1. /\ channels' = Append(channels, new) /\ place[t] = "create"
          /\ ch' = [ch EXCEPT ![t] = Len(channels) + 1]
          /\ place' = [place EXCEPT ![t] = "publish"]
          /\ UNCHANGED <<head, woken_since>>
      BY <1>2 DEF Create, Goto
    <2>2. new \in Channel'
      <3>1. Len(channels') = Len(channels) + 1
        BY <1>0, <2>1
      <3>2. head \in Ids'
        BY <1>0, <3>1 DEF Ids
      <3>3. NewChannel \in Channel'
        BY <1>0, <3>1 DEF NewChannel, Channel, Ids
      <3> QED BY <3>2, <3>3 DEF Channel
    <2>3. Channel \subseteq Channel' /\ Ids \subseteq Ids'
      <3>1. Len(channels') = Len(channels) + 1
        BY <1>0, <2>1
      <3>2. Ids \subseteq Ids'
        BY <1>0, <3>1 DEF Ids
      <3> QED BY <3>2 DEF Channel
    <2>4. /\ channels \in Seq(Channel')
          /\ channels' \in Seq(Channel') /\ Len(channels') = Len(channels) + 1
          /\ DOMAIN channels' = 1 .. Len(channels) + 1
          /\ \A k \in DOMAIN channels : channels'[k] = channels[k]
      <3>1. channels \in Seq(Channel')
        BY <1>0, <2>3
      <3> HIDE DEF new
      <3> QED BY <1>0, <2>1, <2>2, <3>1
    <2>5. WCTypeOK'
      BY <1>0, <1>t, <2>1, <2>3, <2>4 DEF Ids
    <2>6. \A u \in Threads : place'[u] \in AtChannel => ch'[u] \in DOMAIN channels'
      BY <1>0, <2>1, <2>4
    <2>7. FlagForThose' /\ NoEarlyReturn'
      BY <1>0, <2>1, <2>4 DEF NoEarlyReturn, FlagForThose, AtChannel, InBlock
    <2> QED BY <1>0, <2>1, <2>4, <2>5, <2>6, <2>7 DEF WCInv, InBlock
  <1>10. ASSUME NEW t \in Threads, CreateFails(t) PROVE WCInv'
    <2>1. /\ UNCHANGED <<channels, head>> /\ place[t] = "create"
          /\ ch' = [ch EXCEPT ![t] = 0] /\ woken_since' = woken_since \ {t}
          /\ \/ t \in Waiters /\ place' = [place EXCEPT ![t] = "unasserted"]
             \/ place' = [place EXCEPT ![t] = "done"]
      BY <1>10 DEF CreateFails, Goto
    <2>2. WCTypeOK'
      BY <1>0, <1>t, <2>1 DEF Ids, Channel
    <2> QED BY <1>0, <2>1, <2>2 DEF WCInv, NoEarlyReturn, FlagForThose, AtChannel, InBlock, Ids, Channel
  <1>3. ASSUME NEW t \in Threads, Publish(t) PROVE WCInv'
    <2>1. /\ UNCHANGED <<channels, ch, woken_since>> /\ place[t] = "publish"
          /\ head' = ch[t] /\ place' = [place EXCEPT ![t] = "lock"]
      BY <1>3 DEF Publish, Goto
    <2>2. WCTypeOK'
      BY <1>0, <1>t, <2>1 DEF Ids, Channel
    <2> QED BY <1>0, <2>1, <2>2 DEF WCInv, NoEarlyReturn, FlagForThose, AtChannel, InBlock, Ids, Channel
  <1>4. ASSUME NEW t \in Threads, mxwl_assert_wait(t) PROVE WCInv'
    <2> DEFINE c == [channels[ch[t]] EXCEPT !.mutex = t, !.woken = FALSE]
    <2>1. /\ t \in Waiters /\ place[t] = "lock" /\ ch[t] \in DOMAIN channels
          /\ channels' = [channels EXCEPT ![ch[t]].mutex = t, ![ch[t]].woken = FALSE]
          /\ woken_since' = woken_since \ {t}
          /\ place' = [place EXCEPT ![t] = "block"] /\ UNCHANGED <<head, ch>>
      BY <1>0, <1>4 DEF mxwl_assert_wait, Goto, AtChannel
    <2>2. c \in Channel /\ c.woken = FALSE
      BY <1>0, <2>1 DEF Channel
    <2>3. channels' = [channels EXCEPT ![ch[t]] = c]
      BY <1>0, <2>1
    <2>4. /\ channels' \in Seq(Channel) /\ DOMAIN channels' = DOMAIN channels
          /\ Channel' = Channel /\ Ids' = Ids
          /\ \A k \in DOMAIN channels : channels'[k] = IF k = ch[t] THEN c ELSE channels[k]
      BY <2>1, <2>2, <2>3, ChannelStep
    <2> HIDE DEF c
    <2>5. WCTypeOK'
      BY <1>0, <1>t, <2>1, <2>4
    <2>6. FlagForThose' /\ NoEarlyReturn'
      BY <1>0, <2>1, <2>2, <2>4 DEF NoEarlyReturn, FlagForThose, AtChannel, InBlock
    <2> QED BY <1>0, <2>1, <2>4, <2>5, <2>6 DEF WCInv, AtChannel, InBlock
  <1>5. ASSUME NEW t \in Threads, mxwl_thread_block(t) PROVE WCInv'
    <2>1. CASE place[t] = "block"
      <3> DEFINE c == [channels[ch[t]] EXCEPT !.mutex = None]
      <3>1. /\ t \in Waiters /\ place[t] = "block" /\ ch[t] \in DOMAIN channels
            /\ channels' = [channels EXCEPT ![ch[t]].mutex = None]
            /\ \/ channels[ch[t]].woken /\ place' = [place EXCEPT ![t] = "done"]
               \/ ~channels[ch[t]].woken /\ place' = [place EXCEPT ![t] = "waiting"]
            /\ UNCHANGED <<head, ch, woken_since>>
        BY <1>0, <1>5, <2>1 DEF mxwl_thread_block, Goto, AtChannel, InBlock
      <3>2. c \in Channel /\ c.woken = channels[ch[t]].woken
        <4>1. channels[ch[t]] \in Channel
          BY <1>0, <3>1
        <4>2. c.woken = channels[ch[t]].woken
          BY <4>1 DEF Channel
        <4> QED BY <4>1, <4>2 DEF Channel
      <3>3. channels' = [channels EXCEPT ![ch[t]] = c]
        BY <1>0, <3>1
      <3>4. /\ channels' \in Seq(Channel) /\ DOMAIN channels' = DOMAIN channels
            /\ Channel' = Channel /\ Ids' = Ids
            /\ \A k \in DOMAIN channels : channels'[k] = IF k = ch[t] THEN c ELSE channels[k]
        BY <3>1, <3>2, <3>3, ChannelStep
      <3> HIDE DEF c
      <3>5. WCTypeOK'
        BY <1>0, <1>t, <3>1, <3>4
      <3>6. FlagForThose' /\ NoEarlyReturn'
        BY <1>0, <3>1, <3>2, <3>4 DEF NoEarlyReturn, FlagForThose, AtChannel, InBlock
      <3> QED BY <1>0, <3>1, <3>4, <3>5, <3>6 DEF WCInv, AtChannel, InBlock
    <2>2. CASE place[t] # "block"
      <3>1. /\ UNCHANGED <<channels, head, ch, woken_since>> /\ place[t] = "unasserted"
            /\ place' = [place EXCEPT ![t] = "done"]
        BY <1>5, <2>2 DEF mxwl_thread_block, Goto
      <3>2. WCTypeOK'
        BY <1>0, <1>t, <3>1 DEF Ids, Channel
      <3>3. ch[t] = 0
        BY <1>0, <3>1
      <3> QED BY <1>0, <3>1, <3>2, <3>3
           DEF WCInv, NoEarlyReturn, FlagForThose, AtChannel, InBlock, Ids, Channel
    <2> QED BY <2>1, <2>2
  <1>6. ASSUME NEW t \in Threads, Reacquire(t) \/ SpuriousWakeup(t) PROVE WCInv'
    <2> DEFINE c == [channels[ch[t]] EXCEPT !.mutex = t]
    <2>1. /\ t \in Waiters /\ place[t] \in {"signalled", "waiting"} /\ ch[t] \in DOMAIN channels
          /\ channels' = [channels EXCEPT ![ch[t]].mutex = t]
          /\ place' = [place EXCEPT ![t] = "block"]
          /\ UNCHANGED <<head, ch, woken_since>>
      BY <1>0, <1>6 DEF Reacquire, SpuriousWakeup, Goto, AtChannel, InBlock
    <2>2. c \in Channel /\ c.woken = channels[ch[t]].woken
      <3>1. channels[ch[t]] \in Channel
        BY <1>0, <2>1
      <3> QED BY <2>1, <3>1 DEF Channel
    <2>3. channels' = [channels EXCEPT ![ch[t]] = c]
      BY <1>0, <2>1
    <2>4. /\ channels' \in Seq(Channel) /\ DOMAIN channels' = DOMAIN channels
          /\ Channel' = Channel /\ Ids' = Ids
          /\ \A k \in DOMAIN channels : channels'[k] = IF k = ch[t] THEN c ELSE channels[k]
      BY <2>1, <2>2, <2>3, ChannelStep
    <2> HIDE DEF c
    <2>5. WCTypeOK'
      BY <1>0, <1>t, <2>1, <2>4
    <2>6. FlagForThose' /\ NoEarlyReturn'
      BY <1>0, <2>1, <2>2, <2>4 DEF NoEarlyReturn, FlagForThose, AtChannel, InBlock
    <2> QED BY <1>0, <2>1, <2>4, <2>5, <2>6 DEF WCInv, AtChannel, InBlock
  <1>7. ASSUME NEW t \in Threads, mxwl_thread_wakeup(t) PROVE WCInv'
    <2> DEFINE c == [channels[ch[t]] EXCEPT !.woken = TRUE]
    <2>1. /\ t \in Wakers /\ place[t] = "lock" /\ ch[t] \in DOMAIN channels
          /\ channels' = [channels EXCEPT ![ch[t]].woken = TRUE]
          /\ place' = [u \in Threads |-> IF u = t THEN "done"
                                ELSE IF place[u] = "waiting" /\ ch[u] = ch[t]
                                THEN "signalled" ELSE place[u]]
          /\ woken_since' = woken_since \cup Asserted(ch[t])
          /\ UNCHANGED <<head, ch>>
      BY <1>0, <1>7 DEF mxwl_thread_wakeup, AtChannel
    <2>2. c \in Channel
      BY <1>0, <2>1 DEF Channel
    <2>3. channels' = [channels EXCEPT ![ch[t]] = c]
      BY <1>0, <2>1
    <2>4. /\ channels' \in Seq(Channel) /\ DOMAIN channels' = DOMAIN channels
          /\ Channel' = Channel /\ Ids' = Ids
          /\ \A k \in DOMAIN channels : channels'[k] = IF k = ch[t] THEN c ELSE channels[k]
      BY <2>1, <2>2, <2>3, ChannelStep
    <2> HIDE DEF c
    <2>5. WCTypeOK'
      <3>1. woken_since' \subseteq Waiters
        BY <1>0, <2>1 DEF Asserted
      <3>2. place' \in [Threads -> Places]
        BY <1>0, <2>1
      <3> QED BY <1>0, <1>t, <2>1, <2>4, <3>1, <3>2
    <2>6. ASSUME NEW u \in Waiters PROVE /\ place'[u] \in InBlock <=> place[u] \in InBlock
                                         /\ place'[u] = "done" <=> place[u] = "done"
      BY <1>0, <2>1, <2>6 DEF InBlock
    <2>7. FlagForThose'
      <3> SUFFICES ASSUME NEW u \in Waiters, place'[u] \in InBlock, channels'[ch'[u]].woken
                   PROVE  u \in woken_since'
        BY DEF FlagForThose
      <3>1. place[u] \in InBlock /\ ch'[u] = ch[u] /\ ch[u] \in DOMAIN channels
        BY <1>0, <2>1, <2>6 DEF InBlock, AtChannel
      <3>2. CASE ch[u] = ch[t]
        BY <2>1, <3>1, <3>2 DEF Asserted, InBlock
      <3>3. CASE ch[u] # ch[t]
        BY <1>0, <2>1, <2>4, <3>1, <3>3 DEF FlagForThose
      <3> QED BY <3>2, <3>3
    <2>8. NoEarlyReturn'
      BY <1>0, <2>1, <2>6 DEF NoEarlyReturn
    <2>9. \A u \in Threads : place'[u] \in AtChannel => place[u] \in AtChannel
      BY <1>0, <2>1 DEF AtChannel
    <2>10. \A u \in Threads : place'[u] \in InBlock => place[u] \in InBlock
      BY <1>0, <2>1 DEF InBlock
    <2>11. \A u \in Threads : place'[u] = "unasserted" => place[u] = "unasserted"
      BY <1>0, <2>1
    <2> QED BY <1>0, <2>1, <2>4, <2>5, <2>7, <2>8, <2>9, <2>10, <2>11 DEF WCInv
  <1>8. ASSUME NEW t \in Threads, Again(t) PROVE WCInv'
    <2>1. /\ UNCHANGED <<channels, head, ch, woken_since>> /\ place[t] = "done"
          /\ place' = [place EXCEPT ![t] = "find"]
      BY <1>8 DEF Again, Goto
    <2>2. WCTypeOK'
      BY <1>0, <1>t, <2>1 DEF Ids, Channel
    <2> QED BY <1>0, <2>1, <2>2 DEF WCInv, NoEarlyReturn, FlagForThose, AtChannel, InBlock, Ids, Channel
  <1>9. CASE UNCHANGED waitVars
    BY <1>9 DEF waitVars, WCInv, WCTypeOK, NoEarlyReturn, FlagForThose, Channel, Ids
  <1> QED BY <1>1, <1>2, <1>3, <1>4, <1>5, <1>6, <1>7, <1>8, <1>9, <1>10 DEF WCNext, Step

\* ipc_sched.c: thread_block of a thread whose assert_wait found or created a
\* channel returns only when the event was signalled after it, although any thread may create the channel anew,
\* wake without need, or have used the flag before.
THEOREM BlockReturnsWhenWoken == WCSpec => [](WCTypeOK /\ NoEarlyReturn)
  <1>1. WCInv => WCTypeOK /\ NoEarlyReturn
    BY DEF WCInv
  <1> QED BY WCInitInv, WCStepInv, <1>1, PTL DEF WCSpec

-----------------------------------------------------------------------------
(***************************************************************************)
(* ipc_port_check_circularity.  The locks a thread holds cover a piece of  *)
(* the chain of destinations: while it locks, from dest to the port before *)
(* base; when it joins its port to the chain, from dest to base, of which  *)
(* none leads back to the port; while it unlocks, from the next port to    *)
(* unlock to base.  Nobody else moves a locked port, so the piece stays as *)
(* it is, and a circle that the new link closed would have been there.     *)
(***************************************************************************)
Locks(t) == {q \in Chained : lock[q] = t}

\* L is the chain of ports in transit that begins at from and ends at a port
\* whose destination is base; each has one predecessor in it but the first.
IsChain(L, from, base) ==
    /\ \A q \in L : /\ where[q] = "transit"
                    /\ destination[q] \in L \cup {base} /\ destination[q] # from
    /\ \A q, r \in L : destination[q] = destination[r] => q = r
    /\ from \in L \cup {base} /\ base \notin L

Linking == {"port", "try", "multiple", "chain", "circle", "guarantee", "link"}
CallRecord == [pc : Linking \cup {"idle", "unlock"}, port : Chained \cup {NoChain},
               dest : Chained \cup {NoChain}, base : Chained \cup {NoChain}]

CallsTyped ==
    /\ call \in [Senders -> CallRecord]
    /\ \A t \in Senders : call[t].pc # "idle" =>
          /\ call[t].port \in Chained /\ call[t].dest \in Chained /\ call[t].base \in Chained
    /\ \A q \in Chained : where[q] = "transit" => destination[q] \in Chained

\* A port being checked is in limbo and belongs to one thread.
PortInLimbo(t) == call[t].pc \in Linking => where[call[t].port] = "limbo"
PortsDiffer ==
    \A t, u \in Senders :
        call[t].pc \in Linking /\ call[u].pc \in Linking /\ call[t].port = call[u].port => t = u

LocksSound(t) ==
    LET c == call[t]
        L == Locks(t)
    IN  /\ c.pc \in {"idle", "port", "multiple"} => L = {}
        /\ c.pc \in {"port", "try", "multiple"} => c.base = c.dest
        /\ c.pc = "try" => L = {c.port}
        /\ c.pc = "chain" => IsChain(L, c.dest, c.base)
        /\ c.pc = "circle" => c.port \in L
        /\ c.pc = "guarantee" =>
              /\ c.base \in L /\ c.port \notin L /\ where[c.base] # "transit"
              /\ IsChain(L \ {c.base}, c.dest, c.base)
        /\ c.pc = "link" =>
              /\ c.port \in L /\ c.base \in L /\ c.base # c.port /\ where[c.base] # "transit"
              /\ IsChain(L \ {c.port, c.base}, c.dest, c.base)
        /\ c.pc = "unlock" =>
              /\ c.base \in L /\ IsChain(L \ {c.base}, c.dest, c.base)

CCInv ==
    /\ CCTypeOK /\ NoCircle /\ CallsTyped /\ PortsDiffer
    /\ \A t \in Senders : PortInLimbo(t) /\ LocksSound(t)

LEMMA CCInitInv == ASSUME CCInit PROVE CCInv
  <1>1. \A t \in Senders : call[t] = NoCall /\ call[t].pc = "idle"
    BY DEF CCInit, NoCall
  <1>2. NoCall \in CallRecord
    BY DEF NoCall, CallRecord, Linking
  <1>3. \A t \in Senders : Locks(t) = {}
    BY CircularityAssumption DEF CCInit, Locks
  <1>4. CCTypeOK /\ NoCircle
    <2>1. CCTypeOK
      BY DEF CCInit, CCTypeOK
    <2>2. \A q \in Chained : where[q] # "transit"
      BY DEF CCInit
    <2>3. NoCircle
      <3> SUFFICES ASSUME NEW S \in (SUBSET Chained) \ {{}} PROVE \E p \in S : where[p] # "transit"
        BY DEF NoCircle, Moving
      <3>1. PICK p \in S : TRUE
        OBVIOUS
      <3> QED BY <2>2, <3>1
    <2> QED BY <2>1, <2>3
  <1>5. CallsTyped
    BY <1>1, <1>2 DEF CallsTyped, CCInit
  <1>6. PortsDiffer
    BY <1>1 DEF PortsDiffer, Linking
  <1>7. \A t \in Senders : PortInLimbo(t) /\ LocksSound(t)
    BY <1>1, <1>3 DEF PortInLimbo, LocksSound, Linking
  <1> QED BY <1>4, <1>5, <1>6, <1>7 DEF CCInv

\* A step after which no port is newly in transit closes no circle.
LEMMA NoNewTransit ==
  ASSUME NoCircle,
         \A q \in Chained : where'[q] = "transit" =>
              where[q] = "transit" /\ destination'[q] = destination[q]
  PROVE  NoCircle'
  BY DEF NoCircle, Moving

\* A chain is not closed: from its ports in transit one leads out of it.
LEMMA ChainOpen ==
  ASSUME NoCircle, NEW L \in SUBSET Chained, L # {},
         \A q \in L : where[q] = "transit" /\ destination[q] \in L
  PROVE  FALSE
  BY DEF NoCircle, Moving

\* What a thread knows stays true while others leave its locked ports alone.
LEMMA LocksFrame ==
  ASSUME NEW t \in Senders, LocksSound(t), CallsTyped,
         call'[t] = call[t], Locks(t)' = Locks(t),
         \A q \in Locks(t) : where'[q] = where[q] /\ destination'[q] = destination[q]
  PROVE  LocksSound(t)'
  <1>1. ASSUME NEW L \in SUBSET Locks(t), NEW f, NEW b, IsChain(L, f, b)
        PROVE  /\ \A q \in L : /\ where'[q] = "transit"
                               /\ destination'[q] \in L \cup {b} /\ destination'[q] # f
               /\ \A q, r \in L : destination'[q] = destination'[r] => q = r
               /\ f \in L \cup {b} /\ b \notin L
    BY <1>1 DEF IsChain
  <1>2. call[t].pc = "chain" => IsChain(Locks(t), call[t].dest, call[t].base)'
    <2> SUFFICES ASSUME call[t].pc = "chain" PROVE IsChain(Locks(t), call[t].dest, call[t].base)'
      OBVIOUS
    <2> DEFINE L == Locks(t)
    <2>1. L \in SUBSET Locks(t) /\ IsChain(L, call[t].dest, call[t].base)
      BY DEF LocksSound
    <2>2. /\ \A q \in L : /\ where'[q] = "transit"
                          /\ destination'[q] \in L \cup {call[t].base}
                          /\ destination'[q] # call[t].dest
          /\ \A q, r \in L : destination'[q] = destination'[r] => q = r
          /\ call[t].dest \in L \cup {call[t].base} /\ call[t].base \notin L
      BY <1>1, <2>1
    <2> QED BY <2>2 DEF IsChain
  <1>3. call[t].pc = "guarantee" => IsChain(Locks(t) \ {call[t].base}, call[t].dest, call[t].base)'
    BY <1>1 DEF LocksSound, IsChain
  <1>4. call[t].pc = "link" =>
          IsChain(Locks(t) \ {call[t].port, call[t].base}, call[t].dest, call[t].base)'
    BY <1>1 DEF LocksSound, IsChain
  <1>5. call[t].pc = "unlock" => IsChain(Locks(t) \ {call[t].base}, call[t].dest, call[t].base)'
    BY <1>1 DEF LocksSound, IsChain
  <1>6. /\ call[t].pc = "guarantee" => where'[call[t].base] = where[call[t].base]
        /\ call[t].pc = "link" => where'[call[t].base] = where[call[t].base]
    BY DEF LocksSound
  <1> QED BY <1>2, <1>3, <1>4, <1>5, <1>6 DEF LocksSound

\* A step of thread t in which it takes free locks, releases its own, and moves
\* ports that nobody else has locked or is checking.
LEMMA OthersUnmoved ==
  ASSUME CCInv, NEW t \in Senders,
         call' \in [Senders -> CallRecord], \A u \in Senders \ {t} : call'[u] = call[u],
         \A q \in Chained : lock'[q] # lock[q] => lock[q] \in {t, NoSender} /\ lock'[q] \in {t, NoSender},
         \A q \in Chained : lock[q] \notin {t, NoSender} =>
              where'[q] = where[q] /\ destination'[q] = destination[q],
         \A u \in Senders \ {t} : call[u].pc \in Linking => where'[call[u].port] = where[call[u].port]
  PROVE  \A u \in Senders \ {t} : PortInLimbo(u)' /\ LocksSound(u)'
  <1> SUFFICES ASSUME NEW u \in Senders \ {t} PROVE PortInLimbo(u)' /\ LocksSound(u)'
    OBVIOUS
  <1>1. PortInLimbo(u)'
    BY DEF PortInLimbo, CCInv
  <1>2. u # NoSender /\ t # NoSender
    BY CircularityAssumption
  <1>3. Locks(u)' = Locks(u)
    BY <1>2 DEF Locks
  <1>4. \A q \in Locks(u) : where'[q] = where[q] /\ destination'[q] = destination[q]
    BY <1>2 DEF Locks
  <1> QED BY <1>1, <1>3, <1>4, LocksFrame DEF CCInv

\* A step of call t that keeps the port it is about.
LEMMA CallMoves ==
  ASSUME CCInv, NEW t \in Senders, NEW pc_ \in Linking \cup {"unlock"},
         call[t].pc # "idle", CallAt(t, pc_)
  PROVE  /\ call' \in [Senders -> CallRecord]
         /\ \A u \in Senders \ {t} : call'[u] = call[u]
         /\ call'[t].pc = pc_ /\ call'[t].port = call[t].port
         /\ call'[t].dest = call[t].dest /\ call'[t].base = call[t].base
  <1>1. call \in [Senders -> CallRecord] /\ call[t] \in CallRecord
    BY DEF CCInv, CallsTyped
  <1>2. call' = [call EXCEPT ![t] = [call[t] EXCEPT !.pc = pc_]]
    BY <1>1 DEF CallAt
  <1>3. [call[t] EXCEPT !.pc = pc_] \in CallRecord
    BY <1>1 DEF CallRecord
  <1>4. call'[t] = [call[t] EXCEPT !.pc = pc_]
    BY <1>1, <1>2
  <1>5. /\ call'[t].pc = pc_ /\ call'[t].port = call[t].port
        /\ call'[t].dest = call[t].dest /\ call'[t].base = call[t].base
    BY <1>1, <1>4 DEF CallRecord
  <1> QED BY <1>1, <1>2, <1>3, <1>5

LEMMA BeginKeeps ==
  ASSUME CCInv, NEW t \in Senders, NEW p \in Chained, NEW d \in Chained, Begin(t, p, d)
  PROVE  CCInv'
  <1> DEFINE c == [pc |-> "port", port |-> p, dest |-> d, base |-> d]
  <1>1. /\ call[t].pc = "idle" /\ where[p] = "space" /\ lock[p] = NoSender /\ d # p
        /\ where' = [where EXCEPT ![p] = "limbo"] /\ call' = [call EXCEPT ![t] = c]
        /\ UNCHANGED <<destination, lock, multiple>>
    BY DEF Begin, NoCall
  <1>2. c \in CallRecord /\ call \in [Senders -> CallRecord]
    BY DEF CallRecord, Linking, CCInv, CallsTyped
  <1>3. /\ call' \in [Senders -> CallRecord] /\ \A u \in Senders \ {t} : call'[u] = call[u]
        /\ call'[t].pc = "port" /\ call'[t].port = p /\ call'[t].dest = d /\ call'[t].base = d
    BY <1>1, <1>2
  <1>4. CCTypeOK'
    BY <1>1 DEF CCInv, CCTypeOK
  <1>5. /\ where'[p] = "limbo" /\ \A q \in Chained \ {p} : where'[q] = where[q]
        /\ \A q \in Chained : where'[q] = "transit" => where[q] = "transit"
    BY <1>1 DEF CCInv, CCTypeOK
  <1>6. NoCircle'
    BY <1>1, <1>5, NoNewTransit DEF CCInv
  <1>7. CallsTyped'
    BY <1>1, <1>3, <1>5 DEF CCInv, CallsTyped
  <1>8. \A u \in Senders : call[u].pc \in Linking => call[u].port # p
    BY <1>1 DEF CCInv, PortInLimbo
  <1>9. PortsDiffer'
    BY <1>3, <1>8 DEF CCInv, PortsDiffer
  <1>10. \A u \in Senders \ {t} : PortInLimbo(u)' /\ LocksSound(u)'
    <2>1. \A u \in Senders \ {t} : call[u].pc \in Linking => where'[call[u].port] = where[call[u].port]
      BY <1>5, <1>8 DEF CCInv, CallsTyped, Linking
    <2> QED BY <1>1, <1>3, <1>5, <2>1, OthersUnmoved
  <1>11. PortInLimbo(t)'
    BY <1>3, <1>5 DEF PortInLimbo
  <1>12. LocksSound(t)'
    <2>1. Locks(t)' = {}
      BY <1>1 DEF CCInv, LocksSound, Locks
    <2> QED BY <1>3, <2>1 DEF LocksSound
  <1> QED BY <1>4, <1>6, <1>7, <1>9, <1>10, <1>11, <1>12 DEF CCInv

\* A step that neither moves a port nor begins or ends a call keeps all but what
\* concerns the locks.
LEMMA LockingStep ==
  ASSUME CCInv, NEW t \in Senders, call[t].pc \in Linking,
         lock' \in [Chained -> Senders \cup {NoSender}], multiple' \in Senders \cup {NoSender},
         UNCHANGED <<where, destination>>,
         call' \in [Senders -> CallRecord], \A u \in Senders \ {t} : call'[u] = call[u],
         call'[t].pc \in Linking, call'[t].port = call[t].port,
         call'[t].dest = call[t].dest, call'[t].base \in Chained,
         \A q \in Chained : lock'[q] # lock[q] => lock[q] \in {t, NoSender} /\ lock'[q] \in {t, NoSender},
         LocksSound(t)'
  PROVE  CCInv'
  <1>1. CCTypeOK' /\ NoCircle'
    BY NoNewTransit DEF CCInv, CCTypeOK
  <1>2. CallsTyped'
    BY DEF CCInv, CallsTyped, Linking
  <1>3. PortsDiffer'
    BY DEF CCInv, PortsDiffer
  <1>4. \A u \in Senders \ {t} : PortInLimbo(u)' /\ LocksSound(u)'
    BY OthersUnmoved
  <1>5. PortInLimbo(t)'
    BY DEF CCInv, PortInLimbo
  <1> QED BY <1>1, <1>2, <1>3, <1>4, <1>5 DEF CCInv

LEMMA LockPortKeeps == ASSUME CCInv, NEW t \in Senders, LockPort(t) PROVE CCInv'
  <1> DEFINE p == call[t].port
  <1>1. /\ call[t].pc = "port" /\ lock[p] = NoSender /\ lock' = [lock EXCEPT ![p] = t]
        /\ CallAt(t, "try") /\ UNCHANGED <<where, destination, multiple>>
    BY DEF LockPort
  <1>2. /\ p \in Chained /\ call[t].base \in Chained /\ lock \in [Chained -> Senders \cup {NoSender}]
        /\ multiple \in Senders \cup {NoSender}
        /\ Locks(t) = {} /\ call[t].base = call[t].dest
    BY <1>1 DEF CCInv, CallsTyped, CCTypeOK, LocksSound
  <1>3. /\ call' \in [Senders -> CallRecord] /\ \A u \in Senders \ {t} : call'[u] = call[u]
        /\ call'[t].pc = "try" /\ call'[t].port = p
        /\ call'[t].dest = call[t].dest /\ call'[t].base = call[t].base
    BY <1>1, CallMoves DEF Linking
  <1>4. Locks(t)' = {p}
    BY <1>1, <1>2 DEF Locks
  <1>5. LocksSound(t)'
    BY <1>2, <1>3, <1>4 DEF LocksSound
  <1> QED BY <1>1, <1>2, <1>3, <1>5, LockingStep DEF Linking

LEMMA TryDestKeeps == ASSUME CCInv, NEW t \in Senders, TryDest(t) PROVE CCInv'
  <1> DEFINE p == call[t].port
             d == call[t].dest
  <1>1. /\ call[t].pc = "try" /\ UNCHANGED <<where, destination, multiple>>
        /\ \/ /\ lock[d] = NoSender /\ where[d] # "transit"
              /\ lock' = [lock EXCEPT ![d] = t] /\ CallAt(t, "link")
           \/ lock' = [lock EXCEPT ![p] = NoSender] /\ CallAt(t, "multiple")
    BY DEF TryDest, Moving
  <1>2. /\ p \in Chained /\ d \in Chained /\ lock \in [Chained -> Senders \cup {NoSender}]
        /\ multiple \in Senders \cup {NoSender}
        /\ Locks(t) = {p} /\ call[t].base = d /\ lock[p] = t /\ t # NoSender
    <2>1. /\ p \in Chained /\ d \in Chained /\ lock \in [Chained -> Senders \cup {NoSender}]
          /\ multiple \in Senders \cup {NoSender}
      BY <1>1 DEF CCInv, CallsTyped, CCTypeOK
    <2>2. Locks(t) = {p} /\ call[t].base = d
      BY <1>1 DEF CCInv, LocksSound
    <2> QED BY <2>1, <2>2, CircularityAssumption DEF Locks
  <1>3. ASSUME NEW pc_ \in {"link", "multiple"}, CallAt(t, pc_)
        PROVE  /\ call' \in [Senders -> CallRecord] /\ \A u \in Senders \ {t} : call'[u] = call[u]
               /\ call'[t].pc = pc_ /\ call'[t].port = p
               /\ call'[t].dest = d /\ call'[t].base = d
    BY <1>1, <1>2, <1>3, CallMoves DEF Linking
  <1>4. CASE /\ lock[d] = NoSender /\ where[d] # "transit"
             /\ lock' = [lock EXCEPT ![d] = t] /\ CallAt(t, "link")
    <2>1. d # p /\ Locks(t)' = {p, d}
      BY <1>2, <1>4 DEF Locks
    <2>2. /\ call' \in [Senders -> CallRecord] /\ \A u \in Senders \ {t} : call'[u] = call[u]
          /\ call'[t].pc = "link" /\ call'[t].port = p /\ call'[t].dest = d /\ call'[t].base = d
      BY <1>3, <1>4
    <2>3. IsChain({}, d, d)'
      BY DEF IsChain
    <2>4. {p, d} \ {p, d} = {}
      OBVIOUS
    <2>5. LocksSound(t)'
      BY <1>1, <1>4, <2>1, <2>2, <2>3, <2>4 DEF LocksSound
    <2> QED BY <1>1, <1>2, <1>4, <2>2, <2>5, LockingStep DEF Linking
  <1>5. CASE lock' = [lock EXCEPT ![p] = NoSender] /\ CallAt(t, "multiple")
    <2>1. Locks(t)' = {}
      BY <1>2, <1>5 DEF Locks
    <2>2. /\ call' \in [Senders -> CallRecord] /\ \A u \in Senders \ {t} : call'[u] = call[u]
          /\ call'[t].pc = "multiple" /\ call'[t].port = p /\ call'[t].dest = d /\ call'[t].base = d
      BY <1>3, <1>5
    <2>3. LocksSound(t)'
      BY <2>1, <2>2 DEF LocksSound
    <2> QED BY <1>1, <1>2, <1>5, <2>2, <2>3, LockingStep DEF Linking
  <1> QED BY <1>1, <1>4, <1>5

LEMMA LockMultipleKeeps == ASSUME CCInv, NEW t \in Senders, LockMultiple(t) PROVE CCInv'
  <1>1. /\ call[t].pc = "multiple" /\ multiple' = t /\ CallAt(t, "chain")
        /\ UNCHANGED <<where, destination, lock>>
    BY DEF LockMultiple
  <1>2. /\ call[t].base \in Chained /\ lock \in [Chained -> Senders \cup {NoSender}]
        /\ Locks(t) = {} /\ call[t].base = call[t].dest
    BY <1>1 DEF CCInv, CallsTyped, CCTypeOK, LocksSound
  <1>3. /\ call' \in [Senders -> CallRecord] /\ \A u \in Senders \ {t} : call'[u] = call[u]
        /\ call'[t].pc = "chain" /\ call'[t].port = call[t].port
        /\ call'[t].dest = call[t].dest /\ call'[t].base = call[t].base
    BY <1>1, CallMoves DEF Linking
  <1>4. Locks(t)' = {}
    BY <1>1, <1>2 DEF Locks
  <1>5. IsChain({}, call[t].dest, call[t].base)'
    BY <1>2, <1>3 DEF IsChain
  <1>6. LocksSound(t)'
    BY <1>2, <1>3, <1>4, <1>5 DEF LocksSound, IsChain
  <1> QED BY <1>1, <1>2, <1>3, <1>6, LockingStep DEF Linking

\* One more port of the chain is locked.  If its destination were locked already
\* or were dest, the ports locked by now would be a circle.
LEMMA LockChainKeeps == ASSUME CCInv, NEW t \in Senders, LockChain(t) PROVE CCInv'
  <1> DEFINE b == call[t].base
             d == call[t].dest
             p == call[t].port
             L == Locks(t)
             to == IF where[b] = "transit" THEN destination[b] ELSE b
             at == IF where[b] = "transit" THEN "chain"
                   ELSE IF b = p THEN "circle" ELSE "guarantee"
  <1>1. /\ call[t].pc = "chain" /\ lock[b] = NoSender /\ lock' = [lock EXCEPT ![b] = t]
        /\ call' = [call EXCEPT ![t].base = to, ![t].pc = at]
        /\ UNCHANGED <<where, destination, multiple>>
    BY DEF LockChain, Moving
  <1>2. /\ p \in Chained /\ d \in Chained /\ b \in Chained
        /\ lock \in [Chained -> Senders \cup {NoSender}] /\ multiple \in Senders \cup {NoSender}
        /\ call \in [Senders -> CallRecord] /\ where[p] = "limbo" /\ to \in Chained
    BY <1>1 DEF CCInv, CallsTyped, CCTypeOK, PortInLimbo, Linking
  <1>3. /\ \A q \in L : /\ where[q] = "transit"
                        /\ destination[q] \in L \cup {b} /\ destination[q] # d
        /\ \A q, r \in L : destination[q] = destination[r] => q = r
        /\ d \in L \cup {b} /\ b \notin L /\ L \subseteq Chained
    BY <1>1 DEF CCInv, LocksSound, IsChain, Locks
  <1>4. /\ call' \in [Senders -> CallRecord] /\ \A u \in Senders \ {t} : call'[u] = call[u]
        /\ call'[t].pc = at /\ call'[t].port = p /\ call'[t].dest = d /\ call'[t].base = to
    <2> DEFINE c == [call[t] EXCEPT !.base = to, !.pc = at]
    <2>1. call[t] \in CallRecord /\ at \in Linking
      BY <1>2 DEF Linking
    <2>2. c \in CallRecord /\ c.pc = at /\ c.port = p /\ c.dest = d /\ c.base = to
      <3> HIDE DEF to, at
      <3> QED BY <1>2, <2>1 DEF CallRecord
    <2>3. call' = [call EXCEPT ![t] = c]
      <3> HIDE DEF to, at
      <3> QED BY <1>1, <1>2
    <2> HIDE DEF c
    <2> QED BY <1>2, <2>2, <2>3
  <1>5. Locks(t)' = L \cup {b}
    BY <1>1, <1>2 DEF Locks
  <1>6. p \notin L
    BY <1>2, <1>3
  <1>7. CASE where[b] = "transit"
    <2>1. /\ destination[b] \in Chained /\ call'[t].pc = "chain" /\ call'[t].base = destination[b]
      BY <1>2, <1>4, <1>7
    <2>2. destination[b] \notin L \cup {b}
      <3> SUFFICES ASSUME destination[b] \in L \cup {b} PROVE FALSE
        OBVIOUS
      <3> HIDE DEF L
      <3> QED BY <1>2, <1>3, <1>7, ChainOpen, L \cup {b} \in SUBSET Chained DEF CCInv
    <2>3. destination[b] # d
      BY <1>3, <2>2
    <2>4. IsChain(L \cup {b}, d, destination[b])
      BY <1>3, <1>7, <2>2, <2>3 DEF IsChain
    <2>5. IsChain(Locks(t), call[t].dest, call[t].base)'
      BY <1>1, <1>4, <1>5, <2>1, <2>4, SMTT(30) DEF IsChain
    <2>6. LocksSound(t)'
      BY <2>1, <2>5 DEF LocksSound
    <2> QED BY <1>1, <1>2, <1>4, <2>1, <2>6, LockingStep DEF Linking
  <1>8. CASE where[b] # "transit" /\ b = p
    <2>1. call'[t].pc = "circle" /\ call'[t].base = b
      BY <1>4, <1>8
    <2>2. LocksSound(t)'
      BY <1>4, <1>5, <1>8, <2>1 DEF LocksSound
    <2> QED BY <1>1, <1>2, <1>4, <2>1, <2>2, LockingStep DEF Linking
  <1>9. CASE where[b] # "transit" /\ b # p
    <2>1. call'[t].pc = "guarantee" /\ call'[t].base = b
      BY <1>4, <1>9
    <2>2. Locks(t)' \ {b} = L /\ p \notin Locks(t)' /\ b \in Locks(t)'
      BY <1>3, <1>5, <1>6, <1>9
    <2>3. IsChain(L, d, b)
      BY <1>3 DEF IsChain
    <2>4. IsChain(Locks(t) \ {call[t].base}, call[t].dest, call[t].base)'
      BY <1>1, <1>4, <2>1, <2>2, <2>3, SMTT(30) DEF IsChain
    <2>5. LocksSound(t)'
      BY <1>1, <1>4, <1>9, <2>1, <2>2, <2>4 DEF LocksSound
    <2> QED BY <1>1, <1>2, <1>4, <2>1, <2>5, LockingStep DEF Linking
  <1> QED BY <1>7, <1>8, <1>9

LEMMA GuaranteeKeeps == ASSUME CCInv, NEW t \in Senders, Guarantee(t) PROVE CCInv'
  <1> DEFINE p == call[t].port
             b == call[t].base
             d == call[t].dest
             L == Locks(t)
  <1>1. /\ call[t].pc = "guarantee" /\ lock[p] = NoSender /\ lock' = [lock EXCEPT ![p] = t]
        /\ multiple' = NoSender /\ CallAt(t, "link") /\ UNCHANGED <<where, destination>>
    BY DEF Guarantee
  <1>2. /\ p \in Chained /\ b \in Chained /\ lock \in [Chained -> Senders \cup {NoSender}]
    BY <1>1 DEF CCInv, CallsTyped, CCTypeOK
  <1>3. /\ b \in L /\ p \notin L /\ where[b] # "transit" /\ IsChain(L \ {b}, d, b)
    BY <1>1 DEF CCInv, LocksSound
  <1>4. /\ call' \in [Senders -> CallRecord] /\ \A u \in Senders \ {t} : call'[u] = call[u]
        /\ call'[t].pc = "link" /\ call'[t].port = p /\ call'[t].dest = d /\ call'[t].base = b
    BY <1>1, CallMoves DEF Linking
  <1>5. Locks(t)' = L \cup {p} /\ (L \cup {p}) \ {p, b} = L \ {b}
    BY <1>1, <1>2, <1>3 DEF Locks
  <1>6. IsChain(Locks(t) \ {call[t].port, call[t].base}, call[t].dest, call[t].base)'
    BY <1>1, <1>3, <1>4, <1>5 DEF IsChain
  <1>7. LocksSound(t)'
    BY <1>1, <1>3, <1>4, <1>5, <1>6 DEF LocksSound
  <1> QED BY <1>1, <1>2, <1>4, <1>7, LockingStep DEF Linking

LEMMA CircleKeeps == ASSUME CCInv, NEW t \in Senders, Circle(t) PROVE CCInv'
  <1> DEFINE p == call[t].port
  <1>1. /\ call[t].pc = "circle" /\ multiple' = NoSender
        /\ lock' = [q \in Chained |-> IF lock[q] = t THEN NoSender ELSE lock[q]]
        /\ where' = [where EXCEPT ![p] = "space"]
        /\ call' = [call EXCEPT ![t] = NoCall] /\ UNCHANGED destination
    BY DEF Circle
  <1>2. /\ p \in Chained /\ lock \in [Chained -> Senders \cup {NoSender}]
        /\ where \in [Chained -> {"space", "limbo", "transit", "dead"}]
        /\ call \in [Senders -> CallRecord] /\ NoCall \in CallRecord /\ NoCall.pc = "idle"
        /\ lock[p] = t /\ t # NoSender
    BY <1>1, CircularityAssumption
       DEF CCInv, CallsTyped, CCTypeOK, LocksSound, Locks, NoCall, CallRecord
  <1>3. /\ call' \in [Senders -> CallRecord] /\ \A u \in Senders \ {t} : call'[u] = call[u]
        /\ call'[t].pc = "idle"
    BY <1>1, <1>2
  <1>4. /\ \A q \in Chained \ {p} : where'[q] = where[q]
        /\ \A q \in Chained : where'[q] = "transit" => where[q] = "transit"
    BY <1>1, <1>2
  <1>5. CCTypeOK'
    BY <1>1, <1>2 DEF CCInv, CCTypeOK
  <1>6. NoCircle'
    BY <1>1, <1>4, NoNewTransit DEF CCInv
  <1>7. CallsTyped'
    BY <1>1, <1>3, <1>4 DEF CCInv, CallsTyped
  <1>8. PortsDiffer'
    BY <1>3 DEF CCInv, PortsDiffer, Linking
  <1>9. \A u \in Senders \ {t} : PortInLimbo(u)' /\ LocksSound(u)'
    <2>1. \A u \in Senders \ {t} : call[u].pc \in Linking => where'[call[u].port] = where[call[u].port]
      BY <1>1, <1>4 DEF CCInv, CallsTyped, PortsDiffer, Linking
    <2> QED BY <1>1, <1>2, <1>3, <1>4, <2>1, OthersUnmoved
  <1>10. PortInLimbo(t)'
    BY <1>3 DEF PortInLimbo, Linking
  <1>11. Locks(t)' = {}
    BY <1>1, <1>2 DEF Locks
  <1>12. LocksSound(t)'
    BY <1>3, <1>11 DEF LocksSound
  <1> QED BY <1>5, <1>6, <1>7, <1>8, <1>9, <1>10, <1>12 DEF CCInv

\* not_circular: the port joins the chain.  A circle through it would contain
\* dest, and with it the part of the circle among the locked ports, which lead
\* to locked ports only: those would have been a circle before.
LEMMA LinkKeeps == ASSUME CCInv, NEW t \in Senders, Link(t) PROVE CCInv'
  <1> DEFINE p == call[t].port
             b == call[t].base
             d == call[t].dest
             L == Locks(t) \ {p}
             c == [call[t] EXCEPT !.pc = "unlock", !.dest = p]
  <1>1. /\ call[t].pc = "link" /\ UNCHANGED <<lock, multiple>>
        /\ destination' = [destination EXCEPT ![p] = d]
        /\ where' = [where EXCEPT ![p] = "transit"]
        /\ call' = [call EXCEPT ![t].pc = "unlock", ![t].dest = p]
    BY DEF Link
  <1>2. /\ p \in Chained /\ b \in Chained /\ d \in Chained
        /\ where \in [Chained -> {"space", "limbo", "transit", "dead"}]
        /\ destination \in [Chained -> Chained \cup {NoChain}]
        /\ call \in [Senders -> CallRecord] /\ call[t] \in CallRecord
    BY <1>1 DEF CCInv, CallsTyped, CCTypeOK
  <1>3. /\ p \in Locks(t) /\ b \in L /\ where[b] # "transit"
        /\ IsChain(Locks(t) \ {p, b}, d, b) /\ L \subseteq Chained
    BY <1>1 DEF CCInv, LocksSound, Locks
  <1>4. /\ \A q \in L \ {b} : /\ where[q] = "transit"
                              /\ destination[q] \in L /\ destination[q] # d
        /\ \A q, r \in L \ {b} : destination[q] = destination[r] => q = r
        /\ d \in L
    <2>1. Locks(t) \ {p, b} = L \ {b}
      OBVIOUS
    <2> HIDE DEF L
    <2> QED BY <1>3, <2>1 DEF IsChain
  <1>5. /\ where'[p] = "transit" /\ destination'[p] = d
        /\ \A q \in Chained \ {p} : where'[q] = where[q] /\ destination'[q] = destination[q]
    BY <1>1, <1>2
  <1>6. /\ call' \in [Senders -> CallRecord] /\ \A u \in Senders \ {t} : call'[u] = call[u]
        /\ call'[t].pc = "unlock" /\ call'[t].port = p /\ call'[t].dest = p /\ call'[t].base = b
    <2>1. c \in CallRecord /\ c.pc = "unlock" /\ c.port = p /\ c.dest = p /\ c.base = b
      BY <1>2 DEF CallRecord
    <2>2. call' = [call EXCEPT ![t] = c]
      BY <1>1, <1>2
    <2> HIDE DEF c
    <2> QED BY <1>2, <2>1, <2>2
  <1>7. CCTypeOK'
    BY <1>1, <1>2 DEF CCInv, CCTypeOK
  <1>8. NoCircle'
    <2> SUFFICES ASSUME NEW S \in (SUBSET Chained) \ {{}},
                        \A q \in S : where'[q] = "transit" /\ destination'[q] \in S
                 PROVE  FALSE
      BY DEF NoCircle, Moving
    <2> DEFINE old == S \cap L
    <2>1. CASE p \notin S
      <3>1. \A q \in S : where[q] = "transit" /\ destination[q] \in S
        BY <1>5, <2>1
      <3> QED BY <3>1, ChainOpen DEF CCInv
    <2>2. CASE p \in S
      <3>1. d \in old
        BY <1>4, <1>5, <2>2
      <3>2. b \notin S
        BY <1>2, <1>3, <1>5
      <3>3. \A q \in old : where[q] = "transit" /\ destination[q] \in old
        BY <1>3, <1>4, <1>5, <3>2
      <3>4. old \in SUBSET Chained /\ old # {}
        BY <3>1
      <3> QED BY <3>3, <3>4, ChainOpen DEF CCInv
    <2> QED BY <2>1, <2>2
  <1>9. CallsTyped'
    BY <1>2, <1>5, <1>6 DEF CCInv, CallsTyped
  <1>10. PortsDiffer'
    BY <1>6 DEF CCInv, PortsDiffer, Linking
  <1>11. \A u \in Senders \ {t} : PortInLimbo(u)' /\ LocksSound(u)'
    <2>1. \A u \in Senders \ {t} : call[u].pc \in Linking => where'[call[u].port] = where[call[u].port]
      BY <1>1, <1>5 DEF CCInv, CallsTyped, PortsDiffer, Linking
    <2>2. lock[p] = t /\ lock' = lock
      BY <1>1, <1>3 DEF Locks
    <2> QED BY <1>5, <1>6, <2>1, <2>2, OthersUnmoved
  <1>12. PortInLimbo(t)'
    BY <1>6 DEF PortInLimbo, Linking
  <1>13. LocksSound(t)'
    <2>1. Locks(t)' = L \cup {p} /\ Locks(t)' \ {b} = (L \ {b}) \cup {p} /\ p \notin L
      BY <1>1, <1>3 DEF Locks
    <2> HIDE DEF L
    <2>2. /\ \A q \in (L \ {b}) \cup {p} : /\ where'[q] = "transit"
                                           /\ destination'[q] \in L /\ destination'[q] # p
          /\ \A q, r \in (L \ {b}) \cup {p} : destination'[q] = destination'[r] => q = r
      BY <1>3, <1>4, <1>5, <2>1
    <2>3. IsChain(Locks(t) \ {call[t].base}, call[t].dest, call[t].base)'
      BY <1>3, <1>6, <2>1, <2>2 DEF IsChain
    <2> QED BY <1>3, <1>6, <2>1, <2>3 DEF LocksSound
  <1> QED BY <1>7, <1>8, <1>9, <1>10, <1>11, <1>12, <1>13 DEF CCInv

\* The ports are unlocked along the chain, and the last one is base.
LEMMA UnlockChainKeeps == ASSUME CCInv, NEW t \in Senders, UnlockChain(t) PROVE CCInv'
  <1> DEFINE b == call[t].base
             d == call[t].dest
             L == Locks(t)
             c == IF d = b THEN NoCall ELSE [call[t] EXCEPT !.dest = destination[d]]
  <1>1. /\ call[t].pc = "unlock" /\ lock' = [lock EXCEPT ![d] = NoSender]
        /\ call' = [call EXCEPT ![t] = c] /\ UNCHANGED <<where, destination, multiple>>
    BY DEF UnlockChain
  <1>2. /\ b \in Chained /\ d \in Chained /\ lock \in [Chained -> Senders \cup {NoSender}]
        /\ call \in [Senders -> CallRecord] /\ call[t] \in CallRecord /\ call[t].port \in Chained
        /\ L \subseteq Chained /\ t # NoSender
    BY <1>1, CircularityAssumption DEF CCInv, CallsTyped, CCTypeOK, Locks
  <1>3. /\ b \in L
        /\ \A q \in L \ {b} : /\ where[q] = "transit"
                              /\ destination[q] \in L /\ destination[q] # d
        /\ \A q, r \in L \ {b} : destination[q] = destination[r] => q = r
        /\ d \in L
    <2>1. b \in L /\ IsChain(L \ {b}, d, b)
      BY <1>1 DEF CCInv, LocksSound
    <2> HIDE DEF L
    <2> QED BY <2>1 DEF IsChain
  <1>4. Locks(t)' = L \ {d} /\ lock[d] = t
    BY <1>1, <1>2, <1>3 DEF Locks
  <1>5. CCTypeOK' /\ NoCircle'
    BY <1>1, <1>2, NoNewTransit DEF CCInv, CCTypeOK
  <1>6. ASSUME c \in CallRecord, c.pc \in {"idle", "unlock"},
               c.pc # "idle" => c.port \in Chained /\ c.dest \in Chained /\ c.base \in Chained,
               call'[t] = c => LocksSound(t)'
        PROVE  CCInv'
    <2> HIDE DEF c
    <2>1. /\ call' \in [Senders -> CallRecord] /\ \A u \in Senders \ {t} : call'[u] = call[u]
          /\ call'[t] = c
      BY <1>1, <1>2, <1>6
    <2>2. CallsTyped'
      BY <1>1, <1>6, <2>1 DEF CCInv, CallsTyped
    <2>3. PortsDiffer' /\ PortInLimbo(t)'
      BY <1>6, <2>1 DEF CCInv, PortsDiffer, PortInLimbo, Linking
    <2>4. \A u \in Senders \ {t} : PortInLimbo(u)' /\ LocksSound(u)'
      BY <1>1, <1>2, <1>4, <2>1, OthersUnmoved
    <2> QED BY <1>5, <1>6, <2>1, <2>2, <2>3, <2>4 DEF CCInv
  <1>7. CASE d = b
    <2>1. L = {b}
      <3>1. \A q \in L \ {b} : where[q] = "transit" /\ destination[q] \in L \ {b}
        BY <1>3, <1>7
      <3>2. L \ {b} \in SUBSET Chained
        BY <1>2
      <3>3. L \ {b} = {}
        BY <3>1, <3>2, ChainOpen DEF CCInv
      <3> HIDE DEF L
      <3> QED BY <1>3, <3>3
    <2>2. c = NoCall /\ c \in CallRecord /\ c.pc = "idle"
      BY <1>7 DEF NoCall, CallRecord
    <2>3. call'[t] = c => LocksSound(t)'
      BY <1>4, <1>7, <2>1, <2>2 DEF LocksSound
    <2> HIDE DEF c
    <2> QED BY <1>6, <2>2, <2>3
  <1>8. CASE d # b
    <2> DEFINE n == destination[d]
    <2>1. /\ n \in L /\ n # d /\ n \in Chained
      BY <1>2, <1>3, <1>8
    <2>2. /\ c \in CallRecord /\ c.pc = "unlock" /\ c.port = call[t].port
          /\ c.dest = n /\ c.base = b
      <3>1. c = [call[t] EXCEPT !.dest = n]
        BY <1>8
      <3> HIDE DEF n, c
      <3> QED BY <1>1, <1>2, <2>1, <3>1 DEF CallRecord
    <2>3. call'[t] = c => LocksSound(t)'
      <3> SUFFICES ASSUME call'[t] = c PROVE LocksSound(t)'
        OBVIOUS
      <3> HIDE DEF c, L
      <3>1. /\ \A q \in (L \ {d}) \ {b} : /\ where'[q] = "transit"
                                          /\ destination'[q] \in L \ {d} /\ destination'[q] # n
            /\ \A q, r \in (L \ {d}) \ {b} : destination'[q] = destination'[r] => q = r
            /\ n \in L \ {d} /\ b \in L \ {d}
        BY <1>1, <1>3, <1>8, <2>1
      <3>2. /\ Locks(t)' = L \ {d} /\ call'[t].pc = "unlock"
            /\ call'[t].dest = n /\ call'[t].base = b
        BY <1>4, <2>2
      <3>3. IsChain(Locks(t) \ {call[t].base}, call[t].dest, call[t].base)'
        BY <3>1, <3>2 DEF IsChain
      <3> QED BY <3>1, <3>2, <3>3 DEF LocksSound
    <2> HIDE DEF c
    <2> QED BY <1>2, <1>6, <2>1, <2>2, <2>3
  <1> QED BY <1>7, <1>8

LEMMA ArriveKeeps ==
  ASSUME CCInv, NEW p \in Chained, NEW w \in {"space", "dead"}, Arrive(p, w)
  PROVE  CCInv'
  <1>1. /\ where[p] = "transit" /\ lock[p] = NoSender
        /\ where' = [where EXCEPT ![p] = w] /\ destination' = [destination EXCEPT ![p] = NoChain]
        /\ UNCHANGED <<lock, multiple, call>>
    BY DEF Arrive, Moving
  <1>2. /\ where'[p] = w
        /\ \A q \in Chained \ {p} : where'[q] = where[q] /\ destination'[q] = destination[q]
        /\ CCTypeOK'
    BY <1>1 DEF CCInv, CCTypeOK
  <1>3. NoCircle'
    BY <1>2, NoNewTransit DEF CCInv
  <1>4. CallsTyped' /\ PortsDiffer'
    BY <1>1, <1>2 DEF CCInv, CallsTyped, PortsDiffer
  <1>5. ASSUME NEW t \in Senders PROVE PortInLimbo(t)' /\ LocksSound(t)'
    <2>1. PortInLimbo(t)'
      BY <1>1, <1>2 DEF CCInv, CallsTyped, PortInLimbo, Linking
    <2>2. Locks(t)' = Locks(t) /\ p \notin Locks(t) /\ Locks(t) \subseteq Chained
      BY <1>1, CircularityAssumption DEF Locks
    <2>3. LocksSound(t)'
      BY <1>1, <1>2, <2>2, LocksFrame DEF CCInv
    <2> QED BY <2>1, <2>3
  <1> QED BY <1>2, <1>3, <1>4, <1>5 DEF CCInv

LEMMA CCStepInv == ASSUME CCInv, [CCNext]_CCvars PROVE CCInv'
  <1>1. CASE UNCHANGED CCvars
    <2>1. /\ UNCHANGED <<where, destination, lock, multiple, call>>
          /\ \A t \in Senders : Locks(t)' = Locks(t)
      BY <1>1 DEF CCvars, Locks
    <2>2. ASSUME NEW t \in Senders PROVE PortInLimbo(t)' /\ LocksSound(t)'
      BY <2>1, LocksFrame DEF CCInv, PortInLimbo
    <2>3. CCTypeOK' /\ NoCircle' /\ CallsTyped' /\ PortsDiffer'
      BY <2>1, NoNewTransit DEF CCInv, CCTypeOK, CallsTyped, PortsDiffer
    <2> QED BY <2>2, <2>3 DEF CCInv
  <1>2. CASE CCNext
    BY <1>2, BeginKeeps, LockPortKeeps, TryDestKeeps, LockMultipleKeeps, LockChainKeeps,
       CircleKeeps, GuaranteeKeeps, LinkKeeps, UnlockChainKeeps, ArriveKeeps DEF CCNext, CCStep
  <1> QED BY <1>1, <1>2

\* ipc_port.c, ipc_port_check_circularity: for any number of ports and of threads
\* that send receive rights at once, whichever of the two checks each of them
\* gets through, the ports in transit never form a circle.
THEOREM RightsFormNoCircle == CCSpec => [](CCTypeOK /\ NoCircle)
  <1>1. CCInv => CCTypeOK /\ NoCircle
    BY DEF CCInv
  <1> QED BY CCInitInv, CCStepInv, <1>1, PTL DEF CCSpec

-----------------------------------------------------------------------------
(***************************************************************************)
(* The composition: a step of one part leaves the others alone.            *)
(***************************************************************************)
LEMMA ReceiveAlone == ASSUME RCInv, [MSNext]_messageVars PROVE RCInv'
  <1>1. [RCNext]_receiveVars
    BY DEF MSNext, ReceiveMoves, WaitMoves, RightsMove, messageVars
  <1> QED BY <1>1, RCStepInv

LEMMA WaitAlone == ASSUME WCInv, [MSNext]_messageVars PROVE WCInv'
  <1>1. [WCNext]_waitVars
    BY DEF MSNext, ReceiveMoves, WaitMoves, RightsMove, messageVars
  <1> QED BY <1>1, WCStepInv

LEMMA RightsAlone == ASSUME CCInv, [MSNext]_messageVars PROVE CCInv'
  <1>1. [CCNext]_CCvars
    BY DEF MSNext, ReceiveMoves, WaitMoves, RightsMove, messageVars
  <1> QED BY <1>1, CCStepInv

\* What the run kernel_parts checks of messages, for every value of the constants.
THEOREM MessagingStaysConsistent == MSSpec => []MessagingConsistent
  <1>1. RCInv /\ WCInv /\ CCInv => MessagingConsistent
    BY DEF RCInv, WCInv, CCInv, MessagingConsistent
  <1>2. MSInit => RCInv /\ WCInv /\ CCInv
    BY RCInitInv, WCInitInv, CCInitInv DEF MSInit
  <1> QED BY <1>1, <1>2, ReceiveAlone, WaitAlone, RightsAlone, PTL DEF MSSpec
=============================================================================
