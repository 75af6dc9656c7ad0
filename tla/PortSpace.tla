------------------------------ MODULE PortSpace ------------------------------
(***************************************************************************)
(* What mach/mach_port.h promises: live ports are bounded first-in         *)
(* first-out queues, a name is live from the allocation that returned it   *)
(* to the deallocation that names it, and a message is delivered once, to  *)
(* the port it was queued on.                                              *)
(***************************************************************************)
EXTENDS PortOps

CONSTANTS Messages,  \* messages a sender can queue
          NULL,      \* the null message pointer
          PortArgs   \* integers callers pass as port names, valid or not

VARIABLES queue,  \* the port space
          ret     \* what the last call returned

vars == <<queue, ret>>

Init == /\ queue = [p \in {} |-> <<>>]
        /\ ret = <<"init", 0>>

Allocate ==
    \/ /\ ~Full(queue)
       /\ queue' = Opened(queue, FreshName(queue))
       /\ ret' = <<"name", FreshName(queue)>>
    \/ /\ ret' = <<"name", MACH_PORT_NULL>>
       /\ UNCHANGED queue

Deallocate(p) ==
    \/ /\ p \in Live(queue)
       /\ queue' = Closed(queue, p)
       /\ ret' = <<"kr", "KERN_SUCCESS">>
    \/ /\ p \notin Live(queue)
       /\ ret' = <<"kr", "KERN_INVALID_RIGHT">>
       /\ UNCHANGED queue

QueueMessage(p, m) ==
    \/ /\ queue' = SendResult(queue, p, m).space
       /\ ret' = <<"kr", SendResult(queue, p, m).kr>>
    \/ /\ Accepts(queue, p)   \* no memory for the copy
       /\ ret' = <<"kr", "KERN_FAILURE">>
       /\ UNCHANGED queue

DequeueMessage(p) ==
    \/ /\ HasMessage(queue, p)
       /\ queue' = Taken(queue, p)
       /\ ret' = <<"msg", Head(queue[p])>>
    \/ /\ ~HasMessage(queue, p)
       /\ ret' = <<"msg", NULL>>
       /\ UNCHANGED queue

\* Changing the right recorded in a port has no effect on its queue.
InsertRight(p) ==
    /\ ret' = <<"kr", IF p \in Live(queue) THEN "KERN_SUCCESS"
                                           ELSE "KERN_INVALID_RIGHT">>
    /\ UNCHANGED queue

Next == \/ Allocate
        \/ \E p \in PortArgs : \/ Deallocate(p)
                          \/ InsertRight(p)
                          \/ DequeueMessage(p)
                          \/ \E m \in Messages : QueueMessage(p, m)

Spec == Init /\ [][Next]_vars
=============================================================================
