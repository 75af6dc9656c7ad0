------------------------------- MODULE PortOps -------------------------------
(***************************************************************************)
(* What a port table means to its callers.  A port space is a function     *)
(* from the live port names to the sequence of messages queued on each.    *)
(* These operators are the effects of mach/mach_port.c on such a value;    *)
(* MachPort refines them (module MachPort, property PortSpaceSpec), and    *)
(* the modules above the port table (messages, tasks, servers) are written *)
(* with them.                                                              *)
(***************************************************************************)
EXTENDS Integers, Sequences

CONSTANTS MACH_PORT_TABLE_SIZE,  \* slots of mxwl_port_table
          MACH_PORT_QUEUE_MAX    \* messages a port can hold

ASSUME PortOpsAssumption ==
    /\ MACH_PORT_TABLE_SIZE \in Nat
    /\ MACH_PORT_QUEUE_MAX \in Nat \ {0}

MACH_PORT_NULL == 0
Names == 1 .. MACH_PORT_TABLE_SIZE

Live(q) == DOMAIN q
Full(q) == Names \subseteq DOMAIN q

\* The table is searched from its first slot, so a freed name is the next
\* one to be given out.
FreshName(q) == CHOOSE p \in Names \ DOMAIN q :
                    \A r \in Names \ DOMAIN q : p <= r

Opened(q, p) == [r \in DOMAIN q \cup {p} |-> IF r = p THEN <<>> ELSE q[r]]

\* Closing a name that is not live changes nothing (KERN_INVALID_RIGHT).
Closed(q, p) == [r \in DOMAIN q \ {p} |-> q[r]]

Accepts(q, p) == p \in DOMAIN q /\ Len(q[p]) < MACH_PORT_QUEUE_MAX
Sent(q, p, m) == [q EXCEPT ![p] = Append(@, m)]
HasMessage(q, p) == p \in DOMAIN q /\ q[p] # <<>>
Taken(q, p) == [q EXCEPT ![p] = Tail(@)]

\* mach_port_queue_message as one value: the space after the call and the
\* code it returns.  An allocation failure is the caller's choice.
SendResult(q, p, m) ==
    CASE p \notin DOMAIN q  -> [space |-> q, kr |-> "KERN_INVALID_RIGHT"]
      [] Accepts(q, p)      -> [space |-> Sent(q, p, m), kr |-> "KERN_SUCCESS"]
      [] OTHER              -> [space |-> q, kr |-> "KERN_NO_SPACE"]
=============================================================================
