SPECIFICATION FairSpec
CONSTANTS
    MACH_PORT_TABLE_SIZE = 4
    MACH_PORT_QUEUE_MAX = 2
    Clients = {c1, c2}
    Providers = {c1}
    ServiceNames = {s1, s2}
    IPC_MAX_SERVICES = 1
    Timeouts = {0, 2}
    MaxCalls = 3
CHECK_DEADLOCK FALSE
INVARIANTS
    BootstrapConsistent
    RepliesMatch
PROPERTY
    RpcReturns
