SPECIFICATION FairSpec
CONSTANTS
    MACH_PORT_TABLE_SIZE = 8
    MACH_PORT_QUEUE_MAX = 1
    TASK_MAX = 3
    TASK_PORT_MAX = 0
    THREAD_MAX = 1
    RightNames = {}
    PID_MAX = 1
    Servers = {a, b}
    ServerNames = {"kernel", "net", "fs"}
    MX_SERVER_MAX = 2
    WAIT_MAX = 1
    MaxSent = 1
CHECK_DEADLOCK FALSE
INVARIANT
    ServersConsistent
PROPERTIES
    FailedStartRestores
    StartReturns
