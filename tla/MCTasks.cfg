SPECIFICATION FairSpec
CONSTANTS
    MACH_PORT_TABLE_SIZE = 5
    MACH_PORT_QUEUE_MAX = 1
    TASK_MAX = 3
    TASK_PORT_MAX = 2
    THREAD_MAX = 1
    RightNames = {n1}
    PID_MAX = 3
    ShareRights = FALSE
    PidReuse = TRUE
INVARIANT
    TasksConsistent
PROPERTY
    ShutdownCompletes
