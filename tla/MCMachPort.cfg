\* The port arguments are every name of the table, the null port, and one past the end.
SPECIFICATION Spec
CONSTANTS
    MACH_PORT_TABLE_SIZE = 2
    MACH_PORT_QUEUE_MAX = 2
    Messages = {m1, m2}
    NULL = NULL
    PortArgs = {0, 1, 2, 3}
INVARIANTS
    TypeOK
    RingInvariant
    TableCountOK
    DescriptorsOwned
PROPERTY
    PortSpaceSpec
