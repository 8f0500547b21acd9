SPECIFICATION Spec
CONSTANTS
    NR_BUFFERS = 3
    NR_REQUEST = 2
    MAX_ERRORS = 3
    NR_HD = 1
    SECT = 3
    HEADS = 2
    partition_info <- MCTable3
    Sectors <- MCSectors3
    disk0 <- MCOnes
    memory0 <- MCMemory
    b_dev <- MCDev
    b_blocknr <- MCBlock
    Values = {0, 1}
    Zero = 0
    Calls = {"read_buff_ahead","read_buff"}
    Ways = {"cached","dirty"}
INVARIANTS
    TypeOK
    CleanCopy
    CommandHasRequest
    LockedMeansQueued
    OnlyAbortReenters
    NeverLockedTwice
PROPERTIES
    ImplementsDevice
