SPECIFICATION Spec
CONSTANTS
    NR_BUFFERS = 1
    NR_REQUEST = 3
    MAX_ERRORS = 2
    NR_HD = 1
    SECT = 3
    HEADS = 2
    partition_info <- MCTable3
    Sectors <- MCSectors3
    disk0 <- MCOnes
    memory0 <- MCMemory
    b_dev <- MCDev
    b_blocknr <- MCBlock
    Values = {0, 1}
    Zero = 0
    Calls = {"read_buff", "sync_dev"}
    Ways = {"cached", "dirty"}
INVARIANT
    InPeace
