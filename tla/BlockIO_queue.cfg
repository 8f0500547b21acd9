SPECIFICATION LiveSpec
CONSTANTS
    NR_BUFFERS = 3
    NR_REQUEST = 3
    MAX_ERRORS = 2
    NR_HD = 1
    SECT = 3
    HEADS = 2
    partition_info <- MCTable5
    Sectors <- MCSectors5
    disk0 <- MCZeros
    memory0 <- MCMemory
    b_dev <- MCDev
    b_blocknr <- MCBlock
    Values = {0}
    Zero = 0
    Calls = {"read_buff_page","create_block","invalidate_buff","invalidate_buffs","sync_dev"}
    Ways = {"cached","clean"}
INVARIANTS
    QueueHoldsRequests
    TwoSweeps
PROPERTIES
    CurrentStays
    EveryLockEnds
