SPECIFICATION Spec
CONSTANTS
    NR_BUFFERS = 2
    NR_REQUEST = 3
    MAX_ERRORS = 3
    NR_HD = 1
    SECT = 3
    HEADS = 2
    partition_info <- MCTable4
    Sectors <- MCSectors4
    disk0 <- MCZeros
    memory0 <- MCMemory
    b_dev <- MCDev
    b_blocknr <- MCBlock
    Values = {0}
    Zero = 0
    Calls = {"read_buff_page"}
    Ways = {"cached", "dirty"}
PROPERTY
    GivesUpAtMaxErrors
