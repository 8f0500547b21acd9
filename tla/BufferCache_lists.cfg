SPECIFICATION Spec
CONSTANTS
    NR_BUFFERS = 3
    NR_HASH = 2
    Blocks <- MCFourBlocks
    _hashfn <- MCHash
    MaxRefs = 1
    Calls <- CreateAndSync
INVARIANTS OneCopy ListsIntact
PROPERTIES ImplementsPool
