SPECIFICATION LiveSpec
CONSTANTS
    NR_BUFFERS = 2
    NR_HASH = 2
    Blocks <- MCTwoDevices
    _hashfn <- MCHash
    MaxRefs = 1
    Calls <- MostCalls
INVARIANT CountsReferences
PROPERTIES TakesIdleBuffers GetEnds
