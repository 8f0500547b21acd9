SPECIFICATION FileSystemSpec
CONSTANTS
    PER = 2
    MaxBlocks = 3
    Names <- MCNames
    Inodes = {1, 2, 3, 4, 5}
    entry0 <- MCEntries
    size0 = 5
    NR_SUPER = 2
    MAP_SLOTS = 2
    Devices = {1, 2, 3}
    ROOT_DEV = 1
    DirectoryDevices = {1, 2}
    s_imap_blocks <- MCTwoBlocks
    s_zmap_blocks <- MCOneBlock
    imap0 = {1, 2, 3, 4}
INVARIANTS HeldByMounted MapsComplete OneBuffer LookupRight LastBlockHarmless CreatedIsNamed
PROPERTY EntriesKeep
