SPECIFICATION Spec
CONSTANTS
    NR_INODE = 3
    s_ninodes = 4
    dinode0 <- MCDinode
    dir0 <- MCDir
    imap0 <- MCImap
    MaxRefs = 1
    MaxLeaks = 1
    Changing = {2}
INVARIANTS OneInode CountsInodes InodesAccounted LatestContent
