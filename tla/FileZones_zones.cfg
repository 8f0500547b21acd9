SPECIFICATION Spec
CONSTANTS
    DIRECT = 1
    PER = 2
    s_firstdatazone = 9
    s_nzones = 13
    Bits <- MCBits
    zmap0 <- MCPadded
    Inodes <- MCInodes
    regular <- MCRegular
INVARIANTS BitmapExact NoPanic NoSharing
PROPERTY BlocksStay
