---------------------------- MODULE MCFileZones ----------------------------
(* Instances of FileZones for TLC: one direct zone and two entries in an   *)
(* indirect block, so that a file has seven blocks on three levels; fewer  *)
(* zones than blocks, so that the drive runs full.                         *)
EXTENDS FileZones

MCBits == 0..5
MCPadded == {0, 5}         \* four data zones, the rest of the map set
MCInodes == {1, 2}
MCRegular == {1}
=============================================================================
