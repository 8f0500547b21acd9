--------------------------- MODULE MCFileSystem ---------------------------
(* Instances of FileSystem for TLC: two entries to a block, three blocks,  *)
(* a removed entry whose name begins with the other name that is asked for.*)
EXTENDS FileSystem

MCNames == {<<1>>, <<5>>}
MCEntries == [i \in 0..5 |-> CASE i = 0 -> [inode |-> 1, name |-> <<3>>]
                              [] i = 1 -> [inode |-> 2, name |-> <<4, 4>>]
                              [] i = 2 -> [inode |-> 0, name |-> <<1, 2>>]
                              [] i = 3 -> [inode |-> 3, name |-> <<1>>]
                              [] i = 4 -> [inode |-> 4, name |-> <<4>>]
                              [] OTHER -> [inode |-> 0, name |-> <<>>]]
MCOneBlock == [d \in Devices |-> 1]
MCTwoBlocks == [d \in Devices |-> IF d = 2 THEN 2 ELSE 1]
=============================================================================
