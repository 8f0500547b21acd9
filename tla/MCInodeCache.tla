---------------------------- MODULE MCInodeCache ----------------------------
(* Instances of InodeCache for TLC: the root names a directory, which      *)
(* names a file and, as "..", the root; one inode is free.                 *)
EXTENDS InodeCache

MCDinode == [n \in 1..4 |->
    [nlinks |-> IF n = 4 THEN 0 ELSE 1,
     mode |-> CASE n \in {1, 2} -> "dir" [] n = 3 -> "file" [] n = 4 -> "none",
     version |-> 0]]
MCDir == [n \in 1..4 |-> CASE n = 1 -> {2} [] n = 2 -> {1, 3} [] OTHER -> {}]
MCImap == {1, 2, 3}
=============================================================================
