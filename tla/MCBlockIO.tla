----------------------------- MODULE MCBlockIO -----------------------------
(***************************************************************************)
(* Small instances of BlockIO: partition 1 of one drive with 3 sectors per *)
(* track and 2 heads, so that a block crosses a track.                     *)
(***************************************************************************)
EXTENDS BlockIO

Table(nr_sects) ==
    [p \in 0..4 |-> CASE p = 0 -> [start_sect |-> 0, nr_sects |-> nr_sects + 1]
                      [] p = 1 -> [start_sect |-> 1, nr_sects |-> nr_sects]
                      [] OTHER -> [start_sect |-> 0, nr_sects |-> 0]]

(* One block in the partition, one cut off by its end, others behind it. *)
MCTable3 == Table(3)
MCSectors3 == 0..3

(* Two blocks, both in the partition. *)
MCTable4 == Table(4)
MCSectors4 == 0..4

(* Three blocks, the last one cut off by the end of the partition. *)
MCTable5 == Table(5)
MCSectors5 == 0..5

(* A drive of which nothing is known to be zero, and a cleared one. *)
MCOnes == [s \in Sectors |-> 1]
MCZeros == [s \in Sectors |-> 0]

MCDev == [b \in Buffers |-> 769]
MCBlock == [b \in Buffers |-> b - 1]
MCMemory == [b \in Buffers |-> [h \in Half |-> 0]]
=============================================================================
