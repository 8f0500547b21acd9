--------------------------- MODULE MCBufferCache ---------------------------
(* Instances of BufferCache for TLC.  Blocks 1 to 3 fall into one bucket,   *)
(* block 4 into another, and only block 1 is below MAX_HD.                 *)
EXTENDS BufferCache

MCTwoDevices == {<<769, 1>>, <<769, 2>>, <<770, 1>>}
MCFourBlocks == {769} \X (1..4)
MCHash == [k \in MCFourBlocks \cup MCTwoDevices \cup {NoBlock} |-> k[2] \div 4]

MostCalls == {"read_buff", "read_buff_page", "read_buff_ahead", "create_block",
              "invalidate_buff", "invalidate_buffs"}
CreateAndSync == {"create_block", "sync_dev"}

=============================================================================
