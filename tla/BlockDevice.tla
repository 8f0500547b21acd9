---------------------------- MODULE BlockDevice ----------------------------
(***************************************************************************)
(* What the block layer promises the buffer cache: transfers of blocks in  *)
(* the background, which end in any order and with either outcome, while   *)
(* the holder of a buffer may change it.  BlockIO implements it with a     *)
(* queue of requests, a driver and interrupts.                             *)
(***************************************************************************)
EXTENDS Integers

CONSTANTS Buffers,
          Half,             \* the parts in which a block is transferred
          Present,          \* buffers whose block is on the drive
          READ, WRITE,
          Values, Zero,
          Empty,            \* the contents of the buffers at boot
          Blank             \* the contents of the blocks at boot

Nothing == [bh |-> 0, half |-> 0, data |-> Zero]

VARIABLES pending,          \* buffer -> the transfers it waits for
          b_uptodate, b_dirt, b_data,
          block,            \* buffer -> content of its block on the drive
          sending           \* the part of a block on its way to the drive

vars == <<pending, b_uptodate, b_dirt, b_data, block, sending>>

Init ==
    /\ pending = [b \in Buffers |-> {}]
    /\ b_uptodate = [b \in Buffers |-> 0]
    /\ b_dirt = [b \in Buffers |-> 0]
    /\ b_data = Empty
    /\ block = Blank
    /\ sending = Nothing

----------------------------------------------------------------------------
(* The cache.  A transfer is asked for when there is something to do and   *)
(* none is pending; the request counts as the writing of all changes.      *)
Submit(b, op) ==
    /\ pending[b] = {}
    /\ IF op = WRITE THEN b_dirt[b] = 1 ELSE b_uptodate[b] = 0
    /\ pending' = [pending EXCEPT ![b] = {op}]
    /\ b_dirt' = [b_dirt EXCEPT ![b] = 0]
    /\ UNCHANGED <<b_uptodate, b_data, block, sending>>

(* A holder changes its buffer, even while it is being transferred. *)
Modify(b, h, v) ==
    /\ b_data' = [b_data EXCEPT ![b][h] = v]
    /\ b_dirt' = [b_dirt EXCEPT ![b] = 1]
    /\ UNCHANGED <<pending, b_uptodate, block, sending>>

(* The buffer gets another block, or its content is void. *)
Drop(b) ==
    /\ pending[b] = {}
    /\ b_uptodate' = [b_uptodate EXCEPT ![b] = 0]
    /\ b_dirt' = [b_dirt EXCEPT ![b] = 0]
    /\ UNCHANGED <<pending, b_data, block, sending>>

Clear(b) ==
    /\ pending[b] = {}
    /\ b_data' = [b_data EXCEPT ![b] = [h \in Half |-> Zero]]
    /\ b_uptodate' = [b_uptodate EXCEPT ![b] = 1]
    /\ b_dirt' = [b_dirt EXCEPT ![b] = 1]
    /\ UNCHANGED <<pending, block, sending>>

----------------------------------------------------------------------------
(* The device.  One part at a time goes to the drive; when it fails, the   *)
(* drive has it or not.                                                    *)
Send(b, h) ==
    /\ sending = Nothing
    /\ pending[b] = {WRITE} /\ b \in Present
    /\ sending' = [bh |-> b, half |-> h, data |-> b_data[b][h]]
    /\ UNCHANGED <<pending, b_uptodate, b_dirt, b_data, block>>

Sent ==
    /\ sending # Nothing
    /\ sending' = Nothing
    /\ \/ UNCHANGED block
       \/ block' = [block EXCEPT ![sending.bh][sending.half] = sending.data]
    /\ UNCHANGED <<pending, b_uptodate, b_dirt, b_data>>

(* A part of the block replaces what is in the buffer. *)
Received(b, h) == b_data' = [b_data EXCEPT ![b][h] = block[b][h]]

Receive(b, h) ==
    /\ pending[b] = {READ} /\ b \in Present
    /\ Received(b, h)
    /\ UNCHANGED <<pending, b_uptodate, b_dirt, block, sending>>

(* A transfer ends, once nothing of it is under way.  If it succeeded, the *)
(* buffer agrees with the drive except for changes since the request.      *)
End(b, uptodate) ==
    /\ pending[b] # {}
    /\ sending = Nothing
    /\ \/ UNCHANGED b_data
       \/ pending[b] = {READ} /\ uptodate = 1 /\ \E h \in Half : Received(b, h)
    /\ uptodate = 1 => b \in Present /\ (b_dirt[b] = 0 => b_data'[b] = block[b])
    /\ pending' = [pending EXCEPT ![b] = {}]
    /\ b_uptodate' = [b_uptodate EXCEPT ![b] = uptodate]
    /\ UNCHANGED <<b_dirt, block, sending>>

----------------------------------------------------------------------------
Next ==
    \E b \in Buffers :
        \/ \E op \in {READ, WRITE} : Submit(b, op)
        \/ Drop(b) \/ Clear(b)
        \/ Sent
        \/ \E h \in Half :
            \/ \E v \in Values : Modify(b, h, v)
            \/ Send(b, h) \/ Receive(b, h)
        \/ \E uptodate \in {0, 1} : End(b, uptodate)

Spec == Init /\ [][Next]_vars

=============================================================================
