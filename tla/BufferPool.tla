----------------------------- MODULE BufferPool -----------------------------
(***************************************************************************)
(* What the buffer cache of blk/buffer.c promises its callers: a partial   *)
(* map from blocks to buffers with reference counts, and a queue of the    *)
(* buffers in the order in which they received their block.  BufferCache   *)
(* implements it with hash chains and a circular list.                     *)
(***************************************************************************)
EXTENDS Integers, Sequences, FiniteSets, SequencesExt

CONSTANTS Buffers, Blocks, NoBlock

VARIABLES block,    \* buffer -> the block it holds
          count,    \* buffer -> its references
          order     \* the buffers, longest in possession of their block first

vars == <<block, count, order>>

Init ==
    /\ block = [b \in Buffers |-> NoBlock]
    /\ count = [b \in Buffers |-> 0]
    /\ order \in SetToSeqs(Buffers)

Cached(k) == \E b \in Buffers : block[b] = k

(* A block in the cache is found there. *)
Hit(k) == \E b \in Buffers :
    /\ block[b] = k
    /\ count' = [count EXCEPT ![b] = @ + 1]
    /\ UNCHANGED <<block, order>>

(* Any other block takes the place of one that nobody uses. *)
Miss(k) == \E n \in DOMAIN order :
    LET b == order[n]
    IN  /\ ~Cached(k)
        /\ count[b] = 0
        /\ block' = [block EXCEPT ![b] = k]
        /\ count' = [count EXCEPT ![b] = 1]
        /\ order' = Append(RemoveAt(order, n), b)

Put(b) ==
    /\ count[b] > 0
    /\ count' = [count EXCEPT ![b] = @ - 1]
    /\ UNCHANGED <<block, order>>

Next == \/ \E k \in Blocks : Hit(k) \/ Miss(k)
        \/ \E b \in Buffers : Put(b)

Spec == Init /\ [][Next]_vars

=============================================================================
