---------------------------- MODULE BufferCache ----------------------------
(***************************************************************************)
(* The buffer cache of blk/buffer.c with its pointers: the hash chains     *)
(* that find a block, the circular list from which new_buff reclaims       *)
(* buffers, and the reference counts.                                      *)
(*                                                                         *)
(* Main executes one call at a time.  The block layer below is reduced to  *)
(* what BlockIO establishes for it: ll_rw_block locks the buffer, and some *)
(* time later end_request, in interrupt context, publishes the outcome and *)
(* unlocks it, in any order.                                               *)
(***************************************************************************)
EXTENDS Integers, Sequences, FiniteSets, SequencesExt, FiniteSetsExt

CONSTANTS NR_BUFFERS,
          NR_HASH,
          Blocks,          \* the blocks that are asked for: <<dev, number>>
          _hashfn,         \* the bucket of a block
          MaxRefs,         \* bound: references to a buffer the callers keep
          Calls            \* the calls main makes

MAX_HD == 2
NULL == 0
Buffers == 1..NR_BUFFERS
NoBlock == <<0, 0>>        \* b_dev = 0
Buckets == 0..(NR_HASH - 1)

ASSUME CacheAssumption ==
    /\ NR_BUFFERS \in Nat \ {0} /\ NR_HASH \in Nat \ {0}
    /\ Blocks \subseteq (Nat \ {0}) \X Nat
    /\ Blocks \cup {NoBlock} \subseteq DOMAIN _hashfn
    /\ \A k \in DOMAIN _hashfn : _hashfn[k] \in Buckets
    /\ MaxRefs \in 1..126     \* held, lost and two of a call: less than 256

VARIABLES block,           \* b_dev and b_blocknr
          b_count, b_dirt, b_lock, b_uptodate,
          queues,          \* the pointers
          refs,            \* references the callers of the cache hold
          leaked,          \* references nobody will give back
          call, pc         \* main's call and where it is in it

bufVars == <<b_dirt, b_lock, b_uptodate>>
vars == <<block, b_count, b_dirt, b_lock, b_uptodate, queues, refs, leaked, call, pc>>

(* bh, tmp and i are locals; page holds the bh[] of read_buff_page or the  *)
(* first buffer of read_buff_ahead; todo are the blocks still to be asked  *)
(* for; back is where sync_dev returns to.                                 *)
NoCall == [op |-> "none", todo |-> <<>>, page |-> <<>>, bh |-> NULL, tmp |-> NULL,
           dev |-> 0, i |-> 1, back |-> "idle"]

(* init_buff: all buffers on the circular list in the order of their       *)
(* addresses, none in a hash chain.                                        *)
init_buff ==
    [next      |-> [b \in Buffers |-> NULL],
     prev      |-> [b \in Buffers |-> NULL],
     next_free |-> [b \in Buffers |-> IF b = NR_BUFFERS THEN 1 ELSE b + 1],
     prev_free |-> [b \in Buffers |-> IF b = 1 THEN NR_BUFFERS ELSE b - 1],
     hash_table |-> [h \in Buckets |-> NULL],
     free_list |-> 1]

Init ==
    /\ block = [b \in Buffers |-> NoBlock]
    /\ b_count = [b \in Buffers |-> 0]
    /\ b_dirt = [b \in Buffers |-> 0]
    /\ b_lock = [b \in Buffers |-> 0]
    /\ b_uptodate = [b \in Buffers |-> 0]
    /\ queues = init_buff
    /\ refs = [b \in Buffers |-> 0]
    /\ leaked = [b \in Buffers |-> 0]
    /\ call = NoCall
    /\ pc = "idle"

----------------------------------------------------------------------------
(* The pointers. *)

(* Mutant: the bucket keeps pointing to the removed buffer. *)
remove_from_queues_stale_head(q, b) ==
    [q EXCEPT !.prev = IF q.next[b] = NULL THEN @ ELSE [@ EXCEPT ![q.next[b]] = q.prev[b]],
              !.next = IF q.prev[b] = NULL THEN @ ELSE [@ EXCEPT ![q.prev[b]] = q.next[b]],
              !.next_free = [@ EXCEPT ![q.prev_free[b]] = q.next_free[b]],
              !.prev_free = [@ EXCEPT ![q.next_free[b]] = q.prev_free[b]],
              !.free_list = IF @ = b THEN q.next_free[b] ELSE @]

remove_from_queues(q, b) ==
    LET h == _hashfn[block[b]]
    IN  [next |-> IF q.prev[b] = NULL THEN q.next ELSE [q.next EXCEPT ![q.prev[b]] = q.next[b]],
         prev |-> IF q.next[b] = NULL THEN q.prev ELSE [q.prev EXCEPT ![q.next[b]] = q.prev[b]],
         next_free |-> [q.next_free EXCEPT ![q.prev_free[b]] = q.next_free[b]],
         prev_free |-> [q.prev_free EXCEPT ![q.next_free[b]] = q.prev_free[b]],
         hash_table |-> IF q.hash_table[h] = b THEN [q.hash_table EXCEPT ![h] = q.next[b]]
                                               ELSE q.hash_table,
         free_list |-> IF q.free_list = b THEN q.next_free[b] ELSE q.free_list]

(* Mutant: the buffer becomes the first candidate for reuse. *)
insert_into_queues_front(q, b, k) ==
    LET last == q.prev_free[q.free_list]
        head == q.hash_table[_hashfn[k]]
    IN  [q EXCEPT !.next_free = [@ EXCEPT ![b] = q.free_list, ![last] = b],
                  !.prev_free = [@ EXCEPT ![b] = last, ![q.free_list] = b],
                  !.next = [@ EXCEPT ![b] = head],
                  !.prev = [c \in DOMAIN @ |-> IF c = b THEN NULL
                                ELSE IF c = head THEN b ELSE @[c]],
                  !.hash_table = [@ EXCEPT ![_hashfn[k]] = b],
                  !.free_list = b]

(* The old head of the chain gets its back pointer; if there is none the   *)
(* store goes to low memory, which nobody reads.                           *)
insert_into_queues(q, b, k) ==
    LET last == q.prev_free[q.free_list]
        head == q.hash_table[_hashfn[k]]
    IN  [next |-> [q.next EXCEPT ![b] = head],
         prev |-> [c \in Buffers |-> IF c = b THEN NULL ELSE IF c = head THEN b ELSE q.prev[c]],
         next_free |-> [q.next_free EXCEPT ![b] = q.free_list, ![last] = b],
         prev_free |-> [q.prev_free EXCEPT ![b] = last, ![q.free_list] = b],
         hash_table |-> [q.hash_table EXCEPT ![_hashfn[k]] = b],
         free_list |-> q.free_list]

(* The n-th buffer of bucket h's chain, counted from 0. *)
InChain(h) ==
    LET at[n \in 0..NR_BUFFERS] ==
            IF n = 0 THEN queues.hash_table[h]
            ELSE IF at[n - 1] = NULL THEN NULL ELSE queues.next[at[n - 1]]
    IN  at

(* Mutant: looks at the first buffer of the chain only. *)
find_buff_head(k) ==
    LET b == queues.hash_table[_hashfn[k]]
    IN  IF b # NULL /\ block[b] = k THEN b ELSE NULL

find_buff(k) ==
    LET at == InChain(_hashfn[k])
        hits == {n \in 0..NR_BUFFERS :
                    /\ \A m \in 0..n : at[m] # NULL
                    /\ block[at[n]] = k}
    IN  IF hits = {} THEN NULL ELSE at[Min(hits)]

BADNESS(b) == 2 * b_dirt[b] + b_lock[b]

----------------------------------------------------------------------------
(* The block layer as the cache sees it. *)

(* ll_rw_block hands the buffer over; add_request takes a write's dirt.    *)
ll_rw_block(rw, b) ==
    /\ b_lock' = [b_lock EXCEPT ![b] = 1]
    /\ b_dirt' = IF rw = "WRITE" THEN [b_dirt EXCEPT ![b] = 0] ELSE b_dirt
    /\ UNCHANGED b_uptodate

(* end_request, in interrupt context. *)
end_request(b) ==
    /\ b_lock[b] = 1
    /\ b_lock' = [b_lock EXCEPT ![b] = 0]
    /\ \E u \in {0, 1} : b_uptodate' = [b_uptodate EXCEPT ![b] = u]
    /\ UNCHANGED <<block, b_count, b_dirt, queues, refs, leaked, call, pc>>

----------------------------------------------------------------------------
(* Main starts a call. *)

AtRest == pc = "idle"

Start(op, todo) ==
    /\ AtRest
    /\ op \in Calls
    /\ call' = [NoCall EXCEPT !.op = op, !.todo = todo]
    /\ pc' = "find"
    /\ UNCHANGED <<block, b_count, bufVars, queues, refs, leaked>>

Keeps(k) == \E b \in Buffers : block[b] = k /\ refs[b] >= MaxRefs

start_read_buff == \E k \in Blocks : ~Keeps(k) /\ Start("read_buff", <<k>>)
start_read_buff_page == \E j, k \in Blocks :
    j[1] = k[1] /\ Start("read_buff_page", <<j, k>>)

(* The loop over the further arguments ends at one that is not below MAX_HD. *)
start_read_buff_ahead == \E j, k \in Blocks :
    /\ ~Keeps(j) /\ j[1] = k[1]
    /\ Start("read_buff_ahead", IF k[2] < MAX_HD THEN <<j, k>> ELSE <<j>>)

(* create_block and delete_block ask for a block that the bitmap gave out  *)
(* as free, or that is about to become free.                               *)
start_create_block == \E k \in Blocks :
    (\A b \in Buffers : block[b] = k => refs[b] = 0) /\ Start("create_block", <<k>>)
start_invalidate_buff == \E k \in Blocks :
    /\ \A b \in Buffers : block[b] = k => leaked[b] < MaxRefs
    /\ Start("invalidate_buff", <<k>>)

StartLoop(op, label) ==
    /\ AtRest
    /\ op \in Calls
    /\ \E k \in Blocks : call' = [NoCall EXCEPT !.op = op, !.dev = k[1]]
    /\ pc' = label
    /\ UNCHANGED <<block, b_count, bufVars, queues, refs, leaked>>

start_sync_dev == StartLoop("sync_dev", "sync")
start_invalidate_buffs == StartLoop("invalidate_buffs", "invalidate")

put_buff(b) ==
    /\ AtRest
    /\ refs[b] > 0
    /\ b_lock[b] = 0
    /\ b_count' = [b_count EXCEPT ![b] = (@ + 255) % 256]
    /\ refs' = [refs EXCEPT ![b] = @ - 1]
    /\ UNCHANGED <<block, bufVars, queues, leaked, call, pc>>

modify(b) ==
    /\ AtRest
    /\ refs[b] > 0 /\ b_dirt[b] = 0
    /\ b_dirt' = [b_dirt EXCEPT ![b] = 1]
    /\ UNCHANGED <<block, b_count, b_lock, b_uptodate, queues, refs, leaked, call, pc>>

----------------------------------------------------------------------------
(* get_buff, and retain_buff for invalidate_buff. *)

bh == call.bh
Wanted == Head(call.todo)
Goto(label) == pc' = label
Set(field, value) == call' = [call EXCEPT ![field] = value]

retain_find ==
    /\ pc = "find"
    /\ LET b == find_buff(Wanted)
       IN  \/ /\ b # NULL
              /\ Set("bh", b) /\ Goto("retain")
           \/ /\ b = NULL /\ call.op = "invalidate_buff"
              /\ call' = NoCall /\ Goto("idle")
           \/ /\ b = NULL /\ call.op # "invalidate_buff"
              /\ call' = [call EXCEPT !.bh = NULL, !.tmp = queues.free_list]
              /\ Goto("scan")
    /\ UNCHANGED <<block, b_count, bufVars, queues, refs, leaked>>

retain_buff ==
    /\ pc = "retain"
    /\ b_lock[bh] = 0
    /\ IF block[bh] # Wanted THEN Goto("find") /\ UNCHANGED b_count
       ELSE b_count' = [b_count EXCEPT ![bh] = (@ + 1) % 256] /\ Goto("got")
    /\ UNCHANGED <<block, bufVars, queues, refs, leaked, call>>

(* new_buff looks at one buffer of the list after the other, while         *)
(* end_request may unlock those it has passed and those to come.           *)
Better_clean(b) == b_count[b] = 0 /\ BADNESS(b) = 0  \* Mutant: never a dirty one
Better(b) == b_count[b] = 0 /\ (bh = NULL \/ BADNESS(b) < BADNESS(bh))

scan_step ==
    LET best == IF Better(call.tmp) THEN call.tmp ELSE bh
        next == queues.next_free[call.tmp]
        end  == next = queues.free_list \/ (Better(call.tmp) /\ BADNESS(call.tmp) = 0)
    IN  /\ pc = "scan"
        /\ call' = [call EXCEPT !.bh = best, !.tmp = IF end THEN NULL ELSE next]
        /\ Goto(IF ~end THEN "scan" ELSE IF best = NULL THEN "find" ELSE "new")
        /\ UNCHANGED <<block, b_count, bufVars, queues, refs, leaked>>

(* Mutant: does not look at b_dirt. *)
new_check_any ==
    /\ pc = "new"
    /\ b_lock[bh] = 0
    /\ Goto(IF b_count[bh] # 0 \/ find_buff(Wanted) # NULL THEN "find" ELSE "take")
    /\ UNCHANGED <<block, b_count, bufVars, queues, refs, leaked, call>>

(* The waits are over: start over if somebody else uses the buffer or has  *)
(* read the block, write a dirty one, and else take it.                    *)
new_check ==
    /\ pc = "new"
    /\ b_lock[bh] = 0
    /\ IF b_count[bh] # 0 THEN Goto("find") /\ UNCHANGED call
       ELSE IF b_dirt[bh] = 1
       THEN Goto("sync") /\ call' = [call EXCEPT !.dev = block[bh][1], !.i = 1, !.back = "new"]
       ELSE Goto(IF find_buff(Wanted) # NULL THEN "find" ELSE "take") /\ UNCHANGED call
    /\ UNCHANGED <<block, b_count, bufVars, queues, refs, leaked>>

new_take ==
    /\ pc = "take"
    /\ b_count' = [b_count EXCEPT ![bh] = 1]
    /\ b_dirt' = [b_dirt EXCEPT ![bh] = 0]
    /\ b_uptodate' = [b_uptodate EXCEPT ![bh] = 0]
    /\ queues' = insert_into_queues(remove_from_queues(queues, bh), bh, Wanted)
    /\ block' = [block EXCEPT ![bh] = Wanted]
    /\ Goto("got")
    /\ UNCHANGED <<b_lock, refs, leaked, call>>

get_buff == retain_find \/ retain_buff \/ scan_step \/ new_check \/ new_take

----------------------------------------------------------------------------
(* The loops over the array of buffers. *)

Loop(label) == pc = label /\ call.i <= NR_BUFFERS
NextBuffer == Set("i", call.i + 1)

sync_skip ==
    /\ Loop("sync")
    /\ block[call.i][1] # call.dev \/ (b_lock[call.i] = 0 /\ b_dirt[call.i] = 0)
    /\ NextBuffer
    /\ UNCHANGED <<block, b_count, bufVars, queues, refs, leaked, pc>>

sync_write ==
    /\ Loop("sync")
    /\ block[call.i][1] = call.dev /\ b_lock[call.i] = 0 /\ b_dirt[call.i] = 1
    /\ ll_rw_block("WRITE", call.i)
    /\ NextBuffer
    /\ UNCHANGED <<block, b_count, queues, refs, leaked, pc>>

invalidate_skip ==
    /\ Loop("invalidate")
    /\ block[call.i][1] # call.dev
    /\ NextBuffer
    /\ UNCHANGED <<block, b_count, bufVars, queues, refs, leaked, pc>>

invalidate_drop ==
    /\ Loop("invalidate")
    /\ block[call.i][1] = call.dev /\ b_lock[call.i] = 0
    /\ b_uptodate' = [b_uptodate EXCEPT ![call.i] = 0]
    /\ b_dirt' = [b_dirt EXCEPT ![call.i] = 0]
    /\ NextBuffer
    /\ UNCHANGED <<block, b_count, b_lock, queues, refs, leaked, pc>>

loop_end ==
    /\ pc \in {"sync", "invalidate"}
    /\ call.i > NR_BUFFERS
    /\ Goto(call.back)
    /\ call' = IF call.back = "idle" THEN NoCall ELSE call
    /\ UNCHANGED <<block, b_count, bufVars, queues, refs, leaked>>

loops == sync_skip \/ sync_write \/ invalidate_skip \/ invalidate_drop \/ loop_end

----------------------------------------------------------------------------
(* What a call does with the buffer it got. *)

Got(op) == pc = "got" /\ call.op = op
Return == call' = NoCall /\ Goto("idle")
Hold(b) == refs' = [refs EXCEPT ![b] = @ + 1]
Unhold(b) == b_count' = [b_count EXCEPT ![b] = (@ + 255) % 256]
Rest == Tail(call.todo)

read_buff_cached ==
    /\ Got("read_buff")
    /\ b_uptodate[bh] = 1
    /\ Hold(bh) /\ Return
    /\ UNCHANGED <<block, b_count, bufVars, queues, leaked>>

read_buff_submit ==
    /\ Got("read_buff")
    /\ b_uptodate[bh] = 0
    /\ ll_rw_block("READ", bh)
    /\ Goto("reading")
    /\ UNCHANGED <<block, b_count, queues, refs, leaked, call>>

(* Mutant: the reference of an unreadable block is kept. *)
read_buff_end_keeps ==
    /\ pc = "reading"
    /\ b_lock[bh] = 0
    /\ IF b_uptodate[bh] = 1 THEN Hold(bh) ELSE UNCHANGED refs
    /\ Return
    /\ UNCHANGED <<block, b_count, bufVars, queues, leaked>>

(* read_buff and read_buff_ahead: the buffer, or NULL and no reference. *)
read_buff_end ==
    /\ pc = "reading"
    /\ b_lock[bh] = 0
    /\ IF b_uptodate[bh] = 1 THEN Hold(bh) /\ UNCHANGED b_count
                             ELSE Unhold(bh) /\ UNCHANGED refs
    /\ Return
    /\ UNCHANGED <<block, bufVars, queues, leaked>>

(* The first block of read_buff_ahead, each block of read_buff_page. *)
FirstOrPage == call.op = "read_buff_page" \/ (call.op = "read_buff_ahead" /\ call.page = <<>>)

collect ==
    /\ pc = "got" /\ FirstOrPage
    /\ IF b_uptodate[bh] = 0 THEN ll_rw_block("READ", bh) ELSE UNCHANGED bufVars
    /\ \/ /\ Rest # <<>>
          /\ call' = [call EXCEPT !.todo = Rest, !.page = Append(@, bh)] /\ Goto("find")
       \/ /\ Rest = <<>> /\ call.op = "read_buff_page"
          /\ Set("page", Append(call.page, bh)) /\ Goto("page")
       \/ /\ Rest = <<>> /\ call.op = "read_buff_ahead"
          /\ Goto("reading") /\ UNCHANGED call
    /\ UNCHANGED <<block, b_count, queues, refs, leaked>>

(* read_buff_page copies each block and gives it back. *)
page_put ==
    /\ pc = "page"
    /\ LET b == Head(call.page)
       IN  /\ b_lock[b] = 0
           /\ Unhold(b)
           /\ IF Tail(call.page) = <<>> THEN Return
              ELSE Set("page", Tail(call.page)) /\ UNCHANGED pc
    /\ UNCHANGED <<block, bufVars, queues, refs, leaked>>

(* Read-ahead: without a free request the buffer is left as it was.  The   *)
(* reference is given back while the buffer is locked.                     *)
ahead ==
    /\ Got("read_buff_ahead") /\ call.page # <<>>
    /\ \/ UNCHANGED bufVars
       \/ b_uptodate[bh] = 0 /\ ll_rw_block("READ", bh)
    /\ Unhold(bh)
    /\ Set("bh", Head(call.page))
    /\ Goto("reading")
    /\ UNCHANGED <<block, queues, refs, leaked>>

create_block ==
    /\ Got("create_block")
    /\ b_count[bh] = 1
    /\ b_uptodate' = [b_uptodate EXCEPT ![bh] = 1]
    /\ b_dirt' = [b_dirt EXCEPT ![bh] = 1]
    /\ Unhold(bh)
    /\ Return
    /\ UNCHANGED <<block, b_lock, queues, refs, leaked>>

create_block_panic ==
    /\ Got("create_block")
    /\ b_count[bh] # 1
    /\ Goto("panic")
    /\ UNCHANGED <<block, b_count, bufVars, queues, refs, leaked, call>>

invalidate_buff ==
    /\ Got("invalidate_buff")
    /\ b_count[bh] = 1
    /\ b_uptodate' = [b_uptodate EXCEPT ![bh] = 0]
    /\ b_dirt' = [b_dirt EXCEPT ![bh] = 0]
    /\ Unhold(bh)
    /\ Return
    /\ UNCHANGED <<block, b_lock, queues, refs, leaked>>

(* The early return keeps the reference that retain_buff took. *)
invalidate_buff_in_use ==
    /\ Got("invalidate_buff")
    /\ b_count[bh] # 1
    /\ leaked' = [leaked EXCEPT ![bh] = @ + 1]
    /\ Return
    /\ UNCHANGED <<block, b_count, bufVars, queues, refs>>

uses ==
    \/ read_buff_cached \/ read_buff_submit \/ read_buff_end \/ collect \/ page_put \/ ahead
    \/ create_block \/ create_block_panic \/ invalidate_buff \/ invalidate_buff_in_use

starts ==
    \/ start_read_buff \/ start_read_buff_page \/ start_read_buff_ahead
    \/ start_create_block \/ start_invalidate_buff
    \/ start_sync_dev \/ start_invalidate_buffs
    \/ \E b \in Buffers : put_buff(b) \/ modify(b)

(* panic: an endless loop. *)
halted == pc = "panic" /\ UNCHANGED vars

main_steps == get_buff \/ loops \/ uses

Next == starts \/ main_steps \/ halted \/ \E b \in Buffers : end_request(b)

Spec == Init /\ [][Next]_vars

(* Main executes its call, and the block layer finishes what it was given  *)
(* (EveryLockEnds of BlockIO).                                             *)
Fairness == WF_vars(main_steps) /\ \A b \in Buffers : WF_vars(end_request(b))
LiveSpec == Spec /\ Fairness

----------------------------------------------------------------------------
Flag == {0, 1}
Ptr == 0..NR_BUFFERS

(* Types of the state: counters are bytes, pointers are buffers or NULL.   *)
TypeOK ==
    /\ block \in [Buffers -> Blocks \cup {NoBlock}]
    /\ b_count \in [Buffers -> 0..255]
    /\ b_dirt \in [Buffers -> Flag]
    /\ b_lock \in [Buffers -> Flag]
    /\ b_uptodate \in [Buffers -> Flag]
    /\ queues \in [next : [Buffers -> Ptr], prev : [Buffers -> Ptr],
                   next_free : [Buffers -> Buffers], prev_free : [Buffers -> Buffers],
                   hash_table : [Buckets -> Ptr], free_list : Buffers]
    /\ refs \in [Buffers -> 0..MaxRefs]
    /\ leaked \in [Buffers -> 0..MaxRefs]
    /\ call.bh \in Ptr /\ call.tmp \in Ptr /\ call.i \in 1..(NR_BUFFERS + 1)
    /\ pc \in {"idle", "find", "retain", "scan", "new", "take", "got", "sync", "invalidate",
               "reading", "page", "panic"}

(* A block is never in two buffers: two holders would see two contents,    *)
(* and the last write would win.                                           *)
OneCopy == \A a, b \in Buffers : block[a] = block[b] /\ block[a] # NoBlock => a = b

(* Each hash chain ends, holds exactly the buffers whose block falls into  *)
(* its bucket, and can be walked back.                                     *)
Chains ==
    \A h \in Buckets :
        LET at == InChain(h)
            len == CHOOSE n \in 0..(NR_BUFFERS + 1) :
                       /\ n <= NR_BUFFERS => at[n] = NULL
                       /\ \A m \in 0..(n - 1) : at[m] # NULL
            members == {at[n] : n \in 0..(len - 1)}
        IN  /\ len <= NR_BUFFERS
            /\ members = {b \in Buffers : block[b] # NoBlock /\ _hashfn[block[b]] = h}
            /\ \A n \in 0..(len - 1) :
                  queues.prev[at[n]] = IF n = 0 THEN NULL ELSE at[n - 1]

(* The buffers along the circular list, from free_list on. *)
RingOrder ==
    LET at[n \in 1..NR_BUFFERS] ==
            IF n = 1 THEN queues.free_list ELSE queues.next_free[at[n - 1]]
    IN  at

(* The free list is one ring through all buffers, the same both ways.      *)
Ring ==
    /\ \A b \in Buffers : queues.prev_free[queues.next_free[b]] = b
    /\ {RingOrder[n] : n \in Buffers} = Buffers

(* What find_buff, new_buff and the next removal rely on, after any number *)
(* of removals and insertions.                                             *)
ListsIntact == Chains /\ Ring

(* References that the call under way holds. *)
InCall(b) ==
    Cardinality({n \in 1..Len(call.page) : call.page[n] = b})
    + (IF pc \in {"got", "panic"} /\ bh = b THEN 1
       ELSE IF pc = "reading" /\ bh = b /\ (call.page = <<>> \/ call.page[1] # b) THEN 1 ELSE 0)

(* b_count is the number of references: of the callers, of the call under  *)
(* way and of invalidate_buff's early return; none is lost or given back   *)
(* twice.  The counter is the byte of TypeOK.                              *)
CountsReferences ==
    /\ TypeOK
    /\ \A b \in Buffers : b_count[b] = refs[b] + leaked[b] + InCall(b)

(* A buffer is given to another block only when nobody uses it, nothing is *)
(* being transferred and it has no unwritten change.                       *)
TakesIdleBuffers ==
    [][\A b \in Buffers : block'[b] # block[b] =>
            b_count[b] = 0 /\ refs[b] = 0 /\ b_lock[b] = 0 /\ b_dirt[b] = 0]_vars

(* The cache is the map it promises to be. *)
Pool == INSTANCE BufferPool WITH count <- b_count, order <- RingOrder
ImplementsPool == Pool!Spec

(* get_buff, which starts over whenever it got nothing, comes to an end,   *)
(* unless every buffer is in use.                                          *)
GetEnds == pc = "find" ~> (pc = "got" \/ pc = "idle" \/ \A b \in Buffers : b_count[b] > 0)

=============================================================================
