----------------------------- MODULE Directory -----------------------------
(***************************************************************************)
(* A directory as the loops of fs/inode.c see it: entries of an inode      *)
(* number and a name, PER to a block, read one block at a time.  A block   *)
(* may be unreadable: bh is then null while the loop goes on, and the      *)
(* comparison of de with the end of the buffer reads what lies at address  *)
(* 0.  Its outcome is a choice here; if de is not taken for the end, de    *)
(* points behind the last buffer, into a foreign one.                      *)
(***************************************************************************)
EXTENDS Integers, Sequences, FiniteSets

CONSTANTS PER,               \* DIR_ENTRIES_PER_BLOCK: 32
          MaxBlocks,         \* bound on the blocks of the directory
          Names,             \* sequences of characters
          Inodes,            \* numbers of inodes
          entry0, size0      \* the directory when it is first used

ASSUME DirectoryAssumption ==
    /\ PER \in Nat \ {0} /\ MaxBlocks \in Nat \ {0}
    /\ Inodes \subseteq Nat \ {0}
    /\ Names \subseteq Seq(Nat) /\ \A name \in Names : Len(name) > 0
    /\ size0 \in 1..(MaxBlocks * PER)
    /\ entry0 \in [0..(MaxBlocks * PER - 1) -> [inode : Inodes \cup {0}, name : Seq(Nat)]]

Places == 0..(MaxBlocks * PER - 1)
NoBlock == -1
Null == -1                   \* the result of a call that fails

VARIABLES entry,             \* the entries on the blocks of the directory
          i_size,            \* in entries
          blocks,            \* blocks that have a zone
          call,              \* the call under way and its locals
          held,              \* buffers the call holds
          unread,            \* history: blocks of this call that could not be read
          wild,              \* history: foreign memory was used as an entry
          last               \* history: name and result of the last call

directory == <<entry, i_size, blocks, call, held, unread, wild, last>>

NoResult == [op |-> "none", name |-> <<>>, inode |-> Null]
NoCall == [op |-> "none", name |-> <<>>, i |-> 0, de |-> 0, bh |-> NoBlock]
Idle == call.op = "none"

Init ==
    /\ entry = entry0 /\ i_size = size0
    /\ blocks = (size0 + PER - 1) \div PER
    /\ call = NoCall /\ held = 0
    /\ unread = {} /\ wild = FALSE
    /\ last = NoResult

(* match compares as many characters as the name has, and not the end of   *)
(* the entry's name.                                                       *)
match(name, k_name) == Len(name) <= Len(k_name) /\ SubSeq(k_name, 1, Len(name)) = name

(* The end of a call: put_buff, which does nothing for null.  What a call  *)
(* returns that has used foreign memory is not kept.                       *)
put_buff == held' = held - (IF call.bh = NoBlock THEN 0 ELSE 1)
End == call' = NoCall /\ wild' = FALSE /\ put_buff
Lost == last' = NoResult /\ unread' = {}
Return(inode) ==
    /\ End
    /\ IF wild THEN Lost
       ELSE last' = [op |-> call.op, name |-> call.name, inode |-> inode] /\ UNCHANGED unread

(* Both calls begin with block 0. *)
start(op, name) ==
    /\ Idle
    /\ \/ /\ call' = [NoCall EXCEPT !.op = op, !.name = name, !.bh = 0]
          /\ held' = 1 /\ unread' = {} /\ last' = NoResult
       \/ /\ last' = [op |-> op, name |-> name, inode |-> Null]
          /\ unread' = {0}
          /\ UNCHANGED <<call, held>>
    /\ UNCHANGED <<entry, i_size, blocks, wild>>

(* de >= BLOCK_SIZE+bh->b_data, and the opposite. *)
IsEnd == call.bh = NoBlock \/ call.de >= (call.bh + 1) * PER
IsEntry == call.bh = NoBlock \/ call.de < (call.bh + 1) * PER

Block == call.i \div PER
Next_entry == call' = [call EXCEPT !.i = call.i + 1, !.de = call.de + 1]
Next_foreign == call' = [call EXCEPT !.i = call.i + 1]

(* The next block is read, or cannot be read and its entries are skipped. *)
next_block ==
    /\ \/ /\ Block < blocks'
          /\ call' = [call EXCEPT !.bh = Block, !.de = Block * PER]
          /\ held' = held - (IF call.bh = NoBlock THEN 0 ELSE 1) + 1
          /\ UNCHANGED unread
       \/ /\ call' = [call EXCEPT !.bh = NoBlock, !.de = 0, !.i = call.i + PER]
          /\ put_buff
          /\ unread' = unread \cup {Block}
    /\ UNCHANGED <<entry, i_size, wild, last>>

-----------------------------------------------------------------------------
(* retain_inode_by_name. *)

lookup(name) == start("lookup", name)

(* Changed: one entry more. *)
Looking_late == call.op = "lookup" /\ call.i <= i_size

Looking == call.op = "lookup" /\ call.i < i_size

(* Changed: an unreadable block counts as one entry. *)
lookup_block_one ==
    /\ Looking /\ IsEnd
    /\ \/ /\ Block < blocks
          /\ call' = [call EXCEPT !.bh = Block, !.de = Block * PER]
          /\ held' = held - (IF call.bh = NoBlock THEN 0 ELSE 1) + 1
          /\ UNCHANGED unread
       \/ /\ call' = [call EXCEPT !.bh = NoBlock, !.de = 0, !.i = call.i + 1]
          /\ put_buff
          /\ unread' = unread \cup {Block}
    /\ UNCHANGED <<entry, i_size, blocks, wild, last>>

(* Changed: the old buffer is not given back. *)
lookup_block_keeps ==
    /\ Looking /\ IsEnd
    /\ \/ /\ Block < blocks
          /\ call' = [call EXCEPT !.bh = Block, !.de = Block * PER]
          /\ held' = held + 1
          /\ UNCHANGED unread
       \/ /\ call' = [call EXCEPT !.bh = NoBlock, !.de = 0, !.i = call.i + PER]
          /\ unread' = unread \cup {Block}
          /\ UNCHANGED held
    /\ UNCHANGED <<entry, i_size, blocks, wild, last>>

lookup_block == Looking /\ IsEnd /\ UNCHANGED blocks /\ next_block

(* The number of the entry is read as an inode.  There is no inode 0:      *)
(* read_inode does not come back from the number of a removed entry, for   *)
(* (0-1)/INODES_PER_BLOCK is a block that no drive has.                    *)
lookup_entry ==
    /\ Looking /\ IsEntry /\ call.bh # NoBlock
    /\ IF match(call.name, entry[call.de].name)
       THEN entry[call.de].inode # 0 /\ Return(entry[call.de].inode)
       ELSE Next_entry /\ UNCHANGED <<held, unread, wild, last>>
    /\ UNCHANGED <<entry, i_size, blocks>>

(* de points into a foreign buffer, whose content may match or not. *)
lookup_foreign ==
    /\ Looking /\ call.bh = NoBlock
    /\ \/ End /\ Lost
       \/ Next_foreign /\ wild' = TRUE /\ UNCHANGED <<held, unread, last>>
    /\ UNCHANGED <<entry, i_size, blocks>>

lookup_none ==
    /\ call.op = "lookup" /\ call.i >= i_size
    /\ Return(Null)
    /\ UNCHANGED <<entry, i_size, blocks>>

-----------------------------------------------------------------------------
(* create_inode_by_name. *)

create(name) == start("create", name)

Creating == call.op = "create"

(* locate_by_inode makes the block if there is none. *)
create_block ==
    /\ Creating /\ IsEnd /\ Block < MaxBlocks
    /\ blocks' = IF Block >= blocks THEN Block + 1 ELSE blocks
    /\ next_block

(* locate_by_inode finds no zone. *)
create_no_block ==
    /\ Creating /\ IsEnd
    /\ Return(Null)
    /\ UNCHANGED <<entry, i_size, blocks>>

(* Changed: the last entry is taken for one behind the end. *)
Grows_early == call.i + 1 >= i_size

(* An entry behind the end is taken into the size. *)
Grows == call.i >= i_size
grow == i_size' = IF Grows THEN call.i + 1 ELSE i_size

create_skip ==
    /\ Creating /\ IsEntry /\ call.bh # NoBlock
    /\ ~Grows /\ entry[call.de].inode # 0
    /\ Next_entry
    /\ UNCHANGED <<entry, i_size, blocks, held, unread, wild, last>>

FreeEntry == Grows \/ entry[call.de].inode = 0

(* Changed: an entry behind the end is used without growing. *)
create_entry_short(inode) ==
    /\ Creating /\ IsEntry /\ call.bh # NoBlock /\ FreeEntry
    /\ entry' = [entry EXCEPT ![call.de] = [inode |-> inode, name |-> call.name]]
    /\ Return(inode)
    /\ UNCHANGED <<i_size, blocks>>

(* create_inode has returned an inode with this number ... *)
create_entry(inode) ==
    /\ Creating /\ IsEntry /\ call.bh # NoBlock /\ FreeEntry
    /\ grow
    /\ entry' = [entry EXCEPT ![call.de] = [inode |-> inode, name |-> call.name]]
    /\ Return(inode)
    /\ UNCHANGED blocks

(* ... or NULL. *)
create_no_inode ==
    /\ Creating /\ IsEntry /\ call.bh # NoBlock /\ FreeEntry
    /\ grow
    /\ entry' = [entry EXCEPT ![call.de].inode = 0]
    /\ Return(Null)
    /\ UNCHANGED blocks

(* de points into a foreign buffer: the entry there is in use, or it is    *)
(* overwritten, and the size grows all the same.  The buffer may hold a    *)
(* block of the directory, with de at the same place in it.                *)
create_foreign(inode) ==
    /\ Creating /\ call.bh = NoBlock /\ Block < MaxBlocks
    /\ \/ /\ ~Grows /\ Next_foreign /\ wild' = TRUE
          /\ UNCHANGED <<entry, i_size, held, unread, last>>
       \/ /\ grow /\ End /\ Lost
          /\ \/ UNCHANGED entry
             \/ \E i \in Places : i % PER = call.i % PER /\
                  entry' = [entry EXCEPT ![i] = IF inode = Null THEN [@ EXCEPT !.inode = 0]
                                                ELSE [inode |-> inode, name |-> call.name]]
    /\ UNCHANGED blocks

-----------------------------------------------------------------------------
DirectoryTypeOK ==
    /\ entry \in [Places -> [inode : Inodes \cup {0}, name : Seq(Nat)]]
    /\ i_size \in 1..((MaxBlocks + 1) * PER) /\ blocks \in 1..MaxBlocks
    /\ call.op \in {"none", "lookup", "create"}
    /\ call.bh \in 0..(MaxBlocks - 1) => call.de \div PER \in {call.bh, call.bh + 1}
    /\ held \in {0, 1} /\ wild \in BOOLEAN

(* inode.c:544, 648, 658: a call holds the buffer of its block and no      *)
(* other, and gives it back on every way out.                              *)
OneBuffer == held = IF call.bh = NoBlock THEN 0 ELSE 1

(* What a name leads to: the first entry it matches in the blocks that can *)
(* be read; the loop does not ask whether it is in use.                    *)
Matching(name) == {i \in Places : /\ i < i_size /\ i \div PER \notin unread
                                  /\ match(name, entry[i].name)}
Named(name) == IF Matching(name) = {} THEN Null
               ELSE entry[CHOOSE i \in Matching(name) : \A j \in Matching(name) : i <= j].inode

(* inode.c:510-547: a lookup that has not left its buffers and comes back  *)
(* has found what the name leads to, with entries and pointer in step      *)
(* across block borders and unreadable blocks.  No lookup comes back from  *)
(* a name that leads to a removed entry, though a later entry in use       *)
(* matches: read_inode_from_buff stops the kernel.                         *)
LookupRight ==
    Idle /\ last.op = "lookup" =>
        /\ last.inode = IF 0 \in unread THEN Null ELSE Named(last.name)
        /\ last.inode # 0

(* inode.c:512: only an unreadable block with more entries behind it sends *)
(* a lookup out of its buffers; one at the end of the directory does not.  *)
LastBlockHarmless ==
    call.op = "lookup" /\ wild => \E k \in unread : (k + 1) * PER < i_size

(* inode.c:635-659: a new entry is inside the directory, in a block that   *)
(* exists, and no entry outside a foreign buffer is inside it by mistake.  *)
CreatedIsNamed ==
    Idle /\ last.op = "create" /\ last.inode # Null =>
        \E i \in Places : /\ i < i_size /\ i \div PER < blocks /\ i \div PER \notin unread
                          /\ entry[i] = [inode |-> last.inode, name |-> last.name]

(* inode.c:635-642: the directory never shrinks, and no call takes an      *)
(* entry in use from its inode, unless it is or has been in a foreign      *)
(* buffer: then i and de are out of step and an entry in use is taken.     *)
EntriesKeep ==
    [][/\ i_size' >= i_size
       /\ ~wild /\ call.bh # NoBlock =>
            \A i \in Places : i < i_size /\ entry[i].inode # 0 => entry'[i] = entry[i]]_directory

=============================================================================
