----------------------------- MODULE FileZones -----------------------------
(***************************************************************************)
(* The zones of a file system: the zone bitmap (fs/super.c), creating and  *)
(* deleting blocks (fs/zone.c), and the map from the blocks of a file to   *)
(* zones through direct, indirect and double indirect pointers             *)
(* (locate_by_inode and truncate of fs/inode.c).                           *)
(*                                                                         *)
(* Only main runs this code, one call at a time; a step is the part of a   *)
(* call between two reads of a block, each of which may fail.  A block has *)
(* one content here: that its buffer and the drive agree is the subject of *)
(* BufferCache and BlockIO.                                                *)
(***************************************************************************)
EXTENDS Integers, Sequences, FiniteSets, FiniteSetsExt

CONSTANTS DIRECT,          \* direct zones of an inode: 7
          PER,             \* zone numbers in an indirect block: 512
          s_firstdatazone, s_nzones,
          Bits,            \* the bits of the zone bitmap
          zmap0,           \* those that are set on the drive
          Inodes,
          regular          \* inodes whose i_mode says file or directory

(* The zone that bit j stands for. *)
Zone(j) == j - 1 + s_firstdatazone
DataZones == s_firstdatazone..(s_nzones - 1)
Zones == s_firstdatazone..s_nzones   \* what add_zone_bitmap lets pass
Slots == 0..(DIRECT + 1)
Entries == 0..(PER - 1)

(* Bit 0 is set by read_super.  The bits behind the last zone are set when *)
(* the file system is made: add_zone_bitmap alone would hand out zone      *)
(* s_nzones.                                                               *)
ASSUME FileSystemAssumption ==
    /\ DIRECT \in Nat /\ PER \in Nat \ {0}
    /\ s_firstdatazone \in Nat \ {0} /\ s_nzones \in Nat /\ s_firstdatazone < s_nzones
    /\ Bits \subseteq Nat /\ zmap0 \subseteq Bits /\ 0 \in zmap0
    /\ \A j \in Bits \ zmap0 : Zone(j) \in DataZones
    /\ regular \subseteq Inodes

VARIABLES zmap,            \* bits that are set
          content,         \* zone -> what it says as an indirect block
          i_zone,          \* inode -> slot -> zone
          boot,            \* whether block 0 of the device is intact
          lost,            \* zones that stay allocated without a reference
          call,            \* the call: inode, path of slots, level, block read
          todo,            \* blocks that truncate still has to delete
          pc

vars == <<zmap, content, i_zone, boot, lost, call, todo, pc>>

Empty == [n \in Entries |-> 0]
Call(i, path, level, bh, create) ==
    [inode |-> i, path |-> path, level |-> level, bh |-> bh, create |-> create]
NoCall == Call(0, <<>>, 1, 0, FALSE)

Init ==
    /\ zmap = zmap0
    /\ content = [z \in Zones |-> Empty]
    /\ i_zone = [i \in Inodes |-> [s \in Slots |-> 0]]
    /\ boot = "intact"
    /\ lost = {}
    /\ call = NoCall
    /\ todo = <<>>
    /\ pc = "idle"

----------------------------------------------------------------------------
(* The bitmap. *)

(* The first bit that is not set, over all blocks of the map. *)
add_zone_bitmap ==
    LET zero == Bits \ zmap
        block == Zone(Min(zero))
    IN  IF zero = {} THEN 0 ELSE IF block > s_nzones THEN 0 ELSE block

Bit(block) == block - (s_firstdatazone - 1)

set_bit(block) == zmap \cup {Bit(block)}

(* Mutant: the first data zone is taken for one outside. *)
free_zone_bitmap_strict(block) ==
    IF block \in DataZones \ {s_firstdatazone} THEN zmap' = zmap \ {Bit(block)} /\ UNCHANGED pc
    ELSE pc' = "panic" /\ UNCHANGED zmap

free_zone_bitmap(block) ==
    IF block \in DataZones THEN zmap' = zmap \ {Bit(block)} /\ UNCHANGED pc
    ELSE pc' = "panic" /\ UNCHANGED zmap

----------------------------------------------------------------------------
(* locate_by_inode: the way from the inode to the block is a slot of the   *)
(* inode and up to two entries of indirect blocks.                         *)

Size == DIRECT + PER + PER * PER
Path(block) ==
    IF block < DIRECT THEN <<block>>
    ELSE IF block - DIRECT < PER THEN <<DIRECT, block - DIRECT>>
    ELSE <<DIRECT + 1, (block - DIRECT - PER) \div PER, (block - DIRECT - PER) % PER>>

start_locate ==
    /\ pc = "idle"
    /\ \E i \in Inodes, block \in 0..(Size - 1), create \in BOOLEAN :
        call' = Call(i, Path(block), 1, 0, create)
    /\ pc' = "locate"
    /\ UNCHANGED <<zmap, content, i_zone, boot, lost, todo>>

Index == call.path[call.level]
Pointer == IF call.level = 1 THEN i_zone[call.inode][Index] ELSE content[call.bh][Index]
Return == call' = NoCall /\ pc' = "idle"

(* The pointer leads to block z: the result, or an indirect block, which   *)
(* can be read or not.                                                     *)
Onward(z) ==
    \/ call.level = Len(call.path) /\ Return
    \/ call.level < Len(call.path) /\ Return
    \/ /\ call.level < Len(call.path)
       /\ call' = Call(call.inode, call.path, call.level + 1, z, call.create)
       /\ UNCHANGED pc

locate_found ==
    /\ pc = "locate"
    /\ Pointer # 0
    /\ Onward(Pointer)
    /\ UNCHANGED <<zmap, content, i_zone, boot, lost, todo>>

locate_hole ==
    /\ pc = "locate"
    /\ Pointer = 0 /\ ~call.create
    /\ Return
    /\ UNCHANGED <<zmap, content, i_zone, boot, lost, todo>>

(* Mutant: the new block keeps its old content. *)
create_block_dirty(block) == content

(* create_block clears the new block; add_zone_bitmap set its bit. *)
create_block(block) == [content EXCEPT ![block] = Empty]

locate_create ==
    LET block == add_zone_bitmap
    IN  /\ pc = "locate"
        /\ Pointer = 0 /\ call.create
        /\ block # 0
        /\ zmap' = set_bit(block)
        /\ IF call.level = 1
           THEN /\ i_zone' = [i_zone EXCEPT ![call.inode][Index] = block]
                /\ content' = create_block(block)
           ELSE /\ content' = [create_block(block) EXCEPT ![call.bh][Index] = block]
                /\ UNCHANGED i_zone
        /\ Onward(block)
        /\ UNCHANGED <<boot, lost, todo>>

(* No zone is left: create_block does not look at the 0 it got, and clears *)
(* block 0; its caller takes the 0 for a failure.                          *)
locate_full ==
    /\ pc = "locate"
    /\ Pointer = 0 /\ call.create
    /\ add_zone_bitmap = 0
    /\ boot' = "cleared"
    /\ Return
    /\ UNCHANGED <<zmap, content, i_zone, lost, todo>>

----------------------------------------------------------------------------
(* put_inode of the last reference to a file without links: truncate, then *)
(* delete_inode, which clears the inode.                                   *)

Task(z, depth) == [zone |-> z, depth |-> depth]

(* The pointers of a table, in order, each with the depth of the tree      *)
(* below it.                                                               *)
Tasks(table, n, depth) == [k \in 1..n |-> Task(table[k - 1], depth)]

(* Zones below block z. *)
Kids(z) == {content[z][n] : n \in Entries} \ {0}
Below(z, depth) ==
    CASE depth = 0 -> {}
      [] depth = 1 -> Kids(z)
      [] depth = 2 -> Kids(z) \cup UNION {Kids(y) : y \in Kids(z)}

AllZones(i) ==
    {i_zone[i][s] : s \in 0..(DIRECT - 1)} \cup
    UNION {{i_zone[i][DIRECT - 1 + d]} \cup
           (IF i_zone[i][DIRECT - 1 + d] = 0 THEN {} ELSE Below(i_zone[i][DIRECT - 1 + d], d))
           : d \in {1, 2}}

(* Mutant: the double indirect block is freed like an indirect one. *)
truncate_shallow(i) ==
    Tasks(i_zone[i], DIRECT, 0)
    \o <<Task(i_zone[i][DIRECT], 1), Task(i_zone[i][DIRECT + 1], 1)>>

truncate(i) ==
    Tasks(i_zone[i], DIRECT, 0)
    \o <<Task(i_zone[i][DIRECT], 1), Task(i_zone[i][DIRECT + 1], 2)>>

start_put_inode ==
    /\ pc = "idle"
    /\ \E i \in Inodes :
        /\ \E s \in Slots : i_zone[i][s] # 0
        /\ call' = Call(i, <<>>, 1, 0, FALSE)
        /\ todo' = IF i \in regular THEN truncate(i) ELSE <<>>
        /\ lost' = IF i \in regular THEN lost ELSE lost \cup (AllZones(i) \ {0})
    /\ pc' = "truncate"
    /\ UNCHANGED <<zmap, content, i_zone, boot>>

Current == Head(todo)

skip_hole ==
    /\ pc = "truncate"
    /\ todo # <<>> /\ Current.zone = 0
    /\ todo' = Tail(todo)
    /\ UNCHANGED <<zmap, content, i_zone, boot, lost, call, pc>>

(* Mutant: the slot is cleared in every inode. *)
delete_block_everywhere ==
    /\ pc = "truncate"
    /\ todo # <<>> /\ Current.zone # 0 /\ Current.depth = 0
    /\ free_zone_bitmap(Current.zone)
    /\ i_zone' = [i \in Inodes |-> [s \in Slots |-> IF s < DIRECT THEN 0 ELSE i_zone[i][s]]]
    /\ todo' = Tail(todo)
    /\ UNCHANGED <<content, boot, lost, call>>

(* A direct zone is forgotten at once, the indirect ones at the end. *)
delete_block ==
    /\ pc = "truncate"
    /\ todo # <<>> /\ Current.zone # 0 /\ Current.depth = 0
    /\ free_zone_bitmap(Current.zone)
    /\ i_zone' = [i_zone EXCEPT ![call.inode] =
                    [s \in Slots |-> IF s < DIRECT /\ @[s] = Current.zone THEN 0 ELSE @[s]]]
    /\ todo' = Tail(todo)
    /\ UNCHANGED <<content, boot, lost, call>>

delete_indirecte_block ==
    /\ pc = "truncate"
    /\ todo # <<>> /\ Current.zone # 0 /\ Current.depth > 0
    /\ todo' = Tasks(content[Current.zone], PER, Current.depth - 1)
               \o <<Task(Current.zone, 0)>> \o Tail(todo)
    /\ UNCHANGED <<zmap, content, i_zone, boot, lost, call, pc>>

(* The indirect block cannot be read: it is freed, what it points to not. *)
delete_indirecte_block_unread ==
    /\ pc = "truncate"
    /\ todo # <<>> /\ Current.zone # 0 /\ Current.depth > 0
    /\ todo' = <<Task(Current.zone, 0)>> \o Tail(todo)
    /\ lost' = lost \cup Below(Current.zone, Current.depth)
    /\ UNCHANGED <<zmap, content, i_zone, boot, call, pc>>

delete_inode ==
    /\ pc = "truncate"
    /\ todo = <<>>
    /\ i_zone' = [i_zone EXCEPT ![call.inode] = [s \in Slots |-> 0]]
    /\ Return
    /\ UNCHANGED <<zmap, content, boot, lost, todo>>

Next ==
    \/ start_locate \/ locate_found \/ locate_hole \/ locate_create \/ locate_full
    \/ start_put_inode \/ skip_hole \/ delete_block \/ delete_indirecte_block
    \/ delete_indirecte_block_unread \/ delete_inode

Spec == Init /\ [][Next]_vars

----------------------------------------------------------------------------
(* Types of the state. *)
TypeOK ==
    /\ zmap \subseteq Bits
    /\ content \in [Zones -> [Entries -> Zones \cup {0}]]
    /\ i_zone \in [Inodes -> [Slots -> Zones \cup {0}]]
    /\ boot \in {"intact", "cleared"}
    /\ lost \subseteq Zones
    /\ pc \in {"idle", "locate", "truncate", "panic"}

(* All pointers of all files, and where they lead. *)
Indirect ==
    UNION {LET ind == {i_zone[i][DIRECT]} \ {0}
               dbl == {i_zone[i][DIRECT + 1]} \ {0}
           IN  ind \cup dbl \cup UNION {Kids(z) : z \in dbl} : i \in Inodes}
Pointers == ({"inode"} \X Inodes \X Slots) \cup ({"zone"} \X Indirect \X Entries)
Target(p) == IF p[1] = "inode" THEN i_zone[p[2]][p[3]] ELSE content[p[2]][p[3]]
Referenced == {Target(p) : p \in Pointers} \ {0}

(* Between two calls no zone has two pointers to it: no two blocks, of one *)
(* file or of two, share their data.                                       *)
NoSharing ==
    pc = "idle" => \A p, q \in Pointers : Target(p) = Target(q) /\ Target(p) # 0 => p = q

(* Between two calls the bitmap says of the data zones exactly what is in  *)
(* use: a zone in use is never given out again, and a zone is not given    *)
(* back only if a block of pointers could not be read, or if the inode had *)
(* no file type.                                                           *)
BitmapExact ==
    /\ TypeOK
    /\ pc = "idle" => {Zone(j) : j \in zmap \ zmap0} = Referenced \cup lost

(* free_zone_bitmap is never called for a zone outside the data zones, so  *)
(* the panic in it is not reached.                                         *)
NoPanic == pc # "panic"

(* The zone of a block of a file, 0 if there is none. *)
ZoneOf(i, block) ==
    LET path == Path(block)
        z1 == i_zone[i][path[1]]
        z2 == IF Len(path) = 1 \/ z1 = 0 THEN z1 ELSE content[z1][path[2]]
    IN  IF Len(path) < 3 \/ z2 = 0 THEN z2 ELSE content[z2][path[3]]

(* Blocks of a file stay where they are: whatever is created or deleted,   *)
(* only the deletion of the file itself changes the zone of a block.       *)
BlocksStay ==
    [][\A i \in Inodes, block \in 0..(Size - 1) :
        ZoneOf(i, block) # 0 /\ ~(pc = "truncate" /\ call.inode = i)
            => ZoneOf(i, block)' = ZoneOf(i, block)]_vars

(* zone.c says of create_block: "get a empty slot from bitmap and set      *)
(* bitmap and return a new buffer accordingly": it writes data zones only. *)
BootBlockIntact == boot = "intact"

=============================================================================
