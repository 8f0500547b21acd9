---------------------------- MODULE SuperBlocks ----------------------------
(***************************************************************************)
(* The table of mounted devices, super_block_list of fs/super.c, and the   *)
(* references to bitmap blocks that it keeps while a device is mounted.    *)
(* Only main runs this code and lock_super never locks, so a call is one   *)
(* step; each block it reads may turn out to be unreadable.                *)
(***************************************************************************)
EXTENDS Integers, FiniteSets

CONSTANTS NR_SUPER,         \* entries of super_block_list
          MAP_SLOTS,        \* I_MAP_SLOTS and Z_MAP_SLOTS: both 8
          Devices, ROOT_DEV,
          s_imap_blocks, s_zmap_blocks   \* what the devices' super blocks say

SuperConstants ==
    /\ NR_SUPER \in Nat \ {0} /\ MAP_SLOTS \in Nat \ {0}
    /\ Devices \subseteq Nat \ {0} /\ ROOT_DEV \in Devices
    /\ s_imap_blocks \in [Devices -> 1..MAP_SLOTS]
    /\ s_zmap_blocks \in [Devices -> 1..MAP_SLOTS]

NULL == <<0, 0>>
Supers == 1..NR_SUPER
MapSlots == 0..(MAP_SLOTS - 1)
Blocks == Devices \X (2..(1 + 2 * MAP_SLOTS))

VARIABLES super_block_list, \* s_dev, s_imap, s_zmap, s_imount of each entry
          b_count           \* references to each block that the table's code holds

NoMap == [i \in MapSlots |-> NULL]

Init ==
    /\ super_block_list = [s \in Supers |-> [s_dev |-> 0, s_imap |-> NoMap, s_zmap |-> NoMap,
                                             s_imount |-> FALSE]]
    /\ b_count = [b \in Blocks |-> 0]

(* find_super: the first entry of the device. *)
Holding(dev) == {s \in Supers : super_block_list[s].s_dev = dev}
First(entries) == CHOOSE s \in entries : \A t \in entries : s <= t
find_super(dev) == First(Holding(dev))
Mounted(dev) == Holding(dev) # {}

(* How often a map refers to a block, and put_buff for each slot in use. *)
Refers(map, b) == Cardinality({i \in MapSlots : map[i] = b})
put_maps(count, entry) ==
    [b \in Blocks |-> count[b] - Refers(entry.s_imap, b) - Refers(entry.s_zmap, b)]

-----------------------------------------------------------------------------
(* read_super. *)

read_super_found(dev) == Mounted(dev) /\ UNCHANGED <<super_block_list, b_count>>

read_super_full(dev) == ~Mounted(dev) /\ ~Mounted(0) /\ UNCHANGED <<super_block_list, b_count>>

(* Changed: the failure gives back the pointers of the last use. *)
read_super_bad_puts(dev) ==
    /\ ~Mounted(dev) /\ Mounted(0)
    /\ super_block_list' = [super_block_list EXCEPT ![find_super(0)].s_imount = FALSE]
    /\ b_count' = put_maps(b_count, super_block_list[find_super(0)])

(* The super block cannot be read, or its magic number is wrong: the entry *)
(* keeps the pointers of its last use.                                     *)
read_super_bad(dev) ==
    /\ ~Mounted(dev) /\ Mounted(0)
    /\ super_block_list' = [super_block_list EXCEPT ![find_super(0)].s_imount = FALSE]
    /\ UNCHANGED b_count

(* The loops over the bitmap blocks: im blocks of the inode map and zm of  *)
(* the zone map could be read.  The second loop goes on with the block at  *)
(* which the first has failed.                                             *)
Loaded(n, first, dev) == [i \in MapSlots |-> IF i < n THEN <<dev, first + i>> ELSE NULL]
WithMaps(entry, dev, im, zm) ==
    [entry EXCEPT !.s_dev = dev, !.s_imount = FALSE,
                  !.s_imap = Loaded(im, 2, dev), !.s_zmap = Loaded(zm, 2 + im, dev)]
Taken(entry) ==
    [b \in Blocks |-> b_count[b] + Refers(entry.s_imap, b) + Refers(entry.s_zmap, b)]

(* Changed: only the zone map is counted. *)
read_super_maps_zones(dev) ==
    /\ ~Mounted(dev) /\ Mounted(0)
    /\ \E im \in 0..s_imap_blocks[dev], zm \in 0..s_zmap_blocks[dev] :
         LET s == find_super(0)
             entry == WithMaps(super_block_list[s], dev, im, zm)
         IN  IF zm = s_zmap_blocks[dev]
             THEN /\ super_block_list' = [super_block_list EXCEPT ![s] = entry]
                  /\ b_count' = Taken(entry)
             ELSE /\ super_block_list' = [super_block_list EXCEPT ![s] = [entry EXCEPT !.s_dev = 0]]
                  /\ b_count' = put_maps(Taken(entry), entry)

read_super_maps(dev) ==
    /\ ~Mounted(dev) /\ Mounted(0)
    /\ \E im \in 0..s_imap_blocks[dev], zm \in 0..s_zmap_blocks[dev] :
         LET s == find_super(0)
             entry == WithMaps(super_block_list[s], dev, im, zm)
         IN  IF im + zm = s_imap_blocks[dev] + s_zmap_blocks[dev]
             THEN /\ super_block_list' = [super_block_list EXCEPT ![s] = entry]
                  /\ b_count' = Taken(entry)
             ELSE /\ super_block_list' = [super_block_list EXCEPT ![s] = [entry EXCEPT !.s_dev = 0]]
                  /\ b_count' = put_maps(Taken(entry), entry)

read_super(dev) ==
    read_super_found(dev) \/ read_super_full(dev) \/ read_super_bad(dev) \/ read_super_maps(dev)

(* put_super, which refuses the root and a device with a mount point. *)
put_super_refused(dev) ==
    /\ \/ dev = ROOT_DEV
       \/ ~Mounted(dev)
       \/ Mounted(dev) /\ super_block_list[find_super(dev)].s_imount
    /\ UNCHANGED <<super_block_list, b_count>>

Put(dev) ==
    LET s == find_super(dev)
    IN  /\ super_block_list' = [super_block_list EXCEPT ![s].s_dev = 0]
        /\ b_count' = put_maps(b_count, super_block_list[s])

put_super(dev) ==
    /\ dev # ROOT_DEV /\ Mounted(dev)
    /\ ~super_block_list[find_super(dev)].s_imount
    /\ Put(dev)

-----------------------------------------------------------------------------
SuperTypeOK ==
    /\ super_block_list \in [Supers -> [s_dev : Devices \cup {0},
                                        s_imap : [MapSlots -> Blocks \cup {NULL}],
                                        s_zmap : [MapSlots -> Blocks \cup {NULL}],
                                        s_imount : BOOLEAN]]
    /\ b_count \in [Blocks -> Nat]

(* super.c:186-194, 114-118: the references held are those of the mounted  *)
(* devices, whichever block could not be read and whatever pointers the    *)
(* failed or earlier uses left in the entries.                             *)
HeldByMounted ==
    LET InUse == {p \in Supers \X MapSlots : super_block_list[p[1]].s_dev # 0}
    IN  \A b \in Blocks :
            b_count[b] = Cardinality({p \in InUse : super_block_list[p[1]].s_imap[p[2]] = b})
                       + Cardinality({p \in InUse : super_block_list[p[1]].s_zmap[p[2]] = b})

(* super.c:173-186: a mounted device has one entry, and all of its bitmap  *)
(* blocks in their places.                                                 *)
MapsComplete ==
    \A s \in Supers : LET entry == super_block_list[s] IN entry.s_dev # 0 =>
        /\ Holding(entry.s_dev) = {s}
        /\ entry.s_imap = Loaded(s_imap_blocks[entry.s_dev], 2, entry.s_dev)
        /\ entry.s_zmap = Loaded(s_zmap_blocks[entry.s_dev],
                                 2 + s_imap_blocks[entry.s_dev], entry.s_dev)

=============================================================================
