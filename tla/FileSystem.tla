---------------------------- MODULE FileSystem ----------------------------
(***************************************************************************)
(* Mounting composed with the use of a directory: sys_setup mounts the     *)
(* root, other devices are mounted and given up at any time, and the calls *)
(* on a directory of the device "dev" need its super block.                *)
(***************************************************************************)
EXTENDS Directory

CONSTANTS NR_SUPER, MAP_SLOTS, Devices, ROOT_DEV, s_imap_blocks, s_zmap_blocks,
          DirectoryDevices,  \* where the directory may be
          imap0              \* the inodes in use at first

ASSUME FileSystemAssumption == DirectoryDevices \subseteq Devices /\ imap0 \subseteq Inodes

VARIABLES super_block_list, b_count,
          dev,               \* the device of the directory
          imap,              \* the inodes in use
          state              \* "boot", "mounted", "up" or "panic"

SB == INSTANCE SuperBlocks

ASSUME SuperAssumption == SB!SuperConstants

mounts == <<super_block_list, b_count>>
files == <<directory, mounts, dev, imap, state>>

FileSystemInit ==
    /\ Init /\ SB!Init
    /\ dev \in DirectoryDevices
    /\ imap = imap0
    /\ state = "boot"

Up == state = "up"

-----------------------------------------------------------------------------
(* sys_setup: the root must be readable; then its inode becomes the mount  *)
(* point.                                                                  *)
sys_setup ==
    /\ state = "boot"
    /\ SB!read_super_maps(ROOT_DEV)
    /\ state' = IF super_block_list'[1].s_dev = ROOT_DEV THEN "mounted" ELSE "panic"
    /\ UNCHANGED <<directory, dev, imap>>

sys_setup_bad ==
    /\ state = "boot" /\ state' = "panic"
    /\ SB!read_super_bad(ROOT_DEV)
    /\ UNCHANGED <<directory, dev, imap>>

sys_setup_imount ==
    /\ state = "mounted"
    /\ \/ /\ state' = "up"
          /\ super_block_list' = [super_block_list EXCEPT ![SB!find_super(ROOT_DEV)].s_imount = TRUE]
       \/ state' = "panic" /\ UNCHANGED super_block_list
    /\ UNCHANGED <<b_count, directory, dev, imap>>

(* Mounting and unmounting by main, between its calls on files. *)
mount == /\ Up /\ Idle
         /\ \E d \in Devices : SB!read_super(d)
         /\ UNCHANGED <<directory, dev, imap, state>>

unmount == /\ Up /\ Idle
           /\ \E d \in Devices : SB!put_super_refused(d) \/ SB!put_super(d)
           /\ UNCHANGED <<directory, dev, imap, state>>

-----------------------------------------------------------------------------
(* Calls on the directory. *)
OnlyDirectory == UNCHANGED <<mounts, dev, imap, state>>

begin == /\ Up /\ \E name \in Names : lookup(name) \/ create(name)
         /\ OnlyDirectory

look == Up /\ (lookup_block \/ lookup_none) /\ OnlyDirectory

(* The number of a matching entry is read as an inode, for which the       *)
(* device needs its super block, as a new inode and a new block do.        *)
look_at_entry == /\ Up /\ (lookup_entry \/ lookup_foreign)
                 /\ Idle' => SB!Mounted(dev)
                 /\ OnlyDirectory

search == /\ Up /\ (create_block \/ create_no_block \/ create_skip)
          /\ blocks' # blocks => SB!Mounted(dev)
          /\ OnlyDirectory

(* create_inode: the first zero bit of the inode bitmap, if there is one.  *)
FreeInodes == Inodes \ imap
add_inode_bitmap == CHOOSE n \in FreeInodes : \A m \in FreeInodes : n <= m

create_inode ==
    /\ Up /\ SB!Mounted(dev) /\ FreeInodes # {}
    /\ create_entry(add_inode_bitmap) \/ create_foreign(add_inode_bitmap)
    /\ imap' = IF Idle' THEN imap \cup {add_inode_bitmap} ELSE imap
    /\ UNCHANGED <<mounts, dev, state>>

(* The inode of the number is cached already: the bit stays set. *)
create_inode_bad_luck ==
    /\ Up /\ SB!Mounted(dev) /\ FreeInodes # {}
    /\ create_no_inode
    /\ imap' = imap \cup {add_inode_bitmap}
    /\ UNCHANGED <<mounts, dev, state>>

create_inode_full ==
    /\ Up /\ SB!Mounted(dev) /\ FreeInodes = {}
    /\ create_no_inode \/ create_foreign(Null)
    /\ OnlyDirectory

(* "nonexistant device": a block or an inode is made on a device without   *)
(* super block.  A foreign entry may be free or not.                       *)
CreatePanics ==
    /\ ~SB!Mounted(dev) /\ Creating
    /\ \/ IsEntry /\ (call.bh = NoBlock \/ FreeEntry)
       \/ IsEnd /\ Block >= blocks /\ Block < MaxBlocks

(* A matching entry is read as an inode: always in vain if it was removed, *)
(* and otherwise if the device has no super block, or the inode's block    *)
(* cannot be read, or every inode slot is in use.  A foreign entry may     *)
(* match or not.                                                           *)
LookupPanics ==
    Looking /\ IsEntry /\ (call.bh = NoBlock \/ match(call.name, entry[call.de].name))

panic ==
    /\ Up /\ (CreatePanics \/ LookupPanics)
    /\ state' = "panic"
    /\ UNCHANGED <<directory, mounts, dev, imap>>

halted == state = "panic" /\ UNCHANGED files

-----------------------------------------------------------------------------
FileSystemNext ==
    \/ sys_setup \/ sys_setup_bad \/ sys_setup_imount \/ mount \/ unmount
    \/ begin \/ look \/ look_at_entry \/ search \/ create_inode
    \/ create_inode_bad_luck \/ create_inode_full \/ panic \/ halted

FileSystemSpec == FileSystemInit /\ [][FileSystemNext]_files

TypeOK ==
    /\ DirectoryTypeOK /\ SB!SuperTypeOK
    /\ dev \in DirectoryDevices /\ imap \subseteq Inodes
    /\ state \in {"boot", "mounted", "up", "panic"}

(* super.c:186-194, 114-118: as in SuperBlocks, beside the calls on the    *)
(* directory.                                                              *)
HeldByMounted == TypeOK /\ SB!HeldByMounted
MapsComplete == SB!MapsComplete

=============================================================================
