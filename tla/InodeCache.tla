----------------------------- MODULE InodeCache -----------------------------
(***************************************************************************)
(* The inode cache of fs/inode.c with the inode bitmap of fs/super.c, and  *)
(* the walk along a path, which takes and gives back references.           *)
(*                                                                         *)
(* Only main runs this code, and lock_inode never sets the lock (its loop  *)
(* runs only while it is set), so a call is one step; a path is walked in  *)
(* several.  Inode blocks are the content "dinode"; that buffers and drive *)
(* agree on it is the subject of BlockIO.  Nothing mounts a second device: *)
(* i_mount is never set.  The zones of an inode are in FileZones.          *)
(***************************************************************************)
EXTENDS Integers, FiniteSets, FiniteSetsExt

CONSTANTS NR_INODE,
          s_ninodes,
          dinode0,         \* number -> the inode on the drive
          dir0,            \* number -> the inodes a directory names
          imap0,           \* numbers whose bit is set
          MaxRefs,         \* bound: references to a slot the callers keep
          MaxLeaks,        \* bound: walks that fail with a reference
          Changing         \* bound: the inodes whose content the callers change

ROOT_INO == 1
NULL == 0
Slots == 1..NR_INODE
Numbers == 1..s_ninodes
RootUses == 4              \* references of the system: sys_setup reads it and adds 3

Content == [nlinks : {0, 1}, mode : {"none", "file", "dir"}, version : {0, 1}]

ASSUME InodeAssumption ==
    /\ NR_INODE \in Nat \ {0, 1} /\ s_ninodes \in Nat \ {0}
    /\ dinode0 \in [Numbers -> Content]
    /\ dir0 \in [Numbers -> SUBSET Numbers]
    /\ imap0 = {ROOT_INO} \cup UNION {dir0[d] : d \in Numbers}
    /\ \A n \in imap0 : dinode0[n].nlinks = 1
    /\ dinode0[ROOT_INO].mode = "dir"
    /\ MaxRefs \in Nat \ {0} /\ MaxLeaks \in Nat
    /\ Changing \subseteq Numbers

VARIABLES inode,           \* inode_list: i_num (0: i_dev is 0), i_count, i_dirt
          node,            \* its part that is also on the drive
          last_inode,      \* where new_inode stopped
          dinode, imap, dir,
          refs,            \* references the callers got and hold
          leaked,          \* references nobody will give back
          latest,          \* what was last written to an inode by its users
          walk,            \* the inode a path starts from, and where it is
          pc

vars == <<inode, node, last_inode, dinode, imap, dir, refs, leaked, latest, walk, pc>>

Cleared == [nlinks |-> 0, mode |-> "none", version |-> 0]
FreeSlot == [num |-> NULL, count |-> 0, dirt |-> 0]
NoWalk == [start |-> NULL, at |-> NULL, old |-> NULL]

(* After sys_setup: the root is in the first slot that new_inode looks at. *)
Init ==
    /\ inode = [s \in Slots |-> IF s = 2 THEN [num |-> ROOT_INO, count |-> RootUses, dirt |-> 0]
                                ELSE FreeSlot]
    /\ node = [s \in Slots |-> IF s = 2 THEN dinode0[ROOT_INO] ELSE Cleared]
    /\ last_inode = 2
    /\ dinode = dinode0 /\ imap = imap0 /\ dir = dir0
    /\ refs = [s \in Slots |-> 0]
    /\ leaked = [s \in Slots |-> 0]
    /\ latest = dinode0
    /\ walk = NoWalk
    /\ pc = "idle"

----------------------------------------------------------------------------
(* The inode bitmap. *)

add_inode_bitmap ==
    LET zero == Numbers \ imap IN IF zero = {} THEN NULL ELSE Min(zero)

(* Mutant: the bit before the inode's. *)
free_inode_bitmap_shifted(n) == imap \ {n - 1}

free_inode_bitmap(n) == imap \ {n}

----------------------------------------------------------------------------
(* Finding an inode, and a slot for a new one. *)

(* Mutant: looks only at inodes that are in use. *)
find_inode_used(n) ==
    LET hits == {s \in Slots : inode[s].num = n /\ inode[s].count > 0}
    IN  IF hits = {} THEN NULL ELSE Min(hits)

find_inode(n) ==
    LET hits == {s \in Slots : inode[s].num = n}
    IN  IF hits = {} THEN NULL ELSE Min(hits)

(* The slots in the order in which new_inode looks at them. *)
Turn(k) == ((last_inode + k - 1) % NR_INODE) + 1
Idle == {k \in Slots : inode[Turn(k)].count = 0}
IdleClean == {k \in Idle : inode[Turn(k)].dirt = 0}

(* The first idle slot, a clean one before a dirty one; the search stops   *)
(* at a clean one and else goes once around.                               *)
new_inode ==
    IF IdleClean # {} THEN Turn(Min(IdleClean))
    ELSE IF Idle # {} THEN Turn(Min(Idle)) ELSE NULL
Hand == IF IdleClean # {} THEN new_inode ELSE last_inode

(* Mutant: nothing is written. *)
sync_inode_to_buff_none(S) == dinode

(* The inode blocks after the dirty inodes in S have been written. *)
sync_inode_to_buff(S) ==
    [n \in Numbers |->
        IF \E s \in S : inode[s].num = n /\ inode[s].dirt = 1
        THEN node[CHOOSE s \in S : inode[s].num = n /\ inode[s].dirt = 1]
        ELSE dinode[n]]

(* read_inode finds inode n in slot s; one without links is read again. *)
retain_inode(n, s) ==
    /\ s = find_inode(n) /\ s # NULL
    /\ inode' = [inode EXCEPT ![s].count = @ + 1]
    /\ node' = IF node[s].nlinks = 0 THEN [node EXCEPT ![s] = dinode[n]] ELSE node
    /\ UNCHANGED <<dinode, last_inode>>

(* Or it gives it a new slot, whose old inode is written, and reads it. *)
get_inode(n, s) ==
    /\ find_inode(n) = NULL
    /\ s = new_inode /\ s # NULL
    /\ dinode' = sync_inode_to_buff({s})
    /\ inode' = [inode EXCEPT ![s] = [num |-> n, count |-> 1, dirt |-> 0]]
    /\ node' = [node EXCEPT ![s] = dinode'[n]]
    /\ last_inode' = Hand

----------------------------------------------------------------------------
(* The calls. *)

Named == {ROOT_INO} \cup UNION {dir[d] : d \in Numbers}

(* References of the system: s_isup, s_imount and the two it means to keep. *)
Own(s) == IF inode[s].num = ROOT_INO THEN RootUses ELSE 0
Held(s) == refs[s] + Own(s) > 0

read_inode(n, s) ==
    /\ pc = "idle"
    /\ n \in Named
    /\ retain_inode(n, s) \/ get_inode(n, s)
    /\ refs[s] < MaxRefs
    /\ refs' = [refs EXCEPT ![s] = @ + 1]
    /\ UNCHANGED <<imap, dir, leaked, latest, walk, pc>>

(* put_inode: the last reference deletes an inode without links and clears *)
(* the slot; else it writes the inode.  The cleared inode is not written.  *)
put_slot(s) ==
    LET i == inode[s]
        last == i.count = 1
    IN  /\ dinode' = IF last /\ node[s].nlinks # 0 THEN sync_inode_to_buff({s}) ELSE dinode
        /\ imap' = IF last /\ node[s].nlinks = 0 THEN free_inode_bitmap(i.num) ELSE imap
        /\ node' = IF last /\ node[s].nlinks = 0 THEN [node EXCEPT ![s] = Cleared] ELSE node
        /\ inode' = [inode EXCEPT ![s] =
                IF last /\ node[s].nlinks = 0 THEN FreeSlot
                ELSE [i EXCEPT !.count = @ - 1, !.dirt = IF last THEN 0 ELSE @]]
        /\ UNCHANGED last_inode

put_inode(s) ==
    /\ pc = "idle"
    /\ refs[s] > 0
    /\ put_slot(s)
    /\ refs' = [refs EXCEPT ![s] = @ - 1]
    /\ UNCHANGED <<dir, leaked, latest, walk, pc>>

(* create_inode_by_name in the directory of slot d: the directory grows if *)
(* it has no free entry, whether or not an inode is left; the new inode is *)
(* named and its slot returned.  new_inode fails if the number is cached,  *)
(* and its bit then stays set.  Nothing happens if the directory has no    *)
(* first block, or if that or a further one cannot be read or made.        *)
MayGrow(d, grows) == grows => inode[d].num \in Changing
Grown(d, grows) == IF grows THEN [node[d] EXCEPT !.version = 1 - @] ELSE node[d]

create_inode_by_name(d, grows) ==
    LET n == add_inode_bitmap
        s == new_inode
    IN  /\ pc = "idle"
        /\ Held(d) /\ node[d].mode = "dir" /\ MayGrow(d, grows)
        /\ n # NULL /\ s # NULL
        /\ imap' = imap \cup {n}
        /\ dinode' = sync_inode_to_buff({s})
        /\ last_inode' = Hand
        /\ IF find_inode(n) # NULL
           THEN /\ inode' = [inode EXCEPT ![d].dirt = IF grows THEN 1 ELSE @, ![s].dirt = 0]
                /\ node' = [node EXCEPT ![d] = Grown(d, grows)]
                /\ latest' = [latest EXCEPT ![inode[d].num] = Grown(d, grows)]
                /\ UNCHANGED <<dir, refs>>
           ELSE LET new == [nlinks |-> 1, mode |-> "none", version |-> 0]
                IN  /\ inode' = [inode EXCEPT ![d].dirt = IF grows THEN 1 ELSE @,
                                              ![s] = [num |-> n, count |-> 1, dirt |-> 1]]
                    /\ node' = [node EXCEPT ![d] = Grown(d, grows), ![s] = new]
                    /\ latest' = [latest EXCEPT ![inode[d].num] = Grown(d, grows), ![n] = new]
                    /\ dir' = [dir EXCEPT ![inode[d].num] = @ \cup {n}]
                    /\ refs' = [refs EXCEPT ![s] = 1]
        /\ UNCHANGED <<leaked, walk, pc>>

(* No inode is left. *)
create_inode_full(d, grows) ==
    /\ pc = "idle"
    /\ Held(d) /\ node[d].mode = "dir" /\ MayGrow(d, grows)
    /\ add_inode_bitmap = NULL
    /\ inode' = [inode EXCEPT ![d].dirt = IF grows THEN 1 ELSE @]
    /\ node' = [node EXCEPT ![d] = Grown(d, grows)]
    /\ latest' = [latest EXCEPT ![inode[d].num] = Grown(d, grows)]
    /\ UNCHANGED <<last_inode, dinode, imap, dir, refs, leaked, walk, pc>>

(* A holder changes the inode, as locate_by_inode does with a new zone. *)
modify(s) ==
    /\ pc = "idle"
    /\ Held(s) /\ inode[s].num \in Changing
    /\ node' = [node EXCEPT ![s].version = 1 - @]
    /\ inode' = [inode EXCEPT ![s].dirt = 1]
    /\ latest' = [latest EXCEPT ![inode[s].num] = node'[s]]
    /\ UNCHANGED <<last_inode, dinode, imap, dir, refs, leaked, walk, pc>>

(* A holder removes the last name of a file: put_inode waits for that. *)
unlink(s) ==
    /\ pc = "idle"
    /\ refs[s] > 0 /\ node[s].mode # "dir" /\ node[s].nlinks = 1
    /\ dir' = [d \in Numbers |-> dir[d] \ {inode[s].num}]
    /\ node' = [node EXCEPT ![s].nlinks = 0]
    /\ inode' = [inode EXCEPT ![s].dirt = 1]
    /\ latest' = [latest EXCEPT ![inode[s].num] = node'[s]]
    /\ UNCHANGED <<last_inode, dinode, imap, refs, leaked, walk, pc>>

sync_all_inodes_to_buff ==
    /\ pc = "idle"
    /\ \E s \in Slots : inode[s].dirt = 1
    /\ dinode' = sync_inode_to_buff(Slots)
    /\ inode' = [s \in Slots |-> [inode[s] EXCEPT !.dirt = 0]]
    /\ UNCHANGED <<node, last_inode, imap, dir, refs, leaked, latest, walk, pc>>

----------------------------------------------------------------------------
(* retain_inode_by_path. *)

retain_inode_by_path(s) ==
    /\ pc = "idle"
    /\ Held(s) /\ MapThenSumSet(LAMBDA t : leaked[t], Slots) < MaxLeaks
    /\ inode' = [inode EXCEPT ![s].count = @ + 1]
    /\ walk' = [start |-> s, at |-> s, old |-> NULL]
    /\ pc' = "walk"
    /\ UNCHANGED <<node, last_inode, dinode, imap, dir, refs, leaked, latest>>

(* The test of the type looks at the inode the walk started from. *)
MayEnter == node[walk.start].mode = "dir"

(* retain_inode_by_name finds the next name and reads its inode.  For ".." *)
(* at the root it puts s_imount, the root itself, and counts it up again.  *)
walk_name(n, s) ==
    /\ pc = "walk"
    /\ MayEnter
    /\ n \in dir[inode[walk.at].num]
    /\ retain_inode(n, s) \/ get_inode(n, s)
    /\ walk' = [walk EXCEPT !.at = s, !.old = walk.at]
    /\ pc' = "put"
    /\ UNCHANGED <<imap, dir, refs, leaked, latest>>

(* Mutant: the inode that was left is not put. *)
walk_put_keeps ==
    /\ pc = "put"
    /\ walk' = [walk EXCEPT !.old = NULL]
    /\ pc' = "walk"
    /\ UNCHANGED <<inode, node, last_inode, dinode, imap, dir, refs, leaked, latest>>

walk_put ==
    /\ pc = "put"
    /\ put_slot(walk.old)
    /\ walk' = [walk EXCEPT !.old = NULL]
    /\ pc' = "walk"
    /\ UNCHANGED <<dir, refs, leaked, latest>>

(* No such name, a directory that cannot be read, or no directory at all:  *)
(* NULL is returned and the reference is kept.                             *)
walk_fail ==
    /\ pc = "walk"
    /\ leaked' = [leaked EXCEPT ![walk.at] = @ + 1]
    /\ walk' = NoWalk
    /\ pc' = "idle"
    /\ UNCHANGED <<inode, node, last_inode, dinode, imap, dir, refs, latest>>

(* The path ends: the caller has one more reference. *)
walk_end ==
    /\ pc = "walk"
    /\ refs[walk.at] < MaxRefs
    /\ refs' = [refs EXCEPT ![walk.at] = @ + 1]
    /\ walk' = NoWalk
    /\ pc' = "idle"
    /\ UNCHANGED <<inode, node, last_inode, dinode, imap, dir, leaked, latest>>

----------------------------------------------------------------------------
(* Panics: every slot is in use, or an inode block cannot be read.  The    *)
(* machine stops: what the call had changed before is not recorded.        *)
NeedsSlot ==
    \/ pc = "idle" /\ add_inode_bitmap # NULL
    \/ pc = "idle" /\ \E n \in Named : find_inode(n) = NULL
    \/ pc = "walk" /\ MayEnter /\ \E n \in dir[inode[walk.at].num] : find_inode(n) = NULL

panic_no_slot ==
    /\ NeedsSlot /\ new_inode = NULL
    /\ pc' = "panic"
    /\ UNCHANGED <<inode, node, last_inode, dinode, imap, dir, refs, leaked, latest, walk>>

panic_unreadable ==
    /\ NeedsSlot \/ (pc # "panic" /\ \E s \in Slots : inode[s].dirt = 1)
    /\ pc' = "panic"
    /\ UNCHANGED <<inode, node, last_inode, dinode, imap, dir, refs, leaked, latest, walk>>

halted == pc = "panic" /\ UNCHANGED vars

Next ==
    \/ \E n \in Numbers, s \in Slots : read_inode(n, s) \/ walk_name(n, s)
    \/ \E s \in Slots : put_inode(s) \/ modify(s) \/ unlink(s) \/ retain_inode_by_path(s)
    \/ \E d \in Slots, grows \in BOOLEAN :
          create_inode_by_name(d, grows) \/ create_inode_full(d, grows)
    \/ sync_all_inodes_to_buff
    \/ walk_put \/ walk_fail \/ walk_end
    \/ panic_no_slot \/ panic_unreadable \/ halted

Spec == Init /\ [][Next]_vars

----------------------------------------------------------------------------
(* Types of the state: counters stay natural, a slot without an inode is   *)
(* neither in use nor dirty (new_inode would spin on a dirty one).         *)
TypeOK ==
    /\ inode \in [Slots -> [num : Numbers \cup {NULL}, count : Nat, dirt : {0, 1}]]
    /\ \A s \in Slots : inode[s].num = NULL => inode[s] = FreeSlot
    /\ node \in [Slots -> Content]
    /\ last_inode \in Slots
    /\ dinode \in [Numbers -> Content]
    /\ imap \subseteq Numbers
    /\ dir \in [Numbers -> SUBSET Numbers]
    /\ refs \in [Slots -> Nat] /\ leaked \in [Slots -> Nat]
    /\ pc \in {"idle", "walk", "put", "panic"}

(* An inode is never in two slots: two users would change two copies of it *)
(* and the one written last would win.                                     *)
OneInode == \A s, t \in Slots : inode[s].num = inode[t].num /\ inode[s].num # NULL => s = t

(* References that a walk under way holds. *)
InWalk(s) == Cardinality({f \in {"at", "old"} : walk[f] = s})

(* i_count is the number of references: the root's own four, those of the  *)
(* callers, of a walk and of walks that failed; retain_inode_by_path loses *)
(* no other.                                                               *)
CountsInodes == \A s \in Slots : inode[s].count = Own(s) + refs[s] + leaked[s] + InWalk(s)

(* An allocated inode reads as its users last left it, in its slot or,     *)
(* once new_inode has taken the slot for another one, on the drive; and a  *)
(* slot that is not dirty agrees with the drive.                           *)
LatestContent ==
    /\ \A n \in imap :
        latest[n] = IF find_inode(n) = NULL THEN dinode[n] ELSE node[find_inode(n)]
    /\ \A s \in Slots : inode[s].num # NULL /\ inode[s].dirt = 0 => node[s] = dinode[inode[s].num]

(* The inode bitmap says exactly which inodes have a name or a user, so    *)
(* that create_inode never hands out one of them, and none is forgotten.   *)
InodesAccounted ==
    /\ TypeOK
    /\ imap = Named \cup {inode[s].num : s \in {t \in Slots : inode[t].count > 0}}

=============================================================================
