--------------------------- MODULE InodeCacheProof ---------------------------
(***************************************************************************)
(* Proofs about the inode cache, for any number of slots and inodes, any   *)
(* file system to begin with and any number of references.                 *)
(***************************************************************************)
EXTENDS InodeCache, LeastNumber

(* TypeOK without the clause on slots, and the two variables it leaves out. *)
Slot == [num : Numbers \cup {NULL}, count : Nat, dirt : {0, 1}]
IndexOrNull == Slots \cup {NULL}
Walk == [start : IndexOrNull, at : IndexOrNull, old : IndexOrNull]

CacheTypes ==
    /\ inode \in [Slots -> Slot] /\ node \in [Slots -> Content]
    /\ last_inode \in Slots
    /\ dinode \in [Numbers -> Content] /\ latest \in [Numbers -> Content]
    /\ imap \subseteq Numbers /\ dir \in [Numbers -> SUBSET Numbers]

RefTypes == refs \in [Slots -> Nat] /\ leaked \in [Slots -> Nat] /\ walk \in Walk

FreeSlots == \A s \in Slots : inode[s].num = NULL => inode[s] = FreeSlot

(* A walk stands on a slot, and has left another one or the same.          *)
WalkOK ==
    /\ pc \in {"idle", "walk", "put", "panic"}
    /\ pc = "idle" => walk.at = NULL /\ walk.old = NULL
    /\ pc = "walk" => walk.at \in Slots /\ walk.old = NULL /\ walk.start \in Slots
    /\ pc = "put" => walk.at \in Slots /\ walk.old \in Slots /\ walk.start \in Slots

OldRefs(s) == IF walk.old = s THEN 1 ELSE 0
AtRefs(s) == IF walk.at = s THEN 1 ELSE 0
Counts == \A s \in Slots : inode[s].count = Own(s) + refs[s] + leaked[s] + AtRefs(s) + OldRefs(s)

(* The system's four references keep the root in its slot.                 *)
RootCached == \E s \in Slots : inode[s].num = ROOT_INO /\ inode[s].count >= RootUses

(* LatestContent, slot by slot. *)
Latest ==
    /\ \A s \in Slots : inode[s].num # NULL =>
          /\ latest[inode[s].num] = node[s]
          /\ inode[s].dirt = 0 => node[s] = dinode[inode[s].num]
    /\ \A n \in imap : (\A s \in Slots : inode[s].num # n) => latest[n] = dinode[n]

(* A link count tells whether there is a name, and every cached inode is   *)
(* allocated.                                                              *)
Links ==
    /\ \A n \in imap : latest[n].nlinks = 1 <=> n \in Named
    /\ \A s \in Slots : inode[s].num # NULL => inode[s].num \in imap
    /\ imap = Named \cup {inode[s].num : s \in {t \in Slots : inode[t].count > 0}}
    /\ latest[ROOT_INO].mode = "dir"

CacheInv == CacheTypes /\ FreeSlots /\ OneInode /\ RootCached /\ Latest /\ Links
CInv == CacheInv /\ RefTypes /\ WalkOK /\ Counts

-----------------------------------------------------------------------------
(* Sizes, and what the helpers of the cache return. *)

LEMMA Sizes ==
    /\ NR_INODE \in Nat \ {0, 1} /\ s_ninodes \in Nat \ {0}
    /\ Slots \subseteq Nat \ {0} /\ Numbers \subseteq Nat \ {0}
    /\ NULL \notin Slots /\ NULL \notin Numbers /\ NULL = 0
BY InodeAssumption DEF Slots, Numbers, NULL

LEMMA FindInode ==
    ASSUME OneInode, NEW n, n # NULL
    PROVE  /\ \A s \in Slots : inode[s].num = n => find_inode(n) = s
           /\ find_inode(n) = NULL <=> \A s \in Slots : inode[s].num # n
  <1> DEFINE hits == {s \in Slots : inode[s].num = n}
  <1>1. ASSUME NEW s \in Slots, inode[s].num = n PROVE find_inode(n) = s
    <2>1. hits = {s}
      BY <1>1 DEF OneInode
    <2>2. s <= s
      BY Sizes
    <2>3. Min(hits) = s
      BY <2>1, <2>2 DEF Min
    <2> QED BY <2>1, <2>3 DEF find_inode
  <1>2. CASE \A s \in Slots : inode[s].num # n
    BY <1>2 DEF find_inode
  <1>3. CASE \E s \in Slots : inode[s].num = n
    BY <1>1, <1>3, Sizes
  <1> QED BY <1>1, <1>2, <1>3

LEMMA TurnInSlots ==
    ASSUME CacheTypes, NEW k \in Slots
    PROVE  Turn(k) \in Slots
  <1>1. last_inode + k - 1 \in Nat
    BY Sizes DEF CacheTypes
  <1>2. (last_inode + k - 1) % NR_INODE \in 0..(NR_INODE - 1)
    BY <1>1, Sizes
  <1> QED BY <1>2, Sizes DEF Turn, Slots

LEMMA NewInode ==
    ASSUME CacheTypes
    PROVE  /\ new_inode # NULL => new_inode \in Slots /\ inode[new_inode].count = 0
           /\ Hand \in Slots
  <1>1. IdleClean \in SUBSET Nat /\ Idle \in SUBSET Nat
    BY Sizes DEF IdleClean, Idle
  <1>2. ASSUME NEW T \in SUBSET Nat, T # {} PROVE Min(T) \in T
    <2>1. \E m \in T : \A t \in T : m <= t
      BY <1>2, LeastExists
    <2> QED BY <2>1 DEF Min
  <1>3. CASE IdleClean # {}
    <2>1. Min(IdleClean) \in IdleClean
      BY <1>1, <1>2, <1>3
    <2>2. Turn(Min(IdleClean)) \in Slots /\ inode[Turn(Min(IdleClean))].count = 0
      BY <2>1, TurnInSlots DEF IdleClean, Idle
    <2> QED BY <1>3, <2>2 DEF new_inode, Hand
  <1>4. CASE IdleClean = {}
    <2>1. Idle # {} => Min(Idle) \in Idle
      BY <1>1, <1>2
    <2>2. Idle # {} => Turn(Min(Idle)) \in Slots /\ inode[Turn(Min(Idle))].count = 0
      BY <2>1, TurnInSlots DEF Idle
    <2> QED BY <1>4, <2>2 DEF new_inode, Hand, CacheTypes
  <1> QED BY <1>3, <1>4

LEMMA SyncOne ==
    ASSUME CacheTypes, NEW s \in Slots
    PROVE  /\ sync_inode_to_buff({s}) \in [Numbers -> Content]
           /\ \A n \in Numbers : sync_inode_to_buff({s})[n] =
                  IF inode[s].num = n /\ inode[s].dirt = 1 THEN node[s] ELSE dinode[n]
  <1>1. ASSUME NEW n \in Numbers
        PROVE  sync_inode_to_buff({s})[n] =
                   IF inode[s].num = n /\ inode[s].dirt = 1 THEN node[s] ELSE dinode[n]
    <2>1. CASE inode[s].num = n /\ inode[s].dirt = 1
      <3>1. (CHOOSE t \in {s} : inode[t].num = n /\ inode[t].dirt = 1) = s
        BY <2>1
      <3> QED BY <2>1, <3>1 DEF sync_inode_to_buff
    <2>2. CASE ~(inode[s].num = n /\ inode[s].dirt = 1)
      BY <2>2 DEF sync_inode_to_buff
    <2> QED BY <2>1, <2>2
  <1>2. sync_inode_to_buff({s}) = [n \in Numbers |-> sync_inode_to_buff({s})[n]]
    BY DEF sync_inode_to_buff
  <1>3. \A n \in Numbers : sync_inode_to_buff({s})[n] \in Content
    BY <1>1 DEF CacheTypes
  <1> HIDE DEF sync_inode_to_buff
  <1>4. sync_inode_to_buff({s}) \in [Numbers -> Content]
    BY <1>2, <1>3
  <1> QED BY <1>1, <1>4

(* An inode that is in use has a number, and a copy whose content counts.  *)
LEMMA InUse ==
    ASSUME CacheInv, NEW s \in Slots, inode[s].count # 0
    PROVE  inode[s].num # NULL /\ inode[s].num \in Numbers /\ inode[s].num \in imap
  <1>1. inode[s].num # NULL
    BY DEF CacheInv, FreeSlots, FreeSlot
  <1> QED BY <1>1 DEF CacheInv, CacheTypes, Slot, Links

LEMMA NamedIn == ASSUME CacheInv PROVE Named \subseteq imap /\ imap \subseteq Numbers /\ ROOT_INO \in imap
BY DEF CacheInv, Links, CacheTypes, Named

-----------------------------------------------------------------------------
(* What reading and putting an inode leave in order, whoever does it. *)

LEMMA ReadCached ==
    ASSUME CacheInv, NEW n \in Named, NEW s \in Slots, retain_inode(n, s), UNCHANGED <<imap, dir, latest>>
    PROVE  /\ CacheInv'
           /\ inode' = [inode EXCEPT ![s].count = @ + 1]
           /\ UNCHANGED <<node, dinode, last_inode>>
  <1>1. n \in imap /\ n \in Numbers /\ n # NULL
    BY NamedIn, Sizes
  <1>2. inode[s].num = n
    BY <1>1, FindInode DEF retain_inode, CacheInv
  <1>3. inode' = [inode EXCEPT ![s].count = @ + 1] /\ UNCHANGED <<dinode, last_inode>>
    BY DEF retain_inode
  <1>4. latest[n] = node[s] /\ latest[n].nlinks = 1
    BY <1>1, <1>2 DEF CacheInv, Latest, Links
  <1>5. UNCHANGED node
    BY <1>4 DEF retain_inode
  <1>6. inode \in [Slots -> Slot]
    BY DEF CacheInv, CacheTypes
  <1>7. /\ inode' \in [Slots -> Slot]
        /\ \A t \in Slots : inode'[t].num = inode[t].num /\ inode'[t].dirt = inode[t].dirt
        /\ \A t \in Slots : t # s => inode'[t] = inode[t]
        /\ inode'[s].count = inode[s].count + 1
    BY <1>3, <1>6 DEF Slot
  <1>8. FreeSlots' /\ OneInode' /\ RootCached'
    <2>1. \A u \in Slots : inode[u].count \in Nat
      BY <1>6 DEF Slot
    <2> QED BY <1>1, <1>2, <1>7, <2>1 DEF CacheInv, FreeSlots, OneInode, RootCached, RootUses
  <1>9. Latest'
    BY <1>3, <1>5, <1>7 DEF CacheInv, Latest
  <1>10. Links'
    <2>1. Named' = Named
      BY DEF Named
    <2>2. \A t \in Slots : inode[t].count \in Nat
      BY <1>6 DEF Slot
    <2>3. imap = Named \cup {inode'[t].num : t \in {u \in Slots : inode'[u].count > 0}}
      <3>1. imap = Named \cup {inode[t].num : t \in {u \in Slots : inode[u].count > 0}}
        BY DEF CacheInv, Links
      <3> QED BY <3>1, <1>2, <1>7, <2>2
    <2> QED BY <1>7, <2>1, <2>3 DEF CacheInv, Links
  <1>11. CacheTypes'
    BY <1>3, <1>5, <1>7 DEF CacheInv, CacheTypes
  <1> QED BY <1>3, <1>5, <1>8, <1>9, <1>10, <1>11 DEF CacheInv

LEMMA ReadNew ==
    ASSUME CacheInv, NEW n \in Named, NEW s \in Slots, get_inode(n, s), UNCHANGED <<imap, dir, latest>>
    PROVE  /\ CacheInv'
           /\ inode[s].count = 0 /\ inode[s].num # ROOT_INO /\ n # ROOT_INO
           /\ inode' = [inode EXCEPT ![s] = [num |-> n, count |-> 1, dirt |-> 0]]
  <1>1. n \in imap /\ n \in Numbers /\ n # NULL
    BY NamedIn, Sizes
  <1>2. \A t \in Slots : inode[t].num # n
    BY <1>1, FindInode DEF get_inode, CacheInv
  <1>3. inode[s].count = 0
    BY NewInode DEF get_inode, CacheInv
  <1>4. n # ROOT_INO
    BY <1>2 DEF CacheInv, RootCached
  <1>5. inode[s].num # ROOT_INO
    BY <1>3 DEF CacheInv, RootCached, RootUses, OneInode, ROOT_INO, NULL
  <1>6. inode' = [inode EXCEPT ![s] = [num |-> n, count |-> 1, dirt |-> 0]]
    BY DEF get_inode
  <1>7. /\ dinode' \in [Numbers -> Content]
        /\ \A m \in Numbers : dinode'[m] =
              IF inode[s].num = m /\ inode[s].dirt = 1 THEN node[s] ELSE dinode[m]
    BY SyncOne DEF get_inode, CacheInv
  <1>8. node' = [node EXCEPT ![s] = dinode'[n]] /\ last_inode' \in Slots
    BY NewInode DEF get_inode, CacheInv
  <1>9. /\ inode' \in [Slots -> Slot] /\ node' \in [Slots -> Content]
        /\ inode'[s] = [num |-> n, count |-> 1, dirt |-> 0] /\ node'[s] = dinode'[n]
        /\ \A t \in Slots : t # s => inode'[t] = inode[t] /\ node'[t] = node[t]
    BY <1>1, <1>6, <1>7, <1>8 DEF CacheInv, CacheTypes, Slot
  <1>10. CacheTypes'
    BY <1>7, <1>8, <1>9 DEF CacheInv, CacheTypes
  <1>11. FreeSlots' /\ OneInode' /\ RootCached'
    BY <1>1, <1>2, <1>5, <1>9 DEF CacheInv, FreeSlots, OneInode, RootCached, FreeSlot
  <1>12. Latest'
    <2>1. \A m \in Numbers : inode[s].num # m => dinode'[m] = dinode[m]
      BY <1>7
    <2>2. dinode'[n] = dinode[n] /\ dinode[n] = latest[n]
      BY <1>1, <1>2, <2>1 DEF CacheInv, Latest
    <2>3. inode[s].num # NULL => inode[s].num \in Numbers /\ dinode'[inode[s].num] = node[s]
      BY <1>7 DEF CacheInv, CacheTypes, Slot, Latest
    <2>4. ASSUME NEW t \in Slots, inode'[t].num # NULL
          PROVE  /\ latest[inode'[t].num] = node'[t]
                 /\ inode'[t].dirt = 0 => node'[t] = dinode'[inode'[t].num]
      <3>1. CASE t = s
        BY <1>9, <2>2, <3>1
      <3>2. CASE t # s
        <4>1. inode'[t] = inode[t] /\ node'[t] = node[t] /\ inode[t].num # NULL
          BY <1>9, <2>4, <3>2
        <4>2. inode[t].num \in Numbers /\ inode[t].num # inode[s].num
          BY <3>2, <4>1 DEF CacheInv, CacheTypes, Slot, OneInode
        <4> QED BY <2>1, <4>1, <4>2 DEF CacheInv, Latest
      <3> QED BY <3>1, <3>2
    <2>5. ASSUME NEW m \in imap, \A t \in Slots : inode'[t].num # m
          PROVE  latest[m] = dinode'[m]
      <3>1. m \in Numbers /\ m # NULL
        BY Sizes DEF CacheInv, CacheTypes
      <3>2. CASE inode[s].num = m
        BY <2>3, <3>1, <3>2 DEF CacheInv, Latest
      <3>3. CASE inode[s].num # m
        <4>1. \A t \in Slots : inode[t].num # m
          BY <1>9, <2>5, <3>3
        <4> QED BY <2>1, <3>1, <3>3, <4>1 DEF CacheInv, Latest
      <3> QED BY <3>2, <3>3
    <2> QED BY <2>4, <2>5 DEF Latest
  <1>13. Links'
    <2>1. Named' = Named
      BY DEF Named
    <2>2. imap = Named \cup {inode'[t].num : t \in {u \in Slots : inode'[u].count > 0}}
      <3>1. imap = Named \cup {inode[t].num : t \in {u \in Slots : inode[u].count > 0}}
        BY DEF CacheInv, Links
      <3> QED BY <3>1, <1>3, <1>9
    <2> QED BY <1>1, <1>9, <2>1, <2>2 DEF CacheInv, Links
  <1> QED BY <1>3, <1>4, <1>5, <1>6, <1>10, <1>11, <1>12, <1>13 DEF CacheInv

(* The last reference but the system's, or one of several, is given back. *)
LEMMA PutSlot ==
    ASSUME CacheInv, NEW s \in Slots, inode[s].count > Own(s), put_slot(s), UNCHANGED <<dir, latest>>
    PROVE  /\ CacheInv'
           /\ \A t \in Slots : t # s => inode'[t] = inode[t]
           /\ inode'[s].count = inode[s].count - 1
           /\ inode'[s].num # inode[s].num => inode'[s].num = NULL /\ inode[s].num # ROOT_INO
  <1> DEFINE n == inode[s].num
  <1>1. inode[s] \in Slot /\ inode[s].count \in Nat \ {0} /\ Own(s) \in {0, RootUses}
    BY DEF CacheInv, CacheTypes, Slot, Own, RootUses
  <1>2. n # NULL /\ n \in Numbers /\ n \in imap
    BY <1>1, InUse
  <1>3. latest[n] = node[s]
    BY <1>2 DEF CacheInv, Latest
  <1>4. Named' = Named
    BY DEF Named
  <1>5. imap = Named \cup {inode[t].num : t \in {u \in Slots : inode[u].count > 0}}
    BY DEF CacheInv, Links
  <1>6. \A t \in Slots : inode[t].num = n => t = s
    BY <1>2 DEF CacheInv, OneInode
  <1>7. CASE inode[s].count = 1 /\ node[s].nlinks = 0
    <2>1. /\ UNCHANGED <<dinode, last_inode>> /\ imap' = imap \ {n}
          /\ node' = [node EXCEPT ![s] = Cleared] /\ inode' = [inode EXCEPT ![s] = FreeSlot]
      BY <1>7 DEF put_slot, free_inode_bitmap
    <2>2. n # ROOT_INO
      BY <1>1, <1>7 DEF Own, RootUses
    <2>3. n \notin Named
      BY <1>2, <1>3, <1>7 DEF CacheInv, Links
    <2>4. /\ inode'[s] = FreeSlot /\ node'[s] = Cleared
          /\ \A t \in Slots : t # s => inode'[t] = inode[t] /\ node'[t] = node[t]
          /\ inode' \in [Slots -> Slot] /\ node' \in [Slots -> Content]
      BY <2>1 DEF CacheInv, CacheTypes, Slot, FreeSlot, Cleared, Content
    <2>5. CacheTypes'
      BY <2>1, <2>4 DEF CacheInv, CacheTypes
    <2>6. FreeSlots' /\ OneInode' /\ RootCached'
      BY <2>2, <2>4 DEF CacheInv, FreeSlots, OneInode, RootCached, FreeSlot
    <2>7. Latest'
      BY <1>6, <2>1, <2>4 DEF CacheInv, Latest, FreeSlot
    <2>8. Links'
      <3>1. imap' = Named \cup {inode'[t].num : t \in {u \in Slots : inode'[u].count > 0}}
        BY <1>5, <1>6, <2>1, <2>3, <2>4 DEF FreeSlot
      <3>2. \A t \in Slots : inode'[t].num # NULL => inode'[t].num \in imap'
        BY <1>6, <2>1, <2>4 DEF CacheInv, Links, FreeSlot
      <3> QED BY <1>4, <2>1, <3>1, <3>2 DEF CacheInv, Links
    <2> QED BY <1>7, <2>2, <2>4, <2>5, <2>6, <2>7, <2>8 DEF CacheInv, FreeSlot
  <1>8. CASE ~(inode[s].count = 1 /\ node[s].nlinks = 0)
    <2> DEFINE last == inode[s].count = 1
    <2>1. /\ UNCHANGED <<node, imap, last_inode>>
          /\ inode' = [inode EXCEPT ![s] = [inode[s] EXCEPT !.count = @ - 1,
                                                            !.dirt = IF last THEN 0 ELSE @]]
      BY <1>8 DEF put_slot
    <2>2. /\ inode'[s].num = n /\ inode'[s].count = inode[s].count - 1
          /\ inode'[s].dirt = IF last THEN 0 ELSE inode[s].dirt
          /\ \A t \in Slots : t # s => inode'[t] = inode[t]
          /\ inode' \in [Slots -> Slot]
      <3> DEFINE made == [inode[s] EXCEPT !.count = @ - 1, !.dirt = IF last THEN 0 ELSE @]
      <3>1. made \in Slot /\ made.num = n /\ made.count = inode[s].count - 1
            /\ made.dirt = IF last THEN 0 ELSE inode[s].dirt
        <4>1. inode[s].count - 1 \in Nat /\ inode[s] \in Slot
          BY <1>1
        <4>2. CASE last
          BY <4>1, <4>2 DEF Slot
        <4>3. CASE ~last
          BY <4>1, <4>3 DEF Slot
        <4> QED BY <4>2, <4>3
      <3>2. inode' = [inode EXCEPT ![s] = made] /\ inode \in [Slots -> Slot]
        BY <2>1 DEF CacheInv, CacheTypes
      <3> HIDE DEF made, last
      <3> QED BY <3>1, <3>2
    <2>3. /\ dinode' \in [Numbers -> Content]
          /\ \A m \in Numbers : m # n => dinode'[m] = dinode[m]
          /\ dinode'[n] = IF last /\ inode[s].dirt = 1 THEN node[s] ELSE dinode[n]
      BY <1>2, <1>8, SyncOne DEF put_slot, CacheInv, CacheTypes
    <2>4. CacheTypes'
      BY <2>1, <2>2, <2>3 DEF CacheInv, CacheTypes
    <2>5. FreeSlots' /\ OneInode'
      BY <1>2, <2>2 DEF CacheInv, FreeSlots, OneInode
    <2>6. RootCached'
      <3>1. PICK r \in Slots : inode[r].num = ROOT_INO /\ inode[r].count >= RootUses
        BY DEF CacheInv, RootCached
      <3>2. CASE r = s
        BY <1>1, <2>2, <3>1, <3>2 DEF RootCached, Own, RootUses
      <3>3. CASE r # s
        BY <2>2, <3>1, <3>3 DEF RootCached
      <3> QED BY <3>2, <3>3
    <2>7. Latest'
      <3>1. ASSUME NEW t \in Slots, inode'[t].num # NULL
            PROVE  /\ latest[inode'[t].num] = node'[t]
                   /\ inode'[t].dirt = 0 => node'[t] = dinode'[inode'[t].num]
        <4>1. CASE t = s
          BY <1>1, <1>2, <1>3, <2>1, <2>2, <2>3, <4>1 DEF CacheInv, Latest, Slot
        <4>2. CASE t # s
          <5>1. inode'[t] = inode[t] /\ inode[t].num # n /\ inode[t].num \in Numbers
            BY <1>6, <2>2, <3>1, <4>2 DEF CacheInv, CacheTypes, Slot
          <5> QED BY <2>1, <2>3, <3>1, <5>1 DEF CacheInv, Latest
        <4> QED BY <4>1, <4>2
      <3>2. ASSUME NEW m \in imap, \A t \in Slots : inode'[t].num # m
            PROVE  latest[m] = dinode'[m]
        <4>1. m # n /\ m \in Numbers /\ \A t \in Slots : inode[t].num # m
          BY <2>2, <3>2 DEF CacheInv, CacheTypes
        <4> QED BY <2>3, <4>1 DEF CacheInv, Latest
      <3> QED BY <2>1, <3>1, <3>2 DEF Latest
    <2>8. Links'
      <3>1. inode[s].count = 1 => n \in Named
        <4>1. node[s].nlinks \in {0, 1}
          BY DEF CacheInv, CacheTypes, Content
        <4> QED BY <1>2, <1>3, <1>8, <4>1 DEF CacheInv, Links
      <3>2. imap = Named \cup {inode'[t].num : t \in {u \in Slots : inode'[u].count > 0}}
        BY <1>1, <1>5, <2>2, <3>1
      <3>3. \A t \in Slots : inode'[t].num # NULL => inode'[t].num \in imap
        BY <2>2 DEF CacheInv, Links
      <3> QED BY <1>4, <2>1, <3>2, <3>3 DEF CacheInv, Links
    <2> QED BY <2>2, <2>4, <2>5, <2>6, <2>7, <2>8 DEF CacheInv
  <1> QED BY <1>7, <1>8

(* An inode changes in its slot: the slot is dirty, and what its users     *)
(* have last written is what it holds.                                     *)
LEMMA Write ==
    ASSUME CacheInv, NEW s \in Slots, inode[s].count > 0, NEW c \in Content,
           inode' = [inode EXCEPT ![s].dirt = 1], node' = [node EXCEPT ![s] = c],
           latest' = [latest EXCEPT ![inode[s].num] = c],
           c.nlinks = node[s].nlinks, c.mode = node[s].mode,
           UNCHANGED <<last_inode, dinode, imap, dir>>
    PROVE  CacheInv'
  <1> DEFINE n == inode[s].num
  <1>1. inode[s] \in Slot /\ inode[s].count \in Nat /\ n # NULL /\ n \in Numbers /\ n \in imap
    BY InUse DEF CacheInv, CacheTypes, Slot
  <1>2. \A t \in Slots : inode[t].num = n => t = s
    BY <1>1 DEF CacheInv, OneInode
  <1>3. /\ inode' \in [Slots -> Slot] /\ inode'[s].dirt = 1
        /\ \A t \in Slots : inode'[t].num = inode[t].num /\ inode'[t].count = inode[t].count
        /\ \A t \in Slots : t # s => inode'[t] = inode[t]
    BY DEF CacheInv, CacheTypes, Slot
  <1>4. /\ node' \in [Slots -> Content] /\ node'[s] = c
        /\ \A t \in Slots : t # s => node'[t] = node[t]
    BY DEF CacheInv, CacheTypes
  <1>5. /\ latest' \in [Numbers -> Content] /\ latest'[n] = c
        /\ \A m \in Numbers : m # n => latest'[m] = latest[m]
    BY <1>1 DEF CacheInv, CacheTypes
  <1>6. latest[n] = node[s]
    BY <1>1 DEF CacheInv, Latest
  <1>7. CacheTypes'
    BY <1>3, <1>4, <1>5 DEF CacheInv, CacheTypes
  <1>8. FreeSlots' /\ OneInode' /\ RootCached'
    BY <1>1, <1>3 DEF CacheInv, FreeSlots, OneInode, RootCached
  <1>9. Latest'
    <2>1. ASSUME NEW t \in Slots, inode'[t].num # NULL
          PROVE  /\ latest'[inode'[t].num] = node'[t]
                 /\ inode'[t].dirt = 0 => node'[t] = dinode[inode'[t].num]
      <3>1. CASE t = s
        BY <1>3, <1>4, <1>5, <3>1
      <3>2. CASE t # s
        <4>1. inode'[t] = inode[t] /\ node'[t] = node[t] /\ inode[t].num # n
              /\ inode[t].num \in Numbers
          BY <1>2, <1>3, <1>4, <2>1, <3>2 DEF CacheInv, CacheTypes, Slot
        <4> QED BY <1>5, <2>1, <4>1 DEF CacheInv, Latest
      <3> QED BY <3>1, <3>2
    <2>2. ASSUME NEW m \in imap, \A t \in Slots : inode'[t].num # m
          PROVE  latest'[m] = dinode[m]
      <3>1. m # n /\ m \in Numbers /\ \A t \in Slots : inode[t].num # m
        BY <1>3, <2>2 DEF CacheInv, CacheTypes
      <3> QED BY <1>5, <3>1 DEF CacheInv, Latest
    <2> QED BY <2>1, <2>2 DEF Latest
  <1>10. Links'
    <2>1. Named' = Named
      BY DEF Named
    <2>2. \A m \in Numbers : latest'[m].nlinks = latest[m].nlinks /\ latest'[m].mode = latest[m].mode
      BY <1>5, <1>6
    <2>3. imap = Named \cup {inode'[t].num : t \in {u \in Slots : inode'[u].count > 0}}
      <3>1. imap = Named \cup {inode[t].num : t \in {u \in Slots : inode[u].count > 0}}
        BY DEF CacheInv, Links
      <3> QED BY <1>3, <3>1
    <2>4. imap \subseteq Numbers /\ ROOT_INO \in Numbers
      BY NamedIn
    <2> QED BY <1>3, <2>1, <2>2, <2>3, <2>4 DEF CacheInv, Links
  <1> QED BY <1>7, <1>8, <1>9, <1>10 DEF CacheInv

(* The last name of a file goes: the inode stays allocated while in use. *)
LEMMA Unlink ==
    ASSUME CInv, NEW s \in Slots, unlink(s)
    PROVE  CacheInv'
  <1> DEFINE n == inode[s].num
             c == [node[s] EXCEPT !.nlinks = 0]
  <1>1. inode[s].count > 0 /\ inode[s] \in Slot
    <2>1. /\ refs[s] \in Nat /\ leaked[s] \in Nat /\ refs[s] > 0
          /\ Own(s) \in Nat /\ AtRefs(s) \in Nat /\ OldRefs(s) \in Nat
      BY DEF unlink, CInv, RefTypes, Own, AtRefs, OldRefs, RootUses
    <2>2. inode[s].count = Own(s) + refs[s] + leaked[s] + AtRefs(s) + OldRefs(s)
      BY DEF CInv, Counts
    <2>3. inode[s] \in Slot
      BY DEF CInv, CacheInv, CacheTypes
    <2> QED BY <2>1, <2>2, <2>3
  <1>2. n # NULL /\ n \in Numbers /\ n \in imap /\ inode[s].count \in Nat
    BY <1>1, InUse DEF CInv, Slot
  <1>3. \A t \in Slots : inode[t].num = n => t = s
    BY <1>2 DEF CInv, CacheInv, OneInode
  <1>4. latest[n] = node[s] /\ n # ROOT_INO
    BY <1>2 DEF CInv, CacheInv, Latest, Links, unlink
  <1>5. c \in Content /\ c.nlinks = 0
    <2>1. node[s] \in Content
      BY DEF CInv, CacheInv, CacheTypes
    <2> QED BY <2>1 DEF Content
  <1>6. /\ inode' \in [Slots -> Slot] /\ inode'[s].dirt = 1
        /\ \A t \in Slots : inode'[t].num = inode[t].num /\ inode'[t].count = inode[t].count
        /\ \A t \in Slots : t # s => inode'[t] = inode[t]
    BY DEF CInv, CacheInv, CacheTypes, Slot, unlink
  <1>7. /\ node' \in [Slots -> Content] /\ node'[s] = c
        /\ \A t \in Slots : t # s => node'[t] = node[t]
    <2>1. node' = [node EXCEPT ![s] = c]
      BY DEF unlink
    <2> HIDE DEF c
    <2> QED BY <1>5, <2>1 DEF CInv, CacheInv, CacheTypes
  <1>8. /\ latest' \in [Numbers -> Content] /\ latest'[n] = c
        /\ \A m \in Numbers : m # n => latest'[m] = latest[m]
    <2>1. latest' = [latest EXCEPT ![n] = c]
      BY <1>7 DEF unlink
    <2> HIDE DEF c
    <2> QED BY <1>2, <1>5, <2>1 DEF CInv, CacheInv, CacheTypes
  <1>9. /\ dir' = [d \in Numbers |-> dir[d] \ {n}]
        /\ UNCHANGED <<last_inode, dinode, imap>>
    BY DEF unlink
  <1> HIDE DEF c
  <1>10. CacheTypes'
    BY <1>6, <1>7, <1>8, <1>9 DEF CInv, CacheInv, CacheTypes
  <1>11. FreeSlots' /\ OneInode' /\ RootCached'
    BY <1>2, <1>6 DEF CInv, CacheInv, FreeSlots, OneInode, RootCached
  <1>12. Latest'
    <2>1. ASSUME NEW t \in Slots, inode'[t].num # NULL
          PROVE  /\ latest'[inode'[t].num] = node'[t]
                 /\ inode'[t].dirt = 0 => node'[t] = dinode[inode'[t].num]
      <3>1. CASE t = s
        BY <1>6, <1>7, <1>8, <3>1
      <3>2. CASE t # s
        <4>1. inode'[t] = inode[t] /\ node'[t] = node[t] /\ inode[t].num # n
              /\ inode[t].num \in Numbers
          BY <1>3, <1>6, <1>7, <2>1, <3>2 DEF CInv, CacheInv, CacheTypes, Slot
        <4> QED BY <1>8, <2>1, <4>1 DEF CInv, CacheInv, Latest
      <3> QED BY <3>1, <3>2
    <2>2. ASSUME NEW m \in imap, \A t \in Slots : inode'[t].num # m
          PROVE  latest'[m] = dinode[m]
      <3>1. m # n /\ m \in Numbers /\ \A t \in Slots : inode[t].num # m
        BY <1>6, <2>2 DEF CInv, CacheInv, CacheTypes
      <3> QED BY <1>8, <3>1 DEF CInv, CacheInv, Latest
    <2> QED BY <1>9, <2>1, <2>2 DEF Latest
  <1>13. Links'
    <2>1. Named' = Named \ {n}
      BY <1>4, <1>9 DEF Named
    <2>2. \A m \in imap : latest'[m].nlinks = 1 <=> m \in Named'
      <3>1. ASSUME NEW m \in imap PROVE latest'[m].nlinks = 1 <=> m \in Named'
        <4>1. CASE m = n
          BY <1>5, <1>8, <2>1, <4>1
        <4>2. CASE m # n
          <5>1. m \in Numbers
            BY DEF CInv, CacheInv, CacheTypes
          <5> QED BY <1>8, <2>1, <4>2, <5>1 DEF CInv, CacheInv, Links
        <4> QED BY <4>1, <4>2
      <3> QED BY <3>1
    <2>3. imap = Named' \cup {inode'[t].num : t \in {u \in Slots : inode'[u].count > 0}}
      <3>1. imap = Named \cup {inode[t].num : t \in {u \in Slots : inode[u].count > 0}}
        BY DEF CInv, CacheInv, Links
      <3> QED BY <1>1, <1>6, <2>1, <3>1
    <2>4. ROOT_INO \in Numbers
      BY NamedIn DEF CInv
    <2> QED BY <1>4, <1>6, <1>8, <1>9, <2>2, <2>3, <2>4 DEF CInv, CacheInv, Links
  <1> QED BY <1>10, <1>11, <1>12, <1>13 DEF CacheInv

-----------------------------------------------------------------------------
(* create_inode_by_name: the directory may grow, and then either a new     *)
(* inode takes a slot or, were its number cached already, none does.       *)
LEMMA GrowDirectory ==
    ASSUME CacheInv, NEW d \in Slots, inode[d].count > 0, NEW grows \in BOOLEAN
    PROVE  /\ Grown(d, grows) \in Content
           /\ Grown(d, grows).nlinks = node[d].nlinks /\ Grown(d, grows).mode = node[d].mode
           /\ ~grows => Grown(d, grows) = node[d]
  <1>1. node[d] \in Content
    BY DEF CacheInv, CacheTypes
  <1>2. CASE grows
    BY <1>1, <1>2 DEF Grown, Content
  <1>3. CASE ~grows
    BY <1>1, <1>3 DEF Grown
  <1> QED BY <1>2, <1>3

LEMMA FreeNumber ==
    ASSUME CacheInv, add_inode_bitmap # NULL
    PROVE  add_inode_bitmap \in Numbers /\ add_inode_bitmap \notin imap
  <1> DEFINE zero == Numbers \ imap
  <1>1. zero # {}
    BY DEF add_inode_bitmap
  <1>2. zero \in SUBSET Nat
    BY Sizes
  <1>3. \E m \in zero : \A t \in zero : m <= t
    BY <1>1, <1>2, LeastExists
  <1>4. Min(zero) \in zero
    BY <1>3 DEF Min
  <1> QED BY <1>1, <1>4 DEF add_inode_bitmap

(* No number that is not allocated is cached: the second outcome, which    *)
(* would leave the bit set, does not occur.                                *)
LEMMA FreeIsUncached ==
    ASSUME CacheInv, NEW n \in Numbers, n \notin imap
    PROVE  find_inode(n) = NULL /\ \A t \in Slots : inode[t].num # n
  <1>1. n # NULL
    BY Sizes
  <1>2. \A t \in Slots : inode[t].num # n
    BY <1>1 DEF CacheInv, Links
  <1> QED BY <1>1, <1>2, FindInode DEF CacheInv

LEMMA Create ==
    ASSUME CInv, NEW d \in Slots, NEW grows \in BOOLEAN, create_inode_by_name(d, grows)
    PROVE  LET n == add_inode_bitmap
               s == new_inode
           IN  /\ CacheInv'
               /\ s \in Slots /\ inode[s].count = 0 /\ inode'[s].count = 1
               /\ n # ROOT_INO /\ inode[s].num # ROOT_INO /\ inode'[s].num = n
               /\ \A t \in Slots : t # s => /\ inode'[t].count = inode[t].count
                                            /\ inode'[t].num = inode[t].num
               /\ refs' = [refs EXCEPT ![s] = 1]
  <1> DEFINE n == add_inode_bitmap
             s == new_inode
             m == inode[d].num
             g == Grown(d, grows)
             new == [nlinks |-> 1, mode |-> "none", version |-> 0]
  <1>0. CacheInv
    BY DEF CInv
  <1>1. n \in Numbers /\ n \notin imap /\ n # NULL
    BY <1>0, FreeNumber, Sizes DEF create_inode_by_name
  <1>2. find_inode(n) = NULL /\ \A t \in Slots : inode[t].num # n
    BY <1>0, <1>1, FreeIsUncached
  <1>3. s \in Slots /\ inode[s].count = 0
    BY <1>0, NewInode DEF create_inode_by_name, CacheInv
  <1>4. inode[d].count > 0 /\ inode[d] \in Slot
    <2>1. /\ refs[d] \in Nat /\ leaked[d] \in Nat /\ Own(d) + refs[d] > 0
          /\ Own(d) \in Nat /\ AtRefs(d) \in Nat /\ OldRefs(d) \in Nat
      BY DEF create_inode_by_name, Held, CInv, RefTypes, Own, AtRefs, OldRefs, RootUses
    <2>2. inode[d].count = Own(d) + refs[d] + leaked[d] + AtRefs(d) + OldRefs(d)
      BY DEF CInv, Counts
    <2>3. inode[d] \in Slot
      BY <1>0 DEF CacheInv, CacheTypes
    <2> QED BY <2>1, <2>2, <2>3
  <1>5. d # s /\ m # NULL /\ m \in Numbers /\ m \in imap /\ m # n
    BY <1>0, <1>1, <1>3, <1>4, InUse
  <1>6. \A t \in Slots : inode[t].num = m => t = d
    BY <1>0, <1>5 DEF CacheInv, OneInode
  <1>7. g \in Content /\ g.nlinks = node[d].nlinks /\ g.mode = node[d].mode /\ (~grows => g = node[d])
    BY <1>0, <1>4, GrowDirectory
  <1>8. latest[m] = node[d]
    BY <1>0, <1>5 DEF CacheInv, Latest
  <1>9. inode[s].num # ROOT_INO /\ n # ROOT_INO
    <2>1. inode[s].num # ROOT_INO
      BY <1>0, <1>3 DEF CacheInv, RootCached, RootUses, OneInode, ROOT_INO, NULL
    <2>2. n # ROOT_INO
      BY <1>0, <1>1, NamedIn
    <2> QED BY <2>1, <2>2
  <1>10. new \in Content
    BY DEF Content
  <1>11. /\ imap' = imap \cup {n} /\ dinode' = sync_inode_to_buff({s})
         /\ inode' = [inode EXCEPT ![d].dirt = IF grows THEN 1 ELSE @,
                                   ![s] = [num |-> n, count |-> 1, dirt |-> 1]]
         /\ node' = [node EXCEPT ![d] = g, ![s] = new]
         /\ latest' = [latest EXCEPT ![m] = g, ![n] = new]
         /\ dir' = [dir EXCEPT ![m] = @ \cup {n}]
         /\ refs' = [refs EXCEPT ![s] = 1] /\ last_inode' = Hand
    BY <1>2 DEF create_inode_by_name
  <1>12. /\ inode' \in [Slots -> Slot] /\ inode'[s] = [num |-> n, count |-> 1, dirt |-> 1]
         /\ inode'[d].num = m /\ inode'[d].count = inode[d].count
         /\ inode'[d].dirt = IF grows THEN 1 ELSE inode[d].dirt
         /\ \A t \in Slots : t # s /\ t # d => inode'[t] = inode[t]
    <2> DEFINE changed == [inode[d] EXCEPT !.dirt = IF grows THEN 1 ELSE @]
               made == [num |-> n, count |-> 1, dirt |-> 1]
    <2>1. /\ changed \in Slot /\ changed.num = m /\ changed.count = inode[d].count
          /\ changed.dirt = IF grows THEN 1 ELSE inode[d].dirt
      <3>1. CASE grows
        BY <1>4, <3>1 DEF Slot
      <3>2. CASE ~grows
        BY <1>4, <3>2 DEF Slot
      <3> QED BY <3>1, <3>2
    <2>2. made \in Slot
      BY <1>1 DEF Slot
    <2>3. inode' = [inode EXCEPT ![d] = changed, ![s] = made] /\ inode \in [Slots -> Slot]
      BY <1>0, <1>11 DEF CacheInv, CacheTypes
    <2> HIDE DEF changed, made, s, n
    <2>4. /\ inode' \in [Slots -> Slot] /\ inode'[s] = made /\ inode'[d] = changed
          /\ \A t \in Slots : t # s /\ t # d => inode'[t] = inode[t]
      BY <1>3, <1>5, <2>1, <2>2, <2>3
    <2> QED BY <2>1, <2>4 DEF made
  <1> HIDE DEF s, g, new
  <1>13. /\ node' \in [Slots -> Content] /\ node'[s] = new /\ node'[d] = g
         /\ \A t \in Slots : t # s /\ t # d => node'[t] = node[t]
    BY <1>0, <1>3, <1>5, <1>7, <1>10, <1>11 DEF CacheInv, CacheTypes
  <1>14. /\ latest' \in [Numbers -> Content] /\ latest'[n] = new /\ latest'[m] = g
         /\ \A k \in Numbers : k # n /\ k # m => latest'[k] = latest[k]
    BY <1>0, <1>1, <1>5, <1>7, <1>10, <1>11 DEF CacheInv, CacheTypes
  <1>15. /\ dinode' \in [Numbers -> Content]
         /\ \A k \in Numbers : dinode'[k] =
               IF inode[s].num = k /\ inode[s].dirt = 1 THEN node[s] ELSE dinode[k]
    BY <1>0, <1>3, <1>11, SyncOne DEF CacheInv
  <1>16. CacheTypes'
    <2>1. dir' \in [Numbers -> SUBSET Numbers] /\ imap' \subseteq Numbers
      BY <1>0, <1>1, <1>11 DEF CacheInv, CacheTypes
    <2>2. last_inode' \in Slots
      BY <1>0, <1>11, NewInode DEF CacheInv
    <2> QED BY <2>1, <2>2, <1>12, <1>13, <1>14, <1>15 DEF CacheTypes
  <1>17. \A t \in Slots : t # s => inode'[t].num = inode[t].num /\ inode'[t].count = inode[t].count
    BY <1>12
  <1>18. FreeSlots' /\ OneInode' /\ RootCached'
    <2>1. FreeSlots'
      <3> SUFFICES ASSUME NEW t \in Slots, inode'[t].num = NULL PROVE inode'[t] = FreeSlot
        BY DEF FreeSlots
      <3>1. t # s /\ t # d
        BY <1>1, <1>5, <1>12
      <3> QED BY <1>0, <1>12, <3>1 DEF CacheInv, FreeSlots
    <2>2. OneInode'
      BY <1>0, <1>2, <1>12, <1>17 DEF CacheInv, OneInode
    <2>3. RootCached'
      BY <1>0, <1>9, <1>17 DEF CacheInv, RootCached
    <2> QED BY <2>1, <2>2, <2>3
  <1>19. Latest'
    <2>1. ASSUME NEW t \in Slots, inode'[t].num # NULL
          PROVE  /\ latest'[inode'[t].num] = node'[t]
                 /\ inode'[t].dirt = 0 => node'[t] = dinode'[inode'[t].num]
      <3>1. CASE t = s
        BY <1>12, <1>13, <1>14, <3>1
      <3>2. CASE t = d
        <4>1. inode'[t].dirt = 0 => g = node[d] /\ inode[d].dirt = 0
          BY <1>7, <1>12, <3>2
        <4>2. inode[s].num # m
          BY <1>3, <1>5, <1>6
        <4>3. dinode'[m] = dinode[m]
          BY <1>5, <1>15, <4>2
        <4>4. inode[d].dirt = 0 => node[d] = dinode[m]
          BY <1>0, <1>5 DEF CacheInv, Latest
        <4> QED BY <1>12, <1>13, <1>14, <3>2, <4>1, <4>3, <4>4
      <3>3. CASE t # s /\ t # d
        <4>1. inode'[t] = inode[t] /\ node'[t] = node[t] /\ inode[t].num # NULL
          BY <1>12, <1>13, <2>1, <3>3
        <4>2. inode[t].num \in Numbers /\ inode[t].num # n /\ inode[t].num # m
          BY <1>0, <1>2, <1>6, <3>3, <4>1 DEF CacheInv, CacheTypes, Slot
        <4>3. inode[s].num # inode[t].num
          BY <1>0, <1>3, <3>3, <4>1 DEF CacheInv, OneInode
        <4> QED BY <1>0, <1>14, <1>15, <4>1, <4>2, <4>3 DEF CacheInv, Latest
      <3> QED BY <3>1, <3>2, <3>3
    <2>2. ASSUME NEW k \in imap', \A t \in Slots : inode'[t].num # k
          PROVE  latest'[k] = dinode'[k]
      <3>1. k # n /\ k # m /\ k \in imap /\ k \in Numbers /\ k # NULL
        BY <1>0, <1>3, <1>11, <1>12, <2>2, Sizes DEF CacheInv, CacheTypes
      <3>2. CASE inode[s].num = k
        <4>1. latest[k] = node[s] /\ (inode[s].dirt = 0 => node[s] = dinode[k])
          BY <1>0, <1>3, <3>1, <3>2 DEF CacheInv, Latest
        <4>2. inode[s].dirt \in {0, 1}
          BY <1>0, <1>3 DEF CacheInv, CacheTypes, Slot
        <4> QED BY <1>14, <1>15, <3>1, <3>2, <4>1, <4>2
      <3>3. CASE inode[s].num # k
        <4>1. \A t \in Slots : inode[t].num # k
          BY <1>17, <2>2, <3>3
        <4>2. latest[k] = dinode[k]
          BY <1>0, <3>1, <4>1 DEF CacheInv, Latest
        <4> QED BY <1>14, <1>15, <3>1, <3>3, <4>2
      <3> QED BY <3>2, <3>3
    <2> QED BY <2>1, <2>2 DEF Latest
  <1>20. Links'
    <2>1. Named' = Named \cup {n}
      BY <1>0, <1>5, <1>11 DEF Named, CacheInv, CacheTypes
    <2>2. \A k \in imap' : latest'[k].nlinks = 1 <=> k \in Named'
      <3>1. ASSUME NEW k \in imap' PROVE latest'[k].nlinks = 1 <=> k \in Named'
        <4>1. CASE k = n
          BY <1>14, <2>1, <4>1 DEF new
        <4>2. CASE k # n
          <5>1. k \in imap /\ k \in Numbers
            BY <1>0, <1>11, <4>2 DEF CacheInv, CacheTypes
          <5>2. latest'[k].nlinks = latest[k].nlinks
            BY <1>7, <1>8, <1>14, <4>2, <5>1
          <5> QED BY <1>0, <2>1, <4>2, <5>1, <5>2 DEF CacheInv, Links
        <4> QED BY <4>1, <4>2
      <3> QED BY <3>1
    <2>3. \A t \in Slots : inode'[t].num # NULL => inode'[t].num \in imap'
      BY <1>0, <1>11, <1>12, <1>17 DEF CacheInv, Links
    <2>4. imap' = Named' \cup {inode'[t].num : t \in {u \in Slots : inode'[u].count > 0}}
      <3>1. imap = Named \cup {inode[t].num : t \in {u \in Slots : inode[u].count > 0}}
        BY <1>0 DEF CacheInv, Links
      <3>2. inode'[s].num = n /\ inode'[s].count = 1
        BY <1>12
      <3>3. \A t \in Slots : t # s => inode'[t].num = inode[t].num /\ inode'[t].count = inode[t].count
        BY <1>17
      <3> HIDE DEF n
      <3>4. {inode'[t].num : t \in {u \in Slots : inode'[u].count > 0}}
               = {inode[t].num : t \in {u \in Slots : inode[u].count > 0}} \cup {n}
        BY <1>3, <3>2, <3>3
      <3> QED BY <1>11, <2>1, <3>1, <3>4
    <2>5. latest'[ROOT_INO].mode = "dir"
      <3>1. ROOT_INO \in Numbers /\ latest[ROOT_INO].mode = "dir"
        BY <1>0, NamedIn DEF CacheInv, Links
      <3> QED BY <1>7, <1>8, <1>9, <1>14, <3>1
    <2> QED BY <2>2, <2>3, <2>4, <2>5 DEF Links
  <1>21. CacheInv'
    BY <1>16, <1>18, <1>19, <1>20 DEF CacheInv
  <1>22. inode'[s].count = 1 /\ inode'[s].num = n
    BY <1>12
  <1> QED BY <1>3, <1>9, <1>11, <1>17, <1>21, <1>22 DEF s

-----------------------------------------------------------------------------
(* sync_all_inodes_to_buff: every dirty inode is written. *)
LEMMA SyncAll ==
    ASSUME CacheInv, sync_all_inodes_to_buff
    PROVE  CacheInv' /\ \A t \in Slots : /\ inode'[t].count = inode[t].count
                                         /\ inode'[t].num = inode[t].num
  <1>1. /\ dinode' = sync_inode_to_buff(Slots)
        /\ inode' = [s \in Slots |-> [inode[s] EXCEPT !.dirt = 0]]
        /\ UNCHANGED <<node, last_inode, imap, dir, latest>>
    BY DEF sync_all_inodes_to_buff
  <1>2. ASSUME NEW t \in Slots
        PROVE  /\ inode'[t] \in Slot /\ inode'[t].count = inode[t].count
               /\ inode'[t].num = inode[t].num /\ inode'[t].dirt = 0
    <2>1. inode[t] \in Slot
      BY DEF CacheInv, CacheTypes
    <2> QED BY <1>1, <2>1 DEF Slot
  <1>3. inode' \in [Slots -> Slot]
    BY <1>1, <1>2
  <1>4. ASSUME NEW n \in Numbers
        PROVE  /\ dinode'[n] \in Content
               /\ (\A s \in Slots : inode[s].num # n) => dinode'[n] = dinode[n]
               /\ \A s \in Slots : inode[s].num = n => dinode'[n] = node[s]
    <2> DEFINE dirty(s) == inode[s].num = n /\ inode[s].dirt = 1
    <2>1. dinode'[n] = IF \E s \in Slots : dirty(s) THEN node[CHOOSE s \in Slots : dirty(s)]
                       ELSE dinode[n]
      BY <1>1 DEF sync_inode_to_buff
    <2>2. n # NULL
      BY Sizes
    <2>3. CASE \E s \in Slots : dirty(s)
      <3>1. PICK s \in Slots : dirty(s)
        BY <2>3
      <3>2. \A t \in Slots : inode[t].num = n => t = s
        BY <2>2, <3>1 DEF CacheInv, OneInode
      <3>3. (CHOOSE t \in Slots : dirty(t)) = s
        <4>1. (CHOOSE t \in Slots : dirty(t)) \in Slots /\ dirty(CHOOSE t \in Slots : dirty(t))
          BY <2>3
        <4> QED BY <3>2, <4>1
      <3>4. dinode'[n] = node[s]
        BY <2>1, <2>3, <3>3
      <3> QED BY <3>1, <3>2, <3>4 DEF CacheInv, CacheTypes
    <2>4. CASE ~\E s \in Slots : dirty(s)
      <3>1. dinode'[n] = dinode[n]
        BY <2>1, <2>4
      <3>2. ASSUME NEW s \in Slots, inode[s].num = n PROVE node[s] = dinode[n]
        <4>1. inode[s].dirt = 0
          BY <2>4, <3>2 DEF CacheInv, CacheTypes, Slot
        <4> QED BY <2>2, <3>2, <4>1 DEF CacheInv, Latest
      <3> QED BY <3>1, <3>2 DEF CacheInv, CacheTypes
    <2> QED BY <2>3, <2>4
  <1>5. dinode' \in [Numbers -> Content]
    <2>1. dinode' = [n \in Numbers |-> dinode'[n]]
      BY <1>1 DEF sync_inode_to_buff
    <2> QED BY <1>4, <2>1
  <1>6. CacheTypes'
    BY <1>1, <1>3, <1>5 DEF CacheInv, CacheTypes
  <1>7. FreeSlots' /\ OneInode' /\ RootCached'
    <2>1. FreeSlots'
      <3> SUFFICES ASSUME NEW t \in Slots, inode'[t].num = NULL PROVE inode'[t] = FreeSlot
        BY DEF FreeSlots
      <3>1. inode[t] = FreeSlot
        BY <1>2 DEF CacheInv, FreeSlots
      <3> QED BY <1>1, <3>1 DEF FreeSlot
    <2> QED BY <1>2, <2>1 DEF CacheInv, OneInode, RootCached
  <1>8. Latest'
    <2>1. ASSUME NEW t \in Slots, inode'[t].num # NULL
          PROVE  latest[inode'[t].num] = node[t] /\ node[t] = dinode'[inode'[t].num]
      <3>1. inode[t].num \in Numbers /\ inode'[t].num = inode[t].num
        BY <1>2, <2>1 DEF CacheInv, CacheTypes, Slot
      <3> QED BY <1>4, <2>1, <3>1 DEF CacheInv, Latest
    <2>2. ASSUME NEW n \in imap, \A s \in Slots : inode'[s].num # n PROVE latest[n] = dinode'[n]
      <3>1. n \in Numbers /\ \A s \in Slots : inode[s].num # n
        BY <1>2, <2>2 DEF CacheInv, CacheTypes
      <3> QED BY <1>4, <3>1 DEF CacheInv, Latest
    <2> QED BY <1>1, <2>1, <2>2 DEF Latest
  <1>9. Links'
    <2>1. Named' = Named
      BY <1>1 DEF Named
    <2>2. imap = Named \cup {inode'[t].num : t \in {u \in Slots : inode'[u].count > 0}}
      <3>1. imap = Named \cup {inode[t].num : t \in {u \in Slots : inode[u].count > 0}}
        BY DEF CacheInv, Links
      <3> QED BY <1>2, <3>1
    <2> QED BY <1>1, <1>2, <2>1, <2>2 DEF CacheInv, Links
  <1> QED BY <1>2, <1>6, <1>7, <1>8, <1>9 DEF CacheInv

LEMMA Nothing ==
    ASSUME CacheInv, UNCHANGED <<inode, node, last_inode, dinode, imap, dir, latest>>
    PROVE  CacheInv'
  <1>1. Named' = Named
    BY DEF Named
  <1> QED BY <1>1 DEF CacheInv, CacheTypes, FreeSlots, OneInode, RootCached, Latest, Links

(* One more reference to a slot that has one. *)
LEMMA Again ==
    ASSUME CacheInv, NEW s \in Slots, inode[s].count > 0,
           inode' = [inode EXCEPT ![s].count = @ + 1],
           UNCHANGED <<node, last_inode, dinode, imap, dir, latest>>
    PROVE  CacheInv'
  <1>1. inode \in [Slots -> Slot] /\ \A t \in Slots : inode[t].count \in Nat
    BY DEF CacheInv, CacheTypes, Slot
  <1>2. /\ inode' \in [Slots -> Slot]
        /\ \A t \in Slots : inode'[t].num = inode[t].num /\ inode'[t].dirt = inode[t].dirt
        /\ \A t \in Slots : t # s => inode'[t] = inode[t]
        /\ inode'[s].count = inode[s].count + 1
    BY <1>1 DEF Slot
  <1>3. CacheTypes' /\ Latest'
    BY <1>2 DEF CacheInv, CacheTypes, Latest
  <1>4. FreeSlots' /\ OneInode' /\ RootCached'
    <2>1. inode[s].num # NULL
      BY InUse
    <2> QED BY <1>1, <1>2, <2>1 DEF CacheInv, FreeSlots, OneInode, RootCached, RootUses
  <1>5. Links'
    <2>1. Named' = Named
      BY DEF Named
    <2>2. imap = Named \cup {inode'[t].num : t \in {u \in Slots : inode'[u].count > 0}}
      <3>1. imap = Named \cup {inode[t].num : t \in {u \in Slots : inode[u].count > 0}}
        BY DEF CacheInv, Links
      <3> QED BY <1>1, <1>2, <3>1
    <2> QED BY <1>2, <2>1, <2>2 DEF CacheInv, Links
  <1> QED BY <1>3, <1>4, <1>5 DEF CacheInv

-----------------------------------------------------------------------------
(* The references: what a step gives to one slot it takes from a holder.   *)
SameRoot == \A t \in Slots : inode'[t].num = ROOT_INO <=> inode[t].num = ROOT_INO
Added(s, k) == \A t \in Slots : inode'[t].count = inode[t].count + (IF t = s THEN k ELSE 0)

LEMMA CountTypes ==
    ASSUME CInv, NEW t \in Slots
    PROVE  /\ inode[t].count \in Nat /\ Own(t) \in {0, RootUses} /\ Own(t) \in Nat
           /\ refs[t] \in Nat /\ leaked[t] \in Nat /\ AtRefs(t) \in {0, 1} /\ OldRefs(t) \in {0, 1}
           /\ inode[t].count = Own(t) + refs[t] + leaked[t] + AtRefs(t) + OldRefs(t)
BY DEF CInv, CacheInv, CacheTypes, Slot, RefTypes, Own, AtRefs, OldRefs, RootUses, Counts

LEMMA IdleUnreferenced ==
    ASSUME CInv, NEW t \in Slots, inode[t].count = 0
    PROVE  Own(t) = 0 /\ leaked[t] = 0 /\ AtRefs(t) = 0 /\ OldRefs(t) = 0
  <1> DEFINE a == Own(t)
             r == refs[t]
             l == leaked[t]
             p == AtRefs(t)
             q == OldRefs(t)
  <1>1. a \in Nat /\ r \in Nat /\ l \in Nat /\ p \in Nat /\ q \in Nat
    BY CountTypes
  <1>2. a + r + l + p + q = 0
    BY CountTypes
  <1> HIDE DEF a, r, l, p, q
  <1>3. a = 0 /\ l = 0 /\ p = 0 /\ q = 0
    BY <1>1, <1>2
  <1> QED BY <1>3 DEF a, l, p, q

LEMMA OwnSame == ASSUME SameRoot, NEW t \in Slots PROVE Own(t)' = Own(t)
BY DEF SameRoot, Own

LEMMA Read ==
    ASSUME CInv, NEW n \in Named, NEW s \in Slots, retain_inode(n, s) \/ get_inode(n, s),
           UNCHANGED <<imap, dir, latest>>
    PROVE  CacheInv' /\ SameRoot /\ Added(s, 1)
  <1>1. \A t \in Slots : inode[t].count \in Nat
    BY CountTypes
  <1>2. inode \in [Slots -> Slot] /\ CacheInv
    BY DEF CInv, CacheInv, CacheTypes
  <1>3. CASE retain_inode(n, s)
    <2>1. CacheInv' /\ inode' = [inode EXCEPT ![s].count = @ + 1]
      BY <1>2, <1>3, ReadCached
    <2> QED BY <1>1, <1>2, <2>1 DEF SameRoot, Added, Slot
  <1>4. CASE get_inode(n, s)
    <2>1. /\ CacheInv' /\ inode[s].count = 0 /\ inode[s].num # ROOT_INO /\ n # ROOT_INO
          /\ inode' = [inode EXCEPT ![s] = [num |-> n, count |-> 1, dirt |-> 0]]
      BY <1>2, <1>4, ReadNew
    <2> QED BY <1>1, <1>2, <2>1 DEF SameRoot, Added
  <1> QED BY <1>3, <1>4

LEMMA Put ==
    ASSUME CInv, NEW s \in Slots, refs[s] > 0 \/ walk.old = s, put_slot(s), UNCHANGED <<dir, latest>>
    PROVE  CacheInv' /\ SameRoot /\ Added(s, -1)
  <1>1. inode[s].count > Own(s)
    BY CountTypes DEF OldRefs
  <1>2. CacheInv
    BY DEF CInv
  <1>3. /\ CacheInv' /\ \A t \in Slots : t # s => inode'[t] = inode[t]
        /\ inode'[s].count = inode[s].count - 1
        /\ inode'[s].num # inode[s].num => inode'[s].num = NULL /\ inode[s].num # ROOT_INO
    BY <1>1, <1>2, PutSlot
  <1>4. \A t \in Slots : inode[t].count \in Nat
    BY CountTypes
  <1> QED BY <1>3, <1>4 DEF SameRoot, Added, NULL, ROOT_INO

LEMMA Holder == ASSUME CInv, NEW s \in Slots, Held(s) PROVE inode[s].count > 0
BY CountTypes DEF Held

LEMMA InitCInv == Init => CInv
  <1> SUFFICES ASSUME Init PROVE CInv
    OBVIOUS
  <1>1. 2 \in Slots /\ ROOT_INO \in Numbers
    BY InodeAssumption DEF Slots, Numbers, ROOT_INO
  <1>2. /\ \A s \in Slots : inode[s] = IF s = 2 THEN [num |-> ROOT_INO, count |-> RootUses, dirt |-> 0]
                                       ELSE FreeSlot
        /\ \A s \in Slots : node[s] = IF s = 2 THEN dinode0[ROOT_INO] ELSE Cleared
    BY DEF Init
  <1>3. inode \in [Slots -> Slot]
    BY <1>1 DEF Init, Slot, FreeSlot, RootUses
  <1>4. Named = imap /\ imap \subseteq Numbers
    BY <1>1, InodeAssumption DEF Init, Named
  <1>5. node \in [Slots -> Content]
    BY <1>1, InodeAssumption DEF Init, Cleared, Content
  <1>6. CacheTypes
    BY <1>1, <1>3, <1>4, <1>5, InodeAssumption DEF Init, CacheTypes
  <1>7. FreeSlots /\ OneInode /\ RootCached
    BY <1>1, <1>2 DEF FreeSlots, OneInode, RootCached, FreeSlot, RootUses, ROOT_INO, NULL
  <1>8. Latest
    BY <1>1, <1>2 DEF Latest, FreeSlot, Init
  <1>9. Links
    <2>1. \A n \in imap : latest[n].nlinks = 1
      BY <1>4, InodeAssumption DEF Init
    <2>2. {inode[s].num : s \in {t \in Slots : inode[t].count > 0}} = {ROOT_INO}
      <3>1. \A t \in Slots : inode[t].count > 0 <=> t = 2
        BY <1>2 DEF FreeSlot, RootUses
      <3>2. inode[2].num = ROOT_INO
        BY <1>1, <1>2
      <3> QED BY <1>1, <3>1, <3>2
    <2>3. ROOT_INO \in imap
      BY <1>4 DEF Named
    <2>4. latest[ROOT_INO].mode = "dir"
      BY InodeAssumption DEF Init
    <2> QED BY <1>2, <1>4, <2>1, <2>2, <2>3, <2>4 DEF Links, FreeSlot
  <1>10. RefTypes /\ WalkOK
    BY DEF Init, RefTypes, WalkOK, Walk, NoWalk, IndexOrNull
  <1>11. Counts
    BY <1>2, Sizes DEF Init, Counts, Own, AtRefs, OldRefs, NoWalk, FreeSlot, RootUses, ROOT_INO, NULL
  <1> QED BY <1>6, <1>7, <1>8, <1>9, <1>10, <1>11 DEF CInv, CacheInv

-----------------------------------------------------------------------------
(* Every action. *)

LEMMA StepRead ==
    ASSUME CInv, NEW n \in Numbers, NEW s \in Slots, read_inode(n, s)
    PROVE  CInv'
  <1>1. CacheInv' /\ SameRoot /\ Added(s, 1)
    BY Read DEF read_inode
  <1>2. refs' = [refs EXCEPT ![s] = @ + 1] /\ UNCHANGED <<leaked, walk, pc>>
    BY DEF read_inode
  <1>3. RefTypes' /\ WalkOK'
    BY <1>2 DEF CInv, RefTypes, WalkOK
  <1>4. Counts'
    <2>1. ASSUME NEW t \in Slots
          PROVE  inode'[t].count = Own(t)' + refs'[t] + leaked'[t] + AtRefs(t)' + OldRefs(t)'
      <3>1. refs'[t] = refs[t] + (IF t = s THEN 1 ELSE 0)
        BY <1>2 DEF CInv, RefTypes
      <3>2. AtRefs(t)' = AtRefs(t) /\ OldRefs(t)' = OldRefs(t)
        BY <1>2 DEF AtRefs, OldRefs
      <3> QED BY <1>1, <1>2, <3>1, <3>2, CountTypes, OwnSame DEF Added
    <2> QED BY <2>1 DEF Counts
  <1> QED BY <1>1, <1>3, <1>4 DEF CInv

LEMMA StepPut ==
    ASSUME CInv, NEW s \in Slots, put_inode(s)
    PROVE  CInv'
  <1>1. CacheInv' /\ SameRoot /\ Added(s, -1)
    BY Put DEF put_inode
  <1>2. refs' = [refs EXCEPT ![s] = @ - 1] /\ refs[s] > 0 /\ UNCHANGED <<leaked, walk, pc>>
    BY DEF put_inode
  <1>3. RefTypes' /\ WalkOK'
    BY <1>2 DEF CInv, RefTypes, WalkOK
  <1>4. Counts'
    <2>1. ASSUME NEW t \in Slots
          PROVE  inode'[t].count = Own(t)' + refs'[t] + leaked'[t] + AtRefs(t)' + OldRefs(t)'
      <3>1. refs'[t] = refs[t] - (IF t = s THEN 1 ELSE 0)
        BY <1>2 DEF CInv, RefTypes
      <3>2. AtRefs(t)' = AtRefs(t) /\ OldRefs(t)' = OldRefs(t)
        BY <1>2 DEF AtRefs, OldRefs
      <3> QED BY <1>1, <1>2, <3>1, <3>2, CountTypes, OwnSame DEF Added
    <2> QED BY <2>1 DEF Counts
  <1> QED BY <1>1, <1>3, <1>4 DEF CInv

LEMMA StepCreate ==
    ASSUME CInv, NEW d \in Slots, NEW grows \in BOOLEAN, create_inode_by_name(d, grows)
    PROVE  CInv'
  <1> DEFINE s == new_inode
             n == add_inode_bitmap
  <1>1. /\ CacheInv'
        /\ s \in Slots /\ inode[s].count = 0 /\ inode'[s].count = 1
        /\ n # ROOT_INO /\ inode[s].num # ROOT_INO /\ inode'[s].num = n
        /\ \A t \in Slots : t # s => inode'[t].count = inode[t].count /\ inode'[t].num = inode[t].num
        /\ refs' = [refs EXCEPT ![s] = 1]
    BY Create
  <1>2. UNCHANGED <<leaked, walk, pc>>
    BY DEF create_inode_by_name
  <1> HIDE DEF s, n
  <1>3. RefTypes' /\ WalkOK'
    BY <1>1, <1>2 DEF CInv, RefTypes, WalkOK
  <1>4. SameRoot
    BY <1>1 DEF SameRoot
  <1>5. Counts'
    <2>1. ASSUME NEW t \in Slots
          PROVE  inode'[t].count = Own(t)' + refs'[t] + leaked'[t] + AtRefs(t)' + OldRefs(t)'
      <3>1. AtRefs(t)' = AtRefs(t) /\ OldRefs(t)' = OldRefs(t) /\ Own(t)' = Own(t)
        BY <1>2, <1>4, OwnSame DEF AtRefs, OldRefs
      <3>2. CASE t = s
        <4>1. refs'[t] = 1
          BY <1>1, <3>2 DEF CInv, RefTypes
        <4>2. Own(t) = 0 /\ leaked[t] = 0 /\ AtRefs(t) = 0 /\ OldRefs(t) = 0
          BY <1>1, <3>2, IdleUnreferenced
        <4> QED BY <1>1, <1>2, <3>1, <3>2, <4>1, <4>2
      <3>3. CASE t # s
        <4>1. refs'[t] = refs[t]
          BY <1>1, <3>3 DEF CInv, RefTypes
        <4> QED BY <1>1, <1>2, <3>1, <3>3, <4>1, CountTypes
      <3> QED BY <3>2, <3>3
    <2> QED BY <2>1 DEF Counts
  <1> QED BY <1>1, <1>3, <1>5 DEF CInv

(* The steps that change no reference. *)
LEMMA StepContent ==
    ASSUME CInv, CacheInv', SameRoot, \A t \in Slots : inode'[t].count = inode[t].count,
           UNCHANGED <<refs, leaked, walk>>, WalkOK'
    PROVE  CInv'
  <1>1. Counts'
    <2>1. ASSUME NEW t \in Slots
          PROVE  inode'[t].count = Own(t)' + refs'[t] + leaked'[t] + AtRefs(t)' + OldRefs(t)'
      <3>1. AtRefs(t)' = AtRefs(t) /\ OldRefs(t)' = OldRefs(t) /\ Own(t)' = Own(t)
        BY OwnSame DEF AtRefs, OldRefs
      <3> QED BY <3>1, CountTypes
    <2> QED BY <2>1 DEF Counts
  <1>2. RefTypes'
    BY DEF CInv, RefTypes
  <1> QED BY <1>1, <1>2 DEF CInv

LEMMA StepFull ==
    ASSUME CInv, NEW d \in Slots, NEW grows \in BOOLEAN, create_inode_full(d, grows)
    PROVE  CInv'
  <1> DEFINE g == Grown(d, grows)
  <1>1. CacheInv /\ inode[d].count > 0
    BY Holder DEF create_inode_full, CInv
  <1>2. g \in Content /\ g.nlinks = node[d].nlinks /\ g.mode = node[d].mode /\ (~grows => g = node[d])
    BY <1>1, GrowDirectory
  <1>3. /\ inode' = [inode EXCEPT ![d].dirt = IF grows THEN 1 ELSE @]
        /\ node' = [node EXCEPT ![d] = g] /\ latest' = [latest EXCEPT ![inode[d].num] = g]
        /\ UNCHANGED <<last_inode, dinode, imap, dir, refs, leaked, walk, pc>>
    BY DEF create_inode_full
  <1> HIDE DEF g
  <1>4. CASE grows
    <2>1. inode' = [inode EXCEPT ![d].dirt = 1]
      BY <1>3, <1>4
    <2>2. CacheInv'
      BY <1>1, <1>2, <1>3, <2>1, Write
    <2>3. \A t \in Slots : inode'[t].count = inode[t].count /\ inode'[t].num = inode[t].num
      BY <1>1, <2>1 DEF CacheInv, CacheTypes, Slot
    <2> QED BY <1>3, <2>2, <2>3, StepContent DEF SameRoot, WalkOK, CInv
  <1>5. CASE ~grows
    <2>1. inode' = inode
      BY <1>1, <1>3, <1>5 DEF CacheInv, CacheTypes, Slot
    <2>2. node' = node
      BY <1>1, <1>2, <1>3, <1>5 DEF CacheInv, CacheTypes
    <2>3. latest' = latest
      <3>1. inode[d].num # NULL
        BY <1>1, InUse
      <3>2. latest[inode[d].num] = g
        BY <1>1, <1>2, <1>5, <3>1 DEF CacheInv, Latest
      <3> QED BY <1>1, <1>3, <3>2 DEF CacheInv, CacheTypes
    <2>4. CacheInv'
      BY <1>1, <1>3, <2>1, <2>2, <2>3, Nothing
    <2> QED BY <1>3, <2>1, <2>4, StepContent DEF SameRoot, WalkOK, CInv
  <1> QED BY <1>4, <1>5

LEMMA StepModify ==
    ASSUME CInv, NEW s \in Slots, modify(s)
    PROVE  CInv'
  <1> DEFINE c == [node[s] EXCEPT !.version = 1 - @]
  <1>1. CacheInv /\ inode[s].count > 0
    BY Holder DEF modify, CInv
  <1>2. c \in Content /\ c.nlinks = node[s].nlinks /\ c.mode = node[s].mode
    <2>1. node[s] \in Content
      BY <1>1 DEF CacheInv, CacheTypes
    <2> QED BY <2>1 DEF Content
  <1>3. /\ inode' = [inode EXCEPT ![s].dirt = 1] /\ node' = [node EXCEPT ![s] = c]
        /\ UNCHANGED <<last_inode, dinode, imap, dir, refs, leaked, walk, pc>>
    BY DEF modify
  <1>4. latest' = [latest EXCEPT ![inode[s].num] = c]
    <2> HIDE DEF c
    <2>1. node'[s] = c
      BY <1>1, <1>3 DEF CacheInv, CacheTypes
    <2> QED BY <2>1 DEF modify
  <1> HIDE DEF c
  <1>5. CacheInv'
    BY <1>1, <1>2, <1>3, <1>4, Write
  <1>6. \A t \in Slots : inode'[t].count = inode[t].count /\ inode'[t].num = inode[t].num
    BY <1>1, <1>3 DEF CacheInv, CacheTypes, Slot
  <1> QED BY <1>3, <1>5, <1>6, StepContent DEF SameRoot, WalkOK, CInv

LEMMA StepUnlink ==
    ASSUME CInv, NEW s \in Slots, unlink(s)
    PROVE  CInv'
  <1>1. CacheInv'
    BY Unlink
  <1>2. inode' = [inode EXCEPT ![s].dirt = 1] /\ UNCHANGED <<refs, leaked, walk, pc>>
    BY DEF unlink
  <1>3. \A t \in Slots : inode'[t].count = inode[t].count /\ inode'[t].num = inode[t].num
    BY <1>2 DEF CInv, CacheInv, CacheTypes, Slot
  <1> QED BY <1>1, <1>2, <1>3, StepContent DEF SameRoot, WalkOK, CInv

LEMMA StepStop ==
    ASSUME CInv, UNCHANGED <<inode, node, last_inode, dinode, imap, dir, refs, leaked, latest, walk>>,
           UNCHANGED pc \/ pc' = "panic"
    PROVE  CInv'
  <1>1. CacheInv'
    BY Nothing DEF CInv
  <1>2. WalkOK'
    BY DEF CInv, WalkOK
  <1> QED BY <1>1, <1>2, StepContent DEF SameRoot

(* A walk begins, goes on by a name, puts the inode it left, and ends.     *)
LEMMA StepWalkStarts ==
    ASSUME CInv, NEW s \in Slots, retain_inode_by_path(s)
    PROVE  CInv'
  <1>1. /\ inode' = [inode EXCEPT ![s].count = @ + 1]
        /\ walk' = [start |-> s, at |-> s, old |-> NULL] /\ pc = "idle" /\ pc' = "walk"
        /\ UNCHANGED <<node, last_inode, dinode, imap, dir, refs, leaked, latest>>
        /\ Held(s)
    BY DEF retain_inode_by_path
  <1>2. CacheInv'
    BY <1>1, Holder, Again DEF CInv
  <1>3. SameRoot /\ Added(s, 1)
    <2>1. \A t \in Slots : inode[t].count \in Nat
      BY CountTypes
    <2> QED BY <1>1, <2>1 DEF CInv, CacheInv, CacheTypes, Slot, SameRoot, Added
  <1>4. RefTypes' /\ WalkOK'
    BY <1>1 DEF CInv, RefTypes, WalkOK, Walk, IndexOrNull
  <1>5. Counts'
    <2>1. ASSUME NEW t \in Slots
          PROVE  inode'[t].count = Own(t)' + refs'[t] + leaked'[t] + AtRefs(t)' + OldRefs(t)'
      <3>1. AtRefs(t)' = (IF t = s THEN 1 ELSE 0) /\ OldRefs(t)' = 0 /\ Own(t)' = Own(t)
        BY <1>1, <1>3, OwnSame, Sizes DEF AtRefs, OldRefs
      <3>2. AtRefs(t) = 0 /\ OldRefs(t) = 0
        BY <1>1, Sizes DEF CInv, WalkOK, AtRefs, OldRefs
      <3> QED BY <1>1, <1>3, <3>1, <3>2, CountTypes DEF Added
    <2> QED BY <2>1 DEF Counts
  <1> QED BY <1>2, <1>4, <1>5 DEF CInv

LEMMA StepWalkName ==
    ASSUME CInv, NEW n \in Numbers, NEW s \in Slots, walk_name(n, s)
    PROVE  CInv'
  <1>1. /\ walk' = [walk EXCEPT !.at = s, !.old = walk.at] /\ pc = "walk" /\ pc' = "put"
        /\ UNCHANGED <<imap, dir, refs, leaked, latest>>
    BY DEF walk_name
  <1>2. walk \in Walk /\ walk.at \in Slots /\ walk.old = NULL /\ walk.start \in Slots
    BY <1>1 DEF CInv, RefTypes, WalkOK
  <1>3. n \in Named
    <2>1. n \in dir[inode[walk.at].num]
      BY DEF walk_name
    <2>2. inode[walk.at].count > 0
      BY <1>2, CountTypes DEF AtRefs
    <2>3. inode[walk.at].num \in Numbers
      BY <1>2, <2>2, InUse DEF CInv
    <2> QED BY <2>1, <2>3 DEF Named
  <1>4. CacheInv' /\ SameRoot /\ Added(s, 1)
    BY <1>1, <1>3, Read DEF walk_name
  <1>5. walk'.at = s /\ walk'.old = walk.at /\ walk'.start = walk.start /\ walk' \in Walk
    BY <1>1, <1>2 DEF Walk, IndexOrNull
  <1>6. RefTypes' /\ WalkOK'
    BY <1>1, <1>2, <1>5 DEF CInv, RefTypes, WalkOK
  <1>7. Counts'
    <2>1. ASSUME NEW t \in Slots
          PROVE  inode'[t].count = Own(t)' + refs'[t] + leaked'[t] + AtRefs(t)' + OldRefs(t)'
      <3>1. /\ AtRefs(t)' = (IF t = s THEN 1 ELSE 0) /\ OldRefs(t)' = AtRefs(t)
            /\ Own(t)' = Own(t) /\ OldRefs(t) = 0
        BY <1>2, <1>4, <1>5, OwnSame, Sizes DEF AtRefs, OldRefs
      <3> QED BY <1>1, <1>4, <3>1, CountTypes DEF Added
    <2> QED BY <2>1 DEF Counts
  <1> QED BY <1>4, <1>6, <1>7 DEF CInv

LEMMA StepWalkPut == ASSUME CInv, walk_put PROVE CInv'
  <1> DEFINE s == walk.old
  <1>1. /\ walk' = [walk EXCEPT !.old = NULL] /\ pc = "put" /\ pc' = "walk" /\ put_slot(s)
        /\ UNCHANGED <<dir, refs, leaked, latest>>
    BY DEF walk_put
  <1>2. walk \in Walk /\ s \in Slots /\ walk.at \in Slots /\ walk.start \in Slots
    BY <1>1 DEF CInv, RefTypes, WalkOK
  <1>3. CacheInv' /\ SameRoot /\ Added(s, -1)
    BY <1>1, <1>2, Put
  <1>4. walk'.at = walk.at /\ walk'.old = NULL /\ walk'.start = walk.start /\ walk' \in Walk
    BY <1>1, <1>2 DEF Walk, IndexOrNull
  <1>5. RefTypes' /\ WalkOK'
    BY <1>1, <1>2, <1>4 DEF CInv, RefTypes, WalkOK
  <1>6. Counts'
    <2>1. ASSUME NEW t \in Slots
          PROVE  inode'[t].count = Own(t)' + refs'[t] + leaked'[t] + AtRefs(t)' + OldRefs(t)'
      <3>1. /\ AtRefs(t)' = AtRefs(t) /\ OldRefs(t)' = 0 /\ Own(t)' = Own(t)
            /\ OldRefs(t) = (IF t = s THEN 1 ELSE 0)
        BY <1>2, <1>3, <1>4, OwnSame, Sizes DEF AtRefs, OldRefs
      <3> QED BY <1>1, <1>3, <3>1, CountTypes DEF Added
    <2> QED BY <2>1 DEF Counts
  <1> QED BY <1>3, <1>5, <1>6 DEF CInv

LEMMA StepWalkEnds == ASSUME CInv, walk_fail \/ walk_end PROVE CInv'
  <1> DEFINE s == walk.at
  <1>1. /\ walk' = NoWalk /\ pc = "walk" /\ pc' = "idle"
        /\ UNCHANGED <<inode, node, last_inode, dinode, imap, dir, latest>>
        /\ \/ leaked' = [leaked EXCEPT ![s] = @ + 1] /\ UNCHANGED refs
           \/ refs' = [refs EXCEPT ![s] = @ + 1] /\ UNCHANGED leaked
    BY DEF walk_fail, walk_end
  <1>2. walk \in Walk /\ s \in Slots /\ walk.old = NULL
    BY <1>1 DEF CInv, RefTypes, WalkOK
  <1>3. CacheInv'
    BY <1>1, Nothing DEF CInv
  <1>4. RefTypes' /\ WalkOK'
    BY <1>1, <1>2 DEF CInv, RefTypes, WalkOK, NoWalk, Walk, IndexOrNull
  <1>5. Counts'
    <2>1. ASSUME NEW t \in Slots
          PROVE  inode'[t].count = Own(t)' + refs'[t] + leaked'[t] + AtRefs(t)' + OldRefs(t)'
      <3>1. /\ AtRefs(t)' = 0 /\ OldRefs(t)' = 0 /\ Own(t)' = Own(t)
            /\ AtRefs(t) = (IF t = s THEN 1 ELSE 0) /\ OldRefs(t) = 0
        BY <1>1, <1>2, Sizes DEF AtRefs, OldRefs, NoWalk, Own
      <3>2. refs'[t] + leaked'[t] = refs[t] + leaked[t] + (IF t = s THEN 1 ELSE 0)
        <4>1. refs \in [Slots -> Nat] /\ leaked \in [Slots -> Nat]
          BY DEF CInv, RefTypes
        <4> QED BY <1>1, <4>1
      <3>3. refs'[t] \in Nat /\ leaked'[t] \in Nat
        BY <1>4 DEF RefTypes
      <3>4. /\ refs[t] \in Nat /\ leaked[t] \in Nat /\ Own(t) \in Nat
            /\ inode[t].count = Own(t) + refs[t] + leaked[t] + AtRefs(t) + OldRefs(t)
        BY CountTypes
      <3>5. inode'[t].count = inode[t].count
        BY <1>1
      <3> HIDE DEF s
      <3> QED BY <3>1, <3>2, <3>3, <3>4, <3>5
    <2> QED BY <2>1 DEF Counts
  <1> QED BY <1>3, <1>4, <1>5 DEF CInv

LEMMA NextCInv == CInv /\ [Next]_vars => CInv'
  <1> SUFFICES ASSUME CInv, [Next]_vars PROVE CInv'
    OBVIOUS
  <1>1. CASE sync_all_inodes_to_buff
    <2>1. /\ CacheInv'
          /\ \A t \in Slots : inode'[t].count = inode[t].count /\ inode'[t].num = inode[t].num
      BY <1>1, SyncAll DEF CInv
    <2>2. UNCHANGED <<refs, leaked, walk, pc>>
      BY <1>1 DEF sync_all_inodes_to_buff
    <2> QED BY <2>1, <2>2, StepContent DEF SameRoot, WalkOK, CInv
  <1>2. CASE panic_no_slot \/ panic_unreadable \/ halted \/ UNCHANGED vars
    BY <1>2, StepStop DEF panic_no_slot, panic_unreadable, halted, vars
  <1> QED BY <1>1, <1>2, StepRead, StepPut, StepCreate, StepFull, StepModify, StepUnlink,
             StepWalkStarts, StepWalkName, StepWalkPut, StepWalkEnds DEF Next

-----------------------------------------------------------------------------
(* The inductive invariant of the inode cache. *)
THEOREM CacheInvariance == Spec => []CInv
  <1> QED BY InitCInv, NextCInv, PTL DEF Spec

(* inode.c: an inode is in one slot of the table only. *)
THEOREM OneSlotEach == Spec => []OneInode
<1>1. CInv => OneInode
  BY DEF CInv, CacheInv
<1> QED BY <1>1, CacheInvariance, PTL

(* inode.c: i_count is the number of references, through failed walks and  *)
(* the deletion of inodes.                                                 *)
THEOREM ReferencesCounted == Spec => []CountsInodes
<1>1. CInv => CountsInodes
  <2> SUFFICES ASSUME CInv, NEW s \in Slots
               PROVE  inode[s].count = Own(s) + refs[s] + leaked[s] + InWalk(s)
    BY DEF CountsInodes
  <2>1. InWalk(s) = AtRefs(s) + OldRefs(s)
    <3> DEFINE F == {f \in {"at", "old"} : walk[f] = s}
    <3>1. Cardinality({}) = 0 /\ Cardinality({"at"}) = 1 /\ Cardinality({"old"}) = 1
      BY FS_EmptySet, FS_Singleton
    <3>2. Cardinality({"at", "old"}) = 2
      <4>1. {"at", "old"} = {"at"} \cup {"old"} /\ "old" \notin {"at"} /\ IsFiniteSet({"at"})
        BY FS_Singleton
      <4> QED BY <3>1, <4>1, FS_AddElement
    <3>3. CASE walk.at = s /\ walk.old = s
      <4>1. F = {"at", "old"}
        BY <3>3
      <4> QED BY <3>2, <3>3, <4>1 DEF InWalk, AtRefs, OldRefs
    <3>4. CASE walk.at = s /\ walk.old # s
      <4>1. F = {"at"}
        BY <3>4
      <4> QED BY <3>1, <3>4, <4>1 DEF InWalk, AtRefs, OldRefs
    <3>5. CASE walk.at # s /\ walk.old = s
      <4>1. F = {"old"}
        BY <3>5
      <4> QED BY <3>1, <3>5, <4>1 DEF InWalk, AtRefs, OldRefs
    <3>6. CASE walk.at # s /\ walk.old # s
      <4>1. F = {}
        BY <3>6
      <4> QED BY <3>1, <3>6, <4>1 DEF InWalk, AtRefs, OldRefs
    <3> QED BY <3>3, <3>4, <3>5, <3>6
  <2> QED BY <2>1, CountTypes
<1> QED BY <1>1, CacheInvariance, PTL

(* inode.c: what an inode's users last wrote to it is in its slot or, once *)
(* the slot has been reused, on the drive.                                 *)
THEOREM ChangesSurvive == Spec => []LatestContent
<1>1. CInv => LatestContent
  <2> SUFFICES ASSUME CInv PROVE LatestContent
    OBVIOUS
  <2>1. ASSUME NEW n \in imap
        PROVE  latest[n] = IF find_inode(n) = NULL THEN dinode[n] ELSE node[find_inode(n)]
    <3>1. n # NULL
      BY Sizes DEF CInv, CacheInv, CacheTypes
    <3>2. CASE \A s \in Slots : inode[s].num # n
      BY <3>1, <3>2, FindInode DEF CInv, CacheInv, Latest
    <3>3. CASE \E s \in Slots : inode[s].num = n
      <4>1. PICK s \in Slots : inode[s].num = n
        BY <3>3
      <4>2. find_inode(n) = s /\ s # NULL
        BY <3>1, <4>1, FindInode, Sizes DEF CInv, CacheInv
      <4> QED BY <3>1, <4>1, <4>2 DEF CInv, CacheInv, Latest
    <3> QED BY <3>2, <3>3
  <2> QED BY <2>1 DEF LatestContent, CInv, CacheInv, Latest
<1> QED BY <1>1, CacheInvariance, PTL

(* super.c, inode.c: the inode bitmap has exactly the inodes with a name   *)
(* or a user, and every variable keeps its type.                           *)
THEOREM BitmapAccounted == Spec => []InodesAccounted
<1>1. CInv => InodesAccounted
  BY DEF CInv, CacheInv, CacheTypes, RefTypes, WalkOK, Links, FreeSlots, Slot, TypeOK, InodesAccounted
<1> QED BY <1>1, CacheInvariance, PTL
=============================================================================
