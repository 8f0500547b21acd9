--------------------------- MODULE FileZonesProof ---------------------------
(***************************************************************************)
(* Proofs about the zones of a file system, for any number of zones,       *)
(* inodes and pointers in an inode or an indirect block.                   *)
(***************************************************************************)
EXTENDS FileZones, LeastNumber, SequenceTheorems

(* The pointers of all files form a forest: ptr says of a zone which       *)
(* pointer leads to it, dep how many levels of pointers are below it, and  *)
(* rt to which inode it belongs.                                           *)
None == <<"none", 0, 0>>
SlotDepth(s) == IF s < DIRECT THEN 0 ELSE s - DIRECT + 1
Owned(ptr, z) == ptr[z] # None

FromInode(ptr, z) == \E i \in Inodes, s \in Slots : ptr[z] = <<"inode", i, s>> /\ i_zone[i][s] = z
FromZone(ptr, dep, z) == \E y \in Zones, n \in Entries :
    dep[y] > 0 /\ ptr[z] = <<"zone", y, n>> /\ content[y][n] = z

Forest(ptr, dep, rt) ==
    /\ \A z \in Zones : dep[z] \in 0..2 /\ (ptr[z] = None => dep[z] = 0)
    /\ \A i \in Inodes, s \in Slots :
          LET z == i_zone[i][s]
          IN  z # 0 => ptr[z] = <<"inode", i, s>> /\ dep[z] = SlotDepth(s) /\ rt[z] = i
    /\ \A y \in Zones, n \in Entries :
          LET z == content[y][n]
          IN  z # 0 /\ dep[y] > 0 =>
                  ptr[z] = <<"zone", y, n>> /\ dep[z] = dep[y] - 1 /\ rt[z] = rt[y]
    /\ \A z \in Zones : ptr[z] = None \/ FromInode(ptr, z) \/ FromZone(ptr, dep, z)

(* The zone whose entry leads to z; the zones that a task of truncate will *)
(* delete.                                                                 *)
Par(ptr, z) == IF z \in Zones /\ ptr[z][1] = "zone" THEN ptr[z][2] ELSE 0
Covers(ptr, t, z) ==
    /\ t.zone # 0
    /\ \/ z = t.zone
       \/ t.depth \in {1, 2} /\ Par(ptr, z) = t.zone
       \/ t.depth = 2 /\ Par(ptr, Par(ptr, z)) = t.zone
Pending(ptr, z) == \E m \in 1..Len(todo) : Covers(ptr, todo[m], z)

(* Zones in use: those of the files, but of the one under truncate those   *)
(* that it still has to delete; and lost ones.                             *)
Kept(ptr, rt, z) == Owned(ptr, z) /\ ~(pc = "truncate" /\ rt[z] = call.inode)
InUse(z) == Bit(z) \in zmap /\ Bit(z) \notin zmap0

Accounts(ptr, rt) ==
    \A z \in Zones :
        /\ InUse(z) <=> Kept(ptr, rt, z) \/ z \in lost \/ Pending(ptr, z)
        /\ z \in lost => ~Kept(ptr, rt, z) /\ ~Pending(ptr, z)

(* What truncate has to do, once for each zone.                            *)
TodoOK(ptr, dep, rt) ==
    /\ todo \in Seq([zone : Zones \cup {0}, depth : 0..2])
    /\ \A m \in 1..Len(todo) :
          LET z == todo[m].zone
          IN  z # 0 => /\ Owned(ptr, z) /\ rt[z] = call.inode
                       /\ todo[m].depth \in {0, dep[z]}
    /\ \A m, n \in 1..Len(todo), z \in Zones :
          Covers(ptr, todo[m], z) /\ Covers(ptr, todo[n], z) => m = n
    /\ pc # "truncate" => todo = <<>>

(* The walk of locate_by_inode: as many levels are below a pointer as the  *)
(* path still has.                                                         *)
PathOK(path) ==
    /\ Len(path) \in 1..3
    /\ path[1] \in Slots /\ SlotDepth(path[1]) = Len(path) - 1
    /\ \A k \in 2..Len(path) : path[k] \in Entries

CallOK(ptr, dep, rt) ==
    /\ pc \in {"locate", "truncate"} => call.inode \in Inodes
    /\ pc = "locate" =>
          /\ PathOK(call.path) /\ call.level \in 1..Len(call.path)
          /\ call.level > 1 => /\ call.bh \in Zones /\ Owned(ptr, call.bh)
                               /\ dep[call.bh] = Len(call.path) - call.level + 1
                               /\ rt[call.bh] = call.inode

State(ptr, dep, rt) ==
    /\ Forest(ptr, dep, rt)
    /\ Accounts(ptr, rt)
    /\ TodoOK(ptr, dep, rt)
    /\ CallOK(ptr, dep, rt)

IInv == /\ TypeOK /\ zmap0 \subseteq zmap /\ pc # "panic"
        /\ \E ptr, dep, rt : State(ptr, dep, rt)

-----------------------------------------------------------------------------
(* Numbers: zones and bits, blocks of a file and their paths. *)
LEMMA Sizes ==
    /\ DIRECT \in Nat /\ PER \in Nat /\ PER >= 1
    /\ DataZones \subseteq Zones /\ 0 \notin Zones /\ Zones \subseteq Nat
    /\ zmap0 \subseteq Bits /\ Bits \subseteq Nat
    /\ \A j \in Bits \ zmap0 : Zone(j) \in DataZones /\ Bit(Zone(j)) = j /\ Zone(j) <= s_nzones
    /\ \A z \in Zones : Zone(Bit(z)) = z
    /\ \A y, z \in Zones : Bit(y) = Bit(z) => y = z
    /\ Slots = 0..(DIRECT + 1) /\ Entries = 0..(PER - 1)
    /\ \A s \in Slots : SlotDepth(s) \in 0..2 /\ (s < DIRECT <=> SlotDepth(s) = 0)
    /\ DIRECT \in Slots /\ DIRECT + 1 \in Slots /\ SlotDepth(DIRECT) = 1 /\ SlotDepth(DIRECT + 1) = 2
    /\ regular \subseteq Inodes
BY FileSystemAssumption DEF DataZones, Zones, Zone, Bit, Slots, Entries, SlotDepth

LEMMA Division ==
    ASSUME NEW a \in Nat, NEW b \in Nat, b >= 1, a < b * b
    PROVE  a \div b \in 0..(b - 1) /\ a % b \in 0..(b - 1)
  <1> DEFINE q == a \div b
             r == a % b
  <1>1. q \in Int /\ r \in 0..(b - 1) /\ a = b * q + r
    OBVIOUS
  <1> HIDE DEF q, r
  <1>2. ~(q >= b)
    <2> SUFFICES ASSUME q >= b PROVE FALSE
      OBVIOUS
    <2>1. b * q >= b * b
      BY <1>1
    <2> QED BY <1>1, <2>1
  <1>3. ~(q < 0)
    <2> SUFFICES ASSUME q <= -1 PROVE FALSE
      BY <1>1
    <2>1. b * q <= b * (-1)
      BY <1>1
    <2>2. b * (-1) = - b
      OBVIOUS
    <2> QED BY <1>1, <2>1, <2>2
  <1>4. q \in 0..(b - 1)
    BY <1>1, <1>2, <1>3
  <1> QED BY <1>1, <1>4 DEF q, r

LEMMA PathLength ==
    ASSUME NEW block \in 0..(Size - 1)
    PROVE  PathOK(Path(block))
  <1>1. CASE block < DIRECT
    <2>1. Path(block) = <<block>>
      BY <1>1 DEF Path
    <2>2. Len(<<block>>) = 1 /\ <<block>>[1] = block
      OBVIOUS
    <2>3. block \in Slots /\ SlotDepth(block) = 0
      BY <1>1, Sizes DEF SlotDepth
    <2> QED BY <2>1, <2>2, <2>3 DEF PathOK
  <1>2. CASE ~(block < DIRECT) /\ block - DIRECT < PER
    <2> DEFINE e == block - DIRECT
    <2>1. Path(block) = <<DIRECT, e>>
      BY <1>2 DEF Path
    <2>2. e \in Entries
      BY <1>2, Sizes DEF Size
    <2> HIDE DEF e
    <2>3. Len(<<DIRECT, e>>) = 2 /\ <<DIRECT, e>>[1] = DIRECT /\ <<DIRECT, e>>[2] = e
      OBVIOUS
    <2> QED BY <2>1, <2>2, <2>3, Sizes DEF PathOK
  <1>3. CASE ~(block < DIRECT) /\ ~(block - DIRECT < PER)
    <2> DEFINE a == block - DIRECT - PER
               e == a \div PER
               f == a % PER
               path == <<DIRECT + 1, e, f>>
    <2>1. Path(block) = path
      BY <1>3 DEF Path
    <2>2. a \in Nat /\ a < PER * PER
      <3>1. DIRECT \in Nat /\ PER \in Nat
        BY Sizes
      <3>2. \A sq \in Int : Size = DIRECT + PER + sq => a \in Nat /\ a < sq
        BY <1>3, <3>1
      <3>3. PER * PER \in Int
        BY <3>1
      <3> HIDE DEF a, e, f
      <3>4. Size = DIRECT + PER + PER * PER
        BY DEF Size
      <3> QED BY <3>2, <3>3, <3>4
    <2>3. e \in Entries /\ f \in Entries
      <3> HIDE DEF a
      <3> QED BY <2>2, Division, Sizes
    <2> HIDE DEF e, f
    <2>4. Len(path) = 3 /\ path[1] = DIRECT + 1 /\ path[2] = e /\ path[3] = f
      OBVIOUS
    <2> HIDE DEF path
    <2>5. \A k \in 2..3 : k = 2 \/ k = 3
      OBVIOUS
    <2> QED BY <2>1, <2>3, <2>4, <2>5, Sizes DEF PathOK
  <1> QED BY <1>1, <1>2, <1>3

-----------------------------------------------------------------------------
(* Calls. *)
LEMMA CallIs ==
    ASSUME NEW i, NEW p, NEW l, NEW b, NEW c, call' = Call(i, p, l, b, c)
    PROVE  /\ call'.inode = i /\ call'.path = p /\ call'.level = l /\ call'.bh = b
           /\ call'.create = c
BY DEF Call

(* No file has a zone at the start. *)
LEMMA InitInv == Init => IInv
  <1> SUFFICES ASSUME Init PROVE IInv
    OBVIOUS
  <1> USE DEF Init
  <1> DEFINE ptr == [z \in Zones |-> None]
             dep == [z \in Zones |-> 0]
             rt == [z \in Zones |-> 0]
  <1>1. Empty \in [Entries -> Zones \cup {0}] /\ \A n \in Entries : Empty[n] = 0
    BY DEF Empty
  <1>2. \A y \in Zones : content[y] = Empty
    OBVIOUS
  <1>3. \A i \in Inodes, s \in Slots : i_zone[i][s] = 0
    OBVIOUS
  <1>4. \A z \in Zones : ptr[z] = None /\ dep[z] = 0
    OBVIOUS
  <1>5. TypeOK /\ zmap0 \subseteq zmap /\ pc # "panic"
    <2>1. i_zone \in [Inodes -> [Slots -> Zones \cup {0}]]
      OBVIOUS
    <2>2. content \in [Zones -> [Entries -> Zones \cup {0}]]
      BY <1>1
    <2> QED BY <2>1, <2>2, Sizes DEF TypeOK
  <1>6. Forest(ptr, dep, rt)
    <2> HIDE DEF ptr, dep, rt, Init
    <2>1. \A z \in Zones : dep[z] \in 0..2 /\ (ptr[z] = None => dep[z] = 0)
      BY <1>4
    <2>2. \A y \in Zones, n \in Entries : content[y][n] = 0
      BY <1>1, <1>2
    <2> QED BY <1>3, <1>4, <2>1, <2>2 DEF Forest
  <1>7. Accounts(ptr, rt)
    <2> HIDE DEF ptr, dep, rt
    <2>1. Len(todo) = 0
      OBVIOUS
    <2>2. \A z : ~Pending(ptr, z)
      BY <2>1 DEF Pending
    <2>3. \A z \in Zones : ~Kept(ptr, rt, z)
      BY <1>4 DEF Kept, Owned
    <2>4. \A z \in Zones : ~InUse(z)
      BY DEF InUse
    <2> QED BY <2>2, <2>3, <2>4 DEF Accounts
  <1>8. TodoOK(ptr, dep, rt)
    <2> HIDE DEF ptr, dep, rt
    <2>1. todo \in Seq([zone : Zones \cup {0}, depth : 0..2]) /\ Len(todo) = 0
      OBVIOUS
    <2> QED BY <2>1 DEF TodoOK
  <1>9. CallOK(ptr, dep, rt)
    BY DEF CallOK
  <1>10. \E p, d, r : State(p, d, r)
    <2> HIDE DEF ptr, dep, rt, Init
    <2> QED BY <1>6, <1>7, <1>8, <1>9 DEF State
  <1> QED BY <1>5, <1>10 DEF IInv

-----------------------------------------------------------------------------
(* A step of locate_by_inode that creates nothing. *)
LEMMA ForestStays ==
    ASSUME NEW ptr, NEW dep, NEW rt, Forest(ptr, dep, rt), UNCHANGED <<content, i_zone>>
    PROVE  Forest(ptr, dep, rt)'
BY DEF Forest, FromInode, FromZone

LEMMA Calm ==
    ASSUME NEW ptr, NEW dep, NEW rt, State(ptr, dep, rt),
           pc # "truncate", pc' # "truncate",
           UNCHANGED <<zmap, content, i_zone, lost, todo>>,
           CallOK(ptr, dep, rt)'
    PROVE  State(ptr, dep, rt)'
  <1>1. Forest(ptr, dep, rt)'
    BY ForestStays DEF State
  <1>2. todo = <<>> /\ Len(todo) = 0 /\ todo' = todo
    BY DEF State, TodoOK
  <1>3. Accounts(ptr, rt)'
    <2>1. \A z : ~Pending(ptr, z) /\ ~Pending(ptr, z)'
      BY <1>2 DEF Pending
    <2>2. \A z : Kept(ptr, rt, z)' <=> Kept(ptr, rt, z)
      BY DEF Kept, Owned
    <2>3. \A z : InUse(z)' <=> InUse(z)
      BY DEF InUse, Bit
    <2> QED BY <2>1, <2>2, <2>3 DEF State, Accounts
  <1>4. TodoOK(ptr, dep, rt)'
    BY <1>2 DEF State, TodoOK
  <1> QED BY <1>1, <1>3, <1>4 DEF State

LEMMA CalmStep ==
    ASSUME IInv, pc # "truncate", pc' \in {"idle", "locate"}, boot' \in {"intact", "cleared"},
           UNCHANGED <<zmap, content, i_zone, lost, todo>>,
           \A ptr, dep, rt : State(ptr, dep, rt) => CallOK(ptr, dep, rt)'
    PROVE  IInv'
  <1>1. PICK ptr, dep, rt : State(ptr, dep, rt)
    BY DEF IInv
  <1>2. State(ptr, dep, rt)'
    BY <1>1, Calm
  <1>3. (TypeOK /\ zmap0 \subseteq zmap /\ pc # "panic")'
    BY DEF IInv, TypeOK
  <1> QED BY <1>2, <1>3 DEF IInv

LEMMA StartLocate == IInv /\ start_locate => IInv'
  <1> SUFFICES ASSUME IInv, start_locate PROVE IInv'
    OBVIOUS
  <1>1. PICK i \in Inodes, block \in 0..(Size - 1), create \in BOOLEAN :
            call' = Call(i, Path(block), 1, 0, create)
    BY DEF start_locate
  <1>2. call'.inode = i /\ call'.path = Path(block) /\ call'.level = 1
    BY <1>1, CallIs
  <1>3. PathOK(Path(block))
    BY PathLength
  <1>4. 1 \in 1..Len(Path(block))
    BY <1>3 DEF PathOK
  <1>5. \A ptr, dep, rt : CallOK(ptr, dep, rt)'
    BY <1>2, <1>3, <1>4 DEF CallOK
  <1>6. pc = "idle" /\ pc' = "locate" /\ UNCHANGED <<zmap, content, i_zone, boot, lost, todo>>
    BY DEF start_locate
  <1>7. boot' \in {"intact", "cleared"}
    BY <1>6 DEF IInv, TypeOK
  <1> QED BY <1>5, <1>6, <1>7, CalmStep

(* Without a call there is nothing to say of it. *)
LEMMA Returned == Return => \A ptr, dep, rt : CallOK(ptr, dep, rt)'
BY DEF Return, CallOK

LEMMA LocateHole == IInv /\ locate_hole => IInv'
  <1> SUFFICES ASSUME IInv, locate_hole PROVE IInv'
    OBVIOUS
  <1>1. pc = "locate" /\ pc' = "idle" /\ Return /\ UNCHANGED <<zmap, content, i_zone, boot, lost, todo>>
    BY DEF locate_hole, Return
  <1>2. boot' \in {"intact", "cleared"}
    BY <1>1 DEF IInv, TypeOK
  <1> QED BY <1>1, <1>2, CalmStep, Returned

LEMMA LocateFull == IInv /\ locate_full => IInv'
  <1> SUFFICES ASSUME IInv, locate_full PROVE IInv'
    OBVIOUS
  <1>1. pc = "locate" /\ pc' = "idle" /\ UNCHANGED <<zmap, content, i_zone, lost, todo>> /\ boot' = "cleared" /\ Return
    BY DEF locate_full, Return
  <1> QED BY <1>1, CalmStep, Returned

-----------------------------------------------------------------------------
(* locate_by_inode: where the walk stands. *)
LEMMA IndexIs ==
    ASSUME NEW ptr, NEW dep, NEW rt, CallOK(ptr, dep, rt), pc = "locate"
    PROVE  /\ call.inode \in Inodes /\ Len(call.path) \in 1..3 /\ call.level \in 1..Len(call.path)
           /\ call.level = 1 => Index \in Slots /\ SlotDepth(Index) = Len(call.path) - call.level
           /\ call.level # 1 => /\ Index \in Entries
                                /\ call.bh \in Zones /\ Owned(ptr, call.bh)
                                /\ dep[call.bh] - 1 = Len(call.path) - call.level
                                /\ dep[call.bh] > 0
                                /\ rt[call.bh] = call.inode
  <1> DEFINE len == Len(call.path)
             l == call.level
  <1>1. PathOK(call.path) /\ l \in 1..len /\ call.inode \in Inodes
    BY DEF CallOK
  <1>2. len \in 1..3
    BY <1>1 DEF PathOK
  <1>3. l > 1 => /\ call.bh \in Zones /\ Owned(ptr, call.bh)
                 /\ dep[call.bh] = len - l + 1 /\ rt[call.bh] = call.inode
    BY DEF CallOK
  <1>4. call.path[1] \in Slots /\ SlotDepth(call.path[1]) = len - 1
    BY <1>1 DEF PathOK
  <1>5. \A k \in 2..len : call.path[k] \in Entries
    BY <1>1 DEF PathOK
  <1>6. Index = call.path[l]
    BY DEF Index
  <1> HIDE DEF len, l
  <1>7. l # 1 => l \in 2..len /\ l > 1
    BY <1>1, <1>2
  <1>8. l # 1 => Index \in Entries
    BY <1>5, <1>6, <1>7
  <1>9. l = 1 => Index \in Slots /\ SlotDepth(Index) = len - l
    BY <1>4, <1>6
  <1>10. l # 1 => dep[call.bh] - 1 = len - l /\ dep[call.bh] > 0
    BY <1>1, <1>2, <1>3, <1>7
  <1> QED BY <1>1, <1>2, <1>3, <1>7, <1>8, <1>9, <1>10 DEF len, l

LEMMA PointerIs ==
    ASSUME NEW ptr, NEW dep, NEW rt, CallOK(ptr, dep, rt), Forest(ptr, dep, rt), TypeOK,
           pc = "locate", Pointer # 0
    PROVE  /\ Pointer \in Zones /\ Owned(ptr, Pointer)
           /\ dep[Pointer] = Len(call.path) - call.level /\ rt[Pointer] = call.inode
  <1>1. CASE call.level = 1
    <2>1. call.inode \in Inodes /\ Index \in Slots /\ SlotDepth(Index) = Len(call.path) - call.level
      BY <1>1, IndexIs
    <2>2. Pointer = i_zone[call.inode][Index]
      BY <1>1 DEF Pointer
    <2>3. Pointer \in Zones
      BY <2>1, <2>2 DEF TypeOK
    <2>4. /\ ptr[Pointer] = <<"inode", call.inode, Index>> /\ dep[Pointer] = SlotDepth(Index)
          /\ rt[Pointer] = call.inode
      BY <2>1, <2>2 DEF Forest
    <2>5. Owned(ptr, Pointer)
      BY <2>4 DEF Owned, None
    <2> QED BY <2>1, <2>3, <2>4, <2>5
  <1>2. CASE call.level # 1
    <2>1. /\ Index \in Entries /\ call.bh \in Zones /\ dep[call.bh] > 0
          /\ dep[call.bh] - 1 = Len(call.path) - call.level /\ rt[call.bh] = call.inode
      BY <1>2, IndexIs
    <2>2. Pointer = content[call.bh][Index]
      BY <1>2 DEF Pointer
    <2>3. Pointer \in Zones
      BY <2>1, <2>2 DEF TypeOK
    <2>4. /\ ptr[Pointer] = <<"zone", call.bh, Index>> /\ dep[Pointer] = dep[call.bh] - 1
          /\ rt[Pointer] = rt[call.bh]
      BY <2>1, <2>2 DEF Forest
    <2>5. Owned(ptr, Pointer)
      BY <2>4 DEF Owned, None
    <2> QED BY <2>1, <2>3, <2>4, <2>5
  <1> QED BY <1>1, <1>2

(* The walk goes on from a zone that lies where the path says. *)
LEMMA WalksOn ==
    ASSUME NEW ptr, NEW dep, NEW rt, CallOK(ptr, dep, rt), pc = "locate",
           NEW p, NEW d, NEW r, NEW z \in Zones, Owned(p, z),
           d[z] = Len(call.path) - call.level, r[z] = call.inode,
           Onward(z)
    PROVE  CallOK(p, d, r)' /\ pc' \in {"idle", "locate"}
  <1>1. CASE Return
    BY <1>1, Returned DEF Return
  <1>2. CASE /\ call.level < Len(call.path)
             /\ call' = Call(call.inode, call.path, call.level + 1, z, call.create)
             /\ UNCHANGED pc
    <2>1. /\ call'.inode = call.inode /\ call'.path = call.path
          /\ call'.level = call.level + 1 /\ call'.bh = z
      BY <1>2, CallIs
    <2>2. PathOK(call.path) /\ call.inode \in Inodes /\ Len(call.path) \in 1..3
          /\ call.level \in 1..Len(call.path)
      BY IndexIs DEF CallOK
    <2>3. /\ call.level + 1 \in 1..Len(call.path)
          /\ Len(call.path) - (call.level + 1) + 1 = Len(call.path) - call.level
      <3> DEFINE l == Len(call.path)
      <3> HIDE DEF l
      <3>1. l \in 1..3 /\ call.level \in 1..l /\ call.level < l
        BY <1>2, <2>2 DEF l
      <3>2. call.level + 1 \in 1..l /\ l - (call.level + 1) + 1 = l - call.level
        BY <3>1
      <3> QED BY <3>2 DEF l
    <2>4. Owned(p, z)' /\ pc' = "locate"
      BY <1>2 DEF Owned
    <2>5. PathOK(call'.path) /\ call'.level \in 1..Len(call'.path) /\ call'.inode \in Inodes
      BY <2>1, <2>2, <2>3
    <2>6. /\ call'.bh \in Zones /\ Owned(p, call'.bh)
          /\ d[call'.bh] = Len(call'.path) - call'.level + 1 /\ r[call'.bh] = call'.inode
      BY <2>1, <2>3
    <2>7. CallOK(p, d, r)'
      BY <2>4, <2>5, <2>6 DEF CallOK
    <2> QED BY <2>4, <2>7
  <1> QED BY <1>1, <1>2 DEF Onward

LEMMA LocateFound == IInv /\ locate_found => IInv'
  <1> SUFFICES ASSUME IInv, locate_found PROVE IInv'
    OBVIOUS
  <1>1. /\ pc = "locate" /\ Pointer # 0 /\ Onward(Pointer)
        /\ UNCHANGED <<zmap, content, i_zone, boot, lost, todo>>
    BY DEF locate_found
  <1>2. ASSUME NEW ptr, NEW dep, NEW rt, State(ptr, dep, rt)
        PROVE  CallOK(ptr, dep, rt)' /\ pc' \in {"idle", "locate"}
    <2>1. CallOK(ptr, dep, rt) /\ Forest(ptr, dep, rt) /\ TypeOK
      BY <1>2 DEF State, IInv
    <2>2. /\ Pointer \in Zones /\ Owned(ptr, Pointer)
          /\ dep[Pointer] = Len(call.path) - call.level /\ rt[Pointer] = call.inode
      BY <1>1, <2>1, PointerIs
    <2> QED BY <1>1, <2>1, <2>2, WalksOn
  <1>3. pc' \in {"idle", "locate"}
    BY <1>2 DEF IInv
  <1>4. boot' \in {"intact", "cleared"}
    BY <1>1 DEF IInv, TypeOK
  <1> QED BY <1>1, <1>2, <1>3, <1>4, CalmStep

-----------------------------------------------------------------------------
(* create_block hands out a data zone whose bit was not set. *)
LEMMA NewZone ==
    ASSUME TypeOK, zmap0 \subseteq zmap, add_zone_bitmap # 0
    PROVE  /\ add_zone_bitmap \in DataZones
           /\ Bit(add_zone_bitmap) \in Bits /\ Bit(add_zone_bitmap) \notin zmap
  <1> DEFINE zero == Bits \ zmap
             j == Min(zero)
  <1>1. zero # {}
    BY DEF add_zone_bitmap
  <1>2. zero \in SUBSET Nat
    BY Sizes
  <1>3. \E m \in zero : \A t \in zero : m <= t
    <2> HIDE DEF zero
    <2> QED BY <1>1, <1>2, LeastExists
  <1>4. j \in zero
    <2> HIDE DEF zero
    <2> QED BY <1>3 DEF Min
  <1>5. j \in Bits \ zmap0 /\ j \notin zmap
    BY <1>4
  <1>6. Zone(j) \in DataZones /\ Bit(Zone(j)) = j /\ Zone(j) <= s_nzones
    BY <1>5, Sizes
  <1>7. Zone(j) \in Nat
    BY <1>6, Sizes
  <1>8. ~(Zone(j) > s_nzones)
    BY <1>6, <1>7, FileSystemAssumption
  <1>9. add_zone_bitmap = Zone(j)
    <2> HIDE DEF j
    <2> QED BY <1>1, <1>8 DEF add_zone_bitmap, j
  <1> QED BY <1>5, <1>6, <1>9

(* The forest with one more pointer, from where there was none. *)
LEMMA ForestGrows ==
    ASSUME NEW ptr, NEW dep, NEW rt, Forest(ptr, dep, rt), TypeOK,
           CallOK(ptr, dep, rt), pc = "locate", Pointer = 0,
           NEW block \in Zones, ptr[block] = None,
           \A i \in Inodes, s \in Slots :
               i_zone'[i][s] = IF call.level = 1 /\ i = call.inode /\ s = Index THEN block
                               ELSE i_zone[i][s],
           \A y \in Zones, n \in Entries :
               content'[y][n] = IF call.level # 1 /\ y = call.bh /\ n = Index THEN block
                                ELSE IF y = block THEN 0 ELSE content[y][n],
           NEW p, NEW d, NEW r,
           \A z \in Zones : z # block => p[z] = ptr[z] /\ d[z] = dep[z] /\ r[z] = rt[z],
           p[block] = IF call.level = 1 THEN <<"inode", call.inode, Index>>
                      ELSE <<"zone", call.bh, Index>>,
           d[block] = Len(call.path) - call.level,
           r[block] = call.inode
    PROVE  Forest(p, d, r)'
  <1>1. dep[block] = 0 /\ block # 0
    BY Sizes DEF Forest
  <1>2. p[block] # None
    BY DEF None
  <1>3. d[block] \in 0..2
    <2> DEFINE l == Len(call.path)
    <2>1. l \in 1..3 /\ call.level \in 1..l
      BY IndexIs
    <2> HIDE DEF l
    <2>2. l - call.level \in 0..2
      BY <2>1
    <2> QED BY <2>2 DEF l
  <1>4. call.level # 1 => call.bh # block /\ call.bh \in Zones /\ Index \in Entries
    BY <1>1, IndexIs
  <1>5. call.inode \in Inodes /\ (call.level = 1 => Index \in Slots)
    BY IndexIs
  <1>6. call.level = 1 => i_zone[call.inode][Index] = 0
    BY DEF Pointer
  <1>7. call.level # 1 => content[call.bh][Index] = 0
    BY DEF Pointer
  <1>8. \A z \in Zones : d[z] \in 0..2 /\ (p[z] = None => d[z] = 0)
    BY <1>2, <1>3 DEF Forest
  <1>9. ASSUME NEW i \in Inodes, NEW s \in Slots, i_zone'[i][s] # 0
        PROVE  LET z == i_zone'[i][s]
               IN  p[z] = <<"inode", i, s>> /\ d[z] = SlotDepth(s) /\ r[z] = i
    <2>1. CASE call.level = 1 /\ i = call.inode /\ s = Index
      <3>1. i_zone'[i][s] = block
        BY <2>1
      <3>2. SlotDepth(Index) = Len(call.path) - call.level
        BY <2>1, IndexIs
      <3> QED BY <2>1, <3>1, <3>2
    <2>2. CASE ~(call.level = 1 /\ i = call.inode /\ s = Index)
      <3> DEFINE z == i_zone[i][s]
      <3>1. i_zone'[i][s] = z /\ z # 0
        BY <1>9, <2>2
      <3>2. ptr[z] = <<"inode", i, s>> /\ dep[z] = SlotDepth(s) /\ rt[z] = i
        BY <3>1 DEF Forest
      <3>3. z # block
        BY <3>2 DEF None
      <3>4. z \in Zones
        BY <3>1 DEF TypeOK
      <3> QED BY <3>1, <3>2, <3>3, <3>4
    <2> QED BY <2>1, <2>2
  <1>10. ASSUME NEW y \in Zones, NEW n \in Entries, content'[y][n] # 0, d[y] > 0
         PROVE  LET z == content'[y][n]
                IN  p[z] = <<"zone", y, n>> /\ d[z] = d[y] - 1 /\ r[z] = r[y]
    <2>1. CASE call.level # 1 /\ y = call.bh /\ n = Index
      <3>1. content'[y][n] = block /\ y # block
        BY <1>4, <2>1
      <3>2. dep[y] - 1 = Len(call.path) - call.level /\ rt[y] = call.inode
        BY <2>1, IndexIs
      <3> QED BY <2>1, <3>1, <3>2
    <2>2. CASE ~(call.level # 1 /\ y = call.bh /\ n = Index)
      <3> DEFINE z == content[y][n]
      <3>1. content'[y][n] = z /\ z # 0 /\ y # block
        BY <1>10, <2>2
      <3>2. dep[y] > 0
        BY <1>10, <3>1
      <3>3. ptr[z] = <<"zone", y, n>> /\ dep[z] = dep[y] - 1 /\ rt[z] = rt[y]
        BY <3>1, <3>2 DEF Forest
      <3>4. z # block
        BY <3>3 DEF None
      <3>5. z \in Zones
        BY <3>1 DEF TypeOK
      <3> QED BY <3>1, <3>3, <3>4, <3>5
    <2> QED BY <2>1, <2>2
  <1>11. ASSUME NEW z \in Zones
         PROVE  p[z] = None \/ FromInode(p, z)' \/ FromZone(p, d, z)'
    <2>1. CASE z = block /\ call.level = 1
      <3>1. i_zone'[call.inode][Index] = block /\ p[z] = <<"inode", call.inode, Index>>
        BY <1>5, <2>1
      <3> QED BY <1>5, <2>1, <3>1 DEF FromInode
    <2>2. CASE z = block /\ call.level # 1
      <3>1. content'[call.bh][Index] = block /\ p[z] = <<"zone", call.bh, Index>>
        BY <1>4, <2>2
      <3>2. d[call.bh] > 0
        BY <1>4, <2>2, IndexIs
      <3> QED BY <1>4, <2>2, <3>1, <3>2 DEF FromZone
    <2>3. CASE z # block /\ FromInode(ptr, z)
      <3>1. PICK i \in Inodes, s \in Slots : ptr[z] = <<"inode", i, s>> /\ i_zone[i][s] = z
        BY <2>3 DEF FromInode
      <3>2. ~(call.level = 1 /\ i = call.inode /\ s = Index)
        BY <1>6, <3>1, Sizes
      <3>3. i_zone'[i][s] = z /\ p[z] = <<"inode", i, s>>
        BY <2>3, <3>1, <3>2
      <3> QED BY <3>3 DEF FromInode
    <2>4. CASE z # block /\ FromZone(ptr, dep, z)
      <3>1. PICK y \in Zones, n \in Entries :
                dep[y] > 0 /\ ptr[z] = <<"zone", y, n>> /\ content[y][n] = z
        BY <2>4 DEF FromZone
      <3>2. y # block /\ ~(call.level # 1 /\ y = call.bh /\ n = Index)
        BY <1>1, <1>7, <3>1, Sizes
      <3>3. content'[y][n] = z /\ p[z] = <<"zone", y, n>> /\ d[y] > 0
        BY <2>4, <3>1, <3>2
      <3> QED BY <3>3 DEF FromZone
    <2> QED BY <2>1, <2>2, <2>3, <2>4 DEF Forest
  <1> QED BY <1>8, <1>9, <1>10, <1>11 DEF Forest

(* The bitmap of a zone. *)
LEMMA InUseIs ==
    ASSUME NEW block \in Zones
    PROVE  /\ zmap' = zmap \cup {Bit(block)} /\ Bit(block) \notin zmap0
              => \A z \in Zones : InUse(z)' <=> InUse(z) \/ z = block
           /\ zmap' = zmap \ {Bit(block)}
              => \A z \in Zones : InUse(z)' <=> InUse(z) /\ z # block
  <1>1. \A z \in Zones : Bit(z) = Bit(block) => z = block
    BY Sizes
  <1>2. \A z : InUse(z)' <=> Bit(z) \in zmap' /\ Bit(z) \notin zmap0
    BY DEF InUse, Bit
  <1> QED BY <1>1, <1>2 DEF InUse

(* What create_block and its caller write. *)
LEMMA CreateIs ==
    ASSUME NEW ptr, NEW dep, NEW rt, CallOK(ptr, dep, rt), TypeOK, locate_create,
           NEW block \in Zones, block = add_zone_bitmap
    PROVE  /\ i_zone' \in [Inodes -> [Slots -> Zones \cup {0}]]
           /\ \A i \in Inodes, s \in Slots :
                 i_zone'[i][s] = IF call.level = 1 /\ i = call.inode /\ s = Index THEN block
                                 ELSE i_zone[i][s]
           /\ content' \in [Zones -> [Entries -> Zones \cup {0}]]
           /\ \A y \in Zones, n \in Entries :
                 content'[y][n] = IF call.level # 1 /\ y = call.bh /\ n = Index THEN block
                                  ELSE IF y = block THEN 0 ELSE content[y][n]
  <1>1. block = add_zone_bitmap
    OBVIOUS
  <1>2. block \in Zones
    OBVIOUS
  <1>3. /\ call.inode \in Inodes
        /\ call.level = 1 => Index \in Slots
        /\ call.level # 1 => Index \in Entries /\ call.bh \in Zones
    BY IndexIs DEF locate_create
  <1>4. /\ i_zone \in [Inodes -> [Slots -> Zones \cup {0}]]
        /\ content \in [Zones -> [Entries -> Zones \cup {0}]]
    BY DEF TypeOK
  <1>5. Empty \in [Entries -> Zones \cup {0}] /\ \A n \in Entries : Empty[n] = 0
    BY DEF Empty
  <1>6. /\ i_zone' \in [Inodes -> [Slots -> Zones \cup {0}]]
         /\ \A i \in Inodes, s \in Slots :
               i_zone'[i][s] = IF call.level = 1 /\ i = call.inode /\ s = Index THEN block
                               ELSE i_zone[i][s]
    <2>1. CASE call.level = 1
      <3>1. i_zone' = [i_zone EXCEPT ![call.inode][Index] = block]
        BY <1>1, <2>1 DEF locate_create
      <3>2. i_zone[call.inode] \in [Slots -> Zones \cup {0}]
        BY <1>3, <1>4
      <3>3. [i_zone[call.inode] EXCEPT ![Index] = block] \in [Slots -> Zones \cup {0}]
        BY <1>2, <3>2
      <3> QED BY <1>2, <1>3, <1>4, <2>1, <3>1, <3>2, <3>3
    <2>2. CASE call.level # 1
      <3>1. i_zone' = i_zone
        BY <2>2 DEF locate_create
      <3> QED BY <1>4, <2>2, <3>1
    <2> QED BY <2>1, <2>2
  <1>7. /\ content' \in [Zones -> [Entries -> Zones \cup {0}]]
         /\ \A y \in Zones, n \in Entries :
               content'[y][n] = IF call.level # 1 /\ y = call.bh /\ n = Index THEN block
                                ELSE IF y = block THEN 0 ELSE content[y][n]
    <2> DEFINE clean == [content EXCEPT ![block] = Empty]
    <2>1. clean \in [Zones -> [Entries -> Zones \cup {0}]]
      BY <1>2, <1>4, <1>5
    <2>2. \A y \in Zones, n \in Entries : clean[y][n] = IF y = block THEN 0 ELSE content[y][n]
      BY <1>2, <1>4, <1>5
    <2>3. create_block(block) = clean
      BY DEF create_block
    <2> HIDE DEF clean
    <2>4. CASE call.level # 1
      <3>1. content' = [clean EXCEPT ![call.bh][Index] = block]
        BY <1>1, <2>3, <2>4 DEF locate_create
      <3>2. clean[call.bh] \in [Entries -> Zones \cup {0}]
        BY <1>3, <2>1, <2>4
      <3>3. [clean[call.bh] EXCEPT ![Index] = block] \in [Entries -> Zones \cup {0}]
        BY <1>2, <3>2
      <3> QED BY <1>2, <1>3, <2>1, <2>2, <2>4, <3>1, <3>2, <3>3
    <2>5. CASE call.level = 1
      <3>1. content' = clean
        BY <1>1, <2>3, <2>5 DEF locate_create
      <3> QED BY <2>1, <2>2, <2>5, <3>1
    <2> QED BY <2>4, <2>5
  <1> QED BY <1>6, <1>7

LEMMA LocateCreate == IInv /\ locate_create => IInv'
  <1> SUFFICES ASSUME IInv, locate_create PROVE IInv'
    OBVIOUS
  <1>1. PICK ptr, dep, rt : State(ptr, dep, rt)
    BY DEF IInv
  <1>2. PICK block : block = add_zone_bitmap
    OBVIOUS
  <1>3. /\ pc = "locate" /\ Pointer = 0 /\ block # 0
        /\ zmap' = zmap \cup {Bit(block)}
        /\ UNCHANGED <<boot, lost, todo>>
        /\ Onward(block)
    BY <1>2 DEF locate_create, set_bit
  <1>4. /\ TypeOK /\ zmap0 \subseteq zmap
        /\ Forest(ptr, dep, rt) /\ Accounts(ptr, rt) /\ TodoOK(ptr, dep, rt) /\ CallOK(ptr, dep, rt)
    BY <1>1 DEF IInv, State
  <1>5. /\ block \in Zones /\ Bit(block) \in Bits /\ Bit(block) \notin zmap
        /\ Bit(block) \notin zmap0
    BY <1>2, <1>3, <1>4, NewZone, Sizes
  <1>6. ptr[block] = None
    BY <1>3, <1>4, <1>5 DEF Accounts, InUse, Kept, Owned
  <1>7. /\ call.inode \in Inodes
        /\ call.level = 1 => Index \in Slots
        /\ call.level # 1 => Index \in Entries /\ call.bh \in Zones
    BY <1>3, <1>4, IndexIs
  <1>8. /\ i_zone' \in [Inodes -> [Slots -> Zones \cup {0}]]
        /\ \A i \in Inodes, s \in Slots :
              i_zone'[i][s] = IF call.level = 1 /\ i = call.inode /\ s = Index THEN block
                              ELSE i_zone[i][s]
        /\ content' \in [Zones -> [Entries -> Zones \cup {0}]]
        /\ \A y \in Zones, n \in Entries :
              content'[y][n] = IF call.level # 1 /\ y = call.bh /\ n = Index THEN block
                               ELSE IF y = block THEN 0 ELSE content[y][n]
    BY <1>2, <1>4, <1>5, CreateIs
  <1> DEFINE at == IF call.level = 1 THEN <<"inode", call.inode, Index>>
                   ELSE <<"zone", call.bh, Index>>
             left == Len(call.path) - call.level
  <1>12. PICK p, d, r :
            /\ \A z \in Zones : z # block => p[z] = ptr[z] /\ d[z] = dep[z] /\ r[z] = rt[z]
            /\ p[block] = at /\ d[block] = left /\ r[block] = call.inode
    <2> DEFINE p2 == [z \in Zones |-> IF z = block THEN at ELSE ptr[z]]
               d2 == [z \in Zones |-> IF z = block THEN left ELSE dep[z]]
               r2 == [z \in Zones |-> IF z = block THEN call.inode ELSE rt[z]]
    <2>1. /\ \A z \in Zones : z # block => p2[z] = ptr[z] /\ d2[z] = dep[z] /\ r2[z] = rt[z]
          /\ p2[block] = at /\ d2[block] = left /\ r2[block] = call.inode
      BY <1>5
    <2> HIDE DEF p2, d2, r2, at, left
    <2> QED BY <2>1
  <1>13. Forest(p, d, r)'
    <2>1. pc = "locate" /\ Pointer = 0
      BY <1>3
    <2>2. \A i \in Inodes, s \in Slots :
             i_zone'[i][s] = IF call.level = 1 /\ i = call.inode /\ s = Index THEN block
                             ELSE i_zone[i][s]
      BY <1>8
    <2>3. \A y \in Zones, n \in Entries :
             content'[y][n] = IF call.level # 1 /\ y = call.bh /\ n = Index THEN block
                              ELSE IF y = block THEN 0 ELSE content[y][n]
      BY <1>8
    <2>4. /\ p[block] = IF call.level = 1 THEN <<"inode", call.inode, Index>>
                        ELSE <<"zone", call.bh, Index>>
          /\ d[block] = Len(call.path) - call.level
          /\ r[block] = call.inode
      BY <1>12
    <2>5. \A z \in Zones : z # block => p[z] = ptr[z] /\ d[z] = dep[z] /\ r[z] = rt[z]
      BY <1>12
    <2> HIDE DEF at, left
    <2> QED BY <1>4, <1>5, <1>6, <2>1, <2>2, <2>3, <2>4, <2>5, ForestGrows
  <1>14. p[block] # None
    <2>1. p[block][1] # "none"
      BY <1>12
    <2> QED BY <2>1 DEF None
  <1>15. Owned(p, block) /\ d[block] = left /\ r[block] = call.inode
    BY <1>12, <1>14 DEF Owned
  <1>16. CallOK(p, d, r)' /\ pc' \in {"idle", "locate"}
    BY <1>3, <1>4, <1>5, <1>15, WalksOn
  <1>17. todo = <<>> /\ Len(todo) = 0 /\ todo' = todo
    BY <1>3, <1>4 DEF TodoOK
  <1>18. TodoOK(p, d, r)'
    <2>1. todo' \in Seq([zone : Zones \cup {0}, depth : 0..2]) /\ Len(todo') = 0
      BY <1>17
    <2> QED BY <1>17, <2>1 DEF TodoOK
  <1>19. Accounts(p, r)'
    <2>1. \A z : ~Pending(ptr, z) /\ ~Pending(p, z)'
      BY <1>17 DEF Pending
    <2>2. \A z \in Zones : Kept(p, r, z)' <=> Kept(ptr, rt, z) \/ z = block
      BY <1>3, <1>12, <1>14, <1>16 DEF Kept, Owned
    <2>3. \A z \in Zones : InUse(z)' <=> InUse(z) \/ z = block
      BY <1>3, <1>5, InUseIs
    <2>4. block \notin lost
      BY <1>4, <1>5 DEF Accounts, InUse
    <2> QED BY <1>3, <1>4, <2>1, <2>2, <2>3, <2>4 DEF Accounts
  <1>20. (TypeOK /\ zmap0 \subseteq zmap /\ pc # "panic")'
    <2>1. boot' \in {"intact", "cleared"} /\ lost' \subseteq Zones /\ zmap' \subseteq Bits
      BY <1>3, <1>4, <1>5 DEF TypeOK
    <2> QED BY <1>3, <1>4, <1>8, <1>16, <2>1 DEF TypeOK
  <1> QED BY <1>13, <1>16, <1>18, <1>19, <1>20 DEF IInv, State

-----------------------------------------------------------------------------
(* The forest: a zone in a file is below a slot of the file's inode, and   *)
(* below no other.                                                         *)
Under(ptr, z, y) == z = y \/ Par(ptr, z) = y \/ Par(ptr, Par(ptr, z)) = y

(* What the forest says of the pointer to a zone. *)
AtRoot(ptr, dep, rt, z) ==
    /\ Par(ptr, z) = 0 /\ rt[z] \in Inodes
    /\ \E s \in Slots : /\ ptr[z] = <<"inode", rt[z], s>> /\ i_zone[rt[z]][s] = z
                        /\ dep[z] = SlotDepth(s)
Inside(ptr, dep, rt, z) ==
    LET y == Par(ptr, z)
    IN  /\ y \in Zones /\ Owned(ptr, y) /\ dep[y] \in {1, 2}
        /\ dep[z] = dep[y] - 1 /\ rt[z] = rt[y]
        /\ \E n \in Entries : ptr[z] = <<"zone", y, n>> /\ content[y][n] = z

LEMMA Pointed ==
    ASSUME NEW ptr, NEW dep, NEW rt, Forest(ptr, dep, rt),
           NEW z \in Zones, Owned(ptr, z)
    PROVE  AtRoot(ptr, dep, rt, z) \/ Inside(ptr, dep, rt, z)
  <1>1. z # 0
    BY Sizes
  <1>2. CASE FromInode(ptr, z)
    <2>1. PICK i \in Inodes, s \in Slots : ptr[z] = <<"inode", i, s>> /\ i_zone[i][s] = z
      BY <1>2 DEF FromInode
    <2>2. dep[z] = SlotDepth(s) /\ rt[z] = i
      BY <1>1, <2>1 DEF Forest
    <2>3. Par(ptr, z) = 0
      BY <2>1 DEF Par
    <2> QED BY <2>1, <2>2, <2>3 DEF AtRoot
  <1>3. CASE FromZone(ptr, dep, z)
    <2>1. PICK y \in Zones, n \in Entries :
              dep[y] > 0 /\ ptr[z] = <<"zone", y, n>> /\ content[y][n] = z
      BY <1>3 DEF FromZone
    <2>2. dep[z] = dep[y] - 1 /\ rt[z] = rt[y]
      BY <1>1, <2>1 DEF Forest
    <2>3. Par(ptr, z) = y
      BY <2>1 DEF Par
    <2>4. dep[y] \in {1, 2} /\ Owned(ptr, y)
      <3>1. dep[y] \in 0..2 /\ dep[y] # 0 /\ (ptr[y] = None => dep[y] = 0)
        BY <2>1 DEF Forest
      <3> QED BY <3>1 DEF Owned
    <2> QED BY <2>1, <2>2, <2>3, <2>4 DEF Inside
  <1> QED BY <1>2, <1>3 DEF Forest, Owned

LEMMA ParentIs ==
    ASSUME NEW ptr, NEW dep, NEW rt, Forest(ptr, dep, rt), NEW z, Par(ptr, z) # 0
    PROVE  z \in Zones /\ Owned(ptr, z) /\ Inside(ptr, dep, rt, z)
  <1>1. z \in Zones /\ ptr[z][1] = "zone"
    BY DEF Par
  <1>2. Owned(ptr, z)
    BY <1>1 DEF Owned, None
  <1> QED BY <1>1, <1>2, Pointed DEF AtRoot

(* Depths along a branch: at most three zones. *)
LEMMA Depths ==
    ASSUME NEW ptr, NEW dep, NEW rt, Forest(ptr, dep, rt), NEW z \in Zones, Owned(ptr, z)
    PROVE  /\ Par(ptr, z) # 0 => dep[z] = dep[Par(ptr, z)] - 1
           /\ Par(ptr, Par(ptr, z)) # 0 =>
                  /\ Par(ptr, z) # 0 /\ dep[z] = 0 /\ dep[Par(ptr, z)] = 1
                  /\ dep[Par(ptr, Par(ptr, z))] = 2
                  /\ Par(ptr, Par(ptr, Par(ptr, z))) = 0
           /\ Par(ptr, 0) = 0
  <1> DEFINE y == Par(ptr, z)
             x == Par(ptr, y)
             w == Par(ptr, x)
  <1>1. y # 0 => dep[y] \in {1, 2} /\ dep[z] = dep[y] - 1
    BY ParentIs DEF Inside
  <1>2. x # 0 => y # 0 /\ dep[x] \in {1, 2} /\ dep[y] = dep[x] - 1
    <2>1. Par(ptr, 0) = 0
      BY Sizes DEF Par
    <2> HIDE DEF y
    <2> QED BY <2>1, ParentIs DEF Inside
  <1>3. w # 0 => dep[w] \in {1, 2} /\ dep[x] = dep[w] - 1 /\ x # 0
    <2>1. Par(ptr, 0) = 0
      BY Sizes DEF Par
    <2> HIDE DEF x
    <2> QED BY <2>1, ParentIs DEF Inside
  <1>4. Par(ptr, 0) = 0
    BY Sizes DEF Par
  <1> HIDE DEF y, x, w
  <1>5. x # 0 => y # 0 /\ dep[z] = 0 /\ dep[y] = 1 /\ dep[x] = 2
    BY <1>1, <1>2
  <1>6. x # 0 => w = 0
    BY <1>2, <1>3, <1>5
  <1> QED BY <1>1, <1>4, <1>5, <1>6 DEF w, x, y

LEMMA KidsAre ==
    ASSUME NEW ptr, NEW dep, NEW rt, Forest(ptr, dep, rt), TypeOK, NEW y \in Zones, dep[y] > 0
    PROVE  Kids(y) = {z \in Zones : Par(ptr, z) = y}
  <1>1. ASSUME NEW z \in Kids(y) PROVE z \in Zones /\ Par(ptr, z) = y
    <2>1. PICK n \in Entries : z = content[y][n] /\ z # 0
      BY DEF Kids
    <2>2. z \in Zones
      BY <2>1 DEF TypeOK
    <2>3. ptr[z] = <<"zone", y, n>>
      BY <2>1 DEF Forest
    <2> QED BY <2>2, <2>3 DEF Par
  <1>2. ASSUME NEW z \in Zones, Par(ptr, z) = y PROVE z \in Kids(y)
    <2>1. Inside(ptr, dep, rt, z) /\ z # 0
      BY <1>2, ParentIs, Sizes
    <2>2. PICK n \in Entries : content[y][n] = z
      BY <1>2, <2>1 DEF Inside
    <2> QED BY <2>1, <2>2 DEF Kids
  <1> QED BY <1>1, <1>2

LEMMA BelowIs ==
    ASSUME NEW ptr, NEW dep, NEW rt, Forest(ptr, dep, rt), TypeOK,
           NEW y \in Zones, dep[y] \in {1, 2}
    PROVE  Below(y, dep[y]) = {z \in Zones : Par(ptr, z) = y \/ Par(ptr, Par(ptr, z)) = y}
  <1>1. Kids(y) = {z \in Zones : Par(ptr, z) = y}
    BY KidsAre
  <1>2. \A z \in Zones : Par(ptr, Par(ptr, z)) = y => dep[y] = 2 /\ dep[Par(ptr, z)] = 1
    <2> TAKE z \in Zones
    <2> HAVE Par(ptr, Par(ptr, z)) = y
    <2>1. Par(ptr, z) # 0 /\ y # 0
      BY Sizes DEF Par
    <2> QED BY <2>1, ParentIs, Depths
  <1>3. CASE dep[y] = 1
    BY <1>1, <1>2, <1>3 DEF Below
  <1>4. CASE dep[y] = 2
    <2>1. \A x \in Kids(y) : x \in Zones /\ dep[x] = 1
      <3> TAKE x \in Kids(y)
      <3>1. x \in Zones /\ Par(ptr, x) = y /\ y # 0
        BY <1>1, Sizes
      <3>2. dep[x] = dep[y] - 1
        BY <3>1, ParentIs DEF Inside
      <3> QED BY <1>4, <3>1, <3>2
    <2>2. \A x \in Kids(y) : Kids(x) = {z \in Zones : Par(ptr, z) = x}
      BY <2>1, KidsAre
    <2>3. UNION {Kids(x) : x \in Kids(y)} = {z \in Zones : Par(ptr, Par(ptr, z)) = y}
      <3>1. ASSUME NEW z \in Zones, Par(ptr, Par(ptr, z)) = y
            PROVE  Par(ptr, z) \in Kids(y) /\ z \in Kids(Par(ptr, z))
        <4>1. Par(ptr, z) \in Zones
          BY <3>1, Sizes DEF Par
        <4>2. Par(ptr, z) \in Kids(y)
          BY <1>1, <3>1, <4>1
        <4> QED BY <2>2, <4>2
      <3>2. ASSUME NEW x \in Kids(y), NEW z \in Kids(x)
            PROVE  z \in Zones /\ Par(ptr, Par(ptr, z)) = y
        BY <1>1, <2>2
      <3> HIDE <1>1, <2>2
      <3> QED BY <3>1, <3>2
    <2>4. Below(y, 2) = Kids(y) \cup UNION {Kids(x) : x \in Kids(y)}
      BY DEF Below
    <2> QED BY <1>1, <1>4, <2>3, <2>4
  <1> QED BY <1>3, <1>4

(* The zones of a file are those below its slots, each below one of them. *)
LEMMA RootExists ==
    ASSUME NEW ptr, NEW dep, NEW rt, Forest(ptr, dep, rt), NEW z \in Zones, Owned(ptr, z)
    PROVE  /\ rt[z] \in Inodes
           /\ \E s \in Slots : i_zone[rt[z]][s] # 0 /\ Under(ptr, z, i_zone[rt[z]][s])
  <1>1. ASSUME NEW y \in Zones, Owned(ptr, y), Par(ptr, y) = 0
        PROVE  rt[y] \in Inodes /\ \E s \in Slots : i_zone[rt[y]][s] # 0 /\ i_zone[rt[y]][s] = y
    <2>1. AtRoot(ptr, dep, rt, y) /\ y # 0
      BY <1>1, Pointed, Sizes DEF Inside
    <2> QED BY <2>1 DEF AtRoot
  <1>2. \A y : Par(ptr, y) # 0 => /\ y \in Zones /\ rt[y] = rt[Par(ptr, y)]
                                  /\ Par(ptr, y) \in Zones /\ Owned(ptr, Par(ptr, y))
    BY ParentIs DEF Inside
  <1> DEFINE y == Par(ptr, z)
             x == Par(ptr, y)
  <1>3. CASE y = 0
    BY <1>1, <1>3 DEF Under
  <1>4. CASE y # 0 /\ x = 0
    BY <1>1, <1>2, <1>4 DEF Under
  <1>5. CASE y # 0 /\ x # 0
    <2>1. Par(ptr, x) = 0
      BY <1>5, Depths
    <2> QED BY <1>1, <1>2, <1>5, <2>1 DEF Under
  <1> QED BY <1>3, <1>4, <1>5

LEMMA UnderOwned ==
    ASSUME NEW ptr, NEW dep, NEW rt, Forest(ptr, dep, rt), NEW z \in Zones,
           NEW y \in Zones, Owned(ptr, y), Under(ptr, z, y)
    PROVE  Owned(ptr, z) /\ rt[z] = rt[y]
  <1>1. y # 0 /\ Par(ptr, 0) = 0
    BY Sizes DEF Par
  <1>2. \A x : Par(ptr, x) # 0 => /\ x \in Zones /\ Owned(ptr, x) /\ rt[x] = rt[Par(ptr, x)]
    BY ParentIs DEF Inside
  <1> QED BY <1>1, <1>2 DEF Under

LEMMA RootUnique ==
    ASSUME NEW ptr, NEW dep, NEW rt, Forest(ptr, dep, rt), NEW z \in Zones,
           NEW i \in Inodes, NEW s \in Slots, NEW t \in Slots,
           i_zone[i][s] # 0, i_zone[i][t] # 0,
           Under(ptr, z, i_zone[i][s]), Under(ptr, z, i_zone[i][t])
    PROVE  s = t
  <1> DEFINE x == i_zone[i][s]
             y == i_zone[i][t]
  <1>1. ptr[x] = <<"inode", i, s>> /\ ptr[y] = <<"inode", i, t>>
    BY DEF Forest
  <1>2. Par(ptr, x) = 0 /\ Par(ptr, y) = 0 /\ Par(ptr, 0) = 0
    BY <1>1, Sizes DEF Par
  <1>3. x # 0 /\ y # 0
    OBVIOUS
  <1>4. Under(ptr, z, x) /\ Under(ptr, z, y)
    OBVIOUS
  <1> HIDE DEF x, y
  <1>5. x = y
    BY <1>2, <1>3, <1>4 DEF Under
  <1>6. <<"inode", i, s>> = <<"inode", i, t>>
    BY <1>1, <1>5
  <1> QED BY <1>6

(* What a task of truncate will delete. *)
LEMMA CoversIs ==
    ASSUME NEW ptr, NEW dep, NEW rt, Forest(ptr, dep, rt), NEW t, t.zone \in Zones,
           NEW z \in Zones
    PROVE  /\ t.depth = dep[t.zone] => (Covers(ptr, t, z) <=> Under(ptr, z, t.zone))
           /\ t.depth = 0 => (Covers(ptr, t, z) <=> z = t.zone)
  <1> DEFINE y == t.zone
  <1>1. y # 0 /\ Par(ptr, 0) = 0
    BY Sizes DEF Par
  <1>2. Par(ptr, z) = y => dep[y] \in {1, 2}
    BY <1>1, ParentIs DEF Inside
  <1>3. Par(ptr, Par(ptr, z)) = y => dep[y] = 2
    <2> HAVE Par(ptr, Par(ptr, z)) = y
    <2>1. Par(ptr, z) # 0
      BY <1>1
    <2>2. Owned(ptr, z)
      BY <2>1, ParentIs
    <2> QED BY <1>1, <2>2, Depths
  <1> QED BY <1>1, <1>2, <1>3 DEF Covers, Under

-----------------------------------------------------------------------------
(* The tasks of truncate. *)
TaskSet == [zone : Zones \cup {0}, depth : 0..2]

LEMMA TaskIs ==
    /\ \A z, d : Task(z, d).zone = z /\ Task(z, d).depth = d
    /\ \A z \in Zones \cup {0}, d \in 0..2 : Task(z, d) \in TaskSet
BY DEF Task, TaskSet

LEMMA TruncateIs ==
    ASSUME TypeOK, NEW i \in Inodes
    PROVE  /\ truncate(i) \in Seq(TaskSet) /\ Len(truncate(i)) = DIRECT + 2
           /\ \A k \in 1..(DIRECT + 2) :
                 k - 1 \in Slots /\ truncate(i)[k] = Task(i_zone[i][k - 1], SlotDepth(k - 1))
  <1> DEFINE direct == Tasks(i_zone[i], DIRECT, 0)
             rest == <<Task(i_zone[i][DIRECT], 1), Task(i_zone[i][DIRECT + 1], 2)>>
  <1>1. \A s \in Slots : i_zone[i][s] \in Zones \cup {0}
    BY DEF TypeOK
  <1>2. \A k \in 1..DIRECT : k - 1 \in Slots /\ k - 1 < DIRECT
    BY Sizes
  <1>3. direct \in Seq(TaskSet) /\ Len(direct) = DIRECT
        /\ \A k \in 1..DIRECT : direct[k] = Task(i_zone[i][k - 1], 0)
    <2>1. \A k \in 1..DIRECT : Task(i_zone[i][k - 1], 0) \in TaskSet
      BY <1>1, <1>2, TaskIs
    <2>2. direct = [k \in 1..DIRECT |-> Task(i_zone[i][k - 1], 0)]
      BY DEF Tasks
    <2> HIDE DEF direct
    <2> QED BY <2>1, <2>2, Sizes
  <1>4. rest \in Seq(TaskSet) /\ Len(rest) = 2
        /\ rest[1] = Task(i_zone[i][DIRECT], 1) /\ rest[2] = Task(i_zone[i][DIRECT + 1], 2)
    <2>1. Task(i_zone[i][DIRECT], 1) \in TaskSet /\ Task(i_zone[i][DIRECT + 1], 2) \in TaskSet
      BY <1>1, Sizes, TaskIs
    <2> HIDE DEF TaskSet
    <2> QED BY <2>1
  <1>5. truncate(i) = direct \o rest
    BY DEF truncate
  <1> HIDE DEF direct, rest
  <1>6. truncate(i) \in Seq(TaskSet) /\ Len(truncate(i)) = DIRECT + 2
        /\ \A k \in 1..(DIRECT + 2) :
              truncate(i)[k] = IF k <= DIRECT THEN direct[k] ELSE rest[k - DIRECT]
    <2>1. /\ direct \o rest \in Seq(TaskSet) /\ Len(direct \o rest) = Len(direct) + Len(rest)
          /\ \A k \in 1..(Len(direct) + Len(rest)) :
                (direct \o rest)[k] = IF k <= Len(direct) THEN direct[k] ELSE rest[k - Len(direct)]
      <3> HIDE DEF TaskSet
      <3> QED BY <1>3, <1>4, ConcatProperties
    <2> QED BY <1>3, <1>4, <1>5, <2>1
  <1>7. ASSUME NEW k \in 1..(DIRECT + 2)
        PROVE  /\ k - 1 \in Slots
               /\ truncate(i)[k] = Task(i_zone[i][k - 1], SlotDepth(k - 1))
    <2>1. CASE k <= DIRECT
      <3>1. k \in 1..DIRECT
        BY <2>1, Sizes
      <3>2. truncate(i)[k] = Task(i_zone[i][k - 1], 0)
        BY <1>3, <1>6, <2>1, <3>1
      <3>3. SlotDepth(k - 1) = 0 /\ k - 1 \in Slots
        BY <1>2, <3>1 DEF SlotDepth
      <3> QED BY <3>2, <3>3
    <2>2. CASE k = DIRECT + 1
      <3>1. k - 1 = DIRECT /\ k - DIRECT = 1 /\ ~(k <= DIRECT)
        BY <2>2, Sizes
      <3> QED BY <1>4, <1>6, <3>1, Sizes
    <2>3. CASE k = DIRECT + 2
      <3>1. k - 1 = DIRECT + 1 /\ k - DIRECT = 2 /\ ~(k <= DIRECT)
        BY <2>3, Sizes
      <3> QED BY <1>4, <1>6, <3>1, Sizes
    <2> QED BY <2>1, <2>2, <2>3, Sizes
  <1> QED BY <1>6, <1>7

-----------------------------------------------------------------------------
(* put_inode: truncate has every zone of the file to delete, once; of an   *)
(* inode without a file type all are lost.                                 *)
LEMMA TruncateCovers ==
    ASSUME NEW ptr, NEW dep, NEW rt, Forest(ptr, dep, rt), TypeOK, NEW i \in Inodes
    PROVE  /\ \A m \in 1..(DIRECT + 2) :
                 LET t == truncate(i)[m]
                 IN  t.zone # 0 => Owned(ptr, t.zone) /\ rt[t.zone] = i /\ t.depth = dep[t.zone]
           /\ \A m, n \in 1..(DIRECT + 2), z \in Zones :
                 Covers(ptr, truncate(i)[m], z) /\ Covers(ptr, truncate(i)[n], z) => m = n
           /\ \A z \in Zones : (\E m \in 1..(DIRECT + 2) : Covers(ptr, truncate(i)[m], z))
                                   <=> Owned(ptr, z) /\ rt[z] = i
  <1> DEFINE t(m) == truncate(i)[m]
  <1>1. ASSUME NEW m \in 1..(DIRECT + 2)
        PROVE  /\ m - 1 \in Slots /\ t(m).zone = i_zone[i][m - 1]
               /\ t(m).depth = SlotDepth(m - 1) /\ t(m).zone \in Zones \cup {0}
    BY TruncateIs, TaskIs DEF TypeOK
  <1>2. ASSUME NEW m \in 1..(DIRECT + 2), t(m).zone # 0
        PROVE  /\ Owned(ptr, t(m).zone) /\ rt[t(m).zone] = i /\ t(m).depth = dep[t(m).zone]
               /\ t(m).zone \in Zones
    <2>1. /\ m - 1 \in Slots /\ t(m).zone = i_zone[i][m - 1] /\ t(m).depth = SlotDepth(m - 1)
          /\ t(m).zone \in Zones
      BY <1>1, <1>2
    <2>2. /\ ptr[t(m).zone] = <<"inode", i, m - 1>> /\ dep[t(m).zone] = SlotDepth(m - 1)
          /\ rt[t(m).zone] = i
      BY <1>2, <2>1 DEF Forest
    <2> QED BY <2>1, <2>2 DEF Owned, None
  <1>3. ASSUME NEW m \in 1..(DIRECT + 2), NEW z \in Zones
        PROVE  Covers(ptr, t(m), z) <=> t(m).zone # 0 /\ Under(ptr, z, t(m).zone)
    BY <1>2, CoversIs DEF Covers
  <1>4. ASSUME NEW m \in 1..(DIRECT + 2), NEW n \in 1..(DIRECT + 2), NEW z \in Zones,
               Covers(ptr, t(m), z), Covers(ptr, t(n), z)
        PROVE  m = n
    <2>1. /\ t(m).zone # 0 /\ Under(ptr, z, t(m).zone)
          /\ t(n).zone # 0 /\ Under(ptr, z, t(n).zone)
      BY <1>3, <1>4
    <2>2. /\ m - 1 \in Slots /\ t(m).zone = i_zone[i][m - 1]
          /\ n - 1 \in Slots /\ t(n).zone = i_zone[i][n - 1]
      BY <1>1
    <2> HIDE DEF t
    <2>3. m - 1 = n - 1
      BY <2>1, <2>2, RootUnique
    <2> QED BY <2>3
  <1>5. ASSUME NEW z \in Zones, Owned(ptr, z), rt[z] = i
        PROVE  \E m \in 1..(DIRECT + 2) : Covers(ptr, t(m), z)
    <2>1. PICK s \in Slots : i_zone[i][s] # 0 /\ Under(ptr, z, i_zone[i][s])
      BY <1>5, RootExists
    <2>2. s + 1 \in 1..(DIRECT + 2) /\ (s + 1) - 1 = s
      BY Sizes
    <2>3. t(s + 1).zone = i_zone[i][s]
      BY <1>1, <2>2
    <2> HIDE DEF t
    <2>4. Covers(ptr, t(s + 1), z)
      BY <1>3, <2>1, <2>2, <2>3
    <2> QED BY <2>2, <2>4
  <1>6. ASSUME NEW z \in Zones, NEW m \in 1..(DIRECT + 2), Covers(ptr, t(m), z)
        PROVE  Owned(ptr, z) /\ rt[z] = i
    BY <1>2, <1>3, <1>6, UnderOwned
  <1> QED BY <1>2, <1>4, <1>5, <1>6

LEMMA AllZonesAre ==
    ASSUME NEW ptr, NEW dep, NEW rt, Forest(ptr, dep, rt), TypeOK, NEW i \in Inodes
    PROVE  AllZones(i) \ {0} = {z \in Zones : Owned(ptr, z) /\ rt[z] = i}
  <1> DEFINE z(s) == i_zone[i][s]
             below(s) == IF z(s) = 0 THEN {} ELSE Below(z(s), SlotDepth(s))
  <1>1. ASSUME NEW s \in Slots, z(s) # 0
        PROVE  /\ z(s) \in Zones /\ Owned(ptr, z(s)) /\ rt[z(s)] = i /\ dep[z(s)] = SlotDepth(s)
    <2>1. z(s) \in Zones
      BY <1>1 DEF TypeOK
    <2>2. ptr[z(s)] = <<"inode", i, s>> /\ dep[z(s)] = SlotDepth(s) /\ rt[z(s)] = i
      BY <1>1 DEF Forest
    <2> QED BY <2>1, <2>2 DEF Owned, None
  <1>2. \A u : u \in AllZones(i) \ {0}
             <=> u # 0 /\ \E s \in Slots : u = z(s) \/ (s >= DIRECT /\ u \in below(s))
    <2>1. AllZones(i) = {z(s) : s \in 0..(DIRECT - 1)}
                        \cup ({z(DIRECT)} \cup below(DIRECT))
                        \cup ({z(DIRECT + 1)} \cup below(DIRECT + 1))
      <3>1. DIRECT - 1 + 1 = DIRECT /\ DIRECT - 1 + 2 = DIRECT + 1
        BY Sizes
      <3>2. SlotDepth(DIRECT) = 1 /\ SlotDepth(DIRECT + 1) = 2
        BY Sizes
      <3> DEFINE part(d) == {i_zone[i][DIRECT - 1 + d]} \cup
                      (IF i_zone[i][DIRECT - 1 + d] = 0 THEN {}
                       ELSE Below(i_zone[i][DIRECT - 1 + d], d))
      <3>3. AllZones(i) = {z(s) : s \in 0..(DIRECT - 1)} \cup UNION {part(d) : d \in {1, 2}}
        BY DEF AllZones
      <3>4. part(1) = {z(DIRECT)} \cup below(DIRECT)
        BY <3>1, <3>2
      <3>5. part(2) = {z(DIRECT + 1)} \cup below(DIRECT + 1)
        BY <3>1, <3>2
      <3> HIDE DEF part, z, below
      <3>6. UNION {part(d) : d \in {1, 2}} = part(1) \cup part(2)
        OBVIOUS
      <3> QED BY <3>3, <3>4, <3>5, <3>6
    <2> HIDE DEF z, below
    <2>2. /\ \A s \in Slots : s \in 0..(DIRECT - 1) \/ s = DIRECT \/ s = DIRECT + 1
          /\ \A s \in 0..(DIRECT - 1) : s \in Slots
          /\ DIRECT \in Slots /\ DIRECT + 1 \in Slots
          /\ DIRECT >= DIRECT /\ DIRECT + 1 >= DIRECT
          /\ \A s \in 0..(DIRECT - 1) : ~(s >= DIRECT)
      BY Sizes
    <2> QED BY <2>1, <2>2
  <1>3. ASSUME NEW s \in Slots, z(s) # 0, s >= DIRECT
        PROVE  below(s) = {u \in Zones : Par(ptr, u) = z(s) \/ Par(ptr, Par(ptr, u)) = z(s)}
    <2>1. SlotDepth(s) \in {1, 2}
      BY <1>3, Sizes DEF SlotDepth
    <2> QED BY <1>1, <1>3, <2>1, BelowIs
  <1>4. ASSUME NEW u \in AllZones(i) \ {0}
        PROVE  u \in Zones /\ Owned(ptr, u) /\ rt[u] = i
    <2>1. PICK s \in Slots : u = z(s) \/ (s >= DIRECT /\ u \in below(s))
      BY <1>2
    <2>2. u # 0
      OBVIOUS
    <2>3. CASE u = z(s)
      BY <1>1, <2>2, <2>3
    <2>4. CASE s >= DIRECT /\ u \in below(s)
      <3>1. z(s) # 0
        BY <2>4
      <3>2. u \in Zones /\ Under(ptr, u, z(s))
        <4> HIDE DEF below, z
        <4> QED BY <1>3, <2>4, <3>1 DEF Under
      <3> HIDE DEF below
      <3> QED BY <1>1, <3>1, <3>2, UnderOwned
    <2> QED BY <2>1, <2>3, <2>4
  <1>5. ASSUME NEW u \in Zones, Owned(ptr, u), rt[u] = i
        PROVE  u \in AllZones(i) \ {0}
    <2>1. PICK s \in Slots : z(s) # 0 /\ Under(ptr, u, z(s))
      BY <1>5, RootExists
    <2>2. u # 0
      BY Sizes
    <2>3. CASE u = z(s)
      BY <1>2, <2>2, <2>3
    <2>4. CASE u # z(s)
      <3>1. Par(ptr, u) = z(s) \/ Par(ptr, Par(ptr, u)) = z(s)
        BY <2>1, <2>4 DEF Under
      <3>2. dep[z(s)] > 0
        <4>1. Par(ptr, u) # 0
          BY <2>1, <3>1, Sizes DEF Par
        <4>2. dep[Par(ptr, u)] \in {1, 2}
          BY <4>1, ParentIs DEF Inside
        <4>3. Par(ptr, Par(ptr, u)) = z(s) => dep[z(s)] = 2
          BY <1>5, <2>1, Depths
        <4> QED BY <3>1, <4>2, <4>3
      <3>3. s >= DIRECT
        BY <1>1, <2>1, <3>2, Sizes DEF SlotDepth
      <3>4. u \in below(s)
        <4> HIDE DEF below, z
        <4> QED BY <1>3, <2>1, <3>1, <3>3
      <3> QED BY <1>2, <2>2, <3>3, <3>4
    <2> QED BY <2>3, <2>4
  <1> QED BY <1>4, <1>5

LEMMA StartPutInode == IInv /\ start_put_inode => IInv'
  <1> SUFFICES ASSUME IInv, start_put_inode PROVE IInv'
    OBVIOUS
  <1>1. PICK i \in Inodes :
            /\ call' = Call(i, <<>>, 1, 0, FALSE)
            /\ todo' = IF i \in regular THEN truncate(i) ELSE <<>>
            /\ lost' = IF i \in regular THEN lost ELSE lost \cup (AllZones(i) \ {0})
    BY DEF start_put_inode
  <1>2. /\ pc = "idle" /\ pc' = "truncate" /\ call'.inode = i
        /\ UNCHANGED <<zmap, content, i_zone, boot>>
    BY <1>1, CallIs DEF start_put_inode
  <1>3. PICK ptr, dep, rt : State(ptr, dep, rt)
    BY DEF IInv
  <1>4. /\ TypeOK /\ zmap0 \subseteq zmap
        /\ Forest(ptr, dep, rt) /\ Accounts(ptr, rt) /\ TodoOK(ptr, dep, rt)
    BY <1>3 DEF IInv, State
  <1>5. Forest(ptr, dep, rt)'
    BY <1>2, <1>4, ForestStays
  <1>6. CallOK(ptr, dep, rt)'
    BY <1>2 DEF CallOK
  <1>7. todo = <<>> /\ Len(todo) = 0
    BY <1>2, <1>4 DEF TodoOK
  <1>8. \A z \in Zones : /\ InUse(z)' <=> InUse(z)
                         /\ Kept(ptr, rt, z) <=> Owned(ptr, z)
                         /\ Kept(ptr, rt, z)' <=> Owned(ptr, z) /\ rt[z] # i
                         /\ ~Pending(ptr, z)
    BY <1>2, <1>7 DEF InUse, Bit, Kept, Owned, Pending
  <1>9. /\ AllZones(i) \ {0} = {z \in Zones : Owned(ptr, z) /\ rt[z] = i}
        /\ lost \subseteq Zones
    BY <1>4, AllZonesAre DEF TypeOK
  <1>10. (TypeOK /\ zmap0 \subseteq zmap /\ pc # "panic")'
    <2>1. lost' \subseteq Zones
      BY <1>1, <1>9
    <2> QED BY <1>2, <1>4, <2>1 DEF TypeOK
  <1>11. CASE i \in regular
    <2>1. todo' = truncate(i) /\ lost' = lost
      BY <1>1, <1>11
    <2>2. /\ truncate(i) \in Seq(TaskSet) /\ Len(truncate(i)) = DIRECT + 2
      BY <1>4, TruncateIs
    <2>3. \A z \in Zones : Pending(ptr, z)' <=> Owned(ptr, z) /\ rt[z] = i
      BY <1>4, <2>1, <2>2, TruncateCovers DEF Pending
    <2>4. Accounts(ptr, rt)'
      BY <1>4, <1>8, <2>1, <2>3 DEF Accounts
    <2>5. TodoOK(ptr, dep, rt)'
      <3>1. \A m \in 1..Len(todo') :
                LET z == todo'[m].zone
                IN  z # 0 => /\ Owned(ptr, z) /\ rt[z] = call'.inode
                             /\ todo'[m].depth \in {0, dep[z]}
        BY <1>2, <1>4, <2>1, <2>2, TruncateCovers
      <3>2. \A m, n \in 1..Len(todo'), z \in Zones :
                Covers(ptr, todo'[m], z) /\ Covers(ptr, todo'[n], z) => m = n
        BY <1>4, <2>1, <2>2, TruncateCovers
      <3>3. todo' \in Seq([zone : Zones \cup {0}, depth : 0..2])
        BY <2>1, <2>2 DEF TaskSet
      <3> QED BY <1>2, <3>1, <3>2, <3>3 DEF TodoOK, Owned
    <2> QED BY <1>5, <1>6, <1>10, <2>4, <2>5 DEF IInv, State
  <1>12. CASE i \notin regular
    <2>1. todo' = <<>> /\ Len(todo') = 0 /\ lost' = lost \cup (AllZones(i) \ {0})
      BY <1>1, <1>12
    <2>2. \A z \in Zones : ~Pending(ptr, z)'
      BY <2>1 DEF Pending
    <2>3. Accounts(ptr, rt)'
      BY <1>4, <1>8, <1>9, <2>1, <2>2 DEF Accounts
    <2>4. TodoOK(ptr, dep, rt)'
      <3>1. todo' \in Seq([zone : Zones \cup {0}, depth : 0..2])
        BY <2>1
      <3> QED BY <2>1, <3>1 DEF TodoOK
    <2> QED BY <1>5, <1>6, <1>10, <2>3, <2>4 DEF IInv, State
  <1> QED BY <1>11, <1>12

-----------------------------------------------------------------------------
(* The first task and the others. *)
LEMMA FirstTask ==
    ASSUME NEW ptr, NEW dep, NEW rt, TodoOK(ptr, dep, rt), todo # <<>>
    PROVE  /\ Current = todo[1] /\ Current \in TaskSet
           /\ Tail(todo) \in Seq(TaskSet) /\ Len(Tail(todo)) = Len(todo) - 1
           /\ Len(todo) \in Nat /\ Len(todo) >= 1
           /\ \A m \in 1..(Len(todo) - 1) : Tail(todo)[m] = todo[m + 1]
           /\ \A m \in 1..Len(todo) : todo[m] \in TaskSet
           /\ \A m \in 2..Len(todo), z \in Zones :
                 Covers(ptr, Current, z) => ~Covers(ptr, todo[m], z)
           /\ Current.zone # 0 =>
                 /\ Owned(ptr, Current.zone) /\ rt[Current.zone] = call.inode
                 /\ Current.depth \in {0, dep[Current.zone]}
                 /\ Current.zone \in Zones
  <1>1. todo \in Seq(TaskSet)
    BY DEF TodoOK, TaskSet
  <1>2. /\ Current = todo[1] /\ Tail(todo) \in Seq(TaskSet) /\ Len(Tail(todo)) = Len(todo) - 1
        /\ Len(todo) \in Nat /\ Len(todo) >= 1
        /\ \A m \in 1..(Len(todo) - 1) : Tail(todo)[m] = todo[m + 1]
        /\ \A m \in 1..Len(todo) : todo[m] \in TaskSet
    <2> HIDE DEF TaskSet
    <2> QED BY <1>1 DEF Current
  <1>3. 1 \in 1..Len(todo)
    BY <1>2
  <1>4. Current \in TaskSet
    BY <1>2, <1>3
  <1>5. \A m \in 2..Len(todo) : m \in 1..Len(todo) /\ m # 1
    BY <1>2
  <1>6. \A m \in 2..Len(todo), z \in Zones : Covers(ptr, Current, z) => ~Covers(ptr, todo[m], z)
    BY <1>2, <1>3, <1>5 DEF TodoOK
  <1>7. Current.zone # 0 =>
                 /\ Owned(ptr, Current.zone) /\ rt[Current.zone] = call.inode
                 /\ Current.depth \in {0, dep[Current.zone]}
    BY <1>2, <1>3 DEF TodoOK
  <1>8. Current.zone # 0 => Current.zone \in Zones
    BY <1>4 DEF TaskSet
  <1> QED BY <1>2, <1>4, <1>6, <1>7, <1>8

(* Pending: what the first task deletes, and the others. *)
LEMMA PendingIs ==
    ASSUME NEW ptr, NEW dep, NEW rt, TodoOK(ptr, dep, rt), todo # <<>>
    PROVE  \A z \in Zones : Pending(ptr, z) <=>
               Covers(ptr, Current, z) \/ \E m \in 2..Len(todo) : Covers(ptr, todo[m], z)
  <1>1. /\ Current = todo[1] /\ Len(todo) \in Nat /\ Len(todo) >= 1
    BY FirstTask
  <1>2. \A m : m \in 1..Len(todo) <=> m = 1 \/ m \in 2..Len(todo)
    BY <1>1
  <1> QED BY <1>1, <1>2 DEF Pending

(* The steps that drop the first task. *)
FirstDropped(ptr, p) ==
    /\ todo' \in Seq([zone : Zones \cup {0}, depth : 0..2])
    /\ \A m \in 1..Len(todo') : m + 1 \in 2..Len(todo) /\ todo'[m] = todo[m + 1]
    /\ \A z \in Zones :
          Pending(p, z)' <=> \E m \in 2..Len(todo) : Covers(ptr, todo[m], z)
    /\ \A m, n \in 1..Len(todo'), z \in Zones :
          Covers(p, todo'[m], z) /\ Covers(p, todo'[n], z) => m = n

LEMMA TailIs ==
    ASSUME NEW ptr, NEW dep, NEW rt, TodoOK(ptr, dep, rt), todo # <<>>, todo' = Tail(todo),
           NEW p, \A z : Par(p, z) = Par(ptr, z)
    PROVE  FirstDropped(ptr, p)
  <1>1. /\ Tail(todo) \in Seq(TaskSet) /\ Len(Tail(todo)) = Len(todo) - 1
        /\ Len(todo) \in Nat /\ Len(todo) >= 1
        /\ \A m \in 1..(Len(todo) - 1) : Tail(todo)[m] = todo[m + 1]
    BY FirstTask
  <1>2. \A m \in 1..Len(todo') : /\ m + 1 \in 2..Len(todo) /\ m + 1 \in 1..Len(todo)
                                 /\ todo'[m] = todo[m + 1]
    BY <1>1
  <1>3. \A t, z : Covers(p, t, z) <=> Covers(ptr, t, z)
    BY DEF Covers
  <1>4. ASSUME NEW z \in Zones
        PROVE  Pending(p, z)' <=> \E m \in 2..Len(todo) : Covers(ptr, todo[m], z)
    <2>1. Pending(p, z)' <=> \E m \in 1..Len(todo') : Covers(ptr, todo'[m], z)
      BY <1>3 DEF Pending, Covers, Par
    <2>2. \A m \in 2..Len(todo) : m - 1 \in 1..Len(todo') /\ (m - 1) + 1 = m
      BY <1>1
    <2> QED BY <1>2, <2>1, <2>2
  <1>5. ASSUME NEW m \in 1..Len(todo'), NEW n \in 1..Len(todo'), NEW z \in Zones,
               Covers(p, todo'[m], z), Covers(p, todo'[n], z)
        PROVE  m = n
    <2>1. m + 1 = n + 1
      BY <1>2, <1>3, <1>5 DEF TodoOK
    <2>2. Len(todo') \in Nat
      BY <1>1
    <2> QED BY <2>1, <2>2
  <1>6. todo' \in Seq([zone : Zones \cup {0}, depth : 0..2])
    BY <1>1 DEF TaskSet
  <1> QED BY <1>2, <1>4, <1>5, <1>6 DEF FirstDropped

LEMMA SkipHole == IInv /\ skip_hole => IInv'
  <1> SUFFICES ASSUME IInv, skip_hole PROVE IInv'
    OBVIOUS
  <1>1. /\ pc = "truncate" /\ todo # <<>> /\ Current.zone = 0 /\ todo' = Tail(todo)
        /\ UNCHANGED <<zmap, content, i_zone, boot, lost, call, pc>>
    BY DEF skip_hole
  <1>2. PICK ptr, dep, rt : State(ptr, dep, rt)
    BY DEF IInv
  <1>3. /\ Forest(ptr, dep, rt) /\ Accounts(ptr, rt) /\ TodoOK(ptr, dep, rt) /\ CallOK(ptr, dep, rt)
    BY <1>2 DEF State
  <1>4. Forest(ptr, dep, rt)' /\ CallOK(ptr, dep, rt)'
    <2>1. Forest(ptr, dep, rt)'
      BY <1>1, <1>3, ForestStays
    <2> QED BY <1>1, <1>3, <2>1 DEF CallOK, Owned
  <1>5. \A z : ~Covers(ptr, Current, z)
    BY <1>1 DEF Covers
  <1>6. FirstDropped(ptr, ptr)
    <2>1. todo # <<>> /\ todo' = Tail(todo) /\ TodoOK(ptr, dep, rt)
      BY <1>1, <1>3
    <2>2. \A z : Par(ptr, z) = Par(ptr, z)
      OBVIOUS
    <2> QED BY <2>1, <2>2, TailIs
  <1>7. Accounts(ptr, rt)'
    <2>1. \A z \in Zones : Pending(ptr, z)' <=> Pending(ptr, z)
      BY <1>1, <1>3, <1>5, <1>6, PendingIs DEF FirstDropped
    <2> QED BY <1>1, <1>3, <2>1 DEF Accounts, InUse, Bit, Kept, Owned
  <1>8. TodoOK(ptr, dep, rt)'
    <2>1. \A m \in 2..Len(todo) : m \in 1..Len(todo)
      BY <1>1, <1>3, FirstTask
    <2>2. \A m \in 1..Len(todo') :
             LET z == todo'[m].zone
             IN  z # 0 => /\ Owned(ptr, z) /\ rt[z] = call'.inode
                          /\ todo'[m].depth \in {0, dep[z]}
      BY <1>1, <1>3, <1>6, <2>1 DEF TodoOK, FirstDropped
    <2> QED BY <1>1, <1>6, <2>2 DEF TodoOK, FirstDropped, Owned, Covers, Par
  <1>9. (TypeOK /\ zmap0 \subseteq zmap /\ pc # "panic")'
    BY <1>1 DEF IInv, TypeOK
  <1> QED BY <1>4, <1>7, <1>8, <1>9 DEF IInv, State

-----------------------------------------------------------------------------
(* delete_block: a zone is given back; if an inode led to it directly, the *)
(* pointer is cleared.                                                     *)
LEMMA ForestCut ==
    ASSUME NEW ptr, NEW dep, NEW rt, Forest(ptr, dep, rt), TypeOK,
           NEW i \in Inodes, NEW x \in Zones, content' = content,
           \A k \in Inodes, s \in Slots :
               i_zone'[k][s] = IF k = i /\ s < DIRECT /\ i_zone[k][s] = x THEN 0
                               ELSE i_zone[k][s]
    PROVE  \E p : /\ Forest(p, dep, rt)'
                  /\ \A z \in Zones : z # x => p[z] = ptr[z]
                  /\ \A z : Par(p, z) = Par(ptr, z)
  <1>1. x # 0
    BY Sizes
  <1>2. CASE \E t \in Slots : t < DIRECT /\ i_zone[i][t] = x
    <2>1. PICK t \in Slots : t < DIRECT /\ i_zone[i][t] = x
      BY <1>2
    <2>2. ptr[x] = <<"inode", i, t>> /\ dep[x] = 0
      <3>1. ptr[x] = <<"inode", i, t>> /\ dep[x] = SlotDepth(t)
        BY <1>1, <2>1 DEF Forest
      <3> QED BY <2>1, <3>1, Sizes
    <2>3. PICK p : /\ \A z \in Zones : z # x => p[z] = ptr[z]
                   /\ p[x] = None
      <3> DEFINE q == [z \in Zones |-> IF z = x THEN None ELSE ptr[z]]
      <3>1. (\A z \in Zones : z # x => q[z] = ptr[z]) /\ q[x] = None
        OBVIOUS
      <3> HIDE DEF q
      <3> QED BY <3>1
    <2>4. \A z : Par(p, z) = Par(ptr, z)
      <3>1. p[x][1] # "zone" /\ ptr[x][1] # "zone"
        BY <2>2, <2>3 DEF None
      <3> QED BY <2>3, <3>1 DEF Par
    <2>5. \A z \in Zones : dep[z] \in 0..2 /\ (p[z] = None => dep[z] = 0)
      BY <2>2, <2>3 DEF Forest
    <2>6. ASSUME NEW k \in Inodes, NEW s \in Slots, i_zone'[k][s] # 0
          PROVE  LET z == i_zone'[k][s]
                 IN  p[z] = <<"inode", k, s>> /\ dep[z] = SlotDepth(s) /\ rt[z] = k
      <3> DEFINE z == i_zone[k][s]
      <3>1. i_zone'[k][s] = z /\ ~(k = i /\ s < DIRECT /\ z = x) /\ z # 0
        BY <2>6
      <3>2. ptr[z] = <<"inode", k, s>> /\ dep[z] = SlotDepth(s) /\ rt[z] = k
        BY <3>1 DEF Forest
      <3>3. z \in Zones
        BY <3>1 DEF TypeOK
      <3>4. z # x
        <4> SUFFICES ASSUME z = x PROVE FALSE
          OBVIOUS
        <4>1. <<"inode", k, s>> = <<"inode", i, t>>
          BY <2>2, <3>2
        <4>2. k = i /\ s = t
          BY <4>1
        <4> QED BY <2>1, <3>1, <4>2
      <3>5. p[z] = ptr[z]
        BY <2>3, <3>3, <3>4
      <3> QED BY <3>1, <3>2, <3>5
    <2>7. ASSUME NEW y \in Zones, NEW n \in Entries, content'[y][n] # 0, dep[y] > 0
          PROVE  LET z == content'[y][n]
                 IN  p[z] = <<"zone", y, n>> /\ dep[z] = dep[y] - 1 /\ rt[z] = rt[y]
      <3> DEFINE z == content[y][n]
      <3>1. content'[y][n] = z /\ z # 0
        BY <2>7
      <3>2. ptr[z] = <<"zone", y, n>> /\ dep[z] = dep[y] - 1 /\ rt[z] = rt[y]
        BY <2>7, <3>1 DEF Forest
      <3>3. z \in Zones
        BY <3>1 DEF TypeOK
      <3>4. z # x
        <4>1. ptr[z][1] = "zone" /\ ptr[x][1] = "inode"
          BY <2>2, <3>2
        <4> HIDE DEF z
        <4> QED BY <4>1
      <3>5. p[z] = ptr[z]
        BY <2>3, <3>3, <3>4
      <3> QED BY <3>1, <3>2, <3>5
    <2>8. ASSUME NEW z \in Zones
          PROVE  p[z] = None \/ FromInode(p, z)' \/ FromZone(p, dep, z)'
      <3>1. CASE z = x
        BY <2>3, <3>1
      <3>2. CASE z # x /\ FromInode(ptr, z)
        <4>1. PICK k \in Inodes, s \in Slots : ptr[z] = <<"inode", k, s>> /\ i_zone[k][s] = z
          BY <3>2 DEF FromInode
        <4>2. i_zone'[k][s] = z /\ p[z] = ptr[z]
          BY <2>3, <3>2, <4>1
        <4> QED BY <4>1, <4>2 DEF FromInode
      <3>3. CASE z # x /\ FromZone(ptr, dep, z)
        <4>1. p[z] = ptr[z]
          BY <2>3, <3>3
        <4> QED BY <3>3, <4>1 DEF FromZone
      <3>4. CASE z # x /\ ptr[z] = None
        BY <2>3, <3>4
      <3> QED BY <3>1, <3>2, <3>3, <3>4 DEF Forest
    <2>9. Forest(p, dep, rt)'
      BY <2>5, <2>6, <2>7, <2>8 DEF Forest
    <2> QED BY <2>3, <2>4, <2>9
  <1>3. CASE ~\E t \in Slots : t < DIRECT /\ i_zone[i][t] = x
    <2>1. \A k \in Inodes, s \in Slots : i_zone'[k][s] = i_zone[k][s]
      BY <1>3
    <2>2. \A z \in Zones : /\ FromInode(ptr, z) => FromInode(ptr, z)'
                           /\ FromZone(ptr, dep, z) => FromZone(ptr, dep, z)'
      BY <2>1 DEF FromInode, FromZone
    <2>3. \A k \in Inodes, s \in Slots :
             LET z == i_zone'[k][s]
             IN  z # 0 => ptr[z] = <<"inode", k, s>> /\ dep[z] = SlotDepth(s) /\ rt[z] = k
      BY <2>1 DEF Forest
    <2>4. Forest(ptr, dep, rt)'
      BY <2>2, <2>3 DEF Forest
    <2> QED BY <2>4
  <1> QED BY <1>2, <1>3

LEMMA DeleteBlock == IInv /\ delete_block => IInv'
  <1> SUFFICES ASSUME IInv, delete_block PROVE IInv'
    OBVIOUS
  <1>1. PICK x : x = Current.zone
    OBVIOUS
  <1>2. PICK i : i = call.inode
    OBVIOUS
  <1>3. /\ pc = "truncate" /\ todo # <<>> /\ x # 0 /\ Current.depth = 0
        /\ free_zone_bitmap(x)
        /\ todo' = Tail(todo)
        /\ UNCHANGED <<content, boot, lost, call>>
        /\ i_zone' = [i_zone EXCEPT ![i] =
                        [s \in Slots |-> IF s < DIRECT /\ i_zone[i][s] = x THEN 0
                                         ELSE i_zone[i][s]]]
    BY <1>1, <1>2 DEF delete_block
  <1>4. PICK ptr, dep, rt : State(ptr, dep, rt)
    BY DEF IInv
  <1>5. /\ TypeOK /\ zmap0 \subseteq zmap
        /\ Forest(ptr, dep, rt) /\ Accounts(ptr, rt) /\ TodoOK(ptr, dep, rt) /\ CallOK(ptr, dep, rt)
    BY <1>4 DEF IInv, State
  <1>6. i \in Inodes
    BY <1>2, <1>3, <1>5 DEF CallOK
  <1>7. /\ x \in Zones /\ Owned(ptr, x) /\ rt[x] = i
        /\ \A m \in 2..Len(todo), z \in Zones : Covers(ptr, Current, z) => ~Covers(ptr, todo[m], z)
        /\ \A m \in 2..Len(todo) : m \in 1..Len(todo)
    BY <1>1, <1>2, <1>3, <1>5, FirstTask
  <1>8. \A z \in Zones : Covers(ptr, Current, z) <=> z = x
    BY <1>1, <1>3, <1>5, <1>7, CoversIs
  <1>9. \A z \in Zones : Pending(ptr, z) <=> z = x \/ \E m \in 2..Len(todo) : Covers(ptr, todo[m], z)
    BY <1>3, <1>5, <1>8, PendingIs
  <1>10. InUse(x) /\ x \notin lost
    BY <1>5, <1>7, <1>9 DEF Accounts
  <1>11. x \in DataZones /\ Bit(x) \notin zmap0
    <2>1. Bit(x) \in Bits \ zmap0
      BY <1>5, <1>10 DEF InUse, TypeOK
    <2>2. Zone(Bit(x)) = x
      BY <1>7, Sizes
    <2>3. Zone(Bit(x)) \in DataZones
      BY <2>1, Sizes
    <2> QED BY <2>1, <2>2, <2>3
  <1>12. zmap' = zmap \ {Bit(x)} /\ pc' = "truncate"
    BY <1>3, <1>11 DEF free_zone_bitmap
  <1>13. /\ i_zone' \in [Inodes -> [Slots -> Zones \cup {0}]]
         /\ \A k \in Inodes, s \in Slots :
               i_zone'[k][s] = IF k = i /\ s < DIRECT /\ i_zone[k][s] = x THEN 0
                               ELSE i_zone[k][s]
    <2> DEFINE new == [s \in Slots |-> IF s < DIRECT /\ i_zone[i][s] = x THEN 0 ELSE i_zone[i][s]]
    <2>1. i_zone \in [Inodes -> [Slots -> Zones \cup {0}]]
      BY <1>5 DEF TypeOK
    <2>2. new \in [Slots -> Zones \cup {0}]
      BY <1>6, <2>1
    <2>3. \A s \in Slots : new[s] = IF s < DIRECT /\ i_zone[i][s] = x THEN 0 ELSE i_zone[i][s]
      OBVIOUS
    <2>4. i_zone' = [i_zone EXCEPT ![i] = new]
      BY <1>3
    <2> HIDE DEF new
    <2> QED BY <1>6, <2>1, <2>2, <2>3, <2>4
  <1>14. PICK p : /\ Forest(p, dep, rt)'
                  /\ \A z \in Zones : z # x => p[z] = ptr[z]
                  /\ \A z : Par(p, z) = Par(ptr, z)
    BY <1>3, <1>5, <1>6, <1>7, <1>13, ForestCut
  <1>15. /\ todo' \in Seq([zone : Zones \cup {0}, depth : 0..2])
         /\ \A m \in 1..Len(todo') : m + 1 \in 2..Len(todo) /\ todo'[m] = todo[m + 1]
         /\ \A z \in Zones :
               Pending(p, z)' <=> \E m \in 2..Len(todo) : Covers(ptr, todo[m], z)
         /\ \A m, n \in 1..Len(todo'), z \in Zones :
               Covers(p, todo'[m], z) /\ Covers(p, todo'[n], z) => m = n
    <2>1. todo # <<>> /\ todo' = Tail(todo) /\ TodoOK(ptr, dep, rt)
      BY <1>3, <1>5
    <2>2. \A z : Par(p, z) = Par(ptr, z)
      BY <1>14
    <2>3. FirstDropped(ptr, p)
      BY <2>1, <2>2, TailIs
    <2> QED BY <2>3 DEF FirstDropped
  <1>16. TodoOK(p, dep, rt)'
    <2>1. ASSUME NEW m \in 1..Len(todo'), todo'[m].zone # 0
          PROVE  LET z == todo'[m].zone
                 IN  Owned(p, z) /\ rt[z] = call'.inode /\ todo'[m].depth \in {0, dep[z]}
      <3> DEFINE z == todo[m + 1].zone
      <3>1. m + 1 \in 2..Len(todo) /\ m + 1 \in 1..Len(todo) /\ todo'[m] = todo[m + 1]
        BY <1>7, <1>15
      <3>2. /\ z # 0 /\ Owned(ptr, z) /\ rt[z] = call.inode
            /\ todo[m + 1].depth \in {0, dep[z]}
        BY <1>5, <2>1, <3>1 DEF TodoOK
      <3>3. z \in Zones
        <4>1. todo[m + 1] \in TaskSet
          BY <1>3, <1>5, <3>1, FirstTask
        <4> QED BY <3>2, <4>1 DEF TaskSet
      <3>4. Covers(ptr, todo[m + 1], z)
        BY <3>2 DEF Covers
      <3>5. z # x
        BY <1>7, <1>8, <3>1, <3>3, <3>4
      <3>6. Owned(p, z)
        BY <1>14, <3>2, <3>3, <3>5 DEF Owned
      <3> QED BY <1>3, <3>1, <3>2, <3>6
    <2> QED BY <1>12, <1>15, <2>1 DEF TodoOK, Owned, Covers, Par
  <1>17. Accounts(p, rt)'
    <2>1. \A z \in Zones : InUse(z)' <=> InUse(z) /\ z # x
      BY <1>7, <1>12, InUseIs
    <2>2. ASSUME NEW z \in Zones
          PROVE  /\ ~(z = x /\ Pending(p, z)')
                 /\ Pending(p, z)' => Pending(ptr, z)
                 /\ z # x => (Pending(p, z)' <=> Pending(ptr, z))
      BY <1>7, <1>8, <1>9, <1>15
    <2>3. ASSUME NEW z \in Zones
          PROVE  /\ z # x => (Kept(p, rt, z)' <=> Kept(ptr, rt, z))
                 /\ z = x => ~Kept(p, rt, z)' /\ ~Kept(ptr, rt, z)
      BY <1>2, <1>3, <1>7, <1>12, <1>14 DEF Kept, Owned
    <2>4. lost' = lost
      BY <1>3
    <2> QED BY <1>5, <1>10, <2>1, <2>2, <2>3, <2>4 DEF Accounts
  <1>18. CallOK(p, dep, rt)'
    <2>1. call'.inode \in Inodes
      BY <1>2, <1>3, <1>6
    <2> QED BY <1>12, <2>1 DEF CallOK
  <1>19. (TypeOK /\ zmap0 \subseteq zmap /\ pc # "panic")'
    BY <1>3, <1>5, <1>11, <1>12, <1>13 DEF TypeOK
  <1> QED BY <1>14, <1>16, <1>17, <1>18, <1>19 DEF IInv, State

-----------------------------------------------------------------------------
(* delete_indirecte_block: in place of a block of pointers, what they lead *)
(* to and then the block itself.                                           *)
Entry(y, d, m) == IF m <= PER THEN Task(content[y][m - 1], d - 1)
                  ELSE IF m = PER + 1 THEN Task(y, 0) ELSE todo[m - PER]

LEMMA ExpandIs ==
    ASSUME NEW ptr, NEW dep, NEW rt, TodoOK(ptr, dep, rt), todo # <<>>, TypeOK,
           NEW y \in Zones, NEW d \in {1, 2},
           todo' = Tasks(content[y], PER, d - 1) \o <<Task(y, 0)>> \o Tail(todo)
    PROVE  /\ todo' \in Seq(TaskSet) /\ Len(todo') = PER + Len(todo)
           /\ \A m \in 1..(PER + Len(todo)) : todo'[m] = Entry(y, d, m)
  <1> DEFINE kids == Tasks(content[y], PER, d - 1)
             one == <<Task(y, 0)>>
             tail == Tail(todo)
             len == Len(todo)
  <1>1. \A m \in 1..PER : m - 1 \in Entries
    BY Sizes
  <1>2. \A n \in Entries : content[y][n] \in Zones \cup {0}
    BY DEF TypeOK
  <1>3. /\ kids \in Seq(TaskSet) /\ Len(kids) = PER
        /\ \A m \in 1..PER : kids[m] = Task(content[y][m - 1], d - 1)
    <2>1. \A m \in 1..PER : Task(content[y][m - 1], d - 1) \in TaskSet
      <3>1. d - 1 \in 0..2
        OBVIOUS
      <3> QED BY <1>1, <1>2, <3>1, TaskIs
    <2>2. kids = [m \in 1..PER |-> Task(content[y][m - 1], d - 1)]
      BY DEF Tasks
    <2> HIDE DEF kids
    <2> QED BY <2>1, <2>2, Sizes
  <1>4. one \in Seq(TaskSet) /\ Len(one) = 1 /\ one[1] = Task(y, 0)
    <2>1. Task(y, 0) \in TaskSet
      BY TaskIs
    <2> HIDE DEF TaskSet
    <2> QED BY <2>1
  <1>5. /\ tail \in Seq(TaskSet) /\ Len(tail) = len - 1 /\ len \in Nat /\ len >= 1
        /\ \A m \in 1..(len - 1) : tail[m] = todo[m + 1]
    BY FirstTask
  <1>6. todo' = (kids \o one) \o tail
    OBVIOUS
  <1> DEFINE front == kids \o one
  <1> HIDE DEF TaskSet, kids, one, tail, len
  <1>7. /\ front \in Seq(TaskSet) /\ Len(front) = PER + 1
        /\ \A m \in 1..(PER + 1) : front[m] = IF m <= PER THEN kids[m] ELSE one[m - PER]
    <2>1. /\ front \in Seq(TaskSet) /\ Len(front) = Len(kids) + Len(one)
          /\ \A m \in 1..(Len(kids) + Len(one)) :
                front[m] = IF m <= Len(kids) THEN kids[m] ELSE one[m - Len(kids)]
      BY <1>3, <1>4, ConcatProperties
    <2> HIDE DEF front
    <2> QED BY <1>3, <1>4, <2>1
  <1>8. todo' = front \o tail
    BY <1>6
  <1> HIDE DEF front
  <1>9. /\ todo' \in Seq(TaskSet) /\ Len(todo') = (PER + 1) + (len - 1)
        /\ \A m \in 1..((PER + 1) + (len - 1)) :
              todo'[m] = IF m <= PER + 1 THEN front[m] ELSE tail[m - (PER + 1)]
    <2>1. /\ front \o tail \in Seq(TaskSet) /\ Len(front \o tail) = Len(front) + Len(tail)
          /\ \A m \in 1..(Len(front) + Len(tail)) :
                (front \o tail)[m] = IF m <= Len(front) THEN front[m] ELSE tail[m - Len(front)]
      BY <1>5, <1>7, ConcatProperties
    <2> QED BY <1>5, <1>7, <1>8, <2>1
  <1>10. (PER + 1) + (len - 1) = PER + len
    BY <1>5, Sizes
  <1>11. ASSUME NEW m \in 1..(PER + len)
         PROVE  todo'[m] = Entry(y, d, m)
    <2>1. todo'[m] = IF m <= PER + 1 THEN front[m] ELSE tail[m - (PER + 1)]
      BY <1>9, <1>10
    <2>2. CASE m <= PER
      <3>1. m \in 1..PER /\ m \in 1..(PER + 1) /\ m <= PER + 1
        BY <1>5, <2>2, Sizes
      <3> QED BY <1>3, <1>7, <2>1, <2>2, <3>1 DEF Entry
    <2>3. CASE m = PER + 1
      <3>1. m \in 1..(PER + 1) /\ ~(m <= PER) /\ m - PER = 1
        BY <2>3, Sizes
      <3>2. front[m] = Task(y, 0)
        BY <1>4, <1>7, <3>1
      <3>3. m <= PER + 1
        BY <3>1
      <3>4. todo'[m] = Task(y, 0)
        BY <2>1, <3>2, <3>3
      <3>5. Entry(y, d, m) = Task(y, 0)
        BY <2>3, <3>1 DEF Entry
      <3> QED BY <3>4, <3>5
    <2>4. CASE m > PER + 1
      <3>1. /\ m - (PER + 1) \in 1..(len - 1) /\ (m - (PER + 1)) + 1 = m - PER
            /\ ~(m <= PER + 1) /\ ~(m <= PER) /\ m # PER + 1
        BY <1>5, <2>4, Sizes
      <3>2. tail[m - (PER + 1)] = todo[m - PER]
        BY <1>5, <3>1
      <3>3. Entry(y, d, m) = todo[m - PER]
        BY <3>1 DEF Entry
      <3>4. ~(m <= PER + 1)
        BY <3>1
      <3>5. todo'[m] = tail[m - (PER + 1)]
        BY <2>1, <3>4
      <3> QED BY <3>2, <3>3, <3>5
    <2>5. m \in Int /\ PER \in Int
      BY <1>5, Sizes
    <2>6. m <= PER \/ m = PER + 1 \/ m > PER + 1
      BY <2>5
    <2> QED BY <2>2, <2>3, <2>4, <2>6
  <1> QED BY <1>9, <1>10, <1>11 DEF len

(* The zones below a block of pointers, each below one entry. *)
LEMMA BranchesAre ==
    ASSUME NEW ptr, NEW dep, NEW rt, Forest(ptr, dep, rt), TypeOK,
           NEW y \in Zones, Owned(ptr, y), dep[y] \in {1, 2}
    PROVE  /\ \A n \in Entries : LET c == content[y][n]
                                 IN  c # 0 => /\ c \in Zones /\ Owned(ptr, c) /\ rt[c] = rt[y]
                                              /\ dep[c] = dep[y] - 1 /\ ~Under(ptr, y, c)
           /\ \A z \in Zones : Under(ptr, z, y) <=>
                 z = y \/ \E n \in Entries : content[y][n] # 0 /\ Under(ptr, z, content[y][n])
           /\ \A z \in Zones, n, k \in Entries :
                 /\ content[y][n] # 0 /\ Under(ptr, z, content[y][n])
                 /\ content[y][k] # 0 /\ Under(ptr, z, content[y][k])
                 => n = k
  <1>1. y # 0 /\ Par(ptr, 0) = 0
    BY Sizes DEF Par
  <1>2. \A u : Par(ptr, u) # 0 =>
            /\ u \in Zones /\ Owned(ptr, u) /\ dep[Par(ptr, u)] \in {1, 2}
            /\ dep[u] = dep[Par(ptr, u)] - 1 /\ rt[u] = rt[Par(ptr, u)]
    BY ParentIs DEF Inside
  <1>3. ASSUME NEW n \in Entries, content[y][n] # 0
        PROVE  LET c == content[y][n]
               IN  /\ c \in Zones /\ Par(ptr, c) = y /\ ptr[c] = <<"zone", y, n>>
                   /\ dep[c] = dep[y] - 1 /\ Owned(ptr, c) /\ rt[c] = rt[y]
    <2> DEFINE c == content[y][n]
    <2>1. c \in Zones
      BY <1>3 DEF TypeOK
    <2>2. ptr[c] = <<"zone", y, n>> /\ dep[c] = dep[y] - 1 /\ rt[c] = rt[y]
      BY <1>3 DEF Forest
    <2>3. Par(ptr, c) = y
      BY <2>1, <2>2 DEF Par
    <2> QED BY <1>1, <1>2, <2>1, <2>2, <2>3
  <1>4. ASSUME NEW c \in Zones, Par(ptr, c) = y
        PROVE  ~Under(ptr, y, c)
    <2>1. dep[c] = dep[y] - 1 /\ c # 0
      BY <1>1, <1>2, <1>4, Sizes
    <2>2. ASSUME Par(ptr, y) = c PROVE FALSE
      BY <1>2, <2>1, <2>2
    <2>3. ASSUME Par(ptr, Par(ptr, y)) = c PROVE FALSE
      <3>1. Par(ptr, y) # 0
        BY <1>1, <2>1, <2>3
      <3> QED BY <1>2, <2>1, <2>3, <3>1
    <2>4. y # c
      BY <2>1
    <2> QED BY <2>2, <2>3, <2>4 DEF Under
  <1>5. ASSUME NEW z \in Zones, Under(ptr, z, y), z # y
        PROVE  \E n \in Entries : content[y][n] # 0 /\ Under(ptr, z, content[y][n])
    <2>1. ASSUME NEW c, Par(ptr, c) = y
          PROVE  c \in Zones /\ \E n \in Entries : content[y][n] = c
      BY <1>1, <2>1, ParentIs DEF Inside
    <2>2. \A c \in Zones : c # 0
      BY Sizes
    <2>3. CASE Par(ptr, z) = y
      BY <2>1, <2>2, <2>3 DEF Under
    <2>4. CASE Par(ptr, Par(ptr, z)) = y
      BY <2>1, <2>2, <2>4 DEF Under
    <2> QED BY <1>5, <2>3, <2>4 DEF Under
  <1>6. ASSUME NEW z \in Zones, NEW c \in Zones, Par(ptr, c) = y, Under(ptr, z, c)
        PROVE  Under(ptr, z, y)
    <2>1. c # 0
      BY Sizes
    <2>2. CASE z = c
      BY <1>6, <2>2 DEF Under
    <2>3. CASE Par(ptr, z) = c
      BY <1>6, <2>3 DEF Under
    <2>4. CASE Par(ptr, Par(ptr, z)) = c
      <3>1. Par(ptr, z) # 0 /\ Par(ptr, Par(ptr, z)) # 0
        BY <1>1, <2>1, <2>4
      <3> QED BY <1>1, <1>2, <1>6, <2>4, <3>1
    <2> QED BY <1>6, <2>2, <2>3, <2>4 DEF Under
  <1>7. ASSUME NEW z \in Zones, NEW c \in Zones, NEW e \in Zones,
               Par(ptr, c) = y, Par(ptr, e) = y, Under(ptr, z, c), Under(ptr, z, e)
        PROVE  c = e
    <2>1. c # 0 /\ e # 0 /\ dep[c] = dep[y] - 1 /\ dep[e] = dep[y] - 1
      BY <1>1, <1>2, <1>7, Sizes
    <2>2. ASSUME NEW u \in Zones, u # 0
          PROVE  /\ Par(ptr, z) = u => dep[z] = dep[u] - 1 /\ dep[u] \in {1, 2}
                 /\ Par(ptr, Par(ptr, z)) = u => dep[z] = dep[u] - 2 /\ dep[u] \in {1, 2}
      <3>1. Par(ptr, z) = u => dep[z] = dep[u] - 1 /\ dep[u] \in {1, 2}
        BY <1>2, <2>2
      <3>2. ASSUME Par(ptr, Par(ptr, z)) = u PROVE dep[z] = dep[u] - 2 /\ dep[u] \in {1, 2}
        <4> DEFINE v == Par(ptr, z)
        <4>1. v # 0 /\ Par(ptr, v) = u
          BY <1>1, <2>2, <3>2
        <4>2. dep[z] = dep[v] - 1 /\ dep[v] = dep[u] - 1 /\ dep[u] \in {1, 2} /\ dep[v] \in {1, 2}
          BY <1>2, <2>2, <4>1
        <4> HIDE DEF v
        <4> QED BY <4>2
      <3> QED BY <3>1, <3>2
    <2>3. dep[y] \in {1, 2}
      OBVIOUS
    <2> QED BY <1>7, <2>1, <2>2, <2>3 DEF Under
  <1>8. ASSUME NEW z \in Zones, NEW n \in Entries, NEW k \in Entries,
               content[y][n] # 0, Under(ptr, z, content[y][n]),
               content[y][k] # 0, Under(ptr, z, content[y][k])
        PROVE  n = k
    <2>1. content[y][n] = content[y][k]
      BY <1>3, <1>7, <1>8
    <2>2. <<"zone", y, n>> = <<"zone", y, k>>
      BY <1>3, <1>8, <2>1
    <2> QED BY <2>2
  <1>9. \A z \in Zones : Under(ptr, z, y) <=>
            z = y \/ \E n \in Entries : content[y][n] # 0 /\ Under(ptr, z, content[y][n])
    <2>1. Under(ptr, y, y)
      BY DEF Under
    <2>2. \A z \in Zones, n \in Entries :
              content[y][n] # 0 /\ Under(ptr, z, content[y][n]) => Under(ptr, z, y)
      BY <1>3, <1>6
    <2> QED BY <1>5, <2>1, <2>2
  <1> QED BY <1>3, <1>4, <1>8, <1>9

LEMMA DeleteIndirecteBlock == IInv /\ delete_indirecte_block => IInv'
  <1> SUFFICES ASSUME IInv, delete_indirecte_block PROVE IInv'
    OBVIOUS
  <1>1. PICK y, d : y = Current.zone /\ d = Current.depth
    OBVIOUS
  <1>2. PICK len : len = Len(todo)
    OBVIOUS
  <1>3. /\ pc = "truncate" /\ todo # <<>> /\ y # 0 /\ d > 0
        /\ todo' = Tasks(content[y], PER, d - 1) \o <<Task(y, 0)>> \o Tail(todo)
        /\ UNCHANGED <<zmap, content, i_zone, boot, lost, call, pc>>
    BY <1>1 DEF delete_indirecte_block
  <1>4. PICK ptr, dep, rt : State(ptr, dep, rt)
    BY DEF IInv
  <1>5. /\ TypeOK /\ Forest(ptr, dep, rt) /\ Accounts(ptr, rt) /\ TodoOK(ptr, dep, rt)
        /\ CallOK(ptr, dep, rt)
    BY <1>4 DEF IInv, State
  <1>6. /\ y \in Zones /\ Owned(ptr, y) /\ rt[y] = call.inode /\ d \in {0, dep[y]}
        /\ len \in Nat /\ len >= 1 /\ Current = todo[1] /\ Current \in TaskSet
        /\ \A m \in 1..len : todo[m] \in TaskSet
    BY <1>1, <1>2, <1>3, <1>5, FirstTask
  <1>7. d = dep[y] /\ d \in {1, 2}
    <2>1. d # 0
      BY <1>3
    <2>2. dep[y] \in 0..2
      BY <1>5, <1>6 DEF Forest
    <2> QED BY <1>6, <2>1, <2>2
  <1>8. /\ todo' \in Seq(TaskSet) /\ Len(todo') = PER + len
        /\ \A m \in 1..(PER + len) : todo'[m] = Entry(y, d, m)
    BY <1>2, <1>3, <1>5, <1>6, <1>7, ExpandIs
  <1>9. PER \in Nat /\ PER >= 1
    BY Sizes
  <1>10. \A z \in Zones : Covers(ptr, Current, z) <=> Under(ptr, z, y)
    BY <1>1, <1>5, <1>6, <1>7, CoversIs
  <1>11. ASSUME NEW m \in 1..PER, NEW z \in Zones
         PROVE  /\ m - 1 \in Entries
                /\ Covers(ptr, Entry(y, d, m), z) <=>
                      content[y][m - 1] # 0 /\ Under(ptr, z, content[y][m - 1])
    <2> DEFINE c == content[y][m - 1]
    <2>1. m - 1 \in Entries
      BY <1>9, Sizes
    <2>2. Entry(y, d, m).zone = c /\ Entry(y, d, m).depth = d - 1
      <3>1. m <= PER
        BY <1>9
      <3> QED BY <3>1, TaskIs DEF Entry
    <2>3. c # 0 => c \in Zones /\ dep[c] = d - 1
      BY <1>5, <1>6, <1>7, <2>1, BranchesAre
    <2> HIDE DEF c
    <2>4. CASE c = 0
      BY <2>1, <2>2, <2>4 DEF Covers, c
    <2>5. CASE c # 0
      <3>1. Covers(ptr, Entry(y, d, m), z) <=> Under(ptr, z, c)
        BY <1>5, <2>2, <2>3, <2>5, CoversIs
      <3> QED BY <2>1, <2>5, <3>1 DEF c
    <2> QED BY <2>4, <2>5
  <1>12. Entry(y, d, PER + 1) = Task(y, 0)
    BY <1>9 DEF Entry
  <1>13. \A z \in Zones : Covers(ptr, Task(y, 0), z) <=> z = y
    BY <1>5, <1>6, TaskIs, CoversIs
  <1>14. ASSUME NEW m \in (PER + 2)..(PER + len)
         PROVE  /\ Entry(y, d, m) = todo[m - PER]
                /\ m - PER \in 2..len /\ m - PER \in 1..len
    BY <1>6, <1>9 DEF Entry
  <1>15. \A m \in 1..(PER + len) : m \in 1..PER \/ m = PER + 1 \/ m \in (PER + 2)..(PER + len)
    BY <1>6, <1>9
  <1>16. \A m \in 1..PER : m \in 1..(PER + len) /\ m - 1 \in Entries
    BY <1>6, <1>9, Sizes
  <1>17. PER + 1 \in 1..(PER + len) /\ \A k \in 2..len : k + PER \in (PER + 2)..(PER + len)
            /\ k + PER \in 1..(PER + len) /\ (k + PER) - PER = k
    BY <1>6, <1>9
  <1>18. Len(todo') = PER + len
    BY <1>8
  (* Who covered a zone, and who covers it now. *)
  <1>19. ASSUME NEW z \in Zones
         PROVE  (\E m \in 1..(PER + 1) : Covers(ptr, Entry(y, d, m), z)) <=> Under(ptr, z, y)
    <2>1. \A n \in Entries : n + 1 \in 1..PER /\ (n + 1) - 1 = n
      BY <1>9, Sizes
    <2>2. \A m \in 1..(PER + 1) : m \in 1..PER \/ m = PER + 1
      BY <1>9
    <2>3. \A m \in 1..PER : m \in 1..(PER + 1)
      BY <1>9
    <2>4. PER + 1 \in 1..(PER + 1)
      BY <1>9
    <2>5. Under(ptr, z, y) <=>
             z = y \/ \E n \in Entries : content[y][n] # 0 /\ Under(ptr, z, content[y][n])
      BY <1>5, <1>6, <1>7, BranchesAre
    <2>6. ASSUME NEW m \in 1..(PER + 1), Covers(ptr, Entry(y, d, m), z) PROVE Under(ptr, z, y)
      BY <1>11, <1>12, <1>13, <2>2, <2>5, <2>6
    <2>7. ASSUME NEW n \in Entries, content[y][n] # 0, Under(ptr, z, content[y][n])
          PROVE  Covers(ptr, Entry(y, d, n + 1), z) /\ n + 1 \in 1..(PER + 1)
      BY <1>11, <2>1, <2>3, <2>7
    <2>8. z = y => Covers(ptr, Entry(y, d, PER + 1), z)
      BY <1>12, <1>13
    <2> QED BY <2>4, <2>5, <2>6, <2>7, <2>8
  <1>20. ASSUME NEW z \in Zones
         PROVE  Pending(ptr, z)' <=> Pending(ptr, z)
    <2>1. Pending(ptr, z)' <=> \E m \in 1..(PER + len) : Covers(ptr, Entry(y, d, m), z)
      BY <1>8, <1>18 DEF Pending, Covers, Par
    <2>2. Pending(ptr, z) <=> Under(ptr, z, y) \/ \E m \in 2..len : Covers(ptr, todo[m], z)
      BY <1>2, <1>3, <1>5, <1>10, PendingIs
    <2>3. \A m \in 1..(PER + len) : m \in 1..(PER + 1) \/ m \in (PER + 2)..(PER + len)
      BY <1>6, <1>9
    <2>4. \A m \in 1..(PER + 1) : m \in 1..(PER + len)
      BY <1>6, <1>9
    <2>5. ASSUME Pending(ptr, z)' PROVE Pending(ptr, z)
      <3>1. PICK m \in 1..(PER + len) : Covers(ptr, Entry(y, d, m), z)
        BY <2>1, <2>5
      <3>2. CASE m \in 1..(PER + 1)
        BY <1>19, <2>2, <3>1, <3>2
      <3>3. CASE m \in (PER + 2)..(PER + len)
        BY <1>14, <2>2, <3>1, <3>3
      <3> QED BY <2>3, <3>2, <3>3
    <2>6. ASSUME NEW k \in 2..len, Covers(ptr, todo[k], z) PROVE Pending(ptr, z)'
      <3>1. Covers(ptr, Entry(y, d, k + PER), z) /\ k + PER \in 1..(PER + len)
        BY <1>14, <1>17, <2>6
      <3> QED BY <2>1, <3>1
    <2>7. ASSUME Under(ptr, z, y) PROVE Pending(ptr, z)'
      BY <1>19, <2>1, <2>4, <2>7
    <2> QED BY <2>2, <2>5, <2>6, <2>7
  <1>21. ASSUME NEW z \in Zones, NEW m \in 1..(PER + len), NEW n \in 1..(PER + len),
                Covers(ptr, Entry(y, d, m), z), Covers(ptr, Entry(y, d, n), z)
         PROVE  m = n
    <2>1. \A k \in 1..PER, l \in 1..PER :
             Covers(ptr, Entry(y, d, k), z) /\ Covers(ptr, Entry(y, d, l), z) => k = l
      <3> TAKE k \in 1..PER, l \in 1..PER
      <3> HAVE Covers(ptr, Entry(y, d, k), z) /\ Covers(ptr, Entry(y, d, l), z)
      <3>1. /\ k - 1 \in Entries /\ content[y][k - 1] # 0 /\ Under(ptr, z, content[y][k - 1])
            /\ l - 1 \in Entries /\ content[y][l - 1] # 0 /\ Under(ptr, z, content[y][l - 1])
        BY <1>11
      <3>2. k - 1 = l - 1
        BY <1>5, <1>6, <1>7, <3>1, BranchesAre
      <3> QED BY <1>9, <3>2
    <2>2. \A k \in 1..PER : ~(Covers(ptr, Entry(y, d, k), z) /\ Covers(ptr, Entry(y, d, PER + 1), z))
      <3> SUFFICES ASSUME NEW k \in 1..PER, Covers(ptr, Entry(y, d, k), z),
                          Covers(ptr, Entry(y, d, PER + 1), z)
                   PROVE  FALSE
        OBVIOUS
      <3>1. z = y
        BY <1>12, <1>13
      <3>2. k - 1 \in Entries /\ content[y][k - 1] # 0 /\ Under(ptr, y, content[y][k - 1])
        BY <1>11, <3>1
      <3> QED BY <1>5, <1>6, <1>7, <3>2, BranchesAre
    <2>3. \A k \in 1..(PER + 1), l \in (PER + 2)..(PER + len) :
             ~(Covers(ptr, Entry(y, d, k), z) /\ Covers(ptr, Entry(y, d, l), z))
      <3> SUFFICES ASSUME NEW k \in 1..(PER + 1), NEW l \in (PER + 2)..(PER + len),
                          Covers(ptr, Entry(y, d, k), z), Covers(ptr, Entry(y, d, l), z)
                   PROVE  FALSE
        OBVIOUS
      <3>1. Covers(ptr, Current, z)
        BY <1>10, <1>19
      <3>2. Covers(ptr, todo[l - PER], z) /\ l - PER \in 2..len
        BY <1>14
      <3> QED BY <1>2, <1>3, <1>5, <3>1, <3>2, FirstTask
    <2>4. \A k \in (PER + 2)..(PER + len), l \in (PER + 2)..(PER + len) :
             Covers(ptr, Entry(y, d, k), z) /\ Covers(ptr, Entry(y, d, l), z) => k = l
      <3> TAKE k \in (PER + 2)..(PER + len), l \in (PER + 2)..(PER + len)
      <3> HAVE Covers(ptr, Entry(y, d, k), z) /\ Covers(ptr, Entry(y, d, l), z)
      <3>1. k - PER = l - PER
        BY <1>2, <1>5, <1>14 DEF TodoOK
      <3> QED BY <1>6, <1>9, <3>1
    <2>5. \A k \in 1..PER : k \in 1..(PER + 1)
      BY <1>9
    <2>6. PER + 1 \in 1..(PER + 1)
      BY <1>9
    <2> QED BY <1>15, <1>21, <2>1, <2>2, <2>3, <2>4, <2>5, <2>6
  <1>22. ASSUME NEW m \in 1..(PER + len), Entry(y, d, m).zone # 0
         PROVE  LET t == Entry(y, d, m)
                IN  Owned(ptr, t.zone) /\ rt[t.zone] = call.inode /\ t.depth \in {0, dep[t.zone]}
    <2>1. CASE m \in 1..PER
      <3>1. /\ Entry(y, d, m).zone = content[y][m - 1] /\ Entry(y, d, m).depth = d - 1
            /\ m - 1 \in Entries
        <4>1. m <= PER
          BY <1>9, <2>1
        <4> QED BY <1>16, <2>1, <4>1, TaskIs DEF Entry
      <3> QED BY <1>5, <1>6, <1>7, <1>22, <3>1, BranchesAre
    <2>2. CASE m = PER + 1
      BY <1>6, <1>12, <2>2, TaskIs
    <2>3. CASE m \in (PER + 2)..(PER + len)
      BY <1>2, <1>5, <1>14, <1>22, <2>3 DEF TodoOK
    <2> QED BY <1>15, <2>1, <2>2, <2>3
  <1>23. TodoOK(ptr, dep, rt)'
    <2>1. \A m \in 1..Len(todo') :
             LET z == todo'[m].zone
             IN  z # 0 => /\ Owned(ptr, z) /\ rt[z] = call'.inode
                          /\ todo'[m].depth \in {0, dep[z]}
      <3>1. call' = call
        BY <1>3
      <3> TAKE m \in 1..Len(todo')
      <3>2. m \in 1..(PER + len) /\ todo'[m] = Entry(y, d, m)
        BY <1>8
      <3> QED BY <1>22, <3>1, <3>2
    <2>2. \A m, n \in 1..Len(todo'), z \in Zones :
             Covers(ptr, todo'[m], z) /\ Covers(ptr, todo'[n], z) => m = n
      BY <1>8, <1>21
    <2>3. todo' \in Seq([zone : Zones \cup {0}, depth : 0..2])
      BY <1>8 DEF TaskSet
    <2>4. pc' = "truncate"
      BY <1>3
    <2> HIDE <1>3, <1>8
    <2> QED BY <2>1, <2>2, <2>3, <2>4 DEF TodoOK, Owned, Covers, Par
  <1>24. Forest(ptr, dep, rt)'
    BY <1>3, <1>5, ForestStays
  <1>25. Accounts(ptr, rt)'
    <2>1. \A z \in Zones : /\ InUse(z)' <=> InUse(z)
                           /\ Kept(ptr, rt, z)' <=> Kept(ptr, rt, z)
      BY <1>3 DEF InUse, Bit, Kept, Owned
    <2>2. lost' = lost
      BY <1>3
    <2> QED BY <1>5, <1>20, <2>1, <2>2 DEF Accounts
  <1>26. CallOK(ptr, dep, rt)'
    BY <1>3, <1>5 DEF CallOK
  <1>27. (TypeOK /\ zmap0 \subseteq zmap /\ pc # "panic")'
    BY <1>3 DEF IInv, TypeOK
  <1> QED BY <1>23, <1>24, <1>25, <1>26, <1>27 DEF IInv, State

(* An indirect block that cannot be read goes alone; what it leads to is   *)
(* lost.                                                                   *)
LEMMA AloneIs ==
    ASSUME NEW ptr, NEW dep, NEW rt, TodoOK(ptr, dep, rt), todo # <<>>,
           NEW y \in Zones, todo' = <<Task(y, 0)>> \o Tail(todo)
    PROVE  /\ todo' \in Seq(TaskSet) /\ Len(todo') = Len(todo)
           /\ todo'[1] = Task(y, 0)
           /\ \A m \in 2..Len(todo) : todo'[m] = todo[m]
  <1> DEFINE one == <<Task(y, 0)>>
             tail == Tail(todo)
             len == Len(todo)
  <1>1. one \in Seq(TaskSet) /\ Len(one) = 1 /\ one[1] = Task(y, 0)
    <2>1. Task(y, 0) \in TaskSet
      BY TaskIs
    <2> HIDE DEF TaskSet
    <2> QED BY <2>1
  <1>2. /\ tail \in Seq(TaskSet) /\ Len(tail) = len - 1 /\ len \in Nat /\ len >= 1
        /\ \A m \in 1..(len - 1) : tail[m] = todo[m + 1]
    BY FirstTask
  <1>3. todo' = one \o tail
    OBVIOUS
  <1> HIDE DEF TaskSet, one, tail, len
  <1>4. /\ todo' \in Seq(TaskSet) /\ Len(todo') = 1 + (len - 1)
        /\ \A m \in 1..(1 + (len - 1)) : todo'[m] = IF m <= 1 THEN one[m] ELSE tail[m - 1]
    <2>1. /\ one \o tail \in Seq(TaskSet) /\ Len(one \o tail) = Len(one) + Len(tail)
          /\ \A m \in 1..(Len(one) + Len(tail)) :
                (one \o tail)[m] = IF m <= Len(one) THEN one[m] ELSE tail[m - Len(one)]
      <3>1. one \in Seq(TaskSet) /\ tail \in Seq(TaskSet)
        BY <1>1, <1>2
      <3> QED BY <3>1, ConcatProperties
    <2> QED BY <1>1, <1>2, <1>3, <2>1
  <1>5. 1 + (len - 1) = len /\ 1 \in 1..len
    BY <1>2
  <1>6. todo'[1] = Task(y, 0)
    BY <1>1, <1>4, <1>5
  <1>7. ASSUME NEW m \in 2..len PROVE todo'[m] = todo[m]
    <2>1. m \in 1..len /\ ~(m <= 1) /\ m - 1 \in 1..(len - 1) /\ (m - 1) + 1 = m
      BY <1>2
    <2>2. todo'[m] = tail[m - 1]
      BY <1>4, <1>5, <2>1
    <2>3. tail[m - 1] = todo[m]
      BY <1>2, <2>1
    <2> QED BY <2>2, <2>3
  <1>8. Len(todo') = len
    BY <1>4, <1>5
  <1> QED BY <1>4, <1>6, <1>7, <1>8 DEF len

LEMMA DeleteUnread == IInv /\ delete_indirecte_block_unread => IInv'
  <1> SUFFICES ASSUME IInv, delete_indirecte_block_unread PROVE IInv'
    OBVIOUS
  <1>1. PICK y, d : y = Current.zone /\ d = Current.depth
    OBVIOUS
  <1>2. PICK len : len = Len(todo)
    OBVIOUS
  <1>3. /\ pc = "truncate" /\ todo # <<>> /\ y # 0 /\ d > 0
        /\ todo' = <<Task(y, 0)>> \o Tail(todo)
        /\ lost' = lost \cup Below(y, d)
        /\ UNCHANGED <<zmap, content, i_zone, boot, call, pc>>
    BY <1>1 DEF delete_indirecte_block_unread
  <1>4. PICK ptr, dep, rt : State(ptr, dep, rt)
    BY DEF IInv
  <1>5. /\ TypeOK /\ Forest(ptr, dep, rt) /\ Accounts(ptr, rt) /\ TodoOK(ptr, dep, rt)
        /\ CallOK(ptr, dep, rt)
    BY <1>4 DEF IInv, State
  <1>6. /\ y \in Zones /\ Owned(ptr, y) /\ rt[y] = call.inode /\ d \in {0, dep[y]}
        /\ len \in Nat /\ len >= 1
        /\ \A m \in 2..len, z \in Zones : Covers(ptr, Current, z) => ~Covers(ptr, todo[m], z)
    BY <1>1, <1>2, <1>3, <1>5, FirstTask
  <1>7. d = dep[y] /\ d \in {1, 2}
    <2>1. d # 0
      BY <1>3
    <2>2. dep[y] \in 0..2
      BY <1>5, <1>6 DEF Forest
    <2> QED BY <1>6, <2>1, <2>2
  <1>8. /\ todo' \in Seq(TaskSet) /\ Len(todo') = len /\ todo'[1] = Task(y, 0)
        /\ \A m \in 2..len : todo'[m] = todo[m]
    BY <1>2, <1>3, <1>5, <1>6, AloneIs
  <1>9. \A z \in Zones : Covers(ptr, Current, z) <=> Under(ptr, z, y)
    BY <1>1, <1>5, <1>6, <1>7, CoversIs
  <1>10. \A z \in Zones : Covers(ptr, Task(y, 0), z) <=> z = y
    BY <1>5, <1>6, TaskIs, CoversIs
  <1>11. /\ \A m \in 1..len : m = 1 \/ m \in 2..len
         /\ 1 \in 1..len /\ \A m \in 2..len : m \in 1..len
    BY <1>6
  <1>12. \A z \in Zones : Under(ptr, z, y) <=> z = y \/ z \in Below(y, d)
    BY <1>5, <1>6, <1>7, BelowIs DEF Under
  <1>13. y \notin Below(y, d)
    <2>1. Below(y, d) = {z \in Zones : Par(ptr, z) = y \/ Par(ptr, Par(ptr, z)) = y}
      BY <1>5, <1>6, <1>7, BelowIs
    <2>2. y # 0
      BY <1>3
    <2>3. Par(ptr, y) # y
      BY <1>5, <1>7, <2>2, ParentIs DEF Inside
    <2>4. Par(ptr, Par(ptr, y)) # y
      <3> SUFFICES ASSUME Par(ptr, Par(ptr, y)) = y PROVE FALSE
        OBVIOUS
      <3>1. dep[y] = 0
        BY <1>5, <1>6, <2>2, Depths
      <3> QED BY <1>7, <3>1
    <2> QED BY <2>1, <2>3, <2>4
  <1>14. Below(y, d) \subseteq Zones
    BY <1>5, <1>6, <1>7, BelowIs
  <1>15. ASSUME NEW z \in Zones
         PROVE  /\ Pending(ptr, z) <=>
                      Under(ptr, z, y) \/ \E m \in 2..len : Covers(ptr, todo[m], z)
                /\ Pending(ptr, z)' <=> z = y \/ \E m \in 2..len : Covers(ptr, todo[m], z)
                /\ Under(ptr, z, y) => ~\E m \in 2..len : Covers(ptr, todo[m], z)
                /\ Under(ptr, z, y) => Owned(ptr, z) /\ rt[z] = call.inode
    <2>1. Pending(ptr, z)' <=> \E m \in 1..len : Covers(ptr, todo'[m], z)
      BY <1>8 DEF Pending, Covers, Par
    <2>2. Pending(ptr, z)' <=> z = y \/ \E m \in 2..len : Covers(ptr, todo[m], z)
      BY <1>8, <1>10, <1>11, <2>1
    <2>3. Pending(ptr, z) <=> Under(ptr, z, y) \/ \E m \in 2..len : Covers(ptr, todo[m], z)
      BY <1>2, <1>3, <1>5, <1>9, PendingIs
    <2>4. Under(ptr, z, y) => ~\E m \in 2..len : Covers(ptr, todo[m], z)
      BY <1>6, <1>9
    <2>5. Under(ptr, z, y) => Owned(ptr, z) /\ rt[z] = call.inode
      BY <1>5, <1>6, UnderOwned
    <2> QED BY <2>2, <2>3, <2>4, <2>5
  <1>16. Accounts(ptr, rt)'
    <2>1. \A z \in Zones : InUse(z)' <=> InUse(z)
      BY <1>3 DEF InUse, Bit
    <2>2. \A z \in Zones : /\ Kept(ptr, rt, z)' <=> Kept(ptr, rt, z)
                           /\ Kept(ptr, rt, z) => ~Under(ptr, z, y)
      BY <1>3, <1>15 DEF Kept, Owned
    <2>3. ASSUME NEW z \in Zones
          PROVE  /\ InUse(z) <=> Kept(ptr, rt, z) \/ z \in lost \/ Pending(ptr, z)
                 /\ z \in lost => ~Kept(ptr, rt, z) /\ ~Pending(ptr, z)
      BY <1>5 DEF Accounts
    <2>4. lost' = lost \cup Below(y, d)
      BY <1>3
    <2>5. ASSUME NEW z \in Zones
          PROVE  /\ InUse(z)' <=> Kept(ptr, rt, z)' \/ z \in lost' \/ Pending(ptr, z)'
                 /\ z \in lost' => ~Kept(ptr, rt, z)' /\ ~Pending(ptr, z)'
      BY <1>12, <1>13, <1>15, <2>1, <2>2, <2>3, <2>4
    <2> QED BY <2>5 DEF Accounts
  <1>17. TodoOK(ptr, dep, rt)'
    <2>1. call' = call /\ pc' = "truncate"
      BY <1>3
    <2>2. \A m \in 1..Len(todo') :
             LET z == todo'[m].zone
             IN  z # 0 => /\ Owned(ptr, z) /\ rt[z] = call'.inode
                          /\ todo'[m].depth \in {0, dep[z]}
      <3> TAKE m \in 1..Len(todo')
      <3>1. m \in 1..len
        BY <1>8
      <3>2. CASE m = 1
        BY <1>6, <1>8, <2>1, <3>2, TaskIs
      <3>3. CASE m \in 2..len
        BY <1>2, <1>5, <1>8, <1>11, <2>1, <3>3 DEF TodoOK
      <3> QED BY <1>11, <3>1, <3>2, <3>3
    <2>3. ASSUME NEW m \in 1..len, NEW n \in 1..len, NEW z \in Zones,
                 Covers(ptr, todo'[m], z), Covers(ptr, todo'[n], z)
          PROVE  m = n
      <3>1. \A k \in 2..len : Covers(ptr, todo'[k], z) => Covers(ptr, todo[k], z) /\ z # y
        <4>1. Under(ptr, y, y)
          BY DEF Under
        <4> QED BY <1>6, <1>8, <1>15, <4>1
      <3>2. Covers(ptr, todo'[1], z) => z = y
        BY <1>8, <1>10
      <3>3. CASE m \in 2..len /\ n \in 2..len
        BY <1>2, <1>5, <1>11, <2>3, <3>1, <3>3 DEF TodoOK
      <3> QED BY <1>11, <2>3, <3>1, <3>2, <3>3
    <2>4. \A m, n \in 1..Len(todo'), z \in Zones :
             Covers(ptr, todo'[m], z) /\ Covers(ptr, todo'[n], z) => m = n
      BY <1>8, <2>3
    <2>5. todo' \in Seq([zone : Zones \cup {0}, depth : 0..2])
      BY <1>8 DEF TaskSet
    <2> QED BY <2>1, <2>2, <2>4, <2>5 DEF TodoOK, Owned, Covers, Par
  <1>18. Forest(ptr, dep, rt)'
    BY <1>3, <1>5, ForestStays
  <1>19. CallOK(ptr, dep, rt)'
    BY <1>3, <1>5 DEF CallOK
  <1>20. (TypeOK /\ zmap0 \subseteq zmap /\ pc # "panic")'
    BY <1>3, <1>14 DEF IInv, TypeOK
  <1> QED BY <1>16, <1>17, <1>18, <1>19, <1>20 DEF IInv, State

-----------------------------------------------------------------------------
(* delete_inode: the pointers of the file are gone. *)
LEMMA ForestFelled ==
    ASSUME NEW ptr, NEW dep, NEW rt, Forest(ptr, dep, rt), TypeOK,
           NEW i \in Inodes, content' = content,
           \A k \in Inodes, s \in Slots : i_zone'[k][s] = IF k = i THEN 0 ELSE i_zone[k][s],
           NEW p, NEW d,
           \A z \in Zones : /\ rt[z] = i => p[z] = None /\ d[z] = 0
                            /\ rt[z] # i => p[z] = ptr[z] /\ d[z] = dep[z]
    PROVE  Forest(p, d, rt)'
  <1>1. \A z \in Zones : d[z] \in 0..2 /\ (p[z] = None => d[z] = 0)
    BY DEF Forest
  <1>2. ASSUME NEW k \in Inodes, NEW s \in Slots, i_zone'[k][s] # 0
        PROVE  LET z == i_zone'[k][s]
               IN  p[z] = <<"inode", k, s>> /\ d[z] = SlotDepth(s) /\ rt[z] = k
    <2> DEFINE z == i_zone[k][s]
    <2>1. i_zone'[k][s] = z /\ k # i /\ z # 0
      BY <1>2
    <2>2. ptr[z] = <<"inode", k, s>> /\ dep[z] = SlotDepth(s) /\ rt[z] = k
      BY <2>1 DEF Forest
    <2>3. z \in Zones
      BY <2>1 DEF TypeOK
    <2>4. p[z] = ptr[z] /\ d[z] = dep[z]
      BY <2>1, <2>2, <2>3
    <2> QED BY <2>1, <2>2, <2>4
  <1>3. ASSUME NEW y \in Zones, NEW n \in Entries, content'[y][n] # 0, d[y] > 0
        PROVE  LET z == content'[y][n]
               IN  p[z] = <<"zone", y, n>> /\ d[z] = d[y] - 1 /\ rt[z] = rt[y]
    <2> DEFINE z == content[y][n]
    <2>1. content'[y][n] = z /\ z # 0 /\ rt[y] # i /\ d[y] = dep[y]
      BY <1>3
    <2>2. ptr[z] = <<"zone", y, n>> /\ dep[z] = dep[y] - 1 /\ rt[z] = rt[y]
      BY <1>3, <2>1 DEF Forest
    <2>3. z \in Zones
      BY <2>1 DEF TypeOK
    <2>4. p[z] = ptr[z] /\ d[z] = dep[z]
      BY <2>1, <2>2, <2>3
    <2> QED BY <2>1, <2>2, <2>4
  <1>4. ASSUME NEW z \in Zones
        PROVE  p[z] = None \/ FromInode(p, z)' \/ FromZone(p, d, z)'
    <2>1. CASE rt[z] = i
      BY <2>1
    <2>2. CASE rt[z] # i /\ FromInode(ptr, z)
      <3>1. PICK k \in Inodes, s \in Slots : ptr[z] = <<"inode", k, s>> /\ i_zone[k][s] = z
        BY <2>2 DEF FromInode
      <3>2. rt[z] = k
        BY <3>1, Sizes DEF Forest
      <3>3. i_zone'[k][s] = z /\ p[z] = ptr[z]
        BY <2>2, <3>1, <3>2
      <3> QED BY <3>1, <3>3 DEF FromInode
    <2>3. CASE rt[z] # i /\ FromZone(ptr, dep, z)
      <3>1. PICK y \in Zones, n \in Entries :
                dep[y] > 0 /\ ptr[z] = <<"zone", y, n>> /\ content[y][n] = z
        BY <2>3 DEF FromZone
      <3>2. rt[z] = rt[y]
        BY <3>1, Sizes DEF Forest
      <3>3. content'[y][n] = z /\ p[z] = ptr[z] /\ d[y] = dep[y]
        BY <2>3, <3>1, <3>2
      <3> QED BY <3>1, <3>3 DEF FromZone
    <2>4. CASE rt[z] # i /\ ptr[z] = None
      BY <2>4
    <2> QED BY <2>1, <2>2, <2>3, <2>4 DEF Forest
  <1> QED BY <1>1, <1>2, <1>3, <1>4 DEF Forest

LEMMA DeleteInode == IInv /\ delete_inode => IInv'
  <1> SUFFICES ASSUME IInv, delete_inode PROVE IInv'
    OBVIOUS
  <1>1. PICK i : i = call.inode
    OBVIOUS
  <1>2. /\ pc = "truncate" /\ todo = <<>> /\ pc' = "idle" /\ Return
        /\ i_zone' = [i_zone EXCEPT ![i] = [s \in Slots |-> 0]]
        /\ UNCHANGED <<zmap, content, boot, lost, todo>>
    BY <1>1 DEF delete_inode, Return
  <1>3. PICK ptr, dep, rt : State(ptr, dep, rt)
    BY DEF IInv
  <1>4. /\ TypeOK /\ Forest(ptr, dep, rt) /\ Accounts(ptr, rt) /\ TodoOK(ptr, dep, rt)
        /\ CallOK(ptr, dep, rt)
    BY <1>3 DEF IInv, State
  <1>5. i \in Inodes
    BY <1>1, <1>2, <1>4 DEF CallOK
  <1>6. /\ i_zone' \in [Inodes -> [Slots -> Zones \cup {0}]]
        /\ \A k \in Inodes, s \in Slots : i_zone'[k][s] = IF k = i THEN 0 ELSE i_zone[k][s]
    <2> DEFINE none == [s \in Slots |-> 0]
    <2>1. i_zone \in [Inodes -> [Slots -> Zones \cup {0}]]
      BY <1>4 DEF TypeOK
    <2>2. none \in [Slots -> Zones \cup {0}] /\ \A s \in Slots : none[s] = 0
      OBVIOUS
    <2>3. i_zone' = [i_zone EXCEPT ![i] = none]
      BY <1>2
    <2> HIDE DEF none
    <2> QED BY <1>5, <2>1, <2>2, <2>3
  <1>7. PICK p, d : \A z \in Zones : /\ rt[z] = i => p[z] = None /\ d[z] = 0
                                     /\ rt[z] # i => p[z] = ptr[z] /\ d[z] = dep[z]
    <2> DEFINE p2 == [z \in Zones |-> IF rt[z] = i THEN None ELSE ptr[z]]
               d2 == [z \in Zones |-> IF rt[z] = i THEN 0 ELSE dep[z]]
    <2>1. \A z \in Zones : /\ rt[z] = i => p2[z] = None /\ d2[z] = 0
                           /\ rt[z] # i => p2[z] = ptr[z] /\ d2[z] = dep[z]
      OBVIOUS
    <2> HIDE DEF p2, d2
    <2> QED BY <2>1
  <1>8. Forest(p, d, rt)'
    <2>1. content' = content
      BY <1>2
    <2> QED BY <1>4, <1>5, <1>6, <1>7, <2>1, ForestFelled
  <1>9. Accounts(p, rt)'
    <2>1. Len(todo) = 0 /\ Len(todo') = 0
      BY <1>2
    <2>2. \A z \in Zones : ~Pending(ptr, z) /\ ~Pending(p, z)'
      BY <2>1 DEF Pending
    <2>3. \A z \in Zones : Kept(p, rt, z)' <=> Kept(ptr, rt, z)
      BY <1>1, <1>2, <1>7 DEF Kept, Owned
    <2>4. \A z \in Zones : InUse(z)' <=> InUse(z)
      BY <1>2 DEF InUse, Bit
    <2> QED BY <1>2, <1>4, <2>2, <2>3, <2>4 DEF Accounts
  <1>10. TodoOK(p, d, rt)'
    <2>1. todo' = <<>> /\ Len(todo') = 0 /\ todo' \in Seq([zone : Zones \cup {0}, depth : 0..2])
      BY <1>2
    <2> QED BY <2>1 DEF TodoOK
  <1>11. CallOK(p, d, rt)'
    BY <1>2, Returned
  <1>12. (TypeOK /\ zmap0 \subseteq zmap /\ pc # "panic")'
    BY <1>2, <1>6 DEF IInv, TypeOK
  <1> QED BY <1>8, <1>9, <1>10, <1>11, <1>12 DEF IInv, State

-----------------------------------------------------------------------------
(* The inductive invariant: the pointers of all files form a forest, and   *)
(* the bitmap says which zones are in it, still to be deleted, or lost.    *)
THEOREM Invariant == Spec => []IInv
  <1>1. IInv /\ [Next]_vars => IInv'
    <2> SUFFICES ASSUME IInv, [Next]_vars PROVE IInv'
      OBVIOUS
    <2>1. CASE Next
      BY <2>1, StartLocate, LocateFound, LocateHole, LocateCreate, LocateFull, StartPutInode,
         SkipHole, DeleteBlock, DeleteIndirecteBlock, DeleteUnread, DeleteInode DEF Next
    <2>2. CASE UNCHANGED vars
      <3> USE <2>2 DEF vars
      <3>1. PICK ptr, dep, rt : State(ptr, dep, rt)
        BY DEF IInv
      <3>2. Forest(ptr, dep, rt)'
        BY <3>1, ForestStays DEF State
      <3>3. /\ \A z : InUse(z)' <=> InUse(z)
            /\ \A z : Kept(ptr, rt, z)' <=> Kept(ptr, rt, z)
            /\ \A z : Pending(ptr, z)' <=> Pending(ptr, z)
        BY DEF InUse, Bit, Kept, Owned, Pending, Covers, Par
      <3>4. Accounts(ptr, rt)'
        BY <3>1, <3>3 DEF State, Accounts
      <3>5. TodoOK(ptr, dep, rt)' /\ CallOK(ptr, dep, rt)'
        BY <3>1 DEF State, TodoOK, CallOK, Owned, Covers, Par
      <3>6. (TypeOK /\ zmap0 \subseteq zmap /\ pc # "panic")'
        BY DEF IInv, TypeOK
      <3> QED BY <3>2, <3>4, <3>5, <3>6 DEF IInv, State
    <2> QED BY <2>1, <2>2
  <1> QED BY <1>1, InitInv, PTL DEF Spec

-----------------------------------------------------------------------------
(* What the invariant says of the pointers and of the bitmap. *)
LEMMA IndirectAre ==
    ASSUME NEW ptr, NEW dep, NEW rt, Forest(ptr, dep, rt), TypeOK
    PROVE  Indirect = {y \in Zones : Owned(ptr, y) /\ dep[y] \in {1, 2}}
  <1> DEFINE ind(i) == {i_zone[i][DIRECT]} \ {0}
             dbl(i) == {i_zone[i][DIRECT + 1]} \ {0}
             of(i) == ind(i) \cup dbl(i) \cup UNION {Kids(z) : z \in dbl(i)}
  <1>1. Indirect = UNION {of(i) : i \in Inodes}
    BY DEF Indirect
  <1>2. ASSUME NEW i \in Inodes
        PROVE  /\ \A y \in ind(i) : y \in Zones /\ Owned(ptr, y) /\ dep[y] = 1
               /\ \A y \in dbl(i) : y \in Zones /\ Owned(ptr, y) /\ dep[y] = 2
    <2>1. ASSUME NEW s \in Slots, i_zone[i][s] # 0
          PROVE  LET y == i_zone[i][s]
                 IN  y \in Zones /\ Owned(ptr, y) /\ dep[y] = SlotDepth(s)
      <3>1. i_zone[i][s] \in Zones
        BY <2>1 DEF TypeOK
      <3>2. ptr[i_zone[i][s]] = <<"inode", i, s>> /\ dep[i_zone[i][s]] = SlotDepth(s)
        BY <2>1 DEF Forest
      <3> QED BY <3>1, <3>2 DEF Owned, None
    <2> QED BY <2>1, Sizes
  <1>3. ASSUME NEW i \in Inodes, NEW y \in of(i)
        PROVE  y \in Zones /\ Owned(ptr, y) /\ dep[y] \in {1, 2}
    <2>1. CASE y \in ind(i) \/ y \in dbl(i)
      BY <1>2, <2>1
    <2>2. CASE \E z \in dbl(i) : y \in Kids(z)
      <3>1. PICK z \in dbl(i) : y \in Kids(z)
        BY <2>2
      <3>2. z \in Zones /\ dep[z] = 2
        BY <1>2, <3>1
      <3>3. y \in Zones /\ Par(ptr, y) = z /\ z # 0
        BY <3>1, <3>2, KidsAre, Sizes
      <3>4. Owned(ptr, y) /\ dep[y] = dep[z] - 1
        BY <3>3, ParentIs DEF Inside
      <3> QED BY <3>2, <3>3, <3>4
    <2> QED BY <1>3, <2>1, <2>2
  <1>4. ASSUME NEW y \in Zones, Owned(ptr, y), dep[y] \in {1, 2}
        PROVE  \E i \in Inodes : y \in of(i)
    <2> HIDE DEF Indirect
    <2>1. ASSUME NEW z \in Zones, AtRoot(ptr, dep, rt, z), dep[z] \in {1, 2}
          PROVE  /\ rt[z] \in Inodes
                 /\ dep[z] = 1 => z \in ind(rt[z])
                 /\ dep[z] = 2 => z \in dbl(rt[z])
      <3>1. PICK s \in Slots : i_zone[rt[z]][s] = z /\ dep[z] = SlotDepth(s)
        BY <2>1 DEF AtRoot
      <3>2. /\ dep[z] = 1 => s = DIRECT
            /\ dep[z] = 2 => s = DIRECT + 1
        BY <2>1, <3>1, Sizes DEF SlotDepth
      <3>3. z # 0 /\ rt[z] \in Inodes
        BY <2>1, Sizes DEF AtRoot
      <3> QED BY <3>1, <3>2, <3>3
    <2>2. CASE AtRoot(ptr, dep, rt, y)
      BY <1>4, <2>1, <2>2
    <2>3. CASE Inside(ptr, dep, rt, y)
      <3> DEFINE x == Par(ptr, y)
      <3>1. x \in Zones /\ Owned(ptr, x) /\ dep[x] \in {1, 2} /\ dep[y] = dep[x] - 1 /\ x # 0
        BY <2>3, Sizes DEF Inside
      <3>2. dep[x] = 2
        BY <1>4, <3>1
      <3>3. AtRoot(ptr, dep, rt, x)
        <4>1. ~Inside(ptr, dep, rt, x)
          <5> HIDE DEF x
          <5> QED BY <3>2 DEF Inside
        <4> QED BY <3>1, <4>1, Pointed
      <3>4. rt[x] \in Inodes /\ x \in dbl(rt[x])
        BY <2>1, <3>1, <3>2, <3>3
      <3>5. y \in Kids(x)
        BY <3>1, <3>2, KidsAre
      <3> HIDE DEF x
      <3>6. y \in of(rt[x])
        BY <3>4, <3>5
      <3> HIDE DEF of
      <3> QED BY <3>4, <3>6
    <2> QED BY <1>4, <2>2, <2>3, Pointed
  <1> HIDE DEF of
  <1> QED BY <1>1, <1>3, <1>4

LEMMA PointersAre ==
    ASSUME NEW ptr, NEW dep, NEW rt, Forest(ptr, dep, rt), TypeOK
    PROVE  /\ \A q \in Pointers : Target(q) # 0 =>
                 /\ Target(q) \in Zones /\ Owned(ptr, Target(q)) /\ ptr[Target(q)] = q
           /\ \A z \in Zones : Owned(ptr, z) => \E q \in Pointers : Target(q) = z
  <1>1. Indirect = {y \in Zones : Owned(ptr, y) /\ dep[y] \in {1, 2}}
    BY IndirectAre
  <1>2. \A q : q \in Pointers <=>
            \/ \E i \in Inodes, s \in Slots : q = <<"inode", i, s>>
            \/ \E y \in Indirect, n \in Entries : q = <<"zone", y, n>>
    BY DEF Pointers
  <1>3. /\ \A i, s : Target(<<"inode", i, s>>) = i_zone[i][s]
        /\ \A y, n : Target(<<"zone", y, n>>) = content[y][n]
    BY DEF Target
  <1>4. ASSUME NEW q \in Pointers, Target(q) # 0
        PROVE  Target(q) \in Zones /\ Owned(ptr, Target(q)) /\ ptr[Target(q)] = q
    <2>1. CASE \E i \in Inodes, s \in Slots : q = <<"inode", i, s>>
      <3>1. PICK i \in Inodes, s \in Slots : q = <<"inode", i, s>>
        BY <2>1
      <3>2. Target(q) = i_zone[i][s]
        BY <1>3, <3>1
      <3>3. i_zone[i][s] \in Zones
        BY <1>4, <3>2 DEF TypeOK
      <3>4. ptr[i_zone[i][s]] = <<"inode", i, s>>
        BY <1>4, <3>2 DEF Forest
      <3>5. Owned(ptr, i_zone[i][s])
        BY <3>4 DEF Owned, None
      <3> QED BY <3>1, <3>2, <3>3, <3>4, <3>5
    <2>2. CASE \E y \in Indirect, n \in Entries : q = <<"zone", y, n>>
      <3>1. PICK y \in Indirect, n \in Entries : q = <<"zone", y, n>>
        BY <2>2
      <3>2. Target(q) = content[y][n] /\ y \in Zones /\ dep[y] > 0
        BY <1>1, <1>3, <3>1
      <3>3. content[y][n] \in Zones
        BY <1>4, <3>2 DEF TypeOK
      <3>4. ptr[content[y][n]] = <<"zone", y, n>>
        BY <1>4, <3>2 DEF Forest
      <3>5. Owned(ptr, content[y][n])
        BY <3>4 DEF Owned, None
      <3> QED BY <3>1, <3>2, <3>3, <3>4, <3>5
    <2> QED BY <1>2, <2>1, <2>2
  <1>5. ASSUME NEW z \in Zones, Owned(ptr, z)
        PROVE  \E q \in Pointers : Target(q) = z
    <2>1. CASE AtRoot(ptr, dep, rt, z)
      <3>1. PICK s \in Slots : i_zone[rt[z]][s] = z
        BY <2>1 DEF AtRoot
      <3>2. rt[z] \in Inodes
        BY <2>1 DEF AtRoot
      <3>3. <<"inode", rt[z], s>> \in Pointers
        BY <1>2, <3>2
      <3>4. Target(<<"inode", rt[z], s>>) = z
        BY <1>3, <3>1
      <3> QED BY <3>3, <3>4
    <2>2. CASE Inside(ptr, dep, rt, z)
      <3> DEFINE y == Par(ptr, z)
      <3>1. y \in Indirect
        BY <1>1, <2>2 DEF Inside
      <3>2. PICK n \in Entries : content[y][n] = z
        BY <2>2 DEF Inside
      <3> HIDE DEF y
      <3>3. <<"zone", y, n>> \in Pointers
        BY <1>2, <3>1
      <3>4. Target(<<"zone", y, n>>) = z
        BY <1>3, <3>2
      <3> QED BY <3>3, <3>4
    <2> QED BY <1>5, <2>1, <2>2, Pointed
  <1> QED BY <1>4, <1>5

(* The pointer to a zone is unique: it is the one the forest names. *)
LEMMA SharesNothing == IInv => NoSharing
  <1> SUFFICES ASSUME IInv, NEW p \in Pointers, NEW q \in Pointers,
                      Target(p) = Target(q), Target(p) # 0
               PROVE  p = q
    BY DEF NoSharing
  <1>1. PICK ptr, dep, rt : State(ptr, dep, rt)
    BY DEF IInv
  <1>2. Forest(ptr, dep, rt) /\ TypeOK
    BY <1>1 DEF IInv, State
  <1>3. ptr[Target(p)] = p /\ ptr[Target(q)] = q
    BY <1>2, PointersAre
  <1> QED BY <1>3

(* Between two calls nothing is pending, so the bits set since the start   *)
(* are those of the zones in the forest and of the lost ones.              *)
LEMMA SaysWhatIsInUse == IInv => BitmapExact
  <1> SUFFICES ASSUME IInv, pc = "idle"
               PROVE  {Zone(j) : j \in zmap \ zmap0} = Referenced \cup lost
    BY DEF IInv, BitmapExact
  <1>1. PICK ptr, dep, rt : State(ptr, dep, rt)
    BY DEF IInv
  <1>2. /\ Forest(ptr, dep, rt) /\ TypeOK /\ Accounts(ptr, rt) /\ TodoOK(ptr, dep, rt)
    BY <1>1 DEF IInv, State
  <1>3. Referenced = {z \in Zones : Owned(ptr, z)}
    <2>1. \A z : z \in Referenced <=> z # 0 /\ \E q \in Pointers : Target(q) = z
      BY DEF Referenced
    <2>2. \A z \in Zones : z # 0
      BY Sizes
    <2>3. ASSUME NEW z \in Referenced PROVE z \in Zones /\ Owned(ptr, z)
      BY <1>2, <2>1, PointersAre
    <2>4. ASSUME NEW z \in Zones, Owned(ptr, z) PROVE z \in Referenced
      BY <1>2, <2>1, <2>2, <2>4, PointersAre
    <2> QED BY <2>3, <2>4
  <1>4. \A z \in Zones : InUse(z) <=> Owned(ptr, z) \/ z \in lost
    <2>1. Len(todo) = 0
      BY <1>2 DEF TodoOK
    <2>2. \A z \in Zones : ~Pending(ptr, z) /\ (Kept(ptr, rt, z) <=> Owned(ptr, z))
      BY <2>1 DEF Pending, Kept
    <2> QED BY <1>2, <2>2 DEF Accounts
  <1>5. ASSUME NEW j \in zmap \ zmap0 PROVE Zone(j) \in Zones /\ InUse(Zone(j))
    <2>1. j \in Bits \ zmap0
      BY <1>2 DEF TypeOK
    <2>2. Zone(j) \in DataZones /\ Bit(Zone(j)) = j
      BY <2>1, Sizes
    <2>3. Zone(j) \in Zones
      BY <2>2, Sizes
    <2> QED BY <2>2, <2>3 DEF InUse
  <1>6. ASSUME NEW z \in Zones, InUse(z) PROVE \E j \in zmap \ zmap0 : Zone(j) = z
    <2>1. Zone(Bit(z)) = z
      BY Sizes
    <2>2. Bit(z) \in zmap \ zmap0
      BY <1>6 DEF InUse
    <2> QED BY <2>1, <2>2
  <1>7. lost \subseteq Zones
    BY <1>2 DEF TypeOK
  <1>8. {Zone(j) : j \in zmap \ zmap0} = {z \in Zones : InUse(z)}
    BY <1>5, <1>6
  <1>9. {z \in Zones : InUse(z)} = Referenced \cup lost
    BY <1>3, <1>4, <1>7
  <1> QED BY <1>8, <1>9

(* Between two calls the bitmap says exactly which zones are in use: what  *)
(* add_zone_bitmap hands out was free, and free_zone_bitmap got every zone *)
(* of a deleted file that put_inode could reach.                           *)
THEOREM BitmapSaysUse == Spec => []BitmapExact
  BY Invariant, SaysWhatIsInUse, PTL

(* Between two calls no zone belongs to two blocks, of one file or of two. *)
THEOREM OneOwner == Spec => []NoSharing
  BY Invariant, SharesNothing, PTL

(* The panic in free_zone_bitmap, for a zone outside the data zones, is    *)
(* not reached.                                                            *)
THEOREM FreesDataZones == Spec => []NoPanic
  <1>1. IInv => NoPanic
    BY DEF IInv, NoPanic
  <1> QED BY <1>1, Invariant, PTL

-----------------------------------------------------------------------------
(* Blocks stay where they are: the pointers on the way to a block are in   *)
(* zones that are in use, and a step changes no pointer in use but those   *)
(* of the inode that it deletes.                                           *)
LEMMA StaysPut ==
    ASSUME NEW ptr, NEW dep, NEW rt, Forest(ptr, dep, rt), TypeOK,
           NEW i \in Inodes, NEW block \in 0..(Size - 1), ZoneOf(i, block) # 0,
           \A s \in Slots : i_zone[i][s] # 0 => i_zone'[i][s] = i_zone[i][s],
           \A y \in Zones, n \in Entries :
               Owned(ptr, y) /\ content[y][n] # 0 => content'[y][n] = content[y][n]
    PROVE  ZoneOf(i, block)' = ZoneOf(i, block)
  <1>1. PICK path : path = Path(block)
    OBVIOUS
  <1>2. PathOK(path)
    BY <1>1, PathLength
  <1>3. PICK len : len = Len(path)
    OBVIOUS
  <1>4. len \in {1, 2, 3} /\ path[1] \in Slots /\ SlotDepth(path[1]) = len - 1
    <2>1. len \in 1..3
      BY <1>2, <1>3 DEF PathOK
    <2> QED BY <1>2, <1>3, <2>1 DEF PathOK
  <1>5. (len # 1 => path[2] \in Entries) /\ (len = 3 => path[3] \in Entries)
    <2>1. \A k \in 2..len : path[k] \in Entries
      BY <1>2, <1>3 DEF PathOK
    <2>2. (len # 1 => 2 \in 2..len) /\ (len = 3 => 3 \in 2..len)
      BY <1>4
    <2> QED BY <2>1, <2>2
  <1> DEFINE z1 == i_zone[i][path[1]]
             z2 == IF len = 1 \/ z1 = 0 THEN z1 ELSE content[z1][path[2]]
             z3 == IF len < 3 \/ z2 = 0 THEN z2 ELSE content[z2][path[3]]
             n1 == i_zone'[i][path[1]]
             n2 == IF len = 1 \/ n1 = 0 THEN n1 ELSE content'[n1][path[2]]
             n3 == IF len < 3 \/ n2 = 0 THEN n2 ELSE content'[n2][path[3]]
  <1>6. ZoneOf(i, block) = z3
    BY <1>1, <1>3 DEF ZoneOf
  <1>7. ZoneOf(i, block)' = n3
    <2>1. Path(block) = path
      BY <1>1
    <2> QED BY <1>3, <2>1 DEF ZoneOf, Path
  <1>8. z3 # 0
    BY <1>6
  <1>9. z1 # 0 /\ z2 # 0
    BY <1>8
  <1>10. /\ z1 \in Zones /\ Owned(ptr, z1) /\ dep[z1] = len - 1
         /\ n1 = z1
    <2>1. z1 \in Zones
      BY <1>4, <1>9 DEF TypeOK
    <2>2. ptr[z1] = <<"inode", i, path[1]>> /\ dep[z1] = len - 1
      BY <1>4, <1>9 DEF Forest
    <2>3. n1 = z1
      BY <1>4, <1>9
    <2> QED BY <2>1, <2>2, <2>3 DEF Owned, None
  <1>11. n2 = z2 /\ (len = 3 => z2 \in Zones /\ Owned(ptr, z2))
    <2>1. CASE len = 1
      BY <1>10, <2>1
    <2>2. CASE len # 1
      <3>1. z2 = content[z1][path[2]] /\ path[2] \in Entries
        BY <1>5, <1>9, <2>2
      <3>2. content'[z1][path[2]] = content[z1][path[2]]
        BY <1>9, <1>10, <3>1
      <3>3. n2 = z2
        BY <1>9, <1>10, <2>2, <3>1, <3>2
      <3>4. z2 \in Zones
        BY <1>9, <1>10, <3>1 DEF TypeOK
      <3>5. dep[z1] > 0
        BY <1>4, <1>10, <2>2
      <3>6. \A y \in Zones, n \in Entries : content[y][n] # 0 /\ dep[y] > 0
               => ptr[content[y][n]] = <<"zone", y, n>>
        BY DEF Forest
      <3> HIDE DEF z1, z2, n1, n2
      <3>7. \A y, n : ptr[z2] = <<"zone", y, n>> => Owned(ptr, z2)
        BY DEF Owned, None
      <3>8. Owned(ptr, z2)
        BY <1>9, <1>10, <3>1, <3>5, <3>6, <3>7
      <3> QED BY <3>3, <3>4, <3>8
    <2> QED BY <2>1, <2>2
  <1>12. n3 = z3
    <2>1. CASE len < 3
      BY <1>11, <2>1
    <2>2. CASE len = 3
      <3>1. z3 = content[z2][path[3]] /\ path[3] \in Entries
        BY <1>5, <1>9, <2>2
      <3>2. content'[z2][path[3]] = content[z2][path[3]]
        BY <1>8, <1>11, <2>2, <3>1
      <3> HIDE DEF z1, z2, z3, n1, n2
      <3>3. n2 = z2 /\ n2 # 0 /\ ~(len < 3)
        BY <1>9, <1>11, <2>2
      <3>4. n3 = content'[n2][path[3]]
        BY <3>3
      <3>5. content'[n2][path[3]] = content'[z2][path[3]]
        BY <3>3
      <3> HIDE DEF n3
      <3>6. n3 = content[z2][path[3]]
        BY <3>2, <3>4, <3>5
      <3> QED BY <3>1, <3>6
    <2> QED BY <1>4, <2>1, <2>2
  <1> HIDE DEF z3, n3
  <1> QED BY <1>6, <1>7, <1>12

LEMMA StepKeepsBlocks ==
    ASSUME IInv, [Next]_vars, NEW i \in Inodes, NEW block \in 0..(Size - 1),
           ZoneOf(i, block) # 0, ~(pc = "truncate" /\ call.inode = i)
    PROVE  ZoneOf(i, block)' = ZoneOf(i, block)
  <1>1. PICK ptr, dep, rt : State(ptr, dep, rt)
    BY DEF IInv
  <1>2. /\ TypeOK /\ zmap0 \subseteq zmap
        /\ Forest(ptr, dep, rt) /\ Accounts(ptr, rt) /\ CallOK(ptr, dep, rt)
    BY <1>1 DEF IInv, State
  <1>3. CASE UNCHANGED <<content, i_zone>>
    BY <1>2, <1>3, StaysPut
  <1>4. CASE locate_create
    <2>1. PICK x : x = add_zone_bitmap
      OBVIOUS
    <2>2. pc = "locate" /\ Pointer = 0 /\ x # 0
      BY <1>4, <2>1 DEF locate_create
    <2>3. x \in Zones /\ Bit(x) \notin zmap
      BY <1>2, <2>1, <2>2, NewZone, Sizes
    <2>4. ~Owned(ptr, x)
      BY <1>2, <2>2, <2>3 DEF Accounts, InUse, Kept
    <2>5. /\ \A k \in Inodes, s \in Slots :
                i_zone'[k][s] = IF call.level = 1 /\ k = call.inode /\ s = Index THEN x
                                ELSE i_zone[k][s]
          /\ \A y \in Zones, n \in Entries :
                content'[y][n] = IF call.level # 1 /\ y = call.bh /\ n = Index THEN x
                                 ELSE IF y = x THEN 0 ELSE content[y][n]
      BY <1>2, <1>4, <2>1, <2>3, CreateIs
    <2>6. \A s \in Slots : i_zone[i][s] # 0 => i_zone'[i][s] = i_zone[i][s]
      BY <2>2, <2>5 DEF Pointer
    <2>7. \A y \in Zones, n \in Entries :
             Owned(ptr, y) /\ content[y][n] # 0 => content'[y][n] = content[y][n]
      BY <2>2, <2>4, <2>5 DEF Pointer
    <2> QED BY <1>2, <2>6, <2>7, StaysPut
  <1>5. CASE delete_block \/ delete_inode
    <2>1. /\ call.inode # i /\ content' = content
          /\ \E new : i_zone' = [i_zone EXCEPT ![call.inode] = new]
      BY <1>5 DEF delete_block, delete_inode
    <2>2. i_zone'[i] = i_zone[i]
      BY <1>2, <2>1 DEF TypeOK
    <2> QED BY <1>2, <2>1, <2>2, StaysPut
  <1>6. UNCHANGED <<content, i_zone>> \/ locate_create \/ delete_block \/ delete_inode
    BY DEF Next, vars, start_locate, locate_found, locate_hole, locate_full, start_put_inode,
           skip_hole, delete_indirecte_block, delete_indirecte_block_unread
  <1> QED BY <1>3, <1>4, <1>5, <1>6

(* Blocks of a file stay where they are: only the deletion of the file     *)
(* itself changes the zone of one of its blocks.                           *)
THEOREM BlocksNeverMove == Spec => BlocksStay
  <1> DEFINE A == \A i \in Inodes, block \in 0..(Size - 1) :
                     ZoneOf(i, block) # 0 /\ ~(pc = "truncate" /\ call.inode = i)
                         => ZoneOf(i, block)' = ZoneOf(i, block)
  <1>1. IInv /\ [Next]_vars => [A]_vars
    <2>1. IInv /\ [Next]_vars => A
      BY StepKeepsBlocks
    <2> QED BY <2>1
  <1>2. BlocksStay <=> [][A]_vars
    BY DEF BlocksStay
  <1> QED BY <1>1, <1>2, Invariant, PTL DEF Spec

=============================================================================
