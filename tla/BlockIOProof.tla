---------------------------- MODULE BlockIOProof ----------------------------
(***************************************************************************)
(* Proofs about BlockIO for every number of buffers and requests, every    *)
(* partition table and every content of the drive.                         *)
(***************************************************************************)
EXTENDS BlockIO, LeastNumber, TLAPS

----------------------------------------------------------------------------
(* The inductive invariant. *)

(* A request in the queue describes the part of its block that is still to *)
(* be transferred.                                                         *)
RequestFields ==
    \A s \in Queued :
        LET r == request_list[s]
        IN  /\ r.dev = b_dev[r.bh]
            /\ r.nr_sectors \in {1, 2}
            /\ r.buffer = 2 - r.nr_sectors
            /\ r.sector = 2 * b_blocknr[r.bh] + r.buffer

(* Steps that rely on the buffer being unlocked follow a wait for it.      *)
NeedsUnlocked == Submits \cup {"drop", "clear"}
Follows(s, k) ==
    s[k].op \in NeedsUnlocked =>
        s[k - 1].bh = s[k].bh /\ s[k - 1].op \in {"wait", "drop"}
Chained(s) == \A k \in 2..Len(s) : Follows(s, k)
WorkOK ==
    /\ Chained(work)
    /\ work # <<>> /\ Head(work).op \in NeedsUnlocked /\ pc.main # "repeat" => b_lock[bh] = 0
    /\ pc.main \in {"ll_rw", "repeat"} => work # <<>> /\ Head(work).op \in Submits
    /\ pc.main = "wait" => work # <<>>

(* At most one context is in the driver, and only between two commands.    *)
DriverControl ==
    /\ pc.main \in {"do_hd", "drq"} => pc.irq = "idle"
    /\ pc.main \in {"do_hd", "drq"} \/ pc.irq # "idle" => ~Active

(* What the controller does is what the current request asks for.          *)
CommandState ==
    /\ Active \/ InDrq => queue # <<>>
    /\ hd.phase \in {"wait", "abort"} => hd.cmd = "WRITE" /\ handler = "write_intr"
    /\ InDrq => /\ hd.phase \in {"wait", "abort"}
                /\ Current.cmd = WRITE
                /\ hd.left = Current.nr_sectors
    /\ Active =>
        \/ /\ hd.cmd \in {"SPECIFY", "RESTORE"} /\ handler = "recal_intr"
        \/ /\ \/ hd.cmd = "READ" /\ handler = "read_intr" /\ Current.cmd = READ
              \/ hd.cmd = "WRITE" /\ handler = "write_intr" /\ Current.cmd = WRITE
           /\ hd.left = IF hd.phase = "ok" THEN Current.nr_sectors - 1
                                           ELSE Current.nr_sectors

IOInv == /\ TypeOK
         /\ QueueHoldsRequests
         /\ LockedMeansQueued
         /\ RequestFields
         /\ WorkOK
         /\ DriverControl
         /\ CommandState

----------------------------------------------------------------------------
(* Sequences. *)

(* Tail drops one element and keeps the others in order.                   *)
LEMMA TailFacts ==
    ASSUME NEW S, NEW q \in Seq(S), q # <<>>
    PROVE  /\ Len(q) \in Nat \ {0}
           /\ Head(q) \in S /\ Head(q) = q[1]
           /\ Tail(q) \in Seq(S)
           /\ Len(Tail(q)) = Len(q) - 1
           /\ \A i \in 1..(Len(q) - 1) : Tail(q)[i] = q[i + 1]
OBVIOUS

(* When the current request leaves a duplicate-free queue, exactly it is   *)
(* gone: end_request.                                                      *)
LEMMA DequeueFacts ==
    ASSUME queue \in Seq(Slots), queue # <<>>, queue' = Tail(queue),
           \A i, j \in 1..Len(queue) : queue[i] = queue[j] => i = j
    PROVE  /\ Queued' = Queued \ {Head(queue)}
           /\ Head(queue) \in Queued
           /\ \A i, j \in 1..Len(queue') : queue'[i] = queue'[j] => i = j
  <1>1. /\ Len(queue) \in Nat \ {0}
        /\ Head(queue) = queue[1]
        /\ Len(queue') = Len(queue) - 1
        /\ \A i \in 1..(Len(queue) - 1) : queue'[i] = queue[i + 1]
    BY TailFacts
  <1>2. Queued' \subseteq Queued \ {Head(queue)}
    BY <1>1 DEF Queued
  <1>3. ASSUME NEW s \in Queued, s # Head(queue) PROVE s \in Queued'
    <2>1. PICK i \in 1..Len(queue) : queue[i] = s
      BY DEF Queued
    <2>2. i - 1 \in 1..Len(queue') /\ queue'[i - 1] = s
      BY <1>1, <1>3, <2>1
    <2> QED BY <2>2 DEF Queued
  <1>4. Head(queue) \in Queued
    BY <1>1 DEF Queued
  <1>5. \A i, j \in 1..Len(queue') : queue'[i] = queue'[j] => i = j
    BY <1>1
  <1> QED BY <1>2, <1>3, <1>4, <1>5

(* The elevator adds exactly the new slot, behind the current request.     *)
LEMMA InsertFacts ==
    ASSUME queue \in Seq(Slots), NEW i \in 1..Len(queue), NEW s \in Slots,
           queue' = InsertBehind(i, s)
    PROVE  /\ queue' \in Seq(Slots)
           /\ Len(queue') = Len(queue) + 1
           /\ queue' # <<>>
           /\ Head(queue') = Head(queue)
           /\ Queued' = Queued \cup {s}
           /\ (\A k, l \in 1..Len(queue) : queue[k] = queue[l] => k = l) /\ s \notin Queued
              => \A k, l \in 1..Len(queue') : queue'[k] = queue'[l] => k = l
  <1> DEFINE n == Len(queue)
  <1>1. n \in Nat /\ i \in 1..n /\ \A k \in 1..n : queue[k] \in Slots
    OBVIOUS
  <1>2. queue' = [k \in 1..(n + 1) |->
                    IF k <= i THEN queue[k] ELSE IF k = i + 1 THEN s ELSE queue[k - 1]]
    BY DEF InsertBehind
  <1>3. \A k \in 1..(n + 1) : queue'[k] \in Slots
    BY <1>1, <1>2
  <1>4. queue' \in Seq(Slots) /\ Len(queue') = n + 1
    BY <1>1, <1>2, <1>3
  <1>5. queue' # <<>> /\ Head(queue') = Head(queue)
    BY <1>1, <1>2, <1>4
  <1>6. Queued' \subseteq Queued \cup {s}
    BY <1>1, <1>2, <1>4 DEF Queued
  <1>7. s \in Queued'
    <2>1. i + 1 \in 1..Len(queue') /\ queue'[i + 1] = s
      BY <1>1, <1>2, <1>4
    <2> QED BY <2>1 DEF Queued
  <1>8. ASSUME NEW t \in Queued PROVE t \in Queued'
    <2>1. PICK k \in 1..n : queue[k] = t
      BY DEF Queued
    <2>2. CASE k <= i
      <3>1. k \in 1..Len(queue') /\ queue'[k] = t
        BY <2>1, <2>2, <1>1, <1>2, <1>4
      <3> QED BY <3>1 DEF Queued
    <2>3. CASE k > i
      <3>1. k + 1 \in 1..Len(queue') /\ queue'[k + 1] = t
        BY <2>1, <2>3, <1>1, <1>2, <1>4
      <3> QED BY <3>1 DEF Queued
    <2> QED BY <2>2, <2>3, <1>1
  <1>9. ASSUME \A k, l \in 1..n : queue[k] = queue[l] => k = l, s \notin Queued
        PROVE  \A k, l \in 1..Len(queue') : queue'[k] = queue'[l] => k = l
    <2>1. \A k \in 1..n : queue[k] # s
      BY <1>9 DEF Queued
    <2> QED BY <2>1, <1>9, <1>1, <1>2, <1>4
  <1> QED BY <1>4, <1>5, <1>6, <1>7, <1>8, <1>9

----------------------------------------------------------------------------
(* Addresses. *)

LEMMA DivType ==
    ASSUME NEW b \in Nat, NEW n \in Nat \ {0} PROVE b \div n \in Nat
BY Z3

LEMMA ModType ==
    ASSUME NEW b \in Nat, NEW n \in Nat \ {0} PROVE b % n \in Nat
BY Z3

LEMMA DivMod ==
    ASSUME NEW b \in Nat, NEW n \in Nat \ {0} PROVE b = n * (b \div n) + (b % n)
BY Z3

LEMMA Recombine ==
    ASSUME NEW S \in Nat, NEW H \in Nat, NEW b \in Nat, NEW m \in Nat,
           NEW t \in Nat, NEW c \in Nat, NEW h \in Nat,
           t = H * c + h, b = S * t + m
    PROVE  S * (H * c + h) + (m + 1) - 1 = b
  <1>1. S * (H * c + h) = S * t
    OBVIOUS
  <1>2. S * t \in Int
    OBVIOUS
  <1> QED BY <1>1, <1>2

(* The cylinder, head and sector that do_hd_request computes with its two  *)
(* divisions address the sector they were computed from.                   *)
THEOREM AddressedSector ==
    ASSUME NEW block \in Nat
    PROVE  Addressed(CHS(block)) = block
  <1>1. SECT \in Nat \ {0} /\ HEADS \in Nat \ {0}
    BY SizeAssumption
  <1>2. PICK t : t = block \div SECT
    OBVIOUS
  <1>3. PICK m : m = block % SECT
    OBVIOUS
  <1>4. PICK c : c = t \div HEADS
    OBVIOUS
  <1>5. PICK h : h = t % HEADS
    OBVIOUS
  <1>6. t \in Nat /\ m \in Nat /\ block = SECT * t + m
    BY <1>1, <1>2, <1>3, DivType, ModType, DivMod
  <1>7. c \in Nat /\ h \in Nat /\ t = HEADS * c + h
    BY <1>1, <1>4, <1>5, <1>6, DivType, ModType, DivMod
  <1>8. CHS(block) = [sec |-> m + 1, head |-> h, cyl |-> c]
    BY <1>2, <1>3, <1>4, <1>5 DEF CHS
  <1>9. Addressed(CHS(block)) = SECT * (HEADS * c + h) + (m + 1) - 1
    BY <1>8 DEF Addressed
  <1> QED BY <1>1, <1>6, <1>7, <1>9, Recombine

(* A request in use lies on a partition of the table. *)
LEMMA PartitionFacts ==
    ASSUME NEW r \in Request, ~OutOfRange(r), r.dev \in Nat
    PROVE  /\ MINOR(r.dev) \in DOMAIN partition_info
           /\ partition_info[MINOR(r.dev)].start_sect + r.sector \in Nat
           /\ Addressed(Address(r)) = partition_info[MINOR(r.dev)].start_sect + r.sector
  <1>1. MINOR(r.dev) \in Nat
    BY DEF MINOR
  <1>2. MINOR(r.dev) \in 0..(5 * NR_HD - 1)
    BY <1>1, SizeAssumption DEF OutOfRange
  <1>3. partition_info[MINOR(r.dev)] \in [start_sect : Nat, nr_sects : Nat]
    BY <1>2, LayoutAssumption
  <1>4. partition_info[MINOR(r.dev)].start_sect + r.sector \in Nat
    BY <1>3 DEF Request
  <1> QED BY <1>2, <1>4, LayoutAssumption, AddressedSector DEF Address

----------------------------------------------------------------------------
(* Calls. *)

LEMMA StepType ==
    ASSUME NEW op \in Ops, NEW b \in Buffers
    PROVE  /\ Step(op, b) \in Steps
           /\ Step(op, b).op = op /\ Step(op, b).bh = b
BY DEF Step, Steps

(* sync_dev and invalidate_buffs wait for a buffer before they touch it.   *)
LEMMA ForDeviceChained ==
    ASSUME NEW dev, NEW op \in {"write", "drop"}
    PROVE  /\ ForDevice(dev, op) \in Seq(Steps)
           /\ Chained(ForDevice(dev, op))
           /\ Len(ForDevice(dev, op)) = 2 * NR_BUFFERS
           /\ ForDevice(dev, op)[1].op \in {"wait", "continue"}
  <1> DEFINE f == ForDevice(dev, op)
  <1> DEFINE n == 2 * NR_BUFFERS
  <1>1. n \in Nat /\ n >= 2 /\ NR_BUFFERS \in Nat
    BY SizeAssumption
  <1>2. ASSUME NEW k \in 1..n
        PROVE  /\ (k + 1) \div 2 \in Buffers
               /\ f[k] \in Steps
               /\ f[k].bh = (k + 1) \div 2
               /\ k % 2 = 1 => f[k].op \in {"wait", "continue"}
               /\ k % 2 = 0 => f[k].op = IF b_dev[(k + 1) \div 2] # dev THEN "continue" ELSE op
               /\ k % 2 = 1 /\ b_dev[(k + 1) \div 2] = dev => f[k].op = "wait"
    <2>1. (k + 1) \div 2 \in 1..NR_BUFFERS
      BY <1>1
    <2> QED BY <2>1, <1>1 DEF ForDevice, Step, Steps, Ops, Submits, Buffers
  <1>3. f \in Seq(Steps) /\ Len(f) = n
    <2>1. f = [k \in 1..n |-> f[k]]
      BY DEF ForDevice
    <2>2. \A k \in 1..n : f[k] \in Steps
      BY <1>2
    <2> HIDE DEF f, n
    <2> QED BY <2>1, <2>2, <1>1
  <1>4. ASSUME NEW k \in 2..n PROVE Follows(f, k)
    <2>1. CASE k % 2 = 1
      BY <2>1, <1>1, <1>2 DEF Follows, NeedsUnlocked, Submits
    <2>2. CASE k % 2 = 0
      <3>1. k - 1 \in 1..n /\ (k - 1) % 2 = 1 /\ ((k - 1) + 1) \div 2 = (k + 1) \div 2
        BY <2>2, <1>1
      <3>2. f[k - 1].bh = f[k].bh
        BY <3>1, <1>1, <1>2
      <3>3. f[k].op \in NeedsUnlocked => b_dev[(k + 1) \div 2] = dev
        BY <2>2, <1>1, <1>2 DEF NeedsUnlocked, Submits
      <3>4. b_dev[(k + 1) \div 2] = dev => f[k - 1].op = "wait"
        BY <3>1, <1>1, <1>2
      <3> QED BY <3>2, <3>3, <3>4 DEF Follows
    <2> QED BY <2>1, <2>2, <1>1
  <1>5. f[1].op \in {"wait", "continue"}
    BY <1>1, <1>2
  <1> QED BY <1>3, <1>4, <1>5 DEF Chained

(* A chained sequence stays chained when it continues with one that does   *)
(* not need an unlocked buffer at its start, or whose first step belongs   *)
(* to the wait or drop just before it.                                     *)
LEMMA ChainConcat ==
    ASSUME NEW s \in Seq(Steps), NEW t \in Seq(Steps), Chained(s), Chained(t),
           s # <<>>, t # <<>>,
           t[1].op \in NeedsUnlocked =>
               t[1].bh = s[Len(s)].bh /\ s[Len(s)].op \in {"wait", "drop"}
    PROVE  /\ s \o t \in Seq(Steps)
           /\ Chained(s \o t)
           /\ s \o t # <<>>
           /\ (s \o t)[1] = s[1]
           /\ (s \o t)[Len(s \o t)] = t[Len(t)]
  <1>1. /\ Len(s) \in Nat \ {0} /\ Len(t) \in Nat \ {0}
        /\ s \o t \in Seq(Steps)
        /\ Len(s \o t) = Len(s) + Len(t)
        /\ \A k \in 1..Len(s) : (s \o t)[k] = s[k]
        /\ \A k \in 1..Len(t) : (s \o t)[Len(s) + k] = t[k]
    OBVIOUS
  <1>2. ASSUME NEW k \in 2..(Len(s) + Len(t)) PROVE Follows(s \o t, k)
    <2>1. CASE k <= Len(s)
      <3>1. Follows(s, k) /\ (s \o t)[k] = s[k] /\ (s \o t)[k - 1] = s[k - 1]
        BY <2>1, <1>1 DEF Chained
      <3> QED BY <3>1 DEF Follows
    <2>2. CASE k = Len(s) + 1
      <3>1. (s \o t)[k] = t[1] /\ (s \o t)[k - 1] = s[Len(s)]
        BY <2>2, <1>1
      <3> QED BY <3>1 DEF Follows
    <2>3. CASE k > Len(s) + 1
      <3> DEFINE m == k - Len(s)
      <3>1. m \in 2..Len(t) /\ k = Len(s) + m /\ k - 1 = Len(s) + (m - 1)
        BY <2>3, <1>1
      <3>2. Follows(t, m) /\ (s \o t)[k] = t[m] /\ (s \o t)[k - 1] = t[m - 1]
        BY <3>1, <1>1 DEF Chained
      <3> QED BY <3>2 DEF Follows
    <2> QED BY <2>1, <2>2, <2>3, <1>1
  <1> QED BY <1>1, <1>2 DEF Chained

(* A call that may start in any state of the locks. *)
GoodCall(s) == /\ s \in Seq(Steps) /\ Chained(s) /\ s # <<>>
               /\ s[1].op \in {"wait", "continue"}

(* get_buff ends with the buffer unlocked. *)
LEMMA GetChained ==
    ASSUME NEW b \in Buffers, NEW way \in Ways
    PROVE  /\ GoodCall(get_buff(b, way))
           /\ get_buff(b, way)[Len(get_buff(b, way))].bh = b
           /\ get_buff(b, way)[Len(get_buff(b, way))].op \in {"wait", "drop"}
  <1> DEFINE w == Step("wait", b)
             d == Step("drop", b)
  <1>1. w \in Steps /\ w.op = "wait" /\ w.bh = b /\ d \in Steps /\ d.op = "drop" /\ d.bh = b
    BY StepType DEF Ops, Submits
  <1> HIDE DEF w, d
  <1>2. <<w>> \in Seq(Steps) /\ Chained(<<w>>)
    BY <1>1 DEF Chained
  <1>3. <<w, d>> \in Seq(Steps) /\ Chained(<<w, d>>)
    BY <1>1 DEF Chained, Follows
  <1>4. CASE way = "cached"
    <2>1. get_buff(b, way) = <<w>>
      BY <1>4 DEF get_buff, w
    <2> QED BY <2>1, <1>1, <1>2 DEF GoodCall
  <1>5. CASE way = "clean"
    <2>1. get_buff(b, way) = <<w, d>>
      BY <1>5 DEF get_buff, w, d
    <2> QED BY <2>1, <1>1, <1>3 DEF GoodCall
  <1>6. CASE way = "dirty"
    <2> DEFINE f == sync_dev(b_dev[b])
    <2>1. get_buff(b, way) = f \o <<w, d>>
      BY <1>6 DEF get_buff, w, d
    <2>2. f \in Seq(Steps) /\ Chained(f) /\ f # <<>> /\ f[1].op \in {"wait", "continue"}
      BY ForDeviceChained, SizeAssumption DEF sync_dev
    <2> HIDE DEF f
    <2>3. <<w, d>>[1] = w /\ <<w, d>> # <<>> /\ <<w, d>>[Len(<<w, d>>)] = d
      OBVIOUS
    <2>4. /\ f \o <<w, d>> \in Seq(Steps) /\ Chained(f \o <<w, d>>)
          /\ f \o <<w, d>> # <<>>
          /\ (f \o <<w, d>>)[1] = f[1]
          /\ (f \o <<w, d>>)[Len(f \o <<w, d>>)] = d
      BY <1>1, <1>3, <2>2, <2>3, ChainConcat DEF NeedsUnlocked, Submits
    <2> QED BY <2>1, <2>2, <2>4, <1>1 DEF GoodCall
  <1> QED BY <1>4, <1>5, <1>6, CallAssumption

(* Every call of main waits for a buffer before it relies on its lock.     *)
LEMMA CallsGood ==
    ASSUME NEW a \in Buffers, NEW b \in Buffers, NEW way \in Ways, NEW dev
    PROVE  /\ GoodCall(read_buff(b, way))
           /\ GoodCall(read_buff_page(a, b, way))
           /\ GoodCall(read_buff_ahead(a, b, way))
           /\ GoodCall(create_block(b, way))
           /\ GoodCall(sync_dev(dev))
           /\ GoodCall(invalidate_buff(b))
           /\ GoodCall(invalidate_buffs(dev))
           /\ GoodCall(put_buff(b))
  <1> DEFINE g == get_buff(b, way)
  <1>1. /\ g \in Seq(Steps) /\ Chained(g) /\ g # <<>> /\ g[1].op \in {"wait", "continue"}
        /\ g[Len(g)].bh = b /\ g[Len(g)].op \in {"wait", "drop"}
    BY GetChained DEF GoodCall
  <1> HIDE DEF g
  <1>2. ASSUME NEW op \in Ops, NEW c \in Buffers
        PROVE  Step(op, c) \in Steps /\ Step(op, c).op = op /\ Step(op, c).bh = c
    BY StepType
  <1>3. GoodCall(read_buff(b, way))
    <2> DEFINE t == <<Step("fetch", b), Step("wait", b), Step("hold", b)>>
    <2>1. t \in Seq(Steps) /\ Chained(t) /\ t # <<>> /\ t[1].bh = b
      BY <1>2 DEF Chained, Follows, NeedsUnlocked, Submits, Ops
    <2> HIDE DEF t
    <2>2. GoodCall(g \o t)
      BY <1>1, <2>1, ChainConcat DEF GoodCall
    <2> QED BY <2>2 DEF read_buff, g, t
  <1>4. GoodCall(create_block(b, way))
    <2> DEFINE t == <<Step("clear", b), Step("wait", b)>>
    <2>1. t \in Seq(Steps) /\ Chained(t) /\ t # <<>> /\ t[1].bh = b
      BY <1>2 DEF Chained, Follows, NeedsUnlocked, Submits, Ops
    <2> HIDE DEF t
    <2>2. GoodCall(g \o t)
      BY <1>1, <2>1, ChainConcat DEF GoodCall
    <2> QED BY <2>2 DEF create_block, g, t
  <1>5. GoodCall(sync_dev(dev)) /\ GoodCall(invalidate_buffs(dev))
    BY ForDeviceChained, SizeAssumption DEF GoodCall, sync_dev, invalidate_buffs
  <1>6. GoodCall(invalidate_buff(b)) /\ GoodCall(put_buff(b))
    BY <1>2 DEF GoodCall, invalidate_buff, put_buff, Chained, Follows, NeedsUnlocked, Submits, Ops
  <1> DEFINE p == <<Step("wait", a), Step("read", a)>>
  <1>7. /\ p \in Seq(Steps) /\ Chained(p) /\ p # <<>> /\ p[1].op = "wait"
        /\ p[Len(p)].bh = a /\ p[Len(p)].op = "read"
    BY <1>2 DEF Chained, Follows, NeedsUnlocked, Submits, Ops
  <1> HIDE DEF p
  <1>8. /\ p \o g \in Seq(Steps) /\ Chained(p \o g) /\ p \o g # <<>>
        /\ (p \o g)[1] = p[1] /\ (p \o g)[Len(p \o g)] = g[Len(g)]
    BY <1>1, <1>7, ChainConcat DEF NeedsUnlocked, Submits
  <1>9. GoodCall(read_buff_page(a, b, way))
    <2> DEFINE t == <<Step("read", b), Step("wait", a), Step("wait", a),
                      Step("wait", b), Step("wait", b)>>
    <2>1. t \in Seq(Steps) /\ Chained(t) /\ t # <<>> /\ t[1].bh = b
      <3>1. /\ Step("read", b) \in Steps /\ Step("read", b).bh = b
            /\ Step("wait", a) \in Steps /\ Step("wait", a).op = "wait"
            /\ Step("wait", b) \in Steps /\ Step("wait", b).op = "wait"
        BY <1>2 DEF Ops, Submits
      <3>2. t \in Seq(Steps) /\ Len(t) = 5
        BY <3>1
      <3>3. t[1] = Step("read", b) /\ \A k \in 2..5 : t[k] \in {Step("wait", a), Step("wait", b)}
        OBVIOUS
      <3>4. \A k \in 2..5 : t[k].op \notin NeedsUnlocked
        BY <3>1, <3>3 DEF NeedsUnlocked, Submits
      <3> QED BY <3>1, <3>2, <3>3, <3>4 DEF Chained, Follows
    <2> HIDE DEF t
    <2> DEFINE u == p \o g
    <2>2. /\ u \in Seq(Steps) /\ Chained(u) /\ u # <<>> /\ u[1].op = "wait"
          /\ u[Len(u)].bh = b /\ u[Len(u)].op \in {"wait", "drop"}
      BY <1>1, <1>7, <1>8
    <2> HIDE DEF u
    <2>3. GoodCall(u \o t)
      BY <2>1, <2>2, ChainConcat DEF GoodCall
    <2> QED BY <2>3 DEF read_buff_page, g, t, p, u
  <1>10. GoodCall(read_buff_ahead(a, b, way))
    <2> DEFINE t == <<Step("wait", a), Step("hold", a)>>
               r == <<Step("reada", b)>>
               e == IF b_blocknr[b] < MAX_HD THEN g \o r ELSE <<>>
    <2>1. t \in Seq(Steps) /\ Chained(t) /\ t # <<>> /\ t[1].op = "wait"
      BY <1>2 DEF Chained, Follows, NeedsUnlocked, Submits, Ops
    <2>2. r \in Seq(Steps) /\ Chained(r) /\ r # <<>> /\ r[1].bh = b
      BY <1>2 DEF Chained, Ops, Submits
    <2>3. read_buff_ahead(a, b, way) = (p \o e) \o t
      BY DEF read_buff_ahead, p, t, r, g
    <2> HIDE DEF t, r
    <2>4. GoodCall((p \o (g \o r)) \o t)
      <3>1. /\ g \o r \in Seq(Steps) /\ Chained(g \o r) /\ g \o r # <<>>
            /\ (g \o r)[1] = g[1]
        BY <1>1, <2>2, ChainConcat
      <3>2. /\ p \o (g \o r) \in Seq(Steps) /\ Chained(p \o (g \o r))
            /\ p \o (g \o r) # <<>> /\ (p \o (g \o r))[1] = p[1]
        BY <3>1, <1>1, <1>7, ChainConcat DEF NeedsUnlocked, Submits
      <3> QED BY <3>2, <2>1, <1>7, ChainConcat DEF GoodCall, NeedsUnlocked, Submits
    <2>5. GoodCall((p \o <<>>) \o t)
      <3>1. p \o <<>> = p
        BY <1>7
      <3> QED BY <3>1, <2>1, <1>7, ChainConcat DEF GoodCall, NeedsUnlocked, Submits
    <2> QED BY <2>3, <2>4, <2>5
  <1> QED BY <1>3, <1>4, <1>5, <1>6, <1>9, <1>10

----------------------------------------------------------------------------
(* How the steps of the driver change the queue. *)

QueueTypes == /\ request_list \in [Slots -> Request] /\ queue \in Seq(Slots)
              /\ b_lock \in [Buffers -> Flag] /\ b_uptodate \in [Buffers -> Flag]
QueueInv == QueueTypes /\ QueueHoldsRequests /\ LockedMeansQueued /\ RequestFields

(* Main submits the same buffer before and after the step. *)
SameSubmission == \A b \in Buffers : Submitting(b)' <=> Submitting(b)

LEMMA NoRequestType == NoRequest \in Request /\ NoRequest.dev = -1
BY SizeAssumption DEF NoRequest, Request, Half, Buffers, READ, WRITE

LEMMA CurrentFacts ==
    ASSUME QueueInv, queue # <<>>
    PROVE  /\ Head(queue) \in Slots /\ Head(queue) \in Queued
           /\ Current \in Request
           /\ Current.bh \in Buffers
           /\ Current.dev = b_dev[Current.bh] /\ Current.dev \in Nat
           /\ Current.nr_sectors \in {1, 2}
           /\ Current.buffer = 2 - Current.nr_sectors
           /\ Current.sector = 2 * b_blocknr[Current.bh] + Current.buffer
           /\ b_lock[Current.bh] = 1
  <1>1. Head(queue) \in Slots /\ Head(queue) = queue[1] /\ 1 \in 1..Len(queue)
    BY TailFacts DEF QueueInv, QueueTypes
  <1>2. Head(queue) \in Queued
    BY <1>1 DEF Queued
  <1>3. Current \in Request /\ Current.bh \in Buffers
    BY <1>1 DEF QueueInv, QueueTypes, Current, Request
  <1>4. /\ Current.dev = b_dev[Current.bh]
        /\ Current.nr_sectors \in {1, 2}
        /\ Current.buffer = 2 - Current.nr_sectors
        /\ Current.sector = 2 * b_blocknr[Current.bh] + Current.buffer
    BY <1>2 DEF QueueInv, RequestFields, Current
  <1>5. Current.dev \in Nat
    BY <1>3, <1>4, LayoutAssumption
  <1>6. b_lock[Current.bh] = 1
    BY <1>2, <1>3 DEF QueueInv, LockedMeansQueued, Current
  <1> QED BY <1>1, <1>2, <1>3, <1>4, <1>5, <1>6

(* Nothing of the queue changes. *)
LEMMA QueueFrame ==
    ASSUME QueueInv, UNCHANGED <<request_list, queue, b_lock>>,
           b_uptodate' \in [Buffers -> Flag], SameSubmission
    PROVE  QueueInv'
  <1>1. Queued' = Queued
    BY DEF Queued
  <1>2. QueueTypes'
    BY DEF QueueInv, QueueTypes
  <1>3. QueueHoldsRequests'
    BY <1>1 DEF QueueInv, QueueHoldsRequests
  <1>4. LockedMeansQueued'
    BY <1>1 DEF QueueInv, LockedMeansQueued, SameSubmission
  <1>5. RequestFields'
    BY <1>1 DEF QueueInv, RequestFields
  <1> QED BY <1>2, <1>3, <1>4, <1>5 DEF QueueInv

(* end_request unlocks the buffer of the current request and removes just  *)
(* that request.                                                           *)
LEMMA EndRequestInv ==
    ASSUME QueueInv, queue # <<>>, NEW u \in Flag, end_request(u), SameSubmission
    PROVE  /\ QueueInv'
           /\ \A b \in Buffers : b_lock[b] = 0 => b_lock'[b] = 0
  <1>1. /\ Head(queue) \in Slots /\ Head(queue) \in Queued
        /\ Current \in Request /\ Current.bh \in Buffers /\ b_lock[Current.bh] = 1
    BY CurrentFacts
  <1>2. /\ queue \in Seq(Slots)
        /\ \A i, j \in 1..Len(queue) : queue[i] = queue[j] => i = j
    BY DEF QueueInv, QueueTypes, QueueHoldsRequests
  <1>3. /\ Queued' = Queued \ {Head(queue)}
        /\ \A i, j \in 1..Len(queue') : queue'[i] = queue'[j] => i = j
    BY <1>2, DequeueFacts DEF end_request
  <1>4. queue' \in Seq(Slots)
    BY <1>2, TailFacts DEF end_request
  <1>5. QueueTypes'
    BY <1>1, <1>4, NoRequestType DEF QueueInv, QueueTypes, end_request, Flag
  <1>6. \A s \in Slots : request_list'[s] = IF s = Head(queue) THEN NoRequest ELSE request_list[s]
    BY DEF end_request, QueueInv, QueueTypes
  <1>7. QueueHoldsRequests'
    BY <1>3, <1>6, NoRequestType DEF QueueInv, QueueHoldsRequests
  <1>8. Queued \subseteq Slots
    BY <1>2 DEF Queued
  <1>9. \A s \in Queued' : request_list'[s] = request_list[s] /\ s \in Queued /\ s # Head(queue)
    BY <1>3, <1>6, <1>8
  <1>10. RequestFields'
    BY <1>9 DEF QueueInv, RequestFields
  <1>11. \A b \in Buffers : b_lock'[b] = IF b = Current.bh THEN 0 ELSE b_lock[b]
    BY <1>1 DEF end_request, QueueInv, QueueTypes
  <1>12. LockedMeansQueued'
    <2> SUFFICES ASSUME NEW b \in Buffers
                 PROVE  /\ b_lock'[b] = 1 <=> Submitting(b)' \/ \E s \in Queued' : request_list'[s].bh = b
                        /\ Submitting(b)' => \A s \in Queued' : request_list'[s].bh # b
                        /\ \A s, t \in Queued' :
                              request_list'[s].bh = b /\ request_list'[t].bh = b => s = t
      BY DEF LockedMeansQueued
    <2>1. /\ b_lock[b] = 1 <=> Submitting(b) \/ \E s \in Queued : request_list[s].bh = b
          /\ Submitting(b) => \A s \in Queued : request_list[s].bh # b
          /\ \A s, t \in Queued : request_list[s].bh = b /\ request_list[t].bh = b => s = t
      BY DEF QueueInv, LockedMeansQueued
    <2>2. Submitting(b)' <=> Submitting(b)
      BY DEF SameSubmission
    <2>3. \A s \in Queued : s # Head(queue) => s \in Queued' /\ request_list'[s] = request_list[s]
      BY <1>3, <1>9
    <2>4. CASE b = Current.bh
      BY <2>1, <2>2, <2>4, <1>1, <1>9, <1>11 DEF Current
    <2>5. CASE b # Current.bh
      BY <2>1, <2>2, <2>3, <2>5, <1>1, <1>9, <1>11 DEF Current
    <2> QED BY <2>4, <2>5
  <1> QED BY <1>5, <1>7, <1>10, <1>11, <1>12 DEF QueueInv

(* A step that changes only the progress of the current request. *)
LEMMA ProgressInv ==
    ASSUME QueueInv, queue # <<>>, NEW r \in Request, r.bh = Current.bh, r.dev = Current.dev,
           r.nr_sectors \in {1, 2}, r.buffer = 2 - r.nr_sectors,
           r.sector = 2 * b_blocknr[r.bh] + r.buffer,
           request_list' = [request_list EXCEPT ![Head(queue)] = r],
           UNCHANGED <<queue, b_lock, b_uptodate>>, SameSubmission
    PROVE  QueueInv'
  <1>1. /\ Head(queue) \in Slots /\ Head(queue) \in Queued
        /\ Current.dev = b_dev[Current.bh] /\ Current.dev \in Nat
    BY CurrentFacts
  <1>2. Queued' = Queued /\ Queued \subseteq Slots
    BY DEF Queued, QueueInv, QueueTypes
  <1>3. \A s \in Slots : request_list'[s] = IF s = Head(queue) THEN r ELSE request_list[s]
    BY DEF QueueInv, QueueTypes
  <1>4. QueueTypes'
    BY <1>1 DEF QueueInv, QueueTypes
  <1>5. \A s \in Slots : request_list'[s].bh = request_list[s].bh
                      /\ request_list'[s].dev = request_list[s].dev
    BY <1>3 DEF Current
  <1>6. QueueHoldsRequests'
    BY <1>2, <1>5 DEF QueueInv, QueueHoldsRequests
  <1>7. LockedMeansQueued'
    BY <1>2, <1>5 DEF QueueInv, LockedMeansQueued, SameSubmission
  <1>8. RequestFields'
    BY <1>1, <1>2, <1>3 DEF QueueInv, RequestFields
  <1> QED BY <1>4, <1>6, <1>7, <1>8 DEF QueueInv

(* bad_rw_intr, whichever way it goes, keeps the queue consistent. *)
LEMMA BadRwInv ==
    ASSUME QueueInv, queue # <<>>, reset \in Flag, bad_rw_intr, SameSubmission
    PROVE  /\ QueueInv' /\ reset' \in Flag
           /\ \A b \in Buffers : b_lock[b] = 0 => b_lock'[b] = 0
  <1>1. /\ Head(queue) \in Slots /\ Current \in Request
        /\ Current.nr_sectors \in {1, 2} /\ Current.buffer = 2 - Current.nr_sectors
        /\ Current.sector = 2 * b_blocknr[Current.bh] + Current.buffer
    BY CurrentFacts
  <1>2. reset' \in Flag
    BY DEF bad_rw_intr, Flag
  <1>3. CASE Current.errors + 1 >= MAX_ERRORS
    BY <1>2, <1>3, EndRequestInv DEF bad_rw_intr, Flag
  <1>4. CASE ~(Current.errors + 1 >= MAX_ERRORS)
    <2> DEFINE r == [Current EXCEPT !.errors = @ + 1]
    <2>1. /\ request_list' = [request_list EXCEPT ![Head(queue)].errors = @ + 1]
          /\ UNCHANGED <<b_uptodate, b_lock, queue>>
      BY <1>4 DEF bad_rw_intr
    <2>2. request_list' = [request_list EXCEPT ![Head(queue)] = r]
      BY <2>1, <1>1 DEF Current, QueueInv, QueueTypes
    <2>3. r \in Request
      BY <1>1, <1>4, SizeAssumption DEF Request
    <2>4. /\ r.bh = Current.bh /\ r.dev = Current.dev /\ r.nr_sectors = Current.nr_sectors
          /\ r.buffer = Current.buffer /\ r.sector = Current.sector
      BY <1>1 DEF Request
    <2> HIDE DEF r
    <2>5. QueueInv'
      BY <1>1, <2>1, <2>2, <2>3, <2>4, ProgressInv
    <2> QED BY <1>2, <2>1, <2>5
  <1> QED BY <1>3, <1>4

----------------------------------------------------------------------------
(* The invariant in two parts, and what a step must show for each. *)

RestTypes ==
    /\ b_dirt \in [Buffers -> Flag]
    /\ b_data \in [Buffers -> [Half -> Values]]
    /\ reset \in Flag /\ recalibrate \in Flag
    /\ handler \in {"none", "read_intr", "write_intr", "recal_intr"}
    /\ hd \in [cmd : {"none", "READ", "WRITE", "SPECIFY", "RESTORE"},
               phase : {"idle", "wait", "busy", "ok", "err", "abort"},
               lba : Nat, left : 0..2, data : Values]
    /\ disk \in [Sectors -> Values]
    /\ intr \in Flag
    /\ work \in Seq(Steps)
    /\ held \in SUBSET Buffers
    /\ pc \in [main : {"next", "wait", "ll_rw", "repeat", "do_hd", "drq", "reentered", "halt"},
               irq : {"idle", "do_hd", "drq"}]

LEMMA IOInvParts ==
    IOInv <=> QueueInv /\ RestTypes /\ WorkOK /\ DriverControl /\ CommandState
BY DEF IOInv, QueueInv, QueueTypes, RestTypes, TypeOK

LEMMA IOInvPartsNext ==
    ASSUME QueueInv', RestTypes', WorkOK', DriverControl', CommandState'
    PROVE  IOInv'
BY DEF IOInv, QueueInv, QueueTypes, RestTypes, TypeOK

(* Control points of main at which "work" says what it is doing. *)
InWork == {"wait", "ll_rw", "repeat"}
MainStays == pc'.main = pc.main \/ (pc.main \notin InWork /\ pc'.main \notin InWork)

LEMMA WorkFrame ==
    ASSUME WorkOK, work \in Seq(Steps), work' = work, MainStays,
           \A b \in Buffers : b_lock[b] = 0 => b_lock'[b] = 0
    PROVE  WorkOK' /\ SameSubmission
  <1>1. work # <<>> => bh \in Buffers
    <2>1. work # <<>> => Head(work) \in Steps
      BY TailFacts
    <2> QED BY <2>1 DEF bh, Steps
  <1>2. bh' = bh
    BY DEF bh
  <1>3. SameSubmission
    BY <1>2 DEF SameSubmission, Submitting, MainStays, InWork
  <1>4. WorkOK'
    BY <1>1, <1>2 DEF WorkOK, MainStays, InWork
  <1> QED BY <1>3, <1>4

(* A context in the driver is alone there and no command is under way. *)
LEMMA DrivingFacts ==
    ASSUME IOInv, NEW c \in {"main", "irq"}, NEW l \in {"do_hd", "drq"}, Driving(c, l)
    PROVE  /\ hd.phase \in {"idle", "wait", "abort"}
           /\ c = "main" => pc.main = l /\ pc.irq = "idle"
           /\ c = "irq" => pc.irq = l /\ pc.main \notin {"do_hd", "drq"}
BY DEF IOInv, Driving, DriverControl, Active, TypeOK

LEMMA ReturnFacts ==
    ASSUME IOInv, NEW c \in {"main", "irq"}, NEW l \in {"do_hd", "drq"}, Driving(c, l), Return(c)
    PROVE  /\ pc' \in [main : {"next", "wait", "ll_rw", "repeat", "do_hd", "drq", "reentered", "halt"},
                       irq : {"idle", "do_hd", "drq"}]
           /\ pc'.irq = "idle" /\ pc'.main \notin {"do_hd", "drq"}
           /\ MainStays
           /\ DriverControl'
           /\ ~InDrq'
  <1>1. /\ c = "main" => pc.main = l /\ pc.irq = "idle"
        /\ c = "irq" => pc.irq = l /\ pc.main \notin {"do_hd", "drq"}
    BY DrivingFacts
  <1>2. pc \in [main : {"next", "wait", "ll_rw", "repeat", "do_hd", "drq", "reentered", "halt"},
                irq : {"idle", "do_hd", "drq"}]
    BY DEF IOInv, TypeOK
  <1>3. CASE c = "main"
    BY <1>1, <1>2, <1>3 DEF Return, MainStays, InWork, DriverControl, InDrq
  <1>4. CASE c = "irq"
    BY <1>1, <1>2, <1>4 DEF Return, MainStays, InWork, DriverControl, InDrq
  <1> QED BY <1>3, <1>4

(* Going to label m of the driver keeps main out of its call. *)
LEMMA GotoFacts ==
    ASSUME IOInv, NEW c \in {"main", "irq"}, NEW l \in {"do_hd", "drq"}, Driving(c, l),
           NEW m \in {"do_hd", "drq"}, Goto(c, m)
    PROVE  /\ pc' \in [main : {"next", "wait", "ll_rw", "repeat", "do_hd", "drq", "reentered", "halt"},
                       irq : {"idle", "do_hd", "drq"}]
           /\ MainStays
           /\ hd'.phase \in {"idle", "wait", "abort"} => DriverControl'
           /\ InDrq' <=> m = "drq"
  <1>1. /\ c = "main" => pc.main = l /\ pc.irq = "idle"
        /\ c = "irq" => pc.irq = l /\ pc.main \notin {"do_hd", "drq"}
    BY DrivingFacts
  <1>2. pc \in [main : {"next", "wait", "ll_rw", "repeat", "do_hd", "drq", "reentered", "halt"},
                irq : {"idle", "do_hd", "drq"}]
    BY DEF IOInv, TypeOK
  <1>3. CASE c = "main"
    BY <1>1, <1>2, <1>3 DEF Goto, MainStays, InWork, DriverControl, InDrq, Active
  <1>4. CASE c = "irq"
    BY <1>1, <1>2, <1>4 DEF Goto, MainStays, InWork, DriverControl, InDrq, Active
  <1> QED BY <1>3, <1>4

----------------------------------------------------------------------------
(* do_hd_request keeps the invariant, in either context. *)

LEMMA IdleStep ==
    ASSUME IOInv, NEW c \in {"main", "irq"}, do_hd_idle(c) PROVE IOInv'
  <1>1. QueueInv /\ RestTypes /\ WorkOK /\ CommandState
    BY IOInvParts
  <1>2. Driving(c, "do_hd") /\ Return(c)
    BY DEF do_hd_idle
  <1>3. /\ UNCHANGED <<request_list, queue, b_lock, b_uptodate, b_dirt, b_data, reset,
                       recalibrate, handler, hd, disk, intr, work, held>>
    BY DEF do_hd_idle, bufVars, drvVars
  <1>4. RestTypes' /\ MainStays /\ DriverControl' /\ ~InDrq'
    BY <1>1, <1>2, <1>3, ReturnFacts DEF RestTypes
  <1>5. WorkOK' /\ SameSubmission
    BY <1>1, <1>3, <1>4, WorkFrame DEF RestTypes
  <1>6. QueueInv'
    BY <1>1, <1>3, <1>5, QueueFrame DEF QueueInv, QueueTypes
  <1>7. ~Active'
    BY <1>2, <1>3, DrivingFacts DEF Active
  <1>8. CommandState'
    BY <1>1, <1>3, <1>4, <1>7 DEF CommandState
  <1> QED BY <1>4, <1>5, <1>6, <1>8, IOInvPartsNext

LEMMA RejectStep ==
    ASSUME IOInv, NEW c \in {"main", "irq"}, do_hd_reject(c) PROVE IOInv'
  <1>1. QueueInv /\ RestTypes /\ WorkOK /\ DriverControl /\ CommandState
    BY IOInvParts
  <1>2. Driving(c, "do_hd") /\ queue # <<>> /\ end_request(0)
    BY DEF do_hd_reject
  <1>3. UNCHANGED <<b_dirt, b_data, reset, recalibrate, handler, hd, disk, intr, work, held, pc>>
    BY DEF do_hd_reject, drvVars
  <1>4. RestTypes' /\ MainStays
    BY <1>1, <1>3 DEF RestTypes, MainStays
  <1>5. SameSubmission
    BY <1>3 DEF SameSubmission, Submitting, bh
  <1>6. QueueInv' /\ \A b \in Buffers : b_lock[b] = 0 => b_lock'[b] = 0
    BY <1>1, <1>2, <1>5, EndRequestInv DEF Flag
  <1>7. WorkOK'
    BY <1>1, <1>3, <1>4, <1>6, WorkFrame DEF RestTypes
  <1>8. ~Active' /\ ~InDrq'
    BY <1>1, <1>2, <1>3, DrivingFacts DEF Active, InDrq, RestTypes, DriverControl
  <1>9. DriverControl' /\ CommandState'
    BY <1>1, <1>3, <1>8 DEF DriverControl, CommandState
  <1> QED BY <1>4, <1>6, <1>7, <1>9, IOInvPartsNext

(* Issuing a command: the context returns with a command under way that    *)
(* fits the current request.                                               *)
LEMMA IssueStep ==
    ASSUME IOInv, NEW c \in {"main", "irq"}, Driving(c, "do_hd"), Return(c),
           queue # <<>>, reset' \in Flag, recalibrate' \in Flag,
           UNCHANGED <<request_list, queue, bufVars, disk, intr, work, held>>,
           hd' \in [cmd : {"READ", "SPECIFY", "RESTORE"}, phase : {"busy"},
                    lba : Nat, left : 0..2, data : Values],
           \/ hd'.cmd \in {"SPECIFY", "RESTORE"} /\ handler' = "recal_intr"
           \/ /\ hd'.cmd = "READ" /\ handler' = "read_intr"
              /\ Current.cmd = READ /\ hd'.left = Current.nr_sectors
    PROVE  IOInv'
  <1>1. QueueInv /\ RestTypes /\ WorkOK
    BY IOInvParts
  <1>2. UNCHANGED <<b_lock, b_uptodate, b_dirt, b_data>>
    BY DEF bufVars
  <1>3. MainStays /\ DriverControl' /\ ~InDrq'
    BY <1>1, ReturnFacts
  <1>4. RestTypes'
    BY <1>1, <1>2, ReturnFacts DEF RestTypes
  <1>5. WorkOK' /\ SameSubmission
    BY <1>1, <1>2, <1>3, WorkFrame DEF RestTypes
  <1>6. QueueInv'
    BY <1>1, <1>2, <1>5, QueueFrame DEF QueueInv, QueueTypes
  <1>7. Current' = Current
    BY DEF Current
  <1>8. CommandState'
    BY <1>3, <1>7 DEF CommandState, Active
  <1> QED BY <1>3, <1>4, <1>5, <1>6, <1>8, IOInvPartsNext

LEMMA ZeroAddress == Addressed(CHS(0)) = 0
BY AddressedSector

LEMMA ResetStep ==
    ASSUME IOInv, NEW c \in {"main", "irq"}, do_hd_reset(c) PROVE IOInv'
  <1>1. /\ Driving(c, "do_hd") /\ Return(c) /\ queue # <<>>
        /\ reset' \in Flag /\ recalibrate' \in Flag /\ handler' = "recal_intr"
        /\ UNCHANGED <<request_list, queue, bufVars, disk, intr, work, held>>
    BY DEF do_hd_reset, Accepts, hd_out, Flag
  <1>2. hd' = [cmd |-> "SPECIFY", phase |-> "busy", lba |-> 0, left |-> 0, data |-> Zero]
    BY ZeroAddress DEF do_hd_reset, hd_out
  <1>3. hd' \in [cmd : {"READ", "SPECIFY", "RESTORE"}, phase : {"busy"},
                 lba : Nat, left : 0..2, data : Values] /\ hd'.cmd = "SPECIFY"
    BY <1>2, DataAssumption DEF IOInv, TypeOK
  <1> QED BY <1>1, <1>3, IssueStep

LEMMA RecalibrateStep ==
    ASSUME IOInv, NEW c \in {"main", "irq"}, do_hd_recalibrate(c) PROVE IOInv'
  <1>1. /\ Driving(c, "do_hd") /\ Return(c) /\ queue # <<>>
        /\ reset' \in Flag /\ recalibrate' \in Flag /\ handler' = "recal_intr"
        /\ UNCHANGED <<request_list, queue, bufVars, disk, intr, work, held>>
    BY DEF do_hd_recalibrate, Accepts, hd_out, Flag, IOInv, TypeOK
  <1>2. hd' = [cmd |-> "RESTORE", phase |-> "busy", lba |-> 0, left |-> 0, data |-> Zero]
    BY ZeroAddress DEF do_hd_recalibrate, hd_out
  <1>3. hd' \in [cmd : {"READ", "SPECIFY", "RESTORE"}, phase : {"busy"},
                 lba : Nat, left : 0..2, data : Values] /\ hd'.cmd = "RESTORE"
    BY <1>2, DataAssumption DEF IOInv, TypeOK
  <1> QED BY <1>1, <1>3, IssueStep

LEMMA ReadStep ==
    ASSUME IOInv, NEW c \in {"main", "irq"}, do_hd_read(c) PROVE IOInv'
  <1>1. /\ Driving(c, "do_hd") /\ Return(c) /\ queue # <<>>
        /\ reset' \in Flag /\ recalibrate' \in Flag /\ handler' = "read_intr"
        /\ Current.cmd = READ /\ ~OutOfRange(Current)
        /\ UNCHANGED <<request_list, queue, bufVars, disk, intr, work, held>>
    BY DEF do_hd_read, Accepts, hd_out, IOInv, TypeOK
  <1>2. /\ Current \in Request /\ Current.dev \in Nat /\ Current.nr_sectors \in {1, 2}
    BY <1>1, IOInvParts, CurrentFacts
  <1>3. Addressed(Address(Current)) \in Nat
    BY <1>1, <1>2, PartitionFacts
  <1>4. hd' = [cmd |-> "READ", phase |-> "busy", lba |-> Addressed(Address(Current)),
               left |-> Current.nr_sectors, data |-> Zero]
    BY DEF do_hd_read, hd_out
  <1>5. /\ hd' \in [cmd : {"READ", "SPECIFY", "RESTORE"}, phase : {"busy"},
                    lba : Nat, left : 0..2, data : Values]
        /\ hd'.cmd = "READ" /\ hd'.left = Current.nr_sectors
    BY <1>2, <1>3, <1>4, DataAssumption DEF IOInv, TypeOK
  <1> QED BY <1>1, <1>5, IssueStep

LEMMA WriteStep ==
    ASSUME IOInv, NEW c \in {"main", "irq"}, do_hd_write(c) PROVE IOInv'
  <1>1. QueueInv /\ RestTypes /\ WorkOK
    BY IOInvParts
  <1>2. /\ Driving(c, "do_hd") /\ Goto(c, "drq") /\ queue # <<>>
        /\ Current.cmd = WRITE /\ ~OutOfRange(Current) /\ handler' = "write_intr"
        /\ UNCHANGED <<request_list, queue, b_lock, b_uptodate, b_dirt, b_data, reset,
                       recalibrate, disk, intr, work, held>>
    BY DEF do_hd_write, Accepts, hd_out, bufVars
  <1>3. Current \in Request /\ Current.dev \in Nat /\ Current.nr_sectors \in {1, 2}
    BY <1>1, <1>2, CurrentFacts
  <1>4. Addressed(Address(Current)) \in Nat
    BY <1>2, <1>3, PartitionFacts
  <1>5. hd' = [cmd |-> "WRITE", phase |-> "wait", lba |-> Addressed(Address(Current)),
               left |-> Current.nr_sectors, data |-> Zero]
    BY DEF do_hd_write, hd_out
  <1>6. /\ hd' \in [cmd : {"WRITE"}, phase : {"wait"}, lba : Nat, left : 0..2, data : Values]
        /\ hd'.left = Current.nr_sectors
    BY <1>1, <1>3, <1>4, <1>5, DataAssumption DEF RestTypes
  <1>7. MainStays /\ DriverControl' /\ InDrq'
    BY <1>2, <1>6, GotoFacts
  <1>8. RestTypes'
    BY <1>1, <1>2, <1>6, GotoFacts DEF RestTypes
  <1>9. WorkOK' /\ SameSubmission
    BY <1>1, <1>2, <1>7, WorkFrame DEF RestTypes
  <1>10. QueueInv'
    BY <1>1, <1>2, <1>9, QueueFrame DEF QueueInv, QueueTypes
  <1>11. Current' = Current
    BY <1>2 DEF Current
  <1>12. CommandState'
    BY <1>2, <1>6, <1>7, <1>11 DEF CommandState, Active
  <1> QED BY <1>7, <1>8, <1>9, <1>10, <1>12, IOInvPartsNext

LEMMA DrqReadyStep ==
    ASSUME IOInv, NEW c \in {"main", "irq"}, drq_ready(c) PROVE IOInv'
  <1>1. QueueInv /\ RestTypes /\ WorkOK /\ CommandState
    BY IOInvParts
  <1>2. /\ Driving(c, "drq") /\ Return(c) /\ port_write(Current.buffer)
        /\ UNCHANGED <<request_list, queue, b_lock, b_uptodate, b_dirt, b_data, reset,
                       recalibrate, handler, disk, intr, work, held>>
    BY DEF drq_ready, bufVars, drvVars
  <1>3. InDrq
    BY <1>1, <1>2 DEF Driving, InDrq, RestTypes
  <1>4. /\ queue # <<>> /\ handler = "write_intr" /\ hd.cmd = "WRITE" /\ Current.cmd = WRITE
        /\ hd.left = Current.nr_sectors
    BY <1>1, <1>3 DEF CommandState
  <1>5. /\ Current \in Request /\ Current.bh \in Buffers /\ Current.nr_sectors \in {1, 2}
        /\ Current.buffer \in Half
    BY <1>1, <1>4, CurrentFacts DEF Request
  <1>6. hd' = [hd EXCEPT !.phase = "busy", !.data = b_data[Current.bh][Current.buffer]]
    BY <1>2, <1>4, <1>5 DEF port_write
  <1>7. b_data[Current.bh][Current.buffer] \in Values
    BY <1>1, <1>5 DEF RestTypes
  <1>8. MainStays /\ DriverControl' /\ ~InDrq'
    BY <1>2, ReturnFacts
  <1>9. RestTypes'
    BY <1>1, <1>2, <1>6, <1>7, ReturnFacts DEF RestTypes
  <1>10. WorkOK' /\ SameSubmission
    BY <1>1, <1>2, <1>8, WorkFrame DEF RestTypes
  <1>11. QueueInv'
    BY <1>1, <1>2, <1>10, QueueFrame DEF QueueInv, QueueTypes
  <1>12. Current' = Current
    BY <1>2 DEF Current
  <1>13. hd'.phase = "busy" /\ hd'.cmd = "WRITE" /\ hd'.left = Current.nr_sectors
    BY <1>1, <1>4, <1>6 DEF RestTypes
  <1>14. CommandState'
    BY <1>2, <1>4, <1>8, <1>12, <1>13 DEF CommandState, Active
  <1> QED BY <1>8, <1>9, <1>10, <1>11, <1>14, IOInvPartsNext

LEMMA HdIdleType ==
    /\ HdIdle \in [cmd : {"none"}, phase : {"idle"}, lba : Nat, left : 0..2, data : Values]
    /\ HdIdle.phase = "idle"
BY DataAssumption DEF HdIdle

LEMMA DrqTimeoutStep ==
    ASSUME IOInv, NEW c \in {"main", "irq"}, drq_timeout(c) PROVE IOInv'
  <1>1. QueueInv /\ RestTypes /\ WorkOK /\ CommandState
    BY IOInvParts
  <1>2. /\ Driving(c, "drq") /\ Goto(c, "do_hd") /\ bad_rw_intr
        /\ hd' = hd \/ hd' = HdIdle
        /\ UNCHANGED <<b_dirt, b_data, recalibrate, handler, disk, intr, work, held>>
    BY DEF drq_timeout
  <1>3. queue # <<>>
    BY <1>1, <1>2 DEF Driving, InDrq, RestTypes, CommandState
  <1>4. /\ hd'.phase \in {"idle", "wait", "abort"}
        /\ hd'.phase \in {"wait", "abort"} => hd'.cmd = "WRITE" /\ handler = "write_intr"
    BY <1>1, <1>2, DrivingFacts, HdIdleType DEF CommandState
  <1>5. MainStays /\ DriverControl' /\ ~InDrq'
    BY <1>2, <1>4, GotoFacts
  <1>6. SameSubmission
    BY <1>2, <1>5 DEF SameSubmission, Submitting, bh, MainStays, InWork
  <1>7. /\ QueueInv' /\ reset' \in Flag
        /\ \A b \in Buffers : b_lock[b] = 0 => b_lock'[b] = 0
    BY <1>1, <1>2, <1>3, <1>6, BadRwInv DEF RestTypes
  <1>8. RestTypes'
    BY <1>1, <1>2, <1>7, GotoFacts, HdIdleType DEF RestTypes
  <1>9. WorkOK'
    BY <1>1, <1>2, <1>5, <1>7, WorkFrame DEF RestTypes
  <1>10. CommandState'
    BY <1>2, <1>4, <1>5 DEF CommandState, Active
  <1> QED BY <1>5, <1>7, <1>8, <1>9, <1>10, IOInvPartsNext

LEMMA DriverStep ==
    ASSUME IOInv, NEW c \in {"main", "irq"}, do_hd_request(c) PROVE IOInv'
BY IdleStep, RejectStep, ResetStep, RecalibrateStep, ReadStep, WriteStep, DrqReadyStep,
   DrqTimeoutStep DEF do_hd_request

----------------------------------------------------------------------------
(* The interrupt handlers keep the invariant. *)

(* An interrupt other than that of an aborted WRITE. *)
LEMMA InterruptFacts ==
    ASSUME IOInv, NEW r, Interrupt(r), hd.phase # "abort"
    PROVE  /\ queue # <<>> /\ pc.irq = "idle" /\ pc.main \notin {"do_hd", "drq"}
           /\ Active /\ handler = r
BY DEF IOInv, Interrupt, CommandState, DriverControl, Active

(* A handler that ends its command and goes on to do_hd_request, and may   *)
(* have found main there.                                                  *)
Enters == pc' = [main |-> IF pc.main \in {"do_hd", "drq"} THEN "reentered" ELSE pc.main,
                 irq |-> "do_hd"]

LEMMA GotoEnters ==
    ASSUME IOInv, NEW r, Interrupt(r), hd.phase # "abort", Goto("irq", "do_hd")
    PROVE  Enters
  <1>1. pc.main \notin {"do_hd", "drq"} /\ RestTypes
    BY InterruptFacts, IOInvParts
  <1> QED BY <1>1 DEF Goto, Enters, RestTypes

LEMMA EnterDriver ==
    ASSUME IOInv, Enters, hd' = HdIdle,
           QueueInv', reset' \in Flag,
           b_data' \in [Buffers -> [Half -> Values]],
           \A b \in Buffers : b_lock[b] = 0 => b_lock'[b] = 0,
           UNCHANGED <<b_dirt, recalibrate, handler, disk, intr, work, held>>
    PROVE  IOInv'
  <1>1. RestTypes /\ WorkOK
    BY IOInvParts
  <1>2. /\ pc' \in [main : {"next", "wait", "ll_rw", "repeat", "do_hd", "drq", "reentered", "halt"},
                    irq : {"idle", "do_hd", "drq"}]
        /\ pc'.main \notin {"do_hd", "drq"} /\ pc'.irq = "do_hd"
        /\ MainStays
    BY <1>1 DEF Enters, RestTypes, MainStays, InWork
  <1>3. RestTypes'
    BY <1>1, <1>2, HdIdleType DEF RestTypes
  <1>4. WorkOK'
    BY <1>1, <1>2, WorkFrame DEF RestTypes
  <1>5. ~Active' /\ ~InDrq'
    BY <1>2, HdIdleType DEF Active, InDrq
  <1>6. DriverControl' /\ CommandState'
    BY <1>2, <1>5, HdIdleType DEF DriverControl, CommandState
  <1> QED BY <1>3, <1>4, <1>6, IOInvPartsNext

LEMMA SameSubmissionIrq ==
    ASSUME pc'.main = "repeat" <=> pc.main = "repeat", work' = work PROVE SameSubmission
BY DEF SameSubmission, Submitting, bh

(* The interrupt of an aborted WRITE counts its error for the request that *)
(* is current by then, if there is one.                                    *)
LEMMA WriteAbortStep ==
    ASSUME IOInv, write_intr_abort PROVE IOInv'
  <1>1. QueueInv /\ RestTypes
    BY IOInvParts
  <1>2. /\ hd' = HdIdle /\ Enters
        /\ UNCHANGED <<b_dirt, b_data, recalibrate, handler, disk, intr, work, held>>
    BY DEF write_intr_abort, Enters
  <1>3. SameSubmission
    BY <1>2, SameSubmissionIrq DEF Enters
  <1>4. QueueInv' /\ reset' \in Flag /\ \A b \in Buffers : b_lock[b] = 0 => b_lock'[b] = 0
    <2>1. CASE queue # <<>> /\ bad_rw_intr
      BY <1>1, <1>3, <2>1, BadRwInv DEF RestTypes
    <2>2. CASE /\ reset' \in {reset, 1}
               /\ UNCHANGED <<request_list, queue, b_lock, b_uptodate>>
      BY <1>1, <1>3, <2>2, QueueFrame DEF QueueInv, QueueTypes, RestTypes, Flag
    <2> QED BY <2>1, <2>2 DEF write_intr_abort
  <1> QED BY <1>1, <1>2, <1>4, EnterDriver DEF RestTypes

LEMMA IntrErrorStep ==
    ASSUME IOInv, NEW r, intr_error(r) PROVE IOInv'
  <1>1. QueueInv /\ RestTypes
    BY IOInvParts
  <1>2. /\ Interrupt(r) /\ hd' = HdIdle /\ bad_rw_intr /\ Goto("irq", "do_hd")
        /\ hd.phase = "err"
        /\ UNCHANGED <<b_dirt, b_data, recalibrate, handler, disk, intr, work, held>>
    BY DEF intr_error
  <1>3. queue # <<>>
    BY <1>2, InterruptFacts
  <1>4. SameSubmission
    BY <1>1, <1>2, SameSubmissionIrq DEF Goto, RestTypes
  <1>5. QueueInv' /\ reset' \in Flag /\ \A b \in Buffers : b_lock[b] = 0 => b_lock'[b] = 0
    BY <1>1, <1>2, <1>3, <1>4, BadRwInv DEF RestTypes
  <1> QED BY <1>1, <1>2, <1>5, GotoEnters, EnterDriver DEF RestTypes

LEMMA RecalOkStep ==
    ASSUME IOInv, recal_intr_ok PROVE IOInv'
  <1>1. QueueInv /\ RestTypes
    BY IOInvParts
  <1>2. /\ Interrupt("recal_intr") /\ hd' = HdIdle /\ Goto("irq", "do_hd") /\ hd.phase = "ok"
        /\ UNCHANGED <<request_list, queue, b_lock, b_uptodate, b_dirt, b_data, reset,
                       recalibrate, handler, disk, intr, work, held>>
    BY DEF recal_intr_ok, bufVars, drvVars
  <1>3. SameSubmission
    BY <1>1, <1>2, SameSubmissionIrq DEF Goto, RestTypes
  <1>4. QueueInv'
    BY <1>1, <1>2, <1>3, QueueFrame DEF QueueInv, QueueTypes
  <1> QED BY <1>1, <1>2, <1>4, GotoEnters, EnterDriver DEF RestTypes

(* The last sector: the controller expects no other one. *)
LEMMA LastSector ==
    ASSUME IOInv, NEW r \in {"read_intr", "write_intr"}, Interrupt(r), hd.phase = "ok"
    PROVE  hd.left = Current.nr_sectors - 1
  <1>1. Active /\ handler = r /\ CommandState
    BY InterruptFacts, IOInvParts
  <1> QED BY <1>1 DEF CommandState

LEMMA ReadDoneStep ==
    ASSUME IOInv, read_intr_done PROVE IOInv'
  <1>1. QueueInv /\ RestTypes
    BY IOInvParts
  <1>2. /\ Interrupt("read_intr") /\ hd.phase = "ok" /\ Current.nr_sectors = 1
        /\ port_read /\ end_request(1) /\ Goto("irq", "do_hd")
        /\ UNCHANGED <<b_dirt, reset, recalibrate, handler, disk, intr, work, held>>
    BY DEF read_intr_done, drvVars
  <1>3. queue # <<>> /\ hd.left = 0
    BY <1>2, InterruptFacts, LastSector
  <1>4. hd' = HdIdle
    BY <1>2, <1>3 DEF port_read
  <1>5. Current.bh \in Buffers /\ Current.buffer \in Half
    BY <1>1, <1>3, CurrentFacts DEF Request
  <1>6. b_data' \in [Buffers -> [Half -> Values]]
    <2>1. hd.data \in Values /\ b_data \in [Buffers -> [Half -> Values]]
      BY <1>1 DEF RestTypes
    <2>2. b_data' = [b_data EXCEPT ![Current.bh][Current.buffer] = hd.data]
      BY <1>2 DEF port_read
    <2> QED BY <1>5, <2>1, <2>2
  <1>7. SameSubmission
    BY <1>1, <1>2, SameSubmissionIrq DEF Goto, RestTypes
  <1>8. QueueInv' /\ \A b \in Buffers : b_lock[b] = 0 => b_lock'[b] = 0
    BY <1>1, <1>2, <1>3, <1>7, EndRequestInv DEF Flag
  <1> QED BY <1>1, <1>2, <1>4, <1>6, <1>8, GotoEnters, EnterDriver DEF RestTypes

LEMMA WriteDoneStep ==
    ASSUME IOInv, write_intr_done PROVE IOInv'
  <1>1. QueueInv /\ RestTypes
    BY IOInvParts
  <1>2. /\ Interrupt("write_intr") /\ hd' = HdIdle /\ end_request(1) /\ Goto("irq", "do_hd")
        /\ hd.phase = "ok"
        /\ UNCHANGED <<b_dirt, b_data, reset, recalibrate, handler, disk, intr, work, held>>
    BY DEF write_intr_done, drvVars
  <1>3. queue # <<>>
    BY <1>2, InterruptFacts
  <1>4. SameSubmission
    BY <1>1, <1>2, SameSubmissionIrq DEF Goto, RestTypes
  <1>5. QueueInv' /\ \A b \in Buffers : b_lock[b] = 0 => b_lock'[b] = 0
    BY <1>1, <1>2, <1>3, <1>4, EndRequestInv DEF Flag
  <1> QED BY <1>1, <1>2, <1>5, GotoEnters, EnterDriver DEF RestTypes

(* The first of two sectors is done: the request advances with the         *)
(* controller, which is busy again.                                        *)
LEMMA AdvanceStep ==
    ASSUME IOInv, NEW r \in {"read_intr", "write_intr"}, Interrupt(r),
           NEW e \in 0..(MAX_ERRORS - 1),
           request_list' = [request_list EXCEPT ![Head(queue)] = Advanced(Current, e)],
           Current.nr_sectors # 1,
           NEW d \in Values, hd' = [hd EXCEPT !.phase = "busy", !.data = d],
           hd.phase = "ok", b_data' \in [Buffers -> [Half -> Values]], handler' = r,
           UNCHANGED <<queue, b_lock, b_uptodate, b_dirt, reset, recalibrate, disk, intr,
                       work, held, pc>>
    PROVE  IOInv'
  <1>1. QueueInv /\ RestTypes /\ WorkOK /\ DriverControl /\ CommandState
    BY IOInvParts
  <1>2. queue # <<>> /\ Active /\ handler = r /\ hd.left = Current.nr_sectors - 1
        /\ pc.irq = "idle" /\ pc.main \notin {"do_hd", "drq"}
    BY InterruptFacts, LastSector
  <1>3. /\ Head(queue) \in Slots
        /\ Current \in Request /\ Current.nr_sectors \in {1, 2}
        /\ Current.buffer = 2 - Current.nr_sectors
        /\ Current.sector = 2 * b_blocknr[Current.bh] + Current.buffer
        /\ Current.bh \in Buffers
    BY <1>1, <1>2, CurrentFacts
  <1> DEFINE q == Advanced(Current, e)
  <1>4. Current.nr_sectors = 2 /\ Current.buffer = 0
    BY <1>3
  <1>5. q = [dev |-> Current.dev, cmd |-> Current.cmd, errors |-> e,
             sector |-> Current.sector + 1, nr_sectors |-> 1, buffer |-> 1, bh |-> Current.bh]
    BY <1>3, <1>4 DEF Advanced
  <1>6. /\ q \in Request /\ q.bh = Current.bh /\ q.dev = Current.dev /\ q.cmd = Current.cmd
        /\ q.nr_sectors = 1 /\ q.buffer = 1
        /\ q.sector = 2 * b_blocknr[q.bh] + 1
    <2>1. 2 * b_blocknr[Current.bh] \in Nat
      BY <1>3, LayoutAssumption
    <2> QED BY <1>3, <1>4, <1>5, <2>1 DEF Request, Half
  <1> HIDE DEF q
  <1>7. request_list' = [request_list EXCEPT ![Head(queue)] = q]
    BY DEF q
  <1>8. SameSubmission
    BY SameSubmissionIrq
  <1>9. QueueInv'
    <2>1. /\ q.nr_sectors \in {1, 2} /\ q.buffer = 2 - q.nr_sectors
          /\ q.sector = 2 * b_blocknr[q.bh] + q.buffer
      BY <1>6
    <2> QED BY <1>1, <1>2, <1>6, <1>7, <1>8, <2>1, ProgressInv
  <1>10. /\ hd' \in [cmd : {"none", "READ", "WRITE", "SPECIFY", "RESTORE"},
                     phase : {"idle", "wait", "busy", "ok", "err", "abort"},
                     lba : Nat, left : 0..2, data : Values]
         /\ hd'.cmd = hd.cmd /\ hd'.phase = "busy" /\ hd'.left = hd.left
    BY <1>1 DEF RestTypes
  <1>11. RestTypes'
    BY <1>1, <1>10 DEF RestTypes
  <1>12. WorkOK'
    BY <1>1, WorkFrame DEF RestTypes, MainStays
  <1>13. Current' = q
    BY <1>1, <1>3, <1>7 DEF Current, QueueInv, QueueTypes
  <1>14. DriverControl' /\ ~InDrq'
    BY <1>1, <1>2 DEF DriverControl, InDrq, RestTypes
  <1>15. CommandState'
    BY <1>1, <1>2, <1>4, <1>6, <1>10, <1>13, <1>14 DEF CommandState, Active
  <1> QED BY <1>9, <1>11, <1>12, <1>14, <1>15, IOInvPartsNext

LEMMA ReadMoreStep ==
    ASSUME IOInv, read_intr_more PROVE IOInv'
  <1>1. QueueInv /\ RestTypes
    BY IOInvParts
  <1>2. /\ Interrupt("read_intr") /\ hd.phase = "ok" /\ Current.nr_sectors # 1 /\ port_read
        /\ request_list' = [request_list EXCEPT ![Head(queue)] = Advanced(Current, 0)]
        /\ handler' = "read_intr"
        /\ UNCHANGED <<queue, b_lock, b_uptodate, b_dirt, reset, recalibrate, disk, intr,
                       work, held, pc>>
    BY DEF read_intr_more
  <1>3. queue # <<>> /\ hd.left = Current.nr_sectors - 1
    BY <1>2, InterruptFacts, LastSector
  <1>4. Current.bh \in Buffers /\ Current.buffer \in Half /\ Current.nr_sectors \in {1, 2}
    BY <1>1, <1>3, CurrentFacts DEF Request
  <1>5. hd' = [hd EXCEPT !.phase = "busy", !.data = Zero]
    BY <1>2, <1>3, <1>4 DEF port_read
  <1>6. b_data' \in [Buffers -> [Half -> Values]]
    <2>1. hd.data \in Values /\ b_data \in [Buffers -> [Half -> Values]]
      BY <1>1 DEF RestTypes
    <2>2. b_data' = [b_data EXCEPT ![Current.bh][Current.buffer] = hd.data]
      BY <1>2 DEF port_read
    <2> QED BY <1>4, <2>1, <2>2
  <1>7. 0 \in 0..(MAX_ERRORS - 1) /\ Zero \in Values
    BY SizeAssumption, DataAssumption
  <1> QED BY <1>2, <1>5, <1>6, <1>7, AdvanceStep

LEMMA WriteMoreStep ==
    ASSUME IOInv, write_intr_more PROVE IOInv'
  <1>1. QueueInv /\ RestTypes
    BY IOInvParts
  <1>2. /\ Interrupt("write_intr") /\ hd.phase = "ok" /\ Current.nr_sectors # 1
        /\ port_write(Current.buffer + 1)
        /\ request_list' = [request_list EXCEPT ![Head(queue)] = Advanced(Current, Current.errors)]
        /\ handler' = "write_intr"
        /\ UNCHANGED <<queue, b_lock, b_uptodate, b_dirt, b_data, reset, recalibrate, disk,
                       intr, work, held, pc>>
    BY DEF write_intr_more, bufVars
  <1>3. queue # <<>> /\ hd.left = Current.nr_sectors - 1
    BY <1>2, InterruptFacts, LastSector
  <1>4. /\ Current.bh \in Buffers /\ Current.nr_sectors \in {1, 2}
        /\ Current.buffer = 2 - Current.nr_sectors
        /\ Current.errors \in 0..(MAX_ERRORS - 1)
    BY <1>1, <1>3, CurrentFacts DEF Request
  <1>5. hd' = [hd EXCEPT !.phase = "busy", !.data = b_data[Current.bh][Current.buffer + 1]]
    BY <1>2, <1>3, <1>4 DEF port_write
  <1>6. Current.buffer + 1 \in Half
    BY <1>2, <1>4 DEF Half
  <1>7. b_data[Current.bh][Current.buffer + 1] \in Values
    BY <1>1, <1>4, <1>6 DEF RestTypes
  <1>8. b_data' \in [Buffers -> [Half -> Values]]
    BY <1>1, <1>2 DEF RestTypes
  <1> QED BY <1>2, <1>4, <1>5, <1>7, <1>8, AdvanceStep

LEMMA InterruptStep ==
    ASSUME IOInv, irq_handler PROVE IOInv'
BY IntrErrorStep, RecalOkStep, ReadMoreStep, ReadDoneStep, WriteMoreStep, WriteDoneStep,
   WriteAbortStep
   DEF irq_handler

----------------------------------------------------------------------------
(* The controller keeps the invariant. *)

LEMMA ControllerStep ==
    ASSUME IOInv, controller PROVE IOInv'
  <1>1. QueueInv /\ RestTypes /\ WorkOK /\ DriverControl /\ CommandState
    BY IOInvParts
  <1>2. /\ hd.phase = "busy"
        /\ UNCHANGED <<request_list, queue, b_lock, b_uptodate, b_dirt, b_data, reset,
                       recalibrate, handler, intr, work, held, pc>>
    BY DEF controller, hd_read, hd_write, hd_settle, hd_fail, hdUnchanged, bufVars, drvVars
  <1>3. Active /\ queue # <<>> /\ Current' = Current
    BY <1>1, <1>2 DEF Active, CommandState, Current
  <1>4. hd.cmd \in {"READ", "WRITE"} => hd.left \in {1, 2} /\ hd.left = Current.nr_sectors
    BY <1>1, <1>2, <1>3, CurrentFacts DEF CommandState
  <1>5. SameSubmission /\ WorkOK'
    BY <1>1, <1>2, WorkFrame DEF RestTypes, MainStays
  <1>6. QueueInv'
    BY <1>1, <1>2, <1>5, QueueFrame DEF QueueInv, QueueTypes
  <1>7. /\ hd' \in [cmd : {"none", "READ", "WRITE", "SPECIFY", "RESTORE"},
                    phase : {"ok", "err"}, lba : Nat, left : 0..2, data : Values]
        /\ disk' \in [Sectors -> Values]
        /\ hd'.cmd = hd.cmd
        /\ hd.cmd \in {"READ", "WRITE"} =>
              hd'.left = IF hd'.phase = "ok" THEN hd.left - 1 ELSE hd.left
    <2>1. CASE hd_read
      <3>1. disk[hd.lba] \in Values
        BY <1>1, <2>1 DEF hd_read, RestTypes
      <3>2. hd.lba + 1 \in Nat /\ hd.left - 1 \in 0..2
        BY <1>1, <1>4, <2>1 DEF hd_read, RestTypes
      <3> QED BY <1>1, <2>1, <3>1, <3>2 DEF hd_read, RestTypes
    <2>2. CASE hd_write
      <3>1. hd.lba + 1 \in Nat /\ hd.left - 1 \in 0..2 /\ hd.data \in Values
        BY <1>1, <1>4, <2>2 DEF hd_write, RestTypes
      <3>2. disk' \in [Sectors -> Values]
        BY <1>1, <2>2, <3>1 DEF hd_write, RestTypes
      <3> QED BY <1>1, <2>2, <3>1, <3>2 DEF hd_write, RestTypes
    <2>3. CASE hd_settle
      BY <1>1, <2>3 DEF hd_settle, RestTypes
    <2>4. CASE hd_fail
      <3>1. disk' \in [Sectors -> Values]
        BY <1>1, <2>4 DEF hd_fail, RestTypes
      <3> QED BY <1>1, <2>4, <3>1 DEF hd_fail, RestTypes
    <2> QED BY <2>1, <2>2, <2>3, <2>4 DEF controller
  <1>8. RestTypes'
    BY <1>1, <1>2, <1>7 DEF RestTypes
  <1>9. Active' /\ InDrq' = InDrq /\ ~InDrq
    BY <1>1, <1>2, <1>7 DEF Active, InDrq, CommandState
  <1>10. DriverControl'
    BY <1>1, <1>2, <1>3 DEF DriverControl
  <1>11. CommandState'
    BY <1>1, <1>2, <1>3, <1>4, <1>7, <1>9 DEF CommandState
  <1> QED BY <1>5, <1>6, <1>8, <1>10, <1>11, IOInvPartsNext

(* A WRITE that waits for its data is aborted. *)
LEMMA AbortStep ==
    ASSUME IOInv, hd_abort PROVE IOInv'
  <1>1. QueueInv /\ RestTypes /\ WorkOK /\ DriverControl /\ CommandState
    BY IOInvParts
  <1>2. /\ hd.phase = "wait" /\ hd' = [hd EXCEPT !.phase = "abort"]
        /\ UNCHANGED <<request_list, queue, b_lock, b_uptodate, b_dirt, b_data, reset,
                       recalibrate, handler, disk, intr, work, held, pc>>
    BY DEF hd_abort, hdUnchanged, bufVars, drvVars
  <1>3. SameSubmission /\ WorkOK'
    BY <1>1, <1>2, WorkFrame DEF RestTypes, MainStays
  <1>4. QueueInv'
    BY <1>1, <1>2, <1>3, QueueFrame DEF QueueInv, QueueTypes
  <1>5. /\ hd' \in [cmd : {"none", "READ", "WRITE", "SPECIFY", "RESTORE"},
                    phase : {"abort"}, lba : Nat, left : 0..2, data : Values]
        /\ hd'.cmd = hd.cmd /\ hd'.left = hd.left
    BY <1>1, <1>2 DEF RestTypes
  <1>6. RestTypes'
    BY <1>1, <1>2, <1>5 DEF RestTypes
  <1>7. ~Active' /\ InDrq' = InDrq /\ Current' = Current
    BY <1>2, <1>5 DEF Active, InDrq, Current
  <1>8. DriverControl'
    BY <1>1, <1>2, <1>7 DEF DriverControl
  <1>9. CommandState'
    BY <1>1, <1>2, <1>5, <1>7 DEF CommandState
  <1> QED BY <1>3, <1>4, <1>6, <1>8, <1>9, IOInvPartsNext

----------------------------------------------------------------------------
(* Main keeps the invariant. *)

Quiet == {"next", "wait", "ll_rw", "repeat", "halt"}

(* A step of main outside the driver does not disturb the driver. *)
LEMMA QuietFrame ==
    ASSUME IOInv, pc.main \in Quiet, pc'.main \in Quiet, pc.irq = "idle", pc'.irq = "idle",
           pc' \in [main : Quiet, irq : {"idle"}],
           UNCHANGED <<hd, handler, queue, request_list>>
    PROVE  DriverControl' /\ CommandState'
  <1>1. DriverControl /\ CommandState /\ RestTypes
    BY IOInvParts
  <1>2. ~InDrq /\ ~InDrq'
    BY <1>1 DEF InDrq, Quiet, RestTypes
  <1>3. Current' = Current /\ Active' = Active
    BY DEF Current, Active
  <1>4. DriverControl'
    BY DEF DriverControl, Quiet
  <1>5. CommandState'
    BY <1>1, <1>2, <1>3 DEF CommandState
  <1> QED BY <1>4, <1>5

LEMMA WorkHead ==
    ASSUME work \in Seq(Steps), work # <<>>
    PROVE  Head(work) \in Steps /\ bh \in Buffers /\ Head(work) = work[1]
  <1>1. Head(work) \in Steps /\ Head(work) = work[1]
    BY TailFacts
  <1> QED BY <1>1 DEF bh, Steps

(* After a wait or a drop the next step finds the buffer unlocked. *)
LEMMA PopFacts ==
    ASSUME WorkOK, work \in Seq(Steps), work # <<>>, work' = Tail(work),
           pc'.main \notin InWork,
           Head(work).op \in {"wait", "drop"} => b_lock'[bh] = 0
    PROVE  WorkOK' /\ work' \in Seq(Steps)
  <1>1. /\ Len(work) \in Nat \ {0} /\ Head(work) = work[1] /\ work' \in Seq(Steps)
        /\ Len(work') = Len(work) - 1
        /\ \A i \in 1..(Len(work) - 1) : work'[i] = work[i + 1]
    BY TailFacts
  <1>2. Chained(work')
    <2> SUFFICES ASSUME NEW k \in 2..Len(work') PROVE Follows(work', k)
      BY DEF Chained
    <2>1. Follows(work, k + 1) /\ work'[k] = work[k + 1] /\ work'[k - 1] = work[(k + 1) - 1]
      BY <1>1 DEF WorkOK, Chained
    <2> QED BY <2>1 DEF Follows
  <1>3. ASSUME work' # <<>>, Head(work').op \in NeedsUnlocked PROVE b_lock'[bh'] = 0
    <2>1. Head(work') = work[2] /\ 2 \in 2..Len(work)
      BY <1>1, <1>3
    <2>2. Follows(work, 2)
      BY <2>1 DEF WorkOK, Chained
    <2>3. work[1].bh = work[2].bh /\ work[1].op \in {"wait", "drop"}
      BY <1>3, <2>1, <2>2 DEF Follows
    <2> QED BY <1>1, <2>1, <2>3 DEF bh
  <1> QED BY <1>1, <1>2, <1>3 DEF WorkOK, InWork

(* Main finishes a step of its call outside the driver; no buffer is       *)
(* locked or unlocked.                                                     *)
LEMMA PopStep ==
    ASSUME IOInv, Running, pc.main \in Quiet \ {"repeat"}, work # <<>>, Done,
           pc' = pc \/ pc' = [pc EXCEPT !.main = "next"], pc'.main = "next",
           Head(work).op \in {"wait", "drop"} => b_lock[bh] = 0,
           UNCHANGED <<ioVars, b_lock>>,
           b_uptodate' \in [Buffers -> Flag], b_dirt' \in [Buffers -> Flag],
           b_data' \in [Buffers -> [Half -> Values]], intr' \in Flag, held' \in SUBSET Buffers
    PROVE  IOInv'
  <1>1. QueueInv /\ RestTypes /\ WorkOK
    BY IOInvParts
  <1>2. /\ UNCHANGED <<request_list, queue, reset, recalibrate, handler, hd, disk, b_lock>>
        /\ work' = Tail(work)
    BY DEF ioVars, drvVars, Done
  <1>3. WorkOK' /\ work' \in Seq(Steps)
    BY <1>1, <1>2, PopFacts DEF RestTypes, InWork
  <1>4. pc' \in [main : Quiet, irq : {"idle"}] /\ pc.irq = "idle"
    BY <1>1 DEF RestTypes, Running, Quiet
  <1>5. SameSubmission
    BY DEF SameSubmission, Submitting
  <1>6. QueueInv'
    BY <1>1, <1>2, <1>5, QueueFrame
  <1>7. RestTypes'
    BY <1>1, <1>2, <1>3, <1>4 DEF RestTypes, Quiet
  <1>8. DriverControl' /\ CommandState'
    BY <1>2, <1>4, QuietFrame
  <1> QED BY <1>3, <1>6, <1>7, <1>8, IOInvPartsNext

LEMMA StepsStep ==
    ASSUME IOInv, step_skip \/ wait_end \/ step_drop \/ step_clear \/ step_hold \/ step_release
    PROVE  IOInv'
  <1>1. QueueInv /\ RestTypes /\ WorkOK
    BY IOInvParts
  <1>2. work # <<>> /\ Running /\ Done /\ UNCHANGED <<ioVars, b_lock>>
    BY DEF step_skip, wait_end, step_drop, step_clear, step_hold, step_release, Do, At, bufVars
  <1>3. Head(work) \in Steps /\ bh \in Buffers
    BY <1>1, <1>2, WorkHead DEF RestTypes
  <1>4. /\ pc.main \in {"next", "wait"} /\ pc'.main = "next"
        /\ pc' = pc \/ pc' = [pc EXCEPT !.main = "next"]
    BY <1>1 DEF step_skip, wait_end, step_drop, step_clear, step_hold, step_release, Do, At,
                Goto, RestTypes
  <1>5. Head(work).op \in {"wait", "drop"} => b_lock[bh] = 0
    <2>1. CASE wait_end
      BY <2>1 DEF wait_end
    <2>2. CASE step_drop
      BY <1>1, <1>2, <2>2 DEF step_drop, Do, At, WorkOK, NeedsUnlocked
    <2>3. CASE step_skip \/ step_clear \/ step_hold \/ step_release
      BY <2>3 DEF step_skip, step_clear, step_hold, step_release, Do
    <2> QED BY <2>1, <2>2, <2>3
  <1>6. /\ b_uptodate' \in [Buffers -> Flag] /\ b_dirt' \in [Buffers -> Flag]
        /\ intr' \in Flag /\ held' \in SUBSET Buffers
    BY <1>1, <1>3 DEF step_skip, wait_end, step_drop, step_clear, step_hold, step_release,
       bufVars, RestTypes, QueueInv, QueueTypes, Flag
  <1>7. b_data' \in [Buffers -> [Half -> Values]]
    <2>1. b_data \in [Buffers -> [Half -> Values]]
      BY <1>1 DEF RestTypes
    <2>2. CASE step_clear
      <3>1. [h \in Half |-> Zero] \in [Half -> Values]
        BY DataAssumption
      <3> QED BY <1>3, <2>1, <2>2, <3>1 DEF step_clear
    <2>3. CASE ~step_clear
      BY <2>1, <2>3 DEF step_skip, wait_end, step_drop, step_hold, step_release, bufVars
    <2> QED BY <2>2, <2>3
  <1> QED BY <1>2, <1>4, <1>5, <1>6, <1>7, PopStep DEF Quiet

(* Main moves within its call, locks and data unchanged. *)
LEMMA MoveStep ==
    ASSUME IOInv, step_cached \/ step_submit \/ step_wait \/ wait_spin PROVE IOInv'
  <1>1. QueueInv /\ RestTypes /\ WorkOK
    BY IOInvParts
  <1>2. /\ work # <<>> /\ Running
        /\ UNCHANGED <<request_list, queue, reset, recalibrate, handler, hd, disk, b_lock,
                       b_uptodate, b_dirt, b_data, held>>
    BY DEF step_cached, step_submit, step_wait, wait_spin, Do, At, bufVars, ioVars, drvVars
  <1>3. Head(work) \in Steps /\ bh \in Buffers
    BY <1>1, <1>2, WorkHead DEF RestTypes
  <1>4. /\ pc.main \in {"next", "wait"} /\ pc'.main \in {"next", "wait", "ll_rw"}
        /\ pc' \in [main : Quiet, irq : {"idle"}] /\ pc.irq = "idle" /\ intr' \in Flag
    BY <1>1 DEF step_cached, step_submit, step_wait, wait_spin, Do, At, Goto, RestTypes,
                Running, Quiet, Flag
  <1>5. SameSubmission
    BY <1>4 DEF SameSubmission, Submitting
  <1>6. QueueInv'
    BY <1>1, <1>2, <1>5, QueueFrame DEF QueueInv, QueueTypes
  <1>7. WorkOK' /\ work' \in Seq(Steps)
    <2>1. CASE step_cached
      <3> DEFINE h == Step("hold", bh)
      <3>1. h \in Steps /\ h.op = "hold"
        BY <1>3, StepType DEF Ops
      <3>2. work' = <<h>> /\ pc'.main = "next"
        BY <2>1 DEF step_cached, Do, At
      <3> HIDE DEF h
      <3>3. work' \in Seq(Steps) /\ Len(work') = 1 /\ Head(work') = h
        BY <3>1, <3>2
      <3> QED BY <3>1, <3>2, <3>3 DEF WorkOK, Chained, NeedsUnlocked, Submits
    <2>2. CASE step_submit
      <3>1. work' = work /\ pc.main = "next" /\ pc'.main = "ll_rw" /\ Head(work).op \in Submits
        BY <1>1, <2>2 DEF step_submit, At, Goto, RestTypes
      <3>2. b_lock[bh] = 0
        BY <1>1, <1>2, <3>1 DEF WorkOK, NeedsUnlocked
      <3>3. bh' = bh
        BY <3>1 DEF bh
      <3> QED BY <1>1, <1>2, <3>1, <3>2, <3>3 DEF WorkOK, RestTypes
    <2>3. CASE step_wait
      <3>1. work' = work /\ pc'.main = "wait" /\ Head(work).op = "wait"
        BY <1>1, <2>3 DEF step_wait, Do, At, Goto, RestTypes
      <3> QED BY <1>1, <1>2, <3>1 DEF WorkOK, RestTypes, NeedsUnlocked, Submits
    <2>4. CASE wait_spin
      <3>1. work' = work /\ pc' = pc
        BY <2>4 DEF wait_spin
      <3> QED BY <1>1, <1>2, <3>1, WorkFrame DEF RestTypes, MainStays
    <2> QED BY <2>1, <2>2, <2>3, <2>4
  <1>8. RestTypes'
    BY <1>1, <1>2, <1>4, <1>7 DEF RestTypes, Quiet
  <1>9. DriverControl' /\ CommandState'
    BY <1>2, <1>4, QuietFrame DEF Quiet
  <1> QED BY <1>6, <1>7, <1>8, <1>9, IOInvPartsNext

(* A call starts with a wait or with a buffer it passes over. *)
LEMMA CallStep ==
    ASSUME IOInv, AtRest, GoodCall(work'), UNCHANGED <<ioVars, bufVars, intr, held, pc>>
    PROVE  IOInv'
  <1>1. QueueInv /\ RestTypes /\ WorkOK /\ DriverControl /\ CommandState
    BY IOInvParts
  <1>2. /\ UNCHANGED <<request_list, queue, reset, recalibrate, handler, hd, disk, b_lock,
                       b_uptodate, b_dirt, b_data, intr, held, pc>>
        /\ pc.irq = "idle" /\ pc.main = "next"
    BY DEF ioVars, drvVars, bufVars, AtRest, Running
  <1>3. work' \in Seq(Steps) /\ Head(work').op \in {"wait", "continue"}
    BY DEF GoodCall
  <1>4. WorkOK'
    BY <1>2, <1>3 DEF WorkOK, GoodCall, NeedsUnlocked, Submits
  <1>5. SameSubmission
    BY <1>2 DEF SameSubmission, Submitting
  <1>6. QueueInv'
    BY <1>1, <1>2, <1>5, QueueFrame DEF QueueInv, QueueTypes
  <1>7. RestTypes'
    BY <1>1, <1>2, <1>3 DEF RestTypes
  <1>8. pc' \in [main : Quiet, irq : {"idle"}]
    BY <1>1, <1>2 DEF RestTypes, Quiet
  <1>9. DriverControl' /\ CommandState'
    BY <1>2, <1>8, QuietFrame DEF Quiet
  <1> QED BY <1>4, <1>6, <1>7, <1>9, IOInvPartsNext

LEMMA ModifyStep ==
    ASSUME IOInv, call_modify PROVE IOInv'
  <1>1. QueueInv /\ RestTypes /\ WorkOK
    BY IOInvParts
  <1>2. PICK b \in Buffers, h \in Half, v \in Values : modify(b, h, v)
    BY DEF call_modify
  <1>3. /\ UNCHANGED <<request_list, queue, reset, recalibrate, handler, hd, disk, b_lock,
                       b_uptodate, intr, work, held, pc>>
        /\ pc.irq = "idle" /\ pc.main = "next"
        /\ b_data' = [b_data EXCEPT ![b][h] = v]
        /\ b_dirt' = [b_dirt EXCEPT ![b] = 1]
    BY <1>2 DEF modify, ioVars, drvVars, AtRest, Running
  <1>4. RestTypes'
    BY <1>1, <1>3 DEF RestTypes, Flag
  <1>5. WorkOK' /\ SameSubmission
    BY <1>1, <1>3, WorkFrame DEF RestTypes, MainStays
  <1>6. QueueInv'
    BY <1>1, <1>3, <1>5, QueueFrame DEF QueueInv, QueueTypes
  <1>7. pc' \in [main : Quiet, irq : {"idle"}]
    BY <1>1, <1>3 DEF RestTypes, Quiet
  <1>8. DriverControl' /\ CommandState'
    BY <1>3, <1>7, QuietFrame DEF Quiet
  <1> QED BY <1>4, <1>5, <1>6, <1>8, IOInvPartsNext

LEMMA CallsStep ==
    ASSUME IOInv, calls PROVE IOInv'
  <1>1. CASE call_read_buff
    <2>1. PICK b \in Buffers, w \in Ways : Call("read_buff", read_buff(b, w))
      BY <1>1 DEF call_read_buff
    <2> QED BY <2>1, CallsGood, CallStep DEF Call
  <1>2. CASE call_read_buff_page
    <2>1. PICK a \in Buffers, b \in Buffers, w \in Ways :
              Call("read_buff_page", read_buff_page(a, b, w))
      BY <1>2 DEF call_read_buff_page
    <2> QED BY <2>1, CallsGood, CallStep DEF Call
  <1>3. CASE call_read_buff_ahead
    <2>1. PICK a \in Buffers, b \in Buffers, w \in Ways :
              Call("read_buff_ahead", read_buff_ahead(a, b, w))
      BY <1>3 DEF call_read_buff_ahead
    <2> QED BY <2>1, CallsGood, CallStep DEF Call
  <1>4. CASE call_create_block
    <2>1. PICK b \in Buffers, w \in Ways : Call("create_block", create_block(b, w))
      BY <1>4 DEF call_create_block
    <2> QED BY <2>1, CallsGood, CallStep DEF Call
  <1>5. CASE call_put_buff
    <2>1. PICK b \in held : work' = put_buff(b)
      BY <1>5 DEF call_put_buff
    <2>2. b \in Buffers
      BY <2>1, IOInvParts DEF RestTypes
    <2>3. GoodCall(put_buff(b))
      BY <2>2, StepType DEF GoodCall, put_buff, Chained, Follows, NeedsUnlocked, Submits, Ops
    <2> QED BY <1>5, <2>1, <2>3, CallStep DEF call_put_buff
  <1>6. CASE call_sync_dev
    <2>1. PICK b \in Buffers : Call("sync_dev", sync_dev(b_dev[b]))
      BY <1>6 DEF call_sync_dev
    <2>2. GoodCall(sync_dev(b_dev[b]))
      BY ForDeviceChained, SizeAssumption DEF GoodCall, sync_dev
    <2> QED BY <2>1, <2>2, CallStep DEF Call
  <1>7. CASE call_invalidate_buff
    <2>1. PICK b \in Buffers : Call("invalidate_buff", invalidate_buff(b))
      BY <1>7 DEF call_invalidate_buff
    <2>2. GoodCall(invalidate_buff(b))
      BY StepType DEF GoodCall, invalidate_buff, Chained, Follows, NeedsUnlocked, Submits, Ops
    <2> QED BY <2>1, <2>2, CallStep DEF Call
  <1>8. CASE call_invalidate_buffs
    <2>1. PICK b \in Buffers : Call("invalidate_buffs", invalidate_buffs(b_dev[b]))
      BY <1>8 DEF call_invalidate_buffs
    <2>2. GoodCall(invalidate_buffs(b_dev[b]))
      BY ForDeviceChained, SizeAssumption DEF GoodCall, invalidate_buffs
    <2> QED BY <2>1, <2>2, CallStep DEF Call
  <1>9. CASE call_modify
    BY <1>9, ModifyStep
  <1> QED BY <1>1, <1>2, <1>3, <1>4, <1>5, <1>6, <1>7, <1>8, <1>9 DEF calls

LEMMA HaltStep ==
    ASSUME IOInv, kmain_halt PROVE IOInv'
  <1>1. QueueInv /\ RestTypes /\ WorkOK
    BY IOInvParts
  <1>2. /\ UNCHANGED <<request_list, queue, reset, recalibrate, handler, hd, disk, b_lock,
                       b_uptodate, b_dirt, b_data, work, held>>
        /\ pc.irq = "idle" /\ pc.main = "next" /\ intr' = 1
        /\ pc' = [pc EXCEPT !["main"] = "halt"]
    BY DEF kmain_halt, ioVars, drvVars, bufVars, AtRest, Running, Goto
  <1>3. pc' \in [main : Quiet, irq : {"idle"}] /\ pc'.main = "halt"
    BY <1>1, <1>2 DEF RestTypes, Quiet
  <1>4. RestTypes'
    BY <1>1, <1>2, <1>3 DEF RestTypes, Flag, Quiet
  <1>5. WorkOK' /\ SameSubmission
    BY <1>1, <1>2, <1>3, WorkFrame DEF RestTypes, MainStays, InWork
  <1>6. QueueInv'
    BY <1>1, <1>2, <1>5, QueueFrame DEF QueueInv, QueueTypes
  <1>7. DriverControl' /\ CommandState'
    BY <1>2, <1>3, QuietFrame DEF Quiet
  <1> QED BY <1>4, <1>5, <1>6, <1>7, IOInvPartsNext

LEMMA StutterStep ==
    ASSUME IOInv, UNCHANGED vars PROVE IOInv'
BY DEF vars, IOInv, TypeOK, QueueHoldsRequests, LockedMeansQueued, RequestFields, WorkOK,
       DriverControl, CommandState, Queued, Submitting, bh, Active, InDrq, Current

----------------------------------------------------------------------------
(* ll_rw_block and add_request keep the invariant. *)

(* lock_buff: the buffer was unlocked, so nothing carries it yet. *)
LEMMA LockStep ==
    ASSUME IOInv, ll_rw_block PROVE IOInv'
  <1>1. QueueInv /\ RestTypes /\ WorkOK
    BY IOInvParts
  <1>2. /\ work # <<>> /\ pc.irq = "idle" /\ pc.main = "ll_rw"
        /\ UNCHANGED <<request_list, queue, reset, recalibrate, handler, hd, disk,
                       b_uptodate, b_dirt, b_data, held>>
    BY DEF ll_rw_block, At, Running, ioVars, drvVars
  <1>3. Head(work) \in Steps /\ bh \in Buffers /\ Head(work).op \in Submits /\ b_lock[bh] = 0
    BY <1>1, <1>2, WorkHead DEF RestTypes, WorkOK, NeedsUnlocked
  <1>4. ~Skips(rw)
    BY <1>3 DEF Skips
  <1>5. intr' = 1
    BY <1>4 DEF ll_rw_block
  <1>6. CASE NothingToDo(rw)
    <2>1. /\ b_lock' = [b_lock EXCEPT ![bh] = 0] /\ Done
          /\ pc' = [pc EXCEPT !["main"] = "next"]
      BY <1>4, <1>6 DEF ll_rw_block, unlock_buff, Goto
    <2>2. b_lock' = b_lock
      BY <1>1, <1>3, <2>1 DEF QueueInv, QueueTypes
    <2>3. pc'.main = "next" /\ pc' = [pc EXCEPT !.main = "next"]
      BY <1>1, <2>1 DEF RestTypes
    <2>4. Head(work).op \notin {"wait", "drop"}
      BY <1>3 DEF Submits
    <2> QED BY <1>1, <1>2, <1>5, <2>1, <2>2, <2>3, <2>4, PopStep
            DEF Quiet, Running, ioVars, drvVars, RestTypes, QueueInv, QueueTypes, Flag
  <1>7. CASE ~NothingToDo(rw)
    <2>1. /\ b_lock' = [b_lock EXCEPT ![bh] = 1] /\ work' = work
          /\ pc' = [pc EXCEPT !["main"] = "repeat"]
      BY <1>4, <1>7 DEF ll_rw_block, lock_buff, Goto
    <2>2. pc' \in [main : Quiet, irq : {"idle"}] /\ pc'.main = "repeat"
      BY <1>1, <1>2, <2>1 DEF RestTypes, Quiet
    <2>3. RestTypes'
      BY <1>1, <1>2, <1>5, <2>1, <2>2 DEF RestTypes, Flag, Quiet
    <2>4. WorkOK'
      BY <1>1, <1>2, <1>3, <2>1, <2>2 DEF WorkOK
    <2>5. \A b \in Buffers : ~Submitting(b) /\ (Submitting(b)' <=> b = bh)
      BY <1>2, <2>1, <2>2 DEF Submitting, bh
    <2>6. Queued' = Queued
      BY <1>2 DEF Queued
    <2>7. \A b \in Buffers : b_lock'[b] = IF b = bh THEN 1 ELSE b_lock[b]
      BY <1>1, <1>3, <2>1 DEF QueueInv, QueueTypes
    <2>8. LockedMeansQueued'
      <3> SUFFICES ASSUME NEW b \in Buffers
                   PROVE  /\ b_lock'[b] = 1 <=>
                               Submitting(b)' \/ \E s \in Queued' : request_list'[s].bh = b
                          /\ Submitting(b)' => \A s \in Queued' : request_list'[s].bh # b
                          /\ \A s, t \in Queued' :
                                request_list'[s].bh = b /\ request_list'[t].bh = b => s = t
        BY DEF LockedMeansQueued
      <3>1. /\ b_lock[b] = 1 <=> Submitting(b) \/ \E s \in Queued : request_list[s].bh = b
            /\ \A s, t \in Queued : request_list[s].bh = b /\ request_list[t].bh = b => s = t
        BY <1>1 DEF QueueInv, LockedMeansQueued
      <3>2. request_list' = request_list
        BY <1>2
      <3> QED BY <1>3, <2>5, <2>6, <2>7, <3>1, <3>2
    <2>9. QueueInv'
      BY <1>1, <1>2, <1>3, <2>1, <2>6, <2>8
         DEF QueueInv, QueueTypes, QueueHoldsRequests, RequestFields, Flag
    <2>10. DriverControl' /\ CommandState'
      BY <1>2, <2>2, QuietFrame DEF Quiet
    <2> QED BY <2>3, <2>4, <2>9, <2>10, IOInvPartsNext
  <1> QED BY <1>6, <1>7

(* Read-ahead that finds no request unlocks the buffer it has just locked. *)
LEMMA RepeatAheadStep ==
    ASSUME IOInv, repeat_ahead PROVE IOInv'
  <1>1. QueueInv /\ RestTypes /\ WorkOK
    BY IOInvParts
  <1>2. /\ work # <<>> /\ pc.irq = "idle" /\ pc.main = "repeat" /\ work' = Tail(work)
        /\ b_lock' = [b_lock EXCEPT ![bh] = 0]
        /\ pc' = [pc EXCEPT !["main"] = "next"]
        /\ UNCHANGED <<request_list, queue, reset, recalibrate, handler, hd, disk,
                       b_uptodate, b_dirt, b_data, intr, held>>
    BY DEF repeat_ahead, At, Running, ioVars, drvVars, unlock_buff, Done, Goto
  <1>3. Head(work) \in Steps /\ bh \in Buffers /\ Head(work).op \in Submits
    BY <1>1, <1>2, WorkHead DEF RestTypes, WorkOK
  <1>4. pc' \in [main : Quiet, irq : {"idle"}] /\ pc'.main = "next"
    BY <1>1, <1>2 DEF RestTypes, Quiet
  <1>5. WorkOK' /\ work' \in Seq(Steps)
    BY <1>1, <1>2, <1>3, <1>4, PopFacts DEF RestTypes, InWork, Submits
  <1>6. RestTypes'
    BY <1>1, <1>2, <1>4, <1>5 DEF RestTypes, Quiet
  <1>7. \A b \in Buffers : ~Submitting(b)' /\ (Submitting(b) <=> b = bh)
    BY <1>2, <1>4 DEF Submitting
  <1>8. Queued' = Queued
    BY <1>2 DEF Queued
  <1>9. \A b \in Buffers : b_lock'[b] = IF b = bh THEN 0 ELSE b_lock[b]
    BY <1>1, <1>2, <1>3 DEF QueueInv, QueueTypes
  <1>10. LockedMeansQueued'
    <2> SUFFICES ASSUME NEW b \in Buffers
                 PROVE  /\ b_lock'[b] = 1 <=>
                             Submitting(b)' \/ \E s \in Queued' : request_list'[s].bh = b
                        /\ Submitting(b)' => \A s \in Queued' : request_list'[s].bh # b
                        /\ \A s, t \in Queued' :
                              request_list'[s].bh = b /\ request_list'[t].bh = b => s = t
      BY DEF LockedMeansQueued
    <2>1. /\ b_lock[b] = 1 <=> Submitting(b) \/ \E s \in Queued : request_list[s].bh = b
          /\ Submitting(b) => \A s \in Queued : request_list[s].bh # b
          /\ \A s, t \in Queued : request_list[s].bh = b /\ request_list[t].bh = b => s = t
      BY <1>1 DEF QueueInv, LockedMeansQueued
    <2>2. request_list' = request_list
      BY <1>2
    <2> QED BY <1>3, <1>7, <1>8, <1>9, <2>1, <2>2
  <1>11. QueueInv'
    BY <1>1, <1>2, <1>3, <1>8, <1>10
       DEF QueueInv, QueueTypes, QueueHoldsRequests, RequestFields, Flag
  <1>12. DriverControl' /\ CommandState'
    BY <1>2, <1>4, QuietFrame DEF Quiet
  <1> QED BY <1>5, <1>6, <1>11, <1>12, IOInvPartsNext

(* The slot that ll_rw_block takes is free, and what it fills in describes *)
(* the whole block.                                                        *)
LEMMA NewRequestFacts ==
    ASSUME IOInv, NEW op \in {READ, WRITE, READA}, NEW s \in FreeSlots(op), NEW b \in Buffers
    PROVE  /\ s \in Slots /\ s \notin Queued
           /\ NewRequest(b, op) \in Request
           /\ NewRequest(b, op).bh = b
           /\ NewRequest(b, op).dev = b_dev[b] /\ b_dev[b] \in Nat
           /\ NewRequest(b, op).nr_sectors = 2 /\ NewRequest(b, op).buffer = 0
           /\ NewRequest(b, op).sector = 2 * b_blocknr[b]
  <1>1. NR_REQUEST \in Nat /\ (NR_REQUEST * 2) \div 3 <= NR_REQUEST
    BY SizeAssumption
  <1>2. s \in Slots /\ request_list[s].dev < 0
    BY <1>1 DEF FreeSlots, UsableSlots, Slots
  <1>3. request_list[s].dev \in Int
    BY <1>2 DEF IOInv, TypeOK, Request
  <1>4. s \notin Queued
    BY <1>2, <1>3 DEF IOInv, QueueHoldsRequests
  <1>5. b_dev[b] \in Nat /\ 2 * b_blocknr[b] \in Nat
    BY LayoutAssumption
  <1>6. 0 \in 0..(MAX_ERRORS - 1)
    BY SizeAssumption
  <1> QED BY <1>2, <1>4, <1>5, <1>6 DEF NewRequest, Request, Half, READ, WRITE

(* Wherever it is put, one new request for the buffer that main locked     *)
(* takes over the lock.                                                    *)
LEMMA EnqueueInv ==
    ASSUME QueueInv, NEW s \in Slots, s \notin Queued, NEW r \in Request, r.bh \in Buffers,
           r.dev = b_dev[r.bh], r.dev \in Nat, r.nr_sectors = 2, r.buffer = 0,
           r.sector = 2 * b_blocknr[r.bh],
           \A b \in Buffers : ~Submitting(b)' /\ (Submitting(b) <=> b = r.bh),
           request_list' = [request_list EXCEPT ![s] = r],
           UNCHANGED <<b_lock, b_uptodate>>,
           queue' \in Seq(Slots), Queued' = Queued \cup {s},
           \A k, l \in 1..Len(queue') : queue'[k] = queue'[l] => k = l
    PROVE  QueueInv'
  <1>1. Queued \subseteq Slots
    BY DEF Queued, QueueInv, QueueTypes
  <1>2. \A t \in Slots : request_list'[t] = IF t = s THEN r ELSE request_list[t]
    BY DEF QueueInv, QueueTypes
  <1>3. QueueTypes'
    BY DEF QueueInv, QueueTypes
  <1>4. QueueHoldsRequests'
    BY <1>1, <1>2 DEF QueueInv, QueueHoldsRequests
  <1>5. RequestFields'
    <2> SUFFICES ASSUME NEW t \in Queued'
                 PROVE  /\ request_list'[t].dev = b_dev[request_list'[t].bh]
                        /\ request_list'[t].nr_sectors \in {1, 2}
                        /\ request_list'[t].buffer = 2 - request_list'[t].nr_sectors
                        /\ request_list'[t].sector =
                             2 * b_blocknr[request_list'[t].bh] + request_list'[t].buffer
      BY DEF RequestFields
    <2>1. CASE t = s
      <3>1. 2 * b_blocknr[r.bh] \in Nat
        BY LayoutAssumption
      <3> QED BY <1>2, <2>1, <3>1
    <2>2. CASE t # s
      <3>1. t \in Queued /\ request_list'[t] = request_list[t]
        BY <1>1, <1>2, <2>2
      <3> QED BY <3>1 DEF QueueInv, RequestFields
    <2> QED BY <2>1, <2>2
  <1>6. LockedMeansQueued'
    <2> SUFFICES ASSUME NEW b \in Buffers
                 PROVE  /\ b_lock'[b] = 1 <=>
                             Submitting(b)' \/ \E t \in Queued' : request_list'[t].bh = b
                        /\ Submitting(b)' => \A t \in Queued' : request_list'[t].bh # b
                        /\ \A t, u \in Queued' :
                              request_list'[t].bh = b /\ request_list'[u].bh = b => t = u
      BY DEF LockedMeansQueued
    <2>1. /\ b_lock[b] = 1 <=> Submitting(b) \/ \E t \in Queued : request_list[t].bh = b
          /\ Submitting(b) => \A t \in Queued : request_list[t].bh # b
          /\ \A t, u \in Queued : request_list[t].bh = b /\ request_list[u].bh = b => t = u
      BY DEF QueueInv, LockedMeansQueued
    <2>2. \A t \in Queued : t # s /\ request_list'[t] = request_list[t]
      BY <1>1, <1>2
    <2>3. request_list'[s] = r /\ s \in Queued'
      BY <1>2
    <2>4. CASE b = r.bh
      BY <2>1, <2>2, <2>3, <2>4
    <2>5. CASE b # r.bh
      BY <2>1, <2>2, <2>3, <2>5
    <2> QED BY <2>4, <2>5
  <1> QED BY <1>3, <1>4, <1>5, <1>6 DEF QueueInv

LEMMA RepeatFoundStep ==
    ASSUME IOInv, repeat_found PROVE IOInv'
  <1>1. QueueInv /\ RestTypes /\ WorkOK /\ DriverControl /\ CommandState
    BY IOInvParts
  <1>2. /\ work # <<>> /\ pc.irq = "idle" /\ pc.main = "repeat"
        /\ UNCHANGED <<b_lock, b_uptodate, b_data, reset, recalibrate, handler, hd, disk, held>>
    BY DEF repeat_found, At, Running, drvVars
  <1>3. Head(work) \in Steps /\ bh \in Buffers /\ Head(work).op \in Submits
    BY <1>1, <1>2, WorkHead DEF RestTypes, WorkOK
  <1>4. rw \in {READ, WRITE, READA}
    BY DEF rw
  <1>5. PICK s \in FreeSlots(rw) : add_request(s, NewRequest(bh, rw))
    BY DEF repeat_found
  <1>6. PICK r : r = NewRequest(bh, rw)
    OBVIOUS
  <1>7. /\ s \in Slots /\ s \notin Queued
        /\ r \in Request /\ r.bh = bh /\ r.dev = b_dev[r.bh] /\ r.dev \in Nat
        /\ r.nr_sectors = 2 /\ r.buffer = 0 /\ r.sector = 2 * b_blocknr[r.bh]
    BY <1>3, <1>4, <1>6, NewRequestFacts
  <1>8. /\ request_list' = [request_list EXCEPT ![s] = r]
        /\ b_dirt' = [b_dirt EXCEPT ![bh] = 0]
        /\ intr' = 1 /\ work' = Tail(work)
        /\ \/ queue = <<>> /\ queue' = <<s>> /\ pc' = [pc EXCEPT !["main"] = "do_hd"]
           \/ /\ \E i \in 1..Len(queue) : queue' = InsertBehind(i, s)
              /\ pc' = [pc EXCEPT !["main"] = "next"]
    BY <1>5, <1>6, <1>7 DEF add_request, Done, Goto
  <1>9. /\ pc' \in [main : {"next", "do_hd"}, irq : {"idle"}]
    BY <1>1, <1>2, <1>8 DEF RestTypes
  <1>10. WorkOK' /\ work' \in Seq(Steps)
    BY <1>1, <1>2, <1>3, <1>8, <1>9, PopFacts DEF RestTypes, InWork, Submits
  <1>11. RestTypes'
    BY <1>1, <1>2, <1>3, <1>8, <1>9, <1>10 DEF RestTypes, Flag
  <1>12. \A b \in Buffers : ~Submitting(b)' /\ (Submitting(b) <=> b = r.bh)
    BY <1>2, <1>7, <1>9 DEF Submitting
  <1>13. ~InDrq /\ ~InDrq' /\ Active' = Active
    BY <1>1, <1>2, <1>9 DEF InDrq, Active, RestTypes
  <1>14. CASE queue = <<>>
    <2>1. queue' = <<s>> /\ pc'.main = "do_hd"
      <3>1. ~\E i \in 1..Len(queue) : queue' = InsertBehind(i, s)
        BY <1>14
      <3> QED BY <1>1, <1>8, <3>1 DEF RestTypes
    <2>2. Queued = {}
      BY <1>14 DEF Queued
    <2>3. queue' \in Seq(Slots) /\ Len(queue') = 1 /\ queue'[1] = s
      BY <1>7, <2>1
    <2>4. Queued' = {s}
      BY <2>3 DEF Queued
    <2>5. QueueInv'
      <3>1. \A k, l \in 1..Len(queue') : queue'[k] = queue'[l] => k = l
        BY <2>3
      <3>2. Queued' = Queued \cup {s} /\ queue' \in Seq(Slots)
        BY <2>2, <2>3, <2>4
      <3>3. QueueInv /\ request_list' = [request_list EXCEPT ![s] = r]
            /\ UNCHANGED <<b_lock, b_uptodate>>
        BY <1>1, <1>2, <1>8
      <3> QED BY <1>3, <1>7, <1>12, <3>1, <3>2, <3>3, EnqueueInv
    <2>6. ~Active
      BY <1>1, <1>14 DEF CommandState
    <2>7. DriverControl' /\ CommandState'
      <3>1. DriverControl'
        BY <1>9, <1>13, <2>6 DEF DriverControl
      <3>2. CommandState'
        BY <1>1, <1>2, <1>13, <2>6 DEF CommandState
      <3> QED BY <3>1, <3>2
    <2> QED BY <1>10, <1>11, <2>5, <2>7, IOInvPartsNext
  <1>15. CASE queue # <<>>
    <2>1. /\ pc'.main = "next"
          /\ \E i \in 1..Len(queue) : queue' = InsertBehind(i, s)
      BY <1>1, <1>8, <1>15 DEF RestTypes
    <2>2. PICK i \in 1..Len(queue) : queue' = InsertBehind(i, s)
      BY <2>1
    <2>3. queue \in Seq(Slots) /\ \A k, l \in 1..Len(queue) : queue[k] = queue[l] => k = l
      BY <1>1 DEF QueueInv, QueueTypes, QueueHoldsRequests
    <2>4. /\ queue' \in Seq(Slots) /\ queue' # <<>> /\ Head(queue') = Head(queue)
          /\ Queued' = Queued \cup {s}
          /\ \A k, l \in 1..Len(queue') : queue'[k] = queue'[l] => k = l
      BY <1>7, <2>2, <2>3, InsertFacts
    <2>5. QueueInv'
      BY <1>1, <1>2, <1>3, <1>7, <1>8, <1>12, <2>4, EnqueueInv
    <2>6. Current' = Current
      <3>1. Head(queue) \in Queued /\ Head(queue) \in Slots
        BY <1>1, <1>15, CurrentFacts
      <3>2. request_list'[Head(queue)] = request_list[Head(queue)]
        BY <1>1, <1>7, <1>8, <3>1 DEF QueueInv, QueueTypes
      <3> QED BY <2>4, <3>2 DEF Current
    <2>7. DriverControl'
      BY <1>9, <2>1 DEF DriverControl
    <2>8. CommandState'
      BY <1>1, <1>2, <1>13, <2>4, <2>6 DEF CommandState
    <2> QED BY <1>10, <1>11, <2>5, <2>7, <2>8, IOInvPartsNext
  <1> QED BY <1>14, <1>15

----------------------------------------------------------------------------
(* The induction. *)

LEMMA InitIOInv ==
    ASSUME Init PROVE IOInv
  <1>1. request_list \in [Slots -> Request] /\ \A s \in Slots : request_list[s].dev = -1
    BY NoRequestType DEF Init
  <1>2. queue = <<>> /\ work = <<>> /\ Queued = {} /\ Len(queue) = 0 /\ Len(work) = 0
    BY DEF Init, Queued
  <1>3. hd \in [cmd : {"none"}, phase : {"idle"}, lba : {0}, left : {0}, data : Values]
    BY DataAssumption DEF Init, HdIdle
  <1>4. ~InDrq /\ ~Active
    BY <1>3 DEF Init, InDrq, Active
  <1>5. TypeOK
    BY <1>1, <1>2, <1>3, DataAssumption DEF Init, TypeOK, Flag
  <1>6. QueueHoldsRequests /\ RequestFields
    BY <1>1, <1>2 DEF QueueHoldsRequests, RequestFields
  <1>7. LockedMeansQueued
    BY <1>2 DEF Init, LockedMeansQueued, Submitting
  <1>8. WorkOK
    <2>1. pc.main = "next" /\ Chained(work)
      BY <1>2 DEF Init, Chained
    <2> QED BY <1>2, <2>1 DEF WorkOK
  <1>9. DriverControl /\ CommandState
    BY <1>3, <1>4 DEF Init, DriverControl, CommandState
  <1> QED BY <1>5, <1>6, <1>7, <1>8, <1>9 DEF IOInv

LEMMA NextIOInv ==
    ASSUME IOInv, [Next]_vars PROVE IOInv'
  <1>1. CASE calls
    BY <1>1, CallsStep
  <1>2. CASE kmain_halt
    BY <1>2, HaltStep
  <1>3. CASE kmain_spin
    BY <1>3, StutterStep DEF kmain_spin
  <1>4. CASE main_steps
    BY <1>4, StepsStep, MoveStep, LockStep, RepeatAheadStep, RepeatFoundStep, DriverStep
       DEF main_steps
  <1>5. CASE irq_handler
    BY <1>5, InterruptStep
  <1>6. CASE do_hd_request("irq")
    BY <1>6, DriverStep
  <1>7. CASE controller
    BY <1>7, ControllerStep
  <1>8. CASE hd_abort
    BY <1>8, AbortStep
  <1>9. CASE UNCHANGED vars \/ do_hd_reentered
    BY <1>9, StutterStep DEF do_hd_reentered
  <1> QED BY <1>1, <1>2, <1>3, <1>4, <1>5, <1>6, <1>7, <1>8, <1>9 DEF Next

(* The block layer keeps its invariant, however its two contexts and the   *)
(* controller interleave: the queue, the locks, the calls under way and    *)
(* the command the controller executes agree in every reachable state.     *)
THEOREM Invariance == Spec => []IOInv
  <1>1. Init => IOInv
    BY InitIOInv
  <1>2. IOInv /\ [Next]_vars => IOInv'
    BY NextIOInv
  <1> QED BY <1>1, <1>2, PTL DEF Spec

(* The state keeps its types: no error counter reaches MAX_ERRORS in a     *)
(* queued request and no transfer leaves the two sectors of its buffer.    *)
THEOREM TypeCorrect == Spec => []TypeOK
  <1>1. IOInv => TypeOK
    BY DEF IOInv
  <1> QED BY <1>1, Invariance, PTL

(* The next pointers from current_request reach every request in use, once,*)
(* and none that end_request has freed.                                    *)
THEOREM QueueIsComplete == Spec => []QueueHoldsRequests
  <1>1. IOInv => QueueHoldsRequests
    BY DEF IOInv
  <1> QED BY <1>1, Invariance, PTL

(* A buffer is locked exactly while one request carries it, or while       *)
(* ll_rw_block looks for a request for it.                                 *)
THEOREM LocksAccounted == Spec => []LockedMeansQueued
  <1>1. IOInv => LockedMeansQueued
    BY DEF IOInv
  <1> QED BY <1>1, Invariance, PTL

(* lock_buff, which takes the lock without looking, only ever meets an     *)
(* unlocked buffer: every caller of ll_rw_block has waited for it.         *)
THEOREM LockIsFree == Spec => []NeverLockedTwice
  <1>1. IOInv => NeverLockedTwice
    BY DEF IOInv, WorkOK, NeverLockedTwice, NeedsUnlocked
  <1> QED BY <1>1, Invariance, PTL

(* Main runs do_hd_request with interrupts enabled.  No command is under   *)
(* way then, so that nothing but the interrupt of a WRITE refused before   *)
(* it asked for data can enter the driver a second time.                   *)
THEOREM OnlyAborts == Spec => []OnlyAbortReenters
  <1>1. IOInv => OnlyAbortReenters
    BY DEF IOInv, DriverControl, CommandState, OnlyAbortReenters
  <1> QED BY <1>1, Invariance, PTL

(* The handlers dereference current_request without a test; whenever an    *)
(* interrupt can arrive, or the polling loop of do_hd_request runs, there  *)
(* is a current request, of the kind the handler is for.                   *)
THEOREM HandlersHaveRequest == Spec => []CommandHasRequest
  <1>1. IOInv => CommandHasRequest
    <2> SUFFICES ASSUME IOInv, Active \/ InDrq PROVE
          /\ queue # <<>>
          /\ b_lock[Current.bh] = 1
          /\ ~InDrq => pc.irq = "idle"
          /\ handler = "read_intr" => Current.cmd = READ /\ hd.cmd = "READ"
          /\ handler = "write_intr" => Current.cmd = WRITE /\ hd.cmd = "WRITE"
          /\ InDrq => handler = "write_intr" /\ hd.phase \in {"wait", "abort"}
      BY DEF CommandHasRequest
    <2>1. QueueInv /\ DriverControl /\ CommandState
      BY IOInvParts
    <2>2. queue # <<>> /\ b_lock[Current.bh] = 1
      BY <2>1, CurrentFacts DEF CommandState
    <2>3. ~InDrq => pc.irq = "idle"
      BY <2>1 DEF DriverControl
    <2>4. InDrq => ~Active
      BY <2>1 DEF CommandState, Active
    <2> QED BY <2>1, <2>2, <2>3, <2>4 DEF CommandState
  <1> QED BY <1>1, Invariance, PTL

(* What a step may do to the queue: nothing, drop the current request, or   *)
(* add one request that is not put before the current one.                 *)
LEMMA QueueSteps ==
    ASSUME IOInv, Next
    PROVE  \/ queue' = queue
           \/ queue = <<>>
           \/ queue' = Tail(queue)
           \/ Head(queue') = Head(queue)
  <1>1. CASE calls \/ kmain_halt \/ kmain_spin
    BY <1>1 DEF calls, call_read_buff, call_read_buff_page, call_read_buff_ahead,
       call_create_block, call_put_buff, call_sync_dev, call_invalidate_buff,
       call_invalidate_buffs, call_modify, Call, modify, kmain_halt, kmain_spin, ioVars, vars
  <1>2. ASSUME NEW c \in {"main", "irq"}, do_hd_request(c)
        PROVE  queue' = queue \/ queue' = Tail(queue)
    BY <1>2 DEF do_hd_request, do_hd_idle, do_hd_reject, do_hd_reset, do_hd_recalibrate,
       do_hd_read, do_hd_write, drq_ready, drq_timeout, end_request, bad_rw_intr
  <1>3. CASE irq_handler
    BY <1>3 DEF irq_handler, intr_error, write_intr_abort, read_intr_more, read_intr_done, write_intr_more,
       write_intr_done, recal_intr_ok, end_request, bad_rw_intr
  <1>4. CASE controller \/ hd_abort \/ do_hd_reentered
    BY <1>4 DEF controller, hd_read, hd_write, hd_settle, hd_fail, hd_abort, hdUnchanged,
       do_hd_reentered, vars
  <1>5. CASE repeat_found
    <2>1. PICK s \in FreeSlots(rw) : add_request(s, NewRequest(bh, rw))
      BY <1>5 DEF repeat_found
    <2>2. s \in Slots
      <3>1. work # <<>> /\ work \in Seq(Steps)
        BY <1>5 DEF repeat_found, At, IOInv, TypeOK
      <3> QED BY <3>1, <2>1, WorkHead, NewRequestFacts DEF rw
    <2>3. queue = <<>> \/ \E i \in 1..Len(queue) : queue' = InsertBehind(i, s)
      BY <2>1 DEF add_request
    <2> QED BY <2>2, <2>3, InsertFacts DEF IOInv, TypeOK
  <1>6. CASE main_steps /\ ~repeat_found
    BY <1>2, <1>6 DEF main_steps, step_skip, step_cached, step_submit, step_wait, wait_spin,
       wait_end, step_drop, step_clear, step_hold, step_release, ll_rw_block, repeat_ahead, ioVars
  <1> QED BY <1>1, <1>2, <1>3, <1>4, <1>5, <1>6 DEF Next

(* add_request never puts a request before the one the driver works on,    *)
(* and the driver takes the requests in the order of the queue.            *)
THEOREM CurrentIsStable == Spec => CurrentStays
  <1> DEFINE A == queue # <<>> /\ queue' # <<>> /\ Head(queue') # Head(queue)
                     => queue' = Tail(queue)
  <1>1. IOInv /\ [Next]_vars => [A]_vars
    BY QueueSteps
  <1>2. CurrentStays <=> [][A]_vars
    BY DEF CurrentStays
  <1> HIDE DEF A
  <1> QED BY <1>1, <1>2, Invariance, PTL DEF Spec

----------------------------------------------------------------------------
(* The data.  A transfer under way goes between the half of the buffer and *)
(* the sector of the drive that the current request names; a half that has *)
(* been transferred agrees with the drive, unless the holder of the buffer *)
(* has changed it and marked it dirty.                                     *)

Agrees(b, h) == b_data[b][h] = disk[Home(b, h)]
Halfway ==
    \A s \in Queued :
        LET r == request_list[s]
        IN  r.buffer = 1 => InPartition(r.bh) /\ (b_dirt[r.bh] = 0 => Agrees(r.bh, 0))

Moving == InDrq \/ (Active /\ hd.cmd \in {"READ", "WRITE"})
Transfer ==
    Moving =>
        LET b == Current.bh
            h == Current.buffer
        IN  /\ InPartition(b)
            /\ hd.lba = IF hd.phase = "ok" THEN Home(b, h) + 1 ELSE Home(b, h)
            /\ Active /\ hd.cmd = "WRITE" /\ b_dirt[b] = 0 => hd.data = b_data[b][h]
            /\ hd.phase = "ok" => hd.data = disk[Home(b, h)]

(* A buffer that main is about to have read is not up to date. *)
Unread == pc.main = "repeat" /\ rw # WRITE => b_uptodate[bh] = 0

CopyInv == CleanCopy /\ Halfway /\ Transfer /\ Unread

LEMMA HomeFacts ==
    ASSUME NEW b \in Buffers, InPartition(b), NEW h \in Half
    PROVE  /\ Home(b, h) \in Sectors /\ Home(b, h) \in Nat
           /\ Home(b, 1) = Home(b, 0) + 1
  <1> DEFINE p == MINOR(b_dev[b])
             s == 2 * b_blocknr[b] + h
  <1>1. p \in Nat /\ b_blocknr[b] \in Nat /\ h \in {0, 1} /\ NR_HD \in Nat
    BY LayoutAssumption, SizeAssumption DEF MINOR, Half
  <1>2. p \in DOMAIN partition_info
    BY <1>1, LayoutAssumption DEF InPartition
  <1>3. /\ partition_info[p].start_sect \in Nat /\ partition_info[p].nr_sects \in Nat
        /\ 2 * b_blocknr[b] + 2 <= partition_info[p].nr_sects
    BY <1>2, LayoutAssumption DEF InPartition
  <1>4. s \in 0..(partition_info[p].nr_sects - 1)
    BY <1>1, <1>3
  <1>5. partition_info[p].start_sect + s \in Sectors
    BY <1>2, <1>4, LayoutAssumption
  <1>6. Home(b, h) = partition_info[p].start_sect + s
    BY <1>1, <1>3 DEF Home
  <1>7. Home(b, 1) = Home(b, 0) + 1
    BY <1>1, <1>3 DEF Home
  <1>8. Home(b, h) \in Nat
    BY <1>1, <1>3, <1>6
  <1> HIDE DEF s, p
  <1> QED BY <1>5, <1>6, <1>7, <1>8

(* The range check of do_hd_request accepts a sector of a block only if    *)
(* the whole block is in the partition.                                    *)
LEMMA AcceptedFacts ==
    ASSUME QueueInv, queue # <<>>, ~OutOfRange(Current)
    PROVE  /\ InPartition(Current.bh)
           /\ Addressed(Address(Current)) = Home(Current.bh, Current.buffer)
  <1>1. /\ Current \in Request /\ Current.bh \in Buffers
        /\ Current.dev = b_dev[Current.bh] /\ Current.dev \in Nat
        /\ Current.buffer \in {0, 1}
        /\ Current.sector = 2 * b_blocknr[Current.bh] + Current.buffer
    BY CurrentFacts DEF Request, Half
  <1>2. /\ MINOR(Current.dev) \in DOMAIN partition_info
        /\ Addressed(Address(Current)) = partition_info[MINOR(Current.dev)].start_sect + Current.sector
    BY <1>1, PartitionFacts
  <1>3. /\ b_blocknr[Current.bh] \in Nat /\ MINOR(Current.dev) \in Nat /\ NR_HD \in Nat
        /\ partition_info[MINOR(Current.dev)].nr_sects \in Nat
        /\ partition_info[MINOR(Current.dev)].start_sect \in Nat
    BY <1>1, <1>2, LayoutAssumption, SizeAssumption DEF MINOR
  <1>4. /\ MINOR(Current.dev) < 5 * NR_HD
        /\ Current.sector + 2 <= partition_info[MINOR(Current.dev)].nr_sects
    BY <1>1, <1>3 DEF OutOfRange, Request
  <1>5. InPartition(Current.bh)
    BY <1>1, <1>3, <1>4 DEF InPartition
  <1> QED BY <1>1, <1>2, <1>3, <1>5 DEF Home

(* Requests and their buffers: each has its own, which is locked. *)
LEMMA CarriedFacts ==
    ASSUME QueueInv, NEW s \in Queued
    PROVE  /\ request_list[s].bh \in Buffers /\ b_lock[request_list[s].bh] = 1
           /\ ~Submitting(request_list[s].bh)
           /\ queue # <<>>
           /\ s # Head(queue) => request_list[s].bh # Current.bh
  <1>1. s \in Slots /\ queue # <<>>
    BY DEF Queued, QueueInv, QueueTypes
  <1>2. request_list[s].bh \in Buffers
    BY <1>1 DEF QueueInv, QueueTypes, Request
  <1>3. b_lock[request_list[s].bh] = 1 /\ ~Submitting(request_list[s].bh)
    BY <1>2 DEF QueueInv, LockedMeansQueued
  <1>4. Head(queue) \in Queued /\ Current.bh \in Buffers
    BY <1>1, CurrentFacts
  <1>5. s # Head(queue) => request_list[s].bh # Current.bh
    BY <1>2, <1>4 DEF QueueInv, LockedMeansQueued, Current
  <1> QED BY <1>1, <1>2, <1>3, <1>5

LEMMA UnreadFrame ==
    ASSUME Unread, pc'.main = "repeat" => pc.main = "repeat" /\ work' = work,
           pc.main = "repeat" /\ b_uptodate[bh] = 0 => b_uptodate'[bh] = 0
    PROVE  Unread'
BY DEF Unread, rw, bh

(* Steps of main: the drive and the queue stay, and so does the data of    *)
(* each buffer that a request carries, unless it becomes dirty.            *)
LEMMA MainCopy ==
    ASSUME IOInv, CopyInv, UNCHANGED <<request_list, queue, hd, disk>>, ~InDrq', Unread',
           \A b \in Buffers : b_lock[b] = 1 /\ ~Submitting(b) =>
              \/ b_dirt'[b] = 1
              \/ b_dirt'[b] = b_dirt[b] /\ b_data'[b] = b_data[b],
           \A b \in Buffers : b_lock'[b] = 0 /\ b_uptodate'[b] = 1 /\ b_dirt'[b] = 0 =>
              /\ b_lock[b] = 0 /\ b_uptodate[b] = 1 /\ b_dirt[b] = 0
              /\ b_data'[b] = b_data[b]
    PROVE  CopyInv'
  <1>1. QueueInv /\ CommandState
    BY IOInvParts
  <1>2. Queued' = Queued /\ Current' = Current /\ Active' = Active
    BY DEF Queued, Current, Active
  <1>3. \A b \in Buffers, h \in Half : Agrees(b, h) /\ b_data'[b] = b_data[b] => Agrees(b, h)'
    BY DEF Agrees, Home
  <1>4. CleanCopy'
    BY DEF CopyInv, CleanCopy, InPartition, Home
  <1>5. Halfway'
    <2> SUFFICES ASSUME NEW s \in Queued, request_list[s].buffer = 1
                 PROVE  /\ InPartition(request_list[s].bh)
                        /\ b_dirt'[request_list[s].bh] = 0 => Agrees(request_list[s].bh, 0)'
      BY <1>2 DEF Halfway, InPartition
    <2>1. /\ InPartition(request_list[s].bh)
          /\ b_dirt[request_list[s].bh] = 0 => Agrees(request_list[s].bh, 0)
      BY DEF CopyInv, Halfway
    <2>2. request_list[s].bh \in Buffers /\ b_lock[request_list[s].bh] = 1
          /\ ~Submitting(request_list[s].bh)
      BY <1>1, CarriedFacts
    <2> QED BY <1>3, <2>1, <2>2 DEF Half
  <1>6. Transfer'
    <2> SUFFICES ASSUME Moving' PROVE Transfer'
      BY DEF Transfer
    <2>1. Moving /\ Active
      BY <1>2 DEF Moving
    <2>2. queue # <<>>
      BY <1>1, <2>1 DEF CommandState
    <2>3. Current.bh \in Buffers /\ b_lock[Current.bh] = 1 /\ ~Submitting(Current.bh)
      <3>1. Head(queue) \in Queued
        BY <1>1, <2>2, CurrentFacts
      <3> QED BY <1>1, <3>1, CarriedFacts DEF Current
    <2> QED BY <1>2, <2>1, <2>3 DEF CopyInv, Transfer, InPartition, Home
  <1> QED BY <1>4, <1>5, <1>6 DEF CopyInv

(* Steps of the driver that leave the data alone. *)
LEMMA DriverCopy ==
    ASSUME IOInv, CopyInv, UNCHANGED <<queue, b_lock, b_uptodate, b_dirt, b_data, disk, work>>,
           \A s \in Queued : request_list'[s].bh = request_list[s].bh
                          /\ request_list'[s].buffer = request_list[s].buffer,
           pc'.main = "repeat" => pc.main = "repeat", Transfer'
    PROVE  CopyInv'
  <1>1. Queued' = Queued
    BY DEF Queued
  <1>2. CleanCopy'
    BY DEF CopyInv, CleanCopy, InPartition, Home
  <1>3. Halfway'
    BY <1>1 DEF CopyInv, Halfway, InPartition, Agrees, Home
  <1>4. Unread'
    BY UnreadFrame DEF CopyInv
  <1> QED BY <1>2, <1>3, <1>4 DEF CopyInv

(* end_request: the buffer it unlocks is not up to date, or agrees with    *)
(* the drive; nobody else sees a change.                                   *)
LEMMA EndCopy ==
    ASSUME IOInv, CopyInv, queue # <<>>, NEW u \in Flag, end_request(u),
           UNCHANGED <<b_dirt, disk, work>>, pc'.main = "repeat" => pc.main = "repeat", ~Moving',
           \A b \in Buffers : b # Current.bh => b_data'[b] = b_data[b],
           u = 1 => /\ InPartition(Current.bh)
                    /\ b_dirt[Current.bh] = 0 =>
                          \A h \in Half : b_data'[Current.bh][h] = disk[Home(Current.bh, h)]
    PROVE  CopyInv'
  <1>1. QueueInv
    BY IOInvParts
  <1>2. Head(queue) \in Slots /\ Head(queue) \in Queued /\ Current.bh \in Buffers
    BY <1>1, CurrentFacts
  <1>3. /\ \A b \in Buffers : b_lock'[b] = IF b = Current.bh THEN 0 ELSE b_lock[b]
        /\ \A b \in Buffers : b_uptodate'[b] = IF b = Current.bh THEN u ELSE b_uptodate[b]
    BY <1>1, <1>2 DEF end_request, QueueInv, QueueTypes
  <1>4. \A s \in Queued' : s \in Queued /\ s # Head(queue) /\ request_list'[s] = request_list[s]
    <2>1. Queued' = Queued \ {Head(queue)}
      BY <1>1, DequeueFacts DEF QueueInv, QueueTypes, QueueHoldsRequests, end_request
    <2>2. Queued \subseteq Slots
      BY <1>1 DEF Queued, QueueInv, QueueTypes
    <2> QED BY <1>1, <2>1, <2>2 DEF end_request, QueueInv, QueueTypes
  <1>5. CleanCopy'
    <2> SUFFICES ASSUME NEW b \in Buffers, b_lock'[b] = 0, b_uptodate'[b] = 1, b_dirt[b] = 0
                 PROVE  InPartition(b) /\ \A h \in Half : b_data'[b][h] = disk[Home(b, h)]
      BY DEF CleanCopy, InPartition, Home
    <2>1. CASE b = Current.bh
      BY <1>3, <2>1
    <2>2. CASE b # Current.bh
      BY <1>3, <2>2 DEF CopyInv, CleanCopy
    <2> QED BY <2>1, <2>2
  <1>6. Halfway'
    <2> SUFFICES ASSUME NEW s \in Queued', request_list[s].buffer = 1
                 PROVE  /\ InPartition(request_list[s].bh)
                        /\ b_dirt[request_list[s].bh] = 0 =>
                              b_data'[request_list[s].bh][0] = disk[Home(request_list[s].bh, 0)]
      BY <1>4 DEF Halfway, InPartition, Agrees, Home
    <2>1. s \in Queued /\ request_list[s].bh \in Buffers /\ request_list[s].bh # Current.bh
      BY <1>1, <1>4, CarriedFacts
    <2>2. b_data'[request_list[s].bh] = b_data[request_list[s].bh]
      BY <2>1
    <2> QED BY <2>1, <2>2 DEF CopyInv, Halfway, Agrees, Home
  <1>7. Transfer'
    BY DEF Transfer
  <1>8. Unread'
    <2>1. pc.main = "repeat" => bh \in Buffers /\ Submitting(bh)
      <3>1. pc.main = "repeat" => work # <<>> /\ work \in Seq(Steps)
        BY DEF IOInv, WorkOK, TypeOK
      <3> QED BY <3>1, WorkHead DEF Submitting
    <2>2. pc.main = "repeat" => bh # Current.bh
      <3>1. ~Submitting(Current.bh)
        BY <1>1, <1>2, CarriedFacts DEF Current
      <3> QED BY <2>1, <3>1 DEF Submitting
    <2>3. pc.main = "repeat" /\ b_uptodate[bh] = 0 => b_uptodate'[bh] = 0
      BY <1>3, <2>1, <2>2
    <2> QED BY <2>3, UnreadFrame DEF CopyInv
  <1> QED BY <1>5, <1>6, <1>7, <1>8 DEF CopyInv

LEMMA BadRwCopy ==
    ASSUME IOInv, CopyInv, queue # <<>>, bad_rw_intr, UNCHANGED <<b_dirt, b_data, disk, work>>,
           pc'.main = "repeat" => pc.main = "repeat", ~Moving'
    PROVE  CopyInv'
  <1>1. CASE Current.errors + 1 >= MAX_ERRORS
    <2>1. end_request(0)
      BY <1>1 DEF bad_rw_intr
    <2> QED BY <2>1, EndCopy DEF Flag
  <1>2. CASE ~(Current.errors + 1 >= MAX_ERRORS)
    <2>1. /\ request_list' = [request_list EXCEPT ![Head(queue)].errors = @ + 1]
          /\ UNCHANGED <<b_uptodate, b_lock, queue>>
      BY <1>2 DEF bad_rw_intr
    <2>2. Queued \subseteq Slots /\ request_list \in [Slots -> Request]
      BY DEF Queued, IOInv, TypeOK
    <2>3. \A s \in Queued : request_list'[s].bh = request_list[s].bh
                          /\ request_list'[s].buffer = request_list[s].buffer
      BY <2>1, <2>2 DEF Request
    <2>4. Transfer'
      BY DEF Transfer
    <2> QED BY <2>1, <2>3, <2>4, DriverCopy
  <1> QED BY <1>1, <1>2

(* do_hd_request, in either context. *)
LEMMA DriverStepCopy ==
    ASSUME IOInv, CopyInv, IOInv', NEW c \in {"main", "irq"}, do_hd_request(c) PROVE CopyInv'
  <1>1. QueueInv /\ RestTypes /\ WorkOK /\ CommandState
    BY IOInvParts
  <1>2. CASE do_hd_idle(c) \/ do_hd_reset(c) \/ do_hd_recalibrate(c)
    <2>1. /\ Driving(c, "do_hd") /\ Return(c)
          /\ UNCHANGED <<request_list, queue, b_lock, b_uptodate, b_dirt, b_data, disk, work>>
      BY <1>2 DEF do_hd_idle, do_hd_reset, do_hd_recalibrate, Accepts, bufVars
    <2>2. ~InDrq' /\ (pc'.main = "repeat" => pc.main = "repeat")
      BY <1>1, <2>1, ReturnFacts DEF Return, RestTypes
    <2>3. ~Active' \/ hd'.cmd \in {"SPECIFY", "RESTORE"}
      <3>1. hd.phase \in {"idle", "wait", "abort"}
        BY <2>1, DrivingFacts
      <3> QED BY <1>2, <3>1 DEF do_hd_idle, do_hd_reset, do_hd_recalibrate, hd_out, Active
    <2>4. Transfer'
      BY <2>2, <2>3 DEF Transfer, Moving
    <2> QED BY <2>1, <2>2, <2>4, DriverCopy
  <1>3. CASE do_hd_reject(c)
    <2>1. /\ Driving(c, "do_hd") /\ queue # <<>> /\ end_request(0)
          /\ UNCHANGED <<b_dirt, b_data, hd, disk, work, pc>>
      BY <1>3 DEF do_hd_reject
    <2>2. ~Moving'
      BY <1>1, <2>1, DrivingFacts DEF Moving, Active, InDrq, RestTypes, IOInv, DriverControl
    <2> QED BY <2>1, <2>2, EndCopy DEF Flag
  <1>4. CASE do_hd_read(c) \/ do_hd_write(c)
    <2>1. /\ Driving(c, "do_hd") /\ queue # <<>> /\ ~OutOfRange(Current)
          /\ UNCHANGED <<request_list, queue, b_lock, b_uptodate, b_dirt, b_data, disk, work>>
      BY <1>4 DEF do_hd_read, do_hd_write, Accepts, bufVars
    <2>2. pc'.main = "repeat" => pc.main = "repeat"
      BY <1>1, <1>4 DEF do_hd_read, do_hd_write, Return, Goto, RestTypes
    <2>3. InPartition(Current.bh) /\ Addressed(Address(Current)) = Home(Current.bh, Current.buffer)
      BY <1>1, <2>1, AcceptedFacts
    <2>4. /\ hd'.lba = Addressed(Address(Current))
          /\ \/ hd'.cmd = "READ" /\ hd'.phase = "busy"
             \/ hd'.cmd = "WRITE" /\ hd'.phase = "wait"
      BY <1>4 DEF do_hd_read, do_hd_write, hd_out
    <2>5. Current' = Current
      BY <2>1 DEF Current
    <2>6. Transfer'
      BY <2>3, <2>4, <2>5 DEF Transfer, InPartition, Home, Active
    <2> QED BY <2>1, <2>2, <2>6, DriverCopy
  <1>5. CASE drq_ready(c)
    <2>1. /\ Driving(c, "drq") /\ Return(c) /\ port_write(Current.buffer) /\ hd.phase = "wait"
          /\ UNCHANGED <<request_list, queue, b_lock, b_uptodate, b_dirt, b_data, disk, work>>
      BY <1>5 DEF drq_ready, bufVars
    <2>2. InDrq
      BY <1>1, <2>1 DEF Driving, InDrq, RestTypes
    <2>3. queue # <<>> /\ hd.phase = "wait" /\ hd.left = Current.nr_sectors
      BY <1>1, <2>1, <2>2 DEF CommandState
    <2>4. Current.nr_sectors \in {1, 2}
      BY <1>1, <2>3, CurrentFacts
    <2>5. hd' = [hd EXCEPT !.phase = "busy", !.data = b_data[Current.bh][Current.buffer]]
      BY <2>1, <2>3, <2>4 DEF port_write
    <2>6. hd'.phase = "busy" /\ hd'.lba = hd.lba /\ hd'.data = b_data[Current.bh][Current.buffer]
      BY <1>1, <2>5 DEF RestTypes
    <2>7. Current' = Current
      BY <2>1 DEF Current
    <2>8. Transfer'
      BY <2>1, <2>2, <2>3, <2>6, <2>7 DEF CopyInv, Transfer, Moving, InPartition, Home
    <2>9. pc'.main = "repeat" => pc.main = "repeat"
      BY <1>1, <2>1 DEF Return, RestTypes
    <2> QED BY <2>1, <2>8, <2>9, DriverCopy
  <1>6. CASE drq_timeout(c)
    <2>1. /\ Driving(c, "drq") /\ Goto(c, "do_hd") /\ bad_rw_intr
          /\ hd' = hd \/ hd' = HdIdle
          /\ UNCHANGED <<b_dirt, b_data, disk, work>>
      BY <1>6 DEF drq_timeout
    <2>2. queue # <<>>
      BY <1>1, <2>1 DEF Driving, InDrq, RestTypes, CommandState
    <2>3. hd'.phase \in {"idle", "wait", "abort"}
      BY <2>1, DrivingFacts, HdIdleType
    <2>4. ~InDrq' /\ ~Active'
      BY <2>1, <2>3, GotoFacts DEF Active
    <2>5. ~Moving' /\ (pc'.main = "repeat" => pc.main = "repeat")
      BY <1>1, <2>1, <2>4 DEF Moving, Goto, RestTypes
    <2> QED BY <2>1, <2>2, <2>5, BadRwCopy
  <1> QED BY <1>2, <1>3, <1>4, <1>5, <1>6 DEF do_hd_request

(* The first sector of the current request is done. *)
LEMMA AdvanceCopy ==
    ASSUME IOInv, CopyInv, queue # <<>>, NEW e,
           request_list' = [request_list EXCEPT ![Head(queue)] = Advanced(Current, e)],
           UNCHANGED <<queue, b_lock, b_uptodate, b_dirt, disk, work, pc>>,
           \A b \in Buffers : b # Current.bh => b_data'[b] = b_data[b],
           InPartition(Current.bh),
           b_dirt[Current.bh] = 0 => b_data'[Current.bh][0] = disk[Home(Current.bh, 0)],
           Transfer'
    PROVE  CopyInv'
  <1>1. QueueInv
    BY IOInvParts
  <1>2. Head(queue) \in Slots /\ Head(queue) \in Queued /\ Current.bh \in Buffers
        /\ b_lock[Current.bh] = 1
    BY <1>1, CurrentFacts
  <1>3. Queued' = Queued /\ Queued \subseteq Slots
    BY <1>1 DEF Queued, QueueInv, QueueTypes
  <1>4. \A s \in Queued : request_list'[s] = IF s = Head(queue) THEN Advanced(Current, e)
                                             ELSE request_list[s]
    BY <1>1, <1>3 DEF QueueInv, QueueTypes
  <1>5. CleanCopy'
    BY <1>2 DEF CopyInv, CleanCopy, InPartition, Home
  <1>6. Halfway'
    <2> SUFFICES ASSUME NEW s \in Queued, request_list'[s].buffer = 1
                 PROVE  /\ InPartition(request_list'[s].bh)
                        /\ b_dirt[request_list'[s].bh] = 0 =>
                              b_data'[request_list'[s].bh][0] = disk[Home(request_list'[s].bh, 0)]
      BY <1>3 DEF Halfway, InPartition, Agrees, Home
    <2>1. CASE s = Head(queue)
      BY <1>4, <2>1 DEF Advanced
    <2>2. CASE s # Head(queue)
      <3>1. request_list'[s] = request_list[s] /\ request_list[s].bh \in Buffers
            /\ request_list[s].bh # Current.bh
        BY <1>1, <1>4, <2>2, CarriedFacts
      <3> QED BY <3>1 DEF CopyInv, Halfway, Agrees
    <2> QED BY <2>1, <2>2
  <1>7. Unread'
    BY UnreadFrame DEF CopyInv
  <1> QED BY <1>5, <1>6, <1>7 DEF CopyInv

(* What an interrupt after a sector finds. *)
LEMMA SectorFacts ==
    ASSUME IOInv, CopyInv, NEW r \in {"read_intr", "write_intr"}, Interrupt(r), hd.phase = "ok"
    PROVE  /\ queue # <<>> /\ Current.bh \in Buffers /\ Current.buffer = 2 - Current.nr_sectors
           /\ Current.nr_sectors \in {1, 2}
           /\ hd.left = Current.nr_sectors - 1
           /\ hd.cmd = IF r = "read_intr" THEN "READ" ELSE "WRITE"
           /\ InPartition(Current.bh)
           /\ hd.lba = Home(Current.bh, Current.buffer) + 1
           /\ hd.data = disk[Home(Current.bh, Current.buffer)]
           /\ r = "write_intr" /\ b_dirt[Current.bh] = 0 =>
                 hd.data = b_data[Current.bh][Current.buffer]
           /\ Current.buffer = 1 /\ b_dirt[Current.bh] = 0 =>
                 b_data[Current.bh][0] = disk[Home(Current.bh, 0)]
           /\ b_data \in [Buffers -> [Half -> Values]]
           /\ hd = [cmd |-> hd.cmd, phase |-> hd.phase, lba |-> hd.lba, left |-> hd.left,
                    data |-> hd.data]
  <1>1. QueueInv /\ RestTypes /\ CommandState
    BY IOInvParts
  <1>2. queue # <<>> /\ Active /\ handler = r
    BY InterruptFacts
  <1>3. /\ Head(queue) \in Queued /\ Current.bh \in Buffers
        /\ Current.buffer = 2 - Current.nr_sectors /\ Current.nr_sectors \in {1, 2}
    BY <1>1, <1>2, CurrentFacts
  <1>4. hd.left = Current.nr_sectors - 1 /\ hd.cmd = IF r = "read_intr" THEN "READ" ELSE "WRITE"
    BY <1>1, <1>2 DEF CommandState
  <1>5. Moving
    BY <1>2, <1>4 DEF Moving
  <1>6. Current.buffer = 1 /\ b_dirt[Current.bh] = 0 =>
            b_data[Current.bh][0] = disk[Home(Current.bh, 0)]
    BY <1>3 DEF CopyInv, Halfway, Agrees, Current
  <1>7. /\ InPartition(Current.bh)
        /\ hd.lba = Home(Current.bh, Current.buffer) + 1
        /\ hd.data = disk[Home(Current.bh, Current.buffer)]
        /\ hd.cmd = "WRITE" /\ b_dirt[Current.bh] = 0 =>
                 hd.data = b_data[Current.bh][Current.buffer]
    BY <1>2, <1>5 DEF CopyInv, Transfer
  <1> QED BY <1>1, <1>2, <1>3, <1>4, <1>6, <1>7 DEF RestTypes

LEMMA MoreCopy ==
    ASSUME IOInv, CopyInv, read_intr_more \/ write_intr_more PROVE CopyInv'
  <1>1. PICK r \in {"read_intr", "write_intr"} :
            /\ Interrupt(r)
            /\ r = "read_intr" => read_intr_more
            /\ r = "write_intr" => write_intr_more
    BY DEF read_intr_more, write_intr_more
  <1>2. /\ hd.phase = "ok" /\ Current.nr_sectors # 1
        /\ UNCHANGED <<queue, b_lock, b_uptodate, b_dirt, disk, work, pc>>
        /\ \E e : request_list' = [request_list EXCEPT ![Head(queue)] = Advanced(Current, e)]
    BY <1>1 DEF read_intr_more, write_intr_more, bufVars
  <1>3. PICK e : request_list' = [request_list EXCEPT ![Head(queue)] = Advanced(Current, e)]
    BY <1>2
  <1> DEFINE b == Current.bh
  <1>4. /\ queue # <<>> /\ b \in Buffers /\ Current.buffer = 0 /\ hd.left = 1
        /\ InPartition(b) /\ hd.lba = Home(b, 0) + 1 /\ hd.data = disk[Home(b, 0)]
        /\ r = "write_intr" /\ b_dirt[b] = 0 => hd.data = b_data[b][0]
        /\ b_data \in [Buffers -> [Half -> Values]]
    BY <1>1, <1>2, SectorFacts
  <1>5. hd' = [cmd |-> hd.cmd, phase |-> "busy", lba |-> hd.lba, left |-> hd.left,
               data |-> IF r = "read_intr" THEN Zero ELSE b_data[b][1]]
    <2>1. hd = [cmd |-> hd.cmd, phase |-> hd.phase, lba |-> hd.lba, left |-> hd.left,
                data |-> hd.data]
      BY <1>1, <1>2, SectorFacts
    <2>2. CASE r = "read_intr"
      <3>1. hd' = [hd EXCEPT !.phase = "busy", !.data = Zero]
        BY <1>1, <1>4, <2>2 DEF read_intr_more, port_read
      <3> QED BY <2>1, <2>2, <3>1
    <2>3. CASE r = "write_intr"
      <3>1. hd' = [hd EXCEPT !.phase = "busy", !.data = b_data[Current.bh][Current.buffer + 1]]
        BY <1>1, <1>4, <2>3 DEF write_intr_more, port_write
      <3>2. Current.buffer + 1 = 1
        BY <1>4
      <3> QED BY <2>1, <2>3, <3>1, <3>2
    <2> QED BY <2>2, <2>3
  <1>6. /\ r = "read_intr" => b_data' = [b_data EXCEPT ![b][0] = hd.data]
        /\ r = "write_intr" => b_data' = b_data
    BY <1>1, <1>4 DEF read_intr_more, write_intr_more, port_read, bufVars
  <1>7. /\ \A a \in Buffers : a # b => b_data'[a] = b_data[a]
        /\ b_dirt[b] = 0 => b_data'[b][0] = disk[Home(b, 0)]
    BY <1>1, <1>4, <1>6 DEF Half
  <1>8. Current' = Advanced(Current, e)
    <2>1. Head(queue) \in Slots /\ request_list \in [Slots -> Request]
      BY <1>4, CurrentFacts, IOInvParts DEF QueueInv, QueueTypes
    <2> QED BY <1>2, <1>3, <2>1 DEF Current
  <1>9. Transfer'
    <2>1. Current'.bh = b /\ Current'.buffer = 1
      BY <1>4, <1>8 DEF Advanced
    <2>2. Home(b, 1) = Home(b, 0) + 1
      BY <1>4, HomeFacts DEF Half
    <2>3. r = "write_intr" => b_data' = b_data
      BY <1>6
    <2>4. hd.cmd = IF r = "read_intr" THEN "READ" ELSE "WRITE"
      BY <1>1, <1>2, SectorFacts
    <2>5. /\ hd'.phase = "busy" /\ hd'.lba = hd.lba /\ hd'.cmd = hd.cmd
          /\ hd'.data = IF r = "read_intr" THEN Zero ELSE b_data[b][1]
      BY <1>5
    <2> HIDE DEF b
    <2> QED BY <1>4, <2>1, <2>2, <2>3, <2>4, <2>5 DEF Transfer, InPartition, Home
  <1> QED BY <1>2, <1>3, <1>4, <1>7, <1>9, AdvanceCopy

LEMMA DoneCopy ==
    ASSUME IOInv, CopyInv, IOInv', read_intr_done \/ write_intr_done PROVE CopyInv'
  <1>1. PICK r \in {"read_intr", "write_intr"} :
            /\ Interrupt(r)
            /\ r = "read_intr" => read_intr_done
            /\ r = "write_intr" => write_intr_done
    BY DEF read_intr_done, write_intr_done
  <1>2. /\ hd.phase = "ok" /\ Current.nr_sectors = 1 /\ end_request(1) /\ Goto("irq", "do_hd")
        /\ UNCHANGED <<b_dirt, disk, work>>
    BY <1>1 DEF read_intr_done, write_intr_done
  <1> DEFINE b == Current.bh
  <1>3. /\ queue # <<>> /\ b \in Buffers /\ Current.buffer = 1 /\ hd.left = 0
        /\ InPartition(b) /\ hd.data = disk[Home(b, 1)]
        /\ r = "write_intr" /\ b_dirt[b] = 0 => hd.data = b_data[b][1]
        /\ b_dirt[b] = 0 => b_data[b][0] = disk[Home(b, 0)]
        /\ b_data \in [Buffers -> [Half -> Values]]
    BY <1>1, <1>2, SectorFacts
  <1>4. /\ r = "read_intr" => b_data' = [b_data EXCEPT ![b][1] = hd.data]
        /\ r = "write_intr" => b_data' = b_data
    BY <1>1, <1>3 DEF read_intr_done, write_intr_done, port_read
  <1>5. /\ \A a \in Buffers : a # b => b_data'[a] = b_data[a]
        /\ b_dirt[b] = 0 => \A h \in Half : b_data'[b][h] = disk[Home(b, h)]
    BY <1>1, <1>3, <1>4 DEF Half
  <1>6. hd' = HdIdle
    BY <1>1, <1>3 DEF read_intr_done, write_intr_done, port_read
  <1>7. /\ pc'.main = pc.main /\ pc'.irq = "do_hd" /\ pc.main \notin {"do_hd", "drq"}
        /\ DOMAIN pc' = DOMAIN pc /\ DOMAIN pc = {"main", "irq"}
    BY <1>1, <1>2, InterruptFacts DEF Goto, IOInv, TypeOK
  <1>8. ~Moving'
    BY <1>6, <1>7, HdIdleType DEF Moving, Active, InDrq
  <1> QED BY <1>2, <1>3, <1>5, <1>7, <1>8, EndCopy DEF Flag

LEMMA InterruptCopy ==
    ASSUME IOInv, CopyInv, IOInv', irq_handler PROVE CopyInv'
  <1>1. CASE \E r \in {"read_intr", "write_intr", "recal_intr"} : intr_error(r)
    <2>1. PICK r : intr_error(r)
      BY <1>1
    <2>2. /\ Interrupt(r) /\ hd' = HdIdle /\ bad_rw_intr /\ Goto("irq", "do_hd")
          /\ hd.phase = "err"
          /\ UNCHANGED <<b_dirt, b_data, disk, work>>
      BY <2>1 DEF intr_error
    <2>3. /\ queue # <<>> /\ pc'.main = pc.main /\ pc'.irq = "do_hd"
          /\ pc.main \notin {"do_hd", "drq"}
          /\ DOMAIN pc' = DOMAIN pc /\ DOMAIN pc = {"main", "irq"}
      BY <2>2, InterruptFacts DEF Goto, IOInv, TypeOK
    <2>4. ~Moving'
      BY <2>2, <2>3, HdIdleType DEF Moving, Active, InDrq
    <2> QED BY <2>2, <2>3, <2>4, BadRwCopy
  <1>2. CASE recal_intr_ok
    <2>1. /\ Interrupt("recal_intr") /\ hd' = HdIdle /\ Goto("irq", "do_hd")
          /\ hd.phase = "ok"
          /\ UNCHANGED <<request_list, queue, b_lock, b_uptodate, b_dirt, b_data, disk, work>>
      BY <1>2 DEF recal_intr_ok, bufVars
    <2>2. /\ pc'.main = pc.main /\ pc'.irq = "do_hd"
          /\ pc.main \notin {"do_hd", "drq"}
          /\ DOMAIN pc' = DOMAIN pc /\ DOMAIN pc = {"main", "irq"}
      BY <2>1, InterruptFacts DEF Goto, IOInv, TypeOK
    <2>3. Transfer'
      BY <2>1, <2>2, HdIdleType DEF Transfer, Moving, Active, InDrq
    <2> QED BY <2>1, <2>2, <2>3, DriverCopy
  <1>3. CASE write_intr_abort
    <2>1. /\ hd' = HdIdle /\ Enters
          /\ UNCHANGED <<b_dirt, b_data, disk, work>>
          /\ \/ queue # <<>> /\ bad_rw_intr
             \/ UNCHANGED <<request_list, queue, b_lock, b_uptodate>>
      BY <1>3 DEF write_intr_abort, Enters
    <2>2. ~Moving'
      BY <2>1, HdIdleType DEF Enters, Moving, Active, InDrq
    <2>3. pc'.main = "repeat" => pc.main = "repeat"
      BY <2>1 DEF Enters
    <2>4. Transfer'
      BY <2>2 DEF Transfer
    <2>5. CASE queue # <<>> /\ bad_rw_intr
      BY <2>1, <2>2, <2>3, <2>5, BadRwCopy
    <2>6. CASE UNCHANGED <<request_list, queue, b_lock, b_uptodate>>
      BY <2>1, <2>3, <2>4, <2>6, DriverCopy
    <2> QED BY <2>1, <2>5, <2>6
  <1> QED BY <1>1, <1>2, <1>3, MoreCopy, DoneCopy DEF irq_handler

(* The controller writes to the sector of the current request only, which  *)
(* belongs to no other buffer.                                             *)
LEMMA ControllerCopy ==
    ASSUME IOInv, CopyInv, controller PROVE CopyInv'
  <1>1. QueueInv /\ RestTypes /\ CommandState
    BY IOInvParts
  <1>2. /\ hd.phase = "busy"
        /\ UNCHANGED <<request_list, queue, b_lock, b_uptodate, b_dirt, b_data, work, pc>>
    BY DEF controller, hd_read, hd_write, hd_settle, hd_fail, hdUnchanged, bufVars
  <1>3. Queued' = Queued /\ Current' = Current /\ InDrq' = InDrq /\ Active /\ ~InDrq
    BY <1>1, <1>2 DEF Queued, Current, InDrq, Active, CommandState
  <1> DEFINE b == Current.bh
             h == Current.buffer
             at == Home(b, h)
  <1>4. /\ queue # <<>> /\ Head(queue) \in Queued /\ b \in Buffers /\ h \in Half
        /\ b_lock[b] = 1
    BY <1>1, <1>3, CurrentFacts DEF CommandState, Request
  <1>5. hd.cmd \in {"READ", "WRITE"} =>
            /\ Moving /\ InPartition(b) /\ hd.lba = at
            /\ hd.cmd = "WRITE" /\ b_dirt[b] = 0 => hd.data = b_data[b][h]
    BY <1>2, <1>3 DEF Moving, CopyInv, Transfer
  <1>6. \/ UNCHANGED disk
        \/ hd.cmd = "WRITE" /\ disk' = [disk EXCEPT ![at] = hd.data]
    BY <1>2, <1>5 DEF controller, hd_read, hd_write, hd_settle, hd_fail
  <1>7. \A a \in Buffers, g \in Half :
            InPartition(a) /\ (a # b \/ g # h) => disk'[Home(a, g)] = disk[Home(a, g)]
    <2> SUFFICES ASSUME NEW a \in Buffers, NEW g \in Half, InPartition(a), a # b \/ g # h,
                        hd.cmd = "WRITE", disk' = [disk EXCEPT ![at] = hd.data]
                 PROVE  disk'[Home(a, g)] = disk[Home(a, g)]
      BY <1>6
    <2>1. Home(a, g) # at
      BY <1>4, <1>5, DistinctAssumption
    <2> HIDE DEF at
    <2> QED BY <1>1, <2>1 DEF RestTypes
  <1>8. CleanCopy'
    <2> SUFFICES ASSUME NEW a \in Buffers, b_lock[a] = 0, b_uptodate[a] = 1, b_dirt[a] = 0
                 PROVE  InPartition(a) /\ \A g \in Half : b_data[a][g] = disk'[Home(a, g)]
      BY <1>2 DEF CleanCopy, InPartition, Home
    <2>1. InPartition(a) /\ \A g \in Half : b_data[a][g] = disk[Home(a, g)]
      BY DEF CopyInv, CleanCopy
    <2>2. a # b
      BY <1>4
    <2> HIDE DEF b, h
    <2> QED BY <1>7, <2>1, <2>2
  <1>9. Halfway'
    <2> SUFFICES ASSUME NEW s \in Queued, request_list[s].buffer = 1
                 PROVE  /\ InPartition(request_list[s].bh)
                        /\ b_dirt[request_list[s].bh] = 0 =>
                              b_data[request_list[s].bh][0] = disk'[Home(request_list[s].bh, 0)]
      BY <1>2, <1>3 DEF Halfway, InPartition, Agrees, Home
    <2>1. /\ InPartition(request_list[s].bh)
          /\ b_dirt[request_list[s].bh] = 0 =>
                 b_data[request_list[s].bh][0] = disk[Home(request_list[s].bh, 0)]
      BY DEF CopyInv, Halfway, Agrees
    <2>2. request_list[s].bh \in Buffers
      BY <1>1, CarriedFacts
    <2>3. request_list[s].bh # b \/ 0 # h
      BY <1>1, CarriedFacts DEF Current
    <2> HIDE DEF b, h
    <2> QED BY <1>7, <2>1, <2>2, <2>3 DEF Half
  <1>10. Transfer'
    <2> SUFFICES ASSUME Moving' PROVE Transfer'
      BY DEF Transfer
    <2>1. /\ hd'.cmd = hd.cmd /\ hd.cmd \in {"READ", "WRITE"} /\ hd'.phase \in {"ok", "err"}
      <3>1. hd'.cmd = hd.cmd /\ hd'.phase \in {"ok", "err"}
        BY <1>1 DEF controller, hd_read, hd_write, hd_settle, hd_fail, RestTypes
      <3> QED BY <1>3, <3>1 DEF Moving
    <2>2. InPartition(b) /\ hd.lba = at /\ at \in Sectors /\ at \in Nat
      BY <1>4, <1>5, <2>1, HomeFacts
    <2>3. /\ hd'.lba = IF hd'.phase = "ok" THEN at + 1 ELSE at
          /\ hd'.cmd = "WRITE" => hd'.data = hd.data
          /\ hd'.phase = "ok" => hd'.data = disk'[at]
      <3> HIDE DEF b, h, at
      <3>1. CASE hd_read
        BY <2>2, <3>1 DEF hd_read
      <3>2. CASE hd_write
        BY <1>1, <2>2, <3>2 DEF hd_write, RestTypes
      <3>3. CASE hd_fail
        BY <1>1, <2>2, <3>3 DEF hd_fail, RestTypes
      <3> QED BY <2>1, <3>1, <3>2, <3>3 DEF controller, hd_settle
    <2>4. hd'.cmd = "WRITE" /\ b_dirt[b] = 0 => hd'.data = b_data[b][h]
      BY <1>5, <2>1, <2>3
    <2>5. Current'.bh = b /\ Current'.buffer = h /\ b_dirt' = b_dirt /\ b_data' = b_data
      BY <1>2, <1>3
    <2>6. InPartition(b)' /\ Home(b, h)' = at
      BY <1>3, <2>2 DEF InPartition, Home
    <2> QED BY <2>2, <2>3, <2>4, <2>5, <2>6 DEF Transfer, InPartition, Home
  <1>11. Unread'
    BY <1>2, UnreadFrame DEF CopyInv
  <1> QED BY <1>8, <1>9, <1>10, <1>11 DEF CopyInv

(* Main outside the driver. *)
LEMMA QuietCopy ==
    ASSUME IOInv, CopyInv, IOInv', UNCHANGED <<request_list, queue, hd, disk, bufVars>>,
           pc.irq = "idle", pc'.irq = "idle", pc'.main \in {"next", "wait", "ll_rw", "halt"}
    PROVE  CopyInv'
  <1>1. ~InDrq' /\ Unread'
    BY DEF InDrq, Unread, IOInv, TypeOK
  <1> QED BY <1>1, MainCopy DEF bufVars

LEMMA CallsCopy ==
    ASSUME IOInv, CopyInv, IOInv', calls PROVE CopyInv'
  <1>1. /\ UNCHANGED <<request_list, queue, hd, disk, pc, b_lock, b_uptodate>>
        /\ pc.irq = "idle" /\ pc.main = "next"
    BY DEF calls, call_read_buff, call_read_buff_page, call_read_buff_ahead,
       call_create_block, call_put_buff, call_sync_dev, call_invalidate_buff,
       call_invalidate_buffs, call_modify, Call, modify, ioVars, AtRest, Running, bufVars
  <1>2. CASE UNCHANGED bufVars
    BY <1>1, <1>2, QuietCopy
  <1>3. CASE call_modify
    <2>1. PICK b \in Buffers, h \in Half, v \in Values : modify(b, h, v)
      BY <1>3 DEF call_modify
    <2>2. /\ b_data' = [b_data EXCEPT ![b][h] = v] /\ b_dirt' = [b_dirt EXCEPT ![b] = 1]
          /\ b_data \in [Buffers -> [Half -> Values]] /\ b_dirt \in [Buffers -> Flag]
      BY <2>1 DEF modify, IOInv, TypeOK
    <2>3. \A a \in Buffers : IF a = b THEN b_dirt'[a] = 1
                             ELSE b_dirt'[a] = b_dirt[a] /\ b_data'[a] = b_data[a]
      BY <2>2
    <2>4. ~InDrq' /\ Unread'
      BY <1>1 DEF InDrq, Unread, IOInv, TypeOK
    <2> QED BY <1>1, <2>3, <2>4, MainCopy
  <1>4. UNCHANGED bufVars \/ call_modify
    BY DEF calls, call_read_buff, call_read_buff_page, call_read_buff_ahead,
       call_create_block, call_put_buff, call_sync_dev, call_invalidate_buff,
       call_invalidate_buffs, Call
  <1> QED BY <1>2, <1>3, <1>4

(* step_drop and step_clear touch a buffer that main has waited for.       *)
LEMMA StepsCopy ==
    ASSUME IOInv, CopyInv, IOInv',
           \/ step_skip \/ step_cached \/ step_submit \/ step_wait \/ wait_spin \/ wait_end
           \/ step_drop \/ step_clear \/ step_hold \/ step_release
    PROVE  CopyInv'
  <1>1. /\ work # <<>> /\ work \in Seq(Steps) /\ pc.irq = "idle" /\ pc'.irq = "idle"
        /\ pc.main \in {"next", "wait"} /\ pc'.main \in {"next", "wait", "ll_rw"}
        /\ UNCHANGED <<request_list, queue, hd, disk, b_lock>>
    BY DEF step_skip, step_cached, step_submit, step_wait, wait_spin, wait_end, step_drop,
       step_clear, step_hold, step_release, Do, At, Running, Goto, ioVars, bufVars, IOInv, TypeOK
  <1>2. CASE UNCHANGED bufVars
    BY <1>1, <1>2, QuietCopy
  <1>3. CASE step_drop \/ step_clear
    <2>1. bh \in Buffers /\ b_lock[bh] = 0
      <3>1. bh \in Buffers
        BY <1>1, WorkHead
      <3>2. Head(work).op \in NeedsUnlocked /\ pc.main = "next"
        BY <1>3 DEF step_drop, step_clear, Do, At, NeedsUnlocked
      <3> QED BY <1>1, <3>1, <3>2 DEF IOInv, WorkOK
    <2>2. /\ b_data \in [Buffers -> [Half -> Values]] /\ b_dirt \in [Buffers -> Flag]
          /\ b_uptodate \in [Buffers -> Flag]
      BY DEF IOInv, TypeOK
    <2>3. \A a \in Buffers :
            IF a = bh THEN b_uptodate'[a] = 0 \/ b_dirt'[a] = 1
            ELSE /\ b_dirt'[a] = b_dirt[a] /\ b_data'[a] = b_data[a]
                 /\ b_uptodate'[a] = b_uptodate[a]
      <3>1. CASE step_drop
        BY <2>1, <2>2, <3>1 DEF step_drop
      <3>2. CASE step_clear
        BY <2>1, <2>2, <3>2 DEF step_clear
      <3> QED BY <1>3, <3>1, <3>2
    <2>4. ~InDrq' /\ Unread'
      BY <1>1 DEF InDrq, Unread, IOInv, TypeOK
    <2> QED BY <1>1, <2>1, <2>3, <2>4, MainCopy
  <1>4. UNCHANGED bufVars \/ step_drop \/ step_clear
    BY DEF step_skip, step_cached, step_submit, step_wait, wait_spin, wait_end, step_hold,
       step_release
  <1> QED BY <1>2, <1>3, <1>4

LEMMA LockCopy ==
    ASSUME IOInv, CopyInv, IOInv', ll_rw_block \/ repeat_ahead PROVE CopyInv'
  <1>1. /\ work # <<>> /\ work \in Seq(Steps) /\ pc.irq = "idle" /\ pc'.irq = "idle"
        /\ UNCHANGED <<request_list, queue, hd, disk, b_uptodate, b_dirt, b_data>>
        /\ b_lock \in [Buffers -> Flag] /\ b_uptodate \in [Buffers -> Flag]
        /\ pc'.main \in {"next", "repeat"}
    BY DEF ll_rw_block, repeat_ahead, At, Running, Goto, ioVars, IOInv, TypeOK
  <1>2. bh \in Buffers
    BY <1>1, WorkHead
  <1>3. ~InDrq'
    BY <1>1 DEF InDrq, IOInv, TypeOK
  <1>4. CASE ll_rw_block
    <2>1. pc.main = "ll_rw" /\ b_lock[bh] = 0 /\ ~Skips(rw)
      <3>1. pc.main = "ll_rw" /\ Head(work).op \in Submits
        BY <1>4 DEF ll_rw_block, At, IOInv, WorkOK
      <3>2. b_lock[bh] = 0
        BY <1>1, <3>1 DEF IOInv, WorkOK, NeedsUnlocked
      <3> QED BY <3>1, <3>2 DEF Skips
    <2>2. CASE NothingToDo(rw)
      <3>1. b_lock' = [b_lock EXCEPT ![bh] = 0] /\ pc' = [pc EXCEPT !["main"] = "next"]
        BY <1>4, <2>1, <2>2 DEF ll_rw_block, unlock_buff, Goto
      <3>2. b_lock' = b_lock /\ pc'.main = "next"
        BY <1>1, <1>2, <2>1, <3>1 DEF IOInv, TypeOK
      <3> QED BY <1>1, <3>2, QuietCopy DEF bufVars
    <2>3. CASE ~NothingToDo(rw)
      <3>1. b_lock' = [b_lock EXCEPT ![bh] = 1] /\ work' = work
        BY <1>4, <2>1, <2>3 DEF ll_rw_block, lock_buff
      <3>2. rw # WRITE => b_uptodate[bh] = 0
        BY <1>1, <1>2, <2>3 DEF NothingToDo, Flag
      <3>3. Unread'
        BY <1>1, <3>1, <3>2 DEF Unread, rw, bh
      <3>4. \A b \in Buffers : b_lock'[b] = 0 => b_lock[b] = 0
        BY <1>1, <1>2, <3>1
      <3> QED BY <1>1, <1>3, <3>3, <3>4, MainCopy
    <2> QED BY <2>2, <2>3
  <1>5. CASE repeat_ahead
    <2>1. /\ pc.main = "repeat" /\ rw = READA /\ b_lock' = [b_lock EXCEPT ![bh] = 0]
          /\ pc' = [pc EXCEPT !["main"] = "next"]
      BY <1>5 DEF repeat_ahead, At, unlock_buff, Goto
    <2>2. b_uptodate[bh] = 0
      BY <2>1 DEF CopyInv, Unread, READA, WRITE
    <2>3. pc'.main # "repeat" /\ \A b \in Buffers : b # bh => b_lock'[b] = b_lock[b]
      BY <1>1, <1>2, <2>1 DEF IOInv, TypeOK
    <2>4. Unread'
      BY <2>3 DEF Unread
    <2> QED BY <1>1, <1>3, <2>2, <2>3, <2>4, MainCopy
  <1> QED BY <1>4, <1>5

(* What add_request does with the queue. *)
LEMMA EnqueueFacts ==
    ASSUME IOInv, repeat_found
    PROVE  \E s \in Slots : \E r \in Request :
              /\ r = NewRequest(bh, rw) /\ r.bh = bh /\ bh \in Buffers /\ r.buffer = 0
              /\ s \notin Queued /\ Queued' = Queued \cup {s}
              /\ request_list' = [request_list EXCEPT ![s] = r]
              /\ b_dirt' = [b_dirt EXCEPT ![bh] = 0]
              /\ \/ queue = <<>> /\ queue' = <<s>>
                 \/ /\ queue # <<>> /\ Head(queue') = Head(queue)
                    /\ \E i \in 1..Len(queue) : Position(i, r) /\ queue' = InsertBehind(i, s)
  <1>1. QueueInv /\ work # <<>> /\ work \in Seq(Steps) /\ queue \in Seq(Slots)
    BY IOInvParts DEF RestTypes, QueueInv, QueueTypes, repeat_found, At
  <1>2. bh \in Buffers /\ rw \in {READ, WRITE, READA}
    BY <1>1, WorkHead DEF rw
  <1>3. PICK s \in FreeSlots(rw) : add_request(s, NewRequest(bh, rw))
    BY DEF repeat_found
  <1>4. PICK r : r = NewRequest(bh, rw)
    OBVIOUS
  <1>5. s \in Slots /\ s \notin Queued /\ r \in Request /\ r.bh = bh /\ r.buffer = 0
    BY <1>2, <1>4, NewRequestFacts
  <1>6. /\ request_list' = [request_list EXCEPT ![s] = r]
        /\ b_dirt' = [b_dirt EXCEPT ![bh] = 0]
        /\ \/ queue = <<>> /\ queue' = <<s>>
           \/ \E i \in 1..Len(queue) : Position(i, r) /\ queue' = InsertBehind(i, s)
    BY <1>3, <1>4, <1>5 DEF add_request
  <1>7. CASE queue = <<>>
    <2>1. queue' = <<s>>
      BY <1>6, <1>7
    <2>2. Queued = {} /\ Queued' = {s}
      <3>1. Len(queue') = 1 /\ queue'[1] = s
        BY <2>1
      <3> QED BY <1>7, <3>1 DEF Queued
    <2> QED BY <1>2, <1>4, <1>5, <1>6, <1>7, <2>1, <2>2
  <1>8. CASE queue # <<>>
    <2>1. PICK i \in 1..Len(queue) : Position(i, r) /\ queue' = InsertBehind(i, s)
      BY <1>6, <1>8
    <2>2. Head(queue') = Head(queue) /\ Queued' = Queued \cup {s}
      BY <1>1, <1>5, <2>1, InsertFacts
    <2> QED BY <1>2, <1>4, <1>5, <1>6, <1>8, <2>1, <2>2
  <1> QED BY <1>7, <1>8

LEMMA FoundCopy ==
    ASSUME IOInv, CopyInv, IOInv', repeat_found PROVE CopyInv'
  <1>1. QueueInv /\ CommandState /\ b_dirt \in [Buffers -> Flag]
    BY IOInvParts DEF RestTypes
  <1>2. PICK s \in Slots, r \in Request :
            /\ r.bh = bh /\ bh \in Buffers /\ r.buffer = 0
            /\ s \notin Queued /\ Queued' = Queued \cup {s}
            /\ request_list' = [request_list EXCEPT ![s] = r]
            /\ b_dirt' = [b_dirt EXCEPT ![bh] = 0]
            /\ \/ queue = <<>>
               \/ Head(queue') = Head(queue)
    BY EnqueueFacts
  <1>3. /\ UNCHANGED <<b_lock, b_uptodate, b_data, hd, disk>>
        /\ pc.main = "repeat" /\ work # <<>>
        /\ pc'.irq = "idle" /\ pc'.main \in {"next", "do_hd"}
    BY DEF repeat_found, At, Running, add_request, Goto, IOInv, TypeOK
  <1>4. Submitting(bh) /\ b_lock[bh] = 1
    BY <1>1, <1>2, <1>3 DEF Submitting, QueueInv, LockedMeansQueued
  <1>5. Queued \subseteq Slots /\ \A t \in Slots : request_list'[t] = IF t = s THEN r ELSE request_list[t]
    BY <1>1, <1>2 DEF Queued, QueueInv, QueueTypes
  <1>6. \A t \in Queued : /\ request_list'[t] = request_list[t]
                         /\ request_list[t].bh \in Buffers /\ request_list[t].bh # bh
                         /\ b_dirt'[request_list[t].bh] = b_dirt[request_list[t].bh]
    BY <1>1, <1>2, <1>4, <1>5, CarriedFacts
  <1>7. CleanCopy'
    BY <1>1, <1>2, <1>3, <1>4 DEF CopyInv, CleanCopy, InPartition, Home
  <1>8. Halfway'
    <2> SUFFICES ASSUME NEW t \in Queued', request_list'[t].buffer = 1
                 PROVE  /\ InPartition(request_list'[t].bh)
                        /\ b_dirt'[request_list'[t].bh] = 0 =>
                              b_data[request_list'[t].bh][0] = disk[Home(request_list'[t].bh, 0)]
      BY <1>3 DEF Halfway, InPartition, Agrees, Home
    <2>1. t \in Queued
      BY <1>2, <1>5
    <2> QED BY <1>6, <2>1 DEF CopyInv, Halfway, Agrees
  <1>9. Transfer'
    <2> SUFFICES ASSUME Moving' PROVE Transfer'
      BY DEF Transfer
    <2>1. Active' /\ Active = Active' /\ Moving
      BY <1>3 DEF Moving, Active, InDrq, IOInv, TypeOK
    <2>2. queue # <<>> /\ Head(queue') = Head(queue) /\ Head(queue) \in Queued
      BY <1>1, <1>2, <2>1, CurrentFacts DEF CommandState
    <2>3. Current' = Current /\ b_dirt'[Current.bh] = b_dirt[Current.bh]
      BY <1>6, <2>2 DEF Current
    <2> QED BY <1>3, <2>1, <2>3 DEF CopyInv, Transfer, InPartition, Home
  <1>10. Unread'
    BY <1>3 DEF Unread
  <1> QED BY <1>7, <1>8, <1>9, <1>10 DEF CopyInv

LEMMA InitCopy == ASSUME Init PROVE CopyInv
  <1>1. Queued = {}
    BY DEF Init, Queued
  <1>2. CleanCopy /\ Unread
    BY DEF Init, CleanCopy, Unread
  <1>3. ~Moving
    BY DEF Init, Moving, Active, InDrq, HdIdle
  <1> QED BY <1>1, <1>2, <1>3 DEF CopyInv, Halfway, Transfer

LEMMA NextCopy == ASSUME IOInv, CopyInv, IOInv', [Next]_vars PROVE CopyInv'
  <1>1. CASE kmain_halt
    <2>1. /\ UNCHANGED <<request_list, queue, hd, disk, bufVars>>
          /\ pc.irq = "idle" /\ pc'.irq = "idle" /\ pc'.main = "halt"
      BY <1>1 DEF kmain_halt, AtRest, Running, Goto, ioVars, IOInv, TypeOK
    <2> QED BY <2>1, QuietCopy
  <1>2. CASE kmain_spin \/ do_hd_reentered \/ UNCHANGED vars
    BY <1>2 DEF kmain_spin, do_hd_reentered, vars, CopyInv, CleanCopy, Halfway, Transfer, Unread, Queued, Moving,
       InDrq, Active, Current, Agrees, Home, InPartition, rw, bh
  <1>3. CASE main_steps
    BY <1>3, StepsCopy, LockCopy, FoundCopy, DriverStepCopy DEF main_steps
  <1>4. CASE hd_abort
    <2>1. /\ hd'.phase = "abort" /\ hd.phase = "wait" /\ hd'.lba = hd.lba
          /\ UNCHANGED <<request_list, queue, b_lock, b_uptodate, b_dirt, b_data, disk, work, pc>>
      BY <1>4 DEF hd_abort, hdUnchanged, bufVars, IOInv, TypeOK
    <2>2. ~Active' /\ InDrq' = InDrq /\ Current' = Current
      BY <2>1 DEF Active, InDrq, Current
    <2>3. Transfer'
      BY <2>1, <2>2 DEF CopyInv, Transfer, Moving, InPartition, Home
    <2> QED BY <2>1, <2>3, DriverCopy
  <1> QED BY <1>1, <1>2, <1>3, <1>4, CallsCopy, InterruptCopy, DriverStepCopy, ControllerCopy
             DEF Next

(* A buffer that is unlocked, up to date and clean has the content of its  *)
(* block, whatever errors and retries there were, and although holders     *)
(* change the data of a buffer while the driver transfers it.              *)
THEOREM CleanIsCopy == Spec => []CleanCopy
  <1>1. Init => CopyInv
    BY InitCopy
  <1>2. IOInv /\ IOInv' /\ CopyInv /\ [Next]_vars => CopyInv'
    BY NextCopy
  <1>3. CopyInv => CleanCopy
    BY DEF CopyInv
  <1> QED BY <1>1, <1>2, <1>3, Invariance, PTL DEF Spec

----------------------------------------------------------------------------
(* The order of the elevator.  Requests of two buffers are never equal in  *)
(* it, and a request that has advanced by one sector keeps its place,      *)
(* since a block begins at an even sector.                                 *)

Before(c, a, d, b) ==
    \/ c < d
    \/ /\ c = d
       /\ \/ b_dev[a] < b_dev[b]
          \/ b_dev[a] = b_dev[b] /\ b_blocknr[a] < b_blocknr[b]

WellFormed(r) ==
    /\ r.cmd \in {READ, WRITE} /\ r.bh \in Buffers /\ r.buffer \in Half
    /\ r.dev = b_dev[r.bh] /\ r.sector = 2 * b_blocknr[r.bh] + r.buffer

LEMMA OrderFacts ==
    ASSUME NEW r, NEW t, WellFormed(r), WellFormed(t), r.bh # t.bh
    PROVE  /\ IN_ORDER(r, t) <=> Before(r.cmd, r.bh, t.cmd, t.bh)
           /\ IN_ORDER(r, t) \/ IN_ORDER(t, r)
  <1> DEFINE a == r.bh
             b == t.bh
             k == b_blocknr[a]
             l == b_blocknr[b]
             e == b_dev[a]
             f == b_dev[b]
  <1>1. /\ k \in Nat /\ l \in Nat /\ e \in Nat /\ f \in Nat
        /\ ~(e = f /\ k = l)
    BY LayoutAssumption, DistinctAssumption DEF WellFormed
  <1>2. /\ r.cmd \in {0, 1} /\ t.cmd \in {0, 1} /\ r.dev = e /\ t.dev = f
        /\ r.sector = 2 * k + r.buffer /\ t.sector = 2 * l + t.buffer
        /\ r.buffer \in {0, 1} /\ t.buffer \in {0, 1}
    BY DEF WellFormed, READ, WRITE, Half
  <1> HIDE DEF k, l, e, f
  <1>3. e = f => (r.sector < t.sector <=> k < l) /\ (t.sector < r.sector <=> l < k)
    BY <1>1, <1>2
  <1>4. IN_ORDER(r, t) \/ IN_ORDER(t, r)
    BY <1>1, <1>2, <1>3 DEF IN_ORDER
  <1>5. IN_ORDER(r, t) <=> Before(r.cmd, r.bh, t.cmd, t.bh)
    BY <1>1, <1>2, <1>3 DEF IN_ORDER, Before, k, l, e, f
  <1> QED BY <1>4, <1>5

LEMMA QueuedWellFormed ==
    ASSUME QueueInv, NEW s \in Queued
    PROVE  /\ WellFormed(request_list[s])
           /\ \A t \in Queued : request_list[s].bh = request_list[t].bh => s = t
  <1>1. Queued \subseteq Slots
    BY DEF Queued, QueueInv, QueueTypes
  <1>2. request_list[s].cmd \in {READ, WRITE} /\ request_list[s].bh \in Buffers
        /\ request_list[s].buffer \in Half
    BY <1>1 DEF QueueInv, QueueTypes, Request
  <1> QED BY <1>2 DEF QueueInv, RequestFields, WellFormed, LockedMeansQueued

(* Neighbours in the queue are in the order of their buffers. *)
Ascends(i) ==
    Before(request_list[queue[i]].cmd, request_list[queue[i]].bh,
           request_list[queue[i + 1]].cmd, request_list[queue[i + 1]].bh)

LEMMA DescentFacts ==
    ASSUME QueueInv, NEW i \in 1..(Len(queue) - 1)
    PROVE  Descent(i) <=> ~Ascends(i)
  <1>1. /\ queue \in Seq(Slots) /\ Len(queue) \in Nat
        /\ \A k, l \in 1..Len(queue) : queue[k] = queue[l] => k = l
    BY DEF QueueInv, QueueTypes, QueueHoldsRequests
  <1>2. i \in 1..Len(queue) /\ i + 1 \in 1..Len(queue) /\ i # i + 1
    BY <1>1
  <1>3. queue[i] \in Queued /\ queue[i + 1] \in Queued /\ queue[i] # queue[i + 1]
    BY <1>1, <1>2 DEF Queued
  <1>4. /\ WellFormed(request_list[queue[i]]) /\ WellFormed(request_list[queue[i + 1]])
        /\ request_list[queue[i]].bh # request_list[queue[i + 1]].bh
    BY <1>3, QueuedWellFormed
  <1> QED BY <1>4, OrderFacts DEF Descent, Ascends

LEMMA DescentFactsNext ==
    ASSUME QueueInv', NEW i \in 1..(Len(queue') - 1)
    PROVE  Descent(i)' <=> ~Ascends(i)'
  <1>1. /\ queue' \in Seq(Slots) /\ Len(queue') \in Nat
        /\ \A k, l \in 1..Len(queue') : queue'[k] = queue'[l] => k = l
    BY DEF QueueInv, QueueTypes, QueueHoldsRequests
  <1>2. i \in 1..Len(queue') /\ i + 1 \in 1..Len(queue') /\ i # i + 1
    BY <1>1
  <1>3. queue'[i] \in Queued' /\ queue'[i + 1] \in Queued' /\ queue'[i] # queue'[i + 1]
    BY <1>1, <1>2 DEF Queued
  <1>4. \A s \in Queued' :
           /\ WellFormed(request_list'[s])
           /\ \A t \in Queued' : request_list'[s].bh = request_list'[t].bh => s = t
    <2> SUFFICES ASSUME NEW s \in Queued'
                 PROVE  /\ WellFormed(request_list'[s])
                        /\ \A t \in Queued' : request_list'[s].bh = request_list'[t].bh => s = t
      OBVIOUS
    <2>1. Queued' \subseteq Slots
      BY <1>1 DEF Queued
    <2>2. request_list'[s].cmd \in {READ, WRITE} /\ request_list'[s].bh \in Buffers
          /\ request_list'[s].buffer \in Half
      BY <2>1 DEF QueueInv, QueueTypes, Request
    <2> QED BY <2>2 DEF QueueInv, RequestFields, WellFormed, LockedMeansQueued
  <1>5. /\ WellFormed(request_list'[queue'[i]]) /\ WellFormed(request_list'[queue'[i + 1]])
        /\ request_list'[queue'[i]].bh # request_list'[queue'[i + 1]].bh
    BY <1>3, <1>4
  <1> QED BY <1>5, OrderFacts DEF Descent, Ascends

----------------------------------------------------------------------------
(* The requests in the queue keep what they are ordered by. *)
Keep(S) == \A s \in S : /\ request_list'[s].cmd = request_list[s].cmd
                        /\ request_list'[s].bh = request_list[s].bh

LEMMA KeepSweeps ==
    ASSUME QueueInv, QueueInv', TwoSweeps, queue' = queue, Keep(Queued)
    PROVE  TwoSweeps'
  <1>1. queue \in Seq(Slots) /\ Len(queue) \in Nat
    BY DEF QueueInv, QueueTypes
  <1>2. ASSUME NEW i \in 1..(Len(queue) - 1) PROVE Descent(i)' <=> Descent(i)
    <2>1. queue[i] \in Queued /\ queue[i + 1] \in Queued
      BY <1>1 DEF Queued
    <2>2. Ascends(i)' <=> Ascends(i)
      BY <2>1 DEF Ascends, Keep, Before
    <2>3. i \in 1..(Len(queue') - 1)
      OBVIOUS
    <2> QED BY <2>2, <2>3, DescentFacts, DescentFactsNext
  <1> QED BY <1>2 DEF TwoSweeps

LEMMA TailSweeps ==
    ASSUME QueueInv, QueueInv', TwoSweeps, queue # <<>>, queue' = Tail(queue),
           Keep(Queued \ {Head(queue)})
    PROVE  TwoSweeps'
  <1>1. /\ queue \in Seq(Slots) /\ Len(queue) \in Nat \ {0} /\ Head(queue) = queue[1]
        /\ Len(queue') = Len(queue) - 1
        /\ \A i \in 1..(Len(queue) - 1) : queue'[i] = queue[i + 1]
        /\ \A k, l \in 1..Len(queue) : queue[k] = queue[l] => k = l
    BY TailFacts DEF QueueInv, QueueTypes, QueueHoldsRequests
  <1>2. ASSUME NEW i \in 1..(Len(queue') - 1)
        PROVE  i + 1 \in 1..(Len(queue) - 1) /\ (Descent(i)' <=> Descent(i + 1))
    <2>1. /\ i + 1 \in 1..(Len(queue) - 1) /\ i \in 1..(Len(queue) - 1)
          /\ i + 1 \in 1..Len(queue) /\ (i + 1) + 1 \in 1..Len(queue) /\ 1 \in 1..Len(queue)
          /\ i + 1 # 1 /\ (i + 1) + 1 # 1
      BY <1>1
    <2>2. queue[i + 1] \in Queued \ {Head(queue)} /\ queue[(i + 1) + 1] \in Queued \ {Head(queue)}
      BY <1>1, <2>1 DEF Queued
    <2>3. queue'[i] = queue[i + 1] /\ queue'[i + 1] = queue[(i + 1) + 1]
      BY <1>1, <2>1
    <2>4. Ascends(i)' <=> Ascends(i + 1)
      BY <2>2, <2>3 DEF Ascends, Keep, Before
    <2> QED BY <2>1, <2>4, DescentFacts, DescentFactsNext
  <1>3. \A i \in 1..(Len(queue') - 1) : i \in Int
    OBVIOUS
  <1> QED BY <1>2, <1>3 DEF TwoSweeps

(* A request that fits nowhere before the end of a queue with a descent    *)
(* follows the last request: otherwise it would fit in front of the first  *)
(* request behind the descent that it does not follow.                     *)
LEMMA AppendFits ==
    ASSUME QueueInv, NEW r, WellFormed(r), \A s \in Queued : request_list[s].bh # r.bh,
           queue # <<>>, \A j \in 1..(Len(queue) - 1) : ~Fits(j, r),
           NEW d \in 1..(Len(queue) - 1), Descent(d)
    PROVE  IN_ORDER(request_list[queue[Len(queue)]], r)
  <1> DEFINE n == Len(queue)
             A(j) == request_list[queue[j]]
             T == {j \in (d + 1)..n : ~IN_ORDER(A(j), r)}
  <1>1. queue \in Seq(Slots) /\ n \in Nat /\ d \in Nat /\ d >= 1 /\ d <= n - 1
    BY DEF QueueInv, QueueTypes
  <1>2. \A j \in 1..n : IN_ORDER(A(j), r) \/ IN_ORDER(r, A(j))
    <2> SUFFICES ASSUME NEW j \in 1..n PROVE IN_ORDER(A(j), r) \/ IN_ORDER(r, A(j))
      OBVIOUS
    <2>1. queue[j] \in Queued
      BY <1>1 DEF Queued
    <2>2. WellFormed(A(j)) /\ A(j).bh # r.bh
      BY <2>1, QueuedWellFormed
    <2> HIDE DEF A
    <2> QED BY <2>2, OrderFacts
  <1>3. SUFFICES ASSUME T # {} PROVE FALSE
    <2>1. n \in (d + 1)..n
      BY <1>1
    <2> QED BY <2>1
  <1>4. T \in SUBSET Nat
    BY <1>1
  <1>5. PICK m \in T : \A t \in T : m <= t
    <2> HIDE DEF T
    <2> QED BY <1>3, <1>4, LeastExists
  <1>6. m \in (d + 1)..n /\ m \in 1..n /\ m - 1 \in 1..(n - 1) /\ (m - 1) + 1 = m
        /\ ~IN_ORDER(A(m), r) /\ IN_ORDER(r, A(m))
    <2>1. m \in (d + 1)..n /\ ~IN_ORDER(A(m), r)
      OBVIOUS
    <2>2. m \in 1..n /\ m - 1 \in 1..(n - 1) /\ (m - 1) + 1 = m
      BY <1>1, <2>1
    <2> HIDE DEF A, T
    <2> QED BY <1>2, <2>1, <2>2
  <1>7. IN_ORDER(A(m - 1), r) \/ ~IN_ORDER(A(m - 1), A(m))
    <2>1. CASE m = d + 1
      <3>1. m - 1 = d
        BY <1>1, <2>1
      <3> QED BY <2>1, <3>1 DEF Descent
    <2>2. CASE m # d + 1
      <3>1. m - 1 \in (d + 1)..n /\ ~(m <= m - 1)
        BY <1>1, <1>6, <2>2
      <3>2. m - 1 \notin T
        BY <1>5, <3>1
      <3> QED BY <3>1, <3>2
    <2> QED BY <2>1, <2>2
  <1>8. Fits(m - 1, r)
    BY <1>6, <1>7 DEF Fits
  <1> QED BY <1>6, <1>8

LEMMA InsertSweeps ==
    ASSUME QueueInv, QueueInv', TwoSweeps, queue # <<>>,
           NEW r, WellFormed(r), \A s \in Queued : request_list[s].bh # r.bh,
           NEW s \in Slots, s \notin Queued, request_list' = [request_list EXCEPT ![s] = r],
           NEW i \in 1..Len(queue), Position(i, r), queue' = InsertBehind(i, s)
    PROVE  TwoSweeps'
  <1> DEFINE n == Len(queue)
             A(j) == request_list[queue[j]]
             B(j) == request_list'[queue'[j]]
  <1>1. /\ queue \in Seq(Slots) /\ n \in Nat /\ i \in Int /\ 1 <= i /\ i <= n
        /\ request_list \in [Slots -> Request]
    BY DEF QueueInv, QueueTypes
  <1>2. queue' = [k \in 1..(n + 1) |->
                    IF k <= i THEN queue[k] ELSE IF k = i + 1 THEN s ELSE queue[k - 1]]
    BY DEF InsertBehind
  <1>3. Len(queue') = n + 1
    BY <1>1, InsertFacts
  <1>4. \A k \in 1..n : queue[k] \in Slots /\ queue[k] # s
    BY <1>1 DEF Queued
  <1>5. \A k \in 1..(n + 1) : B(k) = IF k <= i THEN A(k) ELSE IF k = i + 1 THEN r ELSE A(k - 1)
    <2> SUFFICES ASSUME NEW k \in 1..(n + 1)
                 PROVE  B(k) = IF k <= i THEN A(k) ELSE IF k = i + 1 THEN r ELSE A(k - 1)
      OBVIOUS
    <2>1. CASE k <= i
      <3>1. k \in 1..n /\ queue'[k] = queue[k]
        BY <1>1, <1>2, <2>1
      <3> QED BY <1>1, <1>4, <2>1, <3>1
    <2>2. CASE k = i + 1
      <3>1. queue'[k] = s /\ ~(k <= i)
        BY <1>1, <1>2, <2>2
      <3> QED BY <1>1, <2>2, <3>1
    <2>3. CASE ~(k <= i) /\ k # i + 1
      <3>1. k - 1 \in 1..n /\ queue'[k] = queue[k - 1]
        BY <1>1, <1>2, <2>3
      <3> QED BY <1>1, <1>4, <2>3, <3>1
    <2> QED BY <2>1, <2>2, <2>3
  <1> HIDE DEF A, B
  <1>6. \A k \in 1..n : Descent(k)' <=> ~IN_ORDER(B(k), B(k + 1))
    BY DEF Descent, B
  <1>7. \A k \in 1..(n - 1) : Descent(k) <=> ~IN_ORDER(A(k), A(k + 1))
    BY DEF Descent, A
  <1>8. CASE i < n
    <2>1. (IN_ORDER(A(i), r) \/ ~IN_ORDER(A(i), A(i + 1))) /\ IN_ORDER(r, A(i + 1))
      BY <1>8 DEF Position, Fits, A
    <2> DEFINE old(k) == IF k <= i THEN k ELSE k - 1
    <2>4. \A k, l \in Int : k # i + 1 /\ l # i + 1 /\ old(k) = old(l) => k = l
      BY <1>1
    <2>2. ASSUME NEW k \in 1..n, Descent(k)'
          PROVE  k # i + 1 /\ old(k) \in 1..(n - 1) /\ Descent(old(k))
      <3>1. ~IN_ORDER(B(k), B(k + 1))
        BY <1>6, <2>2
      <3>2. k \in 1..(n + 1) /\ k + 1 \in 1..(n + 1)
        BY <1>1
      <3>3. CASE k < i
        <4>1. B(k) = A(k) /\ B(k + 1) = A(k + 1) /\ old(k) = k /\ k \in 1..(n - 1) /\ k # i + 1
          BY <1>1, <1>5, <3>2, <3>3
        <4> HIDE DEF old
        <4> QED BY <1>7, <3>1, <4>1
      <3>4. CASE k = i
        <4>1. B(k) = A(i) /\ B(k + 1) = r /\ old(k) = i /\ i \in 1..(n - 1) /\ k # i + 1
          BY <1>1, <1>5, <1>8, <3>2, <3>4
        <4> HIDE DEF old
        <4> QED BY <1>7, <2>1, <3>1, <4>1
      <3>5. CASE k = i + 1
        <4>1. B(k) = r /\ B(k + 1) = A(i + 1)
          <5>1. ~(k <= i) /\ ~(k + 1 <= i) /\ k + 1 # i + 1 /\ (k + 1) - 1 = i + 1
            BY <1>1, <3>5
          <5> QED BY <1>5, <3>2, <3>5, <5>1
        <4> QED BY <2>1, <3>1, <4>1
      <3>6. CASE k > i + 1
        <4>1. B(k) = A(k - 1) /\ B(k + 1) = A((k + 1) - 1) /\ old(k) = k - 1
              /\ k - 1 \in 1..(n - 1) /\ k # i + 1
          <5>1. ~(k <= i) /\ ~(k + 1 <= i) /\ k # i + 1 /\ k + 1 # i + 1 /\ k - 1 \in 1..(n - 1)
            BY <1>1, <3>6
          <5>2. B(k) = A(k - 1)
            BY <1>5, <3>2, <5>1
          <5>3. B(k + 1) = A((k + 1) - 1)
            BY <1>5, <3>2, <5>1
          <5> QED BY <5>1, <5>2, <5>3
        <4>2. (k + 1) - 1 = (k - 1) + 1
          BY <1>1
        <4> HIDE DEF old
        <4> QED BY <1>7, <3>1, <4>1, <4>2
      <3> QED BY <1>1, <3>3, <3>4, <3>5, <3>6
    <2>3. ASSUME NEW k \in 1..n, NEW l \in 1..n, Descent(k)', Descent(l)' PROVE k = l
      <3>1. old(k) = old(l)
        <4> HIDE DEF old
        <4> QED BY <2>2, <2>3 DEF TwoSweeps
      <3>2. k # i + 1 /\ l # i + 1
        BY <2>2, <2>3
      <3>3. k \in Int /\ l \in Int
        OBVIOUS
      <3> HIDE DEF old
      <3> QED BY <2>4, <3>1, <3>2, <3>3
    <2> QED BY <1>1, <1>3, <2>3 DEF TwoSweeps
  <1>9. CASE i = n
    <2>1. \A j \in 1..(n - 1) : ~Fits(j, r)
      BY <1>9 DEF Position
    <2>2. ASSUME NEW k \in 1..n, Descent(k)', k # i
          PROVE  k \in 1..(n - 1) /\ Descent(k)
      <3>1. k \in 1..(n - 1) /\ k \in 1..(n + 1) /\ k + 1 \in 1..(n + 1) /\ k <= i /\ k + 1 <= i
        BY <1>1, <1>9, <2>2
      <3> QED BY <1>5, <1>6, <1>7, <2>2, <3>1
    <2>3. Descent(i)' => ~IN_ORDER(A(n), r)
      <3>1. i = n /\ n \in 1..n /\ n \in 1..(n + 1) /\ n + 1 \in 1..(n + 1) /\ n <= i /\ ~(n + 1 <= i)
            /\ n + 1 = i + 1
        BY <1>1, <1>9
      <3> QED BY <1>5, <1>6, <3>1
    <2>4. ASSUME NEW k \in 1..(n - 1), Descent(k) PROVE ~Descent(i)'
      <3>1. IN_ORDER(A(n), r)
        BY <2>1, <2>4, AppendFits DEF A
      <3> QED BY <2>3, <3>1
    <2>5. ASSUME NEW k \in 1..n, NEW l \in 1..n, Descent(k)', Descent(l)' PROVE k = l
      <3>1. k # i => k \in 1..(n - 1) /\ Descent(k)
        BY <2>2, <2>5
      <3>2. l # i => l \in 1..(n - 1) /\ Descent(l)
        BY <2>2, <2>5
      <3>3. k # i => l # i
        BY <2>4, <2>5, <3>1
      <3>4. l # i => k # i
        BY <2>4, <2>5, <3>2
      <3>5. k # i /\ l # i => k = l
        BY <3>1, <3>2 DEF TwoSweeps
      <3> QED BY <3>3, <3>4, <3>5
    <2> QED BY <1>1, <1>3, <2>5 DEF TwoSweeps
  <1> QED BY <1>1, <1>8, <1>9

----------------------------------------------------------------------------
(* What the other steps do to the queue. *)
LEMMA BadRwSweeps ==
    ASSUME QueueInv, queue # <<>>, bad_rw_intr
    PROVE  \/ queue' = queue /\ Keep(Queued)
           \/ queue' = Tail(queue) /\ Keep(Queued \ {Head(queue)})
  <1>1. Queued \subseteq Slots /\ request_list \in [Slots -> Request]
    BY DEF Queued, QueueInv, QueueTypes
  <1>2. CASE Current.errors + 1 >= MAX_ERRORS
    BY <1>1, <1>2 DEF bad_rw_intr, end_request, Keep
  <1>3. CASE ~(Current.errors + 1 >= MAX_ERRORS)
    <2>1. /\ request_list' = [request_list EXCEPT ![Head(queue)].errors = @ + 1]
          /\ queue' = queue
      BY <1>3 DEF bad_rw_intr
    <2> QED BY <1>1, <2>1 DEF Keep, Request
  <1> QED BY <1>2, <1>3

LEMMA DriverSweeps ==
    ASSUME IOInv, NEW c \in {"main", "irq"}, do_hd_request(c)
    PROVE  \/ queue' = queue /\ Keep(Queued)
           \/ queue # <<>> /\ queue' = Tail(queue) /\ Keep(Queued \ {Head(queue)})
  <1>1. QueueInv /\ CommandState /\ RestTypes
    BY IOInvParts
  <1>2. Queued \subseteq Slots /\ request_list \in [Slots -> Request]
    BY <1>1 DEF Queued, QueueInv, QueueTypes
  <1>3. CASE do_hd_reject(c)
    BY <1>2, <1>3 DEF do_hd_reject, end_request, Keep
  <1>4. CASE drq_timeout(c)
    <2>1. queue # <<>> /\ bad_rw_intr
      BY <1>1, <1>4 DEF drq_timeout, Driving, InDrq, RestTypes, CommandState
    <2> QED BY <1>1, <2>1, BadRwSweeps
  <1>5. CASE ~do_hd_reject(c) /\ ~drq_timeout(c)
    <2>1. UNCHANGED <<request_list, queue>>
      BY <1>5 DEF do_hd_request, do_hd_idle, do_hd_reset, do_hd_recalibrate, do_hd_read,
         do_hd_write, drq_ready
    <2> QED BY <2>1 DEF Keep
  <1> QED BY <1>3, <1>4, <1>5

LEMMA InterruptSweeps ==
    ASSUME IOInv, irq_handler
    PROVE  \/ queue' = queue /\ Keep(Queued)
           \/ queue # <<>> /\ queue' = Tail(queue) /\ Keep(Queued \ {Head(queue)})
  <1>1. QueueInv
    BY IOInvParts
  <1>2. Queued \subseteq Slots /\ request_list \in [Slots -> Request]
    BY <1>1 DEF Queued, QueueInv, QueueTypes
  <1>3. CASE write_intr_abort
    <2>1. CASE queue # <<>> /\ bad_rw_intr
      BY <1>1, <2>1, BadRwSweeps
    <2>2. CASE UNCHANGED <<request_list, queue>>
      BY <2>2 DEF Keep
    <2> QED BY <1>3, <2>1, <2>2 DEF write_intr_abort
  <1>4. ASSUME ~write_intr_abort PROVE queue # <<>>
    <2>1. PICK r : Interrupt(r) /\ hd.phase # "abort"
      BY <1>4 DEF irq_handler, intr_error, read_intr_more, read_intr_done, write_intr_more,
         write_intr_done, recal_intr_ok
    <2> QED BY <2>1, InterruptFacts
  <1>5. CASE bad_rw_intr /\ ~write_intr_abort
    BY <1>1, <1>4, <1>5, BadRwSweeps
  <1>6. CASE (read_intr_done \/ write_intr_done) /\ ~write_intr_abort
    <2>1. end_request(1)
      BY <1>6 DEF read_intr_done, write_intr_done
    <2>2. queue # <<>>
      BY <1>4, <1>6
    <2> QED BY <1>2, <2>1, <2>2 DEF end_request, Keep
  <1>7. CASE read_intr_more \/ write_intr_more
    <2>1. /\ queue' = queue
          /\ \E e : request_list' = [request_list EXCEPT ![Head(queue)] = Advanced(Current, e)]
      BY <1>7 DEF read_intr_more, write_intr_more
    <2>2. PICK e : request_list' = [request_list EXCEPT ![Head(queue)] = Advanced(Current, e)]
      BY <2>1
    <2>3. Advanced(Current, e).cmd = Current.cmd /\ Advanced(Current, e).bh = Current.bh
      BY DEF Advanced
    <2> QED BY <1>2, <2>1, <2>2, <2>3 DEF Keep, Current
  <1>8. CASE recal_intr_ok
    BY <1>8 DEF recal_intr_ok, Keep
  <1> QED BY <1>3, <1>5, <1>6, <1>7, <1>8 DEF irq_handler, intr_error

LEMMA FoundSweeps ==
    ASSUME IOInv, IOInv', TwoSweeps, repeat_found PROVE TwoSweeps'
  <1>1. QueueInv /\ QueueInv'
    BY DEF IOInv, TypeOK, QueueInv, QueueTypes
  <1>2. PICK s \in Slots, r \in Request :
            /\ r = NewRequest(bh, rw) /\ r.bh = bh /\ bh \in Buffers /\ r.buffer = 0
            /\ s \notin Queued
            /\ request_list' = [request_list EXCEPT ![s] = r]
            /\ \/ queue = <<>> /\ queue' = <<s>>
               \/ /\ queue # <<>>
                  /\ \E i \in 1..Len(queue) : Position(i, r) /\ queue' = InsertBehind(i, s)
    BY EnqueueFacts
  <1>3. WellFormed(r)
    <2>1. r.dev = b_dev[bh] /\ r.sector = 2 * b_blocknr[bh] /\ r.cmd \in {READ, WRITE}
      BY <1>2 DEF NewRequest
    <2>2. b_blocknr[bh] \in Nat
      BY <1>2, LayoutAssumption
    <2> QED BY <1>2, <2>1, <2>2 DEF WellFormed, Half
  <1>4. \A t \in Queued : request_list[t].bh # r.bh
    <2>1. Submitting(bh)
      BY DEF Submitting, repeat_found, At
    <2> QED BY <1>1, <1>2, <2>1 DEF QueueInv, LockedMeansQueued
  <1>5. CASE queue = <<>> /\ queue' = <<s>>
    <2>1. Len(queue') = 1
      BY <1>5
    <2> QED BY <2>1 DEF TwoSweeps
  <1>6. CASE queue # <<>>
    <2>1. PICK i \in 1..Len(queue) : Position(i, r) /\ queue' = InsertBehind(i, s)
      BY <1>2, <1>6
    <2> QED BY <1>1, <1>2, <1>3, <1>4, <1>6, <2>1, InsertSweeps
  <1> QED BY <1>2, <1>5, <1>6

LEMMA NextSweeps == ASSUME IOInv, IOInv', TwoSweeps, [Next]_vars PROVE TwoSweeps'
  <1>1. QueueInv /\ QueueInv'
    BY DEF IOInv, TypeOK, QueueInv, QueueTypes
  <1>2. CASE UNCHANGED <<request_list, queue>>
    <2>1. Keep(Queued)
      BY <1>2 DEF Keep
    <2> QED BY <1>1, <1>2, <2>1, KeepSweeps
  <1>3. CASE repeat_found
    BY <1>3, FoundSweeps
  <1>4. CASE \E c \in {"main", "irq"} : do_hd_request(c)
    BY <1>1, <1>4, DriverSweeps, KeepSweeps, TailSweeps
  <1>5. CASE irq_handler
    BY <1>1, <1>5, InterruptSweeps, KeepSweeps, TailSweeps
  <1>6. CASE calls \/ kmain_halt \/ kmain_spin \/ UNCHANGED vars
    <2>1. UNCHANGED <<request_list, queue>>
      BY <1>6 DEF calls, call_read_buff, call_read_buff_page, call_read_buff_ahead,
         call_create_block, call_put_buff, call_sync_dev, call_invalidate_buff,
         call_invalidate_buffs, call_modify, Call, modify, kmain_halt, kmain_spin, ioVars, vars
    <2> QED BY <1>2, <2>1
  <1>7. CASE controller \/ hd_abort \/ do_hd_reentered
    <2>1. UNCHANGED <<request_list, queue>>
      BY <1>7 DEF controller, hd_read, hd_write, hd_settle, hd_fail, hd_abort, hdUnchanged,
         do_hd_reentered, vars
    <2> QED BY <1>2, <2>1
  <1>8. CASE main_steps /\ ~repeat_found /\ ~do_hd_request("main")
    <2>1. UNCHANGED <<request_list, queue>>
      BY <1>8 DEF main_steps, step_skip, step_cached, step_submit, step_wait, wait_spin,
         wait_end, step_drop, step_clear, step_hold, step_release, ll_rw_block, repeat_ahead, ioVars
    <2> QED BY <1>2, <2>1
  <1> QED BY <1>3, <1>4, <1>5, <1>6, <1>7, <1>8 DEF Next

(* The elevator of add_request keeps the queue in at most two ascending    *)
(* sweeps, although the head moves on and the driver takes requests away   *)
(* between two insertions.                                                 *)
THEOREM SweepsAtMostTwo == Spec => []TwoSweeps
  <1>1. Init => TwoSweeps
    BY DEF Init, TwoSweeps
  <1>2. IOInv /\ IOInv' /\ TwoSweeps /\ [Next]_vars => TwoSweeps'
    BY NextSweeps
  <1> QED BY <1>1, <1>2, Invariance, PTL DEF Spec

----------------------------------------------------------------------------
(* BlockIO implements BlockDevice.  What a buffer waits for is the command *)
(* of its one request in the queue.                                        *)

LEMMA PendingFacts ==
    ASSUME QueueInv
    PROVE  /\ \A s \in Queued : Pending[request_list[s].bh] = {request_list[s].cmd}
           /\ \A b \in Buffers : (\A s \in Queued : request_list[s].bh # b) => Pending[b] = {}
           /\ \A b \in Buffers : b_lock[b] = 0 \/ Submitting(b) => Pending[b] = {}
  <1>1. \A s \in Queued : Pending[request_list[s].bh] = {request_list[s].cmd}
    <2> SUFFICES ASSUME NEW s \in Queued
                 PROVE  Pending[request_list[s].bh] = {request_list[s].cmd}
      OBVIOUS
    <2>1. request_list[s].bh \in Buffers
      BY CarriedFacts
    <2>2. \A t \in Queued : request_list[t].bh = request_list[s].bh <=> t = s
      BY <2>1 DEF QueueInv, LockedMeansQueued
    <2>3. {t \in Queued : request_list[t].bh = request_list[s].bh} = {s}
      BY <2>2
    <2>4. Pending[request_list[s].bh] = {request_list[t].cmd : t \in {s}}
      BY <2>1, <2>3 DEF Pending
    <2> QED BY <2>4
  <1>2. ASSUME NEW b \in Buffers, \A s \in Queued : request_list[s].bh # b PROVE Pending[b] = {}
    <2>1. {t \in Queued : request_list[t].bh = b} = {}
      BY <1>2
    <2> QED BY <2>1 DEF Pending
  <1>3. ASSUME NEW b \in Buffers, b_lock[b] = 0 \/ Submitting(b) PROVE Pending[b] = {}
    <2>1. \A s \in Queued : request_list[s].bh # b
      BY <1>3, CarriedFacts
    <2> QED BY <1>2, <2>1
  <1> QED BY <1>1, <1>2, <1>3

LEMMA KeepPending ==
    ASSUME Queued' = Queued, Keep(Queued) PROVE Pending' = Pending
  <1>1. \A b \in Buffers : {t \in Queued : request_list'[t].bh = b} = {t \in Queued : request_list[t].bh = b}
    BY DEF Keep
  <1>2. \A b \in Buffers :
          {request_list'[t].cmd : t \in {t \in Queued' : request_list'[t].bh = b}}
              = {request_list[t].cmd : t \in {t \in Queued : request_list[t].bh = b}}
    BY <1>1 DEF Keep
  <1> QED BY <1>2 DEF Pending

LEMMA EndPending ==
    ASSUME QueueInv, queue # <<>>, NEW u, end_request(u)
    PROVE  /\ Pending' = [Pending EXCEPT ![Current.bh] = {}]
           /\ Pending[Current.bh] = {Current.cmd}
  <1>1. Head(queue) \in Slots /\ Head(queue) \in Queued /\ Current.bh \in Buffers
    BY CurrentFacts
  <1>2. Queued' = Queued \ {Head(queue)}
    BY DequeueFacts DEF QueueInv, QueueTypes, QueueHoldsRequests, end_request
  <1>3. \A s \in Queued' : request_list'[s] = request_list[s] /\ request_list[s].bh # Current.bh
    <2>1. Queued \subseteq Slots
      BY DEF Queued, QueueInv, QueueTypes
    <2> QED BY <1>1, <1>2, <2>1, CarriedFacts DEF end_request, QueueInv, QueueTypes
  <1>4. ASSUME NEW b \in Buffers
        PROVE  {request_list'[t].cmd : t \in {t \in Queued' : request_list'[t].bh = b}}
                 = IF b = Current.bh THEN {} ELSE Pending[b]
    <2>1. CASE b = Current.bh
      <3>1. {t \in Queued' : request_list'[t].bh = b} = {}
        BY <1>3, <2>1
      <3> QED BY <2>1, <3>1
    <2>2. CASE b # Current.bh
      <3>1. {t \in Queued' : request_list'[t].bh = b} = {t \in Queued : request_list[t].bh = b}
        BY <1>2, <1>3, <2>2 DEF Current
      <3>2. \A t \in {t \in Queued : request_list[t].bh = b} : request_list'[t].cmd = request_list[t].cmd
        BY <1>2, <1>3, <2>2 DEF Current
      <3> QED BY <2>2, <3>1, <3>2 DEF Pending
    <2> QED BY <2>1, <2>2
  <1>5. Pending' = [Pending EXCEPT ![Current.bh] = {}]
    BY <1>1, <1>4 DEF Pending
  <1> QED BY <1>1, <1>5, PendingFacts DEF Current

LEMMA FoundPending ==
    ASSUME QueueInv, NEW s \in Slots, NEW r, r.bh \in Buffers, s \notin Queued,
           Queued' = Queued \cup {s}, \A t \in Queued : request_list[t].bh # r.bh,
           request_list' = [request_list EXCEPT ![s] = r]
    PROVE  Pending' = [Pending EXCEPT ![r.bh] = {r.cmd}]
  <1>1. Queued \subseteq Slots /\ request_list \in [Slots -> Request]
    BY DEF Queued, QueueInv, QueueTypes
  <1>2. request_list'[s] = r /\ \A t \in Queued : request_list'[t] = request_list[t] /\ t # s
    BY <1>1
  <1>3. ASSUME NEW b \in Buffers
        PROVE  {request_list'[t].cmd : t \in {t \in Queued' : request_list'[t].bh = b}}
                 = IF b = r.bh THEN {r.cmd} ELSE Pending[b]
    <2>1. CASE b = r.bh
      <3>1. {t \in Queued' : request_list'[t].bh = b} = {s}
        BY <1>2, <2>1
      <3> QED BY <1>2, <2>1, <3>1
    <2>2. CASE b # r.bh
      <3>1. {t \in Queued' : request_list'[t].bh = b} = {t \in Queued : request_list[t].bh = b}
        BY <1>2, <2>2
      <3>2. \A t \in {t \in Queued : request_list[t].bh = b} : request_list'[t].cmd = request_list[t].cmd
        BY <1>2
      <3> QED BY <2>2, <3>1, <3>2 DEF Pending
    <2> QED BY <2>1, <2>2
  <1> QED BY <1>3 DEF Pending

(* A part is on its way exactly while the controller executes a write. *)
LEMMA SendingFacts ==
    /\ hd.phase # "busy" \/ hd.cmd # "WRITE" => Sending = Nothing
    /\ IOInv /\ hd.phase = "busy" /\ hd.cmd = "WRITE" =>
          /\ Sending = [bh |-> Current.bh, half |-> Current.buffer, data |-> hd.data]
          /\ Sending # Nothing
  <1>1. ASSUME IOInv, hd.phase = "busy", hd.cmd = "WRITE"
        PROVE  /\ Sending = [bh |-> Current.bh, half |-> Current.buffer, data |-> hd.data]
               /\ Sending # Nothing
    <2>1. Sending = [bh |-> Current.bh, half |-> Current.buffer, data |-> hd.data]
      BY <1>1 DEF Sending
    <2>2. QueueInv /\ queue # <<>>
      BY <1>1, IOInvParts DEF CommandState, Active
    <2>3. Current.bh \in 1..NR_BUFFERS
      BY <2>2, CurrentFacts DEF Buffers
    <2>4. Current.bh # 0
      BY <2>3, SizeAssumption
    <2> QED BY <2>1, <2>4 DEF Nothing
  <1> QED BY <1>1 DEF Sending

LEMMA SendingFactsNext ==
    hd'.phase # "busy" \/ hd'.cmd # "WRITE" => Sending' = Nothing
BY DEF Sending, Nothing

(* Every buffer has its block where the model of the drive has it. *)
LEMMA ContentFacts ==
    ASSUME NEW d
    PROVE  /\ \A b \in Present : b \in Buffers /\ InPartition(b)
           /\ \A b \in Buffers : InPartition(b) => b \in Present
           /\ \A b \in Present, h \in Half : Content(d)[b][h] = d[Home(b, h)]
BY DEF Present, Content

(* The parts of the state that the device does not show. *)
LEMMA Stutter ==
    ASSUME Queued' = Queued, Keep(Queued), UNCHANGED <<b_uptodate, b_dirt, b_data, disk>>,
           Sending' = Sending
    PROVE  [Device!Next]_Device!vars
  <1>1. Pending' = Pending
    BY KeepPending
  <1>2. (Content(disk))' = Content(disk)
    BY DEF Content, Present, InPartition, Home
  <1> QED BY <1>1, <1>2 DEF Device!vars

(* end_request is the end of a transfer. *)
LEMMA EndDevice ==
    ASSUME QueueInv, queue # <<>>, NEW u \in Flag, end_request(u), UNCHANGED <<b_dirt, disk>>,
           Sending = Nothing, Sending' = Nothing,
           b_data \in [Buffers -> [Half -> Values]], b_data' \in [Buffers -> [Half -> Values]],
           \/ b_data' = b_data
           \/ /\ u = 1 /\ Current.cmd = READ
              /\ \E h \in Half :
                    b_data' = [b_data EXCEPT ![Current.bh][h] = disk[Home(Current.bh, h)]],
           u = 1 => /\ InPartition(Current.bh)
                    /\ b_dirt[Current.bh] = 0 =>
                          \A h \in Half : b_data'[Current.bh][h] = disk[Home(Current.bh, h)]
    PROVE  Device!Next
  <1> DEFINE b == Current.bh
             C == Content(disk)
  <1>1. b \in Buffers
    BY CurrentFacts
  <1>2. Pending' = [Pending EXCEPT ![b] = {}] /\ Pending[b] = {Current.cmd}
    BY EndPending
  <1>3. (Content(disk))' = C
    BY DEF Content, Present, InPartition, Home
  <1>4. b_uptodate' = [b_uptodate EXCEPT ![b] = u]
    BY DEF end_request
  <1>5. u = 1 => b \in Present
    BY <1>1, ContentFacts
  <1>6. \/ b_data' = b_data
        \/ Pending[b] = {READ} /\ u = 1 /\ \E h \in Half : b_data' = [b_data EXCEPT ![b][h] = C[b][h]]
    <2>1. ASSUME u = 1, Current.cmd = READ, NEW h \in Half,
                 b_data' = [b_data EXCEPT ![b][h] = disk[Home(b, h)]]
          PROVE  Pending[b] = {READ} /\ b_data' = [b_data EXCEPT ![b][h] = C[b][h]]
      <3>1. C[b][h] = disk[Home(b, h)]
        BY <1>5, <2>1, ContentFacts
      <3> HIDE DEF C, b
      <3> QED BY <1>2, <2>1, <3>1
    <2> HIDE DEF C
    <2> QED BY <2>1
  <1>7. u = 1 => b \in Present /\ (b_dirt[b] = 0 => b_data'[b] = C[b])
    <2> SUFFICES ASSUME u = 1, b_dirt[b] = 0 PROVE b_data'[b] = C[b]
      BY <1>5
    <2>1. C[b] = [h \in Half |-> disk[Home(b, h)]]
      BY <1>5 DEF Content
    <2>2. b_data'[b] \in [Half -> Values]
      BY <1>1
    <2>3. \A h \in Half : b_data'[b][h] = disk[Home(b, h)]
      OBVIOUS
    <2> HIDE DEF C, b
    <2> QED BY <2>1, <2>2, <2>3
  <1>8. Sending = Device!Nothing /\ Sending' = Sending
    BY DEF Nothing, Device!Nothing
  <1>9. Pending[b] # {}
    BY <1>2
  <1> HIDE DEF b, C
  <1>10. Device!End(b, u)
    BY <1>2, <1>3, <1>4, <1>6, <1>7, <1>8, <1>9 DEF Device!End, Device!Received, C
  <1> QED BY <1>1, <1>10 DEF Device!Next, Flag

(* bad_rw_intr ends the transfer, or nobody sees anything. *)
LEMMA BadRwDevice ==
    ASSUME IOInv, queue # <<>>, bad_rw_intr, UNCHANGED <<b_dirt, b_data, disk>>,
           Sending = Nothing, Sending' = Nothing
    PROVE  [Device!Next]_Device!vars
  <1>1. QueueInv /\ b_data \in [Buffers -> [Half -> Values]]
    BY IOInvParts DEF RestTypes
  <1>2. CASE Current.errors + 1 >= MAX_ERRORS
    <2>1. end_request(0)
      BY <1>2 DEF bad_rw_intr
    <2> QED BY <1>1, <2>1, EndDevice DEF Flag
  <1>3. CASE ~(Current.errors + 1 >= MAX_ERRORS)
    <2>1. /\ request_list' = [request_list EXCEPT ![Head(queue)].errors = @ + 1]
          /\ UNCHANGED <<b_uptodate, queue>>
      BY <1>3 DEF bad_rw_intr
    <2>2. Queued' = Queued /\ Queued \subseteq Slots /\ request_list \in [Slots -> Request]
      BY <1>1, <2>1 DEF Queued, QueueInv, QueueTypes
    <2>3. Keep(Queued)
      BY <2>1, <2>2 DEF Keep, Request
    <2> QED BY <2>1, <2>2, <2>3, Stutter
  <1> QED BY <1>2, <1>3

(* do_hd_request sends the first part of a write, or ends a transfer, or   *)
(* only talks to the controller.                                           *)
LEMMA DriverDevice ==
    ASSUME IOInv, CopyInv, NEW c \in {"main", "irq"}, do_hd_request(c)
    PROVE  [Device!Next]_Device!vars
  <1>1. QueueInv /\ RestTypes /\ CommandState
    BY IOInvParts
  <1>2. Sending = Nothing
    <2>1. hd.phase \in {"idle", "wait", "abort"}
      BY DrivingFacts DEF do_hd_request, do_hd_idle, do_hd_reject, do_hd_reset,
         do_hd_recalibrate, do_hd_read, do_hd_write, drq_ready, drq_timeout, Accepts
    <2> QED BY <2>1, SendingFacts
  <1>3. CASE do_hd_idle(c) \/ do_hd_reset(c) \/ do_hd_recalibrate(c) \/ do_hd_read(c) \/ do_hd_write(c)
    <2>1. UNCHANGED <<request_list, queue, b_uptodate, b_dirt, b_data, disk>>
      BY <1>3 DEF do_hd_idle, do_hd_reset, do_hd_recalibrate, do_hd_read, do_hd_write, bufVars
    <2>2. hd' = hd \/ hd'.phase # "busy" \/ hd'.cmd # "WRITE"
      BY <1>3 DEF do_hd_idle, do_hd_reset, do_hd_recalibrate, do_hd_read, do_hd_write, hd_out
    <2>3. Sending' = Sending
      BY <1>2, <2>1, <2>2, SendingFactsNext DEF Sending, Current
    <2> QED BY <2>1, <2>3, Stutter DEF Queued, Keep
  <1>4. CASE do_hd_reject(c)
    <2>1. /\ Driving(c, "do_hd") /\ queue # <<>> /\ end_request(0)
          /\ UNCHANGED <<b_dirt, b_data, hd, disk>>
      BY <1>4 DEF do_hd_reject
    <2>2. hd'.phase # "busy"
      BY <2>1, DrivingFacts
    <2> QED BY <1>1, <1>2, <2>1, <2>2, SendingFactsNext, EndDevice DEF Flag, RestTypes
  <1>5. CASE drq_ready(c)
    <2> DEFINE b == Current.bh
               h == Current.buffer
    <2>1. /\ Driving(c, "drq") /\ port_write(h) /\ hd.phase = "wait"
          /\ UNCHANGED <<request_list, queue, b_uptodate, b_dirt, b_data, disk>>
      BY <1>5 DEF drq_ready, bufVars
    <2>2. InDrq
      BY <1>1, <2>1 DEF Driving, InDrq, RestTypes
    <2>3. /\ queue # <<>> /\ hd.phase = "wait" /\ hd.cmd = "WRITE" /\ Current.cmd = WRITE
          /\ hd.left = Current.nr_sectors
      BY <1>1, <2>1, <2>2 DEF CommandState
    <2>4. b \in Buffers /\ h \in Half /\ Current.nr_sectors \in {1, 2} /\ Head(queue) \in Queued
      BY <1>1, <2>3, CurrentFacts DEF Half
    <2>5. b \in Present
      BY <2>2, <2>4, ContentFacts DEF CopyInv, Transfer, Moving
    <2>6. hd' = [hd EXCEPT !.phase = "busy", !.data = b_data[b][h]]
      BY <2>1, <2>3, <2>4 DEF port_write
    <2>7. hd'.phase = "busy" /\ hd'.cmd = "WRITE" /\ hd'.data = b_data[b][h]
      BY <1>1, <2>3, <2>6 DEF RestTypes
    <2>8. Sending' = [bh |-> b, half |-> h, data |-> b_data[b][h]]
      BY <2>1, <2>7 DEF Sending, Current
    <2>9. Pending[b] = {WRITE}
      BY <1>1, <2>3, <2>4, PendingFacts DEF Current
    <2>10. Pending' = Pending /\ (Content(disk))' = Content(disk)
      BY <2>1, KeepPending DEF Queued, Keep, Content, Present, InPartition, Home
    <2> HIDE DEF b, h
    <2>11. Device!Send(b, h)
      BY <1>2, <2>1, <2>5, <2>8, <2>9, <2>10 DEF Device!Send, Nothing, Device!Nothing
    <2> QED BY <2>4, <2>11 DEF Device!Next
  <1>6. CASE drq_timeout(c)
    <2>1. /\ Driving(c, "drq") /\ bad_rw_intr /\ UNCHANGED <<b_dirt, b_data, disk>>
          /\ hd' = hd \/ hd' = HdIdle
      BY <1>6 DEF drq_timeout
    <2>2. queue # <<>> /\ hd.phase \in {"idle", "wait", "abort"}
      BY <1>1, <2>1, DrivingFacts DEF Driving, InDrq, RestTypes, CommandState
    <2>3. Sending' = Nothing
      BY <2>1, <2>2, HdIdleType, SendingFactsNext
    <2> QED BY <1>2, <2>1, <2>2, <2>3, BadRwDevice
  <1> QED BY <1>3, <1>4, <1>5, <1>6 DEF do_hd_request

(* An interrupt of the current request's sector: the sector has been       *)
(* received or the next one is sent.                                       *)
LEMMA MoreDevice ==
    ASSUME IOInv, CopyInv, NEW r \in {"read_intr", "write_intr"}, Interrupt(r),
           r = "read_intr" => read_intr_more,
           r = "write_intr" => write_intr_more
    PROVE  Device!Next
  <1>1. QueueInv /\ RestTypes /\ CommandState
    BY IOInvParts
  <1>2. /\ hd.phase = "ok" /\ Current.nr_sectors # 1
        /\ UNCHANGED <<queue, b_uptodate, b_dirt, disk>>
        /\ \E e : request_list' = [request_list EXCEPT ![Head(queue)] = Advanced(Current, e)]
    BY DEF read_intr_more, write_intr_more, bufVars
  <1>3. PICK e : request_list' = [request_list EXCEPT ![Head(queue)] = Advanced(Current, e)]
    BY <1>2
  <1> DEFINE b == Current.bh
             C == Content(disk)
  <1>4. /\ queue # <<>> /\ b \in Buffers /\ Current.buffer = 0 /\ hd.left = 1
        /\ InPartition(b) /\ hd.data = disk[Home(b, 0)]
        /\ hd.cmd = IF r = "read_intr" THEN "READ" ELSE "WRITE"
        /\ hd = [cmd |-> hd.cmd, phase |-> hd.phase, lba |-> hd.lba, left |-> hd.left,
                 data |-> hd.data]
    BY <1>2, SectorFacts
  <1>5. /\ Head(queue) \in Queued /\ Head(queue) \in Slots
        /\ Current.cmd = IF r = "read_intr" THEN READ ELSE WRITE
    <2>1. Active /\ handler = r
      BY <1>2, InterruptFacts
    <2> QED BY <1>1, <1>4, <2>1, CurrentFacts DEF CommandState
  <1>6. /\ Current' = Advanced(Current, e)
        /\ Queued' = Queued /\ Keep(Queued)
    <2>1. Queued \subseteq Slots /\ request_list \in [Slots -> Request]
      BY <1>1 DEF Queued, QueueInv, QueueTypes
    <2> QED BY <1>2, <1>3, <1>5, <2>1 DEF Queued, Keep, Current, Advanced
  <1>7. /\ Pending' = Pending /\ (Content(disk))' = C
        /\ Pending[b] = {Current.cmd} /\ b \in Present
    <2>1. (Content(disk))' = C
      BY <1>2 DEF Content, Present, InPartition, Home
    <2> QED BY <1>1, <1>4, <1>5, <1>6, <2>1, KeepPending, PendingFacts, ContentFacts DEF Current
  <1>8. Sending = Nothing
    BY <1>2, SendingFacts
  <1>9. CASE r = "read_intr"
    <2>1. /\ b_data' = [b_data EXCEPT ![b][0] = hd.data]
          /\ hd' = [hd EXCEPT !.phase = "busy", !.data = Zero]
      BY <1>4, <1>9 DEF read_intr_more, port_read
    <2>2. hd'.cmd = "READ"
      BY <1>4, <1>9, <2>1
    <2>3. Sending' = Sending
      BY <1>8, <2>2, SendingFactsNext
    <2>4. 0 \in Half /\ C[b][0] = hd.data
      BY <1>4, <1>7, ContentFacts DEF Half
    <2> HIDE DEF b, C
    <2>5. Device!Receive(b, 0)
      BY <1>2, <1>5, <1>7, <1>9, <2>1, <2>3, <2>4 DEF Device!Receive, Device!Received, C
    <2> QED BY <1>4, <2>4, <2>5 DEF Device!Next, b
  <1>10. CASE r = "write_intr"
    <2>1. /\ hd' = [hd EXCEPT !.phase = "busy", !.data = b_data[b][1]]
          /\ b_data' = b_data
      <3>1. Current.buffer + 1 = 1
        BY <1>4
      <3> QED BY <1>4, <1>10, <3>1 DEF write_intr_more, port_write, bufVars
    <2>2. hd'.phase = "busy" /\ hd'.cmd = "WRITE" /\ hd'.data = b_data[b][1]
      BY <1>4, <1>10, <2>1
    <2>3. Current'.bh = b /\ Current'.buffer = 1
      BY <1>4, <1>6 DEF Advanced
    <2>4. Sending' = [bh |-> b, half |-> 1, data |-> b_data[b][1]]
      BY <2>2, <2>3 DEF Sending
    <2> HIDE DEF b, C
    <2>5. Device!Send(b, 1)
      BY <1>2, <1>5, <1>7, <1>8, <1>10, <2>1, <2>4 DEF Device!Send, Nothing, Device!Nothing, C
    <2>6. 1 \in Half
      BY DEF Half
    <2> QED BY <1>4, <2>5, <2>6 DEF Device!Next, b
  <1> QED BY <1>9, <1>10

LEMMA DoneDevice ==
    ASSUME IOInv, CopyInv, IOInv', NEW r \in {"read_intr", "write_intr"}, Interrupt(r),
           r = "read_intr" => read_intr_done,
           r = "write_intr" => write_intr_done
    PROVE  Device!Next
  <1>1. QueueInv /\ RestTypes /\ CommandState
    BY IOInvParts
  <1>2. /\ hd.phase = "ok" /\ Current.nr_sectors = 1 /\ end_request(1)
        /\ UNCHANGED <<b_dirt, disk>>
    BY DEF read_intr_done, write_intr_done
  <1> DEFINE b == Current.bh
  <1>3. /\ queue # <<>> /\ b \in Buffers /\ Current.buffer = 1 /\ hd.left = 0
        /\ InPartition(b) /\ hd.data = disk[Home(b, 1)]
        /\ r = "write_intr" /\ b_dirt[b] = 0 => hd.data = b_data[b][1]
        /\ b_dirt[b] = 0 => b_data[b][0] = disk[Home(b, 0)]
        /\ b_data \in [Buffers -> [Half -> Values]]
    BY <1>2, SectorFacts
  <1>4. /\ r = "read_intr" => b_data' = [b_data EXCEPT ![b][1] = hd.data]
        /\ r = "write_intr" => b_data' = b_data
    BY <1>3 DEF read_intr_done, write_intr_done, port_read
  <1>5. b_dirt[b] = 0 => \A h \in Half : b_data'[b][h] = disk[Home(b, h)]
    BY <1>3, <1>4 DEF Half
  <1>6. r = "read_intr" => Current.cmd = READ
    <2>1. Active /\ handler = r
      BY <1>2, InterruptFacts
    <2> QED BY <1>1, <2>1 DEF CommandState
  <1>7. \/ b_data' = b_data
        \/ Current.cmd = READ /\ \E h \in Half : b_data' = [b_data EXCEPT ![b][h] = disk[Home(b, h)]]
    BY <1>3, <1>4, <1>6 DEF Half
  <1>8. Sending = Nothing /\ Sending' = Nothing
    <2>1. hd' = HdIdle
      BY <1>3 DEF read_intr_done, write_intr_done, port_read
    <2> QED BY <1>2, <2>1, SendingFacts, SendingFactsNext, HdIdleType
  <1>9. b_data' \in [Buffers -> [Half -> Values]]
    BY DEF IOInv, TypeOK
  <1> QED BY <1>1, <1>2, <1>3, <1>5, <1>7, <1>8, <1>9, EndDevice DEF Flag

LEMMA InterruptDevice ==
    ASSUME IOInv, CopyInv, IOInv', irq_handler PROVE [Device!Next]_Device!vars
  <1>1. CASE \E r \in {"read_intr", "write_intr", "recal_intr"} : intr_error(r)
    <2>1. PICK r : intr_error(r)
      BY <1>1
    <2>2. /\ Interrupt(r) /\ hd.phase = "err" /\ hd' = HdIdle /\ bad_rw_intr
          /\ UNCHANGED <<b_dirt, b_data, disk>>
      BY <2>1 DEF intr_error
    <2>3. queue # <<>>
      BY <2>2, InterruptFacts
    <2>4. Sending = Nothing /\ Sending' = Nothing
      BY <2>2, HdIdleType, SendingFacts, SendingFactsNext
    <2> QED BY <2>2, <2>3, <2>4, BadRwDevice
  <1>2. CASE recal_intr_ok
    <2>1. /\ hd.phase = "ok" /\ hd' = HdIdle
          /\ UNCHANGED <<request_list, queue, b_uptodate, b_dirt, b_data, disk>>
      BY <1>2 DEF recal_intr_ok, bufVars
    <2>2. Sending' = Sending
      BY <2>1, HdIdleType, SendingFacts, SendingFactsNext
    <2> QED BY <2>1, <2>2, Stutter DEF Queued, Keep
  <1>3. CASE read_intr_more \/ write_intr_more
    BY <1>3, MoreDevice DEF read_intr_more, write_intr_more
  <1>4. CASE read_intr_done \/ write_intr_done
    BY <1>4, DoneDevice DEF read_intr_done, write_intr_done
  <1>5. CASE write_intr_abort
    <2>1. /\ hd.phase = "abort" /\ hd' = HdIdle
          /\ UNCHANGED <<b_dirt, b_data, disk>>
          /\ \/ queue # <<>> /\ bad_rw_intr
             \/ UNCHANGED <<request_list, queue, b_uptodate>>
      BY <1>5 DEF write_intr_abort
    <2>2. Sending = Nothing /\ Sending' = Nothing
      BY <2>1, HdIdleType, SendingFacts, SendingFactsNext
    <2>3. CASE queue # <<>> /\ bad_rw_intr
      BY <2>1, <2>2, <2>3, BadRwDevice
    <2>4. CASE UNCHANGED <<request_list, queue, b_uptodate>>
      BY <2>1, <2>2, <2>4, Stutter DEF Queued, Keep
    <2> QED BY <2>1, <2>3, <2>4
  <1> QED BY <1>1, <1>2, <1>3, <1>4, <1>5 DEF irq_handler

(* The controller: a part has been sent, and the drive has it or not. *)
LEMMA ControllerDevice ==
    ASSUME IOInv, CopyInv, controller PROVE [Device!Next]_Device!vars
  <1>1. QueueInv /\ RestTypes /\ CommandState
    BY IOInvParts
  <1>2. /\ hd.phase = "busy" /\ hd'.phase \in {"ok", "err"}
        /\ UNCHANGED <<request_list, queue, b_uptodate, b_dirt, b_data>>
    BY <1>1 DEF controller, hd_read, hd_write, hd_settle, hd_fail, hdUnchanged, bufVars, RestTypes
  <1>3. Sending' = Nothing
    BY <1>2, SendingFactsNext
  <1>4. Queued' = Queued /\ Keep(Queued)
    BY <1>2 DEF Queued, Keep
  <1>5. CASE hd.cmd # "WRITE"
    <2>1. Sending = Nothing
      BY <1>5, SendingFacts
    <2>2. disk' = disk
      BY <1>5 DEF controller, hd_read, hd_write, hd_settle, hd_fail
    <2> QED BY <1>2, <1>3, <1>4, <2>1, <2>2, Stutter
  <1>6. CASE hd.cmd = "WRITE"
    <2> DEFINE b == Current.bh
               h == Current.buffer
               C == Content(disk)
               D == Content(disk')
    <2>1. Sending = [bh |-> b, half |-> h, data |-> hd.data] /\ Sending # Nothing
      BY <1>2, <1>6, SendingFacts
    <2>2. Active /\ Moving /\ queue # <<>>
      BY <1>1, <1>2, <1>6 DEF Active, Moving, CommandState
    <2>3. /\ b \in Buffers /\ h \in Half /\ InPartition(b) /\ hd.lba = Home(b, h)
          /\ Home(b, h) \in Sectors
      <3>1. b \in Buffers /\ h \in Half
        BY <1>1, <2>2, CurrentFacts DEF Request
      <3>2. InPartition(b) /\ hd.lba = Home(b, h)
        BY <1>2, <2>2 DEF CopyInv, Transfer
      <3> QED BY <3>1, <3>2, HomeFacts
    <2>4. b \in Present
      BY <2>3, ContentFacts
    <2>5. disk' = disk \/ disk' = [disk EXCEPT ![hd.lba] = hd.data]
      BY <1>6 DEF controller, hd_read, hd_write, hd_settle, hd_fail
    <2>6. D = C \/ D = [C EXCEPT ![b][h] = hd.data]
      <3>1. CASE disk' = disk
        BY <3>1
      <3>2. CASE disk' = [disk EXCEPT ![Home(b, h)] = hd.data]
        <4>1. ASSUME NEW a \in Present, NEW g \in Half
              PROVE  disk'[Home(a, g)] = IF a = b /\ g = h THEN hd.data ELSE disk[Home(a, g)]
          <5>1. a \in Buffers /\ InPartition(a)
            BY ContentFacts
          <5>2. Home(a, g) \in Sectors /\ (Home(a, g) = Home(b, h) => a = b /\ g = h)
            BY <2>3, <5>1, HomeFacts, DistinctAssumption
          <5>3. disk \in [Sectors -> Values]
            BY <1>1 DEF RestTypes
          <5> HIDE DEF b, h
          <5> QED BY <3>2, <5>2, <5>3
        <4>2. [C EXCEPT ![b][h] = hd.data]
                = [a \in Present |-> IF a = b THEN [C[b] EXCEPT ![h] = hd.data] ELSE C[a]]
          BY <2>4 DEF Content
        <4>3. ASSUME NEW a \in Present
              PROVE  D[a] = IF a = b THEN [C[b] EXCEPT ![h] = hd.data] ELSE C[a]
          <5>1. D[a] = [g \in Half |-> disk'[Home(a, g)]] /\ C[a] = [g \in Half |-> disk[Home(a, g)]]
            BY DEF Content
          <5> HIDE DEF C, D, b, h
          <5> QED BY <4>1, <5>1
        <4>4. D = [a \in Present |-> D[a]]
          BY DEF Content
        <4> HIDE DEF C, D, b, h
        <4> QED BY <4>2, <4>3, <4>4
      <3> HIDE DEF b, h, C, D
      <3> QED BY <2>3, <2>5, <3>1, <3>2
    <2>7. (Content(disk))' = D
      BY DEF Content, Present, InPartition, Home
    <2>8. Pending' = Pending
      BY <1>4, KeepPending
    <2> HIDE DEF b, h, C, D
    <2>9. Device!Sent
      BY <1>2, <1>3, <2>1, <2>6, <2>7, <2>8 DEF Device!Sent, Nothing, Device!Nothing, C
    <2> QED BY <2>3, <2>9 DEF Device!Next
  <1> QED BY <1>5, <1>6

----------------------------------------------------------------------------
(* A buffer that main is about to have written is dirty. *)
Asked == pc.main = "repeat" /\ rw = WRITE => b_dirt[bh] = 1

LEMMA NextAsked == ASSUME IOInv, Asked, [Next]_vars PROVE Asked'
  <1>1. pc \in [main : {"next", "wait", "ll_rw", "repeat", "do_hd", "drq", "reentered", "halt"},
                irq : {"idle", "do_hd", "drq"}] /\ work \in Seq(Steps)
        /\ b_dirt \in [Buffers -> Flag]
    BY DEF IOInv, TypeOK
  <1>2. CASE ll_rw_block
    <2>1. UNCHANGED b_dirt /\ (work' = work \/ pc'.main = "next")
      BY <1>1, <1>2 DEF ll_rw_block, Goto
    <2>2. work' = work /\ pc'.main = "repeat" => ~NothingToDo(rw) \/ pc'.main = "next"
      BY <1>1, <1>2 DEF ll_rw_block, Goto
    <2>3. bh \in Buffers
      BY <1>1, <1>2, WorkHead DEF ll_rw_block, At
    <2>4. b_dirt[bh] \in {0, 1}
      BY <1>1, <2>3 DEF Flag
    <2> QED BY <2>1, <2>2, <2>4 DEF Asked, NothingToDo, rw, bh
  <1>3. CASE ~ll_rw_block
    <2>1. ASSUME pc'.main = "repeat"
          PROVE  pc.main = "repeat" /\ UNCHANGED <<work, b_dirt>>
      <3>1. CASE calls \/ kmain_halt \/ kmain_spin \/ do_hd_reentered \/ UNCHANGED vars
        BY <1>1, <2>1, <3>1 DEF calls, call_read_buff, call_read_buff_page, call_read_buff_ahead,
           call_create_block, call_put_buff, call_sync_dev, call_invalidate_buff,
           call_invalidate_buffs, call_modify, Call, modify, kmain_halt, kmain_spin, ioVars,
           do_hd_reentered, bufVars, vars, AtRest, Goto
      <3>2. CASE \E c \in {"main", "irq"} : do_hd_request(c)
        <4>1. PICK c \in {"main", "irq"} : do_hd_request(c)
          BY <3>2
        <4>2. UNCHANGED <<work, b_dirt>>
          BY <4>1 DEF do_hd_request, do_hd_idle, do_hd_reject, do_hd_reset,
             do_hd_recalibrate, do_hd_read, do_hd_write, drq_ready, drq_timeout, bufVars
        <4>3. \/ pc' = pc \/ pc' = [pc EXCEPT !.main = "next"] \/ pc' = [pc EXCEPT !.irq = "idle"]
              \/ \E l \in {"do_hd", "drq"} : pc' = [pc EXCEPT ![c] = l]
          BY <4>1 DEF do_hd_request, do_hd_idle, do_hd_reject, do_hd_reset,
             do_hd_recalibrate, do_hd_read, do_hd_write, drq_ready, drq_timeout, Return, Goto
        <4> QED BY <1>1, <2>1, <4>2, <4>3
      <3>3. CASE irq_handler
        <4>1. UNCHANGED <<work, b_dirt>>
          BY <3>3 DEF irq_handler, intr_error, read_intr_more, read_intr_done, write_intr_more,
             write_intr_done, write_intr_abort, recal_intr_ok, bufVars
        <4>2. pc' = pc \/ pc' = [pc EXCEPT !.irq = "do_hd"] \/ Enters
          BY <3>3 DEF irq_handler, intr_error, read_intr_more, read_intr_done, write_intr_more,
             write_intr_done, write_intr_abort, recal_intr_ok, Goto, Enters
        <4> QED BY <1>1, <2>1, <4>1, <4>2 DEF Enters
      <3>4. CASE controller \/ hd_abort
        BY <2>1, <3>4 DEF controller, hd_read, hd_write, hd_settle, hd_fail, hd_abort,
           hdUnchanged, bufVars
      <3>5. CASE main_steps /\ ~ll_rw_block /\ ~do_hd_request("main")
        BY <1>1, <2>1, <3>5 DEF main_steps, step_skip, step_cached, step_submit, step_wait,
           wait_spin, wait_end, step_drop, step_clear, step_hold, step_release, repeat_ahead,
           repeat_found, add_request, Goto, Do, At, ioVars, bufVars
      <3> QED BY <1>3, <3>1, <3>2, <3>3, <3>4, <3>5 DEF Next
    <2> QED BY <2>1 DEF Asked, rw, bh
  <1> QED BY <1>2, <1>3

----------------------------------------------------------------------------
(* Main. *)
LEMMA MainSame ==
    ASSUME UNCHANGED <<request_list, queue, hd, disk>>
    PROVE  UNCHANGED <<Pending, Sending, Content(disk)>>
  <1>1. Queued' = Queued /\ Keep(Queued)
    BY DEF Queued, Keep
  <1>2. Pending' = Pending
    BY <1>1, KeepPending
  <1>3. Sending' = Sending
    BY DEF Sending, Current
  <1>4. (Content(disk))' = Content(disk)
    BY DEF Content, Present, InPartition, Home
  <1> QED BY <1>2, <1>3, <1>4

LEMMA MainDevice ==
    ASSUME IOInv, UNCHANGED <<request_list, queue, hd, disk, b_uptodate, b_dirt, b_data>>
    PROVE  [Device!Next]_Device!vars
BY MainSame DEF Device!vars

LEMMA CallsDevice == ASSUME IOInv, calls PROVE [Device!Next]_Device!vars
  <1>1. CASE call_modify
    <2>1. PICK b \in Buffers, h \in Half, v \in Values : modify(b, h, v)
      BY <1>1 DEF call_modify
    <2>2. UNCHANGED <<Pending, Sending, Content(disk)>>
      BY <2>1, MainSame DEF modify, ioVars
    <2>3. Device!Modify(b, h, v)
      BY <2>1, <2>2 DEF modify, Device!Modify
    <2> QED BY <2>3 DEF Device!Next
  <1>2. CASE calls /\ ~call_modify
    <2>1. UNCHANGED <<ioVars, bufVars>>
      BY <1>2 DEF calls, call_read_buff, call_read_buff_page, call_read_buff_ahead,
         call_create_block, call_put_buff, call_sync_dev, call_invalidate_buff,
         call_invalidate_buffs, Call
    <2> QED BY <2>1, MainDevice DEF ioVars, bufVars
  <1> QED BY <1>1, <1>2

(* What main declares void or clears is not being transferred. *)
LEMMA VoidDevice ==
    ASSUME IOInv, step_drop \/ step_clear PROVE Device!Next
  <1>1. QueueInv /\ work # <<>> /\ work \in Seq(Steps) /\ pc.main = "next"
        /\ Head(work).op \in NeedsUnlocked
    BY IOInvParts DEF RestTypes, step_drop, step_clear, Do, At, NeedsUnlocked
  <1>2. bh \in Buffers /\ b_lock[bh] = 0
    BY <1>1, WorkHead DEF IOInv, WorkOK
  <1>3. Pending[bh] = {}
    BY <1>1, <1>2, PendingFacts
  <1>4. UNCHANGED <<Pending, Sending, Content(disk)>>
    BY MainSame DEF step_drop, step_clear, ioVars
  <1>5. CASE step_drop
    <2>1. Device!Drop(bh)
      BY <1>3, <1>4, <1>5 DEF step_drop, Device!Drop
    <2> QED BY <1>2, <2>1 DEF Device!Next
  <1>6. CASE step_clear
    <2>1. Device!Clear(bh)
      BY <1>3, <1>4, <1>6 DEF step_clear, Device!Clear
    <2> QED BY <1>2, <2>1 DEF Device!Next
  <1> QED BY <1>5, <1>6

(* add_request asks the device for a transfer. *)
LEMMA FoundDevice ==
    ASSUME IOInv, CopyInv, Asked, repeat_found PROVE Device!Next
  <1>1. QueueInv /\ CommandState /\ work \in Seq(Steps)
    BY IOInvParts DEF RestTypes
  <1>2. PICK s \in Slots, r \in Request :
            /\ r = NewRequest(bh, rw) /\ r.bh = bh /\ bh \in Buffers
            /\ s \notin Queued /\ Queued' = Queued \cup {s}
            /\ request_list' = [request_list EXCEPT ![s] = r]
            /\ b_dirt' = [b_dirt EXCEPT ![bh] = 0]
            /\ queue # <<>> => Head(queue') = Head(queue)
    BY EnqueueFacts
  <1>3. /\ UNCHANGED <<b_uptodate, b_data, hd, disk>>
        /\ pc.main = "repeat" /\ work # <<>> /\ Submitting(bh)
    BY DEF repeat_found, At, Submitting
  <1>4. Pending[bh] = {} /\ \A t \in Queued : request_list[t].bh # bh
    BY <1>1, <1>2, <1>3, PendingFacts, CarriedFacts
  <1>5. Pending' = [Pending EXCEPT ![bh] = {r.cmd}]
    BY <1>1, <1>2, <1>4, FoundPending
  <1>6. Sending' = Sending
    <2>1. CASE hd.phase = "busy" /\ hd.cmd = "WRITE"
      <3>1. queue # <<>> /\ Head(queue) \in Queued
        BY <1>1, <2>1, CurrentFacts DEF CommandState, Active
      <3>2. Current' = Current
        <4>1. Head(queue) \in Slots /\ Head(queue) # s /\ request_list \in [Slots -> Request]
          BY <1>1, <1>2, <3>1, CurrentFacts DEF QueueInv, QueueTypes
        <4> QED BY <1>2, <3>1, <4>1 DEF Current
      <3> QED BY <1>3, <3>2 DEF Sending
    <2>2. CASE hd.phase # "busy" \/ hd.cmd # "WRITE"
      BY <1>3, <2>2, SendingFacts, SendingFactsNext
    <2> QED BY <2>1, <2>2
  <1>7. (Content(disk))' = Content(disk)
    BY <1>3 DEF Content, Present, InPartition, Home
  <1>8. r.cmd \in {READ, WRITE} /\ IF r.cmd = WRITE THEN b_dirt[bh] = 1 ELSE b_uptodate[bh] = 0
    <2>1. rw = WRITE => b_dirt[bh] = 1
      BY <1>3 DEF Asked
    <2>2. rw # WRITE => b_uptodate[bh] = 0
      BY <1>3 DEF CopyInv, Unread
    <2>3. r.cmd = IF rw = WRITE THEN WRITE ELSE READ
      BY <1>2 DEF NewRequest
    <2> QED BY <2>1, <2>2, <2>3 DEF READ, WRITE
  <1>9. Device!Submit(bh, r.cmd)
    BY <1>2, <1>3, <1>4, <1>5, <1>6, <1>7, <1>8 DEF Device!Submit
  <1> QED BY <1>2, <1>8, <1>9 DEF Device!Next

LEMMA StepsDevice ==
    ASSUME IOInv, CopyInv, Asked, main_steps PROVE [Device!Next]_Device!vars
  <1>1. CASE step_drop \/ step_clear
    BY <1>1, VoidDevice
  <1>2. CASE repeat_found
    BY <1>2, FoundDevice
  <1>3. CASE do_hd_request("main")
    BY <1>3, DriverDevice
  <1>4. CASE ll_rw_block \/ repeat_ahead
    BY <1>4, MainDevice DEF ll_rw_block, repeat_ahead, ioVars
  <1>5. CASE \/ step_skip \/ step_cached \/ step_submit \/ step_wait \/ wait_spin \/ wait_end
             \/ step_hold \/ step_release
    BY <1>5, MainDevice DEF step_skip, step_cached, step_submit, step_wait, wait_spin, wait_end,
       step_hold, step_release, ioVars, bufVars
  <1> QED BY <1>1, <1>2, <1>3, <1>4, <1>5 DEF main_steps

LEMMA NextDevice ==
    ASSUME IOInv, CopyInv, Asked, IOInv', [Next]_vars PROVE [Device!Next]_Device!vars
  <1>1. CASE kmain_halt \/ kmain_spin \/ do_hd_reentered \/ UNCHANGED vars
    BY <1>1, MainDevice DEF kmain_halt, kmain_spin, do_hd_reentered, ioVars, bufVars, vars
  <1>2. CASE calls
    BY <1>2, CallsDevice
  <1>3. CASE main_steps
    BY <1>3, StepsDevice
  <1>4. CASE irq_handler
    BY <1>4, InterruptDevice
  <1>5. CASE do_hd_request("irq")
    BY <1>5, DriverDevice
  <1>6. CASE controller
    BY <1>6, ControllerDevice
  <1>7. CASE hd_abort
    <2>1. /\ hd.phase = "wait" /\ hd'.phase = "abort"
          /\ UNCHANGED <<request_list, queue, b_uptodate, b_dirt, b_data, disk>>
      BY <1>7 DEF hd_abort, hdUnchanged, bufVars, IOInv, TypeOK
    <2>2. Sending' = Sending
      BY <2>1, SendingFacts, SendingFactsNext
    <2> QED BY <2>1, <2>2, Stutter DEF Queued, Keep
  <1> QED BY <1>1, <1>2, <1>3, <1>4, <1>5, <1>6, <1>7 DEF Next

LEMMA InitDevice == Init => Device!Init
  <1> SUFFICES ASSUME Init PROVE Device!Init
    OBVIOUS
  <1>1. Queued = {}
    BY DEF Init, Queued
  <1>2. Pending = [b \in Buffers |-> {}]
    BY <1>1 DEF Pending
  <1>3. Sending = Nothing
    BY SendingFacts DEF Init, HdIdle
  <1> QED BY <1>2, <1>3 DEF Init, Device!Init, Nothing, Device!Nothing

(* Seen from the cache, the queue with its elevator, the driver with its   *)
(* retries and the interrupt handler are a device that transfers blocks in *)
(* the background, in any order and with any outcome, and that touches no  *)
(* buffer whose transfer has ended.                                        *)
THEOREM IsDevice == Spec => ImplementsDevice
  <1>1. Init => CopyInv /\ Asked
    BY InitCopy DEF Init, Asked
  <1>2. IOInv /\ IOInv' /\ CopyInv /\ Asked /\ [Next]_vars => CopyInv' /\ Asked'
    BY NextCopy, NextAsked
  <1>3. IOInv /\ IOInv' /\ CopyInv /\ Asked /\ [Next]_vars => [Device!Next]_Device!vars
    BY NextDevice
  <1> QED BY <1>1, <1>2, <1>3, InitDevice, Invariance, PTL DEF Spec, ImplementsDevice, Device!Spec

=============================================================================
