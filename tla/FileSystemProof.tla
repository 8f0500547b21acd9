-------------------------- MODULE FileSystemProof --------------------------
(***************************************************************************)
(* Proofs about the calls on a directory, for any number of entries to a   *)
(* block, any directory and any names, and about the table of mounted      *)
(* devices, for any number of entries and bitmap blocks.                   *)
(***************************************************************************)
EXTENDS FileSystem, LeastNumber

Call == [op : {"none", "lookup", "create"}, name : Names \cup {<<>>}, i : Nat, de : Nat,
         bh : {NoBlock} \cup 0..(MaxBlocks - 1)]

(* Types, and de within the buffer it points into or at its end.           *)
CallOK ==
    /\ entry = [i \in Places |-> entry[i]]
    /\ i_size \in Nat /\ blocks \in 1..MaxBlocks /\ unread \subseteq Nat
    /\ call \in Call
    /\ Idle => call.bh = NoBlock
    /\ call.bh # NoBlock => /\ call.bh < blocks
                            /\ call.bh * PER <= call.de /\ call.de <= (call.bh + 1) * PER

(* As long as no foreign memory was used, i and de are in step, and all    *)
(* blocks that could not be read lie behind.                               *)
InStep ==
    ~Idle /\ ~wild =>
        /\ IF call.bh # NoBlock THEN call.i = call.de /\ \A k \in unread : k < call.bh
                                ELSE \E k \in unread : call.i = (k + 1) * PER
        /\ \A k \in unread : k # 0 /\ (k + 1) * PER <= call.i

(* What a lookup has passed does not match.                                *)
NoMatchYet ==
    call.op = "lookup" /\ ~wild =>
        \A j \in Places : /\ j < call.i /\ j < i_size /\ j \div PER \notin unread
                          => ~match(call.name, entry[j].name)

Clean == Idle => ~wild

DInv == CallOK /\ Clean /\ OneBuffer /\ InStep /\ NoMatchYet
        /\ LookupRight /\ LastBlockHarmless /\ CreatedIsNamed

-----------------------------------------------------------------------------
(* Blocks of entries. *)

LEMMA Sizes == PER \in Nat \ {0} /\ MaxBlocks \in Nat \ {0}
BY DirectoryAssumption

LEMMA Order ==
    ASSUME NEW a \in Nat, NEW b \in Nat, a <= b
    PROVE  a * PER <= b * PER /\ a * PER \in Nat /\ (a + 1) * PER = a * PER + PER
  <1>1. PICK d \in Nat : b = a + d
    <2>1. b - a \in Nat /\ b = a + (b - a)
      OBVIOUS
    <2> QED BY <2>1
  <1>2. (a + d) * PER = a * PER + d * PER /\ (a + 1) * PER = a * PER + PER
    BY Sizes
  <1>3. d * PER \in Nat /\ a * PER \in Nat
    BY Sizes
  <1> QED BY <1>1, <1>2, <1>3

LEMMA BlockBounds ==
    ASSUME NEW i \in Nat
    PROVE  /\ i \div PER \in Nat
           /\ (i \div PER) * PER <= i /\ i < (i \div PER + 1) * PER
  <1> DEFINE q == i \div PER
  <1>1. q \in Nat /\ i % PER \in 0..(PER - 1) /\ i = PER * q + (i % PER)
    BY Sizes
  <1> HIDE DEF q
  <1>2. PER * q = q * PER /\ q * PER \in Nat /\ (q + 1) * PER = q * PER + PER
    BY <1>1, Order, Sizes
  <1>3. q \in Nat /\ q * PER <= i /\ i < (q + 1) * PER
    BY <1>1, <1>2, Sizes
  <1> QED BY <1>3 DEF q

LEMMA BlockOf ==
    ASSUME NEW i \in Nat, NEW k \in Nat, k * PER <= i, i < (k + 1) * PER
    PROVE  i \div PER = k
  <1> DEFINE q == i \div PER
  <1>1. q \in Nat /\ q * PER <= i /\ i < (q + 1) * PER
    BY BlockBounds
  <1> HIDE DEF q
  <1>2. ~(q < k)
    <2> SUFFICES ASSUME q < k PROVE FALSE
      OBVIOUS
    <2>1. (q + 1) * PER <= k * PER /\ (q + 1) * PER \in Nat /\ k * PER \in Nat
      BY <1>1, Order
    <2> QED BY <1>1, <2>1
  <1>3. ~(k < q)
    <2> SUFFICES ASSUME k < q PROVE FALSE
      OBVIOUS
    <2>1. (k + 1) * PER <= q * PER /\ (k + 1) * PER \in Nat /\ q * PER \in Nat
      BY <1>1, Order
    <2> QED BY <1>1, <2>1
  <1>4. q = k
    BY <1>1, <1>2, <1>3
  <1> QED BY <1>4 DEF q

LEMMA InPlaces ==
    ASSUME NEW i \in Nat, NEW k \in 0..(MaxBlocks - 1), i < (k + 1) * PER
    PROVE  i \in Places
  <1>1. (k + 1) * PER <= MaxBlocks * PER /\ (k + 1) * PER \in Nat /\ MaxBlocks * PER \in Nat
    BY Sizes, Order
  <1> QED BY <1>1 DEF Places

LEMMA PlacesInNat == Places \subseteq Nat
BY DEF Places

-----------------------------------------------------------------------------
(* The calls. *)

LEMMA InitBlocks == (size0 + PER - 1) \div PER \in 1..MaxBlocks
  <1> DEFINE q == (size0 + PER - 1) \div PER
  <1>1. MaxBlocks * PER \in Nat /\ (MaxBlocks + 1) * PER = MaxBlocks * PER + PER
        /\ (0 + 1) * PER = PER
    BY Sizes, Order
  <1>2. size0 \in Nat /\ 1 <= size0 /\ size0 <= MaxBlocks * PER /\ size0 + PER - 1 \in Nat
    BY <1>1, Sizes, DirectoryAssumption
  <1>3. q \in Nat /\ q * PER <= size0 + PER - 1 /\ size0 + PER - 1 < (q + 1) * PER
    BY <1>2, BlockBounds
  <1> HIDE DEF q
  <1>4. ~(q > MaxBlocks)
    <2> SUFFICES ASSUME q > MaxBlocks PROVE FALSE
      OBVIOUS
    <2>1. (MaxBlocks + 1) * PER <= q * PER /\ q * PER \in Nat
      BY <1>3, Sizes, Order
    <2> QED BY <1>1, <1>2, <1>3, <2>1, Sizes
  <1>5. q # 0
    BY <1>1, <1>2, <1>3, Sizes
  <1>6. q \in 1..MaxBlocks
    BY <1>3, <1>4, <1>5, Sizes
  <1> QED BY <1>6 DEF q

LEMMA InitDInv == FileSystemInit => DInv
  <1> SUFFICES ASSUME FileSystemInit PROVE DInv
    OBVIOUS
  <1>1. Init
    BY DEF FileSystemInit
  <1>2. size0 \in Nat /\ blocks \in 1..MaxBlocks /\ entry = [i \in Places |-> entry[i]]
    <2>1. MaxBlocks * PER \in Nat
      BY Sizes, Order
    <2>2. entry0 = [i \in Places |-> entry0[i]]
      BY DirectoryAssumption DEF Places
    <2> QED BY <1>1, <2>1, <2>2, InitBlocks, DirectoryAssumption DEF Init
  <1>3. call = NoCall /\ call \in Call /\ Idle /\ held = 0 /\ unread = {} /\ last = NoResult
        /\ i_size = size0
    BY <1>1 DEF Init, NoCall, Call, Idle
  <1>4. Clean
    BY <1>1, Zenon DEF Init, Clean
  <1> QED BY <1>2, <1>3, <1>4 DEF DInv, CallOK, OneBuffer, InStep, NoMatchYet, LookupRight,
             LastBlockHarmless, CreatedIsNamed, NoCall, NoResult, Idle

(* Both calls begin with the first block, or with its failure. *)
LEMMA StartInv ==
    ASSUME DInv, NEW name \in Names, NEW op \in {"lookup", "create"}, start(op, name)
    PROVE  DInv'
  <1>1. Idle /\ UNCHANGED <<entry, i_size, blocks, wild>> /\ call.bh = NoBlock /\ held = 0
        /\ 0 < blocks
    BY DEF start, DInv, CallOK, OneBuffer
  <1>2. ~wild' /\ Clean'
    BY <1>1, Zenon DEF DInv, Clean
  <1>3. CASE call' = [NoCall EXCEPT !.op = op, !.name = name, !.bh = 0]
             /\ held' = 1 /\ unread' = {} /\ last' = NoResult
    <2>1. call' = [op |-> op, name |-> name, i |-> 0, de |-> 0, bh |-> 0]
      BY <1>3 DEF NoCall
    <2>2. call' \in Call
      BY <2>1, Sizes DEF Call
    <2>3. call'.op = op /\ call'.i = 0 /\ call'.de = 0 /\ call'.bh = 0 /\ ~Idle'
      BY <2>1 DEF Idle
    <2>4. 0 * PER = 0 /\ (0 + 1) * PER = PER
      BY Sizes
    <2>5. CallOK'
      BY <1>1, <1>3, <2>2, <2>3, <2>4, Sizes DEF DInv, CallOK, NoBlock
    <2>6. OneBuffer'
      BY <1>3, <2>3 DEF OneBuffer, NoBlock
    <2>7. InStep' /\ NoMatchYet' /\ LastBlockHarmless'
      <3>1. InStep'
        BY <1>3, <2>3 DEF InStep, NoBlock
      <3>2. NoMatchYet'
        BY <2>3, PlacesInNat DEF NoMatchYet
      <3>3. LastBlockHarmless'
        BY <1>2, Zenon DEF LastBlockHarmless
      <3> QED BY <3>1, <3>2, <3>3
    <2>8. LookupRight' /\ CreatedIsNamed'
      BY <2>3 DEF LookupRight, CreatedIsNamed
    <2> QED BY <1>2, <2>5, <2>6, <2>7, <2>8 DEF DInv
  <1>4. CASE /\ last' = [op |-> op, name |-> name, inode |-> Null] /\ unread' = {0}
             /\ UNCHANGED <<call, held>>
    <2>1. Idle' /\ call'.bh = NoBlock
      BY <1>1, <1>4 DEF Idle
    <2>2. CallOK' /\ OneBuffer'
      BY <1>1, <1>4, <2>1 DEF DInv, CallOK, OneBuffer, Idle
    <2>3. InStep' /\ NoMatchYet' /\ LastBlockHarmless'
      BY <2>1 DEF InStep, NoMatchYet, LastBlockHarmless, Idle
    <2>4. LookupRight' /\ CreatedIsNamed'
      BY <1>4 DEF LookupRight, CreatedIsNamed, Null
    <2> QED BY <1>2, <2>2, <2>3, <2>4 DEF DInv
  <1> QED BY <1>3, <1>4 DEF start

(* The end of a call gives back the buffer of its block. *)
LEMMA EndInv ==
    ASSUME DInv, ~Idle, End, UNCHANGED blocks, i_size' \in Nat,
           entry' = [i \in Places |-> entry'[i]],
           unread' \subseteq Nat, LookupRight', CreatedIsNamed'
    PROVE  DInv'
  <1>1. call' = NoCall /\ call' \in Call /\ Idle' /\ call'.bh = NoBlock /\ call'.op = "none"
    BY DEF End, NoCall, Call, Idle
  <1>2. held' = 0
    BY DEF End, put_buff, DInv, OneBuffer
  <1>3. Clean'
    BY Zenon DEF End, Clean
  <1>4. CallOK' /\ OneBuffer'
    BY <1>1, <1>2 DEF DInv, CallOK, OneBuffer
  <1>5. InStep' /\ NoMatchYet' /\ LastBlockHarmless'
    BY <1>1 DEF InStep, NoMatchYet, LastBlockHarmless
  <1> QED BY <1>3, <1>4, <1>5 DEF DInv

LEMMA CallFields ==
    ASSUME DInv
    PROVE  /\ call.i \in Nat /\ call.de \in Nat /\ call.bh \in {NoBlock} \cup 0..(MaxBlocks - 1)
           /\ call.op \in {"none", "lookup", "create"} /\ call \in Call
           /\ i_size \in Nat /\ blocks \in 1..MaxBlocks
           /\ Block \in Nat
BY BlockBounds DEF DInv, CallOK, Call, Block

(* The block behind the one that is at its end. *)
LEMMA AtBorder ==
    ASSUME DInv, ~Idle, ~wild, IsEnd
    PROVE  /\ call.i = Block * PER /\ Block # 0 /\ (Block + 1) * PER = call.i + PER
           /\ \A k \in unread : k < Block /\ k # 0
  <1>1. call.i \in Nat /\ call.de \in Nat /\ unread \subseteq Nat /\ Block \in Nat
    BY CallFields DEF DInv, CallOK
  <1>2. \A k \in unread : k # 0 /\ (k + 1) * PER <= call.i
    BY DEF DInv, InStep
  <1>3. PICK n \in Nat : call.i = (n + 1) * PER
    <2>1. CASE call.bh = NoBlock
      BY <1>1, <2>1 DEF DInv, InStep
    <2>2. CASE call.bh # NoBlock
      <3>1. call.bh \in Nat
        BY <2>2, CallFields
      <3>2. (call.bh + 1) * PER \in Nat
        BY <3>1, Order
      <3>3. call.i = call.de /\ call.de >= (call.bh + 1) * PER /\ call.de <= (call.bh + 1) * PER
        BY <2>2 DEF DInv, CallOK, InStep, IsEnd
      <3> QED BY <1>1, <3>1, <3>2, <3>3
    <2> QED BY <2>1, <2>2
  <1>4. (n + 1) * PER \in Nat /\ (n + 1 + 1) * PER = (n + 1) * PER + PER
    BY Order
  <1>5. Block = n + 1
    BY <1>3, <1>4, BlockOf, Sizes DEF Block
  <1>6. \A k \in unread : k < Block
    <2> SUFFICES ASSUME NEW k \in unread, Block <= k PROVE FALSE
      BY <1>1
    <2>1. k \in Nat /\ (k + 1) * PER <= call.i
      BY <1>1, <1>2
    <2>2. (Block + 1) * PER <= (k + 1) * PER /\ (k + 1) * PER \in Nat
      BY <1>1, <2>1, Order
    <2> QED BY <1>3, <1>4, <1>5, <2>1, <2>2, Sizes
  <1> QED BY <1>2, <1>3, <1>4, <1>5, <1>6

LEMMA NextBlock ==
    ASSUME DInv, ~Idle, IsEnd, next_block, blocks' \in blocks..MaxBlocks
    PROVE  DInv'
  <1>1. /\ UNCHANGED <<entry, i_size, wild, last>> /\ call.i \in Nat /\ call \in Call
        /\ blocks \in 1..MaxBlocks /\ blocks' \in 1..MaxBlocks /\ Block \in Nat
        /\ unread \subseteq Nat /\ entry = [i \in Places |-> entry[i]] /\ i_size \in Nat
    BY CallFields DEF next_block, DInv, CallOK
  <1>2. CASE /\ Block < blocks'
             /\ call' = [call EXCEPT !.bh = Block, !.de = Block * PER]
             /\ held' = held - (IF call.bh = NoBlock THEN 0 ELSE 1) + 1
             /\ UNCHANGED unread
    <2>1. Block \in 0..(MaxBlocks - 1) /\ Block * PER \in Nat
          /\ (Block + 1) * PER = Block * PER + PER
      BY <1>1, <1>2, Order, Sizes
    <2>2. call' \in Call
      BY <1>1, <1>2, <2>1 DEF Call
    <2>3. call'.bh = Block /\ call'.de = Block * PER /\ UNCHANGED <<call.op, call.i, call.name>>
      BY <1>1, <1>2 DEF Call
    <2>4. CallOK' /\ ~Idle'
      BY <1>1, <1>2, <2>1, <2>2, <2>3, Sizes DEF CallOK, Idle, NoBlock
    <2>5. OneBuffer'
      BY <1>2, <2>1, <2>3 DEF DInv, OneBuffer, NoBlock
    <2>6. InStep'
      <3>1. CASE wild
        BY <1>1, <3>1, Zenon DEF InStep
      <3>2. CASE ~wild
        <4>1. call.i = Block * PER /\ \A k \in unread : k < Block
          BY <3>2, AtBorder
        <4>2. \A k \in unread : k # 0 /\ (k + 1) * PER <= call.i
          BY <3>2 DEF DInv, InStep
        <4> QED BY <1>2, <2>1, <2>3, <4>1, <4>2 DEF InStep, NoBlock
      <3> QED BY <3>1, <3>2
    <2>7. NoMatchYet' /\ LastBlockHarmless'
      BY <1>1, <1>2, <2>3 DEF DInv, NoMatchYet, LastBlockHarmless
    <2> QED BY <2>4, <2>5, <2>6, <2>7 DEF DInv, Clean, LookupRight, CreatedIsNamed
  <1>3. CASE /\ call' = [call EXCEPT !.bh = NoBlock, !.de = 0, !.i = call.i + PER]
             /\ put_buff
             /\ unread' = unread \cup {Block}
    <2>1. call' \in Call
      <3>1. call.i + PER \in Nat
        BY <1>1, Sizes
      <3> QED BY <1>1, <1>3, <3>1 DEF Call
    <2>2. call'.bh = NoBlock /\ call'.i = call.i + PER /\ UNCHANGED <<call.op, call.name>>
      BY <1>1, <1>3 DEF Call
    <2>3. CallOK' /\ ~Idle'
      BY <1>1, <1>3, <2>1, <2>2 DEF CallOK, Idle
    <2>4. OneBuffer'
      BY <1>3, <2>2 DEF DInv, OneBuffer, put_buff
    <2>5. InStep'
      <3>1. CASE wild
        BY <1>1, <3>1, Zenon DEF InStep
      <3>2. CASE ~wild
        <4>1. Block # 0 /\ (Block + 1) * PER = call.i + PER
          BY <3>2, AtBorder
        <4>2. \A k \in unread : k # 0 /\ (k + 1) * PER <= call.i /\ (k + 1) * PER \in Nat
          BY <1>1, <3>2, Order DEF DInv, InStep
        <4>3. \A k \in unread' : k # 0 /\ (k + 1) * PER <= call'.i
          BY <1>1, <1>3, <2>2, <4>1, <4>2, Sizes
        <4> QED BY <1>3, <2>2, <4>1, <4>3 DEF InStep
      <3> QED BY <3>1, <3>2
    <2>6. NoMatchYet'
      <3>1. SUFFICES ASSUME call.op = "lookup", ~wild, NEW j \in Places, j < call.i + PER,
                            j < i_size, j \div PER \notin unread', j \div PER # Block
                     PROVE  ~match(call.name, entry[j].name)
        BY <1>1, <1>3, <2>2 DEF NoMatchYet
      <3>2. call.i = Block * PER /\ (Block + 1) * PER = call.i + PER
        BY <3>1, AtBorder
      <3>3. j \in Nat
        BY PlacesInNat
      <3>4. j < call.i
        <4>1. SUFFICES ASSUME call.i <= j PROVE FALSE
          BY <1>1, <3>3
        <4>2. j \div PER = Block
          BY <1>1, <3>1, <3>2, <3>3, <4>1, BlockOf
        <4> QED BY <3>1, <4>2
      <3> QED BY <1>3, <3>1, <3>4 DEF DInv, NoMatchYet
    <2>7. LastBlockHarmless'
      BY <1>1, <1>3, <2>2 DEF DInv, LastBlockHarmless
    <2> QED BY <1>1, <2>3, <2>4, <2>5, <2>6, <2>7 DEF DInv, Clean, LookupRight, CreatedIsNamed
  <1> QED BY <1>2, <1>3 DEF next_block

(* An entry of a buffer is in the directory. *)
LEMMA AtEntry ==
    ASSUME DInv, call.bh # NoBlock, IsEntry
    PROVE  /\ ~Idle /\ call.de \in Places /\ call.de \div PER = call.bh
           /\ call.bh \in Nat /\ call.bh < blocks
           /\ call.de + 1 <= (call.bh + 1) * PER
           /\ ~wild => call.i = call.de /\ call.bh \notin unread
  <1>1. ~Idle /\ call.bh \in 0..(MaxBlocks - 1) /\ call.de \in Nat /\ call.i \in Nat
        /\ call.bh < blocks /\ call.bh * PER <= call.de
    BY CallFields DEF DInv, CallOK
  <1>2. (call.bh + 1) * PER \in Nat
    BY <1>1, Order
  <1>3. call.de < (call.bh + 1) * PER
    BY DEF IsEntry
  <1>4. call.de \in Places
    BY <1>1, <1>3, InPlaces
  <1>5. call.de \div PER = call.bh
    BY <1>1, <1>3, BlockOf
  <1>6. ~wild => call.i = call.de /\ call.bh \notin unread
    BY <1>1 DEF DInv, InStep
  <1> QED BY <1>1, <1>2, <1>3, <1>4, <1>5, <1>6

(* The loops go on to the next entry of the buffer. *)
LEMMA NextEntry ==
    ASSUME DInv, call.bh # NoBlock, IsEntry, Next_entry,
           UNCHANGED <<entry, i_size, blocks, held, unread, wild, last>>,
           call.op = "lookup" => ~match(call.name, entry[call.de].name)
    PROVE  DInv'
  <1>1. call.i \in Nat /\ call.de \in Nat /\ call \in Call /\ ~Idle /\ call.bh \in Nat
    BY CallFields, AtEntry
  <1>2. call' \in Call /\ ~Idle'
    <2>1. call.i + 1 \in Nat /\ call.de + 1 \in Nat
      BY <1>1
    <2> QED BY <1>1, <2>1 DEF Next_entry, Call, Idle
  <1>3. /\ call'.i = call.i + 1 /\ call'.de = call.de + 1
        /\ UNCHANGED <<call.op, call.name, call.bh>>
    BY <1>1 DEF Next_entry, Call
  <1>4. call.bh * PER \in Nat /\ (call.bh + 1) * PER \in Nat
    BY <1>1, Order
  <1>5. CallOK' /\ OneBuffer'
    BY <1>1, <1>2, <1>3, <1>4, AtEntry DEF DInv, CallOK, OneBuffer
  <1>6. InStep'
    <2>1. CASE wild
      BY <2>1, Zenon DEF InStep
    <2>2. CASE ~wild
      <3>1. \A k \in unread : k < call.bh /\ k # 0 /\ (k + 1) * PER <= call.i
                              /\ (k + 1) * PER \in Nat
        BY <1>1, <2>2, Order DEF DInv, CallOK, InStep
      <3>2. call.i = call.de
        BY <2>2, AtEntry
      <3> QED BY <1>1, <1>3, <3>1, <3>2 DEF InStep
    <2> QED BY <2>1, <2>2
  <1>7. NoMatchYet'
    <2>1. SUFFICES ASSUME call.op = "lookup", ~wild, NEW j \in Places, j < call.i + 1,
                          j < i_size, j \div PER \notin unread
                   PROVE  ~match(call.name, entry[j].name)
      BY <1>3 DEF NoMatchYet
    <2>2. CASE j = call.i
      BY <2>1, <2>2, AtEntry
    <2>3. CASE j # call.i
      <3>1. j < call.i
        BY <1>1, <2>1, <2>3, PlacesInNat
      <3> QED BY <2>1, <3>1 DEF DInv, NoMatchYet
    <2> QED BY <2>2, <2>3
  <1>8. LastBlockHarmless'
    BY <1>3 DEF DInv, LastBlockHarmless
  <1> QED BY <1>2, <1>5, <1>6, <1>7, <1>8 DEF DInv, Clean, LookupRight, CreatedIsNamed

(* ... or on behind the buffers, which a lookup does only after a block    *)
(* that could not be read, with more entries behind it.                    *)
LEMMA NextForeign ==
    ASSUME DInv, ~Idle, call.bh = NoBlock, Next_foreign, wild' = TRUE,
           call.op = "lookup" => call.i < i_size,
           UNCHANGED <<entry, i_size, blocks, held, unread, last>>
    PROVE  DInv'
  <1>1. call.i \in Nat /\ call \in Call
    BY CallFields
  <1>2. call' \in Call /\ ~Idle' /\ UNCHANGED <<call.op, call.name, call.bh>>
    BY <1>1 DEF Next_foreign, Call, Idle
  <1>3. CallOK' /\ OneBuffer'
    BY <1>1, <1>2 DEF DInv, CallOK, OneBuffer
  <1>4. InStep' /\ NoMatchYet'
    BY Zenon DEF InStep, NoMatchYet
  <1>5. call.op = "lookup" => \E k \in unread : (k + 1) * PER < i_size
    <2>1. CASE wild
      BY <2>1 DEF DInv, LastBlockHarmless
    <2>2. CASE ~wild
      <3>1. \E k \in unread : call.i = (k + 1) * PER
        BY <2>2 DEF DInv, InStep
      <3> QED BY <3>1
    <2> QED BY <2>1, <2>2
  <1>6. LastBlockHarmless'
    BY <1>2, <1>5 DEF LastBlockHarmless
  <1> QED BY <1>2, <1>3, <1>4, <1>6 DEF DInv, Clean, LookupRight, CreatedIsNamed

-----------------------------------------------------------------------------
(* retain_inode_by_name. *)

LEMMA LookupEntry ==
    ASSUME DInv, lookup_entry
    PROVE  DInv'
  <1>1. /\ call.op = "lookup" /\ call.i < i_size /\ IsEntry /\ call.bh # NoBlock
        /\ UNCHANGED <<entry, i_size, blocks>>
    BY DEF lookup_entry, Looking
  <1>2. CASE ~match(call.name, entry[call.de].name)
    BY <1>1, <1>2, NextEntry DEF lookup_entry
  <1>3. CASE match(call.name, entry[call.de].name)
    <2> DEFINE found == entry[call.de].inode
    <2>1. Return(found) /\ found # 0
      BY <1>3 DEF lookup_entry
    <2>2. ~Idle /\ End /\ call.de \in Places /\ call.de \in Nat
      BY <1>1, <2>1, AtEntry, PlacesInNat DEF Return
    <2>3. CASE wild
      <3>1. last' = NoResult /\ unread' = {}
        BY <2>1, <2>3 DEF Return, Lost
      <3>2. LookupRight' /\ CreatedIsNamed'
        BY <3>1 DEF LookupRight, CreatedIsNamed, NoResult
      <3> QED BY <1>1, <2>2, <3>1, <3>2, EndInv DEF DInv, CallOK
    <2>4. CASE ~wild
      <3>1. last' = [op |-> "lookup", name |-> call.name, inode |-> found] /\ unread' = unread
        BY <1>1, <2>1, <2>4 DEF Return
      <3>2. call.de = call.i /\ call.de \div PER \notin unread /\ 0 \notin unread
        BY <1>1, <2>2, <2>4, AtEntry DEF DInv, InStep
      <3>3. call.de \in Matching(call.name)
        BY <1>1, <1>3, <2>2, <3>2 DEF Matching
      <3>4. \A j \in Matching(call.name) : call.de <= j
        <4> SUFFICES ASSUME NEW j \in Matching(call.name), j < call.de PROVE FALSE
          <5>1. \A j \in Matching(call.name) : j \in Nat
            BY PlacesInNat DEF Matching
          <5> QED BY <2>2, <5>1
        <4> QED BY <1>1, <2>4, <3>2 DEF Matching, DInv, NoMatchYet
      <3>5. (CHOOSE i \in Matching(call.name) : \A j \in Matching(call.name) : i <= j) = call.de
        <4>1. \A i \in Matching(call.name) :
                 (\A j \in Matching(call.name) : i <= j) => i = call.de
          <5>1. \A j \in Matching(call.name) : j \in Nat
            BY PlacesInNat DEF Matching
          <5> QED BY <2>2, <3>3, <3>4, <5>1
        <4> QED BY <3>3, <3>4, <4>1
      <3>6. Named(call.name) = found
        BY <3>3, <3>5 DEF Named
      <3>7. LookupRight' /\ CreatedIsNamed'
        BY <1>1, <2>1, <3>1, <3>2, <3>6 DEF LookupRight, CreatedIsNamed, Named, Matching
      <3> QED BY <1>1, <2>2, <3>1, <3>7, EndInv DEF DInv, CallOK
    <2> QED BY <2>3, <2>4
  <1> QED BY <1>2, <1>3

LEMMA LookupNone ==
    ASSUME DInv, lookup_none
    PROVE  DInv'
  <1>1. /\ call.op = "lookup" /\ call.i >= i_size /\ Return(Null) /\ End /\ ~Idle
        /\ UNCHANGED <<entry, i_size, blocks>>
    BY DEF lookup_none, Return, Idle
  <1>2. CASE wild
    <2>1. last' = NoResult /\ unread' = {}
      BY <1>1, <1>2 DEF Return, Lost
    <2>2. LookupRight' /\ CreatedIsNamed'
      BY <2>1 DEF LookupRight, CreatedIsNamed, NoResult
    <2> QED BY <1>1, <2>1, <2>2, EndInv DEF DInv, CallOK
  <1>3. CASE ~wild
    <2>1. last' = [op |-> "lookup", name |-> call.name, inode |-> Null] /\ unread' = unread
      BY <1>1, <1>3 DEF Return
    <2>2. Matching(call.name) = {}
      <3> SUFFICES ASSUME NEW j \in Matching(call.name) PROVE FALSE
        OBVIOUS
      <3>1. j \in Places /\ j < i_size /\ j \div PER \notin unread /\ match(call.name, entry[j].name)
        BY DEF Matching
      <3>2. j < call.i
        BY <1>1, <3>1, CallFields, PlacesInNat
      <3> QED BY <1>1, <1>3, <3>1, <3>2 DEF DInv, NoMatchYet
    <2>3. Null # 0
      BY DEF Null
    <2>4. Matching(last.name)' = {}
      BY <1>1, <2>1, <2>2 DEF Matching
    <2>5. LookupRight' /\ CreatedIsNamed'
      <3>1. LookupRight'
        BY <2>1, <2>3, <2>4 DEF LookupRight, Named
      <3>2. CreatedIsNamed'
        BY <2>1 DEF CreatedIsNamed
      <3> QED BY <3>1, <3>2
    <2> QED BY <1>1, <2>1, <2>5, EndInv DEF DInv, CallOK
  <1> QED BY <1>2, <1>3

LEMMA LookupForeign ==
    ASSUME DInv, lookup_foreign
    PROVE  DInv'
  <1>1. /\ call.op = "lookup" /\ ~Idle /\ call.i < i_size /\ call.bh = NoBlock
        /\ UNCHANGED <<entry, i_size, blocks>>
    BY DEF lookup_foreign, Looking, Idle
  <1>2. CASE End /\ Lost
    <2>1. last' = NoResult /\ unread' = {}
      BY <1>2 DEF Lost
    <2>2. LookupRight' /\ CreatedIsNamed'
      BY <2>1 DEF LookupRight, CreatedIsNamed, NoResult
    <2> QED BY <1>1, <1>2, <2>1, <2>2, EndInv DEF DInv, CallOK
  <1>3. CASE Next_foreign /\ wild' = TRUE /\ UNCHANGED <<held, unread, last>>
    BY <1>1, <1>3, NextForeign
  <1> QED BY <1>2, <1>3 DEF lookup_foreign

LEMMA LookupBlock ==
    ASSUME DInv, lookup_block
    PROVE  DInv'
  <1>1. ~Idle /\ IsEnd /\ next_block /\ blocks' = blocks
    BY DEF lookup_block, Looking, Idle
  <1> QED BY <1>1, NextBlock, CallFields

-----------------------------------------------------------------------------
(* create_inode_by_name. *)

LEMMA CreateBlock ==
    ASSUME DInv, create_block
    PROVE  DInv'
  <1>1. ~Idle /\ IsEnd /\ next_block /\ Block < MaxBlocks
        /\ blocks' = IF Block >= blocks THEN Block + 1 ELSE blocks
    BY DEF create_block, Creating, Idle
  <1>2. blocks \in 1..MaxBlocks /\ Block \in Nat
    BY CallFields
  <1>3. blocks' \in blocks..MaxBlocks
    BY <1>1, <1>2, Sizes
  <1> QED BY <1>1, <1>3, NextBlock

(* A creation that ends without an inode. *)
LEMMA CreateNull ==
    ASSUME DInv, Creating, Return(Null), UNCHANGED blocks, i_size' \in Nat,
           entry' = [i \in Places |-> entry'[i]]
    PROVE  DInv'
  <1>1. End /\ ~Idle /\ call.op = "create" /\ unread \subseteq Nat
    BY DEF Return, Creating, Idle, DInv, CallOK
  <1>2. unread' \subseteq Nat /\ LookupRight' /\ CreatedIsNamed'
    <2>1. CASE wild
      BY <2>1 DEF Return, Lost, NoResult, LookupRight, CreatedIsNamed
    <2>2. CASE ~wild
      BY <1>1, <2>2 DEF Return, LookupRight, CreatedIsNamed
    <2> QED BY <2>1, <2>2
  <1> QED BY <1>1, <1>2, EndInv

LEMMA CreateNoBlock ==
    ASSUME DInv, create_no_block
    PROVE  DInv'
BY CreateNull DEF create_no_block, DInv, CallOK

LEMMA CreateSkip ==
    ASSUME DInv, create_skip
    PROVE  DInv'
BY NextEntry DEF create_skip, Creating

LEMMA GrowSize == DInv /\ grow => i_size' \in Nat /\ i_size' >= i_size
BY CallFields DEF grow, Grows

LEMMA CreateNoInode ==
    ASSUME DInv, create_no_inode
    PROVE  DInv'
  <1>1. entry' = [i \in Places |-> entry'[i]]
    BY DEF create_no_inode, DInv, CallOK
  <1> QED BY <1>1, GrowSize, CreateNull DEF create_no_inode

LEMMA CreateEntry ==
    ASSUME DInv, NEW inode, create_entry(inode)
    PROVE  DInv'
  <1>1. /\ call.op = "create" /\ IsEntry /\ call.bh # NoBlock /\ FreeEntry /\ grow
        /\ entry' = [entry EXCEPT ![call.de] = [inode |-> inode, name |-> call.name]]
        /\ Return(inode) /\ End /\ UNCHANGED blocks
    BY DEF create_entry, Creating, Return
  <1>2. ~Idle /\ call.de \in Places /\ call.de \in Nat /\ unread \subseteq Nat
    BY <1>1, AtEntry, PlacesInNat DEF DInv, CallOK
  <1>3. entry' = [i \in Places |-> entry'[i]]
        /\ entry'[call.de] = [inode |-> inode, name |-> call.name]
    BY <1>1, <1>2 DEF DInv, CallOK
  <1>4. i_size' \in Nat
    BY <1>1, GrowSize
  <1>5. unread' \subseteq Nat /\ LookupRight' /\ CreatedIsNamed'
    <2>1. CASE wild
      BY <1>1, <2>1 DEF Return, Lost, NoResult, LookupRight, CreatedIsNamed
    <2>2. CASE ~wild
      <3>1. last' = [op |-> "create", name |-> call.name, inode |-> inode] /\ unread' = unread
        BY <1>1, <2>2 DEF Return
      <3>2. /\ call.i = call.de /\ call.de \div PER = call.bh
            /\ call.bh < blocks /\ call.bh \notin unread
        BY <1>1, <2>2, AtEntry
      <3>3. call.de < i_size'
        BY <1>1, <1>2, <3>2, CallFields DEF grow, Grows
      <3>4. CreatedIsNamed'
        BY <1>1, <1>2, <1>3, <3>1, <3>2, <3>3 DEF CreatedIsNamed
      <3> QED BY <1>2, <3>1, <3>4 DEF LookupRight
    <2> QED BY <2>1, <2>2
  <1> QED BY <1>1, <1>2, <1>3, <1>4, <1>5, EndInv

LEMMA CreateForeign ==
    ASSUME DInv, NEW inode, create_foreign(inode)
    PROVE  DInv'
  <1>1. call.op = "create" /\ ~Idle /\ call.bh = NoBlock /\ UNCHANGED blocks
    BY DEF create_foreign, Creating, Idle
  <1>2. CASE /\ Next_foreign /\ wild' = TRUE
             /\ UNCHANGED <<entry, i_size, held, unread, last>>
    BY <1>1, <1>2, NextForeign
  <1>3. CASE /\ grow /\ End /\ Lost
             /\ \/ UNCHANGED entry
                \/ \E i \in Places : i % PER = call.i % PER /\
                     entry' = [entry EXCEPT ![i] = IF inode = Null THEN [@ EXCEPT !.inode = 0]
                                                   ELSE [inode |-> inode, name |-> call.name]]
    <2>1. entry' = [i \in Places |-> entry'[i]]
      BY <1>3 DEF DInv, CallOK
    <2>2. unread' \subseteq Nat /\ LookupRight' /\ CreatedIsNamed'
      BY <1>3 DEF Lost, NoResult, LookupRight, CreatedIsNamed
    <2> QED BY <1>1, <1>3, <2>1, <2>2, GrowSize, EndInv
  <1> QED BY <1>2, <1>3 DEF create_foreign

-----------------------------------------------------------------------------
LEMMA Untouched == DInv /\ UNCHANGED directory => DInv'
  <1> SUFFICES ASSUME DInv, UNCHANGED directory PROVE DInv'
    OBVIOUS
  <1>1. UNCHANGED <<entry, i_size, blocks, call, held, unread, last>> /\ wild' = wild
    BY DEF directory
  <1>2. CallOK' /\ OneBuffer'
    BY <1>1 DEF DInv, CallOK, OneBuffer, Call, Idle
  <1>3. Clean'
    BY <1>1, Zenon DEF DInv, Clean, Idle
  <1>4. InStep'
    BY <1>1, Zenon DEF DInv, InStep, Idle
  <1>5. NoMatchYet' /\ LastBlockHarmless'
    BY <1>1, Zenon DEF DInv, NoMatchYet, LastBlockHarmless
  <1>6. LookupRight' /\ CreatedIsNamed'
    BY <1>1 DEF DInv, LookupRight, CreatedIsNamed, Idle, Named, Matching
  <1> QED BY <1>2, <1>3, <1>4, <1>5, <1>6 DEF DInv

LEMMA NextDInv == DInv /\ [FileSystemNext]_files => DInv'
  <1> SUFFICES ASSUME DInv, [FileSystemNext]_files PROVE DInv'
    OBVIOUS
  <1>1. CASE \/ sys_setup \/ sys_setup_bad \/ sys_setup_imount \/ mount \/ unmount
             \/ panic \/ halted \/ UNCHANGED files
    BY <1>1, Untouched DEF sys_setup, sys_setup_bad, sys_setup_imount, mount, unmount, panic,
                           halted, files
  <1>2. CASE begin
    BY <1>2, StartInv DEF begin, lookup, create
  <1>3. CASE look \/ look_at_entry
    BY <1>3, LookupBlock, LookupNone, LookupEntry, LookupForeign DEF look, look_at_entry
  <1>4. CASE search
    BY <1>4, CreateBlock, CreateNoBlock, CreateSkip DEF search
  <1>5. CASE create_inode \/ create_inode_bad_luck \/ create_inode_full
    BY <1>5, CreateEntry, CreateForeign, CreateNoInode
       DEF create_inode, create_inode_bad_luck, create_inode_full
  <1> QED BY <1>1, <1>2, <1>3, <1>4, <1>5 DEF FileSystemNext

(* The inductive invariant of the calls on a directory. *)
THEOREM DirectoryInvariance == FileSystemSpec => []DInv
  <1> QED BY InitDInv, NextDInv, PTL DEF FileSystemSpec

(* A call holds the buffer of its block and no other, and gives it back on *)
(* every way out.                                                          *)
THEOREM BuffersGivenBack == FileSystemSpec => []OneBuffer
BY DirectoryInvariance, PTL DEF DInv

(* A lookup that did not use foreign memory finds the first entry that the *)
(* name matches in the blocks that could be read.                          *)
THEOREM LookupFinds == FileSystemSpec => []LookupRight
BY DirectoryInvariance, PTL DEF DInv

(* A lookup leaves its buffers only behind an unreadable block with more   *)
(* entries behind it.                                                      *)
THEOREM LookupLeavesLate == FileSystemSpec => []LastBlockHarmless
BY DirectoryInvariance, PTL DEF DInv

(* A name that was created is in the directory, in a block that exists.    *)
THEOREM CreatedStays == FileSystemSpec => []CreatedIsNamed
BY DirectoryInvariance, PTL DEF DInv

(* The directory never shrinks, and no entry in use is overwritten unless  *)
(* foreign memory was used.                                                *)
THEOREM EntriesStay == FileSystemSpec => EntriesKeep
  <1>1. DInv /\ [FileSystemNext]_files =>
          [/\ i_size' >= i_size
           /\ ~wild /\ call.bh # NoBlock =>
                \A i \in Places : i < i_size /\ entry[i].inode # 0 => entry'[i] = entry[i]]_directory
    <2> SUFFICES ASSUME DInv, [FileSystemNext]_files
                 PROVE  /\ i_size' >= i_size
                        /\ ~wild /\ call.bh # NoBlock =>
                             \A i \in Places : i < i_size /\ entry[i].inode # 0
                                               => entry'[i] = entry[i]
      OBVIOUS
    <2>1. i_size \in Nat
      BY CallFields
    <2>2. CASE UNCHANGED <<entry, i_size>>
      BY <2>1, <2>2
    <2>3. ASSUME ~wild, call.bh # NoBlock, grow, IsEntry, FreeEntry,
                 \A i \in Places \ {call.de} : entry'[i] = entry[i]
          PROVE  /\ i_size' >= i_size
                 /\ \A i \in Places : i < i_size /\ entry[i].inode # 0 => entry'[i] = entry[i]
      <3>1. i_size' >= i_size
        BY <2>3, GrowSize
      <3>2. call.i = call.de /\ call.i \in Nat
        BY <2>3, AtEntry, CallFields
      <3>3. ~(call.de < i_size /\ entry[call.de].inode # 0)
        BY <2>1, <2>3, <3>2 DEF FreeEntry, Grows
      <3> QED BY <2>3, <3>1, <3>3
    <2>4. ASSUME NEW inode, create_entry(inode) \/ create_no_inode \/ create_foreign(inode)
          PROVE  /\ i_size' >= i_size
                 /\ ~wild /\ call.bh # NoBlock =>
                      \A i \in Places : i < i_size /\ entry[i].inode # 0 => entry'[i] = entry[i]
      <3>1. i_size' >= i_size
        BY <2>1, <2>4, GrowSize DEF create_entry, create_no_inode, create_foreign
      <3>2. CASE create_foreign(inode)
        BY <3>1, <3>2 DEF create_foreign
      <3>3. CASE create_entry(inode) \/ create_no_inode
        <4>1. /\ call.bh # NoBlock /\ grow /\ IsEntry /\ FreeEntry
              /\ \A i \in Places \ {call.de} : entry'[i] = entry[i]
          BY <3>3 DEF create_entry, create_no_inode, DInv, CallOK
        <4> QED BY <2>3, <3>1, <4>1
      <3> QED BY <2>4, <3>2, <3>3
    <2>5. CASE create_inode \/ create_inode_bad_luck \/ create_inode_full
      BY <2>4, <2>5 DEF create_inode, create_inode_bad_luck, create_inode_full
    <2>6. CASE ~(create_inode \/ create_inode_bad_luck \/ create_inode_full)
      <3>1. UNCHANGED <<entry, i_size>>
        BY <2>6 DEF FileSystemNext, sys_setup, sys_setup_bad, sys_setup_imount, mount, unmount,
             panic, halted, files, directory, begin, lookup, create, start, look, look_at_entry,
             lookup_block, next_block, lookup_entry, lookup_foreign, lookup_none, search,
             create_block, create_no_block, create_skip
      <3> QED BY <2>2, <3>1
    <2> QED BY <2>5, <2>6
  <1> QED BY <1>1, DirectoryInvariance, PTL DEF FileSystemSpec, EntriesKeep

-----------------------------------------------------------------------------
(* The table of mounted devices. *)

(* The references that the maps m of the entries "used" hold to b. *)
Use(used, m, b) == {p \in SB!Supers \X SB!MapSlots : p[1] \in used /\ m[p[1]][p[2]] = b}

Used(list) == {s \in SB!Supers : list[s].s_dev # 0}
IMaps(list) == [s \in SB!Supers |-> list[s].s_imap]
ZMaps(list) == [s \in SB!Supers |-> list[s].s_zmap]

Map == [SB!MapSlots -> SB!Blocks \cup {SB!NULL}]
Entry == [s_dev : Devices \cup {0}, s_imap : Map, s_zmap : Map, s_imount : {TRUE, FALSE}]

References(list, b) == Cardinality(Use(Used(list), IMaps(list), b))
                       + Cardinality(Use(Used(list), ZMaps(list), b))
Own(e, b) == IF e.s_dev # 0 THEN SB!Refers(e.s_imap, b) + SB!Refers(e.s_zmap, b) ELSE 0

Held(list, count) == \A b \in SB!Blocks : count[b] = References(list, b)

SInv ==
    /\ super_block_list \in [SB!Supers -> Entry]
    /\ b_count \in [SB!Blocks -> Int]
    /\ Held(super_block_list, b_count)
    /\ MapsComplete

(* The counts of the two modules' own copies of Cardinality agree. *)
LEMMA SameCardinality == ASSUME NEW S PROVE SB!Cardinality(S) = Cardinality(S)
BY SMT DEF SB!Cardinality, Cardinality

LEMMA SuperSizes ==
    /\ NR_SUPER \in Nat \ {0} /\ MAP_SLOTS \in Nat \ {0}
    /\ Devices \subseteq Nat \ {0} /\ ROOT_DEV \in Devices
    /\ s_imap_blocks \in [Devices -> 1..MAP_SLOTS]
    /\ s_zmap_blocks \in [Devices -> 1..MAP_SLOTS]
BY SuperAssumption DEF SB!SuperConstants

(* A set of entries that is not empty has a first one. *)
LEMMA FirstExists ==
    ASSUME NEW T \in SUBSET SB!Supers, T # {}
    PROVE  SB!First(T) \in T
  <1>1. T \in SUBSET Nat
    BY SuperSizes DEF SB!Supers
  <1>2. \E m \in T : \A t \in T : m <= t
    BY <1>1, LeastExists
  <1> QED BY <1>2 DEF SB!First

LEMMA FindSuper ==
    ASSUME NEW d, SB!Mounted(d)
    PROVE  SB!find_super(d) \in SB!Supers /\ super_block_list[SB!find_super(d)].s_dev = d
  <1>1. SB!Holding(d) \in SUBSET SB!Supers /\ SB!Holding(d) # {}
    BY DEF SB!Mounted, SB!Holding
  <1>2. SB!find_super(d) \in SB!Holding(d)
    BY <1>1, FirstExists DEF SB!find_super
  <1> QED BY <1>2 DEF SB!Holding

(* What one entry adds to the references. *)
LEMMA UseSplit ==
    ASSUME NEW used \in SUBSET SB!Supers, NEW m, NEW s \in SB!Supers, NEW b
    PROVE  /\ Cardinality(Use(used, m, b)) =
                Cardinality(Use(used \ {s}, m, b)) + (IF s \in used THEN SB!Refers(m[s], b) ELSE 0)
           /\ Cardinality(Use(used \ {s}, m, b)) \in Nat /\ SB!Refers(m[s], b) \in Nat
  <1> DEFINE R == {i \in SB!MapSlots : m[s][i] = b}
             A == Use(used \ {s}, m, b)
  <1>1. IsFiniteSet(SB!Supers) /\ IsFiniteSet(SB!MapSlots)
    BY SuperSizes, FS_Interval DEF SB!Supers, SB!MapSlots
  <1>2. IsFiniteSet(SB!Supers \X SB!MapSlots)
    BY <1>1, FS_Product
  <1>3. IsFiniteSet(A) /\ Cardinality(A) \in Nat
    <2>1. A \in SUBSET (SB!Supers \X SB!MapSlots)
      BY DEF Use
    <2> HIDE DEF A
    <2> QED BY <1>2, <2>1, FS_Subset, FS_CardinalityType
  <1>4. IsFiniteSet(R) /\ Cardinality(R) \in Nat
    <2>1. R \in SUBSET SB!MapSlots
      OBVIOUS
    <2> HIDE DEF R
    <2> QED BY <1>1, <2>1, FS_Subset, FS_CardinalityType
  <1>5. SB!Refers(m[s], b) = Cardinality(R)
    <2>1. {i \in SB!MapSlots : m[s][i] = b} = R
      OBVIOUS
    <2> QED BY <2>1, SameCardinality DEF SB!Refers
  <1>6. CASE s \notin used
    <2>1. used \ {s} = used
      BY <1>6
    <2>2. Use(used, m, b) = A
      BY <2>1
    <2> HIDE DEF A, R
    <2>3. Cardinality(Use(used, m, b)) = Cardinality(A) + 0
      BY <2>2, <1>3
    <2> QED BY <1>3, <1>4, <1>5, <1>6, <2>3 DEF A
  <1>7. CASE s \in used
    <2>1. Use(used, m, b) = A \cup ({s} \X R)
      <3>1. ASSUME NEW p \in Use(used, m, b) PROVE p \in A \cup ({s} \X R)
        BY <3>1 DEF Use
      <3>2. ASSUME NEW p \in {s} \X R PROVE p \in Use(used, m, b)
        BY <1>7, <3>2 DEF Use
      <3>3. ASSUME NEW p \in A PROVE p \in Use(used, m, b)
        BY <3>3 DEF Use
      <3> HIDE DEF A, R
      <3> QED BY <3>1, <3>2, <3>3
    <2>2. A \cap ({s} \X R) = {}
      BY DEF Use
    <2> HIDE DEF A, R
    <2>3. IsFiniteSet({s} \X R) /\ Cardinality({s} \X R) = Cardinality(R)
      <3>1. IsFiniteSet({s}) /\ Cardinality({s}) = 1
        BY FS_Singleton
      <3> QED BY <1>4, <3>1, FS_Product
    <2>4. Cardinality({}) = 0
      BY FS_EmptySet
    <2>5. Cardinality(A \cup ({s} \X R)) = Cardinality(A) + Cardinality(R)
      <3> DEFINE P == {s} \X R
      <3> HIDE DEF P
      <3>1. Cardinality(A \cup P) = Cardinality(A) + Cardinality(P) - Cardinality(A \cap P)
        BY <1>3, <2>3, FS_Union DEF P
      <3>2. Cardinality(A \cap P) = 0
        BY <2>2, <2>4 DEF P
      <3>3. Cardinality(P) = Cardinality(R)
        BY <2>3 DEF P
      <3>4. Cardinality(A \cup P) = Cardinality(A) + Cardinality(R)
        BY <3>1, <3>2, <3>3, <1>3, <1>4
      <3> QED BY <3>4 DEF P
    <2> QED BY <1>3, <1>4, <1>5, <1>7, <2>1, <2>5 DEF A
  <1> QED BY <1>6, <1>7


(* An entry that changes takes its references with it. *)
LEMMA Change ==
    ASSUME NEW list \in [SB!Supers -> Entry], NEW s \in SB!Supers, NEW new \in Entry, NEW b
    PROVE  /\ References([list EXCEPT ![s] = new], b)
                = References(list, b) - Own(list[s], b) + Own(new, b)
           /\ References(list, b) \in Nat /\ Own(list[s], b) \in Nat /\ Own(new, b) \in Nat
  <1> DEFINE list2 == [list EXCEPT ![s] = new]
  <1>1. list2 \in [SB!Supers -> Entry] /\ list2[s] = new
    OBVIOUS
  <1>2. Used(list) \in SUBSET SB!Supers /\ Used(list2) \in SUBSET SB!Supers
    BY DEF Used
  <1>3. (s \in Used(list) <=> list[s].s_dev # 0) /\ (s \in Used(list2) <=> new.s_dev # 0)
    BY <1>1 DEF Used
  <1>4. /\ IMaps(list)[s] = list[s].s_imap /\ IMaps(list2)[s] = new.s_imap
        /\ ZMaps(list)[s] = list[s].s_zmap /\ ZMaps(list2)[s] = new.s_zmap
    BY <1>1 DEF IMaps, ZMaps
  <1>5. /\ Use(Used(list2) \ {s}, IMaps(list2), b) = Use(Used(list) \ {s}, IMaps(list), b)
        /\ Use(Used(list2) \ {s}, ZMaps(list2), b) = Use(Used(list) \ {s}, ZMaps(list), b)
    <2>1. \A r \in SB!Supers \ {s} : list2[r] = list[r]
      OBVIOUS
    <2> HIDE DEF list2
    <2>2. Used(list2) \ {s} = Used(list) \ {s}
      BY <2>1 DEF Used
    <2>3. \A r \in SB!Supers \ {s} : /\ IMaps(list2)[r] = IMaps(list)[r]
                                     /\ ZMaps(list2)[r] = ZMaps(list)[r]
      BY <2>1 DEF IMaps, ZMaps
    <2> QED BY <2>2, <2>3 DEF Use
  <1> HIDE DEF list2
  <1>6. /\ Cardinality(Use(Used(list), IMaps(list), b)) =
             Cardinality(Use(Used(list) \ {s}, IMaps(list), b))
             + (IF s \in Used(list) THEN SB!Refers(IMaps(list)[s], b) ELSE 0)
        /\ Cardinality(Use(Used(list) \ {s}, IMaps(list), b)) \in Nat
        /\ SB!Refers(IMaps(list)[s], b) \in Nat
    BY <1>2, UseSplit
  <1>7. /\ Cardinality(Use(Used(list), ZMaps(list), b)) =
             Cardinality(Use(Used(list) \ {s}, ZMaps(list), b))
             + (IF s \in Used(list) THEN SB!Refers(ZMaps(list)[s], b) ELSE 0)
        /\ Cardinality(Use(Used(list) \ {s}, ZMaps(list), b)) \in Nat
        /\ SB!Refers(ZMaps(list)[s], b) \in Nat
    BY <1>2, UseSplit
  <1>8. /\ Cardinality(Use(Used(list2), IMaps(list2), b)) =
             Cardinality(Use(Used(list2) \ {s}, IMaps(list2), b))
             + (IF s \in Used(list2) THEN SB!Refers(IMaps(list2)[s], b) ELSE 0)
        /\ SB!Refers(IMaps(list2)[s], b) \in Nat
    BY <1>2, UseSplit
  <1>9. /\ Cardinality(Use(Used(list2), ZMaps(list2), b)) =
             Cardinality(Use(Used(list2) \ {s}, ZMaps(list2), b))
             + (IF s \in Used(list2) THEN SB!Refers(ZMaps(list2)[s], b) ELSE 0)
        /\ SB!Refers(ZMaps(list2)[s], b) \in Nat
    BY <1>2, UseSplit
  <1>10. Own(list[s], b) = (IF s \in Used(list) THEN SB!Refers(IMaps(list)[s], b)
                                + SB!Refers(ZMaps(list)[s], b) ELSE 0)
    BY <1>3, <1>4 DEF Own
  <1>11. Own(new, b) = (IF s \in Used(list2) THEN SB!Refers(IMaps(list2)[s], b)
                             + SB!Refers(ZMaps(list2)[s], b) ELSE 0)
    BY <1>3, <1>4 DEF Own
  <1>12. References(list2, b) = References(list, b) - Own(list[s], b) + Own(new, b)
    BY <1>5, <1>6, <1>7, <1>8, <1>9, <1>10, <1>11 DEF References
  <1> QED BY <1>6, <1>7, <1>8, <1>9, <1>10, <1>11, <1>12 DEF References, list2

(* Giving back and taking the references of an entry. *)
LEMMA RefersType ==
    ASSUME NEW e \in Entry, NEW b
    PROVE  SB!Refers(e.s_imap, b) \in Nat /\ SB!Refers(e.s_zmap, b) \in Nat
  <1>1. IsFiniteSet(SB!MapSlots)
    BY SuperSizes, FS_Interval DEF SB!MapSlots
  <1>2. ASSUME NEW m PROVE SB!Refers(m, b) \in Nat
    <2> DEFINE R == {i \in SB!MapSlots : m[i] = b}
    <2>1. R \in SUBSET SB!MapSlots
      OBVIOUS
    <2>2. SB!Refers(m, b) = Cardinality(R)
      BY SameCardinality DEF SB!Refers
    <2> HIDE DEF R
    <2> QED BY <1>1, <2>1, <2>2, FS_Subset, FS_CardinalityType
  <1> QED BY <1>2

-----------------------------------------------------------------------------
(* Each operation on the table keeps SInv. *)
Tables == <<super_block_list, b_count>>

LEMMA FreeEntryKeeps ==
    ASSUME SInv, NEW new \in Entry, NEW s \in SB!Supers,
           super_block_list[s].s_dev = 0, new.s_dev = 0,
           super_block_list' = [super_block_list EXCEPT ![s] = new],
           \A b \in SB!Blocks : b_count'[b] = b_count[b],
           b_count' \in [SB!Blocks -> Int]
    PROVE  SInv'
  <1>1. super_block_list' \in [SB!Supers -> Entry]
    BY DEF SInv
  <1>2. Held(super_block_list', b_count')
    <2> SUFFICES ASSUME NEW b \in SB!Blocks
                 PROVE  b_count'[b] = References(super_block_list', b)
      BY DEF Held
    <2>1. /\ References(super_block_list', b) = References(super_block_list, b)
                - Own(super_block_list[s], b) + Own(new, b)
          /\ References(super_block_list, b) \in Nat
      BY Change DEF SInv
    <2>2. Own(super_block_list[s], b) = 0 /\ Own(new, b) = 0
      BY DEF Own
    <2> QED BY <2>1, <2>2 DEF SInv, Held
  <1>3. MapsComplete'
    <2> SUFFICES ASSUME NEW r \in SB!Supers, super_block_list'[r].s_dev # 0
                 PROVE  LET f == super_block_list'[r] IN
                        /\ {t \in SB!Supers : super_block_list'[t].s_dev = f.s_dev} = {r}
                        /\ f.s_imap = SB!Loaded(s_imap_blocks[f.s_dev], 2, f.s_dev)
                        /\ f.s_zmap = SB!Loaded(s_zmap_blocks[f.s_dev],
                                                2 + s_imap_blocks[f.s_dev], f.s_dev)
      BY DEF MapsComplete, SB!MapsComplete, SB!Holding, SB!Loaded
    <2>1. r # s /\ super_block_list'[r] = super_block_list[r]
      BY DEF SInv
    <2>2. \A t \in SB!Supers : super_block_list'[t].s_dev = super_block_list[t].s_dev
      BY DEF SInv
    <2>3. {t \in SB!Supers : super_block_list[t].s_dev = super_block_list[r].s_dev} = {r}
      BY <2>1 DEF SInv, MapsComplete, SB!MapsComplete, SB!Holding
    <2> QED BY <2>1, <2>2, <2>3 DEF SInv, MapsComplete, SB!MapsComplete
  <1> QED BY <1>1, <1>2, <1>3 DEF SInv

LEMMA FindFree ==
    ASSUME SInv, SB!Mounted(0)
    PROVE  /\ SB!find_super(0) \in SB!Supers
           /\ super_block_list[SB!find_super(0)] \in Entry
           /\ super_block_list[SB!find_super(0)].s_dev = 0
BY FindSuper DEF SInv

LEMMA BadKeeps ==
    ASSUME SInv, NEW d, SB!read_super_bad(d)
    PROVE  SInv'
  <1> DEFINE s == SB!find_super(0)
             e == super_block_list[s]
             new == [e EXCEPT !.s_imount = FALSE]
  <1>1. SB!Mounted(0) /\ b_count' = b_count
        /\ super_block_list' = [super_block_list EXCEPT ![s].s_imount = FALSE]
    BY DEF SB!read_super_bad
  <1>2. s \in SB!Supers /\ e \in Entry /\ e.s_dev = 0
    BY <1>1, FindFree
  <1>3. new \in Entry /\ new.s_dev = 0
    BY <1>2 DEF Entry
  <1>4. super_block_list' = [super_block_list EXCEPT ![s] = new]
    BY <1>1
  <1> HIDE DEF s, new
  <1> QED BY <1>1, <1>2, <1>3, <1>4, FreeEntryKeeps DEF SInv

(* The two loops leave maps of the right kind. *)
LEMMA MapsTyped ==
    ASSUME NEW d \in Devices, NEW im \in 0..s_imap_blocks[d], NEW zm \in 0..s_zmap_blocks[d],
           NEW e \in Entry
    PROVE  SB!WithMaps(e, d, im, zm) \in Entry /\ SB!WithMaps(e, d, im, zm).s_dev = d
  <1>1. ASSUME NEW first \in 2..(2 + MAP_SLOTS), NEW n PROVE SB!Loaded(n, first, d) \in Map
    <2>1. ASSUME NEW i \in SB!MapSlots PROVE <<d, first + i>> \in SB!Blocks
      BY SuperSizes DEF SB!MapSlots, SB!Blocks
    <2> QED BY <2>1 DEF Map, SB!Loaded
  <1>2. 2 \in 2..(2 + MAP_SLOTS) /\ 2 + im \in 2..(2 + MAP_SLOTS)
    BY SuperSizes
  <1>3. SB!Loaded(im, 2, d) \in Map /\ SB!Loaded(zm, 2 + im, d) \in Map
    BY <1>1, <1>2
  <1> QED BY <1>3 DEF SB!WithMaps, Entry

LEMMA MapsKeep ==
    ASSUME SInv, NEW d \in Devices, SB!read_super_maps(d)
    PROVE  SInv'
  <1> DEFINE s == SB!find_super(0)
             e == super_block_list[s]
  <1>1. PICK im \in 0..s_imap_blocks[d], zm \in 0..s_zmap_blocks[d] :
            LET made == SB!WithMaps(e, d, im, zm)
            IN  IF im + zm = s_imap_blocks[d] + s_zmap_blocks[d]
                THEN /\ super_block_list' = [super_block_list EXCEPT ![s] = made]
                     /\ b_count' = SB!Taken(made)
                ELSE /\ super_block_list' =
                          [super_block_list EXCEPT ![s] = [made EXCEPT !.s_dev = 0]]
                     /\ b_count' = SB!put_maps(SB!Taken(made), made)
    BY DEF SB!read_super_maps
  <1> DEFINE new == SB!WithMaps(e, d, im, zm)
  <1>2. s \in SB!Supers /\ e \in Entry /\ e.s_dev = 0 /\ ~SB!Mounted(d)
    BY FindFree DEF SB!read_super_maps
  <1>3. new \in Entry /\ new.s_dev = d
    BY <1>2, MapsTyped
  <1>4. d \in Nat \ {0}
    BY SuperSizes
  <1>5. \A b : SB!Refers(new.s_imap, b) \in Nat /\ SB!Refers(new.s_zmap, b) \in Nat
    BY <1>3, RefersType
  <1>6. CASE im + zm # s_imap_blocks[d] + s_zmap_blocks[d]
    <2> DEFINE left == [new EXCEPT !.s_dev = 0]
    <2>1. /\ super_block_list' = [super_block_list EXCEPT ![s] = left]
          /\ b_count' = SB!put_maps(SB!Taken(new), new)
      BY <1>1, <1>6
    <2>2. left \in Entry /\ left.s_dev = 0
      BY <1>3 DEF Entry
    <2> HIDE DEF new
    <2>3. \A b \in SB!Blocks : b_count'[b] = b_count[b]
      BY <2>1, <1>5 DEF SB!put_maps, SB!Taken, SInv
    <2>4. b_count' \in [SB!Blocks -> Int]
      <3>1. b_count' = [b \in SB!Blocks |-> b_count'[b]]
        BY <2>1 DEF SB!put_maps
      <3> QED BY <3>1, <2>3 DEF SInv
    <2> HIDE DEF s, left
    <2> QED BY <1>2, <2>1, <2>2, <2>3, <2>4, FreeEntryKeeps
  <1>7. CASE im + zm = s_imap_blocks[d] + s_zmap_blocks[d]
    <2>1. /\ super_block_list' = [super_block_list EXCEPT ![s] = new]
          /\ b_count' = SB!Taken(new)
      BY <1>1, <1>7
    <2>2. im = s_imap_blocks[d] /\ zm = s_zmap_blocks[d]
      BY <1>7, SuperSizes
    <2>3. new.s_imap = SB!Loaded(im, 2, d) /\ new.s_zmap = SB!Loaded(zm, 2 + im, d)
      BY <1>2 DEF SB!WithMaps, Entry
    <2> HIDE DEF new, s
    <2>4. super_block_list' \in [SB!Supers -> Entry] /\ b_count' \in [SB!Blocks -> Int]
      BY <1>2, <1>3, <1>5, <2>1 DEF SInv, SB!Taken
    <2>5. Held(super_block_list', b_count')
      <3> SUFFICES ASSUME NEW b \in SB!Blocks
                   PROVE  b_count'[b] = References(super_block_list', b)
        BY DEF Held
      <3>1. /\ References([super_block_list EXCEPT ![s] = new], b)
                  = References(super_block_list, b) - Own(super_block_list[s], b) + Own(new, b)
            /\ References(super_block_list, b) \in Nat
        BY <1>2, <1>3, Change DEF SInv
      <3>2. Own(super_block_list[s], b) = 0
        BY <1>2 DEF Own
      <3>3. Own(new, b) = SB!Refers(new.s_imap, b) + SB!Refers(new.s_zmap, b)
        BY <1>3, <1>4 DEF Own
      <3>4. b_count'[b] = b_count[b] + SB!Refers(new.s_imap, b) + SB!Refers(new.s_zmap, b)
        BY <2>1 DEF SB!Taken
      <3> QED BY <3>1, <3>2, <3>3, <3>4, <2>1, <1>5 DEF SInv, Held
    <2>6. MapsComplete'
      <3>1. \A t \in SB!Supers : super_block_list[t].s_dev # d
        BY <1>2 DEF SB!Mounted, SB!Holding
      <3>2. \A t \in SB!Supers \ {s} : super_block_list'[t] = super_block_list[t]
        BY <2>1 DEF SInv
      <3>3. super_block_list'[s] = new
        BY <2>1, <1>2 DEF SInv
      <3> SUFFICES ASSUME NEW r \in SB!Supers, super_block_list'[r].s_dev # 0
                   PROVE  LET f == super_block_list'[r] IN
                          /\ {t \in SB!Supers : super_block_list'[t].s_dev = f.s_dev} = {r}
                          /\ f.s_imap = SB!Loaded(s_imap_blocks[f.s_dev], 2, f.s_dev)
                          /\ f.s_zmap = SB!Loaded(s_zmap_blocks[f.s_dev],
                                                  2 + s_imap_blocks[f.s_dev], f.s_dev)
        BY DEF MapsComplete, SB!MapsComplete, SB!Holding, SB!Loaded
      <3>4. CASE r = s
        BY <1>2, <1>3, <2>2, <2>3, <3>1, <3>2, <3>3, <3>4
      <3>5. CASE r # s
        <4>1. {t \in SB!Supers : super_block_list[t].s_dev = super_block_list[r].s_dev} = {r}
          BY <3>2, <3>5 DEF SInv, MapsComplete, SB!MapsComplete, SB!Holding
        <4>2. super_block_list[r].s_dev # d /\ super_block_list'[r] = super_block_list[r]
          BY <3>1, <3>2, <3>5
        <4>3. \A t \in SB!Supers : super_block_list'[t].s_dev = super_block_list[r].s_dev <=> t = r
          BY <4>1, <4>2, <1>2, <1>3, <3>2, <3>3, <3>5
        <4> QED BY <4>2, <4>3, <3>5 DEF SInv, MapsComplete, SB!MapsComplete
      <3> QED BY <3>4, <3>5
    <2> QED BY <2>4, <2>5, <2>6 DEF SInv
  <1> QED BY <1>6, <1>7

LEMMA PutKeeps ==
    ASSUME SInv, NEW d \in Devices, SB!put_super(d)
    PROVE  SInv'
  <1> DEFINE s == SB!find_super(d)
             e == super_block_list[s]
             left == [e EXCEPT !.s_dev = 0]
  <1>1. /\ SB!Mounted(d) /\ super_block_list' = [super_block_list EXCEPT ![s].s_dev = 0]
        /\ b_count' = SB!put_maps(b_count, e)
    BY DEF SB!put_super, SB!Put
  <1>2. s \in SB!Supers /\ e.s_dev = d
    BY <1>1, FindSuper
  <1>3. e \in Entry /\ d # 0
    BY <1>2, SuperSizes DEF SInv
  <1>4. left \in Entry /\ left.s_dev = 0
    BY <1>3 DEF Entry
  <1>5. super_block_list' = [super_block_list EXCEPT ![s] = left]
    BY <1>1
  <1>6. \A b : SB!Refers(e.s_imap, b) \in Nat /\ SB!Refers(e.s_zmap, b) \in Nat
    BY <1>3, RefersType
  <1> HIDE DEF s, left
  <1>7. super_block_list' \in [SB!Supers -> Entry] /\ b_count' \in [SB!Blocks -> Int]
    BY <1>1, <1>2, <1>4, <1>5, <1>6 DEF SInv, SB!put_maps
  <1>8. Held(super_block_list', b_count')
    <2> SUFFICES ASSUME NEW b \in SB!Blocks
                 PROVE  b_count'[b] = References(super_block_list', b)
      BY DEF Held
    <2>1. /\ References([super_block_list EXCEPT ![s] = left], b)
                = References(super_block_list, b) - Own(e, b) + Own(left, b)
          /\ References(super_block_list, b) \in Nat
      BY <1>2, <1>4, Change DEF SInv
    <2>2. Own(left, b) = 0 /\ Own(e, b) = SB!Refers(e.s_imap, b) + SB!Refers(e.s_zmap, b)
      BY <1>2, <1>3, <1>4 DEF Own
    <2>3. b_count'[b] = b_count[b] - SB!Refers(e.s_imap, b) - SB!Refers(e.s_zmap, b)
      BY <1>1 DEF SB!put_maps
    <2> QED BY <2>1, <2>2, <2>3, <1>5, <1>6 DEF SInv, Held
  <1>9. MapsComplete'
    <2> SUFFICES ASSUME NEW r \in SB!Supers, super_block_list'[r].s_dev # 0
                 PROVE  LET f == super_block_list'[r] IN
                        /\ {t \in SB!Supers : super_block_list'[t].s_dev = f.s_dev} = {r}
                        /\ f.s_imap = SB!Loaded(s_imap_blocks[f.s_dev], 2, f.s_dev)
                        /\ f.s_zmap = SB!Loaded(s_zmap_blocks[f.s_dev],
                                                2 + s_imap_blocks[f.s_dev], f.s_dev)
      BY DEF MapsComplete, SB!MapsComplete, SB!Holding, SB!Loaded
    <2>1. r # s /\ super_block_list'[r] = super_block_list[r]
      BY <1>2, <1>4, <1>5 DEF SInv
    <2>2. /\ \A t \in SB!Supers \ {s} : super_block_list'[t] = super_block_list[t]
          /\ super_block_list'[s].s_dev = 0
      BY <1>2, <1>4, <1>5 DEF SInv
    <2>3. {t \in SB!Supers : super_block_list[t].s_dev = super_block_list[r].s_dev} = {r}
      BY <2>1 DEF SInv, MapsComplete, SB!MapsComplete, SB!Holding
    <2>4. \A t \in SB!Supers : super_block_list'[t].s_dev = super_block_list[r].s_dev <=> t = r
      BY <2>1, <2>2, <2>3
    <2> QED BY <2>1, <2>4 DEF SInv, MapsComplete, SB!MapsComplete
  <1> QED BY <1>7, <1>8, <1>9 DEF SInv

(* Only s_imount of an entry changes, or nothing. *)
LEMMA MountPointKeeps ==
    ASSUME SInv, NEW s, UNCHANGED b_count,
           super_block_list' = [super_block_list EXCEPT ![s].s_imount = TRUE]
    PROVE  SInv'
  <1>1. super_block_list' \in [SB!Supers -> Entry]
    BY DEF SInv, Entry
  <1>2. \A t \in SB!Supers : /\ super_block_list'[t].s_dev = super_block_list[t].s_dev
                             /\ super_block_list'[t].s_imap = super_block_list[t].s_imap
                             /\ super_block_list'[t].s_zmap = super_block_list[t].s_zmap
    BY DEF SInv, Entry
  <1>3. /\ Used(super_block_list') = Used(super_block_list)
        /\ IMaps(super_block_list') = IMaps(super_block_list)
        /\ ZMaps(super_block_list') = ZMaps(super_block_list)
    BY <1>2 DEF Used, IMaps, ZMaps
  <1>4. Held(super_block_list', b_count')
    BY <1>3 DEF SInv, Held, References
  <1>5. MapsComplete'
    <2> SUFFICES ASSUME NEW r \in SB!Supers, super_block_list'[r].s_dev # 0
                 PROVE  LET f == super_block_list'[r] IN
                        /\ {t \in SB!Supers : super_block_list'[t].s_dev = f.s_dev} = {r}
                        /\ f.s_imap = SB!Loaded(s_imap_blocks[f.s_dev], 2, f.s_dev)
                        /\ f.s_zmap = SB!Loaded(s_zmap_blocks[f.s_dev],
                                                2 + s_imap_blocks[f.s_dev], f.s_dev)
      BY DEF MapsComplete, SB!MapsComplete, SB!Holding, SB!Loaded
    <2>1. {t \in SB!Supers : super_block_list[t].s_dev = super_block_list[r].s_dev} = {r}
      BY <1>2 DEF SInv, MapsComplete, SB!MapsComplete, SB!Holding
    <2> QED BY <1>2, <2>1 DEF SInv, MapsComplete, SB!MapsComplete
  <1> QED BY <1>1, <1>4, <1>5 DEF SInv

LEMMA NoChangeKeeps ==
    ASSUME SInv, UNCHANGED Tables
    PROVE  SInv'
BY DEF SInv, Tables, MapsComplete, SB!MapsComplete, SB!Holding, SB!Loaded

-----------------------------------------------------------------------------
(* All devices are unmounted at first, and every step keeps the table in   *)
(* order: main runs only one operation on it in one step.                  *)
LEMMA TableStart == FileSystemInit => SInv
  <1> SUFFICES ASSUME FileSystemInit PROVE SInv
    OBVIOUS
  <1>1. /\ super_block_list = [s \in SB!Supers |-> [s_dev |-> 0, s_imap |-> SB!NoMap,
                                                    s_zmap |-> SB!NoMap, s_imount |-> FALSE]]
        /\ b_count = [b \in SB!Blocks |-> 0]
    BY DEF FileSystemInit, SB!Init
  <1>2. SB!NoMap \in Map
    BY DEF Map, SB!NoMap
  <1>3. Used(super_block_list) = {}
    BY <1>1 DEF Used
  <1>4. \A m, b : Use({}, m, b) = {}
    BY DEF Use
  <1>5. \A b : References(super_block_list, b) = 0
    <2>1. Cardinality({}) = 0
      BY FS_EmptySet
    <2> QED BY <1>3, <1>4, <2>1 DEF References
  <1>6. MapsComplete
    BY <1>1 DEF MapsComplete, SB!MapsComplete
  <1>7. super_block_list \in [SB!Supers -> Entry]
    BY <1>1, <1>2 DEF Entry
  <1>8. b_count \in [SB!Blocks -> Int] /\ Held(super_block_list, b_count)
    <2>1. \A b \in SB!Blocks : b_count[b] = 0
      BY <1>1
    <2>2. b_count \in [SB!Blocks -> Int]
      BY <1>1
    <2> QED BY <2>1, <2>2, <1>5 DEF Held
  <1> QED BY <1>6, <1>7, <1>8 DEF SInv

LEMMA TableKept == SInv /\ [FileSystemNext]_files => SInv'
  <1> SUFFICES ASSUME SInv, [FileSystemNext]_files PROVE SInv'
    OBVIOUS
  <1>1. CASE sys_setup
    BY <1>1, MapsKeep, SuperSizes DEF sys_setup
  <1>2. CASE sys_setup_bad
    BY <1>2, BadKeeps DEF sys_setup_bad
  <1>3. CASE sys_setup_imount
    BY <1>3, MountPointKeeps, NoChangeKeeps DEF sys_setup_imount, Tables
  <1>4. CASE mount
    <2>1. PICK d \in Devices : SB!read_super(d)
      BY <1>4 DEF mount
    <2>2. CASE SB!read_super_found(d) \/ SB!read_super_full(d)
      BY <2>2, NoChangeKeeps DEF SB!read_super_found, SB!read_super_full, Tables
    <2> QED BY <2>1, <2>2, BadKeeps, MapsKeep DEF SB!read_super
  <1>5. CASE unmount
    <2>1. PICK d \in Devices : SB!put_super_refused(d) \/ SB!put_super(d)
      BY <1>5 DEF unmount
    <2>2. CASE SB!put_super_refused(d)
      BY <2>2, NoChangeKeeps DEF SB!put_super_refused, Tables
    <2> QED BY <2>1, <2>2, PutKeeps
  <1>6. CASE UNCHANGED Tables
    BY <1>6, NoChangeKeeps
  <1> QED BY <1>1, <1>2, <1>3, <1>4, <1>5, <1>6
        DEF FileSystemNext, files, mounts, Tables, OnlyDirectory, begin, look, look_at_entry,
            search, create_inode, create_inode_bad_luck, create_inode_full, panic, halted

(* super.c:166-207, 101-125: the table is in order whatever is mounted and *)
(* unmounted, with any number of entries and bitmap blocks, and whichever  *)
(* block cannot be read.                                                   *)
THEOREM TableInvariance == FileSystemSpec => []SInv
BY TableStart, TableKept, PTL DEF FileSystemSpec

(* super.c:173-186: a mounted device has one entry with all of its bitmap  *)
(* blocks.                                                                 *)
THEOREM MountedComplete == FileSystemSpec => []MapsComplete
<1>1. SInv => MapsComplete
  BY DEF SInv
<1> QED BY <1>1, TableInvariance, PTL


-----------------------------------------------------------------------------
(* Types. *)

EntryType == [inode : Inodes \cup {0}, name : Seq(Nat)]

(* i is at most one block ahead of de, also after foreign entries; so the  *)
(* size stays within one block of the largest directory.                   *)
TInv ==
    /\ entry \in [Places -> EntryType]
    /\ i_size \in 1..((MaxBlocks + 1) * PER)
    /\ call.bh # NoBlock => call.i < call.de + PER
    /\ wild \in {TRUE, FALSE}
    /\ dev \in DirectoryDevices /\ imap \subseteq Inodes
    /\ state \in {"boot", "mounted", "up", "panic"}

LEMMA NamesTyped == ASSUME DInv PROVE call.name \in Seq(Nat)
  <1>1. call.name \in Names \cup {<<>>}
    BY CallFields DEF Call
  <1>2. <<>> \in Seq(Nat)
    OBVIOUS
  <1> QED BY <1>1, <1>2, DirectoryAssumption

LEMMA FreeInode == ASSUME FreeInodes # {} PROVE add_inode_bitmap \in Inodes
  <1>1. FreeInodes \in SUBSET Nat
    BY DirectoryAssumption DEF FreeInodes
  <1>2. \E m \in FreeInodes : \A t \in FreeInodes : m <= t
    BY <1>1, LeastExists
  <1>3. add_inode_bitmap \in FreeInodes
    BY <1>2 DEF add_inode_bitmap
  <1> QED BY <1>3 DEF FreeInodes

LEMMA TypesStart == FileSystemInit => TInv
  <1> SUFFICES ASSUME FileSystemInit PROVE TInv
    OBVIOUS
  <1>1. MaxBlocks * PER \in Nat /\ (MaxBlocks + 1) * PER = MaxBlocks * PER + PER
    BY Sizes, Order
  <1>2. i_size \in 1..((MaxBlocks + 1) * PER)
    BY <1>1, Sizes, DirectoryAssumption DEF FileSystemInit, Init
  <1> QED BY <1>2, DirectoryAssumption, FileSystemAssumption
        DEF TInv, FileSystemInit, Init, Places, EntryType, NoCall

(* A block is read: i and de begin at the same block.                      *)
LEMMA TypesBlock ==
    ASSUME TInv, DInv, ~Idle, IsEnd, next_block, UNCHANGED <<dev, imap, state>>
    PROVE  TInv'
  <1>1. call.i \in Nat /\ call \in Call
    BY CallFields DEF DInv, CallOK
  <1>2. Block * PER <= call.i /\ call.i < (Block + 1) * PER /\ Block \in Nat
    BY <1>1, BlockBounds DEF Block
  <1>3. (Block + 1) * PER = Block * PER + PER /\ Block * PER \in Nat
    BY <1>2, Order
  <1>4. call'.bh # NoBlock => call'.i < call'.de + PER
    BY <1>1, <1>2, <1>3 DEF next_block, Call
  <1> QED BY <1>4 DEF TInv, next_block

LEMMA TypesGrow ==
    ASSUME TInv, DInv, grow, ~Idle,
           IF call.bh # NoBlock THEN IsEntry ELSE Block < MaxBlocks
    PROVE  i_size' \in 1..((MaxBlocks + 1) * PER)
  <1>1. call.i \in Nat /\ call.de \in Nat /\ i_size \in Nat
    BY CallFields
  <1>2. MaxBlocks * PER \in Nat /\ (MaxBlocks + 1) * PER = MaxBlocks * PER + PER
    BY Sizes, Order
  <1>3. call.i + 1 <= (MaxBlocks + 1) * PER
    <2>1. CASE call.bh # NoBlock
      <3>1. call.bh \in 0..(MaxBlocks - 1)
        BY <2>1, CallFields
      <3>2. (call.bh + 1) * PER <= MaxBlocks * PER /\ (call.bh + 1) * PER \in Nat
        BY <3>1, Order, Sizes
      <3>3. call.de < (call.bh + 1) * PER /\ call.i < call.de + PER
        BY <2>1 DEF IsEntry, TInv
      <3> QED BY <3>2, <3>3, <1>1, <1>2, Sizes
    <2>2. CASE call.bh = NoBlock
      <3>1. Block \in Nat /\ call.i < (Block + 1) * PER
        BY <1>1, BlockBounds DEF Block
      <3>2. (Block + 1) * PER <= MaxBlocks * PER /\ (Block + 1) * PER \in Nat
        BY <2>2, <3>1, Order, Sizes
      <3> QED BY <3>1, <3>2, <1>1, <1>2, Sizes
    <2> QED BY <2>1, <2>2
  <1> QED BY <1>1, <1>2, <1>3 DEF TInv, grow

(* An entry is made, or its inode is taken back. *)
LEMMA TypesEntry ==
    ASSUME TInv, DInv, ~Idle, NEW inode,
           \/ inode \in Inodes /\ (create_entry(inode) \/ create_foreign(inode))
           \/ inode = Null /\ (create_no_inode \/ create_foreign(inode))
    PROVE  /\ entry' \in [Places -> EntryType]
           /\ i_size' \in 1..((MaxBlocks + 1) * PER)
           /\ call'.bh # NoBlock => call'.i < call'.de + PER
           /\ wild' \in {TRUE, FALSE}
  <1>1. call.name \in Seq(Nat)
    BY NamesTyped
  <1>2. inode # Null => [inode |-> inode, name |-> call.name] \in EntryType
    BY <1>1, DirectoryAssumption DEF EntryType, Null
  <1>3. ASSUME NEW x \in Places PROVE [entry[x] EXCEPT !.inode = 0] \in EntryType
    BY DEF TInv, EntryType
  <1>4. Inodes \subseteq Nat
    BY DirectoryAssumption
  <1>5. entry' \in [Places -> EntryType]
    <2>1. CASE inode \in Inodes /\ create_entry(inode)
      <3>1. entry' = [entry EXCEPT ![call.de] = [inode |-> inode, name |-> call.name]]
        BY <2>1 DEF create_entry
      <3>2. inode # Null
        BY <1>4, <2>1 DEF Null
      <3> QED BY <1>2, <3>1, <3>2 DEF TInv
    <2>2. CASE create_no_inode
      BY <1>3, <2>2 DEF create_no_inode, TInv
    <2>3. CASE create_foreign(inode)
      BY <1>2, <1>3, <2>3 DEF create_foreign, TInv
    <2> QED BY <2>1, <2>2, <2>3
  <1>6. i_size' \in 1..((MaxBlocks + 1) * PER)
    <2>1. CASE UNCHANGED i_size
      BY <2>1 DEF TInv
    <2>2. CASE grow
      <3>1. IF call.bh # NoBlock THEN IsEntry ELSE Block < MaxBlocks
        BY DEF create_entry, create_no_inode, create_foreign
      <3> QED BY <2>2, <3>1, TypesGrow
    <2> QED BY <2>1, <2>2 DEF create_entry, create_no_inode, create_foreign
  <1>7. wild' \in {TRUE, FALSE} /\ (call'.bh # NoBlock => call'.i < call'.de + PER)
    <2>1. CASE End
      BY <2>1 DEF End, NoCall
    <2>2. CASE call.bh = NoBlock /\ Next_foreign /\ wild' = TRUE
      <3>1. call'.bh = NoBlock
        BY <2>2, CallFields DEF Next_foreign, DInv, CallOK, Call
      <3> QED BY <2>2, <3>1
    <2> QED BY <2>1, <2>2 DEF create_entry, create_no_inode, create_foreign, Return
  <1> QED BY <1>5, <1>6, <1>7

LEMMA TypesKept == TInv /\ DInv /\ [FileSystemNext]_files => TInv'
  <1> SUFFICES ASSUME TInv, DInv, [FileSystemNext]_files PROVE TInv'
    OBVIOUS
  <1>1. CASE \/ sys_setup \/ sys_setup_bad \/ sys_setup_imount \/ mount \/ unmount
             \/ panic \/ halted \/ UNCHANGED files
    BY <1>1 DEF TInv, sys_setup, sys_setup_bad, sys_setup_imount, mount, unmount, panic, halted,
                files, directory
  <1>2. CASE begin
    <2>1. PICK op, name : start(op, name)
      BY <1>2 DEF begin, lookup, create
    <2>2. call'.bh # NoBlock => call'.i < call'.de + PER
      <3>1. CASE call' = [NoCall EXCEPT !.op = op, !.name = name, !.bh = 0]
        <4>1. call'.i = 0 /\ call'.de = 0
          BY <3>1 DEF NoCall
        <4> QED BY <4>1, Sizes
      <3>2. CASE UNCHANGED call
        BY <3>2 DEF TInv
      <3> QED BY <2>1, <3>1, <3>2 DEF start
    <2>3. UNCHANGED <<entry, i_size, wild, dev, imap, state>>
      BY <1>2 DEF begin, lookup, create, start, OnlyDirectory
    <2> QED BY <2>2, <2>3 DEF TInv
  <1>3. CASE look \/ look_at_entry
    <2>1. UNCHANGED <<dev, imap, state>>
      BY <1>3 DEF look, look_at_entry, OnlyDirectory
    <2>2. CASE lookup_block
      BY <2>1, <2>2, TypesBlock DEF lookup_block, Looking, Idle
    <2>3. CASE lookup_none
      BY <2>1, <2>3 DEF TInv, lookup_none, Return, End, NoCall
    <2>4. CASE lookup_entry
      <3>1. CASE Return(entry[call.de].inode)
        BY <2>1, <2>4, <3>1 DEF TInv, lookup_entry, Return, End, NoCall
      <3>2. CASE Next_entry /\ UNCHANGED wild
        <4>1. call.bh # NoBlock /\ call.i \in Nat /\ call.de \in Nat /\ call \in Call
          BY <2>4, CallFields DEF lookup_entry
        <4>2. call'.i < call'.de + PER
          BY <3>2, <4>1, Sizes DEF Next_entry, TInv, Call
        <4> QED BY <2>1, <2>4, <3>2, <4>2 DEF TInv, lookup_entry
      <3> QED BY <2>4, <3>1, <3>2 DEF lookup_entry
    <2>5. CASE lookup_foreign
      <3>1. CASE End
        BY <2>1, <2>5, <3>1 DEF TInv, lookup_foreign, End, NoCall
      <3>2. CASE Next_foreign /\ wild' = TRUE
        <4>1. call'.bh = NoBlock
          BY <2>5, <3>2, CallFields DEF lookup_foreign, Next_foreign, Call
        <4> QED BY <2>1, <2>5, <3>2, <4>1 DEF TInv, lookup_foreign
      <3> QED BY <2>5, <3>1, <3>2 DEF lookup_foreign
    <2> QED BY <1>3, <2>2, <2>3, <2>4, <2>5 DEF look, look_at_entry
  <1>4. CASE search
    <2>1. UNCHANGED <<dev, imap, state>>
      BY <1>4 DEF search, OnlyDirectory
    <2>2. CASE create_block
      BY <2>1, <2>2, TypesBlock DEF create_block, Creating, Idle
    <2>3. CASE create_no_block
      BY <2>1, <2>3 DEF TInv, create_no_block, Return, End, NoCall
    <2>4. CASE create_skip
      <3>1. call.bh # NoBlock /\ call.i \in Nat /\ call.de \in Nat /\ call \in Call
        BY <2>4, CallFields DEF create_skip
      <3>2. call'.i < call'.de + PER
        BY <2>4, <3>1, Sizes DEF create_skip, Next_entry, TInv, Call
      <3> QED BY <2>1, <2>4, <3>2 DEF TInv, create_skip
    <2> QED BY <1>4, <2>2, <2>3, <2>4 DEF search
  <1>5. CASE create_inode \/ create_inode_bad_luck \/ create_inode_full
    <2>1. ~Idle
      BY <1>5 DEF create_inode, create_inode_bad_luck, create_inode_full, create_entry,
                  create_foreign, create_no_inode, Creating, Idle
    <2>2. FreeInodes # {} => add_inode_bitmap \in Inodes
      BY FreeInode
    <2>3. /\ entry' \in [Places -> EntryType]
          /\ i_size' \in 1..((MaxBlocks + 1) * PER)
          /\ call'.bh # NoBlock => call'.i < call'.de + PER
          /\ wild' \in {TRUE, FALSE}
      BY <1>5, <2>1, <2>2, TypesEntry
         DEF create_inode, create_inode_bad_luck, create_inode_full
    <2>4. dev' \in DirectoryDevices /\ imap' \subseteq Inodes
          /\ state' \in {"boot", "mounted", "up", "panic"}
      BY <1>5, <2>2 DEF TInv, create_inode, create_inode_bad_luck, create_inode_full,
                        OnlyDirectory
    <2> QED BY <2>3, <2>4 DEF TInv
  <1> QED BY <1>1, <1>2, <1>3, <1>4, <1>5 DEF FileSystemNext

LEMMA TypesOK == ASSUME TInv, DInv, SInv PROVE TypeOK
  <1>1. call.bh \in 0..(MaxBlocks - 1) => call.de \div PER \in {call.bh, call.bh + 1}
    <2> SUFFICES ASSUME call.bh \in 0..(MaxBlocks - 1)
                 PROVE  call.de \div PER \in {call.bh, call.bh + 1}
      OBVIOUS
    <2>1. call.bh * PER <= call.de /\ call.de <= (call.bh + 1) * PER /\ call.de \in Nat
      BY CallFields DEF DInv, CallOK, NoBlock
    <2>2. call.bh + 1 \in Nat /\ (call.bh + 1 + 1) * PER = (call.bh + 1) * PER + PER
          /\ (call.bh + 1) * PER \in Nat
      BY Order
    <2>3. CASE call.de < (call.bh + 1) * PER
      BY <2>1, <2>3, BlockOf
    <2>4. CASE call.de = (call.bh + 1) * PER
      <3>1. call.de < (call.bh + 1 + 1) * PER
        BY <2>2, <2>4, Sizes
      <3>2. call.de \div PER = call.bh + 1
        BY <2>1, <2>2, <2>4, <3>1, BlockOf
      <3> QED BY <3>2
    <2> QED BY <2>1, <2>2, <2>3, <2>4
  <1>2. held \in {0, 1}
    BY DEF DInv, OneBuffer
  <1>3. DirectoryTypeOK
    BY <1>1, <1>2, CallFields DEF DirectoryTypeOK, TInv, EntryType
  <1>4. b_count \in [SB!Blocks -> Nat]
    <2>1. ASSUME NEW b \in SB!Blocks PROVE b_count[b] \in Nat
      <3>1. PICK s \in SB!Supers : TRUE
        BY SuperSizes DEF SB!Supers
      <3>2. References(super_block_list, b) \in Nat
        BY <3>1, Change DEF SInv
      <3> QED BY <3>2 DEF SInv, Held
    <2> QED BY <2>1 DEF SInv
  <1>5. SB!SuperTypeOK
    BY <1>4 DEF SInv, SB!SuperTypeOK, Entry, Map
  <1> QED BY <1>3, <1>5 DEF TypeOK, TInv

(* Every variable keeps its type. *)
THEOREM FileSystemTypes == FileSystemSpec => []TypeOK
<1>1. FileSystemSpec => []TInv
  BY TypesStart, TypesKept, DirectoryInvariance, PTL DEF FileSystemSpec
<1> QED BY <1>1, TypesOK, DirectoryInvariance, TableInvariance, PTL

(* super.c:186-194, 114-118: the references that the table holds to bitmap *)
(* blocks are those of the mounted devices.                                *)
THEOREM MountsAccounted == FileSystemSpec => []HeldByMounted
<1>1. SInv => SB!HeldByMounted
  <2> SUFFICES ASSUME SInv, NEW b \in SB!Blocks
               PROVE  LET InUse == {p \in SB!Supers \X SB!MapSlots :
                                        super_block_list[p[1]].s_dev # 0}
                      IN  b_count[b] =
                            Cardinality({p \in InUse : super_block_list[p[1]].s_imap[p[2]] = b})
                          + Cardinality({p \in InUse : super_block_list[p[1]].s_zmap[p[2]] = b})
    BY SameCardinality DEF SB!HeldByMounted
  <2> DEFINE InUse == {p \in SB!Supers \X SB!MapSlots : super_block_list[p[1]].s_dev # 0}
  <2>1. {p \in InUse : super_block_list[p[1]].s_imap[p[2]] = b}
            = Use(Used(super_block_list), IMaps(super_block_list), b)
    BY DEF Use, Used, IMaps
  <2>2. {p \in InUse : super_block_list[p[1]].s_zmap[p[2]] = b}
            = Use(Used(super_block_list), ZMaps(super_block_list), b)
    BY DEF Use, Used, ZMaps
  <2>3. b_count[b] = References(super_block_list, b)
    BY DEF SInv, Held
  <2> QED BY <2>1, <2>2, <2>3 DEF References
<1> QED BY <1>1, FileSystemTypes, TableInvariance, PTL DEF HeldByMounted
=============================================================================
