-------------------------- MODULE BufferCacheProof --------------------------
(***************************************************************************)
(* Proofs about the buffer cache, for any number of buffers, buckets and   *)
(* blocks and any hash function.                                           *)
(***************************************************************************)
EXTENDS BufferCache, LeastNumber, SequenceTheorems

(* The fields of queues. *)
Queues == [next : [Buffers -> Ptr], prev : [Buffers -> Ptr],
           next_free : [Buffers -> Buffers], prev_free : [Buffers -> Buffers],
           hash_table : [Buckets -> Ptr], free_list : Buffers]

(* The positions of the circular list and of a chain around position n. *)
After(n) == IF n = NR_BUFFERS THEN 1 ELSE n + 1
Before(n) == IF n = 1 THEN NR_BUFFERS ELSE n - 1

(* An order of all buffers, and the pointers that lead through them in it. *)
IsOrder(ord) ==
    /\ ord \in [Buffers -> Buffers]
    /\ \A m, n \in Buffers : ord[m] = ord[n] => m = n
    /\ \A b \in Buffers : \E n \in Buffers : ord[n] = b
Forward(f, ord) == f \in [Buffers -> Buffers] /\ \A n \in Buffers : f[ord[n]] = ord[After(n)]
Backward(g, ord) == g \in [Buffers -> Buffers] /\ \A n \in Buffers : g[ord[n]] = ord[Before(n)]

(* The circular list q goes through all buffers in the order ord. *)
IsRing(q, ord) ==
    /\ IsOrder(ord)
    /\ q.free_list = ord[1]
    /\ Forward(q.next_free, ord)
    /\ Backward(q.prev_free, ord)

(* Bucket h of q has the chain c of len buffers, which are those of M. *)
IsChain(q, h, len, c, M) ==
    /\ c \in [1..len -> M]
    /\ \A m, n \in 1..len : c[m] = c[n] => m = n
    /\ \A b \in M : \E n \in 1..len : c[n] = b
    /\ q.hash_table[h] = IF len = 0 THEN NULL ELSE c[1]
    /\ \A n \in 1..len : q.next[c[n]] = IF n = len THEN NULL ELSE c[n + 1]
    /\ \A n \in 1..len : q.prev[c[n]] = IF n = 1 THEN NULL ELSE c[n - 1]
HasChain(q, h, M) == \E len \in Nat : \E c : IsChain(q, h, len, c, M)

Hashed(bl, h) == {b \in Buffers : bl[b] # NoBlock /\ _hashfn[bl[b]] = h}
Unlinked(q, b) == q.next[b] = NULL /\ q.prev[b] = NULL

RingOK == \E ord : IsRing(queues, ord)
ChainsOK ==
    /\ \A h \in Buckets : HasChain(queues, h, Hashed(block, h))
    /\ \A b \in Buffers : block[b] = NoBlock => Unlinked(queues, b)

-----------------------------------------------------------------------------
(* new_buff moves a buffer to the end of the circular list and to the head *)
(* of a chain.                                                             *)
Moved(q, b, k) == insert_into_queues(remove_from_queues(q, b), b, k)

LEMMA Sizes ==
    /\ NR_BUFFERS \in Nat /\ NR_BUFFERS >= 1 /\ Buffers = 1..NR_BUFFERS
    /\ NULL = 0 /\ NULL \notin Buffers /\ Ptr = Buffers \cup {NULL}
    /\ \A k \in Blocks : _hashfn[k] \in Buckets /\ k # NoBlock
    /\ _hashfn[NoBlock] \in Buckets /\ NoBlock \notin Blocks
BY CacheAssumption DEF Buffers, NULL, Ptr, Buckets, NoBlock

LEMMA Fields ==
    ASSUME NEW q \in Queues
    PROVE  /\ q.next \in [Buffers -> Ptr] /\ q.prev \in [Buffers -> Ptr]
           /\ q.next_free \in [Buffers -> Buffers] /\ q.prev_free \in [Buffers -> Buffers]
           /\ q.hash_table \in [Buckets -> Ptr] /\ q.free_list \in Buffers
           /\ q = [next |-> q.next, prev |-> q.prev, next_free |-> q.next_free,
                   prev_free |-> q.prev_free, hash_table |-> q.hash_table, free_list |-> q.free_list]
BY DEF Queues

(* The fields of r, which is q without b. *)
IsRemoved(q, b, r) ==
    /\ r \in Queues
    /\ r.next_free = [q.next_free EXCEPT ![q.prev_free[b]] = q.next_free[b]]
    /\ r.prev_free = [q.prev_free EXCEPT ![q.next_free[b]] = q.prev_free[b]]
    /\ r.free_list = IF q.free_list = b THEN q.next_free[b] ELSE q.free_list
    /\ r.next = IF q.prev[b] = NULL THEN q.next ELSE [q.next EXCEPT ![q.prev[b]] = q.next[b]]
    /\ r.prev = IF q.next[b] = NULL THEN q.prev ELSE [q.prev EXCEPT ![q.next[b]] = q.prev[b]]
    /\ r.hash_table = IF q.hash_table[_hashfn[block[b]]] = b
                      THEN [q.hash_table EXCEPT ![_hashfn[block[b]]] = q.next[b]]
                      ELSE q.hash_table

LEMMA Removed ==
    ASSUME NEW q \in Queues, NEW b \in Buffers
    PROVE  IsRemoved(q, b, remove_from_queues(q, b))
  <1> DEFINE r == remove_from_queues(q, b)
             nf == [q.next_free EXCEPT ![q.prev_free[b]] = q.next_free[b]]
             pf == [q.prev_free EXCEPT ![q.next_free[b]] = q.prev_free[b]]
             fl == IF q.free_list = b THEN q.next_free[b] ELSE q.free_list
             nx == IF q.prev[b] = NULL THEN q.next ELSE [q.next EXCEPT ![q.prev[b]] = q.next[b]]
             pv == IF q.next[b] = NULL THEN q.prev ELSE [q.prev EXCEPT ![q.next[b]] = q.prev[b]]
             ht == IF q.hash_table[_hashfn[block[b]]] = b
                   THEN [q.hash_table EXCEPT ![_hashfn[block[b]]] = q.next[b]] ELSE q.hash_table
  <1>1. r = [next |-> nx, prev |-> pv, next_free |-> nf, prev_free |-> pf, hash_table |-> ht,
             free_list |-> fl]
    BY DEF remove_from_queues
  <1>2. nf \in [Buffers -> Buffers] /\ pf \in [Buffers -> Buffers] /\ fl \in Buffers
    BY Fields
  <1>3. nx \in [Buffers -> Ptr] /\ pv \in [Buffers -> Ptr]
    BY Fields, Sizes
  <1>6. ht \in [Buckets -> Ptr]
    BY Fields
  <1> HIDE DEF nf, pf, fl, nx, pv, ht, r
  <1>4. r \in Queues
    BY <1>1, <1>2, <1>3, <1>6 DEF Queues
  <1>5. /\ r.next = nx /\ r.prev = pv /\ r.next_free = nf /\ r.prev_free = pf
        /\ r.hash_table = ht /\ r.free_list = fl
    BY <1>1
  <1> QED BY <1>4, <1>5 DEF nf, pf, fl, nx, pv, ht, r, IsRemoved

(* The fields of r, which is q with b for block k at the end of the        *)
(* circular list and at the head of its chain.                             *)
IsInserted(q, b, k, r) ==
    LET last == q.prev_free[q.free_list]
        head == q.hash_table[_hashfn[k]]
    IN  /\ r \in Queues
        /\ r.next_free = [q.next_free EXCEPT ![b] = q.free_list, ![last] = b]
        /\ r.prev_free = [q.prev_free EXCEPT ![b] = last, ![q.free_list] = b]
        /\ r.free_list = q.free_list
        /\ r.next = [q.next EXCEPT ![b] = head]
        /\ r.prev = [c \in Buffers |-> IF c = b THEN NULL ELSE IF c = head THEN b ELSE q.prev[c]]
        /\ r.hash_table = [q.hash_table EXCEPT ![_hashfn[k]] = b]

LEMMA Inserted ==
    ASSUME NEW q \in Queues, NEW b \in Buffers, NEW k \in Blocks
    PROVE  IsInserted(q, b, k, insert_into_queues(q, b, k))
  <1> DEFINE r == insert_into_queues(q, b, k)
             last == q.prev_free[q.free_list]
             head == q.hash_table[_hashfn[k]]
             nf == [q.next_free EXCEPT ![b] = q.free_list, ![last] = b]
             pf == [q.prev_free EXCEPT ![b] = last, ![q.free_list] = b]
             nx == [q.next EXCEPT ![b] = head]
             pv == [c \in Buffers |-> IF c = b THEN NULL ELSE IF c = head THEN b ELSE q.prev[c]]
             ht == [q.hash_table EXCEPT ![_hashfn[k]] = b]
  <1>1. r = [next |-> nx, prev |-> pv, next_free |-> nf, prev_free |-> pf, hash_table |-> ht,
             free_list |-> q.free_list]
    BY DEF insert_into_queues
  <1>2. nf \in [Buffers -> Buffers] /\ pf \in [Buffers -> Buffers] /\ q.free_list \in Buffers
    BY Fields
  <1>3. nx \in [Buffers -> Ptr] /\ pv \in [Buffers -> Ptr] /\ ht \in [Buckets -> Ptr]
    BY Fields, Sizes
  <1> HIDE DEF nf, pf, nx, pv, ht, r, last, head
  <1>4. r \in Queues
    BY <1>1, <1>2, <1>3 DEF Queues
  <1>5. /\ r.next = nx /\ r.prev = pv /\ r.next_free = nf /\ r.prev_free = pf
        /\ r.hash_table = ht /\ r.free_list = q.free_list
    BY <1>1
  <1> QED BY <1>4, <1>5 DEF nf, pf, nx, pv, ht, r, last, head, IsInserted

MoveLast(ord, p) == [n \in Buffers |-> IF n < p THEN ord[n]
                                       ELSE IF n < NR_BUFFERS THEN ord[n + 1] ELSE ord[p]]

LEMMA Positions ==
    /\ NR_BUFFERS \in Buffers /\ 1 \in Buffers /\ NR_BUFFERS \in Nat
    /\ \A n \in Buffers : n \in Nat /\ 1 <= n /\ n <= NR_BUFFERS
    /\ \A n \in Buffers : n < NR_BUFFERS => n + 1 \in Buffers
    /\ \A n \in Buffers : n > 1 => n - 1 \in Buffers
BY Sizes

LEMMA Around ==
    /\ \A n \in Buffers : After(n) \in Buffers /\ Before(n) \in Buffers
    /\ \A n \in Buffers : n < NR_BUFFERS => After(n) = n + 1
    /\ \A n \in Buffers : n > 1 => Before(n) = n - 1
    /\ After(NR_BUFFERS) = 1 /\ Before(1) = NR_BUFFERS
BY Sizes DEF After, Before

LEMMA MoveLastAt ==
    ASSUME NEW ord \in [Buffers -> Buffers], NEW p \in Buffers
    PROVE  /\ MoveLast(ord, p) \in [Buffers -> Buffers]
           /\ \A n \in Buffers : n < p => MoveLast(ord, p)[n] = ord[n]
           /\ \A n \in Buffers : n >= p /\ n < NR_BUFFERS => MoveLast(ord, p)[n] = ord[n + 1]
           /\ MoveLast(ord, p)[NR_BUFFERS] = ord[p]
BY Sizes DEF MoveLast

LEMMA MoveLastOnce ==
    ASSUME NEW ord \in [Buffers -> Buffers], NEW p \in Buffers,
           \A i, j \in Buffers : ord[i] = ord[j] => i = j,
           NEW i \in Buffers, NEW j \in Buffers, i < j
    PROVE  MoveLast(ord, p)[i] # MoveLast(ord, p)[j]
  <1> DEFINE new == MoveLast(ord, p)
             from(n) == IF n < p THEN n ELSE IF n < NR_BUFFERS THEN n + 1 ELSE p
  <1>1. /\ \A n \in Buffers : n < p => new[n] = ord[n]
        /\ \A n \in Buffers : n >= p /\ n < NR_BUFFERS => new[n] = ord[n + 1]
        /\ new[NR_BUFFERS] = ord[p]
    BY MoveLastAt
  <1>2. /\ from(i) \in Buffers /\ from(j) \in Buffers /\ from(i) # from(j)
    BY Positions
  <1> HIDE DEF new
  <1>3. new[i] = ord[from(i)] /\ new[j] = ord[from(j)]
    BY <1>1, Positions
  <1> HIDE DEF from
  <1> QED BY <1>2, <1>3 DEF new

(* The links of a ring after one element has been moved to its end: those  *)
(* to the next one, and those to the one before.                           *)
Relinked(f, ord, p) ==
    [[f EXCEPT ![ord[Before(p)]] = ord[After(p)]]
        EXCEPT ![ord[p]] = MoveLast(ord, p)[1], ![MoveLast(ord, p)[NR_BUFFERS - 1]] = ord[p]]
RelinkedBack(g, ord, p) ==
    [[g EXCEPT ![ord[After(p)]] = ord[Before(p)]]
        EXCEPT ![ord[p]] = MoveLast(ord, p)[NR_BUFFERS - 1], ![MoveLast(ord, p)[1]] = ord[p]]

LEMMA NextLinks ==
    ASSUME NEW ord, IsOrder(ord), NEW p \in Buffers, NR_BUFFERS > 1, NEW f, Forward(f, ord)
    PROVE  Forward(Relinked(f, ord, p), MoveLast(ord, p))
  <1> DEFINE new == MoveLast(ord, p)
             F == new[1]
             last == new[NR_BUFFERS - 1]
             f1 == [f EXCEPT ![ord[Before(p)]] = ord[After(p)]]
             f2 == [f1 EXCEPT ![ord[p]] = F, ![last] = ord[p]]
  <1>0. /\ ord \in [Buffers -> Buffers] /\ \A i, j \in Buffers : ord[i] = ord[j] => i = j
        /\ f \in [Buffers -> Buffers]
        /\ \A n \in Buffers : f[ord[n]] = ord[After(n)]
    BY DEF IsOrder, Forward
  <1>a. f2 = Relinked(f, ord, p)
    BY DEF Relinked
  <1>1. /\ new \in [Buffers -> Buffers] /\ \A n \in Buffers : n < p => new[n] = ord[n]
        /\ \A n \in Buffers : n >= p /\ n < NR_BUFFERS => new[n] = ord[n + 1]
        /\ new[NR_BUFFERS] = ord[p]
    BY <1>0, MoveLastAt
  <1>2. F = new[1] /\ last = new[NR_BUFFERS - 1]
    OBVIOUS
  <1>b. /\ 1 \in Buffers /\ NR_BUFFERS \in Buffers /\ NR_BUFFERS - 1 \in Buffers
        /\ NR_BUFFERS \in Nat
        /\ \A n \in Buffers : n \in Nat /\ 1 <= n /\ n <= NR_BUFFERS
        /\ \A n \in Buffers : n < NR_BUFFERS => n + 1 \in Buffers
    BY Positions
  <1>i. \A i, j \in Buffers : i < j => new[i] # new[j]
    BY <1>0, MoveLastOnce
  <1> HIDE DEF new, F, last
  <1>c. last \in Buffers /\ F \in Buffers /\ last # ord[p] /\ ord[p] \in Buffers
    <2>1. NR_BUFFERS - 1 < NR_BUFFERS
      BY <1>b
    <2> QED BY <1>1, <1>2, <1>i, <1>b, <2>1
  <1>3. f1 \in [Buffers -> Buffers] /\ \A c \in Buffers : c # ord[Before(p)] => f1[c] = f[c]
    BY <1>0, Around
  <1>4. f1[ord[Before(p)]] = ord[After(p)]
    BY <1>0, Around
  <1>5. f2[ord[p]] = F /\ f2[last] = ord[p]
    BY <1>0, <1>3, <1>c
  <1>6. \A c \in Buffers : c # ord[p] /\ c # last => f2[c] = f1[c]
    BY <1>0, <1>3, <1>c
  <1>d. f2 \in [Buffers -> Buffers]
    BY <1>3, <1>c
  <1> HIDE DEF f1, f2
  <1>q. ASSUME NEW n \in Buffers PROVE f2[new[n]] = new[After(n)]
    <2>7. CASE n = NR_BUFFERS
      BY <1>1, <1>2, <1>5, <2>7, Around
    <2>8. CASE n = NR_BUFFERS - 1
      BY <1>1, <1>2, <1>5, <2>8, <1>b, Around
    <2>9. CASE n < NR_BUFFERS - 1
      <3>1. /\ n + 1 \in Buffers /\ n + 2 \in Buffers /\ After(n) = n + 1
            /\ n < NR_BUFFERS /\ n < NR_BUFFERS - 1
        BY <1>b, <2>9, Around
      <3>0. new[n] # ord[p] /\ new[n] # last
        BY <1>1, <1>2, <1>i, <1>b, <3>1
      <3>2. f2[new[n]] = f1[new[n]]
        BY <1>1, <1>6, <3>0
      <3>3. CASE n + 1 < p
        <4>1. new[n] = ord[n] /\ new[n + 1] = ord[n + 1] /\ n # Before(p)
          BY <1>1, <1>b, <3>1, <3>3, Around
        <4> QED BY <1>0, <1>3, <3>1, <3>2, <4>1, Around
      <3>4. CASE n + 1 = p
        <4>1. new[n] = ord[n] /\ new[n + 1] = ord[n + 2] /\ n = Before(p) /\ n + 2 = After(p)
          BY <1>1, <1>b, <3>1, <3>4, <2>9, Around
        <4> QED BY <1>0, <1>4, <3>1, <3>2, <4>1, Around
      <3>5. CASE n >= p
        <4>1. new[n] = ord[n + 1] /\ new[n + 1] = ord[n + 2] /\ n + 1 # Before(p) /\ n + 2 = After(n + 1)
          BY <1>1, <1>b, <3>1, <3>5, <2>9, Around
        <4> QED BY <1>0, <1>3, <3>1, <3>2, <4>1, Around
      <3>6. n \in Nat /\ p \in Nat
        BY <1>b
      <3>7. n + 1 < p \/ n + 1 = p \/ n >= p
        BY <3>6
      <3> QED BY <3>3, <3>4, <3>5, <3>7
    <2> QED BY <1>b, <2>7, <2>8, <2>9
  <1> QED BY <1>a, <1>d, <1>q DEF Forward, new

LEMMA PrevLinks ==
    ASSUME NEW ord, IsOrder(ord), NEW p \in Buffers, NR_BUFFERS > 1, NEW g, Backward(g, ord)
    PROVE  Backward(RelinkedBack(g, ord, p), MoveLast(ord, p))
  <1> DEFINE new == MoveLast(ord, p)
             F == new[1]
             last == new[NR_BUFFERS - 1]
             g1 == [g EXCEPT ![ord[After(p)]] = ord[Before(p)]]
             g2 == [g1 EXCEPT ![ord[p]] = last, ![F] = ord[p]]
  <1>0. /\ ord \in [Buffers -> Buffers] /\ \A i, j \in Buffers : ord[i] = ord[j] => i = j
        /\ g \in [Buffers -> Buffers]
        /\ \A n \in Buffers : g[ord[n]] = ord[Before(n)]
    BY DEF IsOrder, Backward
  <1>a. g2 = RelinkedBack(g, ord, p)
    BY DEF RelinkedBack
  <1>1. /\ new \in [Buffers -> Buffers] /\ \A n \in Buffers : n < p => new[n] = ord[n]
        /\ \A n \in Buffers : n >= p /\ n < NR_BUFFERS => new[n] = ord[n + 1]
        /\ new[NR_BUFFERS] = ord[p]
    BY <1>0, MoveLastAt
  <1>2. F = new[1] /\ last = new[NR_BUFFERS - 1]
    OBVIOUS
  <1>b. /\ 1 \in Buffers /\ NR_BUFFERS \in Buffers /\ NR_BUFFERS - 1 \in Buffers
        /\ NR_BUFFERS \in Nat
        /\ \A n \in Buffers : n \in Nat /\ 1 <= n /\ n <= NR_BUFFERS
        /\ \A n \in Buffers : n < NR_BUFFERS => n + 1 \in Buffers
    BY Positions
  <1>i. \A i, j \in Buffers : i < j => new[i] # new[j]
    BY <1>0, MoveLastOnce
  <1> HIDE DEF new, F, last
  <1>c. last \in Buffers /\ F \in Buffers /\ last # ord[p] /\ ord[p] \in Buffers
    <2>1. NR_BUFFERS - 1 < NR_BUFFERS
      BY <1>b
    <2> QED BY <1>1, <1>2, <1>i, <1>b, <2>1
  <1>3. g1 \in [Buffers -> Buffers] /\ \A c \in Buffers : c # ord[After(p)] => g1[c] = g[c]
    BY <1>0, Around
  <1>4. g1[ord[After(p)]] = ord[Before(p)]
    BY <1>0, Around
  <1>5. g2[F] = ord[p] /\ (F # ord[p] => g2[ord[p]] = last)
    BY <1>0, <1>3, <1>c
  <1>6. \A c \in Buffers : c # ord[p] /\ c # F => g2[c] = g1[c]
    BY <1>0, <1>3, <1>c
  <1>f. F # ord[p]
    BY <1>1, <1>2, <1>i, <1>b
  <1>d. g2 \in [Buffers -> Buffers]
    BY <1>3, <1>c
  <1> HIDE DEF g1, g2
  <1>q. ASSUME NEW n \in Buffers PROVE g2[new[n]] = new[Before(n)]
    <2>7. CASE n = NR_BUFFERS
      BY <1>1, <1>2, <1>5, <1>f, <2>7, Around
    <2>8. CASE n = 1
      BY <1>1, <1>2, <1>5, <2>8, <1>b, Around
    <2>9. CASE n > 1 /\ n < NR_BUFFERS
      <3>1. /\ n - 1 \in Buffers /\ n + 1 \in Buffers /\ Before(n) = n - 1 /\ n - 1 < NR_BUFFERS
        BY <1>b, <2>9, Around, Positions
      <3>0. new[n] # ord[p] /\ new[n] # F
        BY <1>1, <1>2, <1>i, <1>b, <2>9
      <3>2. g2[new[n]] = g1[new[n]]
        BY <1>1, <1>6, <3>0
      <3>3. CASE n < p
        <4>1. new[n] = ord[n] /\ new[n - 1] = ord[n - 1] /\ n # After(p)
          BY <1>1, <1>b, <2>9, <3>1, <3>3, Around
        <4> QED BY <1>0, <1>3, <3>1, <3>2, <4>1, Around
      <3>4. CASE n = p
        <4>1. new[n] = ord[n + 1] /\ new[n - 1] = ord[n - 1] /\ n - 1 = Before(p) /\ n + 1 = After(p)
          BY <1>1, <1>b, <3>1, <3>4, <2>9, Around
        <4> QED BY <1>0, <1>4, <3>1, <3>2, <4>1, Around
      <3>5. CASE n > p
        <4>1. /\ new[n] = ord[n + 1] /\ new[n - 1] = ord[n] /\ n + 1 # After(p)
              /\ n = Before(n + 1)
          BY <1>1, <1>b, <3>1, <3>5, <2>9, Around
        <4> QED BY <1>0, <1>3, <3>1, <3>2, <4>1, Around
      <3> QED BY <1>b, <3>3, <3>4, <3>5
    <2> QED BY <1>b, <2>7, <2>8, <2>9
  <1> QED BY <1>a, <1>d, <1>q DEF Backward, new

(* The circular list stays one ring, with the buffer at its end. *)
LEMMA RingMoves ==
    ASSUME NEW q \in Queues, NEW b \in Buffers, NEW k \in Blocks,
           NEW ord, IsRing(q, ord), NEW p \in Buffers, ord[p] = b
    PROVE  IsRing(Moved(q, b, k), MoveLast(ord, p))
  <1> DEFINE new == MoveLast(ord, p)
             r == remove_from_queues(q, b)
             m == Moved(q, b, k)
             a == ord[After(p)]
             z == ord[Before(p)]
             last == r.prev_free[r.free_list]
  <1>0. /\ ord \in [Buffers -> Buffers] /\ q.free_list = ord[1]
        /\ \A i, j \in Buffers : ord[i] = ord[j] => i = j
        /\ \A n \in Buffers : q.next_free[ord[n]] = ord[After(n)]
        /\ \A n \in Buffers : q.prev_free[ord[n]] = ord[Before(n)]
        /\ \A c \in Buffers : \E n \in Buffers : ord[n] = c
    BY DEF IsRing, IsOrder, Forward, Backward
  <1>1. q.next_free[b] = a /\ q.prev_free[b] = z /\ a \in Buffers /\ z \in Buffers
    BY <1>0, Around
  <1>r. IsRemoved(q, b, r)
    BY Removed
  <1>m. IsInserted(r, b, k, m)
    <2>1. r \in Queues
      BY <1>r DEF IsRemoved
    <2> QED BY <2>1, Inserted DEF Moved
  <1>2. /\ q.next_free \in [Buffers -> Buffers] /\ q.prev_free \in [Buffers -> Buffers]
    BY Fields
  <1>3. /\ new \in [Buffers -> Buffers]
        /\ \A n \in Buffers : n < p => new[n] = ord[n]
        /\ \A n \in Buffers : n >= p /\ n < NR_BUFFERS => new[n] = ord[n + 1]
        /\ new[NR_BUFFERS] = b
    BY <1>0, MoveLastAt
  <1>4. \A i, j \in Buffers : new[i] = new[j] => i = j
    <2> SUFFICES ASSUME NEW i \in Buffers, NEW j \in Buffers, i # j PROVE new[i] # new[j]
      OBVIOUS
    <2>1. i < j => new[i] # new[j]
      BY <1>0, MoveLastOnce
    <2>2. j < i => new[j] # new[i]
      BY <1>0, MoveLastOnce
    <2> HIDE DEF new
    <2> QED BY <2>1, <2>2, Positions
  <1> HIDE DEF new, r, m
  <1>s. /\ r.next_free = [q.next_free EXCEPT ![q.prev_free[b]] = q.next_free[b]]
        /\ r.prev_free = [q.prev_free EXCEPT ![q.next_free[b]] = q.prev_free[b]]
        /\ r.free_list = IF q.free_list = b THEN q.next_free[b] ELSE q.free_list
    BY <1>r DEF IsRemoved
  <1>t. /\ m.next_free = [r.next_free EXCEPT ![b] = r.free_list, ![last] = b]
        /\ m.prev_free = [r.prev_free EXCEPT ![b] = last, ![r.free_list] = b]
        /\ m.free_list = r.free_list
    BY <1>m DEF IsInserted
  <1> HIDE DEF last
  <1>5. \A c \in Buffers : \E n \in Buffers : new[n] = c
    <2> SUFFICES ASSUME NEW c \in Buffers PROVE \E n \in Buffers : new[n] = c
      OBVIOUS
    <2>1. PICK i \in Buffers : ord[i] = c
      BY <1>0
    <2>2. CASE i < p
      BY <1>3, <2>1, <2>2
    <2>3. CASE i = p
      BY <1>3, <2>1, <2>3, Positions
    <2>4. CASE i > p
      <3>1. i - 1 \in Buffers /\ i - 1 >= p /\ i - 1 < NR_BUFFERS /\ i - 1 + 1 = i
        BY Positions, <2>4
      <3> QED BY <1>3, <2>1, <3>1
    <2> QED BY Positions, <2>2, <2>3, <2>4
  <1>9. IsOrder(new)
    BY <1>3, <1>4, <1>5 DEF IsOrder
  <1>6. r.next_free = [q.next_free EXCEPT ![z] = a] /\ r.prev_free = [q.prev_free EXCEPT ![a] = z]
        /\ r.free_list = IF ord[1] = b THEN a ELSE ord[1]
    BY <1>0, <1>1, <1>s
  <1>7. CASE NR_BUFFERS = 1
    <2>1. Buffers = {1} /\ p = 1 /\ b = 1 /\ ord[1] = 1 /\ a = 1 /\ z = 1 /\ new[1] = 1
      BY <1>0, <1>1, <1>3, <1>7, Sizes
    <2>2. After(1) = 1 /\ Before(1) = 1 /\ r.free_list = 1 /\ last \in {1}
      BY <1>2, <1>6, <1>7, <2>1, Around DEF last
    <2>3. m.next_free[1] = 1 /\ m.prev_free[1] = 1
      BY <1>2, <1>6, <1>t, <2>1, <2>2
    <2>4. m.next_free \in [Buffers -> Buffers] /\ m.prev_free \in [Buffers -> Buffers]
      BY <1>m, Fields DEF IsInserted
    <2> QED BY <1>9, <1>t, <2>1, <2>2, <2>3, <2>4 DEF IsRing, Forward, Backward, new, m
  <1>8. CASE NR_BUFFERS > 1
    <2>1. r.free_list = new[1]
      <3>1. CASE p = 1
        BY <1>0, <1>3, <1>6, <1>8, <3>1, Positions, Around
      <3>2. CASE p > 1
        BY <1>0, <1>3, <1>6, <1>8, <3>2, Positions, Around
      <3> QED BY Positions, <3>1, <3>2
    <2>2. last = new[NR_BUFFERS - 1]
      <3>1. CASE p = 1
        <4>1. new[1] = a /\ Before(p) = NR_BUFFERS /\ NR_BUFFERS - 1 >= p /\ NR_BUFFERS - 1 \in Buffers
          BY <1>3, <1>8, <3>1, Positions, Around
        <4>2. new[NR_BUFFERS - 1] = ord[NR_BUFFERS]
          BY <1>3, <4>1, Positions
        <4> QED BY <1>1, <1>2, <1>6, <2>1, <4>1, <4>2 DEF last
      <3>2. CASE p = NR_BUFFERS
        <4>1. new[1] = ord[1] /\ After(p) = 1 /\ Before(p) = NR_BUFFERS - 1 /\ NR_BUFFERS - 1 \in Buffers
          BY <1>3, <1>8, <3>2, Positions, Around
        <4>2. new[NR_BUFFERS - 1] = ord[NR_BUFFERS - 1]
          BY <1>3, <3>2, <4>1, Positions
        <4> QED BY <1>1, <1>2, <1>6, <2>1, <4>1, <4>2 DEF last
      <3>3. CASE p > 1 /\ p < NR_BUFFERS
        <4>1. /\ new[1] = ord[1] /\ NR_BUFFERS - 1 \in Buffers /\ NR_BUFFERS - 1 >= p
              /\ After(p) \in Buffers /\ After(p) # 1
          BY <1>3, <1>8, <3>3, Positions, Around
        <4>2. new[NR_BUFFERS - 1] = ord[NR_BUFFERS]
          BY <1>3, <4>1, Positions
        <4>3. q.prev_free[ord[1]] = ord[NR_BUFFERS] /\ ord[1] # a /\ ord[1] \in Buffers
          BY <1>0, <4>1, Positions, Around
        <4> QED BY <1>2, <1>6, <2>1, <4>1, <4>2, <4>3 DEF last
      <3> QED BY Positions, <3>1, <3>2, <3>3
    <2>3. Forward(m.next_free, new)
      <3>1. m.next_free = Relinked(q.next_free, ord, p)
        BY <1>6, <1>t, <2>1, <2>2 DEF new, Relinked
      <3> QED BY <1>8, <3>1, NextLinks DEF new, IsRing
    <2>4. Backward(m.prev_free, new)
      <3>1. m.prev_free = RelinkedBack(q.prev_free, ord, p)
        BY <1>6, <1>t, <2>1, <2>2 DEF new, RelinkedBack
      <3> QED BY <1>8, <3>1, PrevLinks DEF new, IsRing
    <2> QED BY <1>9, <1>t, <2>1, <2>3, <2>4 DEF IsRing, new, m
  <1> QED BY Sizes, <1>7, <1>8

-----------------------------------------------------------------------------
(* The chain of a bucket without b. *)
LEMMA ChainRemoved ==
    ASSUME NEW q \in Queues, NEW r, NEW b \in Buffers, IsRemoved(q, b, r),
           NEW M \in SUBSET Buffers, NEW len \in Nat, NEW c, NEW p \in 1..len, c[p] = b,
           IsChain(q, _hashfn[block[b]], len, c, M), _hashfn[block[b]] \in Buckets
    PROVE  HasChain(r, _hashfn[block[b]], M \ {b})
  <1> DEFINE h == _hashfn[block[b]]
             d == [n \in 1..(len - 1) |-> IF n < p THEN c[n] ELSE c[n + 1]]
  <1>1. /\ c \in [1..len -> M] /\ \A m, n \in 1..len : c[m] = c[n] => m = n
        /\ \A x \in M : \E n \in 1..len : c[n] = x
        /\ q.hash_table[h] = c[1]
        /\ \A n \in 1..len : q.next[c[n]] = IF n = len THEN NULL ELSE c[n + 1]
        /\ \A n \in 1..len : q.prev[c[n]] = IF n = 1 THEN NULL ELSE c[n - 1]
    BY DEF IsChain
  <1>2. /\ q.next \in [Buffers -> Ptr] /\ q.prev \in [Buffers -> Ptr]
        /\ q.hash_table \in [Buckets -> Ptr]
    BY Fields
  <1>3. /\ len - 1 \in Nat /\ \A n \in 1..len : n \in Nat /\ 1 <= n /\ n <= len
        /\ \A n \in 1..(len - 1) : n \in 1..len /\ n + 1 \in 1..len /\ n < len
        /\ \A n \in 1..len : n < len => n \in 1..(len - 1) /\ n + 1 \in 1..len
        /\ \A n \in 1..len : n > 1 => n - 1 \in 1..(len - 1) /\ n - 1 \in 1..len
    OBVIOUS
  <1>4. /\ \A n \in 1..(len - 1) : n < p => d[n] = c[n]
        /\ \A n \in 1..(len - 1) : n >= p => d[n] = c[n + 1]
    OBVIOUS
  <1>5. \A n \in 1..len : c[n] \in Buffers /\ c[n] # NULL
    <2>1. \A x \in M : x \in Buffers /\ x # NULL
      BY Sizes
    <2>2. \A n \in 1..len : c[n] \in M
      BY <1>1
    <2> QED BY <2>1, <2>2
  <1>6. /\ q.next[b] = IF p = len THEN NULL ELSE c[p + 1]
        /\ q.prev[b] = IF p = 1 THEN NULL ELSE c[p - 1]
    BY <1>1
  <1>7. /\ \A n \in 1..len : (p = 1 \/ n # p - 1) => r.next[c[n]] = q.next[c[n]]
        /\ p # 1 => r.next[c[p - 1]] = q.next[b]
    <2>1. r.next = IF q.prev[b] = NULL THEN q.next ELSE [q.next EXCEPT ![q.prev[b]] = q.next[b]]
      BY DEF IsRemoved
    <2>2. CASE p = 1
      BY <1>6, <2>1, <2>2
    <2>3. CASE p # 1
      <3>1. p - 1 \in 1..len /\ q.prev[b] = c[p - 1] /\ c[p - 1] # NULL
        BY <1>3, <1>5, <1>6, <2>3
      <3> QED BY <1>1, <1>2, <1>5, <2>1, <2>3, <3>1
    <2> QED BY <2>2, <2>3
  <1>8. /\ \A n \in 1..len : (p = len \/ n # p + 1) => r.prev[c[n]] = q.prev[c[n]]
        /\ p # len => r.prev[c[p + 1]] = q.prev[b]
    <2>1. r.prev = IF q.next[b] = NULL THEN q.prev ELSE [q.prev EXCEPT ![q.next[b]] = q.prev[b]]
      BY DEF IsRemoved
    <2>2. CASE p = len
      BY <1>6, <2>1, <2>2
    <2>3. CASE p # len
      <3>1. p + 1 \in 1..len /\ q.next[b] = c[p + 1] /\ c[p + 1] # NULL
        BY <1>3, <1>5, <1>6, <2>3
      <3> QED BY <1>1, <1>2, <1>5, <2>1, <2>3, <3>1
    <2> QED BY <2>2, <2>3
  <1> HIDE DEF d
  <1>9. r.hash_table[h] = IF len - 1 = 0 THEN NULL ELSE d[1]
    <2>1. r.hash_table = IF q.hash_table[h] = b THEN [q.hash_table EXCEPT ![h] = q.next[b]]
                                                ELSE q.hash_table
      BY DEF IsRemoved
    <2>2. CASE p = 1
      <3>1. r.hash_table[h] = q.next[b]
        BY <1>1, <1>2, <2>1, <2>2
      <3>2. len # 1 => 1 \in 1..(len - 1) /\ d[1] = c[2] /\ p # len
        BY <1>3, <1>4, <2>2
      <3> QED BY <1>6, <2>2, <3>1, <3>2
    <2>3. CASE p # 1
      <3>1. 1 \in 1..len /\ c[1] # b /\ len # 1 /\ 1 \in 1..(len - 1) /\ 1 < p
        BY <1>1, <1>3, <2>3
      <3> QED BY <1>1, <1>4, <2>1, <3>1
    <2> QED BY <2>2, <2>3
  <1>10. d \in [1..(len - 1) -> M \ {b}]
    <2>1. \A n \in 1..(len - 1) : d[n] \in M \ {b}
      BY <1>1, <1>3, <1>4
    <2> QED BY <2>1 DEF d
  <1>11. ASSUME NEW m \in 1..(len - 1), NEW n \in 1..(len - 1), d[m] = d[n] PROVE m = n
    <2> DEFINE from(i) == IF i < p THEN i ELSE i + 1
    <2>1. d[m] = c[from(m)] /\ d[n] = c[from(n)] /\ from(m) \in 1..len /\ from(n) \in 1..len
      BY <1>3, <1>4
    <2>2. from(m) = from(n)
      <3> HIDE DEF from
      <3> QED BY <1>1, <1>11, <2>1
    <2> QED BY <1>3, <2>2
  <1>12. ASSUME NEW x \in M \ {b} PROVE \E n \in 1..(len - 1) : d[n] = x
    <2>1. PICK i \in 1..len : c[i] = x
      BY <1>1
    <2>2. CASE i < p
      BY <1>3, <1>4, <2>1, <2>2
    <2>3. CASE i > p
      <3>1. i - 1 \in 1..(len - 1) /\ i - 1 >= p /\ i - 1 + 1 = i
        BY <1>3, <2>3
      <3> QED BY <1>4, <2>1, <3>1
    <2> QED BY <1>3, <2>1, <2>2, <2>3
  <1>13. ASSUME NEW n \in 1..(len - 1)
         PROVE  r.next[d[n]] = IF n = len - 1 THEN NULL ELSE d[n + 1]
    <2>0. n \in Nat /\ p \in Nat /\ n \in 1..len /\ n + 1 \in 1..len /\ 1 <= n /\ n <= len - 1
          /\ (n # len - 1 => n + 1 \in 1..(len - 1))
      BY <1>3
    <2>1. CASE n + 1 < p
      <3>1. d[n] = c[n] /\ n # len - 1 /\ d[n + 1] = c[n + 1] /\ r.next[c[n]] = q.next[c[n]] /\ n # len
        BY <1>3, <1>4, <1>7, <2>0, <2>1
      <3> QED BY <1>1, <2>0, <3>1
    <2>2. CASE n + 1 = p
      <3>1. d[n] = c[p - 1] /\ r.next[c[p - 1]] = q.next[b] /\ (n = len - 1 <=> p = len)
        BY <1>4, <1>7, <2>0, <2>2
      <3>2. n # len - 1 => d[n + 1] = c[p + 1]
        BY <1>4, <2>0, <2>2
      <3> QED BY <1>6, <3>1, <3>2
    <2>3. CASE n >= p
      <3>1. d[n] = c[n + 1] /\ r.next[c[n + 1]] = q.next[c[n + 1]] /\ (n = len - 1 <=> n + 1 = len)
        BY <1>3, <1>4, <1>7, <2>0, <2>3
      <3>2. n # len - 1 => d[n + 1] = c[n + 1 + 1]
        BY <1>4, <2>0, <2>3
      <3> QED BY <1>1, <2>0, <3>1, <3>2
    <2> QED BY <2>0, <2>1, <2>2, <2>3
  <1>14. ASSUME NEW n \in 1..(len - 1)
         PROVE  r.prev[d[n]] = IF n = 1 THEN NULL ELSE d[n - 1]
    <2>0. n \in Nat /\ p \in Nat /\ n \in 1..len /\ n + 1 \in 1..len /\ 1 <= n /\ n <= len - 1
          /\ (n # 1 => n - 1 \in 1..(len - 1) /\ n - 1 \in 1..len)
      BY <1>3
    <2>1. CASE n < p
      <3>1. d[n] = c[n] /\ (n # 1 => d[n - 1] = c[n - 1]) /\ r.prev[c[n]] = q.prev[c[n]]
        BY <1>4, <1>8, <2>0, <2>1
      <3> QED BY <1>1, <2>0, <3>1
    <2>2. CASE n = p
      <3>1. d[n] = c[p + 1] /\ r.prev[c[p + 1]] = q.prev[b] /\ (n # 1 => d[n - 1] = c[p - 1])
        BY <1>3, <1>4, <1>8, <2>0, <2>2
      <3> QED BY <1>6, <2>2, <3>1
    <2>3. CASE n > p
      <3>1. d[n] = c[n + 1] /\ r.prev[c[n + 1]] = q.prev[c[n + 1]] /\ n # 1 /\ d[n - 1] = c[n] /\ n + 1 # 1
        BY <1>3, <1>4, <1>8, <2>0, <2>3
      <3>2. n + 1 - 1 = n
        BY <2>0
      <3> QED BY <1>1, <2>0, <3>1, <3>2
    <2> QED BY <2>0, <2>1, <2>2, <2>3
  <1>15. IsChain(r, h, len - 1, d, M \ {b})
    BY <1>9, <1>10, <1>11, <1>12, <1>13, <1>14 DEF IsChain
  <1> QED BY <1>3, <1>15 DEF HasChain

(* A chain whose pointers have not changed. *)
LEMMA ChainKept ==
    ASSUME NEW q, NEW r, NEW h, NEW M, HasChain(q, h, M), r.hash_table[h] = q.hash_table[h],
           \A x \in M : r.next[x] = q.next[x] /\ r.prev[x] = q.prev[x]
    PROVE  HasChain(r, h, M)
  <1>1. PICK len \in Nat : \E c : IsChain(q, h, len, c, M)
    BY DEF HasChain
  <1>2. PICK c : IsChain(q, h, len, c, M)
    BY <1>1
  <1>3. \A n \in 1..len : c[n] \in M
    BY <1>2 DEF IsChain
  <1>4. IsChain(r, h, len, c, M)
    BY <1>2, <1>3 DEF IsChain
  <1> QED BY <1>4 DEF HasChain

(* Where the pointers of a chain lead to. *)
LEMMA ChainInside ==
    ASSUME NEW q, NEW h, NEW M \in SUBSET Buffers, HasChain(q, h, M)
    PROVE  /\ q.hash_table[h] \in M \cup {NULL}
           /\ \A x \in M : q.next[x] \in M \cup {NULL} /\ q.prev[x] \in M \cup {NULL}
  <1>1. PICK len \in Nat : \E c : IsChain(q, h, len, c, M)
    BY DEF HasChain
  <1>2. PICK c : IsChain(q, h, len, c, M)
    BY <1>1
  <1>3. /\ \A n \in 1..len : c[n] \in M
        /\ \A x \in M : \E n \in 1..len : c[n] = x
        /\ q.hash_table[h] = IF len = 0 THEN NULL ELSE c[1]
        /\ \A n \in 1..len : q.next[c[n]] = IF n = len THEN NULL ELSE c[n + 1]
        /\ \A n \in 1..len : q.prev[c[n]] = IF n = 1 THEN NULL ELSE c[n - 1]
    BY <1>2 DEF IsChain
  <1>4. q.hash_table[h] \in M \cup {NULL}
    BY <1>3
  <1>5. ASSUME NEW x \in M PROVE q.next[x] \in M \cup {NULL} /\ q.prev[x] \in M \cup {NULL}
    <2>1. PICK n \in 1..len : c[n] = x
      BY <1>3
    <2>2. n # len => n + 1 \in 1..len
      OBVIOUS
    <2>3. n # 1 => n - 1 \in 1..len
      OBVIOUS
    <2> QED BY <1>3, <2>1, <2>2, <2>3
  <1> QED BY <1>4, <1>5

(* The chain of the bucket of k with b at its head. *)
LEMMA ChainInserted ==
    ASSUME NEW q \in Queues, NEW r, NEW b \in Buffers, NEW k \in Blocks, IsInserted(q, b, k, r),
           NEW M \in SUBSET Buffers, b \notin M, HasChain(q, _hashfn[k], M)
    PROVE  HasChain(r, _hashfn[k], M \cup {b})
  <1> DEFINE h == _hashfn[k]
  <1>1. PICK len \in Nat : \E c : IsChain(q, h, len, c, M)
    BY DEF HasChain
  <1>2. PICK c : IsChain(q, h, len, c, M)
    BY <1>1
  <1> DEFINE d == [n \in 1..(len + 1) |-> IF n = 1 THEN b ELSE c[n - 1]]
  <1>3. /\ c \in [1..len -> M] /\ \A m, n \in 1..len : c[m] = c[n] => m = n
        /\ \A x \in M : \E n \in 1..len : c[n] = x
        /\ q.hash_table[h] = IF len = 0 THEN NULL ELSE c[1]
        /\ \A n \in 1..len : q.next[c[n]] = IF n = len THEN NULL ELSE c[n + 1]
        /\ \A n \in 1..len : q.prev[c[n]] = IF n = 1 THEN NULL ELSE c[n - 1]
    BY <1>2 DEF IsChain
  <1>4. /\ q.next \in [Buffers -> Ptr] /\ q.prev \in [Buffers -> Ptr]
        /\ q.hash_table \in [Buckets -> Ptr] /\ h \in Buckets /\ NULL \notin Buffers
    BY Fields, Sizes
  <1>5. /\ \A x \in M : r.next[x] = q.next[x]
        /\ r.next[b] = q.hash_table[h]
        /\ r.prev[b] = NULL /\ r.hash_table[h] = b
        /\ \A x \in M : r.prev[x] = IF x = q.hash_table[h] THEN b ELSE q.prev[x]
    <2>1. /\ r.next = [q.next EXCEPT ![b] = q.hash_table[h]]
          /\ r.prev = [x \in Buffers |-> IF x = b THEN NULL
                                         ELSE IF x = q.hash_table[h] THEN b ELSE q.prev[x]]
          /\ r.hash_table = [q.hash_table EXCEPT ![h] = b]
      BY DEF IsInserted
    <2> HIDE DEF h
    <2> QED BY <1>4, <2>1
  <1>6. /\ d[1] = b /\ \A n \in 1..(len + 1) : n # 1 => n - 1 \in 1..len /\ d[n] = c[n - 1]
        /\ \A n \in 1..len : n + 1 \in 1..(len + 1) /\ d[n + 1] = c[n]
    <2>1. \A n \in 1..len : n + 1 # 1 /\ n + 1 - 1 = n /\ n + 1 \in 1..(len + 1)
      OBVIOUS
    <2>2. 1 \in 1..(len + 1) /\ \A n \in 1..(len + 1) : n # 1 => n - 1 \in 1..len
      OBVIOUS
    <2> QED BY <2>1, <2>2
  <1>7. d \in [1..(len + 1) -> M \cup {b}]
    <2>1. ASSUME NEW n \in 1..(len + 1) PROVE d[n] \in M \cup {b}
      <3> HIDE DEF d
      <3>1. CASE n = 1
        BY <1>6, <3>1
      <3>2. CASE n # 1
        BY <1>3, <1>6, <3>2
      <3> QED BY <3>1, <3>2
    <2> QED BY <2>1
  <1>0. len \in Nat /\ len + 1 # 0 /\ \A n \in 1..len : n \in Nat
    OBVIOUS
  <1> HIDE DEF d, h
  <1>8. ASSUME NEW m \in 1..(len + 1), NEW n \in 1..(len + 1), d[m] = d[n] PROVE m = n
    <2>1. m # 1 => d[m] \in M /\ d[m] = c[m - 1] /\ m - 1 \in 1..len
      BY <1>3, <1>6
    <2>2. n # 1 => d[n] \in M /\ d[n] = c[n - 1] /\ n - 1 \in 1..len
      BY <1>3, <1>6
    <2>3. CASE m = 1 \/ n = 1
      BY <1>6, <1>8, <2>1, <2>2, <2>3
    <2>4. CASE m # 1 /\ n # 1
      <3>1. m - 1 = n - 1
        BY <1>3, <1>8, <2>1, <2>2, <2>4
      <3> QED BY <3>1
    <2> QED BY <2>3, <2>4
  <1>9. ASSUME NEW x \in M \cup {b} PROVE \E n \in 1..(len + 1) : d[n] = x
    <2>1. CASE x = b
      <3>1. 1 \in 1..(len + 1)
        OBVIOUS
      <3> QED BY <1>6, <2>1, <3>1
    <2>2. CASE x \in M
      <3>1. PICK i \in 1..len : c[i] = x
        BY <1>3, <2>2
      <3> QED BY <1>6, <3>1
    <2> QED BY <2>1, <2>2
  <1>10. ASSUME NEW n \in 1..(len + 1)
         PROVE  r.next[d[n]] = IF n = len + 1 THEN NULL ELSE d[n + 1]
    <2>1. CASE n = 1
      <3>1. r.next[d[n]] = IF len = 0 THEN NULL ELSE c[1]
        BY <1>3, <1>5, <1>6, <2>1
      <3>2. len # 0 => 1 \in 1..len /\ d[1 + 1] = c[1]
        BY <1>6
      <3> QED BY <2>1, <3>1, <3>2
    <2>2. CASE n # 1
      <3> DEFINE i == n - 1
      <3>1. i \in 1..len /\ d[n] = c[i] /\ c[i] \in M /\ n = i + 1 /\ (n = len + 1 <=> i = len)
        BY <1>3, <1>6, <2>2
      <3>2. i # len => i + 1 \in 1..len
        BY <3>1
      <3>3. i # len => d[n + 1] = c[i + 1]
        <4> HIDE DEF i
        <4> QED BY <1>6, <3>1, <3>2
      <3>4. r.next[c[i]] = IF i = len THEN NULL ELSE c[i + 1]
        <4> HIDE DEF i
        <4> QED BY <1>3, <1>5, <3>1
      <3> HIDE DEF i
      <3> QED BY <3>1, <3>3, <3>4
    <2> QED BY <2>1, <2>2
  <1>11. ASSUME NEW n \in 1..(len + 1)
         PROVE  r.prev[d[n]] = IF n = 1 THEN NULL ELSE d[n - 1]
    <2>1. CASE n = 1
      BY <1>5, <1>6, <2>1
    <2>2. CASE n # 1
      <3> DEFINE i == n - 1
      <3>1. i \in 1..len /\ d[n] = c[i] /\ c[i] \in M /\ i \in Nat /\ i <= len /\ i >= 1
            /\ len # 0 /\ 1 \in 1..len
        BY <1>3, <1>6, <2>2
      <3>2. i # 1 => i \in 1..(len + 1) /\ d[i] = c[i - 1]
        <4> HIDE DEF i
        <4> QED BY <1>6, <3>1
      <3>3. c[i] = q.hash_table[h] <=> i = 1
        <4> HIDE DEF i
        <4> QED BY <1>3, <3>1
      <3>4. r.prev[c[i]] = IF i = 1 THEN b ELSE c[i - 1]
        <4> HIDE DEF i
        <4> QED BY <1>3, <1>5, <3>1, <3>3
      <3>5. d[i] = IF i = 1 THEN b ELSE c[i - 1]
        <4> HIDE DEF i
        <4> QED BY <1>6, <3>2
      <3>6. r.prev[d[n]] = d[i]
        <4> HIDE DEF i
        <4>1. d[n] = c[i]
          BY <3>1
        <4> QED BY <4>1, <3>4, <3>5
      <3> QED BY <2>2, <3>6
    <2> QED BY <2>1, <2>2
  <1>12. len + 1 \in Nat /\ r.hash_table[h] = IF len + 1 = 0 THEN NULL ELSE d[1]
    BY <1>0, <1>5, <1>6
  <1>13. IsChain(r, h, len + 1, d, M \cup {b})
    BY <1>7, <1>8, <1>9, <1>10, <1>11, <1>12 DEF IsChain
  <1> QED BY <1>12, <1>13 DEF HasChain, h

LEMMA HashedFacts ==
    ASSUME TypeOK
    PROVE  /\ block \in [Buffers -> Blocks \cup {NoBlock}] /\ queues \in Queues
           /\ \A b \in Buffers : _hashfn[block[b]] \in Buckets
           /\ \A h : Hashed(block, h) \in SUBSET Buffers
BY Sizes DEF TypeOK, Queues, Hashed

(* The chains stay those of the buckets when b goes from its block to k. *)
LEMMA ChainsMove ==
    ASSUME TypeOK, ChainsOK, NEW b \in Buffers, NEW k \in Blocks,
           block' = [block EXCEPT ![b] = k], queues' = Moved(queues, b, k)
    PROVE  ChainsOK'
  <1> DEFINE q == queues
             r == remove_from_queues(q, b)
             m == Moved(q, b, k)
             M(h) == Hashed(block, h)
             h0 == _hashfn[block[b]]
             h1 == _hashfn[k]
  <1>0. /\ block \in [Buffers -> Blocks \cup {NoBlock}] /\ q \in Queues
        /\ h0 \in Buckets /\ h1 \in Buckets /\ NULL \notin Buffers
        /\ \A h : M(h) \in SUBSET Buffers
    BY HashedFacts, Sizes
  <1>1. \A h \in Buckets : HasChain(q, h, M(h))
    BY DEF ChainsOK
  <1>r. IsRemoved(q, b, r)
    BY <1>0, Removed
  <1>m. r \in Queues /\ IsInserted(r, b, k, m)
    <2>1. r \in Queues
      BY <1>r DEF IsRemoved
    <2> QED BY <2>1, Inserted DEF Moved
  <1> HIDE DEF q, r, m, h0, h1
  <1>a. \A h \in Buckets : /\ q.hash_table[h] \in M(h) \cup {NULL}
                           /\ \A x \in M(h) : q.next[x] \in M(h) \cup {NULL} /\ q.prev[x] \in M(h) \cup {NULL}
    BY <1>0, <1>1, ChainInside
  <1>s. /\ q.next \in [Buffers -> Ptr] /\ q.prev \in [Buffers -> Ptr]
        /\ q.hash_table \in [Buckets -> Ptr]
        /\ r.next \in [Buffers -> Ptr] /\ r.prev \in [Buffers -> Ptr]
        /\ r.hash_table \in [Buckets -> Ptr]
    BY <1>0, <1>m, Fields
  <1>t. /\ r.next = IF q.prev[b] = NULL THEN q.next ELSE [q.next EXCEPT ![q.prev[b]] = q.next[b]]
        /\ r.prev = IF q.next[b] = NULL THEN q.prev ELSE [q.prev EXCEPT ![q.next[b]] = q.prev[b]]
        /\ r.hash_table = IF q.hash_table[h0] = b THEN [q.hash_table EXCEPT ![h0] = q.next[b]]
                                                  ELSE q.hash_table
    BY <1>r DEF IsRemoved, h0
  <1>u. /\ m.next = [r.next EXCEPT ![b] = r.hash_table[h1]]
        /\ m.prev = [c \in Buffers |-> IF c = b THEN NULL
                                       ELSE IF c = r.hash_table[h1] THEN b ELSE r.prev[c]]
        /\ m.hash_table = [r.hash_table EXCEPT ![h1] = b]
    BY <1>m DEF IsInserted, h1
  <1>2. \A h \in Buckets : \A x \in M(h) : block[x] # NoBlock /\ _hashfn[block[x]] = h
    BY DEF Hashed
  <1>3. q.prev[b] \in M(h0) \cup {NULL} /\ q.next[b] \in M(h0) \cup {NULL}
    <2>1. CASE block[b] = NoBlock
      BY <2>1 DEF ChainsOK, Unlinked, q
    <2>2. CASE block[b] # NoBlock
      <3>1. b \in M(h0)
        BY <2>2 DEF Hashed, h0
      <3> QED BY <1>0, <1>a, <3>1
    <2> QED BY <2>1, <2>2
  <1>4. ASSUME NEW x \in Buffers, x \notin M(h0)
        PROVE  r.next[x] = q.next[x] /\ r.prev[x] = q.prev[x]
    <2>1. x # q.prev[b] /\ x # q.next[b]
      BY <1>0, <1>3, <1>4
    <2> QED BY <1>s, <1>t, <2>1
  <1>5. ASSUME NEW h \in Buckets PROVE HasChain(r, h, M(h) \ {b})
    <2>1. CASE b \in M(h)
      <3>1. h = h0
        BY <1>2, <2>1 DEF h0
      <3>2. PICK len \in Nat : \E c : IsChain(q, h0, len, c, M(h0))
        BY <1>0, <1>1 DEF HasChain
      <3>3. PICK c : IsChain(q, h0, len, c, M(h0))
        BY <3>2
      <3>4. PICK p \in 1..len : c[p] = b
        BY <2>1, <3>1, <3>3 DEF IsChain
      <3>5. M(h0) \in SUBSET Buffers
        BY <1>0
      <3> HIDE DEF M
      <3> QED BY <1>0, <1>r, <3>1, <3>3, <3>4, <3>5, ChainRemoved DEF h0
    <2>2. CASE b \notin M(h)
      <3>1. M(h) \ {b} = M(h)
        BY <2>2
      <3>2. r.hash_table[h] = q.hash_table[h]
        <4>1. CASE h = h0
          <5>1. q.hash_table[h0] # b
            BY <1>0, <1>a, <2>2, <4>1
          <5> QED BY <1>t, <5>1
        <4>2. CASE h # h0
          BY <1>0, <1>s, <1>t, <4>2
        <4> QED BY <4>1, <4>2
      <3>3. ASSUME NEW x \in M(h) PROVE r.next[x] = q.next[x] /\ r.prev[x] = q.prev[x]
        <4>0. x \in Buffers
          BY <1>0
        <4>1. CASE h # h0
          <5>1. x \notin M(h0)
            BY <1>0, <1>2, <4>1
          <5> QED BY <1>4, <4>0, <5>1
        <4>2. CASE h = h0
          <5>1. block[b] = NoBlock
            BY <2>2, <4>2 DEF Hashed, h0
          <5>2. q.prev[b] = NULL /\ q.next[b] = NULL
            BY <5>1 DEF ChainsOK, Unlinked, q
          <5> QED BY <1>t, <5>2
        <4> QED BY <4>1, <4>2
      <3> HIDE DEF M
      <3> QED BY <1>1, <3>1, <3>2, <3>3, ChainKept
    <2> QED BY <2>1, <2>2
  <1>b. \A h \in Buckets : r.hash_table[h] \in (M(h) \ {b}) \cup {NULL}
    <2>1. \A h \in Buckets : M(h) \ {b} \in SUBSET Buffers
      BY <1>0
    <2> HIDE DEF M
    <2> QED BY <1>5, <2>1, ChainInside
  <1>6. ASSUME NEW h \in Buckets PROVE HasChain(m, h, Hashed(block', h))
    <2>0. M(h) \ {b} \in SUBSET Buffers /\ b \notin M(h) \ {b}
      BY <1>0
    <2>1. CASE h = h1
      <3>1. Hashed(block', h) = (M(h) \ {b}) \cup {b}
        BY <1>0, <2>1, Sizes DEF Hashed, h1
      <3>2. HasChain(r, h1, M(h1) \ {b})
        BY <1>0, <1>5
      <3> DEFINE W == M(h1) \ {b}
      <3>3. W \in SUBSET Buffers /\ b \notin W /\ HasChain(r, _hashfn[k], W)
        BY <1>0, <3>2 DEF h1
      <3> HIDE DEF W
      <3>4. HasChain(m, _hashfn[k], W \cup {b})
        BY <1>m, <3>3, ChainInserted
      <3> QED BY <2>1, <3>1, <3>4 DEF W, h1
    <2>2. CASE h # h1
      <3>1. Hashed(block', h) = M(h) \ {b}
        BY <1>0, <2>2, Sizes DEF Hashed, h1
      <3>2. m.hash_table[h] = r.hash_table[h]
        BY <1>0, <1>s, <1>u, <2>2
      <3>3. ASSUME NEW x \in M(h) \ {b} PROVE m.next[x] = r.next[x] /\ m.prev[x] = r.prev[x]
        <4>1. x \in Buffers /\ x # b /\ x # NULL /\ x \notin M(h1)
          BY <1>0, <1>2, <2>2
        <4>2. x # r.hash_table[h1]
          BY <1>0, <1>b, <4>1
        <4> QED BY <1>s, <1>u, <4>1, <4>2
      <3> HIDE DEF M
      <3> QED BY <1>5, <3>1, <3>2, <3>3, ChainKept
    <2> QED BY <2>1, <2>2
  <1>7. ASSUME NEW x \in Buffers, block'[x] = NoBlock PROVE Unlinked(m, x)
    <2>1. x # b /\ block[x] = NoBlock
      BY <1>0, <1>7, Sizes
    <2>2. x \notin M(h0) /\ x \notin M(h1) /\ x # NULL
      BY <1>0, <2>1 DEF Hashed
    <2>3. x # r.hash_table[h1]
      BY <1>0, <1>b, <2>2
    <2>4. q.next[x] = NULL /\ q.prev[x] = NULL
      BY <2>1 DEF ChainsOK, Unlinked, q
    <2>5. m.next[x] = NULL /\ m.prev[x] = NULL
      BY <1>4, <1>s, <1>u, <2>1, <2>2, <2>3, <2>4
    <2> QED BY <2>5 DEF Unlinked
  <1> QED BY <1>6, <1>7 DEF ChainsOK, m, q

-----------------------------------------------------------------------------
(* What the walks along the pointers find. *)

(* Two functions on the numbers from low to high are equal if each value   *)
(* follows from the one before: there would be a least number at which     *)
(* they differ.                                                            *)
LEMMA SameWalk ==
    ASSUME NEW low \in Nat, NEW high \in Nat, NEW f, NEW g, low <= high,
           f[low] = g[low],
           \A n \in low..high : n > low /\ f[n - 1] = g[n - 1] => f[n] = g[n]
    PROVE  \A n \in low..high : f[n] = g[n]
  <1> DEFINE bad == {n \in low..high : f[n] # g[n]}
  <1>1. SUFFICES ASSUME bad # {} PROVE FALSE
    OBVIOUS
  <1>2. bad \in SUBSET Nat
    OBVIOUS
  <1>3. PICK m \in bad : \A t \in bad : m <= t
    <2> HIDE DEF bad
    <2> QED BY <1>1, <1>2, LeastExists
  <1>4. m \in low..high /\ f[m] # g[m] /\ m > low
    BY <1>3
  <1>5. m - 1 \in low..high /\ ~(m <= m - 1)
    BY <1>4
  <1>6. f[m - 1] = g[m - 1]
    BY <1>3, <1>5
  <1> QED BY <1>4, <1>6

(* The buffers along next_free, from free_list on. *)
Walk(q) ==
    CHOOSE at : at = [n \in 1..NR_BUFFERS |-> IF n = 1 THEN q.free_list ELSE q.next_free[at[n - 1]]]

(* The walk along next_free goes through the ring in its order. *)
LEMMA WalkIs ==
    ASSUME NEW q, NEW ord, IsRing(q, ord)
    PROVE  Walk(q) = ord
  <1> DEFINE step(at) == [n \in 1..NR_BUFFERS |-> IF n = 1 THEN q.free_list
                                                 ELSE q.next_free[at[n - 1]]]
  <1>0. /\ NR_BUFFERS \in Nat /\ NR_BUFFERS >= 1 /\ Buffers = 1..NR_BUFFERS
        /\ ord \in [Buffers -> Buffers] /\ ord[1] = q.free_list
        /\ \A n \in Buffers : n > 1 => ord[n] = q.next_free[ord[n - 1]]
    <2>1. /\ ord \in [Buffers -> Buffers] /\ ord[1] = q.free_list
          /\ \A n \in Buffers : q.next_free[ord[n]] = ord[After(n)]
      BY DEF IsRing, IsOrder, Forward
    <2>2. ASSUME NEW n \in Buffers, n > 1 PROVE ord[n] = q.next_free[ord[n - 1]]
      <3>1. n - 1 \in Buffers /\ n - 1 < NR_BUFFERS /\ n - 1 + 1 = n
        BY Positions, <2>2
      <3>2. After(n - 1) = n
        BY <3>1, Around
      <3> QED BY <2>1, <3>1, <3>2
    <2> QED BY <2>1, <2>2, Sizes
  <1>1. ord = step(ord)
    BY <1>0
  <1>2. Walk(q) = CHOOSE at : at = step(at)
    BY DEF Walk
  <1>3. Walk(q) = step(Walk(q))
    <2> HIDE DEF step
    <2> QED BY <1>1, <1>2
  <1>4. /\ DOMAIN Walk(q) = Buffers /\ Walk(q)[1] = ord[1]
        /\ \A n \in 1..NR_BUFFERS : n > 1 => Walk(q)[n] = q.next_free[Walk(q)[n - 1]]
        /\ Walk(q) = [n \in Buffers |-> Walk(q)[n]]
    <2>1. \A at : /\ DOMAIN step(at) = 1..NR_BUFFERS
                  /\ step(at) = [n \in 1..NR_BUFFERS |-> step(at)[n]]
                  /\ \A n \in 1..NR_BUFFERS : step(at)[n] = IF n = 1 THEN q.free_list
                                                ELSE q.next_free[at[n - 1]]
      OBVIOUS
    <2>2. 1 \in 1..NR_BUFFERS
      BY <1>0
    <2> HIDE DEF step
    <2>3. /\ Walk(q)[1] = q.free_list
          /\ \A n \in 1..NR_BUFFERS : n > 1 => Walk(q)[n] = q.next_free[Walk(q)[n - 1]]
      BY <1>3, <2>1, <2>2
    <2> QED BY <1>0, <1>3, <2>1, <2>3
  <1>5. \A n \in 1..NR_BUFFERS : Walk(q)[n] = ord[n]
    <2>1. \A n \in 1..NR_BUFFERS : n > 1 /\ Walk(q)[n - 1] = ord[n - 1] => Walk(q)[n] = ord[n]
      BY <1>0, <1>4
    <2> HIDE DEF step
    <2>2. 1 \in Nat /\ NR_BUFFERS \in Nat /\ 1 <= NR_BUFFERS /\ Walk(q)[1] = ord[1]
      BY <1>0, <1>4
    <2> QED BY <2>1, <2>2, SameWalk
  <1> QED BY <1>0, <1>4, <1>5

LEMMA RingOrderIs == RingOrder = Walk(queues) /\ RingOrder' = Walk(queues')
BY DEF RingOrder, Walk

LEMMA RingHolds ==
    ASSUME RingOK
    PROVE  Ring
  <1>1. PICK ord : IsRing(queues, ord)
    BY DEF RingOK
  <1>2. /\ ord \in [Buffers -> Buffers] /\ \A b \in Buffers : \E n \in Buffers : ord[n] = b
        /\ \A n \in Buffers : queues.next_free[ord[n]] = ord[After(n)]
        /\ \A n \in Buffers : queues.prev_free[ord[n]] = ord[Before(n)]
    BY <1>1 DEF IsRing, IsOrder, Forward, Backward
  <1>3. \A n \in Buffers : After(n) \in Buffers /\ Before(After(n)) = n
    BY Positions DEF After, Before
  <1>4. ASSUME NEW b \in Buffers PROVE queues.prev_free[queues.next_free[b]] = b
    <2>1. PICK n \in Buffers : ord[n] = b
      BY <1>2
    <2> QED BY <1>2, <1>3, <2>1
  <1>5. {RingOrder[n] : n \in Buffers} = Buffers
    BY <1>1, <1>2, WalkIs, RingOrderIs
  <1> QED BY <1>4, <1>5 DEF Ring

(* The walk along a chain, and what comes after its end. *)
ChainAt(h, len, c) == \A n \in 0..NR_BUFFERS : InChain(h)[n] = IF n < len THEN c[n + 1] ELSE NULL

LEMMA InChainIs ==
    ASSUME NEW h, NEW M \in SUBSET Buffers, NEW len \in Nat, NEW c, IsChain(queues, h, len, c, M)
    PROVE  len <= NR_BUFFERS /\ ChainAt(h, len, c)
  <1> DEFINE N == NR_BUFFERS
             step(at) == [n \in 0..N |-> IF n = 0 THEN queues.hash_table[h]
                                        ELSE IF at[n - 1] = NULL THEN NULL
                                        ELSE queues.next[at[n - 1]]]
             w == [n \in 0..N |-> IF n < len THEN c[n + 1] ELSE NULL]
  <1>0. /\ N \in Nat /\ N >= 1 /\ Buffers = 1..N /\ NULL \notin Buffers
        /\ c \in [1..len -> M] /\ \A m, n \in 1..len : c[m] = c[n] => m = n
        /\ queues.hash_table[h] = IF len = 0 THEN NULL ELSE c[1]
        /\ \A n \in 1..len : queues.next[c[n]] = IF n = len THEN NULL ELSE c[n + 1]
        /\ \A n \in 1..len : c[n] # NULL
    <2>1. /\ c \in [1..len -> M] /\ \A m, n \in 1..len : c[m] = c[n] => m = n
          /\ queues.hash_table[h] = IF len = 0 THEN NULL ELSE c[1]
          /\ \A n \in 1..len : queues.next[c[n]] = IF n = len THEN NULL ELSE c[n + 1]
      BY DEF IsChain
    <2>2. \A x \in M : x # NULL
      BY Sizes
    <2> QED BY <2>1, <2>2, Sizes
  <1>1. len <= N
    <2>1. IsFiniteSet(1..len) /\ Cardinality(1..len) = len
      BY FS_Interval
    <2>2. IsFiniteSet(Buffers) /\ Cardinality(Buffers) = N
      BY <1>0, FS_Interval
    <2>3. c \in [1..len -> Buffers]
      BY <1>0
    <2>4. SUFFICES ASSUME N < len PROVE FALSE
      BY <1>0
    <2> HIDE DEF N
    <2>5. \E x, y \in 1..len : x # y /\ c[x] = c[y]
      BY <2>1, <2>2, <2>3, <2>4, FS_PigeonHole
    <2> QED BY <1>0, <2>5
  <1>a. \A at : \A n \in 0..N : step(at)[n] = IF n = 0 THEN queues.hash_table[h]
                                              ELSE IF at[n - 1] = NULL THEN NULL
                                              ELSE queues.next[at[n - 1]]
    OBVIOUS
  <1>2. w = step(w)
    <2>1. w[0] = queues.hash_table[h]
      <3>1. 0 \in 0..N /\ (0 < len <=> len # 0) /\ 0 + 1 = 1
        BY <1>0
      <3> QED BY <1>0, <3>1
    <2>2. ASSUME NEW n \in 0..N, n # 0
          PROVE  w[n] = IF w[n - 1] = NULL THEN NULL ELSE queues.next[w[n - 1]]
      <3>1. n - 1 \in 0..N /\ n - 1 + 1 = n /\ n \in Nat
        BY <1>0, <2>2
      <3>2. CASE n < len
        <4>1. n \in 1..len /\ n # len /\ n - 1 < len /\ w[n - 1] = c[n] /\ w[n] = c[n + 1]
          BY <2>2, <3>1, <3>2
        <4> QED BY <1>0, <4>1
      <3>3. CASE n = len
        <4>1. n \in 1..len /\ n - 1 < len /\ w[n - 1] = c[n] /\ w[n] = NULL
          BY <2>2, <3>1, <3>3
        <4> QED BY <1>0, <3>3, <4>1
      <3>4. CASE n > len
        <4>1. w[n - 1] = NULL /\ w[n] = NULL
          BY <2>2, <3>1, <3>4
        <4> QED BY <4>1
      <3> QED BY <3>1, <3>2, <3>3, <3>4
    <2>3. w = [n \in 0..N |-> w[n]] /\ step(w) = [n \in 0..N |-> step(w)[n]]
      OBVIOUS
    <2>4. \A n \in 0..N : w[n] = step(w)[n]
      <3> HIDE DEF w, step
      <3> QED BY <1>a, <2>1, <2>2
    <2> HIDE DEF w, step
    <2>5. [n \in 0..N |-> w[n]] = [n \in 0..N |-> step(w)[n]]
      BY <2>4
    <2> QED BY ONLY <2>3, <2>5
  <1>3. InChain(h) = CHOOSE at : at = step(at)
    BY DEF InChain
  <1>4. InChain(h) = step(InChain(h))
    <2> HIDE DEF step, w
    <2> QED BY <1>2, <1>3
  <1>5. \A n \in 0..N : InChain(h)[n] = w[n]
    <2> DEFINE f == InChain(h)
    <2>1. f[0] = w[0]
      <3>1. 0 \in 0..N
        BY <1>0
      <3> HIDE DEF f, w, step
      <3> QED BY <1>2, <1>4, <1>a, <3>1 DEF f
    <2>2. \A n \in 0..N : n > 0 /\ f[n - 1] = w[n - 1] => f[n] = w[n]
      <3> HIDE DEF f, w
      <3>1. \A n \in 0..N : n > 0 => /\ f[n] = IF f[n - 1] = NULL THEN NULL ELSE queues.next[f[n - 1]]
                                    /\ w[n] = IF w[n - 1] = NULL THEN NULL ELSE queues.next[w[n - 1]]
        <4>1. \A n \in 0..N : n > 0 => n # 0
          BY <1>0
        <4> HIDE DEF step
        <4> QED BY <1>2, <1>4, <1>a, <4>1 DEF f
      <3> QED BY <3>1
    <2> HIDE DEF f, w
    <2>3. 0 \in Nat /\ N \in Nat /\ 0 <= N
      BY <1>0
    <2> HIDE DEF N
    <2>4. \A n \in 0..N : f[n] = w[n]
      BY <2>1, <2>2, <2>3, SameWalk
    <2> QED BY <2>4 DEF f
  <1> QED BY <1>1, <1>5 DEF ChainAt

LEMMA ChainsHold ==
    ASSUME TypeOK, ChainsOK
    PROVE  Chains
  <1> SUFFICES ASSUME NEW h \in Buckets
               PROVE  LET at == InChain(h)
                          len == CHOOSE n \in 0..(NR_BUFFERS + 1) :
                                    /\ n <= NR_BUFFERS => at[n] = NULL
                                    /\ \A m \in 0..(n - 1) : at[m] # NULL
                          members == {at[n] : n \in 0..(len - 1)}
                      IN  /\ len <= NR_BUFFERS
                          /\ members = {b \in Buffers : block[b] # NoBlock /\ _hashfn[block[b]] = h}
                          /\ \A n \in 0..(len - 1) :
                                queues.prev[at[n]] = IF n = 0 THEN NULL ELSE at[n - 1]
    BY DEF Chains
  <1> DEFINE N == NR_BUFFERS
             at == InChain(h)
             M == Hashed(block, h)
             isLen(n) == /\ n <= N => at[n] = NULL
                         /\ \A m \in 0..(n - 1) : at[m] # NULL
             len == CHOOSE n \in 0..(N + 1) : isLen(n)
  <1>0. M \in SUBSET Buffers /\ N \in Nat /\ NULL \notin Buffers
    BY Sizes DEF Hashed
  <1>1. PICK l \in Nat : \E c : IsChain(queues, h, l, c, M)
    BY DEF ChainsOK, HasChain
  <1>2. PICK c : IsChain(queues, h, l, c, M)
    BY <1>1
  <1>3. /\ \A n \in 1..l : c[n] \in M
        /\ \A b \in M : \E n \in 1..l : c[n] = b
        /\ \A n \in 1..l : queues.prev[c[n]] = IF n = 1 THEN NULL ELSE c[n - 1]
    BY <1>2 DEF IsChain
  <1>4. l <= N /\ \A n \in 0..N : at[n] = IF n < l THEN c[n + 1] ELSE NULL
    <2> HIDE DEF M
    <2> QED BY <1>0, <1>2, InChainIs DEF ChainAt
  <1> HIDE DEF at
  <1>5. /\ l \in 0..N /\ at[l] = NULL
        /\ \A m \in 0..(l - 1) : m \in 0..N /\ m + 1 \in 1..l /\ at[m] = c[m + 1] /\ at[m] # NULL
    <2>1. l \in 0..N /\ \A m \in 0..(l - 1) : m \in 0..N /\ m + 1 \in 1..l /\ m < l
      BY <1>0, <1>4
    <2> QED BY <1>0, <1>3, <1>4, <2>1
  <1>6. isLen(l) /\ l \in 0..(N + 1)
    BY <1>0, <1>5
  <1>7. ASSUME NEW n \in 0..(N + 1), isLen(n) PROVE n = l
    <2>1. CASE n < l
      <3>1. n \in 0..(l - 1) /\ n <= N
        BY <1>0, <1>5, <2>1
      <3> QED BY <1>5, <1>7, <3>1
    <2>2. CASE n > l
      <3>1. l \in 0..(n - 1)
        BY <1>0, <2>2
      <3> QED BY <1>5, <1>7, <3>1
    <2> QED BY <1>0, <2>1, <2>2
  <1>8. len = l
    <2> HIDE DEF isLen
    <2> QED BY <1>6, <1>7
  <1>9. {at[n] : n \in 0..(l - 1)} = M
    <2>1. ASSUME NEW n \in 0..(l - 1) PROVE at[n] \in M
      BY <1>3, <1>5
    <2>2. ASSUME NEW b \in M PROVE \E n \in 0..(l - 1) : at[n] = b
      <3>1. PICK n \in 1..l : c[n] = b
        BY <1>3
      <3>2. n - 1 \in 0..(l - 1) /\ n - 1 + 1 = n
        BY <1>5
      <3>3. at[n - 1] = b
        BY <1>5, <3>1, <3>2
      <3> QED BY <3>2, <3>3
    <2> HIDE DEF M
    <2> QED BY <2>1, <2>2
  <1>10. ASSUME NEW n \in 0..(l - 1)
         PROVE  queues.prev[at[n]] = IF n = 0 THEN NULL ELSE at[n - 1]
    <2>1. queues.prev[at[n]] = IF n + 1 = 1 THEN NULL ELSE c[n + 1 - 1]
      BY <1>3, <1>5
    <2>2. n # 0 => n - 1 \in 0..(l - 1) /\ n - 1 + 1 = n /\ n + 1 - 1 = n /\ n + 1 # 1
      BY <1>5
    <2>3. n # 0 => at[n - 1] = c[n]
      BY <1>5, <2>2
    <2> QED BY <2>1, <2>2, <2>3
  <1>11. /\ len <= N /\ {at[n] : n \in 0..(len - 1)} = M
         /\ \A n \in 0..(len - 1) : queues.prev[at[n]] = IF n = 0 THEN NULL ELSE at[n - 1]
    <2> HIDE DEF len, M
    <2> QED BY <1>4, <1>8, <1>9, <1>10
  <1> QED BY <1>11 DEF at, Hashed

(* find_buff finds the buffer of a block if there is one. *)
LEMMA FindBuff ==
    ASSUME TypeOK, ChainsOK, NEW k \in Blocks
    PROVE  \/ find_buff(k) = NULL /\ \A b \in Buffers : block[b] # k
           \/ find_buff(k) \in Buffers /\ block[find_buff(k)] = k
  <1> DEFINE N == NR_BUFFERS
             h == _hashfn[k]
             at == InChain(h)
             M == Hashed(block, h)
             hits == {n \in 0..N : (\A m \in 0..n : at[m] # NULL) /\ block[at[n]] = k}
  <1>0. M \in SUBSET Buffers /\ N \in Nat /\ NULL \notin Buffers /\ h \in Buckets /\ k # NoBlock
    BY Sizes DEF Hashed
  <1>1. PICK l \in Nat : \E c : IsChain(queues, h, l, c, M)
    BY <1>0 DEF ChainsOK, HasChain
  <1>2. PICK c : IsChain(queues, h, l, c, M)
    BY <1>1
  <1>3. /\ \A n \in 1..l : c[n] \in M
        /\ \A b \in M : \E n \in 1..l : c[n] = b
    BY <1>2 DEF IsChain
  <1>4. l <= N /\ \A n \in 0..N : at[n] = IF n < l THEN c[n + 1] ELSE NULL
    <2> HIDE DEF M, h
    <2> QED BY <1>0, <1>2, InChainIs DEF ChainAt
  <1>5. find_buff(k) = IF hits = {} THEN NULL ELSE at[CHOOSE x \in hits : \A y \in hits : x <= y]
    BY DEF find_buff, Min
  <1> HIDE DEF at, h
  <1>6. \A n \in 0..N : n < l => n + 1 \in 1..l
    BY <1>0
  <1>7. CASE hits = {}
    <2> SUFFICES ASSUME NEW b \in Buffers, block[b] = k PROVE FALSE
      BY <1>5, <1>7
    <2>1. b \in M
      BY <1>0 DEF Hashed, h
    <2>2. PICK n \in 1..l : c[n] = b
      BY <1>3, <2>1
    <2>3. /\ n - 1 \in 0..N /\ n - 1 < l /\ n - 1 + 1 = n
          /\ \A m \in 0..(n - 1) : m \in 0..N /\ m < l
      BY <1>0, <1>4
    <2>4. at[n - 1] = b /\ \A m \in 0..(n - 1) : at[m] # NULL
      BY <1>0, <1>3, <1>4, <1>6, <2>2, <2>3
    <2>5. n - 1 \in hits
      BY <2>3, <2>4
    <2> QED BY <1>7, <2>5
  <1>8. CASE hits # {}
    <2>1. hits \in SUBSET Nat
      OBVIOUS
    <2>2. \E m \in hits : \A t \in hits : m <= t
      <3> HIDE DEF hits
      <3> QED BY <1>8, <2>1, LeastExists
    <2> DEFINE n == CHOOSE x \in hits : \A y \in hits : x <= y
    <2>3. n \in hits
      <3> HIDE DEF hits
      <3> QED BY <2>2
    <2>4. find_buff(k) = at[n]
      BY <1>5, <1>8
    <2> HIDE DEF n
    <2>5. n \in 0..N /\ at[n] # NULL /\ block[at[n]] = k
      BY <2>3
    <2>6. n < l /\ at[n] \in M
      BY <1>3, <1>4, <1>6, <2>5
    <2> QED BY <1>0, <2>4, <2>5, <2>6
  <1> QED BY <1>7, <1>8

-----------------------------------------------------------------------------
(* Numbers of references. *)
Occurs(s, b) == Cardinality({n \in 1..Len(s) : s[n] = b})
Is(x, y) == IF x = y THEN 1 ELSE 0
Here(s, b, n) == IF Len(s) >= n THEN Is(s[n], b) ELSE 0

LEMMA Occurrences ==
    ASSUME NEW s \in Seq(Buffers), Len(s) <= 2, NEW b
    PROVE  Occurs(s, b) = Here(s, b, 1) + Here(s, b, 2)
  <1> DEFINE S == {n \in 1..Len(s) : s[n] = b}
  <1>1. Len(s) \in Nat
    BY LenProperties
  <1>2. S = (IF Here(s, b, 1) = 1 THEN {1} ELSE {}) \cup (IF Here(s, b, 2) = 1 THEN {2} ELSE {})
    BY <1>1 DEF Here, Is
  <1>3. Here(s, b, 1) \in {0, 1} /\ Here(s, b, 2) \in {0, 1}
    BY DEF Here, Is
  <1>4. Cardinality({1}) = 1 /\ Cardinality({2}) = 1 /\ Cardinality({}) = 0 /\ IsFiniteSet({1})
    BY FS_Singleton, FS_EmptySet
  <1>5. Cardinality({1} \cup {2}) = 2
    <2> DEFINE U == {1}
    <2>1. IsFiniteSet(U) /\ Cardinality(U) = 1 /\ 2 \notin U
      BY <1>4
    <2> HIDE DEF U
    <2>2. Cardinality(U \cup {2}) = Cardinality(U) + 1
      BY <2>1, FS_AddElement
    <2>3. Cardinality(U \cup {2}) = 2
      BY <2>1, <2>2
    <2> QED BY <2>3 DEF U
  <1>6. {1} \cup {} = {1} /\ {} \cup {2} = {2} /\ {} \cup {} = {}
    OBVIOUS
  <1>7. Occurs(s, b) = Cardinality(S)
    BY DEF Occurs
  <1> HIDE DEF S
  <1>8. Cardinality(S) = IF Here(s, b, 1) = 1 THEN IF Here(s, b, 2) = 1 THEN 2 ELSE 1
                                              ELSE IF Here(s, b, 2) = 1 THEN 1 ELSE 0
    BY <1>2, <1>4, <1>5, <1>6
  <1> QED BY <1>3, <1>7, <1>8

LEMMA Bytes ==
    /\ \A x \in 1..255 : (x + 255) % 256 = x - 1
    /\ \A x \in 0..254 : (x + 1) % 256 = x + 1
  <1>1. \A x \in 1..255 : (x + 255) % 256 = x - 1
    OBVIOUS
  <1>2. \A x \in 0..254 : (x + 1) % 256 = x + 1
    OBVIOUS
  <1> QED BY <1>1, <1>2

-----------------------------------------------------------------------------
(* The inductive invariant. *)
GetOps == {"read_buff", "read_buff_page", "read_buff_ahead", "create_block", "invalidate_buff"}
CallType == [op : GetOps \cup {"none", "sync_dev", "invalidate_buffs"},
             todo : Seq(Blocks), page : Seq(Buffers), bh : Ptr, tmp : Ptr, dev : Nat,
             i : 1..(NR_BUFFERS + 1), back : {"idle", "new"}]

(* A call that asks for a block, and at most one besides it. *)
Asks == /\ call.op \in GetOps
        /\ call.todo # <<>> /\ Len(call.todo) + Len(call.page) <= 2
        /\ call.op = "read_buff_ahead" => Len(call.page) <= 1
        /\ call.page # <<>> => call.op \in {"read_buff_page", "read_buff_ahead"}
NoPage == call.page = <<>>

CallOK ==
    /\ call \in CallType
    /\ pc = "idle" => call = NoCall
    /\ pc \in {"find", "retain", "scan", "new", "take", "got", "reading", "panic"} => Asks
    /\ pc = "page" => call.op = "read_buff_page" /\ Len(call.page) \in 1..2
    /\ pc = "sync" => IF call.back = "new" THEN Asks /\ bh # NULL ELSE NoPage
    /\ pc = "invalidate" => call.back = "idle" /\ NoPage
    /\ pc \in {"retain", "new", "take", "got", "reading"} => bh # NULL
    /\ pc = "scan" => call.tmp # NULL
    /\ pc \in {"retain", "got"} => block[bh] = Wanted
    /\ pc = "reading" => /\ call.op \in {"read_buff", "read_buff_ahead"}
                         /\ IF NoPage THEN block[bh] = Wanted ELSE bh = call.page[1]
    /\ pc = "take" => /\ b_count[bh] = 0 /\ b_dirt[bh] = 0 /\ b_lock[bh] = 0
                      /\ \A b \in Buffers : block[b] # Wanted
    /\ pc = "panic" => NoPage
    /\ call.op = "invalidate_buff" => pc \in {"find", "retain", "got"}

(* The references that the call will add are below the bound. *)
Room ==
    /\ call.op \in {"read_buff", "read_buff_ahead"} =>
          IF NoPage THEN \A b \in Buffers : block[b] = Wanted => refs[b] < MaxRefs
                    ELSE refs[call.page[1]] < MaxRefs
    /\ call.op = "invalidate_buff" =>
          \A b \in Buffers : block[b] = Wanted => leaked[b] < MaxRefs

Counts == \A b \in Buffers : b_count[b] = refs[b] + leaked[b] + InCall(b)

IInv == TypeOK /\ CallOK /\ Room /\ Counts /\ OneCopy /\ RingOK /\ ChainsOK

Lists == OneCopy /\ RingOK /\ ChainsOK

LEMMA ListsKept ==
    ASSUME Lists, UNCHANGED <<block, queues>>
    PROVE  Lists'
  <1>1. OneCopy'
    BY DEF Lists, OneCopy
  <1>2. RingOK'
    BY DEF Lists, RingOK
  <1>3. ChainsOK'
    BY DEF Lists, ChainsOK
  <1> QED BY <1>1, <1>2, <1>3 DEF Lists

(* The references that the call holds besides those in page. *)
Extra(b) == IF pc \in {"got", "panic"} /\ bh = b THEN 1
            ELSE IF pc = "reading" /\ bh = b /\ (call.page = <<>> \/ call.page[1] # b) THEN 1 ELSE 0

LEMMA InCallIs ==
    /\ \A b : InCall(b) = Occurs(call.page, b) + Extra(b)
    /\ \A b : InCall(b)' = Occurs(call'.page, b) + Extra(b)'
BY DEF InCall, Occurs, Extra

LEMMA PageCounts ==
    /\ \A b : Occurs(<<>>, b) = 0
    /\ \A s \in Seq(Buffers) : \A b : Len(s) <= 2 => Occurs(s, b) \in 0..2
    /\ \A s \in Seq(Buffers) : \A b : Len(s) <= 1 => Occurs(s, b) \in 0..1
    /\ \A s \in Seq(Buffers) : \A b : Len(s) = 1 => Occurs(s, b) = Is(s[1], b)
    /\ \A s \in Seq(Buffers), x \in Buffers : \A b :
          Len(s) <= 1 => Occurs(Append(s, x), b) = Occurs(s, b) + Is(x, b)
    /\ \A s \in Seq(Buffers) : \A b :
          Len(s) \in 1..2 => Occurs(s, b) = Occurs(Tail(s), b) + Is(Head(s), b)
  <1>1. ASSUME NEW s \in Seq(Buffers), NEW b, Len(s) <= 2
        PROVE  Occurs(s, b) = Here(s, b, 1) + Here(s, b, 2)
    BY <1>1, Occurrences
  <1>2. \A s \in Seq(Buffers) : Len(s) \in Nat
    BY LenProperties
  <1>0. ASSUME NEW s \in Seq(Buffers), NEW b
        PROVE  /\ Here(s, b, 1) \in {0, 1} /\ Here(s, b, 2) \in {0, 1}
               /\ Len(s) = 0 => Here(s, b, 1) = 0
               /\ Len(s) <= 1 => Here(s, b, 2) = 0
               /\ Len(s) >= 1 => Here(s, b, 1) = Is(s[1], b)
               /\ Len(s) >= 2 => Here(s, b, 2) = IF s[2] = b THEN 1 ELSE 0
    BY <1>2 DEF Here, Is
  <1>9. \A x, y : Is(x, y) \in {0, 1}
    BY DEF Is
  <1>3. \A b : Occurs(<<>>, b) = 0
    <2> SUFFICES ASSUME NEW b PROVE Occurs(<<>>, b) = 0
      OBVIOUS
    <2>1. <<>> \in Seq(Buffers) /\ Len(<<>>) = 0
      BY EmptySeq
    <2>2. ~(Len(<<>>) >= 1) /\ ~(Len(<<>>) >= 2) /\ Len(<<>>) <= 2
      BY <2>1
    <2>3. Here(<<>>, b, 1) = 0 /\ Here(<<>>, b, 2) = 0
      BY <2>2 DEF Here
    <2>4. Occurs(<<>>, b) = Here(<<>>, b, 1) + Here(<<>>, b, 2)
      BY <1>1, <2>1, <2>2
    <2> QED BY <2>3, <2>4
  <1>4. ASSUME NEW s \in Seq(Buffers), NEW b, Len(s) <= 2 PROVE Occurs(s, b) \in 0..2
    BY <1>0, <1>1, <1>4
  <1>5. ASSUME NEW s \in Seq(Buffers), NEW b, Len(s) <= 1 PROVE Occurs(s, b) \in 0..1
    BY <1>0, <1>1, <1>2, <1>5
  <1>6. ASSUME NEW s \in Seq(Buffers), NEW b, Len(s) = 1
        PROVE  Occurs(s, b) = Is(s[1], b)
    BY <1>0, <1>1, <1>6
  <1>7. ASSUME NEW s \in Seq(Buffers), NEW x \in Buffers, NEW b, Len(s) <= 1
        PROVE  Occurs(Append(s, x), b) = Occurs(s, b) + Is(x, b)
    <2> DEFINE t == Append(s, x)
    <2>1. /\ t \in Seq(Buffers) /\ Len(t) = Len(s) + 1 /\ t[Len(s) + 1] = x
          /\ \A i \in 1..Len(s) : t[i] = s[i]
      BY AppendProperties
    <2> HIDE DEF t
    <2>2. Occurs(t, b) = Here(t, b, 1) + Here(t, b, 2) /\ Occurs(s, b) = Here(s, b, 1) + Here(s, b, 2)
      BY <1>1, <1>2, <1>7, <2>1
    <2>3. CASE Len(s) = 0
      <3>1. Len(t) = 1 /\ t[1] = x
        BY <2>1, <2>3
      <3>2. Here(t, b, 1) = Is(x, b) /\ Here(t, b, 2) = 0
        BY <3>1 DEF Here
      <3>3. Here(s, b, 1) = 0 /\ Here(s, b, 2) = 0
        BY <2>3 DEF Here
      <3> QED BY <1>9, <2>2, <3>2, <3>3 DEF t
    <2>4. CASE Len(s) = 1
      <3>1. Len(t) = 2 /\ t[1] = s[1] /\ t[2] = x
        <4>1. 1 \in 1..Len(s)
          BY <2>4
        <4> QED BY <2>1, <2>4, <4>1
      <3>2. /\ Here(t, b, 1) = Is(s[1], b)
            /\ Here(t, b, 2) = Is(x, b)
        BY <3>1 DEF Here
      <3>3. Here(s, b, 1) = Is(s[1], b) /\ Here(s, b, 2) = 0
        BY <2>4 DEF Here
      <3> QED BY <1>9, <2>2, <3>2, <3>3 DEF t
    <2> DEFINE l == Len(s)
    <2>6. l \in Nat /\ l <= 1
      BY <1>7, LenProperties
    <2> HIDE DEF l
    <2>5. l = 0 \/ l = 1
      BY <2>6
    <2> QED BY <2>3, <2>4, <2>5 DEF l
  <1>8. ASSUME NEW s \in Seq(Buffers), NEW b, Len(s) \in 1..2
        PROVE  Occurs(s, b) = Occurs(Tail(s), b) + Is(Head(s), b)
    <2> DEFINE t == Tail(s)
    <2>0. s # <<>>
      BY <1>8, EmptySeq
    <2>1. /\ t \in Seq(Buffers) /\ Len(t) = Len(s) - 1 /\ \A i \in 1..Len(t) : t[i] = s[i + 1]
          /\ Head(s) = s[1]
      BY <2>0, HeadTailProperties
    <2> HIDE DEF t
    <2>2. Occurs(t, b) = Here(t, b, 1) + Here(t, b, 2) /\ Occurs(s, b) = Here(s, b, 1) + Here(s, b, 2)
      BY <1>1, <1>2, <1>8, <2>1
    <2>3. CASE Len(s) = 1
      <3>1. Len(t) = 0
        BY <2>1, <2>3
      <3>2. Here(t, b, 1) = 0 /\ Here(t, b, 2) = 0
        BY <3>1 DEF Here
      <3>3. Here(s, b, 1) = Is(Head(s), b) /\ Here(s, b, 2) = 0
        BY <2>1, <2>3 DEF Here
      <3> QED BY <1>9, <2>2, <3>2, <3>3 DEF t
    <2>4. CASE Len(s) = 2
      <3>1. Len(t) = 1 /\ t[1] = s[2]
        <4>1. Len(t) = 1 /\ 1 \in 1..Len(t)
          BY <2>1, <2>4
        <4>2. t[1] = s[1 + 1] /\ 1 + 1 = 2
          BY <2>1, <4>1
        <4> QED BY <4>1, <4>2
      <3>2. Here(t, b, 1) = Is(s[2], b) /\ Here(t, b, 2) = 0
        BY <3>1 DEF Here
      <3>3. /\ Here(s, b, 1) = Is(Head(s), b)
            /\ Here(s, b, 2) = Is(s[2], b)
        BY <2>1, <2>4 DEF Here
      <3> QED BY <1>9, <2>2, <3>2, <3>3 DEF t
    <2> QED BY <1>8, <2>3, <2>4
  <1> QED BY <1>3, <1>4, <1>5, <1>6, <1>7, <1>8

(* The fields of the call after the assignments of the actions. *)
LEMMA NoCallFields ==
    /\ NoCall \in CallType
    /\ NoCall.op = "none" /\ NoCall.todo = <<>> /\ NoCall.page = <<>> /\ NoCall.bh = NULL
    /\ NoCall.back = "idle"
BY Sizes DEF CallType, NoCall

LEMMA CallFields ==
    ASSUME call \in CallType
    PROVE  /\ call.op \in GetOps \cup {"none", "sync_dev", "invalidate_buffs"}
           /\ call.todo \in Seq(Blocks) /\ call.page \in Seq(Buffers)
           /\ call.bh \in Ptr /\ call.tmp \in Ptr /\ call.dev \in Nat
           /\ call.i \in 1..(NR_BUFFERS + 1) /\ call.back \in {"idle", "new"}
           /\ (call.bh # NULL => call.bh \in Buffers) /\ (call.tmp # NULL => call.tmp \in Buffers)
BY Sizes DEF CallType

(* A call that asks for a block. *)
LEMMA AsksFacts ==
    ASSUME call \in CallType, Asks
    PROVE  /\ Wanted \in Blocks /\ Rest \in Seq(Blocks)
           /\ NoPage \/ Len(call.page) = 1
           /\ Rest # <<>> => NoPage /\ Len(Rest) = 1
  <1>1. call.todo \in Seq(Blocks) /\ call.page \in Seq(Buffers) /\ call.todo # <<>>
    BY CallFields DEF Asks
  <1> DEFINE t == Len(call.todo)
             r == Len(Rest)
             p == Len(call.page)
  <1>2. Wanted \in Blocks /\ Rest \in Seq(Blocks) /\ r = t - 1
    BY <1>1, HeadTailProperties DEF Wanted, Rest
  <1>3. /\ t \in Nat /\ r \in Nat /\ p \in Nat /\ t + p <= 2
        /\ (Rest # <<>> => r # 0) /\ (call.page # <<>> => p # 0)
    BY <1>1, <1>2, LenProperties, EmptySeq DEF Asks
  <1> HIDE DEF t, r, p
  <1>4. p = 0 \/ p = 1
    BY <1>2, <1>3
  <1>5. Rest # <<>> => r = 1 /\ p = 0
    BY <1>2, <1>3
  <1> QED BY <1>2, <1>3, <1>4, <1>5 DEF NoPage, r, p

Labels == {"idle", "find", "retain", "scan", "new", "take", "got", "sync", "invalidate",
           "reading", "page", "panic"}
Busy == {"got", "panic", "reading"}

LEMMA Facts ==
    ASSUME IInv
    PROVE  /\ TypeOK /\ CallOK /\ Room /\ Counts /\ Lists
           /\ call \in CallType /\ pc \in Labels
           /\ block \in [Buffers -> Blocks \cup {NoBlock}]
           /\ b_count \in [Buffers -> 0..255]
           /\ b_dirt \in [Buffers -> Flag] /\ b_lock \in [Buffers -> Flag]
           /\ b_uptodate \in [Buffers -> Flag]
           /\ refs \in [Buffers -> 0..MaxRefs] /\ leaked \in [Buffers -> 0..MaxRefs]
           /\ queues \in Queues
BY DEF IInv, Lists, TypeOK, CallOK, Queues, Labels

LEMMA TypeKept ==
    ASSUME call' \in CallType, pc' \in Labels,
           block' \in [Buffers -> Blocks \cup {NoBlock}], b_count' \in [Buffers -> 0..255],
           b_dirt' \in [Buffers -> Flag], b_lock' \in [Buffers -> Flag],
           b_uptodate' \in [Buffers -> Flag], queues' \in Queues,
           refs' \in [Buffers -> 0..MaxRefs], leaked' \in [Buffers -> 0..MaxRefs]
    PROVE  TypeOK'
BY DEF TypeOK, CallType, Queues, Labels

(* Steps that give and take no reference. *)
LEMMA CountsKept ==
    ASSUME Counts, UNCHANGED <<b_count, refs, leaked>>, call'.page = call.page,
           pc \notin Busy, pc' \notin Busy
    PROVE  Counts'
  <1>1. \A b : InCall(b)' = InCall(b)
    <2>1. \A b : InCall(b) = Occurs(call.page, b) + Extra(b)
      BY InCallIs
    <2>2. \A b : InCall(b)' = Occurs(call'.page, b) + Extra(b)'
      BY InCallIs
    <2>3. \A b : Extra(b) = 0 /\ Extra(b)' = 0
      BY DEF Extra, Busy
    <2> QED BY <2>1, <2>2, <2>3
  <1> QED BY <1>1 DEF Counts

LEMMA RoomKept ==
    ASSUME Room, UNCHANGED <<block, refs, leaked>>, call'.op = call.op, call'.todo = call.todo,
           call'.page = call.page
    PROVE  Room'
BY DEF Room, NoPage, Wanted

LEMMA Together ==
    ASSUME TypeOK', CallOK', Room', Counts', Lists'
    PROVE  IInv'
BY DEF IInv, Lists

LEMMA InitInv == Init => IInv
  <1> SUFFICES ASSUME Init PROVE IInv
    OBVIOUS
  <1> USE DEF Init
  <1>0. call = NoCall /\ pc = "idle" /\ call \in CallType
    BY NoCallFields
  <1>1. TypeOK
    <2>1. init_buff \in Queues
      BY Sizes DEF init_buff, Queues
    <2>2. 0 \in 0..MaxRefs
      BY CacheAssumption
    <2> QED BY <1>0, <2>1, <2>2, CallFields DEF TypeOK, Flag, Queues
  <1>2. CallOK
    BY <1>0, NoCallFields DEF CallOK
  <1>3. Room
    BY <1>0, NoCallFields DEF Room
  <1>4. Counts
    <2>1. \A b : Occurs(call.page, b) = 0 /\ Extra(b) = 0
      BY <1>0, NoCallFields, PageCounts DEF Extra
    <2>2. \A b : InCall(b) = Occurs(call.page, b) + Extra(b)
      BY InCallIs
    <2>3. \A b : InCall(b) = 0
      BY <2>1, <2>2
    <2> QED BY <2>3 DEF Counts
  <1>5. OneCopy
    BY DEF OneCopy
  <1>6. RingOK
    <2> DEFINE ord == [n \in Buffers |-> n]
    <2>1. IsOrder(ord)
      BY DEF IsOrder
    <2>2. IsRing(queues, ord)
      BY <2>1, Around, Positions DEF IsRing, Forward, Backward, init_buff, After, Before
    <2> QED BY <2>2 DEF RingOK
  <1>7. ChainsOK
    <2>1. ASSUME NEW h \in Buckets PROVE HasChain(queues, h, Hashed(block, h))
      <3> DEFINE c == [n \in 1..0 |-> NULL]
      <3>1. Hashed(block, h) = {} /\ queues.hash_table[h] = NULL
        BY DEF Hashed, init_buff
      <3>2. IsChain(queues, h, 0, c, {})
        BY <3>1 DEF IsChain
      <3> QED BY <3>1, <3>2 DEF HasChain
    <2>2. \A b \in Buffers : Unlinked(queues, b)
      BY DEF Unlinked, init_buff
    <2> QED BY <2>1, <2>2 DEF ChainsOK
  <1> QED BY <1>1, <1>2, <1>3, <1>4, <1>5, <1>6, <1>7 DEF IInv

-----------------------------------------------------------------------------
(* The steps that start a call. *)
LEMMA StartStep ==
    ASSUME IInv, NEW op \in GetOps, NEW todo \in Seq(Blocks), todo # <<>>, Len(todo) <= 2,
           Start(op, todo), Room'
    PROVE  IInv'
  <1>1. /\ pc = "idle" /\ call = NoCall /\ call' = [NoCall EXCEPT !.op = op, !.todo = todo]
        /\ pc' = "find" /\ UNCHANGED <<block, b_count, bufVars, queues, refs, leaked>>
    BY Facts DEF Start, AtRest, CallOK
  <1>2. call' \in CallType
    <2>1. NoCall \in CallType /\ op \in GetOps \cup {"none", "sync_dev", "invalidate_buffs"}
      BY NoCallFields
    <2> QED BY <1>1, <2>1 DEF CallType
  <1>3. call'.op = op /\ call'.todo = todo /\ call'.page = <<>>
    BY <1>1 DEF NoCall
  <1>4. TypeOK'
    BY <1>1, <1>2, Facts, TypeKept DEF bufVars, Labels
  <1>5. CallOK'
    <2>1. Len(todo) + Len(<<>>) <= 2 /\ Len(<<>>) <= 1
      <3> DEFINE l == Len(todo)
                 z == Len(<<>>)
      <3>1. l \in Nat /\ l <= 2 /\ z = 0
        BY LenProperties, EmptySeq
      <3> HIDE DEF l, z
      <3>2. l + z <= 2 /\ z <= 1
        BY <3>1
      <3> QED BY <3>2 DEF l, z
    <2>2. Asks'
      BY <1>3, <2>1 DEF Asks
    <2> QED BY <1>1, <1>2, <1>3, <2>2 DEF CallOK
  <1>6. Counts'
    BY <1>1, <1>3, Facts, CountsKept, NoCallFields DEF Busy
  <1>7. Lists'
    BY <1>1, Facts, ListsKept
  <1> QED BY <1>4, <1>5, <1>6, <1>7, Together

LEMMA StartsStep ==
    ASSUME IInv,
           \/ start_read_buff \/ start_read_buff_page \/ start_read_buff_ahead
           \/ start_create_block \/ start_invalidate_buff
    PROVE  IInv'
  <1>1. \A k \in Blocks : <<k>> \in Seq(Blocks) /\ <<k>> # <<>> /\ Len(<<k>>) <= 2 /\ Head(<<k>>) = k
    OBVIOUS
  <1>2. \A j, k \in Blocks : /\ <<j, k>> \in Seq(Blocks) /\ <<j, k>> # <<>> /\ Len(<<j, k>>) <= 2
                            /\ Head(<<j, k>>) = j
    OBVIOUS
  <1>3. ASSUME NEW op, NEW todo, Start(op, todo)
        PROVE  /\ call'.op = op /\ call'.todo = todo /\ call'.page = <<>>
               /\ UNCHANGED <<block, refs, leaked>>
    BY <1>3 DEF Start, NoCall
  <1>4. refs \in [Buffers -> 0..MaxRefs] /\ MaxRefs \in Nat
    BY Facts, CacheAssumption
  <1>5. CASE start_read_buff
    <2>1. PICK k \in Blocks : ~Keeps(k) /\ Start("read_buff", <<k>>)
      BY <1>5 DEF start_read_buff
    <2>2. Room'
      BY <1>1, <1>3, <1>4, <2>1 DEF Room, Wanted, NoPage, Keeps
    <2> QED BY <1>1, <2>1, <2>2, StartStep DEF GetOps
  <1>6. CASE start_read_buff_page
    <2>1. PICK j, k \in Blocks : Start("read_buff_page", <<j, k>>)
      BY <1>6 DEF start_read_buff_page
    <2>2. Room'
      BY <1>3, <2>1 DEF Room
    <2> QED BY <1>2, <2>1, <2>2, StartStep DEF GetOps
  <1>7. CASE start_read_buff_ahead
    <2>1. PICK j, k \in Blocks : /\ ~Keeps(j)
                                /\ Start("read_buff_ahead", IF k[2] < MAX_HD THEN <<j, k>> ELSE <<j>>)
      BY <1>7 DEF start_read_buff_ahead
    <2> DEFINE todo == IF k[2] < MAX_HD THEN <<j, k>> ELSE <<j>>
    <2>2. todo \in Seq(Blocks) /\ todo # <<>> /\ Len(todo) <= 2 /\ Head(todo) = j
      BY <1>1, <1>2
    <2>3. Start("read_buff_ahead", todo)
      BY <2>1
    <2> HIDE DEF todo
    <2>4. Room'
      BY <1>3, <1>4, <2>1, <2>2, <2>3 DEF Room, Wanted, NoPage, Keeps
    <2> QED BY <2>2, <2>3, <2>4, StartStep DEF GetOps
  <1>8. CASE start_create_block
    <2>1. PICK k \in Blocks : Start("create_block", <<k>>)
      BY <1>8 DEF start_create_block
    <2>2. Room'
      BY <1>3, <2>1 DEF Room
    <2> QED BY <1>1, <2>1, <2>2, StartStep DEF GetOps
  <1>9. CASE start_invalidate_buff
    <2>1. PICK k \in Blocks : /\ \A b \in Buffers : block[b] = k => leaked[b] < MaxRefs
                             /\ Start("invalidate_buff", <<k>>)
      BY <1>9 DEF start_invalidate_buff
    <2>2. Room'
      BY <1>1, <1>3, <2>1 DEF Room, Wanted
    <2> QED BY <1>1, <2>1, <2>2, StartStep DEF GetOps
  <1> QED BY <1>5, <1>6, <1>7, <1>8, <1>9

LEMMA LoopsStart ==
    ASSUME IInv, start_sync_dev \/ start_invalidate_buffs
    PROVE  IInv'
  <1>1. PICK op \in {"sync_dev", "invalidate_buffs"}, label \in {"sync", "invalidate"}, k \in Blocks :
           /\ call' = [NoCall EXCEPT !.op = op, !.dev = k[1]] /\ pc' = label
           /\ UNCHANGED <<block, b_count, bufVars, queues, refs, leaked>>
    BY DEF start_sync_dev, start_invalidate_buffs, StartLoop
  <1>2. pc = "idle" /\ call = NoCall
    BY Facts DEF start_sync_dev, start_invalidate_buffs, StartLoop, AtRest, CallOK
  <1>3. call' \in CallType
    <2>1. k[1] \in Nat
      BY CacheAssumption
    <2>2. op \in GetOps \cup {"none", "sync_dev", "invalidate_buffs"}
      OBVIOUS
    <2> QED BY <1>1, <2>1, <2>2, NoCallFields DEF CallType
  <1>4. call'.op = op /\ call'.page = <<>> /\ call'.back = "idle"
    BY <1>1 DEF NoCall
  <1>5. TypeOK'
    BY <1>1, <1>3, Facts, TypeKept DEF bufVars, Labels
  <1>6. CallOK'
    BY <1>1, <1>3, <1>4 DEF CallOK, NoPage
  <1>7. Room'
    BY <1>4 DEF Room
  <1>8. Counts'
    BY <1>1, <1>2, <1>4, Facts, CountsKept, NoCallFields DEF Busy
  <1>9. Lists'
    BY <1>1, Facts, ListsKept
  <1> QED BY <1>5, <1>6, <1>7, <1>8, <1>9, Together

(* The steps of the callers. *)
LEMMA PutStep ==
    ASSUME IInv, NEW b \in Buffers, put_buff(b)
    PROVE  IInv'
  <1>1. /\ pc = "idle" /\ refs[b] > 0 /\ b_count' = [b_count EXCEPT ![b] = (@ + 255) % 256]
        /\ refs' = [refs EXCEPT ![b] = @ - 1]
        /\ UNCHANGED <<block, bufVars, queues, leaked, call, pc>>
    BY DEF put_buff, AtRest
  <1>2. /\ b_count \in [Buffers -> 0..255] /\ refs \in [Buffers -> 0..MaxRefs] /\ MaxRefs \in Nat
        /\ leaked \in [Buffers -> 0..MaxRefs] /\ call = NoCall /\ call \in CallType
    BY <1>1, Facts, CacheAssumption DEF CallOK
  <1>3. \A c : InCall(c) = 0 /\ InCall(c)' = 0
    <2>1. \A c : /\ InCall(c) = Occurs(call.page, c) + Extra(c)
                 /\ InCall(c)' = Occurs(call'.page, c) + Extra(c)'
      BY InCallIs
    <2>2. \A c : Extra(c) = 0 /\ Extra(c)' = 0
      BY <1>1 DEF Extra
    <2>3. \A c : Occurs(call.page, c) = 0 /\ Occurs(call'.page, c) = 0
      BY <1>1, <1>2, NoCallFields, PageCounts
    <2> QED BY <2>1, <2>2, <2>3
  <1>4. \A c \in Buffers : b_count[c] = refs[c] + leaked[c]
    BY <1>2, <1>3, Facts DEF Counts
  <1>5. b_count' = [b_count EXCEPT ![b] = @ - 1]
    <2>1. b_count[b] \in 1..255
      BY <1>1, <1>2, <1>4
    <2> QED BY <1>1, <1>2, <2>1, Bytes
  <1>6. refs' \in [Buffers -> 0..MaxRefs] /\ b_count' \in [Buffers -> 0..255]
    BY <1>1, <1>2, <1>4, <1>5
  <1>7. TypeOK'
    BY <1>1, <1>6, Facts, TypeKept DEF bufVars
  <1>8. CallOK'
    BY <1>1, <1>2, Facts, NoCallFields DEF CallOK
  <1>9. Room'
    BY <1>1, <1>2, NoCallFields DEF Room
  <1>10. Counts'
    <2>1. \A c \in Buffers : b_count'[c] = refs'[c] + leaked'[c]
      BY <1>1, <1>2, <1>4, <1>5
    <2> QED BY <1>2, <1>3, <2>1, <1>1, <1>6 DEF Counts
  <1>11. Lists'
    BY <1>1, Facts, ListsKept
  <1> QED BY <1>7, <1>8, <1>9, <1>10, <1>11, Together

(* Steps that change flags of the buffers only. *)
LEMMA FlagStep ==
    ASSUME IInv, UNCHANGED <<block, b_count, queues, refs, leaked, call, pc>>,
           b_dirt' \in [Buffers -> Flag], b_lock' \in [Buffers -> Flag],
           b_uptodate' \in [Buffers -> Flag],
           pc = "take" => b_dirt'[bh] = b_dirt[bh] /\ b_lock'[bh] = 0
    PROVE  IInv'
  <1>1. TypeOK'
    BY Facts, TypeKept
  <1>2. CallOK'
    BY Facts DEF CallOK, Asks, NoPage, bh, Wanted
  <1>3. Room'
    BY Facts, RoomKept
  <1>4. Counts'
    <2>1. \A c : InCall(c)' = InCall(c)
      BY DEF InCall, bh
    <2> QED BY <2>1, Facts DEF Counts
  <1>5. Lists'
    BY Facts, ListsKept
  <1> QED BY <1>1, <1>2, <1>3, <1>4, <1>5, Together

LEMMA FlagSteps ==
    ASSUME IInv, NEW b \in Buffers, modify(b) \/ end_request(b)
    PROVE  IInv'
  <1>1. CASE modify(b)
    <2>1. b_dirt' \in [Buffers -> Flag] /\ pc = "idle" /\ UNCHANGED <<b_lock, b_uptodate>>
      BY <1>1, Facts DEF modify, Flag, AtRest
    <2> QED BY <1>1, <2>1, Facts, FlagStep DEF modify
  <1>2. CASE end_request(b)
    <2>1. b_lock' = [b_lock EXCEPT ![b] = 0] /\ b_lock' \in [Buffers -> Flag] /\ UNCHANGED b_dirt
      BY <1>2, Facts DEF end_request, Flag
    <2>2. b_uptodate' \in [Buffers -> Flag]
      BY <1>2, Facts DEF end_request, Flag
    <2>3. pc = "take" => b_dirt'[bh] = b_dirt[bh] /\ b_lock'[bh] = 0
      BY <2>1, Facts, Sizes DEF CallOK, CallType, bh
    <2> QED BY <1>2, <2>1, <2>2, <2>3, Facts, FlagStep DEF end_request
  <1> QED BY <1>1, <1>2

(* The steps of get_buff and of the loops: they keep what the call asks    *)
(* for and no reference is given or taken.                                 *)
Same == call'.op = call.op /\ call'.todo = call.todo /\ call'.page = call.page

LEMMA AsksKept ==
    ASSUME Same
    PROVE  /\ Asks' <=> Asks
           /\ NoPage' <=> NoPage
           /\ Wanted' = Wanted
BY DEF Same, Asks, NoPage, Wanted

LEMMA QuietStep ==
    ASSUME IInv, pc \notin Busy, pc' \notin Busy, pc' \in Labels, Same, call' \in CallType,
           UNCHANGED <<block, b_count, queues, refs, leaked>>,
           b_dirt' \in [Buffers -> Flag], b_lock' \in [Buffers -> Flag],
           b_uptodate' \in [Buffers -> Flag], CallOK'
    PROVE  IInv'
  <1>1. TypeOK'
    BY Facts, TypeKept
  <1>2. Room'
    BY Facts, RoomKept DEF Same
  <1>3. Counts'
    BY Facts, CountsKept DEF Same
  <1>4. Lists'
    BY Facts, ListsKept
  <1> QED BY <1>1, <1>2, <1>3, <1>4, Together

(* The steps that end a call. *)
LEMMA ReturnStep ==
    ASSUME IInv, call' = NoCall, pc' = "idle", UNCHANGED <<block, queues>>,
           b_dirt' \in [Buffers -> Flag], b_lock' \in [Buffers -> Flag],
           b_uptodate' \in [Buffers -> Flag], b_count' \in [Buffers -> 0..255],
           refs' \in [Buffers -> 0..MaxRefs], leaked' \in [Buffers -> 0..MaxRefs],
           \A b \in Buffers : b_count'[b] = refs'[b] + leaked'[b]
    PROVE  IInv'
  <1>1. TypeOK'
    BY Facts, TypeKept, NoCallFields DEF Labels
  <1>2. CallOK'
    BY NoCallFields DEF CallOK
  <1>3. Room'
    BY NoCallFields DEF Room
  <1>4. Counts'
    <2>1. \A b : Occurs(call'.page, b) = 0 /\ Extra(b)' = 0
      BY NoCallFields, PageCounts DEF Extra
    <2>2. \A b : InCall(b)' = 0
      BY <2>1, InCallIs
    <2>3. \A b \in Buffers : refs'[b] \in 0..MaxRefs /\ leaked'[b] \in 0..MaxRefs /\ MaxRefs \in Nat
      BY CacheAssumption
    <2> QED BY <2>2, <2>3 DEF Counts
  <1>5. Lists'
    BY Facts, ListsKept
  <1> QED BY <1>1, <1>2, <1>3, <1>4, <1>5, Together

LEMMA NoneHeld ==
    ASSUME IInv, NoPage, pc \notin Busy
    PROVE  \A c \in Buffers : b_count[c] = refs[c] + leaked[c]
  <1>1. \A c : Occurs(call.page, c) = 0 /\ Extra(c) = 0
    BY PageCounts DEF NoPage, Extra, Busy
  <1>2. \A c : InCall(c) = 0
    BY <1>1, InCallIs
  <1>3. \A c \in Buffers : refs[c] \in 0..MaxRefs /\ leaked[c] \in 0..MaxRefs /\ MaxRefs \in Nat
    BY Facts, CacheAssumption
  <1> QED BY <1>2, <1>3, Facts DEF Counts

LEMMA FieldSet ==
    ASSUME call \in CallType
    PROVE  /\ \A x \in Ptr : LET c == [call EXCEPT !["bh"] = x]
                            IN  /\ c \in CallType /\ c.bh = x /\ c.op = call.op
                                /\ c.todo = call.todo /\ c.page = call.page
           /\ \A x, y \in Ptr : LET c == [call EXCEPT !.bh = x, !.tmp = y]
                               IN  /\ c \in CallType /\ c.bh = x /\ c.tmp = y /\ c.op = call.op
                                   /\ c.todo = call.todo /\ c.page = call.page
           /\ \A x \in 1..(NR_BUFFERS + 1) :
                              LET c == [call EXCEPT !["i"] = x]
                              IN  /\ c \in CallType /\ c.i = x /\ c.op = call.op
                                  /\ c.todo = call.todo /\ c.page = call.page
                                  /\ c.bh = call.bh /\ c.back = call.back
           /\ \A x \in Nat : LET c == [call EXCEPT !.dev = x, !.i = 1, !.back = "new"]
                            IN  /\ c \in CallType /\ c.back = "new" /\ c.op = call.op
                                /\ c.todo = call.todo /\ c.page = call.page
                                /\ c.bh = call.bh
  <1>1. /\ 1 \in 1..(NR_BUFFERS + 1) /\ "new" \in {"idle", "new"}
    BY Sizes
  <1> QED BY <1>1 DEF CallType

LEMMA RetainFind ==
    ASSUME IInv, retain_find
    PROVE  IInv'
  <1>1. /\ pc = "find" /\ Asks /\ call \in CallType
        /\ UNCHANGED <<block, b_count, bufVars, queues, refs, leaked>>
        /\ b_dirt' \in [Buffers -> Flag] /\ b_lock' \in [Buffers -> Flag]
        /\ b_uptodate' \in [Buffers -> Flag]
    BY Facts DEF retain_find, CallOK, bufVars
  <1> DEFINE b == find_buff(Wanted)
  <1>2. \/ b = NULL
        \/ b \in Buffers /\ block[b] = Wanted
    BY <1>1, Facts, FindBuff, AsksFacts DEF Lists
  <1>3. \/ /\ b # NULL /\ Set("bh", b) /\ pc' = "retain"
        \/ /\ b = NULL /\ call.op = "invalidate_buff" /\ call' = NoCall /\ pc' = "idle"
        \/ /\ b = NULL /\ call.op # "invalidate_buff" /\ pc' = "scan"
           /\ call' = [call EXCEPT !.bh = NULL, !.tmp = queues.free_list]
    BY DEF retain_find, Goto
  <1> HIDE DEF b
  <1>4. CASE b # NULL /\ Set("bh", b) /\ pc' = "retain"
    <2>1. b \in Ptr /\ b \in Buffers
      BY <1>2, <1>4, Sizes
    <2>2. call' \in CallType /\ call'.bh = b /\ Same
      BY <1>1, <1>4, <2>1, FieldSet DEF Set, Same
    <2>3. CallOK'
      BY <1>1, <1>2, <1>4, <2>2, AsksKept DEF CallOK, bh
    <2> QED BY <1>1, <1>4, <2>2, <2>3, QuietStep DEF Labels, Busy
  <1>5. CASE b = NULL /\ call' = NoCall /\ pc' = "idle"
    <2>1. NoPage /\ pc \notin Busy
      BY <1>1, <1>3, <1>5 DEF Asks, NoPage, Busy
    <2>2. \A c \in Buffers : b_count[c] = refs[c] + leaked[c]
      BY <2>1, NoneHeld
    <2> QED BY <1>1, <1>5, <2>2, Facts, ReturnStep
  <1>6. CASE /\ b = NULL /\ call.op # "invalidate_buff" /\ pc' = "scan"
             /\ call' = [call EXCEPT !.bh = NULL, !.tmp = queues.free_list]
    <2>1. queues.free_list \in Ptr /\ queues.free_list # NULL /\ NULL \in Ptr
      BY Facts, Sizes DEF Queues
    <2>2. call' \in CallType /\ call'.bh = NULL /\ call'.tmp = queues.free_list /\ Same
      BY <1>1, <1>6, <2>1, FieldSet DEF Same
    <2>3. CallOK'
      BY <1>1, <1>6, <2>1, <2>2, AsksKept DEF CallOK, Same
    <2> QED BY <1>1, <1>6, <2>2, <2>3, QuietStep DEF Labels, Busy
  <1> QED BY <1>3, <1>4, <1>5, <1>6

LEMMA ScanStep ==
    ASSUME IInv, scan_step
    PROVE  IInv'
  <1> DEFINE best == IF Better(call.tmp) THEN call.tmp ELSE bh
             next == queues.next_free[call.tmp]
             tmp == call'.tmp
  <1>1. /\ pc = "scan" /\ Asks /\ call \in CallType /\ call.tmp \in Buffers /\ NULL \in Ptr
        /\ call.op # "invalidate_buff" /\ call.bh \in Ptr
        /\ UNCHANGED <<block, b_count, bufVars, queues, refs, leaked>>
        /\ b_dirt' \in [Buffers -> Flag] /\ b_lock' \in [Buffers -> Flag]
        /\ b_uptodate' \in [Buffers -> Flag]
    BY Facts, CallFields, Sizes DEF scan_step, CallOK, bufVars
  <1>2. best \in Ptr /\ next \in Ptr /\ next # NULL
    <2>1. next \in Buffers
      BY <1>1, Facts DEF Queues
    <2>2. best = call.tmp \/ best = call.bh
      BY DEF bh
    <2> QED BY <1>1, <2>1, <2>2, Sizes
  <1>3. \/ /\ pc' = "scan" /\ call' = [call EXCEPT !.bh = best, !.tmp = next]
        \/ /\ pc' = "find" /\ call' = [call EXCEPT !.bh = best, !.tmp = NULL]
        \/ /\ pc' = "new" /\ call' = [call EXCEPT !.bh = best, !.tmp = NULL] /\ best # NULL
    BY DEF scan_step, Goto
  <1> HIDE DEF best, next
  <1>4. /\ call' \in CallType /\ call'.bh = best /\ Same
        /\ pc' = "scan" => tmp # NULL
    <2>1. PICK t \in Ptr : call' = [call EXCEPT !.bh = best, !.tmp = t] /\ (pc' = "scan" => t # NULL)
      BY <1>1, <1>2, <1>3
    <2> QED BY <1>1, <1>2, <2>1, FieldSet DEF Same
  <1>5. CallOK'
    BY <1>1, <1>3, <1>4, AsksKept DEF CallOK, bh, Same
  <1> QED BY <1>1, <1>3, <1>4, <1>5, QuietStep DEF Labels, Busy

LEMMA NewCheck ==
    ASSUME IInv, new_check
    PROVE  IInv'
  <1>1. /\ pc = "new" /\ Asks /\ call \in CallType /\ call.bh \in Buffers /\ b_lock[bh] = 0
        /\ call.op # "invalidate_buff" /\ call.bh # NULL
        /\ UNCHANGED <<block, b_count, bufVars, queues, refs, leaked>>
        /\ b_dirt' \in [Buffers -> Flag] /\ b_lock' \in [Buffers -> Flag]
        /\ b_uptodate' \in [Buffers -> Flag]
    BY Facts, CallFields DEF new_check, CallOK, bufVars, bh
  <1>2. Wanted \in Blocks /\ block[bh][1] \in Nat
    BY <1>1, Facts, AsksFacts, CacheAssumption DEF bh, NoBlock
  <1>3. \/ pc' = "find" /\ UNCHANGED call
        \/ pc' = "take" /\ UNCHANGED call /\ find_buff(Wanted) = NULL /\ b_count[bh] = 0 /\ b_dirt[bh] # 1
        \/ pc' = "sync" /\ call' = [call EXCEPT !.dev = block[bh][1], !.i = 1, !.back = "new"]
    BY DEF new_check, Goto
  <1>4. CASE pc' = "find" /\ UNCHANGED call
    <2>1. Same /\ CallOK'
      BY <1>1, <1>4 DEF CallOK, Same, Asks, NoPage
    <2> QED BY <1>1, <1>4, <2>1, QuietStep DEF Labels, Busy
  <1>5. CASE pc' = "take" /\ UNCHANGED call /\ find_buff(Wanted) = NULL /\ b_count[bh] = 0 /\ b_dirt[bh] # 1
    <2>1. \A b \in Buffers : block[b] # Wanted
      BY <1>2, <1>5, Facts, FindBuff, Sizes DEF Lists
    <2>2. b_dirt[bh] = 0
      BY <1>1, <1>5, Facts DEF Flag, bh
    <2>3. Same /\ Wanted' = Wanted /\ bh' = bh /\ Asks'
      BY <1>1, <1>5 DEF Same, Wanted, bh, Asks
    <2>4. CallOK'
      BY <1>1, <1>5, <2>1, <2>2, <2>3 DEF CallOK, bufVars, bh
    <2> QED BY <1>1, <1>5, <2>3, <2>4, QuietStep DEF Labels, Busy
  <1>6. CASE pc' = "sync" /\ call' = [call EXCEPT !.dev = block[bh][1], !.i = 1, !.back = "new"]
    <2>1. call' \in CallType /\ call'.back = "new" /\ call'.bh = call.bh /\ Same
      BY <1>1, <1>2, <1>6, FieldSet DEF Same
    <2>2. CallOK'
      BY <1>1, <1>6, <2>1, AsksKept DEF CallOK, Same, bh
    <2> QED BY <1>1, <1>6, <2>1, <2>2, QuietStep DEF Labels, Busy
  <1> QED BY <1>3, <1>4, <1>5, <1>6

LEMMA LoopSteps ==
    ASSUME IInv, sync_skip \/ sync_write \/ invalidate_skip \/ invalidate_drop
    PROVE  IInv'
  <1>1. /\ pc \in {"sync", "invalidate"} /\ pc' = pc /\ call \in CallType
        /\ call.i <= NR_BUFFERS /\ call' = [call EXCEPT !["i"] = call.i + 1]
        /\ UNCHANGED <<block, b_count, queues, refs, leaked>>
    BY Facts DEF sync_skip, sync_write, invalidate_skip, invalidate_drop, Loop, NextBuffer, Set
  <1>2. call.i \in Buffers /\ call.i + 1 \in 1..(NR_BUFFERS + 1)
    BY <1>1, CallFields, Sizes DEF Buffers
  <1>3. /\ call' \in CallType /\ Same /\ call'.bh = call.bh /\ call'.back = call.back
    BY <1>1, <1>2, FieldSet DEF Same
  <1>4. /\ b_dirt' \in [Buffers -> Flag] /\ b_lock' \in [Buffers -> Flag]
        /\ b_uptodate' \in [Buffers -> Flag]
    BY <1>2, Facts DEF sync_skip, sync_write, invalidate_skip, invalidate_drop, bufVars,
                       ll_rw_block, Flag
  <1>5. CallOK'
    BY <1>1, <1>3, AsksKept, Facts DEF CallOK, Same, bh
  <1> QED BY <1>1, <1>3, <1>4, <1>5, QuietStep DEF Labels, Busy

LEMMA LoopEnd ==
    ASSUME IInv, loop_end
    PROVE  IInv'
  <1>1. /\ pc \in {"sync", "invalidate"} /\ call \in CallType /\ pc' = call.back
        /\ call.back \in {"idle", "new"}
        /\ call' = IF call.back = "idle" THEN NoCall ELSE call
        /\ UNCHANGED <<block, b_count, bufVars, queues, refs, leaked>>
        /\ b_dirt' \in [Buffers -> Flag] /\ b_lock' \in [Buffers -> Flag]
        /\ b_uptodate' \in [Buffers -> Flag]
    BY Facts, CallFields DEF loop_end, Goto, bufVars
  <1>2. CASE call.back = "idle"
    <2>1. NoPage /\ pc \notin Busy
      BY <1>1, <1>2, Facts DEF CallOK, Busy
    <2>2. \A c \in Buffers : b_count[c] = refs[c] + leaked[c]
      BY <2>1, NoneHeld
    <2> QED BY <1>1, <1>2, <2>2, Facts, ReturnStep
  <1>3. CASE call.back = "new"
    <2>1. pc = "sync" /\ Asks /\ call.bh # NULL /\ UNCHANGED call /\ pc' = "new"
      BY <1>1, <1>3, Facts DEF CallOK, bh
    <2>2. Same /\ Asks'
      BY <2>1 DEF Same, Asks
    <2>3. CallOK'
      BY <2>1, <2>2, Facts DEF CallOK, bh
    <2> QED BY <1>1, <2>1, <2>2, <2>3, QuietStep DEF Labels, Busy
  <1> QED BY <1>1, <1>2, <1>3

(* The references of a call that is about to get a buffer. *)
LEMMA AskingHolds ==
    ASSUME IInv, Asks, pc \notin Busy
    PROVE  /\ \A c : InCall(c) = Occurs(call.page, c) /\ InCall(c) \in 0..1
           /\ \A c \in Buffers : b_count[c] = refs[c] + leaked[c] + InCall(c) /\ b_count[c] <= 253
  <1>1. call \in CallType /\ call.page \in Seq(Buffers) /\ Len(call.page) <= 1
    <2>1. call \in CallType /\ call.page \in Seq(Buffers)
      BY Facts, CallFields
    <2>2. NoPage \/ Len(call.page) = 1
      BY <2>1, AsksFacts
    <2>3. NoPage => Len(call.page) = 0
      BY EmptySeq DEF NoPage
    <2>4. Len(call.page) = 0 \/ Len(call.page) = 1
      BY <2>2, <2>3
    <2> DEFINE l == Len(call.page)
    <2>6. l = 0 \/ l = 1
      BY <2>4
    <2> HIDE DEF l
    <2>7. l <= 1
      BY <2>6
    <2>5. Len(call.page) <= 1
      BY <2>7 DEF l
    <2> QED BY <2>1, <2>5
  <1>2. \A c : Extra(c) = 0
    BY DEF Extra, Busy
  <1>3. \A c : Occurs(call.page, c) \in 0..1
    BY <1>1, PageCounts
  <1>4. \A c : InCall(c) = Occurs(call.page, c) /\ InCall(c) \in 0..1
    BY <1>2, <1>3, InCallIs
  <1>5. \A c \in Buffers : /\ b_count[c] = refs[c] + leaked[c] + InCall(c)
                           /\ refs[c] \in 0..MaxRefs /\ leaked[c] \in 0..MaxRefs
    BY Facts DEF Counts
  <1> HIDE DEF InCall
  <1>6. \A c \in Buffers : b_count[c] <= 253
    BY <1>4, <1>5, CacheAssumption
  <1> QED BY <1>4, <1>5, <1>6

LEMMA RetainBuff ==
    ASSUME IInv, retain_buff
    PROVE  IInv'
  <1>1. /\ pc = "retain" /\ Asks /\ call \in CallType /\ call.bh # NULL /\ bh \in Buffers
        /\ block[bh] = Wanted
    BY Facts, CallFields DEF retain_buff, CallOK, bh
  <1>2. /\ b_count' = [b_count EXCEPT ![bh] = (@ + 1) % 256] /\ pc' = "got"
        /\ UNCHANGED <<block, bufVars, queues, refs, leaked, call>>
    BY <1>1 DEF retain_buff, Goto
  <1>3. b_count[bh] \in 0..254
    BY <1>1, AskingHolds, Facts DEF Busy
  <1>4. b_count' = [b_count EXCEPT ![bh] = @ + 1] /\ b_count' \in [Buffers -> 0..255]
    <2>1. (b_count[bh] + 1) % 256 = b_count[bh] + 1 /\ b_count[bh] + 1 \in 0..255
      BY <1>3, Bytes
    <2>2. b_count \in [Buffers -> 0..255]
      BY Facts
    <2> QED BY <1>1, <1>2, <2>1, <2>2
  <1>5. TypeOK'
    BY <1>2, <1>4, Facts, TypeKept DEF bufVars, Labels
  <1>6. CallOK'
    BY <1>1, <1>2 DEF CallOK, Asks, NoPage, bh, Wanted
  <1>7. Room'
    BY <1>2, Facts, RoomKept
  <1>8. Counts'
    <2>1. \A c : InCall(c)' = Occurs(call.page, c) + Is(bh, c)
      <3>1. \A c : Extra(c)' = Is(bh, c)
        BY <1>2 DEF Extra, Is, bh
      <3> QED BY <1>2, <3>1, InCallIs
    <2>2. \A c : Occurs(call.page, c) \in 0..1
      BY <1>1, AskingHolds DEF Busy
    <2>3. \A c \in Buffers : b_count[c] = refs[c] + leaked[c] + Occurs(call.page, c)
      BY <1>1, AskingHolds DEF Busy
    <2>0. b_count \in [Buffers -> 0..255]
      BY Facts
    <2>4. \A c \in Buffers : b_count'[c] = b_count[c] + Is(bh, c)
      BY <1>1, <1>4, <2>0 DEF Is
    <2>5. \A c \in Buffers : refs[c] \in Nat /\ leaked[c] \in Nat /\ b_count[c] \in Nat
                            /\ Is(bh, c) \in {0, 1}
      BY Facts, CacheAssumption DEF Is
    <2> QED BY <1>2, <2>1, <2>2, <2>3, <2>4, <2>5 DEF Counts
  <1>9. Lists'
    BY <1>2, Facts, ListsKept
  <1> QED BY <1>5, <1>6, <1>7, <1>8, <1>9, Together

LEMMA NewTake ==
    ASSUME IInv, new_take
    PROVE  IInv'
  <1>1. /\ pc = "take" /\ Asks /\ call \in CallType /\ call.bh # NULL /\ bh \in Buffers
        /\ b_count[bh] = 0 /\ call.op # "invalidate_buff"
        /\ \A b \in Buffers : block[b] # Wanted
    BY Facts, CallFields DEF new_take, CallOK, bh
  <1>2. /\ b_count' = [b_count EXCEPT ![bh] = 1] /\ b_dirt' = [b_dirt EXCEPT ![bh] = 0]
        /\ b_uptodate' = [b_uptodate EXCEPT ![bh] = 0]
        /\ queues' = Moved(queues, bh, Wanted) /\ block' = [block EXCEPT ![bh] = Wanted]
        /\ pc' = "got" /\ UNCHANGED <<b_lock, refs, leaked, call>>
    BY DEF new_take, Goto, Moved
  <1>3. Wanted \in Blocks
    BY <1>1, AsksFacts
  <1>4. PICK ord : IsRing(queues, ord)
    BY Facts DEF Lists, RingOK
  <1>5. PICK p \in Buffers : ord[p] = bh
    BY <1>1, <1>4 DEF IsRing, IsOrder
  <1>6. queues' \in Queues
    <2>1. remove_from_queues(queues, bh) \in Queues
      BY <1>1, Facts, Removed DEF IsRemoved
    <2> QED BY <1>2, <1>3, <1>1, <2>1, Inserted DEF Moved, IsInserted
  <1>7. TypeOK'
    <2>0. b_count \in [Buffers -> 0..255] /\ block \in [Buffers -> Blocks \cup {NoBlock}]
      BY Facts
    <2>3. b_count' \in [Buffers -> 0..255]
      <3>1. b_count' = [b_count EXCEPT ![bh] = 1] /\ 1 \in 0..255
        BY <1>2
      <3> QED BY <2>0, <3>1
    <2>1. block' \in [Buffers -> Blocks \cup {NoBlock}]
      BY <1>2, <1>3, <2>0
    <2>2. b_dirt' \in [Buffers -> Flag] /\ b_uptodate' \in [Buffers -> Flag]
      BY <1>2, Facts DEF Flag
    <2> QED BY <1>2, <1>6, <2>1, <2>2, <2>3, Facts, TypeKept DEF Labels
  <1>8. CallOK'
    <2>1. block'[bh] = Wanted
      BY <1>1, <1>2, Facts
    <2> QED BY <1>1, <1>2, <2>1 DEF CallOK, Asks, NoPage, bh, Wanted
  <1>9. refs[bh] = 0 /\ leaked[bh] = 0 /\ Occurs(call.page, bh) = 0
    <2>1. refs[bh] \in Nat /\ leaked[bh] \in Nat
      BY <1>1, Facts, CacheAssumption
    <2>2. /\ InCall(bh) = Occurs(call.page, bh) /\ InCall(bh) \in 0..1
          /\ b_count[bh] = refs[bh] + leaked[bh] + InCall(bh)
      BY <1>1, AskingHolds DEF Busy
    <2> QED BY <1>1, <2>1, <2>2
  <1>10. Room'
    <2>1. \A b \in Buffers : block'[b] = Wanted => b = bh
      BY <1>1, <1>2, Facts
    <2>2. refs[bh] < MaxRefs
      BY <1>9, CacheAssumption
    <2> QED BY <1>1, <1>2, <2>1, <2>2, Facts DEF Room, NoPage, Wanted
  <1>11. Counts'
    <2>1. \A c : InCall(c)' = Occurs(call.page, c) + Is(bh, c)
      <3>1. \A c : Extra(c)' = Is(bh, c)
        BY <1>2 DEF Extra, Is, bh
      <3> QED BY <1>2, <3>1, InCallIs
    <2>2. \A c : Occurs(call.page, c) \in 0..1
      BY <1>1, AskingHolds DEF Busy
    <2>3. \A c \in Buffers : b_count[c] = refs[c] + leaked[c] + Occurs(call.page, c)
      BY <1>1, AskingHolds DEF Busy
    <2>4. \A c \in Buffers : b_count'[c] = IF c = bh THEN 1 ELSE b_count[c]
      BY <1>1, <1>2, Facts
    <2>5. \A c \in Buffers : refs[c] \in Nat /\ leaked[c] \in Nat /\ b_count[c] \in Nat
      BY Facts, CacheAssumption
    <2>6. \A c \in Buffers : b_count'[c] = refs[c] + leaked[c] + (Occurs(call.page, c) + Is(bh, c))
      BY <1>9, <2>2, <2>3, <2>4, <2>5 DEF Is
    <2> QED BY <1>2, <2>1, <2>6 DEF Counts
  <1>12. Lists'
    <2>1. OneCopy'
      BY <1>1, <1>2, Facts DEF Lists, OneCopy
    <2>2. RingOK'
      BY <1>1, <1>2, <1>3, <1>4, <1>5, Facts, RingMoves DEF RingOK
    <2>3. ChainsOK'
      BY <1>1, <1>2, <1>3, Facts, ChainsMove DEF Lists
    <2> QED BY <2>1, <2>2, <2>3 DEF Lists
  <1> QED BY <1>7, <1>8, <1>10, <1>11, <1>12, Together

-----------------------------------------------------------------------------
(* What a call does with its buffer. *)

(* The call holds bh and nothing else. *)
HoldsOne == /\ bh \in Buffers
            /\ \A c \in Buffers : b_count[c] = refs[c] + leaked[c] + Is(bh, c)

LEMMA Holding ==
    ASSUME IInv, pc = "reading" \/ (pc = "got" /\ NoPage)
    PROVE  HoldsOne
  <1>1. bh \in Buffers /\ call \in CallType /\ Asks /\ call.page \in Seq(Buffers)
    BY Facts, CallFields DEF CallOK, bh
  <1>2. \A c : InCall(c) = Is(bh, c)
    <2>1. CASE NoPage
      <3>1. \A c : Extra(c) = Is(bh, c)
        BY <2>1 DEF Extra, Is, NoPage
      <3>2. \A c : Occurs(call.page, c) = 0
        BY <2>1, PageCounts DEF NoPage
      <3> QED BY <3>1, <3>2, InCallIs DEF Is
    <2>2. CASE ~NoPage
      <3>1. pc = "reading" /\ bh = call.page[1] /\ Len(call.page) = 1
        BY <1>1, <2>2, Facts, AsksFacts DEF CallOK
      <3>2. \A c : Extra(c) = 0
        BY <2>2, <3>1 DEF Extra, NoPage
      <3>3. \A c : Occurs(call.page, c) = Is(bh, c)
        BY <1>1, <3>1, PageCounts
      <3> QED BY <3>2, <3>3, InCallIs DEF Is
    <2> QED BY <2>1, <2>2
  <1>3. \A c \in Buffers : b_count[c] = refs[c] + leaked[c] + InCall(c)
    BY Facts DEF Counts
  <1> QED BY <1>1, <1>2, <1>3 DEF HoldsOne

LEMMA LastStep ==
    ASSUME IInv, HoldsOne, Return, UNCHANGED <<block, queues>>,
           b_dirt' \in [Buffers -> Flag], b_lock' \in [Buffers -> Flag],
           b_uptodate' \in [Buffers -> Flag],
           \/ Hold(bh) /\ refs[bh] < MaxRefs /\ UNCHANGED <<b_count, leaked>>
           \/ Unhold(bh) /\ UNCHANGED <<refs, leaked>>
           \/ /\ leaked' = [leaked EXCEPT ![bh] = @ + 1] /\ leaked[bh] < MaxRefs
              /\ UNCHANGED <<b_count, refs>>
    PROVE  IInv'
  <1>1. /\ bh \in Buffers /\ MaxRefs \in Nat /\ MaxRefs <= 126
        /\ \A c \in Buffers : b_count[c] = refs[c] + leaked[c] + Is(bh, c)
        /\ b_count \in [Buffers -> 0..255]
        /\ refs \in [Buffers -> 0..MaxRefs] /\ leaked \in [Buffers -> 0..MaxRefs]
    BY Facts, CacheAssumption DEF HoldsOne
  <1>2. /\ call' = NoCall /\ pc' = "idle"
        /\ Is(bh, bh) = 1 /\ \A c : c # bh => Is(bh, c) = 0
    BY DEF Return, Goto, Is
  <1> HIDE DEF Is, bh
  <1>3. CASE Hold(bh) /\ refs[bh] < MaxRefs /\ UNCHANGED <<b_count, leaked>>
    <2>1. refs' = [refs EXCEPT ![bh] = @ + 1]
      BY <1>3 DEF Hold
    <2>2. refs[bh] + 1 \in 0..MaxRefs
      BY <1>1, <1>3
    <2>3. refs' \in [Buffers -> 0..MaxRefs]
      BY <1>1, <2>1, <2>2
    <2>4. \A c \in Buffers : b_count[c] = refs'[c] + leaked[c]
      BY <1>1, <1>2, <2>1
    <2> QED BY <1>1, <1>2, <1>3, <2>3, <2>4, ReturnStep
  <1>4. CASE Unhold(bh) /\ UNCHANGED <<refs, leaked>>
    <2>1. b_count[bh] \in 1..255
      BY <1>1, <1>2
    <2>2. (b_count[bh] + 255) % 256 = b_count[bh] - 1 /\ b_count[bh] - 1 \in 0..255
      BY <2>1, Bytes
    <2>3. b_count' = [b_count EXCEPT ![bh] = b_count[bh] - 1]
      BY <1>1, <1>4, <2>2 DEF Unhold
    <2>4. b_count' \in [Buffers -> 0..255]
      BY <1>1, <2>2, <2>3
    <2>5. \A c \in Buffers : b_count'[c] = refs[c] + leaked[c]
      BY <1>1, <1>2, <2>3
    <2> QED BY <1>1, <1>2, <1>4, <2>4, <2>5, ReturnStep
  <1>5. CASE /\ leaked' = [leaked EXCEPT ![bh] = @ + 1] /\ leaked[bh] < MaxRefs
             /\ UNCHANGED <<b_count, refs>>
    <2>2. leaked[bh] + 1 \in 0..MaxRefs
      BY <1>1, <1>5
    <2>3. leaked' \in [Buffers -> 0..MaxRefs]
      BY <1>1, <1>5, <2>2
    <2>4. \A c \in Buffers : b_count[c] = refs[c] + leaked'[c]
      BY <1>1, <1>2, <1>5
    <2> QED BY <1>1, <1>2, <1>5, <2>3, <2>4, ReturnStep
  <1> QED BY <1>3, <1>4, <1>5

LEMMA GotFacts ==
    ASSUME IInv, NEW op, Got(op)
    PROVE  /\ pc = "got" /\ call.op = op /\ Asks /\ call \in CallType /\ bh \in Buffers
           /\ bh # NULL /\ block[bh] = Wanted
           /\ op \notin {"read_buff_page", "read_buff_ahead"} => NoPage
BY Facts, CallFields DEF Got, CallOK, Asks, NoPage, bh

LEMMA ReadBuffCached ==
    ASSUME IInv, read_buff_cached
    PROVE  IInv'
  <1>1. Got("read_buff") /\ Hold(bh) /\ Return /\ UNCHANGED <<block, b_count, bufVars, queues, leaked>>
    BY DEF read_buff_cached
  <1>2. NoPage /\ pc = "got" /\ refs[bh] < MaxRefs
    BY <1>1, GotFacts, Facts DEF Room
  <1> QED BY <1>1, <1>2, Holding, Facts, LastStep DEF bufVars

LEMMA ReadBuffEnd ==
    ASSUME IInv, read_buff_end
    PROVE  IInv'
  <1>1. /\ pc = "reading" /\ Return /\ UNCHANGED <<block, bufVars, queues, leaked>>
        /\ \/ Hold(bh) /\ UNCHANGED b_count
           \/ Unhold(bh) /\ UNCHANGED refs
    BY DEF read_buff_end
  <1>2. HoldsOne
    BY <1>1, Holding
  <1>3. refs[bh] < MaxRefs
    BY <1>1, <1>2, Facts DEF CallOK, Room, HoldsOne
  <1> QED BY <1>1, <1>2, <1>3, Facts, LastStep DEF bufVars

LEMMA CreateAndInvalidate ==
    ASSUME IInv, create_block \/ invalidate_buff \/ invalidate_buff_in_use
    PROVE  IInv'
  <1>1. PICK op \in {"create_block", "invalidate_buff"} : Got(op)
    BY DEF create_block, invalidate_buff, invalidate_buff_in_use
  <1>2. NoPage /\ pc = "got" /\ bh \in Buffers /\ block[bh] = Wanted
    BY <1>1, GotFacts
  <1>3. HoldsOne
    BY <1>2, Holding
  <1>4. /\ Return /\ UNCHANGED <<block, queues, b_lock>>
        /\ b_dirt' \in [Buffers -> Flag] /\ b_uptodate' \in [Buffers -> Flag]
    BY <1>2, Facts DEF create_block, invalidate_buff, invalidate_buff_in_use, Flag, bufVars
  <1>5. CASE create_block \/ invalidate_buff
    <2>1. Unhold(bh) /\ UNCHANGED <<refs, leaked>>
      BY <1>5 DEF create_block, invalidate_buff
    <2> QED BY <1>3, <1>4, <2>1, Facts, LastStep
  <1>6. CASE invalidate_buff_in_use
    <2>1. leaked' = [leaked EXCEPT ![bh] = @ + 1] /\ UNCHANGED <<b_count, refs>>
      BY <1>6 DEF invalidate_buff_in_use
    <2>2. leaked[bh] < MaxRefs
      BY <1>2, <1>6, Facts DEF invalidate_buff_in_use, Room, Got
    <2> QED BY <1>3, <1>4, <2>1, <2>2, Facts, LastStep
  <1> QED BY <1>5, <1>6

LEMMA ReadBuffSubmit ==
    ASSUME IInv, read_buff_submit
    PROVE  IInv'
  <1>1. /\ Got("read_buff") /\ ll_rw_block("READ", bh) /\ pc' = "reading"
        /\ UNCHANGED <<block, b_count, queues, refs, leaked, call>>
    BY DEF read_buff_submit, Goto
  <1>2. /\ NoPage /\ pc = "got" /\ Asks /\ bh \in Buffers /\ bh # NULL /\ block[bh] = Wanted
        /\ call.op = "read_buff"
    BY <1>1, GotFacts
  <1>3. /\ b_dirt' \in [Buffers -> Flag] /\ b_lock' \in [Buffers -> Flag]
        /\ b_uptodate' \in [Buffers -> Flag]
    BY <1>1, Facts DEF ll_rw_block, Flag
  <1>4. TypeOK'
    BY <1>1, <1>3, Facts, TypeKept DEF Labels
  <1>5. CallOK'
    BY <1>1, <1>2, Facts DEF CallOK, Asks, NoPage, bh, Wanted
  <1>6. Room'
    BY <1>1, Facts, RoomKept
  <1>7. Counts'
    <2>1. \A c : Extra(c)' = Extra(c)
      BY <1>1, <1>2 DEF Extra, NoPage, bh
    <2>2. \A c : InCall(c)' = InCall(c)
      BY <1>1, <2>1, InCallIs
    <2> QED BY <1>1, <2>2, Facts DEF Counts
  <1>8. Lists'
    BY <1>1, Facts, ListsKept
  <1> QED BY <1>4, <1>5, <1>6, <1>7, <1>8, Together

LEMMA CreateBlockPanic ==
    ASSUME IInv, create_block_panic
    PROVE  IInv'
  <1>1. /\ Got("create_block") /\ pc' = "panic"
        /\ UNCHANGED <<block, b_count, bufVars, queues, refs, leaked, call>>
    BY DEF create_block_panic, Goto
  <1>2. NoPage /\ pc = "got" /\ Asks /\ call.op = "create_block"
    BY <1>1, GotFacts
  <1>3. TypeOK'
    BY <1>1, Facts, TypeKept DEF bufVars, Labels
  <1>4. CallOK'
    BY <1>1, <1>2, Facts DEF CallOK, Asks, NoPage
  <1>5. Room'
    BY <1>1, Facts, RoomKept
  <1>6. Counts'
    <2>1. \A c : Extra(c)' = Extra(c)
      BY <1>1, <1>2 DEF Extra, bh
    <2>2. \A c : InCall(c)' = InCall(c)
      BY <1>1, <2>1, InCallIs
    <2> QED BY <1>1, <2>2, Facts DEF Counts
  <1>7. Lists'
    BY <1>1, Facts, ListsKept
  <1> QED BY <1>3, <1>4, <1>5, <1>6, <1>7, Together

(* The references move from one place to another and stay as many. *)
LEMMA HandedOn ==
    ASSUME IInv, UNCHANGED <<block, b_count, queues, refs, leaked>>,
           b_dirt' \in [Buffers -> Flag], b_lock' \in [Buffers -> Flag],
           b_uptodate' \in [Buffers -> Flag], pc' \in Labels, call' \in CallType,
           \A c : InCall(c)' = InCall(c), CallOK', Room'
    PROVE  IInv'
  <1>1. TypeOK'
    BY Facts, TypeKept
  <1>2. Counts'
    BY Facts DEF Counts
  <1>3. Lists'
    BY Facts, ListsKept
  <1> QED BY <1>1, <1>2, <1>3, Together

LEMMA Collect ==
    ASSUME IInv, collect
    PROVE  IInv'
  <1>1. /\ pc = "got" /\ FirstOrPage /\ UNCHANGED <<block, b_count, queues, refs, leaked>>
        /\ call.op \in {"read_buff_page", "read_buff_ahead"} /\ call.op \in GetOps
    BY DEF collect, FirstOrPage, GetOps
  <1>2. /\ Asks /\ call \in CallType /\ bh \in Buffers /\ bh # NULL /\ block[bh] = Wanted
    BY <1>1, Facts, CallFields DEF CallOK, bh
  <1>3. /\ b_dirt' \in [Buffers -> Flag] /\ b_lock' \in [Buffers -> Flag]
        /\ b_uptodate' \in [Buffers -> Flag]
    <2>1. ll_rw_block("READ", bh) \/ UNCHANGED bufVars
      BY DEF collect
    <2> QED BY <2>1, Facts DEF ll_rw_block, Flag, bufVars
  <1>4. /\ call.page \in Seq(Buffers) /\ (NoPage \/ Len(call.page) = 1)
        /\ Rest \in Seq(Blocks) /\ (Rest # <<>> => NoPage /\ Len(Rest) = 1)
    BY <1>2, AsksFacts, CallFields
  <1> DEFINE n == Len(call.page)
             s == Append(call.page, bh)
  <1>5. n \in 0..1 /\ (NoPage => n = 0) /\ (~NoPage => n = 1)
    BY <1>4, EmptySeq, LenProperties DEF NoPage
  <1>6. /\ s \in Seq(Buffers) /\ Len(s) = n + 1 /\ (n = 0 => s[1] = bh) /\ s # <<>>
    <2>1. s \in Seq(Buffers) /\ Len(s) = Len(call.page) + 1 /\ s[Len(call.page) + 1] = bh
      BY <1>2, <1>4, AppendProperties
    <2>2. n = 0 => n + 1 = 1
      OBVIOUS
    <2>3. n = 0 => s[1] = bh
      BY <2>1, <2>2
    <2>4. s = <<>> => Len(s) = 0
      BY EmptySeq
    <2> HIDE DEF n, s
    <2>5. Len(s) = n + 1
      BY <2>1 DEF n
    <2>6. s # <<>>
      BY <1>5, <2>4, <2>5
    <2> QED BY <2>1, <2>3, <2>5, <2>6
  <1>7. \A c : Occurs(s, c) = Occurs(call.page, c) + Is(bh, c)
    <2> HIDE DEF n
    <2>1. n <= 1
      BY <1>5
    <2>2. Len(call.page) <= 1
      BY <2>1 DEF n
    <2> QED BY <1>2, <1>4, <2>2, PageCounts
  <1>8. \A c : InCall(c) = Occurs(call.page, c) + Is(bh, c)
    <2>1. \A c : Extra(c) = Is(bh, c)
      BY <1>1 DEF Extra, Is
    <2> QED BY <2>1, InCallIs
  <1>9. \A c : Occurs(call.page, c) \in Nat /\ Is(bh, c) \in Nat
    BY <1>4, <1>5, PageCounts DEF Is
  <1> HIDE DEF n, s
  <1>10. CASE Rest # <<>> /\ call' = [call EXCEPT !.todo = Rest, !.page = s] /\ pc' = "find"
    <2>1. NoPage /\ Len(Rest) = 1 /\ n = 0 /\ Len(s) = 1 /\ s[1] = bh
      BY <1>4, <1>5, <1>6, <1>10
    <2>2. /\ call' \in CallType /\ call'.op = call.op /\ call'.todo = Rest /\ call'.page = s
      BY <1>2, <1>4, <1>6, <1>10 DEF CallType
    <2>3. Asks'
      <3>1. Len(Rest) + Len(s) <= 2 /\ Len(s) <= 1
        BY <2>1
      <3> QED BY <1>1, <1>10, <2>2, <3>1 DEF Asks
    <2>4. CallOK'
      BY <1>1, <1>10, <2>2, <2>3 DEF CallOK
    <2>5. Room'
      <3>1. call.op = "read_buff_ahead" => refs[bh] < MaxRefs
        BY <1>2, <2>1, Facts DEF Room
      <3> QED BY <1>1, <1>6, <2>1, <2>2, <3>1 DEF Room, NoPage
    <2>6. \A c : InCall(c)' = InCall(c)
      <3>1. \A c : Extra(c)' = 0
        BY <1>10 DEF Extra
      <3> QED BY <1>7, <1>8, <1>9, <2>2, <3>1, InCallIs
    <2> QED BY <1>1, <1>3, <1>10, <2>2, <2>4, <2>5, <2>6, HandedOn DEF Labels
  <1>11. CASE call.op = "read_buff_page" /\ call' = [call EXCEPT !["page"] = s] /\ pc' = "page"
    <2>1. Len(s) \in 1..2
      <3>1. Len(s) = n + 1
        BY <1>6
      <3> QED BY <1>5, <3>1
    <2>2. /\ call' \in CallType /\ call'.op = call.op /\ call'.page = s
      BY <1>2, <1>6, <1>11 DEF CallType
    <2>3. CallOK'
      BY <1>11, <2>1, <2>2 DEF CallOK
    <2>4. Room'
      BY <1>11, <2>2 DEF Room
    <2>5. \A c : InCall(c)' = InCall(c)
      <3>1. \A c : Extra(c)' = 0
        BY <1>11 DEF Extra
      <3> QED BY <1>7, <1>8, <1>9, <2>2, <3>1, InCallIs
    <2> QED BY <1>1, <1>3, <1>11, <2>2, <2>3, <2>4, <2>5, HandedOn DEF Labels
  <1>12. CASE call.op = "read_buff_ahead" /\ pc' = "reading" /\ UNCHANGED call
    <2>1. NoPage
      BY <1>1, <1>12 DEF FirstOrPage, NoPage
    <2>2. CallOK'
      BY <1>1, <1>2, <1>12, <2>1 DEF CallOK, Asks, NoPage, bh, Wanted
    <2>3. Room'
      BY <1>1, <1>12, Facts, RoomKept
    <2>4. \A c : InCall(c)' = InCall(c)
      <3>1. \A c : Extra(c)' = Extra(c)
        BY <1>1, <1>12, <2>1 DEF Extra, NoPage, bh
      <3> QED BY <1>12, <3>1, InCallIs
    <2> QED BY <1>1, <1>2, <1>3, <1>12, <2>2, <2>3, <2>4, HandedOn DEF Labels
  <1>13. \/ Rest # <<>> /\ call' = [call EXCEPT !.todo = Rest, !.page = s] /\ pc' = "find"
         \/ call.op = "read_buff_page" /\ call' = [call EXCEPT !["page"] = s] /\ pc' = "page"
         \/ call.op = "read_buff_ahead" /\ pc' = "reading" /\ UNCHANGED call
    BY DEF collect, Set, Goto, s
  <1> QED BY <1>10, <1>11, <1>12, <1>13

LEMMA PagePut ==
    ASSUME IInv, page_put
    PROVE  IInv'
  <1> DEFINE b == Head(call.page)
             t == Tail(call.page)
             n == Len(call.page)
  <1>1. /\ pc = "page" /\ Unhold(b) /\ UNCHANGED <<block, bufVars, queues, refs, leaked>>
        /\ \/ t = <<>> /\ call' = NoCall /\ pc' = "idle"
           \/ t # <<>> /\ call' = [call EXCEPT !["page"] = t] /\ UNCHANGED pc
    BY DEF page_put, Return, Set, Goto
  <1>2. call \in CallType /\ call.op = "read_buff_page" /\ n \in 1..2 /\ call.page \in Seq(Buffers)
    BY <1>1, Facts, CallFields DEF CallOK
  <1>3. b \in Buffers /\ t \in Seq(Buffers) /\ Len(t) = n - 1
    <2>1. call.page = <<>> => n = 0
      BY EmptySeq
    <2>2. call.page # <<>>
      <3> HIDE DEF n
      <3>1. n \in 1..2 => n # 0
        OBVIOUS
      <3> QED BY <1>2, <2>1, <3>1
    <2> QED BY <1>2, <2>2, HeadTailProperties
  <1>4. \A c : Occurs(call.page, c) = Occurs(t, c) + Is(b, c)
    BY <1>2, PageCounts
  <1> HIDE DEF b, t, n
  <1>5. Len(t) \in 0..1 /\ \A c : Occurs(t, c) \in 0..1
    <2>1. Len(t) \in 0..1
      BY <1>2, <1>3
    <2> QED BY <1>3, <2>1, PageCounts
  <1>6. \A c : InCall(c) = Occurs(t, c) + Is(b, c)
    <2>1. \A c : Extra(c) = 0
      BY <1>1 DEF Extra
    <2>2. \A c : Is(b, c) \in {0, 1}
      BY DEF Is
    <2> QED BY <1>4, <1>5, <2>1, <2>2, InCallIs
  <1>7. /\ b_count \in [Buffers -> 0..255]
        /\ \A c \in Buffers : b_count[c] = refs[c] + leaked[c] + (Occurs(t, c) + Is(b, c))
        /\ \A c \in Buffers : refs[c] \in Nat /\ leaked[c] \in Nat
    BY <1>6, Facts, CacheAssumption DEF Counts
  <1>8. b_count' = [b_count EXCEPT ![b] = b_count[b] - 1] /\ b_count' \in [Buffers -> 0..255]
    <2>1. b_count[b] \in 1..255
      <3>1. Is(b, b) = 1 /\ Occurs(t, b) \in 0..1
        BY <1>5 DEF Is
      <3>2. /\ b_count[b] \in 0..255 /\ refs[b] \in Nat /\ leaked[b] \in Nat
            /\ b_count[b] = refs[b] + leaked[b] + (Occurs(t, b) + Is(b, b))
        BY <1>3, <1>7
      <3> QED BY <3>1, <3>2
    <2>2. (b_count[b] + 255) % 256 = b_count[b] - 1 /\ b_count[b] - 1 \in 0..255
      BY <2>1, Bytes
    <2>3. b_count' = [b_count EXCEPT ![b] = b_count[b] - 1]
      BY <1>1, <1>3, <1>7, <2>2 DEF Unhold
    <2> QED BY <1>3, <1>7, <2>2, <2>3
  <1>9. \A c \in Buffers : b_count'[c] = refs[c] + leaked[c] + Occurs(t, c)
    <2>1. ASSUME NEW c \in Buffers, c = b PROVE b_count'[c] = refs[c] + leaked[c] + Occurs(t, c)
      <3>1. Is(b, c) = 1 /\ Occurs(t, c) \in 0..1
        BY <1>5, <2>1 DEF Is
      <3>2. /\ b_count[c] \in 0..255 /\ refs[c] \in Nat /\ leaked[c] \in Nat
            /\ b_count[c] = refs[c] + leaked[c] + (Occurs(t, c) + Is(b, c))
        BY <1>7
      <3>3. b_count'[c] = b_count[c] - 1
        BY <1>3, <1>7, <1>8, <2>1
      <3> QED BY <3>1, <3>2, <3>3
    <2>2. ASSUME NEW c \in Buffers, c # b PROVE b_count'[c] = refs[c] + leaked[c] + Occurs(t, c)
      <3>1. Is(b, c) = 0 /\ Occurs(t, c) \in 0..1
        BY <1>5, <2>2 DEF Is
      <3>2. /\ b_count[c] \in 0..255 /\ refs[c] \in Nat /\ leaked[c] \in Nat
            /\ b_count[c] = refs[c] + leaked[c] + (Occurs(t, c) + Is(b, c))
        BY <1>7
      <3>3. b_count'[c] = b_count[c]
        BY <1>3, <1>7, <1>8, <2>2
      <3> QED BY <3>1, <3>2, <3>3
    <2> QED BY <2>1, <2>2
  <1>10. CASE t = <<>> /\ call' = NoCall /\ pc' = "idle"
    <2>1. \A c : Occurs(t, c) = 0
      BY <1>10, PageCounts
    <2>2. \A c \in Buffers : b_count'[c] = refs[c] + leaked[c]
      BY <1>7, <1>9, <2>1
    <2> QED BY <1>1, <1>8, <1>10, <2>2, Facts, ReturnStep DEF bufVars
  <1>11. CASE t # <<>> /\ call' = [call EXCEPT !["page"] = t] /\ UNCHANGED pc
    <2>1. call' \in CallType /\ call'.op = call.op /\ call'.page = t
      BY <1>2, <1>3, <1>11 DEF CallType
    <2>2. TypeOK'
      BY <1>1, <1>8, <1>11, <2>1, Facts, TypeKept DEF bufVars
    <2>3. CallOK'
      <3>1. Len(t) # 0
        BY <1>3, <1>11, EmptySeq
      <3>2. Len(t) \in 1..2
        BY <1>5, <3>1
      <3> QED BY <1>1, <1>2, <1>11, <2>1, <3>2 DEF CallOK
    <2>4. Room'
      BY <1>2, <2>1 DEF Room
    <2>5. Counts'
      <3>1. \A c : Extra(c)' = 0
        BY <1>1, <1>11 DEF Extra
      <3>2. \A c : InCall(c)' = Occurs(t, c)
        BY <1>5, <2>1, <3>1, InCallIs
      <3> QED BY <1>1, <1>9, <3>2 DEF Counts
    <2>6. Lists'
      BY <1>1, Facts, ListsKept
    <2> QED BY <2>2, <2>3, <2>4, <2>5, <2>6, Together
  <1> QED BY <1>1, <1>10, <1>11

LEMMA Ahead ==
    ASSUME IInv, ahead
    PROVE  IInv'
  <1> DEFINE p == call.page[1]
  <1>1. /\ Got("read_buff_ahead") /\ call.page # <<>> /\ pc' = "reading" /\ Unhold(bh)
        /\ call' = [call EXCEPT !["bh"] = Head(call.page)]
        /\ ll_rw_block("READ", bh) \/ UNCHANGED bufVars
        /\ UNCHANGED <<block, queues, refs, leaked>>
    BY DEF ahead, Set, Goto
  <1>2. /\ pc = "got" /\ call.op = "read_buff_ahead" /\ Asks /\ call \in CallType /\ bh \in Buffers
    BY <1>1, GotFacts
  <1>3. call.page \in Seq(Buffers) /\ Len(call.page) = 1
    BY <1>1, <1>2, AsksFacts, CallFields DEF NoPage
  <1>4. p \in Buffers /\ Head(call.page) = p
    BY <1>1, <1>3, HeadTailProperties, ElementOfSeq
  <1> HIDE DEF p
  <1>5. /\ call' \in CallType /\ call'.bh = p /\ Same
    BY <1>1, <1>2, <1>4, FieldSet, Sizes DEF Same
  <1>6. \A c : /\ InCall(c) = Is(p, c) + Is(bh, c)
               /\ InCall(c)' = Is(p, c)
    <2>1. \A c : Extra(c) = Is(bh, c)
      BY <1>2 DEF Extra, Is
    <2>2. \A c : Occurs(call.page, c) = Is(p, c)
      BY <1>3, PageCounts DEF p
    <2>3. \A c : Extra(c)' = 0
      BY <1>1, <1>5 DEF Extra, Same, bh, p
    <2>4. \A c : Is(p, c) \in {0, 1}
      BY DEF Is
    <2> QED BY <1>5, <2>1, <2>2, <2>3, <2>4, InCallIs DEF Same
  <1>7. /\ b_count \in [Buffers -> 0..255]
        /\ \A c \in Buffers : b_count[c] = refs[c] + leaked[c] + (Is(p, c) + Is(bh, c))
        /\ \A c \in Buffers : refs[c] \in Nat /\ leaked[c] \in Nat
    BY <1>6, Facts, CacheAssumption DEF Counts
  <1>8. b_count' = [b_count EXCEPT ![bh] = b_count[bh] - 1] /\ b_count' \in [Buffers -> 0..255]
    <2>1. b_count[bh] \in 1..255
      BY <1>2, <1>7 DEF Is
    <2>2. (b_count[bh] + 255) % 256 = b_count[bh] - 1 /\ b_count[bh] - 1 \in 0..255
      BY <2>1, Bytes
    <2>3. b_count' = [b_count EXCEPT ![bh] = b_count[bh] - 1]
      BY <1>1, <1>2, <1>7, <2>2 DEF Unhold
    <2> QED BY <1>2, <1>7, <2>2, <2>3
  <1>9. \A c \in Buffers : b_count'[c] = refs[c] + leaked[c] + Is(p, c)
    <2>1. ASSUME NEW c \in Buffers, c = bh PROVE b_count'[c] = refs[c] + leaked[c] + Is(p, c)
      BY <1>2, <1>7, <1>8, <2>1 DEF Is
    <2>2. ASSUME NEW c \in Buffers, c # bh PROVE b_count'[c] = refs[c] + leaked[c] + Is(p, c)
      BY <1>2, <1>7, <1>8, <2>2 DEF Is
    <2> QED BY <2>1, <2>2
  <1>10. /\ b_dirt' \in [Buffers -> Flag] /\ b_lock' \in [Buffers -> Flag]
         /\ b_uptodate' \in [Buffers -> Flag]
    BY <1>1, Facts DEF ll_rw_block, Flag, bufVars
  <1>11. TypeOK'
    BY <1>1, <1>5, <1>8, <1>10, Facts, TypeKept DEF Labels
  <1>12. CallOK'
    BY <1>1, <1>2, <1>4, <1>5, AsksKept, Sizes DEF CallOK, bh, Same, NoPage, p
  <1>13. Room'
    BY <1>1, <1>5, Facts, RoomKept DEF Same
  <1>14. Counts'
    BY <1>1, <1>6, <1>9 DEF Counts
  <1>15. Lists'
    BY <1>1, Facts, ListsKept
  <1> QED BY <1>11, <1>12, <1>13, <1>14, <1>15, Together

(* Only new_buff changes which block a buffer holds, and the pointers. *)
LEMMA OtherSteps ==
    ASSUME Next, ~new_take
    PROVE  UNCHANGED <<block, queues>>
  <1>1. CASE starts
    BY <1>1 DEF starts, start_read_buff, start_read_buff_page, start_read_buff_ahead,
       start_create_block, start_invalidate_buff, start_sync_dev, start_invalidate_buffs,
       Start, StartLoop, put_buff, modify
  <1>2. CASE get_buff
    BY <1>2 DEF get_buff, retain_find, retain_buff, scan_step, new_check
  <1>3. CASE loops
    BY <1>3 DEF loops, sync_skip, sync_write, invalidate_skip, invalidate_drop, loop_end
  <1>4. CASE uses
    BY <1>4 DEF uses, read_buff_cached, read_buff_submit, read_buff_end, collect, page_put, ahead,
       create_block, create_block_panic, invalidate_buff, invalidate_buff_in_use
  <1>5. CASE halted \/ \E b \in Buffers : end_request(b)
    BY <1>5 DEF halted, vars, end_request
  <1> QED BY <1>1, <1>2, <1>3, <1>4, <1>5 DEF Next, main_steps

LEMMA NextInv ==
    ASSUME IInv, [Next]_vars
    PROVE  IInv'
  <1>1. CASE starts
    <2>1. CASE \E b \in Buffers : put_buff(b)
      BY <2>1, PutStep
    <2>2. CASE \E b \in Buffers : modify(b)
      BY <2>2, FlagSteps
    <2> QED BY <1>1, <2>1, <2>2, StartsStep, LoopsStart DEF starts
  <1>2. CASE get_buff
    BY <1>2, RetainFind, RetainBuff, ScanStep, NewCheck, NewTake DEF get_buff
  <1>3. CASE loops
    BY <1>3, LoopSteps, LoopEnd DEF loops
  <1>4. CASE uses
    BY <1>4, ReadBuffCached, ReadBuffSubmit, ReadBuffEnd, Collect, PagePut, Ahead,
       CreateAndInvalidate, CreateBlockPanic DEF uses
  <1>5. CASE \E b \in Buffers : end_request(b)
    BY <1>5, FlagSteps
  <1>6. CASE UNCHANGED vars
    <2>1. /\ UNCHANGED <<block, b_count, b_dirt, b_lock, b_uptodate, queues, refs, leaked, call, pc>>
      BY <1>6 DEF vars
    <2>2. pc = "take" => b_lock[bh] = 0
      BY Facts DEF CallOK
    <2> QED BY <2>1, <2>2, Facts, FlagStep
  <1> QED BY <1>1, <1>2, <1>3, <1>4, <1>5, <1>6 DEF Next, main_steps, halted

-----------------------------------------------------------------------------
(* The inductive invariant: besides the properties below, where main is in *)
(* its call and what it knows there.                                       *)
THEOREM Invariant == Spec => []IInv
<1>1. IInv /\ [Next]_vars => IInv'
  BY NextInv
<1> QED BY <1>1, InitInv, PTL DEF Spec

(* Every b_count is the number of references there are, after any number   *)
(* of get_buff, put_buff, read_buff and early returns, and fits its byte.  *)
THEOREM ReferenceCounts == Spec => []CountsReferences
<1>1. IInv => CountsReferences
  BY DEF IInv, Counts, CountsReferences
<1> QED BY <1>1, Invariant, PTL

(* No two buffers hold the same block, although new_buff sleeps between    *)
(* looking for the block and taking a buffer for it.                       *)
THEOREM OneBuffer == Spec => []OneCopy
<1>1. IInv => OneCopy
  BY DEF IInv
<1> QED BY <1>1, Invariant, PTL

(* The hash chains and the circular list stay whole under every removal    *)
(* and insertion, for any number of buffers and buckets.                   *)
THEOREM WholeLists == Spec => []ListsIntact
<1>1. IInv => ListsIntact
  BY ChainsHold, RingHolds DEF IInv, ListsIntact
<1> QED BY <1>1, Invariant, PTL

(* new_buff gives a buffer to another block only when nobody uses it, no   *)
(* transfer is under way and nothing is unwritten.                         *)
THEOREM IdleBuffers == Spec => TakesIdleBuffers
<1> DEFINE Idle == \A b \in Buffers : block'[b] # block[b] =>
                       b_count[b] = 0 /\ refs[b] = 0 /\ b_lock[b] = 0 /\ b_dirt[b] = 0
<1>1. IInv /\ [Next]_vars => [Idle]_vars
  <2> SUFFICES ASSUME IInv, Next PROVE Idle
    OBVIOUS
  <2>1. CASE new_take
    <3>1. /\ pc = "take" /\ Asks /\ call.bh # NULL /\ bh \in Buffers
          /\ b_count[bh] = 0 /\ b_dirt[bh] = 0 /\ b_lock[bh] = 0
      BY <2>1, Facts, CallFields DEF new_take, CallOK, bh
    <3>2. block' = [block EXCEPT ![bh] = Wanted]
      BY <2>1 DEF new_take
    <3>3. refs[bh] = 0
      <4>1. b_count[bh] = refs[bh] + leaked[bh] + InCall(bh) /\ InCall(bh) \in 0..1
        BY <3>1, AskingHolds DEF Busy
      <4>2. refs[bh] \in Nat /\ leaked[bh] \in Nat
        BY <3>1, Facts, CacheAssumption
      <4> QED BY <3>1, <4>1, <4>2
    <3> QED BY <3>1, <3>2, <3>3, Facts
  <2>2. CASE ~new_take
    BY <2>2, OtherSteps
  <2> QED BY <2>1, <2>2
<1> QED BY <1>1, Invariant, PTL DEF Spec, TakesIdleBuffers

-----------------------------------------------------------------------------
(* The cache implements the map of BufferPool. *)

(* A ring is a sequence of buffers, and moving the p-th to the end is what *)
(* the pool says it is.                                                    *)
LEMMA OrderIsSequence ==
    ASSUME NEW ord, IsOrder(ord)
    PROVE  /\ ord \in Seq(Buffers) /\ Len(ord) = NR_BUFFERS /\ DOMAIN ord = Buffers
           /\ ord \in SetToSeqs(Buffers)
  <1>1. /\ ord \in [Buffers -> Buffers] /\ \A m, n \in Buffers : ord[m] = ord[n] => m = n
    BY DEF IsOrder
  <1>2. Buffers = 1..NR_BUFFERS /\ NR_BUFFERS \in Nat
    BY Sizes
  <1>3. ord \in Seq(Buffers) /\ Len(ord) = NR_BUFFERS /\ DOMAIN ord = Buffers
    BY <1>1, <1>2
  <1>4. Cardinality(1..NR_BUFFERS) = NR_BUFFERS
    <2>1. Cardinality(1..NR_BUFFERS) = IF 1 > NR_BUFFERS THEN 0 ELSE NR_BUFFERS - 1 + 1
      BY <1>2, FS_Interval
    <2> QED BY <2>1, Sizes
  <1>5. ord \in SetToSeqs(Buffers)
    BY <1>1, <1>2, <1>4 DEF SetToSeqs
  <1> QED BY <1>3, <1>5

LEMMA MoveLastIs ==
    ASSUME NEW ord, IsOrder(ord), NEW p \in Buffers
    PROVE  MoveLast(ord, p) = Append(RemoveAt(ord, p), ord[p])
  <1> DEFINE N == NR_BUFFERS
             s == SubSeq(ord, 1, p - 1)
             t == SubSeq(ord, p + 1, N)
             u == s \o t
             v == Append(u, ord[p])
  <1>1. /\ N \in Nat /\ N >= 1 /\ Buffers = 1..N /\ p \in 1..N
        /\ ord \in [Buffers -> Buffers] /\ Len(ord) = N
    BY Sizes, OrderIsSequence DEF IsOrder
  <1>2. /\ s \in Seq(Buffers) /\ Len(s) = p - 1
        /\ \A i \in 1..(p - 1) : s[i] = ord[i]
    <2>1. /\ 1 \in Int /\ p - 1 \in Int /\ \A i \in 1..(p - 1) : ord[i] \in Buffers
      BY <1>1
    <2>2. /\ SubSeq(ord, 1, p - 1) \in Seq(Buffers)
          /\ Len(SubSeq(ord, 1, p - 1)) = IF 1 <= p - 1 THEN p - 1 - 1 + 1 ELSE 0
          /\ \A i \in 1..(p - 1 - 1 + 1) : SubSeq(ord, 1, p - 1)[i] = ord[1 + i - 1]
      BY <2>1, SubSeqProperties
    <2> HIDE DEF N
    <2>3. p - 1 - 1 + 1 = p - 1 /\ (~(1 <= p - 1) => p - 1 = 0) /\ \A i \in 1..(p - 1) : 1 + i - 1 = i
      BY <1>1
    <2> QED BY <2>2, <2>3
  <1>3. /\ t \in Seq(Buffers) /\ Len(t) = N - p
        /\ \A i \in 1..(N - p) : t[i] = ord[p + i]
    <2>1. /\ p + 1 \in Int /\ N \in Int /\ \A i \in (p + 1)..N : ord[i] \in Buffers
      BY <1>1
    <2>2. /\ SubSeq(ord, p + 1, N) \in Seq(Buffers)
          /\ Len(SubSeq(ord, p + 1, N)) = IF p + 1 <= N THEN N - (p + 1) + 1 ELSE 0
          /\ \A i \in 1..(N - (p + 1) + 1) : SubSeq(ord, p + 1, N)[i] = ord[p + 1 + i - 1]
      BY <2>1, SubSeqProperties
    <2>3. /\ N - (p + 1) + 1 = N - p /\ (~(p + 1 <= N) => N - p = 0)
          /\ \A i \in 1..(N - p) : p + 1 + i - 1 = p + i
      BY <1>1
    <2> HIDE DEF N
    <2> QED BY <2>2, <2>3
  <1> HIDE DEF s, t, N
  <1>4. /\ u \in Seq(Buffers) /\ Len(u) = N - 1
        /\ \A i \in 1..(N - 1) : u[i] = IF i <= p - 1 THEN s[i] ELSE t[i - (p - 1)]
    <2>1. /\ u \in Seq(Buffers) /\ Len(u) = Len(s) + Len(t)
          /\ \A i \in 1..(Len(s) + Len(t)) : u[i] = IF i <= Len(s) THEN s[i] ELSE t[i - Len(s)]
      BY <1>2, <1>3, ConcatProperties
    <2>2. (p - 1) + (N - p) = N - 1
      BY <1>1
    <2> HIDE DEF u
    <2> QED BY <1>2, <1>3, <2>1, <2>2
  <1> HIDE DEF u
  <1>5. /\ v \in Seq(Buffers) /\ Len(v) = N /\ v[N] = ord[p]
        /\ \A i \in 1..(N - 1) : v[i] = u[i]
    <2>1. /\ v \in Seq(Buffers) /\ Len(v) = Len(u) + 1 /\ v[Len(u) + 1] = ord[p]
          /\ \A i \in 1..Len(u) : v[i] = u[i]
      <3>1. ord[p] \in Buffers
        BY <1>1
      <3> QED BY <1>4, <3>1, AppendProperties
    <2>2. N - 1 + 1 = N
      BY <1>1
    <2> HIDE DEF v
    <2> QED BY <1>4, <2>1, <2>2
  <1> HIDE DEF v
  <1>6. ASSUME NEW i \in 1..N
        PROVE  v[i] = IF i < p THEN ord[i] ELSE IF i < N THEN ord[i + 1] ELSE ord[p]
    <2>1. CASE i < p
      <3>1. i \in 1..(N - 1) /\ i <= p - 1 /\ i \in 1..(p - 1)
        BY <1>1, <2>1
      <3> QED BY <1>2, <1>4, <1>5, <2>1, <3>1
    <2>2. CASE ~(i < p) /\ i < N
      <3>1. i \in 1..(N - 1) /\ ~(i <= p - 1) /\ i - (p - 1) \in 1..(N - p) /\ p + (i - (p - 1)) = i + 1
        BY <1>1, <2>2
      <3> QED BY <1>3, <1>4, <1>5, <2>2, <3>1
    <2>3. CASE ~(i < p) /\ ~(i < N)
      <3>1. i = N
        BY <1>1, <2>3
      <3> QED BY <1>5, <2>3, <3>1
    <2> QED BY <2>1, <2>2, <2>3
  <1>7. v = [i \in 1..N |-> v[i]]
    BY <1>5
  <1>8. MoveLast(ord, p) = v
    BY <1>1, <1>6, <1>7 DEF MoveLast, N
  <1>9. RemoveAt(ord, p) = u
    BY <1>1 DEF RemoveAt, s, t, u
  <1> QED BY <1>8, <1>9 DEF v

LEMMA PoolInit == Init => Pool!Init
  <1> SUFFICES ASSUME Init PROVE Pool!Init
    OBVIOUS
  <1>1. PICK ord : IsRing(queues, ord)
    BY InitInv DEF IInv, RingOK
  <1>2. RingOrder = ord /\ IsOrder(ord)
    BY <1>1, WalkIs, RingOrderIs DEF IsRing
  <1>3. RingOrder \in SetToSeqs(Buffers)
    BY <1>2, OrderIsSequence
  <1>4. \A S : Pool!Cardinality(S) = Cardinality(S)
    BY DEF Cardinality, Pool!Cardinality
  <1>5. Pool!SetToSeqs(Buffers) = SetToSeqs(Buffers)
    BY <1>4 DEF SetToSeqs, Pool!SetToSeqs
  <1> QED BY <1>3, <1>5 DEF Init, Pool!Init

(* The three ways in which the abstract state changes. *)
LEMMA PoolHit ==
    ASSUME IInv, retain_buff
    PROVE  Pool!Next
  <1>1. /\ pc = "retain" /\ Asks /\ bh \in Buffers /\ block[bh] = Wanted
    BY Facts, CallFields DEF retain_buff, CallOK, bh
  <1>2. /\ b_count' = [b_count EXCEPT ![bh] = (@ + 1) % 256]
        /\ UNCHANGED <<block, queues>>
    BY <1>1 DEF retain_buff, Goto
  <1>3. (b_count[bh] + 1) % 256 = b_count[bh] + 1
    <2>1. b_count[bh] \in 0..254
      BY <1>1, AskingHolds, Facts DEF Busy
    <2> QED BY <2>1, Bytes
  <1>4. b_count' = [b_count EXCEPT ![bh] = @ + 1]
    BY <1>2, <1>3
  <1>5. RingOrder' = RingOrder
    BY <1>2, RingOrderIs
  <1>6. Wanted \in Blocks
    BY <1>1, Facts, AsksFacts
  <1>7. Pool!Hit(Wanted)
    BY <1>1, <1>2, <1>4, <1>5 DEF Pool!Hit
  <1> QED BY <1>6, <1>7 DEF Pool!Next

LEMMA PoolMiss ==
    ASSUME IInv, new_take
    PROVE  Pool!Next
  <1>1. /\ pc = "take" /\ Asks /\ bh \in Buffers /\ b_count[bh] = 0
        /\ \A b \in Buffers : block[b] # Wanted
    BY Facts, CallFields DEF new_take, CallOK, bh
  <1>2. /\ b_count' = [b_count EXCEPT ![bh] = 1]
        /\ queues' = Moved(queues, bh, Wanted) /\ block' = [block EXCEPT ![bh] = Wanted]
    BY DEF new_take, Moved
  <1>3. Wanted \in Blocks
    BY <1>1, Facts, AsksFacts
  <1>4. PICK ord : IsRing(queues, ord)
    BY Facts DEF Lists, RingOK
  <1>5. PICK p \in Buffers : ord[p] = bh
    BY <1>1, <1>4 DEF IsRing, IsOrder
  <1>6. IsOrder(ord) /\ RingOrder = ord
    BY <1>4, WalkIs, RingOrderIs DEF IsRing
  <1>7. IsRing(queues', MoveLast(ord, p))
    BY <1>1, <1>2, <1>3, <1>4, <1>5, Facts, RingMoves
  <1>8. RingOrder' = MoveLast(ord, p)
    BY <1>7, WalkIs, RingOrderIs
  <1>9. RingOrder' = Append(Pool!RemoveAt(RingOrder, p), RingOrder[p])
    BY <1>6, <1>8, MoveLastIs DEF RemoveAt, Pool!RemoveAt
  <1>10. p \in DOMAIN RingOrder /\ RingOrder[p] = bh
    BY <1>5, <1>6, OrderIsSequence
  <1>11. ~Pool!Cached(Wanted)
    BY <1>1 DEF Pool!Cached
  <1>12. Pool!Miss(Wanted)
    BY <1>1, <1>2, <1>9, <1>10, <1>11 DEF Pool!Miss
  <1> QED BY <1>3, <1>12 DEF Pool!Next

LEMMA PoolPut ==
    ASSUME IInv, NEW b \in Buffers, b_count[b] > 0, Unhold(b), UNCHANGED <<block, queues>>
    PROVE  Pool!Next
  <1>1. b_count' = [b_count EXCEPT ![b] = @ - 1]
    <2>1. b_count \in [Buffers -> 0..255]
      BY Facts
    <2>2. b_count[b] \in 1..255
      BY <2>1
    <2>3. (b_count[b] + 255) % 256 = b_count[b] - 1
      BY <2>2, Bytes
    <2> QED BY <2>3 DEF Unhold
  <1>2. RingOrder' = RingOrder
    BY RingOrderIs
  <1>3. Pool!Put(b)
    BY <1>1, <1>2 DEF Pool!Put
  <1> QED BY <1>3 DEF Pool!Next

(* Any other step keeps the counts or gives back a reference the call or   *)
(* its caller has.                                                         *)
LEMMA CountSteps ==
    ASSUME IInv, Next, ~retain_buff, ~new_take
    PROVE  \/ UNCHANGED b_count
           \/ \E b \in Buffers : b_count[b] > 0 /\ Unhold(b)
  <1>0. \A b \in Buffers : /\ b_count[b] \in Nat /\ refs[b] \in Nat /\ leaked[b] \in Nat
                           /\ b_count[b] = refs[b] + leaked[b] + InCall(b)
    BY Facts, CacheAssumption DEF Counts
  <1>1. CASE starts
    <2>1. ASSUME NEW b \in Buffers, put_buff(b)
          PROVE  b_count[b] > 0 /\ Unhold(b)
      <3>1. refs[b] > 0 /\ Unhold(b) /\ pc = "idle"
        BY <2>1 DEF put_buff, Unhold, AtRest
      <3>2. InCall(b) = 0
        BY <3>1, Facts, NoCallFields, InCallIs, PageCounts DEF CallOK, Extra
      <3> QED BY <1>0, <3>1, <3>2
    <2>2. \/ UNCHANGED b_count
          \/ \E b \in Buffers : put_buff(b)
      BY <1>1 DEF starts, start_read_buff, start_read_buff_page, start_read_buff_ahead,
         start_create_block, start_invalidate_buff, start_sync_dev, start_invalidate_buffs,
         Start, StartLoop, modify
    <2> QED BY <2>1, <2>2
  <1>2. CASE get_buff
    BY <1>2 DEF get_buff, retain_find, scan_step, new_check
  <1>3. CASE loops
    BY <1>3 DEF loops, sync_skip, sync_write, invalidate_skip, invalidate_drop, loop_end
  <1>4. CASE uses
    <2>1. CASE read_buff_end
      <3>1. pc = "reading" /\ (UNCHANGED b_count \/ Unhold(bh))
        BY <2>1 DEF read_buff_end
      <3>2. bh \in Buffers /\ b_count[bh] = refs[bh] + leaked[bh] + Is(bh, bh) /\ Is(bh, bh) = 1
        BY <3>1, Holding DEF HoldsOne, Is
      <3>3. b_count[bh] > 0
        BY <1>0, <3>2
      <3> QED BY <3>1, <3>2, <3>3
    <2>2. CASE page_put
      <3> DEFINE b == Head(call.page)
      <3>1. pc = "page" /\ Unhold(b)
        BY <2>2 DEF page_put
      <3>2. call.page \in Seq(Buffers) /\ Len(call.page) \in 1..2
        BY <3>1, Facts, CallFields DEF CallOK
      <3>3. call.page # <<>>
        <4> DEFINE n == Len(call.page)
        <4>1. (call.page = <<>> => n = 0) /\ n \in 1..2
          BY <3>2, EmptySeq
        <4> HIDE DEF n
        <4>2. n # 0
          BY <4>1
        <4> QED BY <4>1, <4>2
      <3>4. b \in Buffers /\ Tail(call.page) \in Seq(Buffers)
        BY <3>2, <3>3, HeadTailProperties
      <3>5. InCall(b) = Occurs(Tail(call.page), b) + Is(b, b) /\ Is(b, b) = 1
        <4>1. Extra(b) = 0 /\ InCall(b) = Occurs(call.page, b) + Extra(b) /\ Is(b, b) = 1
          BY <3>1, InCallIs DEF Extra, Is
        <4>2. Occurs(call.page, b) = Occurs(Tail(call.page), b) + Is(b, b)
          BY <3>2, PageCounts
        <4>3. Occurs(call.page, b) \in 0..2
          <5> DEFINE n == Len(call.page)
          <5>2. n \in 1..2
            BY <3>2
          <5> HIDE DEF n
          <5>3. n <= 2
            BY <5>2
          <5>1. Len(call.page) <= 2
            BY <5>3 DEF n
          <5> QED BY <3>2, <5>1, PageCounts
        <4> HIDE DEF b
        <4> QED BY <4>1, <4>2, <4>3
      <3>6. Occurs(Tail(call.page), b) \in 0..2
        <4> DEFINE n == Len(call.page)
                   m == Len(Tail(call.page))
        <4>1. m = n - 1 /\ n \in 1..2
          BY <3>2, <3>3, HeadTailProperties
        <4> HIDE DEF n, m
        <4>2. m <= 2
          BY <4>1
        <4> QED BY <3>4, <4>2, PageCounts DEF m
      <3> HIDE DEF b
      <3>7. b_count[b] > 0
        <4>1. /\ b_count[b] = refs[b] + leaked[b] + InCall(b)
              /\ refs[b] \in Nat /\ leaked[b] \in Nat
          BY <1>0, <3>4
        <4> QED BY <3>5, <3>6, <4>1
      <3> QED BY <3>1, <3>4, <3>7
    <2>3. CASE ahead \/ create_block \/ invalidate_buff
      <3>1. PICK op \in {"read_buff_ahead", "create_block", "invalidate_buff"} : Got(op)
        BY <2>3 DEF ahead, create_block, invalidate_buff
      <3>2. pc = "got" /\ bh \in Buffers /\ Unhold(bh) /\ call.page \in Seq(Buffers) /\ Asks
            /\ call \in CallType
        BY <2>3, <3>1, GotFacts, CallFields DEF ahead, create_block, invalidate_buff
      <3>3. InCall(bh) = Occurs(call.page, bh) + 1
        BY <3>2, InCallIs DEF Extra
      <3>4. Occurs(call.page, bh) \in 0..1
        <4>1. call.page = <<>> \/ Len(call.page) = 1
          BY <3>2, AsksFacts DEF NoPage
        <4>2. CASE call.page = <<>>
          BY <4>2, PageCounts
        <4>3. CASE Len(call.page) = 1
          BY <3>2, <4>3, PageCounts DEF Is
        <4> QED BY <4>1, <4>2, <4>3
      <3>5. b_count[bh] > 0
        <4>1. /\ b_count[bh] = refs[bh] + leaked[bh] + InCall(bh)
              /\ refs[bh] \in Nat /\ leaked[bh] \in Nat
          BY <1>0, <3>2
        <4> QED BY <3>3, <3>4, <4>1
      <3> QED BY <3>2, <3>5
    <2> QED BY <1>4, <2>1, <2>2, <2>3 DEF uses, read_buff_cached, read_buff_submit, collect,
               create_block_panic, invalidate_buff_in_use
  <1>5. CASE halted \/ \E b \in Buffers : end_request(b)
    BY <1>5 DEF halted, vars, end_request
  <1> QED BY <1>1, <1>2, <1>3, <1>4, <1>5 DEF Next, main_steps

LEMMA PoolStep ==
    ASSUME IInv, [Next]_vars
    PROVE  [Pool!Next]_Pool!vars
  <1>1. CASE Next /\ ~retain_buff /\ ~new_take
    <2>1. UNCHANGED <<block, queues>>
      BY <1>1, OtherSteps
    <2>2. RingOrder' = RingOrder
      BY <2>1, RingOrderIs
    <2>3. CASE UNCHANGED b_count
      BY <2>1, <2>2, <2>3 DEF Pool!vars
    <2> QED BY <1>1, <2>1, <2>3, CountSteps, PoolPut
  <1>2. CASE UNCHANGED vars
    <2>1. UNCHANGED <<block, queues, b_count>>
      BY <1>2 DEF vars
    <2>2. RingOrder' = RingOrder
      BY <2>1, RingOrderIs
    <2> QED BY <2>1, <2>2 DEF Pool!vars
  <1> QED BY <1>1, <1>2, PoolHit, PoolMiss

(* The hash chains, the circular list and the waits of get_buff implement  *)
(* the map from blocks to counted buffers that the callers see.            *)
THEOREM IsPool == Spec => ImplementsPool
<1>1. IInv /\ [Next]_vars => [Pool!Next]_Pool!vars
  BY PoolStep
<1> QED BY <1>1, PoolInit, Invariant, PTL DEF Spec, ImplementsPool, Pool!Spec

=============================================================================
