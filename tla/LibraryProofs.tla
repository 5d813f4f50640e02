--------------------------- MODULE LibraryProofs ----------------------------
(***************************************************************************)
(* What programs are promised by their library: the blocks of malloc, the  *)
(* streams of stdio and what Vector, string and function keep, for every   *)
(* size of the heap, of a block and of its header, and for every number of *)
(* streams, descriptors, buffers and objects.                              *)
(***************************************************************************)
EXTENDS UserHeap, Stdio, Containers, SequenceLemmas, FiniteSetTheorems

(***************************************************************************)
(* A list of blocks: it fills the heap without a gap, and what of it is in *)
(* use.                                                                    *)
(***************************************************************************)
MallocBlock == [addr : Nat, size : Nat, free : BOOLEAN]

EndOf(b) == b.addr + BlockHeader + b.size

Filled(l) ==
  /\ l \in Seq(MallocBlock) /\ Len(l) > 0
  /\ l[1].addr = ImageEnd + ListHeader /\ EndOf(l[Len(l)]) = HeapMax
  /\ \A i \in 1..(Len(l) - 1) : EndOf(l[i]) = l[i + 1].addr

\* Only the blocks i and i + 1 may both be free.
JoinedBut(l, i) == \A k \in 1..(Len(l) - 1) : k = i \/ ~l[k].free \/ ~l[k + 1].free

Joined(l) == JoinedBut(l, 0)

UsedBlocks(l) == {[addr |-> l[i].addr, size |-> l[i].size] : i \in {k \in 1..Len(l) : ~l[k].free}}

Owned(l, held) ==
  /\ \A p \in held : \E u \in UsedBlocks(l) :
       u.addr = p.addr /\ (p.size + Align <= WordSize => u.size >= p.size)
  /\ \A p, q \in held : p.addr = q.addr => p = q
  /\ \A u \in UsedBlocks(l) : \E p \in held : p.addr = u.addr

UserHeapInv ==
  /\ heap_end \in ImageEnd..HeapMax /\ g_heap \in BOOLEAN
  /\ pointers \subseteq [addr : Nat, size : 0..(WordSize - 1)]
  /\ ~g_heap => list = <<>> /\ pointers = {}
  /\ g_heap => Filled(list) /\ Joined(list) /\ Owned(list, pointers)
  /\ overrun # 0 => overrun + Align > WordSize

LEMMA HeapNumbers ==
    /\ ImageEnd \in Nat /\ ReservedSize \in Nat /\ ListHeader \in Nat /\ MinSize \in Nat
    /\ WordSize \in Nat /\ WordSize > 0 /\ BlockHeader \in Nat /\ BlockHeader > 0
    /\ Align \in Nat /\ Align > 0
    /\ MinSize + Align <= WordSize /\ ListHeader + BlockHeader <= ReservedSize
    /\ HeapMax \in Nat
BY UserHeapAssumption DEF HeapMax

LEMMA BlockOf ==
    ASSUME NEW l \in Seq(MallocBlock), NEW i \in 1..Len(l)
    PROVE  /\ l[i] \in MallocBlock
           /\ l[i].addr \in Nat /\ l[i].size \in Nat /\ l[i].free \in BOOLEAN
           /\ EndOf(l[i]) \in Nat /\ l[i].addr < EndOf(l[i])
<1>1. l[i] \in MallocBlock
  OBVIOUS
<1>2. l[i].addr \in Nat /\ l[i].size \in Nat /\ l[i].free \in BOOLEAN
  BY <1>1 DEF MallocBlock
<1> QED BY <1>1, <1>2, HeapNumbers DEF EndOf

LEMMA InAddressOrder ==
    ASSUME NEW l, Filled(l), NEW i \in 1..Len(l)
    PROVE  \A j \in 1..Len(l) : i < j => EndOf(l[i]) <= l[j].addr
<1> DEFINE n == Len(l) - i
           Good == {k \in 0..n : k = 0 \/ EndOf(l[i]) <= l[i + k].addr}
<1>1. l \in Seq(MallocBlock) /\ Len(l) \in Nat /\ n \in Nat
  BY DEF Filled
<1>2. 0 \in Good
  BY <1>1
<1>3. ASSUME NEW k \in 0..(n - 1), k \in Good PROVE k + 1 \in Good
  <2>1. i + k \in 1..(Len(l) - 1) /\ i + k \in 1..Len(l) /\ i + (k + 1) = (i + k) + 1 /\ k + 1 \in 0..n
    BY <1>1
  <2>2. EndOf(l[i + k]) = l[(i + k) + 1].addr
    BY <2>1 DEF Filled
  <2>3. /\ EndOf(l[i]) \in Nat /\ EndOf(l[i + k]) \in Nat /\ l[i + k].addr \in Nat
        /\ l[i + k].addr < EndOf(l[i + k])
    BY <1>1, <2>1, BlockOf
  <2>4. EndOf(l[i]) <= EndOf(l[i + k])
    <3>1. CASE k = 0
      BY <3>1, <2>3
    <3>2. CASE k # 0
      <4>1. EndOf(l[i]) <= l[i + k].addr
        BY <1>3, <3>2
      <4> QED BY <2>3, <4>1
    <3> QED BY <3>1, <3>2
  <2>5. EndOf(l[i]) <= l[i + (k + 1)].addr
    BY <2>1, <2>2, <2>4
  <2> QED BY <2>1, <2>5
<1> HIDE DEF Good
<1>4. \A k \in 0..n : k \in Good
  <2> HIDE DEF n
  <2> QED BY <1>1, <1>2, <1>3, IntervalInduction
<1>5. ASSUME NEW j \in 1..Len(l), i < j PROVE EndOf(l[i]) <= l[j].addr
  <2>1. j - i \in 0..n /\ j - i # 0 /\ i + (j - i) = j
    BY <1>1, <1>5
  <2>2. j - i \in Good
    BY <1>4, <2>1
  <2> QED BY <2>1, <2>2 DEF Good
<1> QED BY <1>5

LEMMA AddressesApart ==
    ASSUME NEW l, Filled(l), NEW i \in 1..Len(l), NEW j \in 1..Len(l), l[i].addr = l[j].addr
    PROVE  i = j
<1>1. l \in Seq(MallocBlock)
  BY DEF Filled
<1>2. l[i].addr \in Nat /\ l[j].addr \in Nat /\ EndOf(l[i]) \in Nat /\ EndOf(l[j]) \in Nat
      /\ l[i].addr < EndOf(l[i]) /\ l[j].addr < EndOf(l[j])
  BY <1>1, BlockOf
<1>3. /\ i < j => EndOf(l[i]) <= l[j].addr
      /\ j < i => EndOf(l[j]) <= l[i].addr
  BY InAddressOrder
<1>4. ~(i < j) /\ ~(j < i)
  BY <1>2, <1>3
<1> QED BY <1>4

LEMMA InsideTheHeap ==
    ASSUME NEW l, Filled(l), NEW i \in 1..Len(l)
    PROVE  EndOf(l[i]) <= HeapMax
<1>1. l \in Seq(MallocBlock) /\ Len(l) \in Nat /\ Len(l) \in 1..Len(l) /\ EndOf(l[Len(l)]) = HeapMax
  BY DEF Filled
<1>2. /\ EndOf(l[i]) \in Nat /\ EndOf(l[Len(l)]) \in Nat /\ l[Len(l)].addr \in Nat
      /\ l[Len(l)].addr < EndOf(l[Len(l)])
  BY <1>1, BlockOf
<1>3. CASE i = Len(l)
  BY <1>1, <1>2, <1>3
<1>4. CASE i < Len(l)
  <2>1. EndOf(l[i]) <= l[Len(l)].addr
    BY <1>1, <1>4, InAddressOrder
  <2> QED BY <1>1, <1>2, <2>1
<1> QED BY <1>1, <1>3, <1>4

-----------------------------------------------------------------------------
(***************************************************************************)
(* A block that is taken whole, or given back: its flag changes.           *)
(***************************************************************************)
Flagged(l, i, f) == [l EXCEPT ![i].free = f]

LEMMA FlagChanges ==
    ASSUME NEW l, Filled(l), NEW i \in 1..Len(l), NEW f \in BOOLEAN
    PROVE  LET m == Flagged(l, i, f) IN
           /\ Filled(m) /\ Len(m) = Len(l)
           /\ \A k \in 1..Len(l) : /\ m[k].addr = l[k].addr /\ m[k].size = l[k].size
                                   /\ m[k].free = IF k = i THEN f ELSE l[k].free
<1> DEFINE m == Flagged(l, i, f)
<1>1. l \in Seq(MallocBlock) /\ Len(l) \in Nat /\ Len(l) > 0
  BY DEF Filled
<1>2. m \in Seq(MallocBlock) /\ Len(m) = Len(l)
      /\ \A k \in 1..Len(l) : m[k] = IF k = i THEN [l[i] EXCEPT !.free = f] ELSE l[k]
  <2>1. [l[i] EXCEPT !.free = f] \in MallocBlock
    <3>1. l[i] \in MallocBlock
      BY <1>1
    <3> QED BY <3>1 DEF MallocBlock
  <2>2. m = [l EXCEPT ![i] = [l[i] EXCEPT !.free = f]]
    BY <1>1 DEF Flagged
  <2> QED BY <1>1, <2>1, <2>2
<1> HIDE DEF m
<1>3. ASSUME NEW k \in 1..Len(l)
      PROVE  /\ m[k].addr = l[k].addr /\ m[k].size = l[k].size
             /\ m[k].free = IF k = i THEN f ELSE l[k].free
  <2>1. l[k] \in MallocBlock
    BY <1>1
  <2> QED BY <1>2, <2>1 DEF MallocBlock
<1>4. \A k \in 1..Len(l) : EndOf(m[k]) = EndOf(l[k])
  BY <1>3 DEF EndOf
<1>5. 1 \in 1..Len(l) /\ Len(l) \in 1..Len(l) /\ \A k \in 1..(Len(l) - 1) : k \in 1..Len(l) /\ k + 1 \in 1..Len(l)
  BY <1>1
<1>6. Filled(m)
  BY <1>2, <1>3, <1>4, <1>5 DEF Filled
<1> QED BY <1>2, <1>3, <1>6 DEF m

\* r is q with e in front of its place j.
InsertedInto(q, j, e, r) ==
  /\ r \in Seq(MallocBlock) /\ Len(r) = Len(q) + 1
  /\ \A k \in 1..(Len(q) + 1) : r[k] = IF k < j THEN q[k] ELSE IF k = j THEN e ELSE q[k - 1]

LEMMA BlockInserted ==
    ASSUME NEW q \in Seq(MallocBlock), NEW j \in 1..(Len(q) + 1), NEW e \in MallocBlock
    PROVE  InsertedInto(q, j, e, InsertAt(q, j, e))
<1> PICK S : S = MallocBlock
  OBVIOUS
<1>1. q \in Seq(S) /\ e \in S
  OBVIOUS
<1>2. InsertAt(q, j, e) \in Seq(S)
  BY <1>1, InsertAtLemma
<1>3. Len(InsertAt(q, j, e)) = Len(q) + 1
  BY <1>1, InsertAtLemma
<1>4. \A k \in 1..(Len(q) + 1) :
        InsertAt(q, j, e)[k] = IF k < j THEN q[k] ELSE IF k = j THEN e ELSE q[k - 1]
  BY <1>1, InsertAtLemma
<1> QED BY <1>2, <1>3, <1>4 DEF InsertedInto

\* Block i of l is split in m: n bytes in use, and the rest.
IsSplit(l, i, n, m) ==
  /\ Filled(m) /\ Len(m) = Len(l) + 1
  /\ \A k \in 1..(i - 1) : m[k] = l[k]
  /\ m[i].addr = l[i].addr /\ m[i].size = n /\ ~m[i].free /\ m[i + 1].free
  /\ \A k \in (i + 2)..(Len(l) + 1) : m[k] = l[k - 1]

LEMMA Split ==
    ASSUME NEW l, Filled(l), NEW i \in 1..Len(l), NEW n \in Nat,
           l[i].size >= n + BlockHeader + MinSize
    PROVE  IsSplit(l, i, n, TakeBlock(l, i, n))
<1> DEFINE taken_ == [l[i] EXCEPT !.size = n, !.free = FALSE]
           rest == [addr |-> l[i].addr + BlockHeader + n,
                    size |-> l[i].size - n - BlockHeader, free |-> TRUE]
           a == [l EXCEPT ![i] = taken_]
           m == InsertAt(a, i + 1, rest)
<1>1. l \in Seq(MallocBlock) /\ Len(l) \in Nat /\ Len(l) > 0
  BY DEF Filled
<1>2. /\ l[i] \in MallocBlock /\ l[i].addr \in Nat /\ l[i].size \in Nat
  BY <1>1, BlockOf
<1>3. /\ taken_ \in MallocBlock
      /\ taken_.addr = l[i].addr /\ taken_.size = n /\ taken_.free = FALSE
  BY <1>2 DEF MallocBlock
<1>4. rest \in MallocBlock /\ rest.free = TRUE /\ EndOf(rest) = EndOf(l[i]) /\ EndOf(taken_) = rest.addr
  <2>1. l[i].addr + BlockHeader + n \in Nat /\ l[i].size - n - BlockHeader \in Nat
    BY <1>2, HeapNumbers
  <2>2. l[i].addr + BlockHeader + n + BlockHeader + (l[i].size - n - BlockHeader)
          = l[i].addr + BlockHeader + l[i].size
    <3>1. PICK x \in Nat, y \in Nat, h \in Nat : x = l[i].addr /\ y = l[i].size /\ h = BlockHeader
      BY <1>2, HeapNumbers
    <3>2. x + h + n + h + (y - n - h) = x + h + y
      OBVIOUS
    <3> QED BY <3>1, <3>2
  <2>3. rest \in MallocBlock /\ rest.free = TRUE
    BY <2>1 DEF MallocBlock
  <2>4. EndOf(rest) = EndOf(l[i])
    BY <2>2 DEF EndOf
  <2>5. EndOf(taken_) = rest.addr
    BY <1>3 DEF EndOf
  <2> QED BY <2>3, <2>4, <2>5
<1>5. rest.addr = EndOf(taken_)
  BY <1>4
<1> HIDE DEF taken_, rest
<1>6. /\ a \in Seq(MallocBlock) /\ Len(a) = Len(l)
      /\ \A k \in 1..Len(l) : a[k] = IF k = i THEN taken_ ELSE l[k]
  BY <1>1, <1>3
<1> HIDE DEF a
<1>7. /\ m \in Seq(MallocBlock) /\ Len(m) = Len(l) + 1
      /\ \A k \in 1..(Len(l) + 1) :
           m[k] = IF k < i + 1 THEN a[k] ELSE IF k = i + 1 THEN rest ELSE a[k - 1]
  <2>1. i + 1 \in 1..(Len(a) + 1)
    BY <1>1, <1>6
  <2>2. /\ m \in Seq(MallocBlock) /\ Len(m) = Len(a) + 1
        /\ \A k \in 1..(Len(a) + 1) :
             m[k] = IF k < i + 1 THEN a[k] ELSE IF k = i + 1 THEN rest ELSE a[k - 1]
    <3>1. a \in Seq(MallocBlock) /\ rest \in MallocBlock
      BY <1>4, <1>6
    <3>2. PICK j \in 1..(Len(a) + 1) : j = i + 1
      BY <2>1
    <3> HIDE DEF m
    <3>3. InsertedInto(a, j, rest, InsertAt(a, j, rest))
      BY <3>1, BlockInserted
    <3>4. InsertedInto(a, j, rest, m)
      BY <3>2, <3>3 DEF m
    <3> QED BY <3>2, <3>4 DEF InsertedInto
  <2> HIDE DEF m
  <2> QED BY <1>6, <2>2
<1> HIDE DEF m
<1>8. \A k \in 1..(i - 1) : m[k] = l[k]
  <2> TAKE k \in 1..(i - 1)
  <2>1. k \in 1..(Len(l) + 1) /\ k < i + 1 /\ k \in 1..Len(l) /\ k # i
    BY <1>1
  <2> QED BY <1>6, <1>7, <2>1
<1>9. m[i] = taken_ /\ m[i + 1] = rest
  BY <1>1, <1>6, <1>7
<1>10. \A k \in (i + 2)..(Len(l) + 1) : m[k] = l[k - 1]
  <2> TAKE k \in (i + 2)..(Len(l) + 1)
  <2>1. k \in 1..(Len(l) + 1) /\ ~(k < i + 1) /\ k # i + 1 /\ k - 1 \in 1..Len(l) /\ k - 1 # i
    BY <1>1
  <2> QED BY <1>6, <1>7, <2>1
<1>11. Filled(m)
  <2>1. m[1].addr = ImageEnd + ListHeader
    <3>1. l[1].addr = ImageEnd + ListHeader
      BY DEF Filled
    <3>2. CASE i = 1
      BY <1>3, <1>9, <3>1, <3>2
    <3>3. CASE i # 1
      BY <1>8, <3>1, <3>3
    <3> QED BY <3>2, <3>3
  <2>2. EndOf(m[Len(m)]) = HeapMax
    <3>1. EndOf(l[Len(l)]) = HeapMax
      BY DEF Filled
    <3>2. CASE i = Len(l)
      BY <1>4, <1>7, <1>9, <3>1, <3>2
    <3>3. CASE i # Len(l)
      <4>1. Len(l) + 1 \in (i + 2)..(Len(l) + 1) /\ (Len(l) + 1) - 1 = Len(l)
        BY <1>1, <3>3
      <4> QED BY <1>7, <1>10, <3>1, <4>1
    <3> QED BY <3>2, <3>3
  <2>3. ASSUME NEW k \in 1..(Len(m) - 1) PROVE EndOf(m[k]) = m[k + 1].addr
    <3>1. k \in 1..Len(l)
      BY <1>1, <1>7
    <3>2. \A j \in 1..(Len(l) - 1) : EndOf(l[j]) = l[j + 1].addr
      BY DEF Filled
    <3>3. CASE k + 1 < i
      BY <1>1, <1>8, <3>1, <3>2, <3>3
    <3>4. CASE k + 1 = i
      <4>1. m[k] = l[k] /\ EndOf(l[k]) = l[k + 1].addr
        BY <1>1, <1>8, <3>1, <3>2, <3>4
      <4> QED BY <1>3, <1>9, <3>4, <4>1
    <3>5. CASE k = i
      BY <1>5, <1>9, <3>5
    <3>6. CASE k = i + 1
      <4>1. k + 1 \in (i + 2)..(Len(l) + 1) /\ (k + 1) - 1 = i + 1 /\ i \in 1..(Len(l) - 1)
        BY <1>1, <3>1, <3>6
      <4>2. m[k + 1] = l[i + 1] /\ EndOf(l[i]) = l[i + 1].addr
        BY <1>10, <3>2, <4>1
      <4> QED BY <1>4, <1>9, <3>6, <4>2
    <3>7. CASE k > i + 1
      <4>1. /\ k \in (i + 2)..(Len(l) + 1) /\ k + 1 \in (i + 2)..(Len(l) + 1)
            /\ k - 1 \in 1..(Len(l) - 1) /\ (k + 1) - 1 = (k - 1) + 1
        BY <1>1, <3>1, <3>7
      <4>2. m[k] = l[k - 1] /\ m[k + 1] = l[(k - 1) + 1]
        BY <1>10, <4>1
      <4> QED BY <3>2, <4>1, <4>2
    <3> QED BY <1>1, <3>1, <3>3, <3>4, <3>5, <3>6, <3>7
  <2>4. Len(m) > 0
    BY <1>1, <1>7
  <2> QED BY <1>7, <2>1, <2>2, <2>3, <2>4 DEF Filled
<1>12. /\ m[i].addr = l[i].addr /\ m[i].size = n /\ ~m[i].free /\ m[i + 1].free
  BY <1>3, <1>4, <1>9
<1>13. TakeBlock(l, i, n) = m
  BY DEF TakeBlock, m, a, taken_, rest
<1> QED BY <1>7, <1>8, <1>10, <1>11, <1>12, <1>13 DEF IsSplit

(***************************************************************************)
(* Two neighbours become one block.                                        *)
(***************************************************************************)
LEMMA TakenOver ==
    ASSUME NEW l, Filled(l), NEW i \in 1..(Len(l) - 1)
    PROVE  LET m == TakeOver(l, i) IN
           /\ Filled(m) /\ Len(m) = Len(l) - 1
           /\ \A k \in 1..(i - 1) : m[k] = l[k]
           /\ m[i].free = l[i].free
           /\ \A k \in (i + 1)..(Len(l) - 1) : m[k] = l[k + 1]
<1> DEFINE grown == [l[i] EXCEPT !.size = l[i].size + BlockHeader + l[i + 1].size]
           a == [l EXCEPT ![i] = grown]
           m == RemoveAt(a, i + 1)
<1>1. l \in Seq(MallocBlock) /\ Len(l) \in Nat /\ Len(l) > 1 /\ i \in 1..Len(l) /\ i + 1 \in 1..Len(l)
  BY DEF Filled
<1>2. /\ l[i] \in MallocBlock /\ l[i].addr \in Nat /\ l[i].size \in Nat /\ l[i].free \in BOOLEAN
      /\ l[i + 1].addr \in Nat /\ l[i + 1].size \in Nat
  BY <1>1, BlockOf
<1>3. TakeOver(l, i) = m
  <2>1. [l EXCEPT ![i].size = @ + BlockHeader + l[i + 1].size] = a
    BY <1>1
  <2> QED BY <2>1 DEF TakeOver
<1>4. /\ grown \in MallocBlock /\ grown.addr = l[i].addr /\ grown.free = l[i].free
      /\ grown.size = l[i].size + BlockHeader + l[i + 1].size
  <2>1. l[i].size + BlockHeader + l[i + 1].size \in Nat
    <3>1. PICK x \in Nat, y \in Nat, h \in Nat : x = l[i].size /\ y = l[i + 1].size /\ h = BlockHeader
      BY <1>2, HeapNumbers
    <3>2. x + h + y \in Nat
      OBVIOUS
    <3> QED BY <3>1, <3>2
  <2> QED BY <1>2, <2>1 DEF MallocBlock
<1>5. EndOf(grown) = EndOf(l[i + 1])
  <2>1. EndOf(l[i]) = l[i + 1].addr
    BY DEF Filled
  <2>2. l[i].addr + BlockHeader + l[i].size = l[i + 1].addr
    BY <2>1 DEF EndOf
  <2>3. l[i].addr + BlockHeader + (l[i].size + BlockHeader + l[i + 1].size)
          = l[i + 1].addr + BlockHeader + l[i + 1].size
    <3>1. PICK x \in Nat, y \in Nat, z \in Nat, h \in Nat :
            x = l[i].addr /\ y = l[i].size /\ z = l[i + 1].size /\ h = BlockHeader
      BY <1>2, HeapNumbers
    <3>2. x + h + (y + h + z) = (x + h + y) + h + z
      OBVIOUS
    <3> QED BY <2>2, <3>1, <3>2
  <2> QED BY <1>4, <2>3 DEF EndOf
<1> HIDE DEF grown
<1>6. /\ a \in Seq(MallocBlock) /\ Len(a) = Len(l)
      /\ \A k \in 1..Len(l) : a[k] = IF k = i THEN grown ELSE l[k]
  BY <1>1, <1>4
<1> HIDE DEF a
<1>7. /\ m \in Seq(MallocBlock) /\ Len(m) = Len(l) - 1
      /\ \A k \in 1..(Len(l) - 1) : m[k] = IF k < i + 1 THEN a[k] ELSE a[k + 1]
  BY <1>1, <1>6, RemoveAtLemma
<1> HIDE DEF m
<1>8. \A k \in 1..(i - 1) : m[k] = l[k]
  <2> TAKE k \in 1..(i - 1)
  <2>1. k \in 1..(Len(l) + 1) /\ k < i + 1 /\ k \in 1..Len(l) /\ k # i
    BY <1>1
  <2> QED BY <1>6, <1>7, <2>1
<1>9. m[i] = grown
  BY <1>1, <1>6, <1>7
<1>10. \A k \in (i + 1)..(Len(l) - 1) : m[k] = l[k + 1]
  <2> TAKE k \in (i + 1)..(Len(l) - 1)
  <2>1. k \in 1..(Len(l) - 1) /\ ~(k < i + 1) /\ k + 1 \in 1..Len(l) /\ k + 1 # i
    BY <1>1
  <2> QED BY <1>6, <1>7, <2>1
<1>11. Filled(m)
  <2>1. m[1].addr = ImageEnd + ListHeader
    <3>1. l[1].addr = ImageEnd + ListHeader
      BY DEF Filled
    <3>2. CASE i = 1
      BY <1>4, <1>9, <3>1, <3>2
    <3>3. CASE i # 1
      BY <1>8, <3>1, <3>3
    <3> QED BY <3>2, <3>3
  <2>2. EndOf(m[Len(m)]) = HeapMax
    <3>1. EndOf(l[Len(l)]) = HeapMax
      BY DEF Filled
    <3>2. CASE i = Len(l) - 1
      BY <1>1, <1>5, <1>7, <1>9, <3>1, <3>2
    <3>3. CASE i # Len(l) - 1
      <4>1. Len(l) - 1 \in (i + 1)..(Len(l) - 1) /\ (Len(l) - 1) + 1 = Len(l)
        BY <1>1, <3>3
      <4> QED BY <1>7, <1>10, <3>1, <4>1
    <3> QED BY <3>2, <3>3
  <2>3. ASSUME NEW k \in 1..(Len(m) - 1) PROVE EndOf(m[k]) = m[k + 1].addr
    <3>1. k \in 1..(Len(l) - 2)
      BY <1>1, <1>7
    <3>2. \A j \in 1..(Len(l) - 1) : EndOf(l[j]) = l[j + 1].addr
      BY DEF Filled
    <3>3. CASE k + 1 < i
      BY <1>1, <1>8, <3>1, <3>2, <3>3
    <3>4. CASE k + 1 = i
      <4>1. m[k] = l[k] /\ EndOf(l[k]) = l[k + 1].addr
        BY <1>1, <1>8, <3>1, <3>2, <3>4
      <4> QED BY <1>4, <1>9, <3>4, <4>1
    <3>5. CASE k = i
      <4>1. i + 1 \in (i + 1)..(Len(l) - 1) /\ i + 1 \in 1..(Len(l) - 1)
        BY <1>1, <3>1, <3>5
      <4>2. m[i + 1] = l[(i + 1) + 1] /\ EndOf(l[i + 1]) = l[(i + 1) + 1].addr
        BY <1>10, <3>2, <4>1
      <4> QED BY <1>5, <1>9, <3>5, <4>2
    <3>6. CASE k > i
      <4>1. /\ k \in (i + 1)..(Len(l) - 1) /\ k + 1 \in (i + 1)..(Len(l) - 1)
            /\ k + 1 \in 1..(Len(l) - 1)
        BY <1>1, <3>1, <3>6
      <4>2. m[k] = l[k + 1] /\ m[k + 1] = l[(k + 1) + 1]
        BY <1>10, <4>1
      <4> QED BY <3>2, <4>1, <4>2
    <3> QED BY <1>1, <3>1, <3>3, <3>4, <3>5, <3>6
  <2>4. Len(m) > 0
    BY <1>1, <1>7
  <2> QED BY <1>7, <2>1, <2>2, <2>3, <2>4 DEF Filled
<1> QED BY <1>3, <1>4, <1>7, <1>8, <1>9, <1>10, <1>11

-----------------------------------------------------------------------------
LEMMA UsedIs ==
    ASSUME NEW l, NEW u
    PROVE  u \in UsedBlocks(l) <=>
             \E i \in 1..Len(l) : ~l[i].free /\ u = [addr |-> l[i].addr, size |-> l[i].size]
BY DEF UsedBlocks

(***************************************************************************)
(* malloc takes a free block, whole or in part.                            *)
(***************************************************************************)
LEMMA TakenInPart ==
    ASSUME NEW l, Filled(l), Joined(l), NEW i \in 1..Len(l), l[i].free, NEW n \in Nat,
           l[i].size >= n + BlockHeader + MinSize
    PROVE  LET m == TakeBlock(l, i, n) IN
           /\ Filled(m) /\ Joined(m)
           /\ UsedBlocks(m) = UsedBlocks(l) \cup {[addr |-> l[i].addr, size |-> n]}
<1> DEFINE m == TakeBlock(l, i, n)
<1> HIDE DEF m
<1>2. /\ Filled(m) /\ Len(m) = Len(l) + 1
      /\ \A k \in 1..(i - 1) : m[k] = l[k]
      /\ m[i].addr = l[i].addr /\ m[i].size = n /\ ~m[i].free /\ m[i + 1].free
      /\ \A k \in (i + 2)..(Len(l) + 1) : m[k] = l[k - 1]
  <2>1. IsSplit(l, i, n, TakeBlock(l, i, n))
    BY Split
  <2> QED BY ONLY <2>1 DEF m, IsSplit
<1>3. Len(l) \in Nat
  BY DEF Filled
<1>4. \A k \in 1..(Len(l) - 1) : ~l[k].free \/ ~l[k + 1].free
  BY <1>3 DEF Joined, JoinedBut
<1>5. ASSUME NEW k \in 1..(Len(m) - 1) PROVE ~m[k].free \/ ~m[k + 1].free
  <2>1. k \in 1..Len(l)
    BY <1>2, <1>3
  <2>2. CASE k + 1 < i
    BY <1>2, <1>3, <1>4, <2>1, <2>2
  <2>3. CASE k + 1 = i \/ k = i
    BY <1>2, <2>3
  <2>4. CASE k = i + 1
    <3>1. k + 1 \in (i + 2)..(Len(l) + 1) /\ (k + 1) - 1 = i + 1 /\ i \in 1..(Len(l) - 1)
      BY <1>3, <2>1, <2>4
    <3> QED BY <1>2, <1>4, <3>1
  <2>5. CASE k > i + 1
    <3>1. /\ k \in (i + 2)..(Len(l) + 1) /\ k + 1 \in (i + 2)..(Len(l) + 1)
          /\ k - 1 \in 1..(Len(l) - 1) /\ (k + 1) - 1 = (k - 1) + 1
      BY <1>3, <2>1, <2>5
    <3>2. m[k] = l[k - 1] /\ m[k + 1] = l[(k - 1) + 1]
      BY <1>2, <3>1
    <3> QED BY <1>4, <3>1, <3>2
  <2> QED BY <2>1, <2>2, <2>3, <2>4, <2>5
<1>6. ASSUME NEW u \in UsedBlocks(m) PROVE u \in UsedBlocks(l) \cup {[addr |-> l[i].addr, size |-> n]}
  <2>1. PICK k \in 1..Len(m) : ~m[k].free /\ u = [addr |-> m[k].addr, size |-> m[k].size]
    BY <1>6, UsedIs
  <2>2. CASE k < i
    BY <1>2, <1>3, <2>1, <2>2, UsedIs
  <2>3. CASE k = i
    BY <1>2, <2>1, <2>3
  <2>4. CASE k = i + 1
    BY <1>2, <2>1, <2>4
  <2>5. CASE k > i + 1
    <3>1. k \in (i + 2)..(Len(l) + 1) /\ k - 1 \in 1..Len(l)
      BY <1>2, <1>3, <2>1, <2>5
    <3>2. m[k] = l[k - 1]
      BY <1>2, <3>1
    <3> QED BY <2>1, <3>1, <3>2, UsedIs
  <2> QED BY <1>2, <1>3, <2>2, <2>3, <2>4, <2>5
<1>7. ASSUME NEW u \in UsedBlocks(l) PROVE u \in UsedBlocks(m)
  <2>1. PICK k \in 1..Len(l) : ~l[k].free /\ u = [addr |-> l[k].addr, size |-> l[k].size]
    BY <1>7, UsedIs
  <2>2. CASE k < i
    BY <1>2, <1>3, <2>1, <2>2, UsedIs
  <2>3. CASE k > i
    <3>1. k + 1 \in (i + 2)..(Len(l) + 1) /\ k + 1 \in 1..Len(m) /\ (k + 1) - 1 = k
      BY <1>2, <1>3, <2>1, <2>3
    <3>2. m[k + 1] = l[k]
      BY <1>2, <3>1
    <3> QED BY <2>1, <3>1, <3>2, UsedIs
  <2> QED BY <1>3, <2>1, <2>2, <2>3
<1>8. [addr |-> l[i].addr, size |-> n] \in UsedBlocks(m)
  <2>1. i \in 1..Len(m)
    BY <1>2, <1>3
  <2> QED BY <1>2, <2>1, UsedIs
<1>9. Joined(m)
  BY <1>5 DEF Joined, JoinedBut
<1> QED BY <1>2, <1>6, <1>7, <1>8, <1>9 DEF m

LEMMA TakenWhole ==
    ASSUME NEW l, Filled(l), Joined(l), NEW i \in 1..Len(l), l[i].free, NEW n \in Nat,
           ~(l[i].size >= n + BlockHeader + MinSize)
    PROVE  LET m == TakeBlock(l, i, n) IN
           /\ Filled(m) /\ Joined(m)
           /\ UsedBlocks(m) = UsedBlocks(l) \cup {[addr |-> l[i].addr, size |-> l[i].size]}
<1> DEFINE m == TakeBlock(l, i, n)
<1>1. m = Flagged(l, i, FALSE)
  BY DEF TakeBlock, Flagged
<1> HIDE DEF m
<1>2. /\ Filled(m) /\ Len(m) = Len(l)
      /\ \A k \in 1..Len(l) : /\ m[k].addr = l[k].addr /\ m[k].size = l[k].size
                              /\ m[k].free = IF k = i THEN FALSE ELSE l[k].free
  <2>1. PICK f \in BOOLEAN : f = FALSE
    OBVIOUS
  <2>2. /\ Filled(Flagged(l, i, f)) /\ Len(Flagged(l, i, f)) = Len(l)
        /\ \A k \in 1..Len(l) :
             /\ Flagged(l, i, f)[k].addr = l[k].addr /\ Flagged(l, i, f)[k].size = l[k].size
             /\ Flagged(l, i, f)[k].free = IF k = i THEN f ELSE l[k].free
    BY FlagChanges
  <2> QED BY <1>1, <2>1, <2>2
<1>3. Len(l) \in Nat
  BY DEF Filled
<1>4. \A k \in 1..(Len(l) - 1) : ~l[k].free \/ ~l[k + 1].free
  BY <1>3 DEF Joined, JoinedBut
<1>5. ASSUME NEW k \in 1..(Len(m) - 1) PROVE ~m[k].free \/ ~m[k + 1].free
  <2>1. k \in 1..Len(l) /\ k + 1 \in 1..Len(l) /\ k \in 1..(Len(l) - 1)
    BY <1>2, <1>3
  <2> QED BY <1>2, <1>4, <2>1
<1>6. ASSUME NEW u \in UsedBlocks(m)
      PROVE  u \in UsedBlocks(l) \cup {[addr |-> l[i].addr, size |-> l[i].size]}
  <2>1. PICK k \in 1..Len(m) : ~m[k].free /\ u = [addr |-> m[k].addr, size |-> m[k].size]
    BY <1>6, UsedIs
  <2>2. k \in 1..Len(l) /\ m[k].addr = l[k].addr /\ m[k].size = l[k].size
        /\ (k # i => m[k].free = l[k].free)
    BY <1>2, <2>1
  <2> QED BY <2>1, <2>2, UsedIs
<1>7. ASSUME NEW u \in UsedBlocks(l) PROVE u \in UsedBlocks(m)
  <2>1. PICK k \in 1..Len(l) : ~l[k].free /\ u = [addr |-> l[k].addr, size |-> l[k].size]
    BY <1>7, UsedIs
  <2>2. k \in 1..Len(m) /\ m[k].addr = l[k].addr /\ m[k].size = l[k].size /\ ~m[k].free
    BY <1>2, <2>1
  <2> QED BY <2>1, <2>2, UsedIs
<1>8. [addr |-> l[i].addr, size |-> l[i].size] \in UsedBlocks(m)
  <2>1. i \in 1..Len(m) /\ ~m[i].free /\ m[i].addr = l[i].addr /\ m[i].size = l[i].size
    BY <1>2
  <2> QED BY <2>1, UsedIs
<1>9. Joined(m)
  BY <1>5 DEF Joined, JoinedBut
<1> QED BY <1>2, <1>6, <1>7, <1>8, <1>9 DEF m

LEMMA BlockTaken ==
    ASSUME NEW l, Filled(l), Joined(l), NEW i \in 1..Len(l), l[i].free, NEW n \in Nat, l[i].size >= n
    PROVE  /\ Filled(TakeBlock(l, i, n)) /\ Joined(TakeBlock(l, i, n))
           /\ \E size \in Nat : size >= n /\ UsedBlocks(TakeBlock(l, i, n))
                                 = UsedBlocks(l) \cup {[addr |-> l[i].addr, size |-> size]}
<1>1. CASE l[i].size >= n + BlockHeader + MinSize
  <2>1. /\ Filled(TakeBlock(l, i, n)) /\ Joined(TakeBlock(l, i, n))
        /\ UsedBlocks(TakeBlock(l, i, n)) = UsedBlocks(l) \cup {[addr |-> l[i].addr, size |-> n]}
    BY <1>1, TakenInPart
  <2>2. n \in Nat /\ n >= n
    OBVIOUS
  <2> QED BY ONLY <2>1, <2>2
<1>2. CASE ~(l[i].size >= n + BlockHeader + MinSize)
  <2>1. /\ Filled(TakeBlock(l, i, n)) /\ Joined(TakeBlock(l, i, n))
        /\ UsedBlocks(TakeBlock(l, i, n))
             = UsedBlocks(l) \cup {[addr |-> l[i].addr, size |-> l[i].size]}
    BY <1>2, TakenWhole
  <2>2. l[i].size \in Nat
    BY BlockOf DEF Filled
  <2>3. l[i].size >= n
    OBVIOUS
  <2> QED BY ONLY <2>1, <2>2, <2>3
<1> QED BY <1>1, <1>2

-----------------------------------------------------------------------------
(***************************************************************************)
(* free: joining free neighbours takes nothing from what is in use.        *)
(***************************************************************************)
LEMMA JoiningKeepsUsed ==
    ASSUME NEW l, Filled(l), NEW i \in 1..(Len(l) - 1), l[i].free, l[i + 1].free
    PROVE  UsedBlocks(TakeOver(l, i)) = UsedBlocks(l)
<1> DEFINE m == TakeOver(l, i)
<1>1. /\ Len(m) = Len(l) - 1 /\ m[i].free
      /\ \A k \in 1..(i - 1) : m[k] = l[k]
      /\ \A k \in (i + 1)..(Len(l) - 1) : m[k] = l[k + 1]
  <2>1. /\ Filled(m) /\ Len(m) = Len(l) - 1
        /\ \A k \in 1..(i - 1) : m[k] = l[k]
        /\ m[i].free = l[i].free
        /\ \A k \in (i + 1)..(Len(l) - 1) : m[k] = l[k + 1]
    BY TakenOver
  <2> HIDE DEF m
  <2> QED BY <2>1
<1> HIDE DEF m
<1>2. Len(l) \in Nat
  BY DEF Filled
<1>3. ASSUME NEW u \in UsedBlocks(m) PROVE u \in UsedBlocks(l)
  <2>1. PICK k \in 1..Len(m) : ~m[k].free /\ u = [addr |-> m[k].addr, size |-> m[k].size]
    BY <1>3, UsedIs
  <2>2. CASE k < i
    BY <1>1, <1>2, <2>1, <2>2, UsedIs
  <2>3. CASE k > i
    <3>1. k \in (i + 1)..(Len(l) - 1) /\ k + 1 \in 1..Len(l)
      BY <1>1, <1>2, <2>1, <2>3
    <3>2. m[k] = l[k + 1]
      BY <1>1, <3>1
    <3> QED BY <2>1, <3>1, <3>2, UsedIs
  <2> QED BY <1>1, <1>2, <2>1, <2>2, <2>3
<1>4. ASSUME NEW u \in UsedBlocks(l) PROVE u \in UsedBlocks(m)
  <2>1. PICK k \in 1..Len(l) : ~l[k].free /\ u = [addr |-> l[k].addr, size |-> l[k].size]
    BY <1>4, UsedIs
  <2>2. CASE k < i
    BY <1>1, <1>2, <2>1, <2>2, UsedIs
  <2>3. CASE k > i + 1
    <3>1. k - 1 \in (i + 1)..(Len(l) - 1) /\ k - 1 \in 1..Len(m) /\ (k - 1) + 1 = k
      BY <1>1, <1>2, <2>1, <2>3
    <3>2. m[k - 1] = l[k]
      BY <1>1, <3>1
    <3> QED BY <2>1, <3>1, <3>2, UsedIs
  <2> QED BY <1>2, <2>1, <2>2, <2>3
<1> QED BY <1>3, <1>4 DEF m

LEMMA JoiningLast ==
    ASSUME NEW l, Filled(l), NEW i \in 1..(Len(l) - 1), l[i].free, l[i + 1].free, JoinedBut(l, i)
    PROVE  Joined(TakeOver(l, i))
<1> DEFINE m == TakeOver(l, i)
<1>1. /\ Len(m) = Len(l) - 1 /\ m[i].free = l[i].free
      /\ \A k \in 1..(i - 1) : m[k] = l[k]
      /\ \A k \in (i + 1)..(Len(l) - 1) : m[k] = l[k + 1]
  BY TakenOver
<1> HIDE DEF m
<1>2. Len(l) \in Nat
  BY DEF Filled
<1>3. ASSUME NEW k \in 1..(Len(m) - 1) PROVE ~m[k].free \/ ~m[k + 1].free
  <2>1. k \in 1..(Len(l) - 2)
    BY <1>1, <1>2
  <2>2. CASE k + 1 < i
    <3>1. k \in 1..(i - 1) /\ k + 1 \in 1..(i - 1) /\ k \in 1..(Len(l) - 1) /\ k # i
      BY <1>2, <2>1, <2>2
    <3>2. ~l[k].free \/ ~l[k + 1].free
      BY <3>1 DEF JoinedBut
    <3> QED BY <1>1, <3>1, <3>2
  <2>3. CASE k + 1 = i
    <3>1. k \in 1..(i - 1) /\ k \in 1..(Len(l) - 1) /\ k # i
      BY <1>2, <2>1, <2>3
    <3>2. ~l[k].free \/ ~l[k + 1].free
      BY <3>1 DEF JoinedBut
    <3> QED BY <1>1, <2>3, <3>1, <3>2
  <2>4. CASE k = i
    <3>1. i + 1 \in (i + 1)..(Len(l) - 1) /\ i + 1 \in 1..(Len(l) - 1) /\ i + 1 # i
      BY <1>2, <2>1, <2>4
    <3>2. m[i + 1] = l[(i + 1) + 1]
      BY <1>1, <3>1
    <3>3. ~l[i + 1].free \/ ~l[(i + 1) + 1].free
      BY <3>1 DEF JoinedBut
    <3> QED BY <2>4, <3>2, <3>3
  <2>5. CASE k > i
    <3>1. /\ k \in (i + 1)..(Len(l) - 1) /\ k + 1 \in (i + 1)..(Len(l) - 1)
          /\ k + 1 \in 1..(Len(l) - 1) /\ k + 1 # i
      BY <1>2, <2>1, <2>5
    <3>2. m[k] = l[k + 1] /\ m[k + 1] = l[(k + 1) + 1]
      BY <1>1, <3>1
    <3>3. ~l[k + 1].free \/ ~l[(k + 1) + 1].free
      BY <3>1 DEF JoinedBut
    <3> QED BY <3>2, <3>3
  <2> QED BY <1>2, <2>1, <2>2, <2>3, <2>4, <2>5
<1> QED BY <1>3 DEF Joined, JoinedBut, m

\* What coalesce_blocks works on: nothing is wrong but that the blocks i and
\* i + 1 may both be free.
Joining(l, i, used) ==
  /\ Filled(l) /\ i \in 1..Len(l) /\ l[i].free /\ JoinedBut(l, i) /\ UsedBlocks(l) = used

LEMMA OneTurn ==
    ASSUME NEW l, NEW i, NEW used, Joining(l, i, used)
    PROVE  LET m == IF i < Len(l) /\ l[i + 1].free /\ Touching(l[i], l[i + 1])
                      THEN TakeOver(l, i) ELSE l
           IN Joining(m, i, used) /\ Joined(m)
<1> DEFINE m == IF i < Len(l) /\ l[i + 1].free /\ Touching(l[i], l[i + 1])
                  THEN TakeOver(l, i) ELSE l
<1>1. Filled(l) /\ i \in 1..Len(l) /\ l[i].free /\ JoinedBut(l, i) /\ UsedBlocks(l) = used /\ Len(l) \in Nat
  BY DEF Joining, Filled
<1>2. CASE i < Len(l) /\ l[i + 1].free
  <2>1. i \in 1..(Len(l) - 1)
    BY <1>1, <1>2
  <2>2. Touching(l[i], l[i + 1])
    BY <1>1, <2>1 DEF Filled, EndOf, Touching
  <2>3. m = TakeOver(l, i)
    BY <1>2, <2>2
  <2> HIDE DEF m
  <2>4. Filled(m) /\ Len(m) = Len(l) - 1 /\ m[i].free = l[i].free
    BY <1>1, <2>1, <2>3, TakenOver
  <2>5. UsedBlocks(m) = used
    BY <1>1, <1>2, <2>1, <2>3, JoiningKeepsUsed
  <2>6. Joined(m)
    BY <1>1, <1>2, <2>1, <2>3, JoiningLast
  <2>7. i \in 1..Len(m)
    BY <1>1, <2>1, <2>4
  <2>8. JoinedBut(m, i)
    BY <2>4, <2>6 DEF Joined, JoinedBut
  <2> QED BY <1>1, <2>4, <2>5, <2>6, <2>7, <2>8 DEF Joining, m
<1>3. CASE ~(i < Len(l) /\ l[i + 1].free)
  <2>1. m = l
    BY <1>3
  <2>2. ASSUME NEW k \in 1..(Len(l) - 1) PROVE ~l[k].free \/ ~l[k + 1].free
    <3>1. CASE k = i
      BY <1>1, <1>3, <3>1
    <3>2. CASE k # i
      BY <1>1, <3>2 DEF JoinedBut
    <3> QED BY <3>1, <3>2
  <2>3. Joined(l)
    BY <2>2 DEF Joined, JoinedBut
  <2> HIDE DEF m
  <2> QED BY <2>1, <2>3 DEF m
<1> QED BY <1>2, <1>3

LEMMA CoalesceJoins ==
    ASSUME NEW l, NEW i, NEW used, Joining(l, i, used)
    PROVE  Filled(Coalesce(l, i)) /\ Joined(Coalesce(l, i)) /\ UsedBlocks(Coalesce(l, i)) = used
<1> DEFINE n == Len(l) - i
           Lists == {m \in Seq(MallocBlock) : Joining(m, i, used)}
           Onto(m) == IF i < Len(m) /\ m[i + 1].free /\ Touching(m[i], m[i + 1])
                        THEN TakeOver(m, i) ELSE m
           next_ == [k \in 1..n |-> [m \in Lists |-> Onto(m)]]
           IsUpto(f) == f = [k \in 0..n |-> IF k = 0 THEN l ELSE Onto(f[k - 1])]
           Upto == CHOOSE f : IsUpto(f)
<1>1. Coalesce(l, i) = Upto[n]
  BY DEF Coalesce
<1>2. n \in Nat /\ i \in Nat /\ Len(l) \in Nat /\ l \in Lists
  BY DEF Joining, Filled
<1>3. \A m \in Lists : Onto(m) \in Lists /\ Joined(Onto(m))
  <2> TAKE m \in Lists
  <2>1. Joining(Onto(m), i, used) /\ Joined(Onto(m))
    BY OneTurn
  <2> HIDE DEF Onto
  <2>2. Onto(m) \in Seq(MallocBlock)
    BY <2>1 DEF Joining, Filled
  <2> QED BY <2>1, <2>2
<1> HIDE DEF Onto, Lists
<1>4. next_ \in [1..n -> [Lists -> Lists]]
  BY <1>3
<1>5. PICK f : StepsFrom(f, l, n, Lists, next_)
  <2> HIDE DEF next_, n
  <2> QED BY <1>2, <1>4, RecursionExists
<1>6. f \in [0..n -> Lists] /\ f[0] = l
  BY <1>5 DEF StepsFrom
<1> HIDE DEF n
<1>7. ASSUME NEW k \in 1..n PROVE f[k] = Onto(f[k - 1])
  <2>1. f[k] = next_[k][f[k - 1]] /\ f[k - 1] \in Lists
    <3>1. k - 1 \in 0..n
      BY <1>2
    <3> HIDE DEF next_
    <3> QED BY <1>5, <1>6, <3>1 DEF StepsFrom
  <2>2. \A m \in Lists : next_[k][m] = Onto(m)
    OBVIOUS
  <2> QED BY <2>1, <2>2
<1>8. IsUpto(f)
  <2>1. ASSUME NEW k \in 0..n PROVE f[k] = IF k = 0 THEN l ELSE Onto(f[k - 1])
    <3>1. k = 0 \/ k \in 1..n
      BY <1>2
    <3> QED BY <1>6, <1>7, <3>1
  <2> QED BY <1>6, <2>1
<1>9. IsUpto(Upto)
  BY <1>8
<1> HIDE DEF Upto
<1>10. Upto[0] = l /\ \A k \in 1..n : Upto[k] = Onto(Upto[k - 1])
  BY <1>2, <1>9
<1> HIDE DEF IsUpto, next_
<1> DEFINE Good == {k \in 0..n : Upto[k] \in Lists}
<1>11. \A k \in 0..n : k \in Good
  <2>1. 0 \in Good
    BY <1>2, <1>10
  <2>2. ASSUME NEW k \in 0..(n - 1), k \in Good PROVE k + 1 \in Good
    <3>1. k + 1 \in 1..n /\ k + 1 \in 0..n /\ k + 1 - 1 = k
      BY <1>2
    <3>2. Upto[k] \in Lists
      BY <2>2
    <3>3. Upto[k + 1] = Onto(Upto[k])
      BY <1>10, <3>1
    <3> QED BY <1>3, <3>1, <3>2, <3>3
  <2> HIDE DEF Good
  <2> QED BY <1>2, <2>1, <2>2, IntervalInduction
<1>12. Upto[n] \in Lists
  <2>1. n \in 0..n
    BY <1>2
  <2> QED BY <1>11, <2>1
<1>13. Joined(Upto[n])
  <2>1. CASE n = 0
    <3>1. Upto[n] = l /\ i = Len(l)
      BY <1>2, <1>10, <2>1 DEF n
    <3>2. JoinedBut(l, Len(l))
      BY <3>1 DEF Joining
    <3>3. Joined(l)
      BY <1>2, <3>2 DEF Joined, JoinedBut
    <3> QED BY <3>1, <3>3
  <2>2. CASE n # 0
    <3>1. n \in 1..n /\ n - 1 \in 0..n
      BY <1>2, <2>2
    <3>2. Upto[n - 1] \in Lists /\ Upto[n] = Onto(Upto[n - 1])
      BY <1>10, <1>11, <3>1
    <3> QED BY <1>3, <3>2
  <2> QED BY <2>1, <2>2
<1> QED BY <1>1, <1>12, <1>13 DEF Lists, Joining

LEMMA Found ==
    ASSUME NEW l, Filled(l), NEW i \in 1..Len(l)
    PROVE  IndexOf(l, l[i].addr) = i
<1>1. DOMAIN l = 1..Len(l)
  BY DEF Filled
<1>2. ASSUME NEW j \in 1..Len(l), l[j].addr = l[i].addr PROVE j = i
  BY <1>2, AddressesApart
<1> QED BY <1>1, <1>2 DEF IndexOf

LEMMA Released ==
    ASSUME NEW l, Filled(l), Joined(l), NEW i \in 1..Len(l), ~l[i].free
    PROVE  /\ Filled(ReleaseBlock(l, l[i].addr)) /\ Joined(ReleaseBlock(l, l[i].addr))
           /\ UsedBlocks(ReleaseBlock(l, l[i].addr)) = {u \in UsedBlocks(l) : u.addr # l[i].addr}
<1> DEFINE m == Flagged(l, i, TRUE)
           used == {u \in UsedBlocks(l) : u.addr # l[i].addr}
<1>1. ReleaseBlock(l, l[i].addr) =
        IF i > 1 /\ m[i - 1].free /\ Touching(m[i - 1], m[i])
          THEN Coalesce(TakeOver(m, i - 1), i - 1) ELSE Coalesce(m, i)
  <2>1. IndexOf(l, l[i].addr) = i
    BY Found
  <2>2. m = [l EXCEPT ![i].free = TRUE]
    BY DEF Flagged
  <2> HIDE DEF m
  <2>3. \A j : j = i => ReleaseBlock(l, l[i].addr) =
        IF j > 1 /\ m[j - 1].free /\ Touching(m[j - 1], m[j])
          THEN Coalesce(TakeOver(m, j - 1), j - 1) ELSE Coalesce(m, j)
    BY <2>1, <2>2 DEF ReleaseBlock
  <2> QED BY <2>3
<1>2. /\ Filled(m) /\ Len(m) = Len(l)
      /\ \A k \in 1..Len(l) : /\ m[k].addr = l[k].addr /\ m[k].size = l[k].size
                              /\ m[k].free = IF k = i THEN TRUE ELSE l[k].free
  <2>1. PICK f \in BOOLEAN : f = TRUE
    OBVIOUS
  <2>2. /\ Filled(Flagged(l, i, f)) /\ Len(Flagged(l, i, f)) = Len(l)
        /\ \A k \in 1..Len(l) :
             /\ Flagged(l, i, f)[k].addr = l[k].addr /\ Flagged(l, i, f)[k].size = l[k].size
             /\ Flagged(l, i, f)[k].free = IF k = i THEN f ELSE l[k].free
    BY FlagChanges
  <2> QED BY <2>1, <2>2
<1> HIDE DEF m
<1>3. Len(l) \in Nat
  BY DEF Filled
<1>4. ASSUME NEW k \in 1..(Len(l) - 1), k # i, k # i - 1 PROVE ~m[k].free \/ ~m[k + 1].free
  <2>1. ~l[k].free \/ ~l[k + 1].free
    BY <1>3 DEF Joined, JoinedBut
  <2>2. k \in 1..Len(l) /\ k + 1 \in 1..Len(l) /\ k + 1 # i
    BY <1>3, <1>4
  <2> QED BY <1>2, <1>4, <2>1, <2>2
<1>5. UsedBlocks(m) = used
  <2>1. ASSUME NEW u \in UsedBlocks(m) PROVE u \in used
    <3>1. PICK k \in 1..Len(m) : ~m[k].free /\ u = [addr |-> m[k].addr, size |-> m[k].size]
      BY <2>1, UsedIs
    <3>2. k \in 1..Len(l) /\ k # i /\ m[k].addr = l[k].addr /\ m[k].size = l[k].size /\ ~l[k].free
      BY <1>2, <3>1
    <3>3. u \in UsedBlocks(l)
      BY <3>1, <3>2, UsedIs
    <3>4. l[k].addr # l[i].addr
      BY <3>2, AddressesApart
    <3>5. u.addr = l[k].addr
      BY <3>1, <3>2
    <3> QED BY <3>3, <3>4, <3>5
  <2>2. ASSUME NEW u \in used PROVE u \in UsedBlocks(m)
    <3>1. PICK k \in 1..Len(l) : ~l[k].free /\ u = [addr |-> l[k].addr, size |-> l[k].size]
      BY <2>2, UsedIs
    <3>2. k # i
      BY <2>2, <3>1
    <3>3. k \in 1..Len(m) /\ m[k].addr = l[k].addr /\ m[k].size = l[k].size /\ ~m[k].free
      BY <1>2, <3>1, <3>2
    <3> QED BY <3>1, <3>3, UsedIs
  <2> QED BY <2>1, <2>2
<1> HIDE DEF used
<1>6. CASE i > 1 /\ m[i - 1].free
  <2>1. i - 1 \in 1..(Len(m) - 1) /\ (i - 1) + 1 = i
    BY <1>2, <1>3, <1>6
  <2>2. EndOf(m[i - 1]) = m[(i - 1) + 1].addr
    BY <1>2, <2>1 DEF Filled
  <2>3. Touching(m[i - 1], m[i])
    BY <2>1, <2>2 DEF EndOf, Touching
  <2>4. ReleaseBlock(l, l[i].addr) = Coalesce(TakeOver(m, i - 1), i - 1)
    BY <1>1, <1>6, <2>3
  <2>5. PICK j \in 1..(Len(m) - 1) : j = i - 1
    BY <2>1
  <2> DEFINE t == TakeOver(m, j)
  <2>6. m[i].free
    BY <1>2
  <2>7. m[j].free /\ m[j + 1].free
    BY <1>6, <2>1, <2>5, <2>6
  <2>8. /\ Filled(t) /\ Len(t) = Len(m) - 1
        /\ \A k \in 1..(j - 1) : t[k] = m[k]
        /\ t[j].free = m[j].free
        /\ \A k \in (j + 1)..(Len(m) - 1) : t[k] = m[k + 1]
    BY <1>2, TakenOver
  <2>9. UsedBlocks(t) = used
    BY <1>2, <1>5, <2>7, JoiningKeepsUsed
  <2> HIDE DEF t
  <2>10. ASSUME NEW k \in 1..(Len(t) - 1), k # j PROVE ~t[k].free \/ ~t[k + 1].free
    <3>1. k \in 1..(Len(l) - 2)
      BY <1>2, <1>3, <2>8
    <3>2. CASE k + 1 < j
      <4>1. k \in 1..(j - 1) /\ k + 1 \in 1..(j - 1) /\ k \in 1..(Len(l) - 1) /\ k # i /\ k # i - 1
        BY <1>3, <2>5, <3>1, <3>2
      <4> QED BY <1>4, <2>8, <4>1
    <3>3. CASE k + 1 = j
      <4>1. k \in 1..(j - 1) /\ k \in 1..(Len(l) - 1) /\ k # i /\ k # i - 1
        BY <1>3, <2>5, <3>1, <3>3
      <4>2. ~m[k].free \/ ~m[k + 1].free
        BY <1>4, <4>1
      <4> QED BY <2>8, <3>3, <4>1, <4>2
    <3>4. CASE k > j
      <4>1. /\ k \in (j + 1)..(Len(m) - 1) /\ k + 1 \in (j + 1)..(Len(m) - 1)
            /\ k + 1 \in 1..(Len(l) - 1) /\ k + 1 # i /\ k + 1 # i - 1
        BY <1>2, <1>3, <2>5, <3>1, <3>4
      <4>2. ~m[k + 1].free \/ ~m[(k + 1) + 1].free
        BY <1>4, <4>1
      <4>3. t[k] = m[k + 1] /\ t[k + 1] = m[(k + 1) + 1]
        BY <2>8, <4>1
      <4> QED BY <4>2, <4>3
    <3> QED BY <1>3, <2>5, <2>10, <3>1, <3>2, <3>3, <3>4
  <2>11. JoinedBut(t, j)
    BY <2>10 DEF JoinedBut
  <2>12. j \in 1..Len(t)
    BY <1>2, <1>3, <2>8
  <2>13. Joining(t, j, used)
    BY <2>7, <2>8, <2>9, <2>11, <2>12 DEF Joining
  <2>14. /\ Filled(Coalesce(t, j)) /\ Joined(Coalesce(t, j))
         /\ UsedBlocks(Coalesce(t, j)) = used
    BY <2>13, CoalesceJoins
  <2>15. ReleaseBlock(l, l[i].addr) = Coalesce(t, j)
    BY <2>4, <2>5 DEF t
  <2> QED BY <2>14, <2>15 DEF used
<1>7. CASE ~(i > 1 /\ m[i - 1].free)
  <2>1. ReleaseBlock(l, l[i].addr) = Coalesce(m, i)
    BY <1>1, <1>7
  <2>2. ASSUME NEW k \in 1..(Len(m) - 1), k # i PROVE ~m[k].free \/ ~m[k + 1].free
    <3>1. CASE k = i - 1
      <4>1. i > 1
        BY <1>2, <1>3, <3>1
      <4>2. ~m[i - 1].free
        BY <1>7, <4>1
      <4> QED BY <3>1, <4>2
    <3>2. CASE k # i - 1
      BY <1>2, <1>4, <2>2, <3>2
    <3> QED BY <3>1, <3>2
  <2>3. JoinedBut(m, i)
    BY <2>2 DEF JoinedBut
  <2>4. Joining(m, i, used)
    BY <1>2, <1>5, <2>3 DEF Joining
  <2>5. /\ Filled(Coalesce(m, i)) /\ Joined(Coalesce(m, i))
        /\ UsedBlocks(Coalesce(m, i)) = used
    BY <2>4, CoalesceJoins
  <2> QED BY <2>1, <2>5 DEF used
<1> QED BY <1>6, <1>7

-----------------------------------------------------------------------------
(***************************************************************************)
(* Who holds what.                                                         *)
(***************************************************************************)
LEMMA FreeIsNotUsed ==
    ASSUME NEW l, Filled(l), NEW i \in 1..Len(l), l[i].free
    PROVE  \A u \in UsedBlocks(l) : u.addr # l[i].addr
<1> TAKE u \in UsedBlocks(l)
<1>1. PICK k \in 1..Len(l) : ~l[k].free /\ u = [addr |-> l[k].addr, size |-> l[k].size]
  BY UsedIs
<1>2. k # i
  BY <1>1
<1>3. l[k].addr # l[i].addr
  BY <1>2, AddressesApart
<1> QED BY <1>1, <1>3

LEMMA OwnedWhenTaken ==
    ASSUME NEW l, NEW held, Owned(l, held), NEW a, \A u \in UsedBlocks(l) : u.addr # a,
           NEW asked, NEW size, asked + Align <= WordSize => size >= asked,
           NEW m, UsedBlocks(m) = UsedBlocks(l) \cup {[addr |-> a, size |-> size]}
    PROVE  Owned(m, held \cup {[addr |-> a, size |-> asked]})
<1> DEFINE new == [addr |-> a, size |-> asked]
           block == [addr |-> a, size |-> size]
<1>1. \A p \in held : p.addr # a
  BY DEF Owned
<1>2. new.addr = a /\ new.size = asked /\ block.addr = a /\ block.size = size
  OBVIOUS
<1> HIDE DEF new, block
<1>3. ASSUME NEW p \in held \cup {new}
      PROVE  \E u \in UsedBlocks(m) : u.addr = p.addr /\ (p.size + Align <= WordSize => u.size >= p.size)
  <2>1. CASE p \in held
    BY <2>1 DEF Owned
  <2>2. CASE p = new
    <3>1. block \in UsedBlocks(m)
      BY DEF block
    <3> QED BY <1>2, <2>2, <3>1
  <2> QED BY <2>1, <2>2
<1>4. ASSUME NEW p \in held \cup {new}, NEW q \in held \cup {new}, p.addr = q.addr PROVE p = q
  BY <1>1, <1>2, <1>4 DEF Owned
<1>5. ASSUME NEW u \in UsedBlocks(m) PROVE \E p \in held \cup {new} : p.addr = u.addr
  <2>1. u \in UsedBlocks(l) \/ u = block
    BY DEF block
  <2> QED BY <1>2, <2>1 DEF Owned
<1>6. Owned(m, held \cup {new})
  BY <1>3, <1>4, <1>5 DEF Owned
<1> QED BY <1>6 DEF new

LEMMA OwnedWhenReleased ==
    ASSUME NEW l, NEW held, Owned(l, held), NEW p \in held,
           NEW m, UsedBlocks(m) = {u \in UsedBlocks(l) : u.addr # p.addr}
    PROVE  Owned(m, held \ {p})
BY DEF Owned

LEMMA AlignedHolds ==
    ASSUME NEW size \in 0..(WordSize - 1)
    PROVE  Aligned(size) \in Nat /\ (size + Align <= WordSize => Aligned(size) >= size)
<1> DEFINE n == IF size < MinSize THEN MinSize ELSE size
           sum == (n + Align - 1) % WordSize
           over == sum % Align
<1>1. /\ n \in Nat /\ n >= size /\ (size + Align <= WordSize => n + Align <= WordSize)
      /\ Align \in Nat /\ Align > 0 /\ WordSize \in Nat /\ WordSize > 0
  BY HeapNumbers
<1>2. Aligned(size) = sum - over
  BY DEF Aligned, AlignUp
<1> HIDE DEF n
<1>3. sum \in Nat /\ (n + Align <= WordSize => sum = n + Align - 1)
  <2>1. n + Align - 1 \in Nat
    BY <1>1
  <2>2. PICK x \in Nat : x = n + Align - 1
    BY <2>1
  <2>3. x % WordSize \in Nat
    BY <1>1
  <2>4. x < WordSize => x % WordSize = x
    BY <1>1
  <2>5. n + Align <= WordSize => x < WordSize
    BY <1>1, <2>2
  <2> QED BY <2>2, <2>3, <2>4, <2>5
<1> HIDE DEF sum
<1>4. over \in Nat /\ over < Align
  BY <1>1, <1>3
<1>5. over <= sum
  <2>1. sum = Align * (sum \div Align) + over /\ sum \div Align \in Nat
    BY <1>1, <1>3
  <2>2. PICK d \in Nat : d = sum \div Align
    BY <2>1
  <2>3. Align * d \in Nat
    BY <1>1
  <2> HIDE DEF over
  <2> QED BY <1>3, <1>4, <2>1, <2>2, <2>3
<1> HIDE DEF over
<1> QED BY <1>1, <1>2, <1>3, <1>4, <1>5

LEMMA BlocksOfPointers ==
    ASSUME NEW l, NEW held, Filled(l), Owned(l, held), NEW p \in held
    PROVE  \E i \in 1..Len(l) : /\ ~l[i].free /\ l[i].addr = p.addr
                                /\ p.size + Align <= WordSize => l[i].size >= p.size
<1>1. PICK u \in UsedBlocks(l) : u.addr = p.addr /\ (p.size + Align <= WordSize => u.size >= p.size)
  BY DEF Owned
<1>2. PICK i \in 1..Len(l) : ~l[i].free /\ u = [addr |-> l[i].addr, size |-> l[i].size]
  BY UsedIs
<1> QED BY <1>1, <1>2

LEMMA AsManyAsHeld ==
    ASSUME NEW l, NEW held, Filled(l), Owned(l, held)
    PROVE  Cardinality({i \in 1..Len(l) : ~l[i].free}) = Cardinality(held)
<1> DEFINE used == {i \in 1..Len(l) : ~l[i].free}
           holder == [i \in used |-> CHOOSE p \in held : p.addr = l[i].addr]
<1>1. Len(l) \in Nat
  BY DEF Filled
<1>2. IsFiniteSet(used)
  <2>1. IsFiniteSet(1..Len(l)) /\ used \in SUBSET (1..Len(l))
    BY <1>1, FS_Interval
  <2> QED BY <2>1, FS_Subset
<1>3. ASSUME NEW i \in used PROVE holder[i] \in held /\ holder[i].addr = l[i].addr
  <2>1. [addr |-> l[i].addr, size |-> l[i].size] \in UsedBlocks(l)
    BY UsedIs
  <2>2. \E p \in held : p.addr = l[i].addr
    BY <2>1 DEF Owned
  <2> QED BY <2>2
<1>4. holder \in [used -> held]
  BY <1>3
<1>5. ASSUME NEW i \in used, NEW j \in used, holder[i] = holder[j] PROVE i = j
  <2>1. l[i].addr = l[j].addr
    BY <1>3, <1>5
  <2> QED BY <2>1, AddressesApart
<1>6. ASSUME NEW p \in held PROVE \E i \in used : holder[i] = p
  <2>1. PICK i \in 1..Len(l) : ~l[i].free /\ l[i].addr = p.addr
    BY BlocksOfPointers
  <2>2. i \in used /\ holder[i] \in held /\ holder[i].addr = p.addr
    BY <1>3, <2>1
  <2>3. holder[i] = p
    BY <2>2 DEF Owned
  <2> QED BY <2>2, <2>3
<1> HIDE DEF used, holder
<1>7. ExistsBijection(used, held)
  <2>1. holder \in Bijection(used, held)
    BY <1>4, <1>5, <1>6 DEF Bijection, Injection, Surjection, IsInjective
  <2> QED BY <2>1 DEF ExistsBijection
<1>8. Cardinality(held) = Cardinality(used)
  BY <1>2, <1>7, FS_Bijection
<1> QED BY <1>8 DEF used

-----------------------------------------------------------------------------
LEMMA InitUserHeapInv == UserHeapInit => UserHeapInv
<1>1. ImageEnd \in ImageEnd..HeapMax
  BY HeapNumbers DEF HeapMax
<1> QED BY <1>1 DEF UserHeapInit, UserHeapInv

LEMMA FirstBlockSound ==
    Filled(<<FirstBlock>>) /\ Joined(<<FirstBlock>>) /\ Owned(<<FirstBlock>>, {})
<1> DEFINE l == <<FirstBlock>>
<1>1. FirstBlock \in MallocBlock /\ EndOf(FirstBlock) = HeapMax
      /\ FirstBlock.addr = ImageEnd + ListHeader /\ FirstBlock.free
  <2>1. PICK i \in Nat, r \in Nat, lh \in Nat, bh \in Nat :
          i = ImageEnd /\ r = ReservedSize /\ lh = ListHeader /\ bh = BlockHeader
    BY HeapNumbers
  <2>2. lh + bh <= r
    BY <2>1, HeapNumbers
  <2>3. i + lh \in Nat /\ r - lh - bh \in Nat /\ i + lh + bh + (r - lh - bh) = i + r
    BY <2>2
  <2>4. FirstBlock = [addr |-> i + lh, size |-> r - lh - bh, free |-> TRUE]
    BY <2>1 DEF FirstBlock
  <2>5. EndOf(FirstBlock) = i + lh + bh + (r - lh - bh)
    BY <2>1, <2>4 DEF EndOf
  <2>6. FirstBlock \in MallocBlock /\ FirstBlock.addr = i + lh /\ FirstBlock.free
    BY <2>3, <2>4 DEF MallocBlock
  <2> QED BY <2>1, <2>3, <2>5, <2>6 DEF HeapMax
<1>2. l \in Seq(MallocBlock) /\ Len(l) = 1 /\ l[1] = FirstBlock
  BY <1>1
<1> HIDE DEF l
<1>3. Filled(l)
  BY <1>1, <1>2 DEF Filled
<1>4. Joined(l)
  BY <1>2 DEF Joined, JoinedBut
<1>5. UsedBlocks(l) = {}
  BY <1>1, <1>2, UsedIs
<1>6. Owned(l, {})
  BY <1>5 DEF Owned
<1> QED BY <1>3, <1>4, <1>6 DEF l

LEMMA FirstFit ==
    ASSUME NEW l, Filled(l), NEW n \in Nat, BigEnough(l, n) # {}
    PROVE  /\ Min(BigEnough(l, n)) \in 1..Len(l)
           /\ l[Min(BigEnough(l, n))].free /\ l[Min(BigEnough(l, n))].size >= n
<1> DEFINE fits == BigEnough(l, n)
<1>1. fits = {i \in 1..Len(l) : l[i].free /\ l[i].size >= n}
  BY DEF BigEnough, Filled
<1>2. fits \in SUBSET Nat /\ fits # {}
  BY <1>1
<1> HIDE DEF fits
<1>3. Min(fits) \in fits
  BY <1>2, MinExists
<1>4. Min(fits) \in {i \in 1..Len(l) : l[i].free /\ l[i].size >= n}
  BY <1>1, <1>3
<1> QED BY <1>4 DEF fits

LEMMA BlocksKept ==
    ASSUME UserHeapInv, g_heap \/ SetUp
    PROVE  Filled(Blocks) /\ Joined(Blocks) /\ Owned(Blocks, pointers)
<1>1. CASE SetUp
  <2>1. Blocks = <<FirstBlock>> /\ pointers = {}
    BY <1>1 DEF Blocks, SetUp, UserHeapInv
  <2> QED BY <2>1, FirstBlockSound
<1>2. CASE ~SetUp
  BY <1>2 DEF Blocks, UserHeapInv
<1> QED BY <1>1, <1>2

LEMMA GrantedHolds ==
    ASSUME NEW b, b.size \in Nat, NEW n \in Nat, b.size >= n
    PROVE  GrantedSize(b, n) >= n
BY DEF GrantedSize

LEMMA TakenKeepsInv ==
    ASSUME UserHeapInv, NEW size \in Asked, TakeFirstFit(size), overrun' # 0 => overrun' + Align > WordSize
    PROVE  UserHeapInv'
<1>1. size \in 0..(WordSize - 1) /\ Aligned(size) \in Nat
      /\ (size + Align <= WordSize => Aligned(size) >= size)
  BY UserHeapAssumption, AlignedHolds
<1>2. /\ g_heap \/ SetUp
      /\ g_heap' = TRUE /\ heap_end' = IF SetUp THEN heap_end + ReservedSize ELSE heap_end
      /\ BigEnough(Blocks, Aligned(size)) = {} => list' = Blocks /\ pointers' = pointers
      /\ BigEnough(Blocks, Aligned(size)) # {} =>
           /\ list' = TakeBlock(Blocks, Min(BigEnough(Blocks, Aligned(size))), Aligned(size))
           /\ pointers' = pointers \cup
                {Held(Blocks[Min(BigEnough(Blocks, Aligned(size)))].addr, size)}
  BY DEF TakeFirstFit
<1>3. Filled(Blocks) /\ Joined(Blocks) /\ Owned(Blocks, pointers)
  BY <1>2, BlocksKept
<1>4. heap_end' \in ImageEnd..HeapMax
  <2>1. CASE SetUp
    <3>1. heap_end \in ImageEnd..HeapMax /\ heap_end + ReservedSize <= HeapMax
      BY <2>1 DEF SetUp, MayMove, UserHeapInv
    <3> QED BY <1>2, <2>1, <3>1, HeapNumbers
  <2>2. CASE ~SetUp
    BY <1>2, <2>2 DEF UserHeapInv
  <2> QED BY <2>1, <2>2
<1>5. pointers \subseteq [addr : Nat, size : 0..(WordSize - 1)]
  BY DEF UserHeapInv
<1>6. CASE BigEnough(Blocks, Aligned(size)) = {}
  BY <1>2, <1>3, <1>4, <1>5, <1>6 DEF UserHeapInv
<1>7. CASE BigEnough(Blocks, Aligned(size)) # {}
  <2>1. PICK l : l = Blocks
    OBVIOUS
  <2>2. PICK n \in Nat : n = Aligned(size) /\ (size + Align <= WordSize => n >= size)
    BY <1>1
  <2>3. PICK i \in 1..Len(l) : i = Min(BigEnough(l, n)) /\ l[i].free /\ l[i].size >= n
    BY <1>3, <1>7, <2>1, <2>2, FirstFit
  <2>4. Filled(l) /\ Joined(l) /\ Owned(l, pointers)
    BY <1>3, <2>1
  <2>5. list' = TakeBlock(l, i, n) /\ pointers' = pointers \cup {[addr |-> l[i].addr, size |-> size]}
    BY <1>2, <1>7, <2>1, <2>2, <2>3 DEF Held
  <2>6. /\ Filled(TakeBlock(l, i, n)) /\ Joined(TakeBlock(l, i, n))
        /\ \E got \in Nat : got >= n /\ UsedBlocks(TakeBlock(l, i, n))
                                 = UsedBlocks(l) \cup {[addr |-> l[i].addr, size |-> got]}
    BY <2>3, <2>4, BlockTaken
  <2>7. PICK got \in Nat : got >= n /\ UsedBlocks(TakeBlock(l, i, n))
                                 = UsedBlocks(l) \cup {[addr |-> l[i].addr, size |-> got]}
    BY <2>6
  <2>8. size + Align <= WordSize => got >= size
    BY <1>1, <2>2, <2>7
  <2>9. \A u \in UsedBlocks(l) : u.addr # l[i].addr
    BY <2>3, <2>4, FreeIsNotUsed
  <2>10. Owned(TakeBlock(l, i, n), pointers \cup {[addr |-> l[i].addr, size |-> size]})
    BY <2>4, <2>7, <2>8, <2>9, OwnedWhenTaken
  <2>11. l[i].addr \in Nat
    BY <2>4, BlockOf DEF Filled
  <2>12. pointers' \subseteq [addr : Nat, size : 0..(WordSize - 1)]
    BY <1>1, <1>5, <2>5, <2>11
  <2> QED BY <1>2, <1>4, <2>5, <2>6, <2>10, <2>12 DEF UserHeapInv
<1> QED BY <1>6, <1>7

LEMMA MallocKeepsInv ==
    ASSUME UserHeapInv, NEW size \in Asked, Malloc(size)
    PROVE  UserHeapInv'
<1>1. TakeFirstFit(size) /\ overrun' = overrun
  BY DEF Malloc
<1>2. overrun' # 0 => overrun' + Align > WordSize
  BY <1>1 DEF UserHeapInv
<1> QED BY <1>1, <1>2, TakenKeepsInv

\* A size that does not wrap around when it is rounded up has room in its block.
LEMMA CallocKeepsInv ==
    ASSUME UserHeapInv, NEW size \in Asked, Calloc(size)
    PROVE  UserHeapInv'
<1> DEFINE fits == BigEnough(Blocks, Aligned(size))
<1>1. TakeFirstFit(size)
      /\ overrun' = IF fits # {} /\ GrantedSize(Blocks[Min(fits)], Aligned(size)) < size THEN size ELSE 0
  BY DEF Calloc
<1>2. size \in 0..(WordSize - 1) /\ Aligned(size) \in Nat
      /\ (size + Align <= WordSize => Aligned(size) >= size)
  BY UserHeapAssumption, AlignedHolds
<1>3. Filled(Blocks)
  BY <1>1, BlocksKept DEF TakeFirstFit
<1>4. ASSUME overrun' # 0 PROVE overrun' + Align > WordSize
  <2>1. fits # {} /\ GrantedSize(Blocks[Min(fits)], Aligned(size)) < size /\ overrun' = size
    BY <1>1, <1>4
  <2>2. Min(fits) \in 1..Len(Blocks) /\ Blocks[Min(fits)].size >= Aligned(size)
    BY <1>2, <1>3, <2>1, FirstFit
  <2>3. Blocks[Min(fits)].size \in Nat
    BY <1>3, <2>2, BlockOf DEF Filled
  <2>4. PICK b : b = Blocks[Min(fits)]
    OBVIOUS
  <2>5. PICK n \in Nat : n = Aligned(size) /\ (size + Align <= WordSize => n >= size)
    BY <1>2
  <2>6. b.size \in Nat /\ b.size >= n /\ GrantedSize(b, n) < size
    BY <2>1, <2>2, <2>3, <2>4, <2>5
  <2>7. GrantedSize(b, n) \in Nat /\ GrantedSize(b, n) >= n
    BY <2>6, GrantedHolds DEF GrantedSize
  <2> HIDE DEF fits
  <2> QED BY <1>2, <2>1, <2>5, <2>6, <2>7, HeapNumbers
<1> HIDE DEF fits
<1> QED BY <1>1, <1>4, TakenKeepsInv

LEMMA FreeKeepsInv ==
    ASSUME UserHeapInv, NEW p \in pointers, FreePointer(p)
    PROVE  UserHeapInv'
<1>1. Filled(list) /\ Joined(list) /\ Owned(list, pointers) /\ g_heap = TRUE
  BY DEF UserHeapInv
<1>2. PICK i \in 1..Len(list) : ~list[i].free /\ list[i].addr = p.addr
  BY <1>1, BlocksOfPointers
<1>3. list' = ReleaseBlock(list, list[i].addr) /\ pointers' = pointers \ {p}
      /\ heap_end' = heap_end /\ g_heap' = g_heap /\ overrun' = overrun
  BY <1>2 DEF FreePointer
<1>4. /\ Filled(ReleaseBlock(list, list[i].addr)) /\ Joined(ReleaseBlock(list, list[i].addr))
      /\ UsedBlocks(ReleaseBlock(list, list[i].addr)) = {u \in UsedBlocks(list) : u.addr # list[i].addr}
  BY <1>1, <1>2, Released
<1>5. Owned(ReleaseBlock(list, list[i].addr), pointers \ {p})
  BY <1>1, <1>2, <1>4, OwnedWhenReleased
<1> QED BY <1>1, <1>3, <1>4, <1>5 DEF UserHeapInv

LEMMA ReallocKeepsInv ==
    ASSUME UserHeapInv, NEW size \in Asked, NEW p \in pointers, Realloc(p, size)
    PROVE  UserHeapInv'
<1>1. Filled(list) /\ Joined(list) /\ Owned(list, pointers) /\ g_heap = TRUE
  BY DEF UserHeapInv
<1>2. PICK i \in 1..Len(list) : ~list[i].free /\ list[i].addr = p.addr
  BY <1>1, BlocksOfPointers
<1>3. IndexOf(list, p.addr) = i
  BY <1>1, <1>2, Found
<1>4. size \in 0..(WordSize - 1) /\ Aligned(size) \in Nat
      /\ (size + Align <= WordSize => Aligned(size) >= size)
  BY UserHeapAssumption, AlignedHolds
<1>5. /\ heap_end' = heap_end /\ g_heap' = g_heap
      /\ pointers \subseteq [addr : Nat, size : 0..(WordSize - 1)] /\ p.addr \in Nat
      /\ heap_end \in ImageEnd..HeapMax /\ (overrun # 0 => overrun + Align > WordSize)
  BY DEF Realloc, UserHeapInv
<1>6. list[i] \in MallocBlock /\ list[i].size \in Nat /\ list[i].addr \in Nat
  BY <1>1, BlockOf DEF Filled
<1>7. CASE list[i].size >= size
  <2> DEFINE new == [addr |-> p.addr, size |-> size]
  <2>1. list' = list /\ pointers' = (pointers \ {p}) \cup {new} /\ overrun' = overrun
    BY <1>3, <1>7 DEF Realloc, Held
  <2>2. new.addr = p.addr /\ new.size = size /\ new \in [addr : Nat, size : 0..(WordSize - 1)]
    BY <1>4, <1>5
  <2> HIDE DEF new
  <2>3. [addr |-> list[i].addr, size |-> list[i].size] \in UsedBlocks(list)
    BY <1>2, UsedIs
  <2>4. ASSUME NEW q \in pointers'
        PROVE  \E u \in UsedBlocks(list) : u.addr = q.addr /\ (q.size + Align <= WordSize => u.size >= q.size)
    <3>1. CASE q = new
      <4>1. PICK u \in UsedBlocks(list) : u.addr = list[i].addr /\ u.size = list[i].size
        BY <2>3
      <4> QED BY <1>2, <1>7, <2>2, <3>1, <4>1
    <3>2. CASE q \in pointers
      BY <1>1, <3>2 DEF Owned
    <3> QED BY <2>1, <3>1, <3>2
  <2>5. ASSUME NEW q \in pointers', NEW r \in pointers', q.addr = r.addr PROVE q = r
    BY <1>1, <2>1, <2>2, <2>5 DEF Owned
  <2>6. ASSUME NEW u \in UsedBlocks(list) PROVE \E q \in pointers' : q.addr = u.addr
    <3>1. PICK q \in pointers : q.addr = u.addr
      BY <1>1 DEF Owned
    <3> QED BY <2>1, <2>2, <3>1
  <2>7. Owned(list, pointers')
    BY <2>4, <2>5, <2>6 DEF Owned
  <2>8. pointers' \subseteq [addr : Nat, size : 0..(WordSize - 1)]
    BY <1>5, <2>1, <2>2
  <2> QED BY <1>1, <1>5, <2>1, <2>7, <2>8 DEF UserHeapInv
<1>8. CASE ~(list[i].size >= size)
  <2>1. PICK n \in Nat : n = Aligned(size) /\ (size + Align <= WordSize => n >= size)
    BY <1>4
  <2>2. /\ BigEnough(list, n) # {}
        /\ list' = ReleaseBlock(TakeBlock(list, Min(BigEnough(list, n)), n), p.addr)
        /\ pointers' = (pointers \ {p}) \cup {Held(list[Min(BigEnough(list, n))].addr, size)}
        /\ overrun' = IF GrantedSize(list[Min(BigEnough(list, n))], n) < list[i].size THEN size ELSE 0
    BY <1>3, <1>8, <2>1 DEF Realloc
  <2>3. PICK k \in 1..Len(list) : k = Min(BigEnough(list, n)) /\ list[k].free /\ list[k].size >= n
    BY <1>1, <2>2, FirstFit
  <2>4. PICK l : l = TakeBlock(list, k, n)
    OBVIOUS
  <2>5. list' = ReleaseBlock(l, p.addr)
        /\ pointers' = (pointers \ {p}) \cup {[addr |-> list[k].addr, size |-> size]}
    BY <2>2, <2>3, <2>4 DEF Held
  <2>6. /\ Filled(l) /\ Joined(l)
        /\ \E got \in Nat : got >= n /\ UsedBlocks(l)
                                 = UsedBlocks(list) \cup {[addr |-> list[k].addr, size |-> got]}
    BY <1>1, <2>3, <2>4, BlockTaken
  <2>7. PICK got \in Nat : got >= n /\ UsedBlocks(l)
                                 = UsedBlocks(list) \cup {[addr |-> list[k].addr, size |-> got]}
    BY <2>6
  <2>8. size + Align <= WordSize => got >= size
    BY <1>4, <2>1, <2>7
  <2>9. \A u \in UsedBlocks(list) : u.addr # list[k].addr
    BY <1>1, <2>3, FreeIsNotUsed
  <2>10. PICK new : new = [addr |-> list[k].addr, size |-> size]
    OBVIOUS
  <2>11. Owned(l, pointers \cup {new})
    BY <1>1, <2>7, <2>8, <2>9, <2>10, OwnedWhenTaken
  <2>12. PICK j \in 1..Len(l) : ~l[j].free /\ l[j].addr = p.addr
    BY <2>6, <2>11, BlocksOfPointers
  <2>13. /\ Filled(ReleaseBlock(l, l[j].addr)) /\ Joined(ReleaseBlock(l, l[j].addr))
         /\ UsedBlocks(ReleaseBlock(l, l[j].addr)) = {u \in UsedBlocks(l) : u.addr # l[j].addr}
    BY <2>6, <2>12, Released
  <2>14. Owned(ReleaseBlock(l, l[j].addr), (pointers \cup {new}) \ {p})
    <3>1. p \in pointers \cup {new}
      OBVIOUS
    <3> QED BY <2>11, <2>12, <2>13, <3>1, OwnedWhenReleased
  <2>15. new # p
    <3>1. PICK u \in UsedBlocks(list) : u.addr = p.addr
      BY <1>1 DEF Owned
    <3>2. new.addr # p.addr
      BY <2>9, <2>10, <3>1
    <3> QED BY <3>2
  <2>16. pointers' = (pointers \cup {new}) \ {p}
    BY <2>5, <2>10, <2>15
  <2>17. list[k].addr \in Nat
    BY <1>1, BlockOf DEF Filled
  <2>18. pointers' \subseteq [addr : Nat, size : 0..(WordSize - 1)]
    BY <1>4, <1>5, <2>5, <2>17
  <2>19. ASSUME overrun' # 0 PROVE overrun' + Align > WordSize
    <3>1. overrun' = size /\ GrantedSize(list[k], n) < list[i].size
      BY <2>2, <2>3, <2>19
    <3>2. PICK b : b = list[k]
      OBVIOUS
    <3>3. b.size \in Nat /\ b.size >= n
      BY <1>1, <2>3, <3>2, BlockOf DEF Filled
    <3>4. GrantedSize(b, n) \in Nat /\ GrantedSize(b, n) >= n
      BY <3>3, GrantedHolds DEF GrantedSize
    <3> QED BY <1>4, <1>6, <1>8, <2>1, <3>1, <3>2, <3>4, HeapNumbers
  <2> QED BY <1>1, <1>5, <2>5, <2>12, <2>13, <2>14, <2>16, <2>18, <2>19 DEF UserHeapInv
<1> QED BY <1>7, <1>8

LEMMA NextUserHeapInv == UserHeapInv /\ [UserHeapNext]_hvars => UserHeapInv'
<1> SUFFICES ASSUME UserHeapInv, [UserHeapNext]_hvars PROVE UserHeapInv'
  OBVIOUS
<1>1. ASSUME NEW inc \in Increments, Sbrk(inc) PROVE UserHeapInv'
  <2>1. heap_end' >= ImageEnd /\ heap_end' <= HeapMax /\ heap_end' = (heap_end + inc) % WordSize
        /\ UNCHANGED <<g_heap, list, pointers, overrun>>
    BY <1>1 DEF Sbrk, MayMove
  <2>2. heap_end' \in Int
    <3>1. heap_end + inc \in Int
      BY UserHeapAssumption, HeapNumbers DEF UserHeapInv
    <3> QED BY <2>1, <3>1, HeapNumbers
  <2>3. heap_end' \in ImageEnd..HeapMax
    BY <2>1, <2>2, HeapNumbers
  <2> QED BY <2>1, <2>3 DEF UserHeapInv
<1>2. CASE UNCHANGED hvars
  BY <1>2 DEF hvars, UserHeapInv
<1> QED BY <1>1, <1>2, MallocKeepsInv, CallocKeepsInv, FreeKeepsInv, ReallocKeepsInv DEF UserHeapNext

LEMMA MallocFollows == UserHeapInv => MallocIsSound
<1> SUFFICES ASSUME UserHeapInv PROVE MallocIsSound
  OBVIOUS
<1>1. CASE ~g_heap
  BY <1>1 DEF UserHeapInv, MallocIsSound, HoldsWhatItAsked, NothingLeaks
<1>2. CASE g_heap
  <2>1. Filled(list) /\ Joined(list) /\ Owned(list, pointers)
    BY <1>2 DEF UserHeapInv
  <2>2. DOMAIN list = 1..Len(list) /\ Len(list) \in Nat /\ Len(list) > 0
    BY <2>1 DEF Filled
  <2>3. ASSUME NEW p \in pointers
        PROVE  /\ \E i \in DOMAIN list :
                    /\ list[i].addr = p.addr /\ ~list[i].free
                    /\ p.size + Align <= WordSize => list[i].size >= p.size
                    /\ heap_end = HeapMax => list[i].addr + BlockHeader + list[i].size <= heap_end
               /\ \A q \in pointers : q.addr = p.addr => q = p
    <3>1. PICK i \in 1..Len(list) : /\ ~list[i].free /\ list[i].addr = p.addr
                                    /\ p.size + Align <= WordSize => list[i].size >= p.size
      BY <2>1, BlocksOfPointers
    <3>2. list[i].addr + BlockHeader + list[i].size <= HeapMax
      BY <2>1, InsideTheHeap DEF EndOf
    <3> QED BY <2>1, <2>2, <3>1, <3>2 DEF Owned
  <2>4. Cardinality({i \in DOMAIN list : ~list[i].free}) = Cardinality(pointers)
    BY <2>1, <2>2, AsManyAsHeld
  <2>5. HoldsWhatItAsked
    BY <2>3, <2>4 DEF HoldsWhatItAsked
  <2>6. \A i \in 1..(Len(list) - 1) : /\ Touching(list[i], list[i + 1])
                                      /\ ~(list[i].free /\ list[i + 1].free)
    <3> TAKE i \in 1..(Len(list) - 1)
    <3>1. EndOf(list[i]) = list[i + 1].addr
      BY <2>1 DEF Filled
    <3>2. ~(list[i].free /\ list[i + 1].free)
      BY <2>1, <2>2 DEF Joined, JoinedBut
    <3> QED BY <3>1, <3>2 DEF EndOf, Touching
  <2>7. pointers = {} => Len(list) = 1
    <3>1. SUFFICES ASSUME pointers = {}, Len(list) # 1 PROVE FALSE
      OBVIOUS
    <3>2. 1 \in 1..(Len(list) - 1) /\ 1 \in 1..Len(list) /\ 1 + 1 \in 1..Len(list)
      BY <2>2, <3>1
    <3>3. \A k \in 1..Len(list) : list[k].free
      BY <2>1, <3>1, UsedIs DEF Owned
    <3> QED BY <2>6, <3>2, <3>3
  <2>8. NothingLeaks
    BY <2>1, <2>6, <2>7 DEF NothingLeaks, Filled, EndOf
  <2> QED BY <2>5, <2>8 DEF MallocIsSound, UserHeapInv
<1> QED BY <1>1, <1>2 DEF UserHeapInv

\* However a program calls malloc, calloc, realloc and free, and wherever it
\* moves its break, every pointer it holds is a block of its own of at least the
\* size it asked for, the blocks follow each other without a gap from the end of
\* the image to the end of the reserve, no two free ones touch, and a program
\* that has freed all has one free block again (malloc.c: coalescing, splitting).
\* This ends where realloc or calloc fills a block behind its end, and that
\* takes a size that wraps around to nothing when it is rounded up.
THEOREM MallocSound == UserHeapSpec => []MallocIsSound
BY InitUserHeapInv, NextUserHeapInv, MallocFollows, PTL DEF UserHeapSpec

-----------------------------------------------------------------------------
(***************************************************************************)
(* Streams: their fields have types, a stream without a buffer of its own  *)
(* has none, and no file is read behind its end.                           *)
(***************************************************************************)
StreamFields ==
  [fd : Nat, is_eof : BOOLEAN, error : BOOLEAN, buf : Buffers \cup {NoBuffer, Anywhere}, owned : BOOLEAN]

OwnBuffer(r) == IF r.owned THEN r.buf # NoBuffer ELSE r.buf = NoBuffer

StdioTypeOK ==
  /\ stream \in [Streams -> StreamFields] /\ \A f \in Streams : OwnBuffer(stream[f])
  /\ live \subseteq Streams /\ opened \subseteq Descriptors /\ buffers \subseteq Buffers
  /\ offset \in [Descriptors -> Nat] /\ length \in [Descriptors -> Nat]
  /\ \A d \in Descriptors : offset[d] <= length[d]

\* What the streams have as long as the heap does: nothing but a buffer that is
\* allocated was freed, or one of the two cases in which it was has been met.
StreamsKept == DescriptorsOwned /\ BuffersOwned /\ EofIsTrue

HeapWarned ==
  /\ astray \subseteq {"file", "buffer", "heap"}
  /\ "heap" \in astray => astray \cap {"file", "buffer"} # {}

StdioInv == StdioTypeOK /\ StreamsKept /\ HeapWarned

LEMMA InitStdioInv == StdioInit => StdioInv
<1> SUFFICES ASSUME StdioInit PROVE StdioInv
  OBVIOUS
<1>1. Blank \in StreamFields /\ OwnBuffer(Blank)
  BY DEF Blank, StreamFields, OwnBuffer
<1>2. StdioTypeOK
  BY <1>1 DEF StdioInit, StdioTypeOK
<1>3. StreamsKept
  BY DEF StdioInit, StreamsKept, DescriptorsOwned, BuffersOwned, EofIsTrue
<1>4. HeapWarned
  BY DEF StdioInit, HeapWarned
<1> QED BY <1>2, <1>3, <1>4 DEF StdioInv

LEMMA LiveStream ==
    ASSUME StdioInv, NEW f \in live
    PROVE  /\ f \in Streams /\ stream[f] \in StreamFields /\ OwnBuffer(stream[f])
           /\ stream[f].fd \in Nat /\ stream[f].is_eof \in BOOLEAN /\ stream[f].owned \in BOOLEAN
           /\ "file" \notin astray => stream[f].fd \in opened /\ stream[f].fd \in Descriptors
<1>1. f \in Streams /\ stream[f] \in StreamFields /\ OwnBuffer(stream[f]) /\ opened \subseteq Descriptors
  BY DEF StdioInv, StdioTypeOK
<1>2. stream[f].fd \in Nat /\ stream[f].is_eof \in BOOLEAN /\ stream[f].owned \in BOOLEAN
  BY <1>1 DEF StreamFields
<1>3. "file" \notin astray => stream[f].fd \in opened
  BY DEF StdioInv, StreamsKept, DescriptorsOwned
<1> QED BY <1>1, <1>2, <1>3

LEMMA FreshFields ==
    ASSUME NEW d \in Nat
    PROVE  /\ Fresh(d) \in StreamFields /\ OwnBuffer(Fresh(d))
           /\ Fresh(d).fd = d /\ Fresh(d).is_eof = FALSE /\ Fresh(d).owned = FALSE
           /\ Fresh(d).buf = NoBuffer
BY DEF Fresh, Blank, StreamFields, OwnBuffer

LEMMA FirstFreeIsFree ==
    ASSUME StdioInv, opened # Descriptors
    PROVE  FirstFree \in Descriptors \ opened /\ FirstFree \in Nat
<1>1. Descriptors \ opened \in SUBSET Nat /\ Descriptors \ opened # {}
  BY StdioAssumption DEF StdioInv, StdioTypeOK
<1> QED BY <1>1, MinExists DEF FirstFree

\* A file that is opened changes nothing of those that are.
LEMMA OpenOnLeavesOthers ==
    ASSUME StdioInv, NEW start, OpenOn(start)
    PROVE  /\ FirstFree \in Descriptors \ opened /\ FirstFree \in Nat
           /\ opened' = opened \cup {FirstFree}
           /\ offset' \in [Descriptors -> Nat] /\ length' \in [Descriptors -> Nat]
           /\ \A d \in Descriptors : offset'[d] <= length'[d]
           /\ \A d \in opened : offset'[d] = offset[d] /\ length'[d] = length[d]
<1>1. FirstFree \in Descriptors \ opened /\ FirstFree \in Nat /\ opened' = opened \cup {FirstFree}
  BY FirstFreeIsFree DEF OpenOn
<1>2. PICK size \in 0..MaxFileSize :
        /\ length' = [length EXCEPT ![FirstFree] = size]
        /\ offset' = [offset EXCEPT ![FirstFree] = IF start = "end" THEN size ELSE 0]
  BY DEF OpenOn
<1>3. PICK at \in Nat : at <= size /\ at = IF start = "end" THEN size ELSE 0
  OBVIOUS
<1>4. PICK d \in Descriptors \ opened : d = FirstFree
  BY <1>1
<1>5. length' = [length EXCEPT ![d] = size] /\ offset' = [offset EXCEPT ![d] = at]
  BY <1>2, <1>3, <1>4
<1>6. /\ offset \in [Descriptors -> Nat] /\ length \in [Descriptors -> Nat]
      /\ \A e \in Descriptors : offset[e] <= length[e]
      /\ opened \subseteq Descriptors
  BY DEF StdioInv, StdioTypeOK
<1> QED BY <1>1, <1>3, <1>5, <1>6

(***************************************************************************)
(* One stream changes.                                                     *)
(***************************************************************************)
LEMMA OneStream ==
    ASSUME StdioInv, NEW f \in Streams, NEW r \in StreamFields, OwnBuffer(r),
           stream' = [stream EXCEPT ![f] = r]
    PROVE  /\ stream' \in [Streams -> StreamFields] /\ \A g \in Streams : OwnBuffer(stream'[g])
           /\ stream'[f] = r /\ \A g \in Streams : g # f => stream'[g] = stream[g]
BY DEF StdioInv, StdioTypeOK

\* fopen and tmpfile: the new stream has the new descriptor and no buffer, or
\* the case is one that astray notes.
LEMMA OpenedKeepsInv ==
    ASSUME StdioInv, NEW f \in Streams, f \notin live, NEW start, OpenOn(start),
           NEW r \in StreamFields, OwnBuffer(r), r.fd = FirstFree, r.is_eof = FALSE,
           r.owned => "buffer" \in astray',
           stream' = [stream EXCEPT ![f] = r], live' = live \cup {f}, buffers' = buffers,
           astray \subseteq astray', "file" \in astray' => "file" \in astray, HeapWarned'
    PROVE  StdioInv'
<1>1. /\ stream' \in [Streams -> StreamFields] /\ \A g \in Streams : OwnBuffer(stream'[g])
      /\ stream'[f] = r /\ \A g \in Streams : g # f => stream'[g] = stream[g]
  BY OneStream
<1>2. /\ FirstFree \in Descriptors \ opened /\ FirstFree \in Nat
      /\ opened' = opened \cup {FirstFree}
      /\ offset' \in [Descriptors -> Nat] /\ length' \in [Descriptors -> Nat]
      /\ \A d \in Descriptors : offset'[d] <= length'[d]
      /\ \A d \in opened : offset'[d] = offset[d] /\ length'[d] = length[d]
  BY OpenOnLeavesOthers
<1>3. live \subseteq Streams /\ opened \subseteq Descriptors /\ buffers \subseteq Buffers
  BY DEF StdioInv, StdioTypeOK
<1>4. PICK new \in Descriptors \ opened : new = FirstFree
  BY <1>2
<1>5. StdioTypeOK'
  BY <1>1, <1>2, <1>3 DEF StdioTypeOK
<1>6. \A g \in live : g # f /\ g \in Streams /\ stream'[g] = stream[g]
  BY <1>1, <1>3
<1>7. ASSUME "file" \notin astray
      PROVE  /\ opened' = {stream'[g].fd : g \in live'}
             /\ \A g, h \in live' : stream'[g].fd = stream'[h].fd => g = h
  <2>1. /\ opened = {stream[g].fd : g \in live}
        /\ \A g, h \in live : stream[g].fd = stream[h].fd => g = h
    BY <1>7 DEF StdioInv, StreamsKept, DescriptorsOwned
  <2>2. {stream'[g].fd : g \in live'} = {stream[g].fd : g \in live} \cup {new}
    BY <1>1, <1>4, <1>6
  <2>3. \A g \in live : stream'[g].fd # new
    BY <1>4, <1>6, <2>1
  <2> QED BY <1>1, <1>2, <1>4, <1>6, <2>1, <2>2, <2>3
<1>8. DescriptorsOwned'
  BY <1>7 DEF DescriptorsOwned
<1>9. BuffersOwned'
  <2>1. SUFFICES ASSUME astray' = {} PROVE \A g \in live' : stream'[g].owned =>
                   /\ stream'[g].buf \in buffers'
                   /\ \A h \in live' : stream'[h].buf = stream'[g].buf => g = h
    BY DEF BuffersOwned
  <2>2. astray = {} /\ r.owned = FALSE /\ r.buf = NoBuffer
    <3>1. ~r.owned
      BY <2>1
    <3>2. r.owned \in BOOLEAN
      BY DEF StreamFields
    <3> QED BY <2>1, <3>1, <3>2 DEF OwnBuffer
  <2>3. \A g \in live : stream[g].owned => /\ stream[g].buf \in buffers
                                          /\ \A h \in live : stream[h].buf = stream[g].buf => g = h
    BY <2>2 DEF StdioInv, StreamsKept, BuffersOwned
  <2>4. \A g \in live : stream[g].owned => stream[g].buf # NoBuffer
    BY <1>3, <2>3, StdioAssumption
  <2> QED BY <1>1, <1>6, <2>2, <2>3, <2>4
<1>10. EofIsTrue'
  <2>1. SUFFICES ASSUME "file" \notin astray', NEW g \in live', stream'[g].is_eof
                 PROVE  offset'[stream'[g].fd] = length'[stream'[g].fd]
    BY DEF EofIsTrue
  <2>2. g \in live
    BY <1>1, <2>1
  <2>3. "file" \notin astray
    BY <2>1
  <2>4. stream[g].fd \in opened /\ offset[stream[g].fd] = length[stream[g].fd]
    BY <1>6, <2>1, <2>2, <2>3 DEF StdioInv, StreamsKept, DescriptorsOwned, EofIsTrue
  <2> QED BY <1>2, <1>6, <2>2, <2>4
<1> QED BY <1>5, <1>8, <1>9, <1>10 DEF StdioInv, StreamsKept

LEMMA FopenKeepsInv ==
    ASSUME StdioInv, NEW f \in Streams, Fopen(f)
    PROVE  StdioInv'
<1>1. PICK start : OpenOn(start)
  BY DEF Fopen
<1>2. FirstFree \in Nat
  BY <1>1, OpenOnLeavesOthers
<1>3. PICK r : r = Fresh(FirstFree)
  OBVIOUS
<1>4. /\ r \in StreamFields /\ OwnBuffer(r) /\ r.fd = FirstFree /\ r.is_eof = FALSE /\ r.owned = FALSE
  BY <1>2, <1>3, FreshFields
<1>5. /\ f \notin live /\ stream' = [stream EXCEPT ![f] = r] /\ live' = live \cup {f}
      /\ buffers' = buffers /\ astray' = astray
  BY <1>3 DEF Fopen
<1>6. HeapWarned'
  BY <1>5 DEF StdioInv, HeapWarned
<1> QED BY <1>1, <1>4, <1>5, <1>6, OpenedKeepsInv

LEMMA TmpfileKeepsInv ==
    ASSUME StdioInv, NEW f \in Streams, Tmpfile(f)
    PROVE  StdioInv'
<1>1. OpenOn("start") /\ f \notin live /\ live' = live \cup {f} /\ buffers' = buffers
  BY DEF Tmpfile
<1>2. FirstFree \in Nat
  BY <1>1, OpenOnLeavesOthers
<1>3. PICK b \in Buffers \cup {NoBuffer, Anywhere} :
        /\ stream' = [stream EXCEPT ![f] = [Fresh(FirstFree) EXCEPT !.buf = b, !.owned = b # NoBuffer]]
        /\ astray' = IF b = NoBuffer THEN astray ELSE astray \cup {"buffer"}
  BY DEF Tmpfile
<1>4. PICK own \in BOOLEAN : own = (b # NoBuffer) /\ (IF own THEN b # NoBuffer ELSE b = NoBuffer)
  <2>1. CASE b = NoBuffer
    <3>1. FALSE = (b # NoBuffer)
      BY <2>1
    <3> QED BY <2>1, <3>1
  <2>2. CASE b # NoBuffer
    <3>1. TRUE = (b # NoBuffer)
      BY <2>2
    <3> QED BY <2>2, <3>1
  <2> QED BY <2>1, <2>2
<1>5. PICK r : r = [Fresh(FirstFree) EXCEPT !.buf = b, !.owned = own]
  OBVIOUS
<1>6. r = [fd |-> FirstFree, is_eof |-> FALSE, error |-> FALSE, buf |-> b, owned |-> own]
  BY <1>5 DEF Fresh, Blank
<1>7. r \in StreamFields /\ OwnBuffer(r) /\ r.fd = FirstFree /\ r.is_eof = FALSE /\ r.owned = own
  BY <1>2, <1>4, <1>6 DEF StreamFields, OwnBuffer
<1>8. stream' = [stream EXCEPT ![f] = r]
  BY <1>3, <1>4, <1>5
<1>9. astray \subseteq astray' /\ ("file" \in astray' => "file" \in astray)
      /\ (r.owned => "buffer" \in astray')
  BY <1>3, <1>4, <1>7
<1>10. HeapWarned'
  BY <1>3 DEF StdioInv, HeapWarned
<1> QED BY <1>1, <1>7, <1>8, <1>9, <1>10, OpenedKeepsInv

(***************************************************************************)
(* A live stream keeps its descriptor; its other fields, its buffer and    *)
(* the position in its file may change.                                    *)
(***************************************************************************)
LEMMA ChangedKeepsInv ==
    ASSUME StdioInv, NEW f \in live, NEW r \in StreamFields, OwnBuffer(r), r.fd = stream[f].fd,
           stream' = [stream EXCEPT ![f] = r], live' = live, opened' = opened,
           astray \subseteq astray', "file" \in astray' => "file" \in astray, HeapWarned',
           buffers' \subseteq Buffers,
           offset' \in [Descriptors -> Nat], length' \in [Descriptors -> Nat],
           \A d \in Descriptors : offset'[d] <= length'[d],
           \A d \in Descriptors : d # r.fd => offset'[d] = offset[d] /\ length'[d] = length[d],
           r.is_eof /\ "file" \notin astray => offset'[r.fd] = length'[r.fd],
           astray = {} => /\ r.owned => r.buf \in buffers'
                          /\ \A g \in live : g # f /\ stream[g].owned =>
                               stream[g].buf \in buffers' /\ r.buf # stream[g].buf
    PROVE  StdioInv'
<1>1. /\ stream' \in [Streams -> StreamFields] /\ \A g \in Streams : OwnBuffer(stream'[g])
      /\ stream'[f] = r /\ \A g \in Streams : g # f => stream'[g] = stream[g]
  BY OneStream, LiveStream
<1>2. live \subseteq Streams /\ opened \subseteq Descriptors /\ buffers \subseteq Buffers
  BY DEF StdioInv, StdioTypeOK
<1>3. StdioTypeOK'
  BY <1>1, <1>2 DEF StdioTypeOK
<1>4. \A g \in live : g \in Streams /\ stream'[g].fd = stream[g].fd
  BY <1>1, <1>2
<1>5. DescriptorsOwned'
  BY <1>4 DEF StdioInv, StreamsKept, DescriptorsOwned
<1>6. BuffersOwned'
  <2>1. SUFFICES ASSUME astray = {}, NEW g \in live, stream'[g].owned
                 PROVE  /\ stream'[g].buf \in buffers'
                        /\ \A h \in live : stream'[h].buf = stream'[g].buf => g = h
    BY DEF BuffersOwned
  <2>2. \A h \in live : stream[h].owned => /\ stream[h].buf \in buffers
                                          /\ \A k \in live : stream[k].buf = stream[h].buf => h = k
    BY <2>1 DEF StdioInv, StreamsKept, BuffersOwned
  <2>3. \A h \in live : ~stream[h].owned => stream[h].buf = NoBuffer
    BY <1>2 DEF StdioInv, StdioTypeOK, OwnBuffer
  <2>4. stream'[g].buf # NoBuffer
    BY <1>1, <1>2, <2>1, StdioAssumption DEF OwnBuffer
  <2>5. CASE g = f
    BY <1>1, <1>2, <2>1, <2>3, <2>4, <2>5
  <2>6. CASE g # f
    BY <1>1, <1>2, <2>1, <2>2, <2>6
  <2> QED BY <2>5, <2>6
<1>7. EofIsTrue'
  <2>1. SUFFICES ASSUME "file" \notin astray, NEW g \in live, stream'[g].is_eof
                 PROVE  offset'[stream'[g].fd] = length'[stream'[g].fd]
    BY DEF EofIsTrue
  <2>2. CASE g = f
    BY <1>1, <2>1, <2>2
  <2>3. CASE g # f
    <3>1. stream[g].fd \in Descriptors /\ stream[g].is_eof /\ stream'[g].fd = stream[g].fd
      BY <1>1, <1>2, <2>1, <2>3, LiveStream
    <3>2. stream[g].fd # r.fd
      BY <2>1, <2>3 DEF StdioInv, StreamsKept, DescriptorsOwned
    <3>3. offset[stream[g].fd] = length[stream[g].fd]
      BY <2>1, <3>1 DEF StdioInv, StreamsKept, EofIsTrue
    <3> QED BY <3>1, <3>2, <3>3
  <2> QED BY <2>2, <2>3
<1> QED BY <1>3, <1>5, <1>6, <1>7 DEF StdioInv, StreamsKept

\* What the invariant says of the other streams' buffers.
LEMMA OtherBuffers ==
    ASSUME StdioInv, NEW f \in live, astray = {}
    PROVE  /\ stream[f].owned => stream[f].buf \in buffers
           /\ \A g \in live : g # f /\ stream[g].owned =>
                /\ stream[g].buf \in buffers /\ stream[g].buf # NoBuffer
                /\ stream[f].buf # stream[g].buf
<1>1. \A h \in live : stream[h].owned => /\ stream[h].buf \in buffers
                                        /\ \A k \in live : stream[k].buf = stream[h].buf => h = k
  BY DEF StdioInv, StreamsKept, BuffersOwned
<1>2. NoBuffer \notin buffers
  BY StdioAssumption DEF StdioInv, StdioTypeOK
<1> QED BY <1>1, <1>2

\* Only the fields of a stream that say nothing of its buffer change.
LEMMA FlagsKeepInv ==
    ASSUME StdioInv, NEW f \in live, NEW r \in StreamFields,
           r.fd = stream[f].fd, r.buf = stream[f].buf, r.owned = stream[f].owned,
           stream' = [stream EXCEPT ![f] = r], live' = live, opened' = opened, astray' = astray,
           buffers' = buffers,
           offset' \in [Descriptors -> Nat], length' \in [Descriptors -> Nat],
           \A d \in Descriptors : offset'[d] <= length'[d],
           \A d \in Descriptors : d # r.fd => offset'[d] = offset[d] /\ length'[d] = length[d],
           r.is_eof /\ "file" \notin astray => offset'[r.fd] = length'[r.fd]
    PROVE  StdioInv'
<1>1. OwnBuffer(r) /\ buffers' \subseteq Buffers
  BY LiveStream DEF OwnBuffer, StdioInv, StdioTypeOK
<1>2. astray = {} => /\ r.owned => r.buf \in buffers'
                     /\ \A g \in live : g # f /\ stream[g].owned =>
                          stream[g].buf \in buffers' /\ r.buf # stream[g].buf
  BY OtherBuffers
<1>3. HeapWarned' /\ astray \subseteq astray' /\ ("file" \in astray' => "file" \in astray)
  BY DEF StdioInv, HeapWarned
<1> QED BY <1>1, <1>2, <1>3, ChangedKeepsInv

(***************************************************************************)
(* Reading, writing and seeking.                                           *)
(***************************************************************************)
LEMMA FilesTyped ==
    ASSUME StdioInv
    PROVE  /\ offset \in [Descriptors -> Nat] /\ length \in [Descriptors -> Nat]
           /\ \A d \in Descriptors : offset[d] <= length[d]
           /\ opened \subseteq Descriptors /\ live \subseteq Streams
           /\ buffers \subseteq Buffers
           /\ \A f \in live : "file" \notin astray /\ stream[f].is_eof =>
                offset[stream[f].fd] = length[stream[f].fd]
BY DEF StdioInv, StdioTypeOK, StreamsKept, EofIsTrue

\* Error is set and nothing else: a stream whose descriptor is closed.
LEMMA ErrorKeepsInv ==
    ASSUME StdioInv, NEW f \in live, stream' = [stream EXCEPT ![f].error = TRUE],
           live' = live, opened' = opened, astray' = astray, buffers' = buffers,
           offset' = offset, length' = length
    PROVE  StdioInv'
<1>1. stream[f] \in StreamFields
  BY LiveStream
<1>2. PICK r \in StreamFields : r = [stream[f] EXCEPT !.error = TRUE]
  BY <1>1 DEF StreamFields
<1>3. /\ r.fd = stream[f].fd /\ r.buf = stream[f].buf /\ r.owned = stream[f].owned
      /\ r.is_eof = stream[f].is_eof
  BY <1>1, <1>2 DEF StreamFields
<1>4. stream' = [stream EXCEPT ![f] = r]
  BY <1>2
<1> QED BY <1>3, <1>4, FilesTyped, FlagsKeepInv

LEMMA FreadKeepsInv ==
    ASSUME StdioInv, NEW f \in Streams, NEW n \in 1..(MaxFileSize + 1), Fread(f, n)
    PROVE  StdioInv'
<1>1. /\ f \in live /\ live' = live /\ opened' = opened /\ length' = length
      /\ buffers' = buffers /\ astray' = astray
  BY DEF Fread
<1>2. CASE stream[f].fd \notin opened
  BY <1>1, <1>2, ErrorKeepsInv DEF Fread
<1>3. CASE stream[f].fd \in opened
  <2>1. PICK d \in Descriptors : d = stream[f].fd
    BY <1>3, FilesTyped
  <2>2. PICK at \in Nat, size \in Nat : at = offset[d] /\ size = length[d] /\ at <= size
    BY FilesTyped
  <2>3. PICK left \in Nat : left = size - at
    BY <2>2
  <2>4. n \in Nat
    BY StdioAssumption
  <2>5. PICK step \in Nat : /\ step = Min({n, left}) /\ step <= left
                            /\ n > left => step = left
    <3>1. {n, left} \in SUBSET Nat /\ {n, left} # {}
      BY <2>4
    <3>2. Min({n, left}) \in {n, left} /\ \A x \in {n, left} : Min({n, left}) <= x
      BY <3>1, MinExists
    <3> QED BY <2>4, <3>2
  <2>6. offset' = [offset EXCEPT ![d] = at + step] /\ stream' = [stream EXCEPT ![f].is_eof = n > left]
    BY <1>3, <2>1, <2>2, <2>3, <2>5 DEF Fread
  <2>7. PICK b \in BOOLEAN : b = (n > left) /\ (b => n > left)
    <3>1. CASE n > left
      <4>1. TRUE = (n > left)
        BY <3>1
      <4> QED BY <3>1, <4>1
    <3>2. CASE ~(n > left)
      <4>1. FALSE = (n > left)
        BY <3>2
      <4> QED BY <3>2, <4>1
    <3> QED BY <3>1, <3>2
  <2>8. stream[f] \in StreamFields
    BY <1>1, LiveStream
  <2>9. PICK r \in StreamFields : r = [stream[f] EXCEPT !.is_eof = b]
    BY <2>8 DEF StreamFields
  <2>10. /\ r.fd = d /\ r.buf = stream[f].buf /\ r.owned = stream[f].owned /\ r.is_eof = b
    BY <2>1, <2>8, <2>9 DEF StreamFields
  <2>11. stream' = [stream EXCEPT ![f] = r]
    BY <2>6, <2>7, <2>9
  <2>12. at + step \in Nat /\ at + step <= size /\ (b => at + step = size)
    BY <2>2, <2>3, <2>4, <2>5, <2>7
  <2>13. PICK to \in Nat : to = at + step
    BY <2>12
  <2>14. offset' = [offset EXCEPT ![d] = to] /\ to <= size /\ (b => to = size)
    BY <2>6, <2>12, <2>13
  <2>15. /\ offset' \in [Descriptors -> Nat] /\ length' \in [Descriptors -> Nat]
         /\ \A e \in Descriptors : offset'[e] <= length'[e]
         /\ \A e \in Descriptors : e # r.fd => offset'[e] = offset[e] /\ length'[e] = length[e]
         /\ r.is_eof => offset'[r.fd] = length'[r.fd]
    BY <1>1, <2>2, <2>10, <2>14, FilesTyped
  <2> QED BY <1>1, <2>1, <2>10, <2>11, <2>15, FlagsKeepInv
<1> QED BY <1>2, <1>3

LEMMA FwriteKeepsInv ==
    ASSUME StdioInv, NEW f \in Streams, Fwrite(f)
    PROVE  StdioInv'
<1>1. /\ f \in live /\ stream[f].fd \in opened /\ stream' = stream /\ live' = live
      /\ opened' = opened /\ buffers' = buffers /\ astray' = astray
  BY DEF Fwrite
<1>2. PICK d \in Descriptors : d = stream[f].fd
  BY <1>1, FilesTyped
<1>3. PICK at \in Nat, size \in Nat : at = offset[d] /\ size = length[d] /\ at <= size
  BY FilesTyped
<1>4. PICK to \in Nat : to = at + 1
  BY <1>3
<1>5. PICK new \in Nat : new = Max({size, to}) /\ to <= new /\ (at = size => new = to)
  <2>1. Max({size, to}) = IF size < to THEN to ELSE size
    BY <1>3, <1>4 DEF Max
  <2> QED BY <1>3, <1>4, <2>1
<1>6. offset' = [offset EXCEPT ![d] = to] /\ length' = [length EXCEPT ![d] = new]
  BY <1>2, <1>3, <1>4, <1>5 DEF Fwrite
<1>7. PICK r \in StreamFields : r = stream[f]
  BY <1>1, LiveStream
<1>8. stream' = [stream EXCEPT ![f] = r]
  BY <1>1, <1>7 DEF StdioInv, StdioTypeOK
<1>9. r.fd = d /\ r.fd = stream[f].fd /\ r.buf = stream[f].buf /\ r.owned = stream[f].owned
  BY <1>2, <1>7
<1>10. /\ offset' \in [Descriptors -> Nat] /\ length' \in [Descriptors -> Nat]
       /\ \A e \in Descriptors : offset'[e] <= length'[e]
       /\ \A e \in Descriptors : e # r.fd => offset'[e] = offset[e] /\ length'[e] = length[e]
  BY <1>3, <1>5, <1>6, <1>9, FilesTyped
<1>11. r.is_eof /\ "file" \notin astray => offset'[r.fd] = length'[r.fd]
  <2>1. r.is_eof /\ "file" \notin astray => at = size
    BY <1>1, <1>2, <1>3, <1>7, FilesTyped
  <2>2. offset'[r.fd] = to /\ length'[r.fd] = new
    BY <1>6, <1>9, FilesTyped
  <2> QED BY <1>5, <2>1, <2>2
<1> QED BY <1>1, <1>8, <1>9, <1>10, <1>11, FlagsKeepInv

LEMMA FseekKeepsInv ==
    ASSUME StdioInv, NEW f \in Streams, NEW to \in Nat, Fseek(f, to)
    PROVE  StdioInv'
<1>1. /\ f \in live /\ stream[f].fd \in opened /\ live' = live /\ length' = length
      /\ opened' = opened /\ buffers' = buffers /\ astray' = astray
      /\ stream' = [stream EXCEPT ![f].is_eof = FALSE]
  BY DEF Fseek
<1>2. PICK d \in Descriptors : d = stream[f].fd
  BY <1>1, FilesTyped
<1>3. PICK size \in Nat : size = length[d]
  BY FilesTyped
<1>4. PICK at \in Nat : at = Min({to, size}) /\ at <= size
  <2>1. {to, size} \in SUBSET Nat /\ {to, size} # {}
    OBVIOUS
  <2>2. Min({to, size}) \in {to, size} /\ \A x \in {to, size} : Min({to, size}) <= x
    BY <2>1, MinExists
  <2> QED BY <2>2
<1>5. offset' = [offset EXCEPT ![d] = at]
  BY <1>2, <1>3, <1>4 DEF Fseek
<1>6. stream[f] \in StreamFields
  BY <1>1, LiveStream
<1>7. PICK r \in StreamFields : r = [stream[f] EXCEPT !.is_eof = FALSE]
  BY <1>6 DEF StreamFields
<1>8. r.fd = d /\ r.buf = stream[f].buf /\ r.owned = stream[f].owned /\ r.is_eof = FALSE
  BY <1>2, <1>6, <1>7 DEF StreamFields
<1>9. stream' = [stream EXCEPT ![f] = r]
  BY <1>1, <1>7
<1>10. /\ offset' \in [Descriptors -> Nat] /\ length' \in [Descriptors -> Nat]
       /\ \A e \in Descriptors : offset'[e] <= length'[e]
       /\ \A e \in Descriptors : e # d => offset'[e] = offset[e] /\ length'[e] = length[e]
  BY <1>1, <1>3, <1>4, <1>5, FilesTyped
<1> QED BY <1>1, <1>2, <1>8, <1>9, <1>10, FlagsKeepInv

LEMMA ClearerrKeepsInv ==
    ASSUME StdioInv, NEW f \in Streams, Clearerr(f)
    PROVE  StdioInv'
<1>1. /\ f \in live /\ live' = live /\ opened' = opened /\ buffers' = buffers
      /\ astray' = astray /\ offset' = offset /\ length' = length
      /\ stream' = [stream EXCEPT ![f].is_eof = FALSE, ![f].error = FALSE]
  BY DEF Clearerr
<1>2. stream[f] \in StreamFields /\ f \in Streams
  BY <1>1, LiveStream
<1>3. PICK r \in StreamFields : r = [stream[f] EXCEPT !.is_eof = FALSE, !.error = FALSE]
  BY <1>2 DEF StreamFields
<1>4. /\ r.fd = stream[f].fd /\ r.buf = stream[f].buf /\ r.owned = stream[f].owned
      /\ r.is_eof = FALSE
  BY <1>2, <1>3 DEF StreamFields
<1>5. stream' = [stream EXCEPT ![f] = r]
  BY <1>1, <1>2, <1>3 DEF StdioInv, StdioTypeOK
<1> QED BY <1>1, <1>3, <1>4, <1>5, FilesTyped, FlagsKeepInv

(***************************************************************************)
(* Buffers, closing and reopening.                                         *)
(***************************************************************************)
LEMMA WithoutBufferKeepsOthers ==
    ASSUME StdioInv, NEW f \in live
    PROVE  /\ WithoutBuffer(f) \subseteq buffers
           /\ astray = {} => \A g \in live : g # f /\ stream[g].owned =>
                               stream[g].buf \in WithoutBuffer(f)
<1>1. WithoutBuffer(f) \subseteq buffers
  BY DEF WithoutBuffer
<1>2. ASSUME astray = {}, NEW g \in live, g # f, stream[g].owned
      PROVE  stream[g].buf \in WithoutBuffer(f)
  BY <1>2, OtherBuffers DEF WithoutBuffer
<1> QED BY <1>1, <1>2

LEMMA UnbufferedFields ==
    ASSUME StdioInv, NEW f \in live
    PROVE  /\ Unbuffered(f) \in StreamFields /\ OwnBuffer(Unbuffered(f))
           /\ Unbuffered(f) = [fd |-> stream[f].fd, is_eof |-> stream[f].is_eof,
                               error |-> stream[f].error, buf |-> NoBuffer, owned |-> FALSE]
<1>1. stream[f] \in StreamFields
  BY LiveStream
<1>2. Unbuffered(f) = [fd |-> stream[f].fd, is_eof |-> stream[f].is_eof,
                       error |-> stream[f].error, buf |-> NoBuffer, owned |-> FALSE]
  <2>1. stream[f] = [fd |-> stream[f].fd, is_eof |-> stream[f].is_eof, error |-> stream[f].error,
                     buf |-> stream[f].buf, owned |-> stream[f].owned]
    BY <1>1 DEF StreamFields
  <2>2. PICK s : s = [fd |-> stream[f].fd, is_eof |-> stream[f].is_eof, error |-> stream[f].error,
                      buf |-> stream[f].buf, owned |-> stream[f].owned]
    OBVIOUS
  <2>3. PICK r : r = [s EXCEPT !.buf = NoBuffer, !.owned = FALSE]
    OBVIOUS
  <2>4. r = [fd |-> stream[f].fd, is_eof |-> stream[f].is_eof,
             error |-> stream[f].error, buf |-> NoBuffer, owned |-> FALSE]
    BY <2>2, <2>3
  <2>5. Unbuffered(f) = r
    BY <2>1, <2>2, <2>3 DEF Unbuffered
  <2> QED BY <2>4, <2>5
<1> QED BY <1>1, <1>2 DEF StreamFields, OwnBuffer

\* A stream frees what is no allocated buffer only where that has been noted.
LEMMA AfterFreeIsWarned ==
    ASSUME StdioInv, NEW f \in live, astray' = AfterFree(f)
    PROVE  HeapWarned' /\ astray \subseteq astray' /\ ("file" \in astray' => "file" \in astray)
<1>1. astray = {} => astray' = astray
  BY OtherBuffers DEF AfterFree
<1> QED BY <1>1 DEF AfterFree, StdioInv, HeapWarned

LEMMA SetvbufKeepsInv ==
    ASSUME StdioInv, NEW f \in Streams, Setvbuf(f)
    PROVE  StdioInv'
<1>1. /\ f \in live /\ live' = live /\ opened' = opened /\ astray' = AfterFree(f)
      /\ offset' = offset /\ length' = length
  BY DEF Setvbuf
<1> DEFINE Warned == HeapWarned' /\ astray \subseteq astray' /\ ("file" \in astray' => "file" \in astray)
<1>0. Warned
  BY <1>1, AfterFreeIsWarned
<1>2. stream[f] \in StreamFields
  BY <1>1, LiveStream
<1>3. /\ Unbuffered(f) \in StreamFields /\ OwnBuffer(Unbuffered(f))
      /\ Unbuffered(f) = [fd |-> stream[f].fd, is_eof |-> stream[f].is_eof,
                          error |-> stream[f].error, buf |-> NoBuffer, owned |-> FALSE]
  BY <1>1, UnbufferedFields
<1>4. PICK kept \in SUBSET buffers : kept = WithoutBuffer(f)
  BY <1>1, WithoutBufferKeepsOthers
<1>5. astray = {} => \A g \in live : g # f /\ stream[g].owned => /\ stream[g].buf \in kept
                                                               /\ stream[g].buf # NoBuffer
  BY <1>1, <1>4, WithoutBufferKeepsOthers, OtherBuffers
<1>6. buffers \subseteq Buffers
  BY FilesTyped
<1>7. ASSUME NEW r \in StreamFields, r.fd = stream[f].fd, r.is_eof = stream[f].is_eof,
             r.buf = NoBuffer, r.owned = FALSE,
             stream' = [stream EXCEPT ![f] = r], buffers' = kept
      PROVE  StdioInv'
  <2>1. OwnBuffer(r) /\ buffers' \subseteq Buffers
    BY <1>6, <1>7 DEF OwnBuffer
  <2>2. astray = {} => /\ r.owned => r.buf \in buffers'
                       /\ \A g \in live : g # f /\ stream[g].owned =>
                            stream[g].buf \in buffers' /\ r.buf # stream[g].buf
    BY <1>5, <1>7
  <2> QED BY <1>0, <1>1, <1>7, <2>1, <2>2, FilesTyped, ChangedKeepsInv
<1>8. CASE stream' = [stream EXCEPT ![f] = Unbuffered(f)] /\ buffers' = WithoutBuffer(f)
  <2>1. PICK r \in StreamFields : r = Unbuffered(f)
    BY <1>3
  <2>2. /\ r.fd = stream[f].fd /\ r.is_eof = stream[f].is_eof /\ r.buf = NoBuffer /\ r.owned = FALSE
    BY <1>3, <2>1
  <2>3. stream' = [stream EXCEPT ![f] = r] /\ buffers' = kept
    BY <1>4, <1>8, <2>1
  <2> QED BY <1>7, <2>2, <2>3
<1>9. CASE /\ stream' = [stream EXCEPT ![f] = [Unbuffered(f) EXCEPT !.error = TRUE]]
           /\ buffers' = WithoutBuffer(f)
  <2>1. PICK r \in StreamFields : r = [Unbuffered(f) EXCEPT !.error = TRUE]
    BY <1>3 DEF StreamFields
  <2>2. /\ r.fd = stream[f].fd /\ r.is_eof = stream[f].is_eof /\ r.buf = NoBuffer /\ r.owned = FALSE
    BY <1>3, <2>1
  <2>3. stream' = [stream EXCEPT ![f] = r] /\ buffers' = kept
    BY <1>4, <1>9, <2>1
  <2> QED BY <1>7, <2>2, <2>3
<1>10. ASSUME NEW b \in Buffers \ WithoutBuffer(f),
              stream' = [stream EXCEPT ![f] = [Unbuffered(f) EXCEPT !.buf = b, !.owned = TRUE]],
              buffers' = WithoutBuffer(f) \cup {b}
       PROVE  StdioInv'
  <2>1. PICK r : r = [Unbuffered(f) EXCEPT !.buf = b, !.owned = TRUE]
    OBVIOUS
  <2>2. r = [fd |-> stream[f].fd, is_eof |-> stream[f].is_eof, error |-> stream[f].error,
             buf |-> b, owned |-> TRUE]
    <3>1. PICK s : s = Unbuffered(f)
      OBVIOUS
    <3>2. s = [fd |-> stream[f].fd, is_eof |-> stream[f].is_eof, error |-> stream[f].error,
               buf |-> NoBuffer, owned |-> FALSE]
      BY <1>3, <3>1
    <3>3. r = [s EXCEPT !.buf = b, !.owned = TRUE]
      BY <2>1, <3>1
    <3> QED BY <3>2, <3>3
  <2>3. /\ r \in StreamFields /\ OwnBuffer(r) /\ r.fd = stream[f].fd
        /\ r.is_eof = stream[f].is_eof /\ r.buf = b
    <3>1. b \in Buffers /\ b # NoBuffer
      BY <1>10, StdioAssumption
    <3> QED BY <1>2, <2>2, <3>1 DEF StreamFields, OwnBuffer
  <2>4. stream' = [stream EXCEPT ![f] = r] /\ buffers' = kept \cup {b} /\ b \notin kept
    BY <1>4, <1>10, <2>1
  <2>5. buffers' \subseteq Buffers
    BY <1>6, <2>4
  <2>6. astray = {} => /\ r.owned => r.buf \in buffers'
                       /\ \A g \in live : g # f /\ stream[g].owned =>
                            stream[g].buf \in buffers' /\ r.buf # stream[g].buf
    BY <1>5, <2>3, <2>4
  <2> QED BY <1>0, <1>1, <2>3, <2>4, <2>5, <2>6, FilesTyped, ChangedKeepsInv
<1> QED BY <1>8, <1>9, <1>10 DEF Setvbuf

LEMMA FcloseKeepsInv ==
    ASSUME StdioInv, NEW f \in Streams, Fclose(f)
    PROVE  StdioInv'
<1>1. /\ f \in live /\ buffers' = WithoutBuffer(f) /\ astray' = AfterFree(f)
      /\ offset' = offset /\ length' = length
  BY DEF Fclose
<1> DEFINE Warned == HeapWarned' /\ astray \subseteq astray' /\ ("file" \in astray' => "file" \in astray)
<1>0. Warned
  BY <1>1, AfterFreeIsWarned
<1>2. buffers' \subseteq buffers /\ buffers' \subseteq Buffers
  BY <1>1, WithoutBufferKeepsOthers, FilesTyped
<1>3. CASE stream[f].fd \notin opened
  <2>1. /\ stream' = [stream EXCEPT ![f].error = TRUE] /\ live' = live /\ opened' = opened
    BY <1>3 DEF Fclose
  <2>2. "file" \in astray
    BY <1>1, <1>3, LiveStream
  <2>3. stream[f] \in StreamFields /\ OwnBuffer(stream[f])
    BY <1>1, LiveStream
  <2>4. PICK r \in StreamFields : r = [stream[f] EXCEPT !.error = TRUE]
    BY <2>3 DEF StreamFields
  <2>5. r.fd = stream[f].fd /\ OwnBuffer(r)
    BY <2>3, <2>4 DEF StreamFields, OwnBuffer
  <2>6. stream' = [stream EXCEPT ![f] = r] /\ astray # {}
    BY <2>1, <2>2, <2>4
  <2> QED BY <1>0, <1>1, <1>2, <2>1, <2>2, <2>5, <2>6, FilesTyped, ChangedKeepsInv
<1>4. CASE stream[f].fd \in opened
  <2>1. opened' = opened \ {stream[f].fd} /\ live' = live \ {f} /\ stream' = [stream EXCEPT ![f] = Blank]
    BY <1>4 DEF Fclose
  <2>2. PICK r \in StreamFields : r = Blank /\ OwnBuffer(r)
    <3>1. Blank \in StreamFields /\ OwnBuffer(Blank)
      BY DEF Blank, StreamFields, OwnBuffer
    <3> QED BY <3>1
  <2>3. /\ stream' \in [Streams -> StreamFields] /\ \A g \in Streams : OwnBuffer(stream'[g])
        /\ \A g \in Streams : g # f => stream'[g] = stream[g]
    BY <2>1, <2>2, OneStream
  <2>4. \A g \in live' : g \in live /\ g # f /\ stream'[g] = stream[g]
    BY <2>1, <2>3, FilesTyped
  <2>5. StdioTypeOK'
    BY <1>1, <1>2, <2>1, <2>3 DEF StdioInv, StdioTypeOK
  <2>6. DescriptorsOwned'
    <3>1. SUFFICES ASSUME "file" \notin astray
                   PROVE  /\ opened' = {stream'[g].fd : g \in live'}
                          /\ \A g, h \in live' : stream'[g].fd = stream'[h].fd => g = h
      BY <1>0 DEF DescriptorsOwned
    <3>2. /\ opened = {stream[g].fd : g \in live}
          /\ \A g, h \in live : stream[g].fd = stream[h].fd => g = h
      BY <3>1 DEF StdioInv, StreamsKept, DescriptorsOwned
    <3>3. \A g \in live' : stream[g].fd # stream[f].fd
      BY <1>1, <2>1, <3>2
    <3>4. {stream'[g].fd : g \in live'} = {stream[g].fd : g \in live'}
      BY <2>4
    <3> QED BY <2>1, <2>4, <3>2, <3>3, <3>4
  <2>7. BuffersOwned'
    <3>1. SUFFICES ASSUME astray = {}, NEW g \in live', stream'[g].owned
                   PROVE  /\ stream'[g].buf \in buffers'
                          /\ \A h \in live' : stream'[h].buf = stream'[g].buf => g = h
      BY <1>0 DEF BuffersOwned
    <3>2. \A h \in live : stream[h].buf = stream[g].buf => g = h
      BY <2>4, <3>1 DEF StdioInv, StreamsKept, BuffersOwned
    <3>3. stream[g].buf \in WithoutBuffer(f)
      BY <1>1, <2>4, <3>1, WithoutBufferKeepsOthers
    <3> QED BY <1>1, <2>4, <3>2, <3>3
  <2>8. EofIsTrue'
    <3>1. SUFFICES ASSUME "file" \notin astray, NEW g \in live', stream'[g].is_eof
                   PROVE  offset'[stream'[g].fd] = length'[stream'[g].fd]
      BY <1>0 DEF EofIsTrue
    <3> QED BY <1>1, <2>4, <3>1 DEF StdioInv, StreamsKept, EofIsTrue
  <2> QED BY <1>0, <2>5, <2>6, <2>7, <2>8 DEF StdioInv, StreamsKept
<1> QED BY <1>3, <1>4

\* The first free descriptor once the stream's own is free too.
LEMMA ReopenedIsFree ==
    ASSUME StdioInv, NEW d \in opened
    PROVE  /\ Min((Descriptors \ opened) \cup {d}) \in Descriptors \cap Nat
           /\ Min((Descriptors \ opened) \cup {d}) \notin opened \ {d}
<1> DEFINE free == (Descriptors \ opened) \cup {d}
<1>1. opened \subseteq Descriptors
  BY FilesTyped
<1>2. free \in SUBSET Nat /\ free # {} /\ free \subseteq Descriptors \ (opened \ {d})
  BY <1>1, StdioAssumption
<1>3. Min(free) \in free
  BY <1>2, MinExists
<1> QED BY <1>2, <1>3

LEMMA FreopenKeepsInv ==
    ASSUME StdioInv, NEW f \in Streams, Freopen(f)
    PROVE  StdioInv'
<1>1. f \in live /\ live' = live /\ buffers' = buffers
  BY DEF Freopen
<1>2. stream[f] \in StreamFields /\ OwnBuffer(stream[f])
  BY <1>1, LiveStream
<1>3. /\ offset \in [Descriptors -> Nat] /\ length \in [Descriptors -> Nat]
      /\ \A d \in Descriptors : offset[d] <= length[d]
      /\ opened \subseteq Descriptors /\ live \subseteq Streams /\ buffers \subseteq Buffers
  BY FilesTyped
<1>4. CASE stream[f].fd \notin opened
  BY <1>1, <1>4, ErrorKeepsInv DEF Freopen
<1>5. ASSUME stream[f].fd \in opened, opened' = opened \ {stream[f].fd},
             astray' = astray \cup {"file"},
             stream' = [stream EXCEPT ![f].error = TRUE, ![f].is_eof = FALSE],
             offset' = offset, length' = length
      PROVE  StdioInv'
  <2>1. PICK r : r = [stream[f] EXCEPT !.error = TRUE, !.is_eof = FALSE]
    OBVIOUS
  <2>2. r \in StreamFields /\ r.buf = stream[f].buf /\ r.owned = stream[f].owned
    BY <1>2, <2>1 DEF StreamFields
  <2>3. OwnBuffer(r) /\ stream' = [stream EXCEPT ![f] = r]
    BY <1>2, <1>5, <2>1, <2>2 DEF OwnBuffer, StdioInv, StdioTypeOK
  <2>4. /\ stream' \in [Streams -> StreamFields] /\ \A g \in Streams : OwnBuffer(stream'[g])
    BY <2>2, <2>3, OneStream
  <2>5. StdioTypeOK'
    BY <1>1, <1>3, <1>5, <2>4 DEF StdioTypeOK
  <2>6. StreamsKept'
    BY <1>5 DEF StreamsKept, DescriptorsOwned, BuffersOwned, EofIsTrue
  <2>7. HeapWarned'
    BY <1>5 DEF StdioInv, HeapWarned
  <2> QED BY <2>5, <2>6, <2>7 DEF StdioInv
<1>6. ASSUME NEW fd, NEW size \in 0..MaxFileSize, stream[f].fd \in opened,
             fd = Min((Descriptors \ opened) \cup {stream[f].fd}),
             opened' = (opened \ {stream[f].fd}) \cup {fd},
             length' = [length EXCEPT ![fd] = size], offset' = [offset EXCEPT ![fd] = 0],
             stream' = [stream EXCEPT ![f] = Fresh(fd)], astray' = astray
      PROVE  StdioInv'
  <2>1. fd \in Descriptors /\ fd \in Nat /\ fd \notin opened \ {stream[f].fd}
    BY <1>6, ReopenedIsFree
  <2>2. PICK r : r = Fresh(fd)
    OBVIOUS
  <2>3. /\ r \in StreamFields /\ OwnBuffer(r) /\ r.fd = fd /\ r.is_eof = FALSE
        /\ r.owned = FALSE /\ r.buf = NoBuffer
    BY <2>1, <2>2, FreshFields
  <2>4. stream' = [stream EXCEPT ![f] = r]
    BY <1>6, <2>2
  <2>5. /\ stream' \in [Streams -> StreamFields] /\ \A g \in Streams : OwnBuffer(stream'[g])
        /\ stream'[f] = r /\ \A g \in Streams : g # f => stream'[g] = stream[g]
    BY <2>3, <2>4, OneStream
  <2>6. /\ offset' \in [Descriptors -> Nat] /\ length' \in [Descriptors -> Nat]
        /\ \A d \in Descriptors : offset'[d] <= length'[d]
        /\ \A d \in Descriptors : d # fd => offset'[d] = offset[d] /\ length'[d] = length[d]
    BY <1>3, <1>6, <2>1, StdioAssumption
  <2>7. StdioTypeOK'
    BY <1>1, <1>3, <1>6, <2>1, <2>5, <2>6 DEF StdioTypeOK
  <2>8. DescriptorsOwned'
    <3>1. SUFFICES ASSUME "file" \notin astray
                   PROVE  /\ opened' = {stream'[g].fd : g \in live}
                          /\ \A g, h \in live : stream'[g].fd = stream'[h].fd => g = h
      BY <1>1, <1>6 DEF DescriptorsOwned
    <3>2. /\ opened = {stream[g].fd : g \in live}
          /\ \A g, h \in live : stream[g].fd = stream[h].fd => g = h
      BY <3>1 DEF StdioInv, StreamsKept, DescriptorsOwned
    <3>3. \A g \in live : g # f => /\ stream'[g].fd = stream[g].fd
                                  /\ stream[g].fd \in opened \ {stream[f].fd}
      BY <1>1, <1>3, <2>5, <3>2
    <3>4. \A x \in opened \ {stream[f].fd} : \E g \in live : g # f /\ stream[g].fd = x
      BY <3>2
    <3>5. stream'[f].fd = fd
      BY <2>3, <2>5
    <3>6. opened' = {stream'[g].fd : g \in live}
      <4>1. \A x \in opened' : \E g \in live : stream'[g].fd = x
        BY <1>1, <1>6, <3>3, <3>4, <3>5
      <4>2. ASSUME NEW g \in live PROVE stream'[g].fd \in opened'
        <5>1. CASE g = f
          <6>1. opened' = (opened \ {stream[f].fd}) \cup {fd}
            BY <1>6
          <6> QED BY ONLY <3>5, <5>1, <6>1
        <5>2. CASE g # f
          <6>1. stream'[g].fd = stream[g].fd /\ stream[g].fd \in opened \ {stream[f].fd}
            BY <3>3, <5>2
          <6>2. opened' = (opened \ {stream[f].fd}) \cup {fd}
            BY <1>6
          <6> QED BY ONLY <6>1, <6>2
        <5> QED BY <5>1, <5>2
      <4> QED BY <4>1, <4>2
    <3>7. ASSUME NEW g \in live, NEW h \in live, stream'[g].fd = stream'[h].fd
          PROVE  g = h
      BY <2>1, <3>2, <3>3, <3>5, <3>7
    <3> QED BY <3>6, <3>7
  <2>9. BuffersOwned'
    <3>1. SUFFICES ASSUME astray = {}, NEW g \in live, stream'[g].owned
                   PROVE  /\ stream'[g].buf \in buffers
                          /\ \A h \in live : stream'[h].buf = stream'[g].buf => g = h
      BY <1>1, <1>6 DEF BuffersOwned
    <3>2. g # f /\ stream'[g] = stream[g]
      BY <1>3, <2>3, <2>5, <3>1
    <3>3. /\ stream[g].buf \in buffers
          /\ \A h \in live : stream[h].buf = stream[g].buf => g = h
      BY <3>1, <3>2 DEF StdioInv, StreamsKept, BuffersOwned
    <3>4. stream[g].buf # NoBuffer
      BY <1>3, <3>3, StdioAssumption
    <3> QED BY <1>3, <2>3, <2>5, <3>2, <3>3, <3>4
  <2>10. EofIsTrue'
    <3>1. SUFFICES ASSUME "file" \notin astray, NEW g \in live, stream'[g].is_eof
                   PROVE  offset'[stream'[g].fd] = length'[stream'[g].fd]
      BY <1>1, <1>6 DEF EofIsTrue
    <3>2. g # f /\ stream'[g] = stream[g]
      BY <1>3, <2>3, <2>5, <3>1
    <3>3. /\ stream[g].fd \in Descriptors /\ stream[g].fd \in opened
          /\ offset[stream[g].fd] = length[stream[g].fd]
      BY <3>1, <3>2, FilesTyped, LiveStream
    <3>4. stream[g].fd # stream[f].fd
      BY <1>1, <3>1, <3>2 DEF StdioInv, StreamsKept, DescriptorsOwned
    <3>5. stream[g].fd # fd
      BY <2>1, <3>3, <3>4
    <3> QED BY <2>6, <3>2, <3>3, <3>5
  <2>11. HeapWarned'
    BY <1>6 DEF StdioInv, HeapWarned
  <2> QED BY <2>7, <2>8, <2>9, <2>10, <2>11 DEF StdioInv, StreamsKept
<1>7. CASE stream[f].fd \in opened
  <2>1. PICK fd : fd = Min((Descriptors \ opened) \cup {stream[f].fd})
    OBVIOUS
  <2>2. \/ \E size \in 0..MaxFileSize :
             /\ opened' = (opened \ {stream[f].fd}) \cup {fd}
             /\ length' = [length EXCEPT ![fd] = size] /\ offset' = [offset EXCEPT ![fd] = 0]
             /\ stream' = [stream EXCEPT ![f] = Fresh(fd)] /\ astray' = astray
        \/ /\ opened' = opened \ {stream[f].fd} /\ astray' = astray \cup {"file"}
           /\ stream' = [stream EXCEPT ![f].error = TRUE, ![f].is_eof = FALSE]
           /\ offset' = offset /\ length' = length
    BY <1>7, <2>1 DEF Freopen
  <2> QED BY <1>5, <1>6, <1>7, <2>1, <2>2
<1> QED BY <1>4, <1>7

(***************************************************************************)
(* Every step, and the theorem.                                            *)
(***************************************************************************)
LEMMA NextStdioInv == StdioInv /\ [StdioNext]_iovars => StdioInv'
<1> SUFFICES ASSUME StdioInv, [StdioNext]_iovars PROVE StdioInv'
  OBVIOUS
<1>1. CASE UNCHANGED iovars
  BY <1>1 DEF iovars, StdioInv, StdioTypeOK, StreamsKept, DescriptorsOwned, BuffersOwned, EofIsTrue, HeapWarned
<1>2. CASE FopenWithoutMemory
  BY <1>1, <1>2 DEF FopenWithoutMemory
<1>3. ASSUME NEW f \in Streams,
             \/ Fopen(f) \/ Tmpfile(f) \/ Fclose(f) \/ Freopen(f) \/ Setvbuf(f) \/ Clearerr(f)
             \/ Fwrite(f)
             \/ \E n \in 1..(MaxFileSize + 1) : Fread(f, n) \/ Fseek(f, n - 1)
      PROVE  StdioInv'
  <2>1. CASE Fopen(f)
    BY <2>1, FopenKeepsInv
  <2>2. CASE Tmpfile(f)
    BY <2>2, TmpfileKeepsInv
  <2>3. CASE Fclose(f)
    BY <2>3, FcloseKeepsInv
  <2>4. CASE Freopen(f)
    BY <2>4, FreopenKeepsInv
  <2>5. CASE Setvbuf(f)
    BY <2>5, SetvbufKeepsInv
  <2>6. CASE Clearerr(f)
    BY <2>6, ClearerrKeepsInv
  <2>7. CASE Fwrite(f)
    BY <2>7, FwriteKeepsInv
  <2>8. ASSUME NEW n \in 1..(MaxFileSize + 1), Fread(f, n)
        PROVE  StdioInv'
    BY <2>8, FreadKeepsInv
  <2>9. ASSUME NEW n \in 1..(MaxFileSize + 1), Fseek(f, n - 1)
        PROVE  StdioInv'
    <3>1. PICK to \in Nat : to = n - 1
      BY StdioAssumption
    <3> QED BY <2>9, <3>1, FseekKeepsInv
  <2> QED BY <1>3, <2>1, <2>2, <2>3, <2>4, <2>5, <2>6, <2>7, <2>8, <2>9
<1> QED BY <1>1, <1>2, <1>3 DEF StdioNext

\* For every number of streams, descriptors and buffers: every open descriptor
\* belongs to exactly one stream, a buffer that a stream frees is allocated and
\* no other stream's, and a stream is at its end only where its file is, as long
\* as no freopen has failed and no FILE of tmpfile has found an address in the
\* uncleared memory of its buffer; and only then something else is freed than
\* an allocated buffer, after which nothing is said (stdio.c).
THEOREM StreamsSound == StdioSpec => []StreamsAreSound
<1>1. StdioInit => StdioInv
  BY InitStdioInv
<1>2. StdioInv /\ [StdioNext]_iovars => StdioInv'
  BY NextStdioInv
<1>3. StdioInv => StreamsAreSound
  BY DEF StdioInv, StreamsKept, HeapWarned, StreamsAreSound
<1> QED BY <1>1, <1>2, <1>3, PTL DEF StdioSpec

(***************************************************************************)
(* Containers: blocks have one owner each.                                 *)
(***************************************************************************)
OwnersSound == ContainersTypeOK /\ OwnedOnce

LEMMA FreedAt ==
  ASSUME NEW m \in [HeapBlocks -> Seq(Elements) \cup {Unowned}], NEW b \in HeapBlocks \cup {Null}
  PROVE  /\ Freed(m, b) \in [HeapBlocks -> Seq(Elements) \cup {Unowned}]
         /\ \A c \in HeapBlocks : Freed(m, b)[c] = IF c = b THEN Unowned ELSE m[c]
BY ContainersAssumption DEF Freed

\* A new block takes the place of what object o had.
LEMMA Replacing ==
  ASSUME OwnersSound, NEW o \in Objects, NEW b \in HeapBlocks, contents[b] = Unowned,
         NEW value \in Seq(Elements),
         data_' = [data_ EXCEPT ![o] = b],
         contents' = Freed([contents EXCEPT ![b] = value], data_[o])
  PROVE  /\ data_' \in [Objects -> HeapBlocks \cup {Null}]
         /\ contents' \in [HeapBlocks -> Seq(Elements) \cup {Unowned}]
         /\ OwnedOnce'
         /\ Inside(o)' = value
         /\ \A p \in Objects \ {o} : Inside(p)' = Inside(p)
<1> USE DEF OwnersSound, ContainersTypeOK
<1>1. \A p \in Objects : data_[p] # b
  BY ContainersAssumption DEF OwnedOnce
<1>2. data_' \in [Objects -> HeapBlocks \cup {Null}] /\ data_'[o] = b
      /\ \A p \in Objects \ {o} : data_'[p] = data_[p]
  OBVIOUS
<1> DEFINE filled == [contents EXCEPT ![b] = value]
<1>3. /\ filled \in [HeapBlocks -> Seq(Elements) \cup {Unowned}]
      /\ \A c \in HeapBlocks : filled[c] = IF c = b THEN value ELSE contents[c]
  OBVIOUS
<1>4. contents' = Freed(filled, data_[o])
  OBVIOUS
<1> HIDE DEF filled
<1>5. /\ contents' \in [HeapBlocks -> Seq(Elements) \cup {Unowned}]
      /\ \A c \in HeapBlocks : contents'[c] = IF c = data_[o] THEN Unowned ELSE filled[c]
  <2>1. data_[o] \in HeapBlocks \cup {Null}
    OBVIOUS
  <2>2. /\ Freed(filled, data_[o]) \in [HeapBlocks -> Seq(Elements) \cup {Unowned}]
        /\ \A c \in HeapBlocks : Freed(filled, data_[o])[c] = IF c = data_[o] THEN Unowned ELSE filled[c]
    BY ONLY <1>3, <2>1, FreedAt
  <2> QED BY ONLY <2>2, <1>4
<1>6. \A c \in HeapBlocks : contents'[c] = IF c = data_[o] THEN Unowned ELSE IF c = b THEN value ELSE contents[c]
  BY <1>3, <1>5
<1>7. \A p, q \in Objects : data_'[p] = data_'[q] /\ data_'[p] # Null => p = q
  BY <1>1, <1>2 DEF OwnedOnce
<1>8. ASSUME NEW c \in HeapBlocks
      PROVE  contents'[c] # Unowned <=> \E p \in Objects : data_'[p] = c
  <2>1. CASE c = b
    BY <2>1, <1>1, <1>2, <1>6, ContainersAssumption
  <2>2. CASE c # b /\ c = data_[o]
    <3>1. \A p \in Objects \ {o} : data_[p] # c
      BY <2>2, ContainersAssumption DEF OwnedOnce
    <3> QED BY <2>2, <3>1, <1>2, <1>6
  <2>3. CASE c # b /\ c # data_[o]
    BY <2>3, <1>2, <1>6 DEF OwnedOnce
  <2> QED BY <2>1, <2>2, <2>3
<1>9. Inside(o)' = value
  BY <1>1, <1>2, <1>6, ContainersAssumption DEF Inside
<1>10. ASSUME NEW p \in Objects \ {o}
       PROVE  Inside(p)' = Inside(p)
  <2>1. data_'[p] = data_[p] /\ data_[p] # b
    BY <1>1, <1>2
  <2>2. data_[p] # Null => data_[p] # data_[o]
    BY DEF OwnedOnce
  <2> QED BY <2>1, <2>2, <1>6 DEF Inside
<1> QED BY <1>2, <1>5, <1>7, <1>8, <1>9, <1>10 DEF OwnedOnce

\* Object o gives its block back.
LEMMA GivingBack ==
  ASSUME OwnersSound, NEW o \in Objects,
         data_' = [data_ EXCEPT ![o] = Null],
         contents' = Freed(contents, data_[o])
  PROVE  /\ data_' \in [Objects -> HeapBlocks \cup {Null}]
         /\ contents' \in [HeapBlocks -> Seq(Elements) \cup {Unowned}]
         /\ OwnedOnce'
         /\ Inside(o)' = <<>>
         /\ \A p \in Objects \ {o} : Inside(p)' = Inside(p)
<1> USE DEF OwnersSound, ContainersTypeOK
<1>1. data_' \in [Objects -> HeapBlocks \cup {Null}] /\ data_'[o] = Null
      /\ \A p \in Objects \ {o} : data_'[p] = data_[p]
  OBVIOUS
<1>2. /\ contents' \in [HeapBlocks -> Seq(Elements) \cup {Unowned}]
      /\ \A c \in HeapBlocks : contents'[c] = IF c = data_[o] THEN Unowned ELSE contents[c]
  <2>1. data_[o] \in HeapBlocks \cup {Null}
    OBVIOUS
  <2> QED BY <2>1, FreedAt
<1>3. \A p, q \in Objects : data_'[p] = data_'[q] /\ data_'[p] # Null => p = q
  BY <1>1 DEF OwnedOnce
<1>4. ASSUME NEW c \in HeapBlocks
      PROVE  contents'[c] # Unowned <=> \E p \in Objects : data_'[p] = c
  <2>1. CASE c = data_[o]
    <3>1. \A p \in Objects \ {o} : data_[p] # c
      BY <2>1, ContainersAssumption DEF OwnedOnce
    <3> QED BY <2>1, <3>1, <1>1, <1>2, ContainersAssumption
  <2>2. CASE c # data_[o]
    BY <2>2, <1>1, <1>2, ContainersAssumption DEF OwnedOnce
  <2> QED BY <2>1, <2>2
<1>5. ASSUME NEW p \in Objects \ {o}
      PROVE  Inside(p)' = Inside(p)
  <2>1. data_[p] # Null => data_[p] # data_[o]
    BY DEF OwnedOnce
  <2> QED BY <2>1, <1>1, <1>2 DEF Inside
<1> QED BY <1>1, <1>2, <1>3, <1>4, <1>5 DEF OwnedOnce, Inside

\* Object o gives its block back and takes that of another one.
LEMMA PassingOn ==
  ASSUME OwnersSound, NEW o \in Objects, NEW from \in Objects, o # from,
         data_' = [data_ EXCEPT ![o] = data_[from], ![from] = Null],
         contents' = Freed(contents, data_[o])
  PROVE  /\ data_' \in [Objects -> HeapBlocks \cup {Null}]
         /\ contents' \in [HeapBlocks -> Seq(Elements) \cup {Unowned}]
         /\ OwnedOnce'
         /\ Inside(o)' = Inside(from) /\ Inside(from)' = <<>>
         /\ \A p \in Objects \ {o, from} : Inside(p)' = Inside(p)
<1> USE DEF OwnersSound, ContainersTypeOK
<1>1. data_' \in [Objects -> HeapBlocks \cup {Null}] /\ data_'[o] = data_[from] /\ data_'[from] = Null
      /\ \A p \in Objects \ {o, from} : data_'[p] = data_[p]
  OBVIOUS
<1>2. /\ contents' \in [HeapBlocks -> Seq(Elements) \cup {Unowned}]
      /\ \A c \in HeapBlocks : contents'[c] = IF c = data_[o] THEN Unowned ELSE contents[c]
  <2>1. data_[o] \in HeapBlocks \cup {Null}
    OBVIOUS
  <2> QED BY <2>1, FreedAt
<1>3. ASSUME NEW p \in Objects, NEW q \in Objects, data_'[p] = data_'[q], data_'[p] # Null
      PROVE  p = q
  <2>1. \A r, t \in Objects : data_[r] = data_[t] /\ data_[r] # Null => r = t
    BY DEF OwnedOnce
  <2>2. p # from /\ q # from
    BY <1>1, <1>3
  <2>3. CASE p # o /\ q # o
    BY <1>1, <1>3, <2>1, <2>2, <2>3
  <2>4. ~(p = o /\ q # o)
    BY <1>1, <1>3, <2>1, <2>2
  <2>5. ~(p # o /\ q = o)
    BY <1>1, <1>3, <2>1, <2>2
  <2> QED BY ONLY <2>3, <2>4, <2>5
<1>4. ASSUME NEW c \in HeapBlocks
      PROVE  contents'[c] # Unowned <=> \E p \in Objects : data_'[p] = c
  <2>1. CASE c = data_[o]
    <3>1. \A p \in Objects \ {o} : data_[p] # c
      BY <2>1, ContainersAssumption DEF OwnedOnce
    <3> QED BY <2>1, <3>1, <1>1, <1>2, ContainersAssumption
  <2>2. CASE c # data_[o] /\ c = data_[from]
    BY <2>2, <1>1, <1>2 DEF OwnedOnce
  <2>3. CASE c # data_[o] /\ c # data_[from]
    <3>1. (\E p \in Objects : data_'[p] = c) <=> \E p \in Objects : data_[p] = c
      BY <2>3, <1>1, ContainersAssumption
    <3> QED BY <2>3, <3>1, <1>2 DEF OwnedOnce
  <2> QED BY <2>1, <2>2, <2>3
<1>5. ASSUME NEW p \in Objects \ {o}
      PROVE  data_[p] # Null => data_[p] # data_[o]
  BY DEF OwnedOnce
<1>6. Inside(o)' = Inside(from) /\ Inside(from)' = <<>>
  BY <1>1, <1>2, <1>5 DEF Inside
<1>7. ASSUME NEW p \in Objects \ {o, from}
      PROVE  Inside(p)' = Inside(p)
  BY <1>1, <1>2, <1>5 DEF Inside
<1> QED BY <1>1, <1>2, <1>3, <1>4, <1>6, <1>7 DEF OwnedOnce

\* What is in the block of object o changes.
LEMMA ChangingInPlace ==
  ASSUME OwnersSound, NEW o \in Objects, data_[o] # Null, NEW value \in Seq(Elements),
         data_' = data_,
         contents' = [contents EXCEPT ![data_[o]] = value]
  PROVE  /\ contents' \in [HeapBlocks -> Seq(Elements) \cup {Unowned}]
         /\ OwnedOnce'
         /\ Inside(o)' = value
         /\ \A p \in Objects \ {o} : Inside(p)' = Inside(p)
<1> USE DEF OwnersSound, ContainersTypeOK
<1>1. data_[o] \in HeapBlocks /\ contents[data_[o]] # Unowned
  BY DEF OwnedOnce
<1>2. /\ contents' \in [HeapBlocks -> Seq(Elements) \cup {Unowned}]
      /\ \A c \in HeapBlocks : contents'[c] = IF c = data_[o] THEN value ELSE contents[c]
  BY <1>1
<1>3. value # Unowned
  BY ContainersAssumption
<1>4. OwnedOnce'
  BY <1>1, <1>2, <1>3 DEF OwnedOnce
<1>5. ASSUME NEW p \in Objects \ {o}
      PROVE  Inside(p)' = Inside(p)
  <2>1. data_[p] # Null => data_[p] # data_[o]
    BY DEF OwnedOnce
  <2> QED BY <2>1, <1>2 DEF Inside
<1> QED BY <1>1, <1>2, <1>4, <1>5 DEF Inside

(***************************************************************************)
(* The steps                                                               *)
(***************************************************************************)
LEMMA ObjectFacts ==
  /\ Vectors \subseteq Objects /\ Strings \subseteq Objects /\ Functions \subseteq Objects
  /\ Vectors \cap (Strings \cup Functions) = {}
BY ContainersAssumption DEF Objects

\* Of a step, what is left to see when its blocks are accounted for.
LEMMA ValuesFollow ==
  ASSUME ValuesKept, NEW o \in Objects, NEW value, NEW meaning,
         meaning = value, size_' = [size_ EXCEPT ![o] = Len(value)], meant' = [meant EXCEPT ![o] = meaning],
         ContainersTypeOK, Inside(o)' = value, \A p \in Objects \ {o} : Inside(p)' = Inside(p)
  PROVE  ValuesKept'
BY DEF ValuesKept, ContainersTypeOK

LEMMA RoomKept ==
  ASSUME RoomForElements, NEW o \in Strings \cup Functions, UNCHANGED capacity_,
         \A p \in Objects \ {o} : data_'[p] = data_[p] /\ size_'[p] = size_[p]
  PROVE  RoomForElements'
BY ObjectFacts DEF RoomForElements

LEMMA RenewedIsSound ==
  ASSUME ContainersAreSound, NEW o \in Strings \cup Functions, NEW value \in Seq(Elements), NEW meaning,
         meaning = value, Renewed(o, value, meaning)
  PROVE  ContainersAreSound'
<1>1. PICK b \in Answers :
        IF b = Null
        THEN crashed' = TRUE /\ UNCHANGED <<data_, size_, capacity_, contents, meant>>
        ELSE /\ data_' = [data_ EXCEPT ![o] = b]
             /\ size_' = [size_ EXCEPT ![o] = Len(value)]
             /\ contents' = Freed([contents EXCEPT ![b] = value], data_[o])
             /\ Means(o, meaning) /\ UNCHANGED <<capacity_, crashed>>
  BY DEF Renewed
<1>2. o \in Objects
  BY ObjectFacts
<1>3. CASE b = Null
  BY <1>1, <1>3 DEF ContainersAreSound, ContainersTypeOK, OwnedOnce, ValuesKept, RoomForElements, Inside
<1>4. CASE b # Null
  <2>1. b \in HeapBlocks /\ contents[b] = Unowned
    BY <1>4 DEF Answers
  <2>2. /\ data_' = [data_ EXCEPT ![o] = b]
        /\ size_' = [size_ EXCEPT ![o] = Len(value)]
        /\ contents' = Freed([contents EXCEPT ![b] = value], data_[o])
        /\ meant' = [meant EXCEPT ![o] = meaning] /\ UNCHANGED <<capacity_, crashed>>
    BY <1>1, <1>4 DEF Means
  <2>3. OwnersSound
    BY DEF ContainersAreSound, OwnersSound
  <2>4. /\ data_' \in [Objects -> HeapBlocks \cup {Null}]
        /\ contents' \in [HeapBlocks -> Seq(Elements) \cup {Unowned}]
        /\ OwnedOnce'
        /\ Inside(o)' = value
        /\ \A p \in Objects \ {o} : Inside(p)' = Inside(p)
    BY <1>2, <2>1, <2>2, <2>3, Replacing
  <2>5. size_' \in [Objects -> Nat] /\ meant' \in [Objects -> Seq(Elements)]
    <3>1. Len(value) \in Nat /\ meaning \in Seq(Elements)
      OBVIOUS
    <3> QED BY <3>1, <1>2, <2>2 DEF ContainersAreSound, ContainersTypeOK
  <2>8. ContainersTypeOK'
    BY <2>2, <2>4, <2>5 DEF ContainersAreSound, ContainersTypeOK
  <2>6. ValuesKept'
    BY <1>2, <2>2, <2>4, ValuesFollow DEF ContainersAreSound
  <2>7. RoomForElements'
    BY <2>2, RoomKept DEF ContainersAreSound, ContainersTypeOK
  <2> QED BY <2>4, <2>8, <2>6, <2>7 DEF ContainersAreSound
<1> QED BY <1>3, <1>4

\* Of Emptied, but for the room of a vector.
LEMMA EmptiedIsSound ==
  ASSUME ContainersAreSound, NEW o \in Objects, Emptied(o), capacity_' \in [Vectors -> Nat]
  PROVE  ContainersTypeOK' /\ OwnedOnce' /\ ValuesKept'
<1>1. /\ data_' = [data_ EXCEPT ![o] = Null]
      /\ size_' = [size_ EXCEPT ![o] = Len(<<>>)]
      /\ contents' = Freed(contents, data_[o])
      /\ meant' = [meant EXCEPT ![o] = <<>>] /\ UNCHANGED crashed
  BY DEF Emptied, Means
<1>2. OwnersSound
  BY DEF ContainersAreSound, OwnersSound
<1>3. /\ data_' \in [Objects -> HeapBlocks \cup {Null}]
      /\ contents' \in [HeapBlocks -> Seq(Elements) \cup {Unowned}]
      /\ OwnedOnce'
      /\ Inside(o)' = <<>>
      /\ \A p \in Objects \ {o} : Inside(p)' = Inside(p)
  BY <1>1, <1>2, GivingBack
<1>4. ContainersTypeOK'
  BY <1>1, <1>3 DEF ContainersAreSound, ContainersTypeOK
<1>5. ValuesKept'
  BY <1>1, <1>3, ValuesFollow DEF ContainersAreSound
<1> QED BY <1>3, <1>4, <1>5

\* Of Taken, likewise.
LEMMA TakenIsSound ==
  ASSUME ContainersAreSound, NEW o \in Objects, NEW from \in Objects, o # from, Taken(o, from),
         capacity_' \in [Vectors -> Nat]
  PROVE  ContainersTypeOK' /\ OwnedOnce' /\ ValuesKept'
<1>1. /\ data_' = [data_ EXCEPT ![o] = data_[from], ![from] = Null]
      /\ size_' = [size_ EXCEPT ![o] = size_[from], ![from] = 0]
      /\ contents' = Freed(contents, data_[o])
      /\ meant' = [meant EXCEPT ![o] = meant[from], ![from] = <<>>] /\ UNCHANGED crashed
  BY DEF Taken
<1>2. OwnersSound
  BY DEF ContainersAreSound, OwnersSound
<1>3. /\ data_' \in [Objects -> HeapBlocks \cup {Null}]
      /\ contents' \in [HeapBlocks -> Seq(Elements) \cup {Unowned}]
      /\ OwnedOnce'
      /\ Inside(o)' = Inside(from) /\ Inside(from)' = <<>>
      /\ \A p \in Objects \ {o, from} : Inside(p)' = Inside(p)
  BY <1>1, <1>2, PassingOn
<1>4. ContainersTypeOK'
  <2>1. size_' \in [Objects -> Nat]
    BY <1>1 DEF ContainersAreSound, ContainersTypeOK
  <2>2. meant' \in [Objects -> Seq(Elements)]
    <3>1. <<>> \in Seq(Elements)
      OBVIOUS
    <3> QED BY <3>1, <1>1 DEF ContainersAreSound, ContainersTypeOK
  <2> QED BY <2>1, <2>2, <1>1, <1>3 DEF ContainersAreSound, ContainersTypeOK
<1>5. ValuesKept'
  BY <1>1, <1>3 DEF ContainersAreSound, ContainersTypeOK, ValuesKept
<1> QED BY <1>3, <1>4, <1>5

-----------------------------------------------------------------------------

LEMMA SizesFit ==
  ASSUME NEW n \in Nat, n <= MostElements
  PROVE  n * ElementSize < SizeValues
<1>1. SizeValues - 1 \in Nat /\ ElementSize \in Nat \ {0}
  BY ContainersAssumption
<1> DEFINE q == MostElements
<1>2. q \in Nat /\ q * ElementSize <= SizeValues - 1
  BY <1>1 DEF MostElements
<1> HIDE DEF q
<1>3. \A k \in Nat, e \in Nat : k * e >= 0
  OBVIOUS
<1>4. q - n \in Nat /\ (q - n) * ElementSize = q * ElementSize - n * ElementSize
  BY <1>1, <1>2 DEF q
<1>5. n * ElementSize <= q * ElementSize
  BY <1>1, <1>2, <1>3, <1>4
<1> QED BY <1>1, <1>2, <1>5, ContainersAssumption

LEMMA RelocatedIsSound ==
  ASSUME ContainersAreSound, NEW v \in Vectors, NEW n \in Nat, NEW b \in Answers \ {Null},
         NEW value \in Seq(Elements), Relocated(v, n, b, value)
  PROVE  /\ data_' \in [Objects -> HeapBlocks \cup {Null}]
         /\ contents' \in [HeapBlocks -> Seq(Elements) \cup {Unowned}]
         /\ capacity_' \in [Vectors -> Nat] /\ OwnedOnce'
         /\ Inside(v)' = value
         /\ \A p \in Objects \ {v} : Inside(p)' = Inside(p)
<1>1. b \in HeapBlocks /\ contents[b] = Unowned
  BY DEF Answers
<1>2. OwnersSound /\ v \in Objects
  BY ObjectFacts DEF ContainersAreSound, OwnersSound
<1>3. /\ data_' = [data_ EXCEPT ![v] = b]
      /\ capacity_' = [capacity_ EXCEPT ![v] = n]
      /\ contents' = Freed([contents EXCEPT ![b] = value], data_[v])
  BY DEF Relocated
<1>4. capacity_' \in [Vectors -> Nat]
  BY <1>3 DEF ContainersAreSound, ContainersTypeOK
<1> QED BY <1>1, <1>2, <1>3, <1>4, Replacing

LEMMA InsideIs ==
  ASSUME ContainersAreSound, NEW o \in Objects
  PROVE  Inside(o) = meant[o] /\ Inside(o) \in Seq(Elements) /\ size_[o] = Len(meant[o])
BY DEF ContainersAreSound, ValuesKept, ContainersTypeOK

LEMMA ReserveIsSound ==
  ASSUME ContainersAreSound, NEW v \in Vectors, NEW n \in Reserves, Reserve(v, n)
  PROVE  ContainersAreSound'
<1>1. n \in Nat /\ n > capacity_[v] /\ n <= MostElements /\ UNCHANGED <<size_, meant, crashed>>
  BY ContainersAssumption DEF Reserve
<1>2. PICK b \in Answers \ {Null} : Relocated(v, n, b, Inside(v))
  BY DEF Reserve
<1>3. v \in Objects /\ Inside(v) \in Seq(Elements)
  BY ObjectFacts, InsideIs
<1>4. /\ data_' \in [Objects -> HeapBlocks \cup {Null}]
      /\ contents' \in [HeapBlocks -> Seq(Elements) \cup {Unowned}]
      /\ capacity_' \in [Vectors -> Nat] /\ OwnedOnce'
      /\ Inside(v)' = Inside(v)
      /\ \A p \in Objects \ {v} : Inside(p)' = Inside(p)
  BY <1>1, <1>2, <1>3, RelocatedIsSound
<1>5. ContainersTypeOK'
  BY <1>1, <1>4 DEF ContainersAreSound, ContainersTypeOK
<1>6. ValuesKept'
  BY <1>1, <1>4 DEF ContainersAreSound, ValuesKept
<1>7. RoomForElements'
  <2>1. /\ data_' = [data_ EXCEPT ![v] = b] /\ capacity_' = [capacity_ EXCEPT ![v] = n]
        /\ b # Null
    BY <1>2 DEF Relocated
  <2>2. n * ElementSize < SizeValues /\ n # 0 /\ size_[v] <= n
    BY <1>1, <1>3, SizesFit DEF ContainersAreSound, RoomForElements, ContainersTypeOK
  <2> QED BY <1>1, <2>1, <2>2, ObjectFacts DEF ContainersAreSound, RoomForElements, ContainersTypeOK
<1> QED BY <1>4, <1>5, <1>6, <1>7 DEF ContainersAreSound

\* Room after a vector alone has changed.
LEMMA RoomOfOne ==
  ASSUME ContainersAreSound, NEW v \in Vectors,
         \A w \in Vectors \ {v} : data_'[w] = data_[w] /\ size_'[w] = size_[w] /\ capacity_'[w] = capacity_[w],
         size_'[v] <= capacity_'[v], capacity_'[v] * ElementSize < SizeValues,
         capacity_'[v] = 0 <=> data_'[v] = Null
  PROVE  RoomForElements'
BY DEF ContainersAreSound, RoomForElements

LEMMA NextIsNat ==
  ASSUME ContainersAreSound, NEW v \in Vectors, MayGrow(v), size_[v] = capacity_[v]
  PROVE  /\ NextCapacity(v) \in Nat /\ NextCapacity(v) <= MostElements
         /\ size_[v] + 1 <= NextCapacity(v)
<1>1. capacity_[v] \in Nat /\ size_[v] \in Nat
  BY ObjectFacts DEF ContainersAreSound, ContainersTypeOK
<1>2. SizeValues \in Nat \ {0}
  BY ContainersAssumption
<1>3. NextCapacity(v) >= capacity_[v] /\ NextCapacity(v) <= MostElements
  BY DEF MayGrow
<1>4. CASE capacity_[v] = 0
  BY <1>1, <1>3, <1>4 DEF NextCapacity
<1>5. CASE capacity_[v] # 0
  <2> DEFINE c == capacity_[v]
             next == (c * 2) % SizeValues
  <2>1. c \in Nat \ {0} /\ c < SizeValues
    <3>1. c * ElementSize < SizeValues /\ ElementSize \in Nat \ {0} /\ c \in Nat \ {0}
      BY <1>1, <1>5, ContainersAssumption DEF ContainersAreSound, RoomForElements
    <3> HIDE DEF c
    <3>2. c <= c * ElementSize
      <4>1. c * (ElementSize - 1) >= 0
        <5>1. \A k \in Nat, e \in Nat : k * e >= 0
          OBVIOUS
        <5> QED BY <3>1, <5>1
      <4>2. c * (ElementSize - 1) = c * ElementSize - c
        BY <3>1
      <4> QED BY <3>1, <4>1, <4>2
    <3>3. c * ElementSize \in Nat
      BY <3>1
    <3> QED BY <1>2, <3>1, <3>2, <3>3
  <2>2. next = IF c * 2 < SizeValues THEN c * 2 ELSE c * 2 - SizeValues
    <3> HIDE DEF c
    <3> QED BY <1>2, <2>1
  <2>3. NextCapacity(v) = next
    BY <1>5 DEF NextCapacity
  <2> HIDE DEF next
  <2>4. next \in Nat /\ c < next
    <3>1. next >= c
      BY <1>3, <2>3
    <3> HIDE DEF c
    <3> QED BY <1>2, <2>1, <2>2, <3>1
  <2> QED BY <1>1, <1>3, <2>3, <2>4
<1> QED BY <1>4, <1>5

LEMMA PushBackIsSound ==
  ASSUME ContainersAreSound, NEW v \in Vectors, NEW x \in Elements, PushBack(v, x)
  PROVE  ContainersAreSound'
<1>1. /\ size_' = [size_ EXCEPT ![v] = @ + 1]
      /\ meant' = [meant EXCEPT ![v] = Append(meant[v], x)] /\ UNCHANGED crashed
  BY DEF PushBack, Means
<1>2. v \in Objects /\ Inside(v) = meant[v] /\ Inside(v) \in Seq(Elements) /\ size_[v] = Len(meant[v])
  BY ObjectFacts, InsideIs
<1> DEFINE value == Append(Inside(v), x)
<1>3. value \in Seq(Elements) /\ Len(value) = size_[v] + 1 /\ value = Append(meant[v], x)
  BY <1>2
<1> HIDE DEF value
<1>4. size_' \in [Objects -> Nat] /\ meant' \in [Objects -> Seq(Elements)]
  <2>1. size_[v] + 1 \in Nat
    BY <1>2 DEF ContainersAreSound, ContainersTypeOK
  <2>2. size_' \in [Objects -> Nat]
    BY <1>1, <2>1, <1>2 DEF ContainersAreSound, ContainersTypeOK
  <2>3. meant' = [meant EXCEPT ![v] = value]
    BY <1>1, <1>3
  <2>4. meant' \in [Objects -> Seq(Elements)]
    BY <1>3, <2>3 DEF ContainersAreSound, ContainersTypeOK
  <2> QED BY <2>2, <2>4
<1>5. /\ size_' = [size_ EXCEPT ![v] = Len(value)]
      /\ meant' = [meant EXCEPT ![v] = value]
  BY <1>1, <1>2, <1>3 DEF ContainersAreSound, ContainersTypeOK
<1>6. size_[v] \in Nat /\ capacity_[v] \in Nat /\ size_[v] <= capacity_[v]
  BY <1>2 DEF ContainersAreSound, ContainersTypeOK, RoomForElements
<1>7. /\ data_' \in [Objects -> HeapBlocks \cup {Null}]
      /\ contents' \in [HeapBlocks -> Seq(Elements) \cup {Unowned}]
      /\ capacity_' \in [Vectors -> Nat] /\ OwnedOnce'
      /\ Inside(v)' = value
      /\ \A p \in Objects \ {v} : Inside(p)' = Inside(p)
      /\ RoomForElements'
  <2>1. CASE /\ size_[v] # capacity_[v]
             /\ contents' = [contents EXCEPT ![data_[v]] = Append(@, x)]
             /\ UNCHANGED <<data_, capacity_>>
    <3>1. data_[v] # Null /\ data_[v] \in HeapBlocks
      BY <1>2, <1>6, <2>1 DEF ContainersAreSound, ContainersTypeOK, RoomForElements
    <3>2. contents' = [contents EXCEPT ![data_[v]] = value]
      BY <2>1, <3>1 DEF value, Inside, ContainersAreSound, ContainersTypeOK
    <3>3. OwnersSound
      BY DEF ContainersAreSound, OwnersSound
    <3>4. /\ contents' \in [HeapBlocks -> Seq(Elements) \cup {Unowned}]
          /\ OwnedOnce'
          /\ Inside(v)' = value
          /\ \A p \in Objects \ {v} : Inside(p)' = Inside(p)
      BY <1>2, <1>3, <2>1, <3>1, <3>2, <3>3, ChangingInPlace
    <3>5. RoomForElements'
      <4>1. size_'[v] <= capacity_'[v]
        BY <1>2, <1>3, <1>5, <1>6, <2>1 DEF ContainersAreSound, ContainersTypeOK
      <4>2. \A w \in Vectors \ {v} : data_'[w] = data_[w] /\ size_'[w] = size_[w] /\ capacity_'[w] = capacity_[w]
        BY <1>5, <2>1, ObjectFacts DEF ContainersAreSound, ContainersTypeOK
      <4> QED BY <2>1, <4>1, <4>2, RoomOfOne DEF ContainersAreSound, RoomForElements
    <3> QED BY <2>1, <3>4, <3>5 DEF ContainersAreSound, ContainersTypeOK
  <2>2. CASE /\ size_[v] = capacity_[v] /\ MayGrow(v)
             /\ \E b \in Answers \ {Null} : Relocated(v, NextCapacity(v), b, Append(Inside(v), x))
    <3>1. PICK b \in Answers \ {Null} : Relocated(v, NextCapacity(v), b, value)
      BY <2>2 DEF value
    <3>2. /\ NextCapacity(v) \in Nat /\ NextCapacity(v) <= MostElements
          /\ size_[v] + 1 <= NextCapacity(v)
      BY <2>2, NextIsNat
    <3>3. /\ data_' \in [Objects -> HeapBlocks \cup {Null}]
          /\ contents' \in [HeapBlocks -> Seq(Elements) \cup {Unowned}]
          /\ capacity_' \in [Vectors -> Nat] /\ OwnedOnce'
          /\ Inside(v)' = value
          /\ \A p \in Objects \ {v} : Inside(p)' = Inside(p)
      BY <1>3, <3>1, <3>2, RelocatedIsSound
    <3>4. data_' = [data_ EXCEPT ![v] = b] /\ capacity_' = [capacity_ EXCEPT ![v] = NextCapacity(v)] /\ b # Null
      BY <3>1 DEF Relocated
    <3>5. RoomForElements'
      <4>1. size_'[v] = size_[v] + 1 /\ capacity_'[v] = NextCapacity(v) /\ data_'[v] # Null
        BY <1>2, <1>3, <1>5, <3>4 DEF ContainersAreSound, ContainersTypeOK
      <4>2. \A w \in Vectors \ {v} : data_'[w] = data_[w] /\ size_'[w] = size_[w] /\ capacity_'[w] = capacity_[w]
        BY <1>5, <3>4, ObjectFacts DEF ContainersAreSound, ContainersTypeOK
      <4>3. NextCapacity(v) # 0 /\ NextCapacity(v) * ElementSize < SizeValues
        BY <1>6, <3>2, SizesFit
      <4> QED BY <3>2, <4>1, <4>2, <4>3, RoomOfOne
    <3> QED BY <3>3, <3>5
  <2> QED BY <2>1, <2>2 DEF PushBack
<1>8. ContainersTypeOK'
  BY <1>1, <1>4, <1>7 DEF ContainersAreSound, ContainersTypeOK
<1>9. ValuesKept'
  BY <1>2, <1>5, <1>7, ValuesFollow DEF ContainersAreSound
<1> QED BY <1>7, <1>8, <1>9 DEF ContainersAreSound

LEMMA ShortenedIsSound ==
  ASSUME ContainersAreSound, NEW v \in Vectors, NEW n \in Nat, n <= size_[v], Shortened(v, n)
  PROVE  ContainersAreSound'
<1>1. /\ size_[v] # 0
      /\ size_' = [size_ EXCEPT ![v] = n]
      /\ contents' = [contents EXCEPT ![data_[v]] = SubSeq(@, 1, n)]
      /\ meant' = [meant EXCEPT ![v] = SubSeq(meant[v], 1, n)]
      /\ UNCHANGED <<data_, capacity_, crashed>>
  BY DEF Shortened, Means
<1>2. v \in Objects /\ Inside(v) = meant[v] /\ Inside(v) \in Seq(Elements) /\ size_[v] = Len(meant[v])
  BY ObjectFacts, InsideIs
<1> DEFINE value == SubSeq(Inside(v), 1, n)
<1>3. value \in Seq(Elements) /\ Len(value) = n /\ value = SubSeq(meant[v], 1, n)
  <2>1. 1 \in 1..(Len(Inside(v)) + 1) /\ n \in 0..Len(Inside(v))
    BY <1>2
  <2> QED BY <1>2, <2>1
<1> HIDE DEF value
<1>4. size_[v] \in Nat /\ capacity_[v] \in Nat /\ size_[v] <= capacity_[v]
  BY <1>2 DEF ContainersAreSound, ContainersTypeOK, RoomForElements
<1>5. data_[v] # Null /\ data_[v] \in HeapBlocks
  BY <1>1, <1>2, <1>4 DEF ContainersAreSound, ContainersTypeOK, RoomForElements
<1>6. contents' = [contents EXCEPT ![data_[v]] = value]
  BY <1>1, <1>5 DEF value, Inside, ContainersAreSound, ContainersTypeOK
<1>7. OwnersSound
  BY DEF ContainersAreSound, OwnersSound
<1>8. /\ contents' \in [HeapBlocks -> Seq(Elements) \cup {Unowned}]
      /\ OwnedOnce'
      /\ Inside(v)' = value
      /\ \A p \in Objects \ {v} : Inside(p)' = Inside(p)
  BY <1>1, <1>2, <1>3, <1>5, <1>6, <1>7, ChangingInPlace
<1>9. size_' = [size_ EXCEPT ![v] = Len(value)] /\ meant' = [meant EXCEPT ![v] = value]
  BY <1>1, <1>3
<1>10. ContainersTypeOK'
  <2>1. size_' \in [Objects -> Nat]
    BY <1>1 DEF ContainersAreSound, ContainersTypeOK
  <2>2. meant' \in [Objects -> Seq(Elements)]
    BY <1>3, <1>9 DEF ContainersAreSound, ContainersTypeOK
  <2> QED BY <1>1, <1>8, <2>1, <2>2 DEF ContainersAreSound, ContainersTypeOK
<1>11. ValuesKept'
  BY <1>2, <1>8, <1>9, ValuesFollow DEF ContainersAreSound
<1>12. RoomForElements'
  <2>1. size_'[v] = n
    BY <1>1, <1>2 DEF ContainersAreSound, ContainersTypeOK
  <2>2. \A w \in Vectors \ {v} : size_'[w] = size_[w]
    BY <1>1, ObjectFacts DEF ContainersAreSound, ContainersTypeOK
  <2> QED BY <1>1, <1>4, <2>1, <2>2 DEF ContainersAreSound, RoomForElements
<1> QED BY <1>8, <1>10, <1>11, <1>12 DEF ContainersAreSound

LEMMA MoveVectorIsSound ==
  ASSUME ContainersAreSound, NEW v \in Vectors, NEW from \in Vectors, MoveVector(v, from)
  PROVE  ContainersAreSound'
<1>1. v # from /\ Taken(v, from) /\ capacity_' = [capacity_ EXCEPT ![v] = capacity_[from], ![from] = 0]
  BY DEF MoveVector
<1>2. capacity_' \in [Vectors -> Nat]
  BY <1>1 DEF ContainersAreSound, ContainersTypeOK
<1>3. ContainersTypeOK' /\ OwnedOnce' /\ ValuesKept'
  BY <1>1, <1>2, ObjectFacts, TakenIsSound
<1>4. /\ data_' = [data_ EXCEPT ![v] = data_[from], ![from] = Null]
      /\ size_' = [size_ EXCEPT ![v] = size_[from], ![from] = 0]
  BY <1>1 DEF Taken
<1>5. \A w \in Vectors :
        /\ data_'[w] = IF w = from THEN Null ELSE IF w = v THEN data_[from] ELSE data_[w]
        /\ size_'[w] = IF w = from THEN 0 ELSE IF w = v THEN size_[from] ELSE size_[w]
        /\ capacity_'[w] = IF w = from THEN 0 ELSE IF w = v THEN capacity_[from] ELSE capacity_[w]
  BY <1>1, <1>4, ObjectFacts DEF ContainersAreSound, ContainersTypeOK
<1>6. 0 * ElementSize < SizeValues
  BY ContainersAssumption
<1>7. ASSUME NEW w \in Vectors
      PROVE  /\ size_'[w] <= capacity_'[w] /\ capacity_'[w] * ElementSize < SizeValues
             /\ capacity_'[w] = 0 <=> data_'[w] = Null
  <2>1. CASE w = from
    BY <1>5, <1>6, <2>1
  <2>2. CASE w # from
    BY <1>5, <2>2 DEF ContainersAreSound, RoomForElements
  <2> QED BY <2>1, <2>2
<1>8. RoomForElements'
  BY <1>7 DEF RoomForElements
<1> QED BY <1>3, <1>8 DEF ContainersAreSound

LEMMA DestroyVectorIsSound ==
  ASSUME ContainersAreSound, NEW v \in Vectors, DestroyVector(v)
  PROVE  ContainersAreSound'
<1>1. Emptied(v) /\ capacity_' = [capacity_ EXCEPT ![v] = 0]
  BY DEF DestroyVector
<1>2. capacity_' \in [Vectors -> Nat]
  BY <1>1 DEF ContainersAreSound, ContainersTypeOK
<1>3. ContainersTypeOK' /\ OwnedOnce' /\ ValuesKept'
  BY <1>1, <1>2, ObjectFacts, EmptiedIsSound
<1>4. data_' = [data_ EXCEPT ![v] = Null] /\ size_' = [size_ EXCEPT ![v] = 0]
  BY <1>1 DEF Emptied
<1>5. 0 * ElementSize < SizeValues
  BY ContainersAssumption
<1>6. data_'[v] = Null /\ size_'[v] = 0 /\ capacity_'[v] = 0
  BY <1>1, <1>4, ObjectFacts DEF ContainersAreSound, ContainersTypeOK
<1>7. \A w \in Vectors \ {v} : data_'[w] = data_[w] /\ size_'[w] = size_[w] /\ capacity_'[w] = capacity_[w]
  BY <1>1, <1>4, ObjectFacts DEF ContainersAreSound, ContainersTypeOK
<1>8. RoomForElements'
  BY <1>5, <1>6, <1>7, RoomOfOne
<1> QED BY <1>3, <1>8 DEF ContainersAreSound

\* Strings and functions that hold nothing any more, or what another held.
LEMMA EmptiedOther ==
  ASSUME ContainersAreSound, NEW o \in Strings \cup Functions, Emptied(o), UNCHANGED capacity_
  PROVE  ContainersAreSound'
<1>1. capacity_' \in [Vectors -> Nat]
  BY DEF ContainersAreSound, ContainersTypeOK
<1>2. ContainersTypeOK' /\ OwnedOnce' /\ ValuesKept'
  BY <1>1, ObjectFacts, EmptiedIsSound
<1>3. \A p \in Objects \ {o} : data_'[p] = data_[p] /\ size_'[p] = size_[p]
  BY DEF Emptied, ContainersAreSound, ContainersTypeOK
<1>4. RoomForElements'
  BY <1>3, RoomKept DEF ContainersAreSound
<1> QED BY <1>2, <1>4 DEF ContainersAreSound

LEMMA CopiedOther ==
  ASSUME ContainersAreSound, NEW o \in Strings \cup Functions, NEW other \in Objects,
         IF data_[other] # Null THEN Renewed(o, Inside(other), meant[other])
         ELSE Emptied(o) /\ UNCHANGED capacity_
  PROVE  ContainersAreSound'
<1>1. meant[other] = Inside(other) /\ Inside(other) \in Seq(Elements)
  BY InsideIs
<1>2. CASE data_[other] # Null
  BY <1>1, <1>2, RenewedIsSound
<1>3. CASE data_[other] = Null
  BY <1>3, EmptiedOther
<1> QED BY <1>2, <1>3

LEMMA AddStringsIsSound ==
  ASSUME ContainersAreSound, NEW s \in Strings, NEW left \in Strings, NEW right \in Strings,
         AddStrings(s, left, right)
  PROVE  ContainersAreSound'
<1>1. /\ meant[left] = Inside(left) /\ Inside(left) \in Seq(Elements)
      /\ meant[right] = Inside(right) /\ Inside(right) \in Seq(Elements)
  BY InsideIs, ObjectFacts
<1> DEFINE value == Inside(left) \o Inside(right)
           meaning == meant[left] \o meant[right]
<1>2. value \in Seq(Elements) /\ meaning = value
  BY <1>1
<1>3. Renewed(s, value, meaning)
  BY DEF AddStrings
<1> HIDE DEF value, meaning
<1> QED BY <1>2, <1>3, RenewedIsSound

LEMMA MoveFunctionIsSound ==
  ASSUME ContainersAreSound, NEW f \in Functions, NEW other \in Functions, MoveFunction(f, other)
  PROVE  ContainersAreSound'
<1>1. f # other /\ Taken(f, other) /\ UNCHANGED capacity_
  BY DEF MoveFunction
<1>2. capacity_' \in [Vectors -> Nat]
  BY <1>1 DEF ContainersAreSound, ContainersTypeOK
<1>3. ContainersTypeOK' /\ OwnedOnce' /\ ValuesKept'
  BY <1>1, <1>2, ObjectFacts, TakenIsSound
<1>4. \A w \in Vectors : data_'[w] = data_[w] /\ size_'[w] = size_[w]
  BY <1>1, ObjectFacts DEF Taken, ContainersAreSound, ContainersTypeOK
<1>5. RoomForElements'
  BY <1>1, <1>4 DEF ContainersAreSound, RoomForElements
<1> QED BY <1>3, <1>5 DEF ContainersAreSound

(***************************************************************************)
(* Vectors, strings and functions own their blocks alone, give back every  *)
(* one, and have the values they were given, for any objects and sizes.    *)
(***************************************************************************)
THEOREM ContainersSound == ContainersSpec => []ContainersAreSound
<1>1. ContainersInit => ContainersAreSound
  <2> SUFFICES ASSUME ContainersInit
               PROVE  ContainersAreSound
    OBVIOUS
  <2>1. 0 * ElementSize < SizeValues
    BY ContainersAssumption
  <2>2. ContainersTypeOK
    <3>1. <<>> \in Seq(Elements)
      OBVIOUS
    <3> QED BY <3>1 DEF ContainersInit, ContainersTypeOK
  <2>3. OwnedOnce /\ ValuesKept
    BY ContainersAssumption DEF ContainersInit, OwnedOnce, ValuesKept, Inside
  <2>4. RoomForElements
    BY <2>1, ObjectFacts DEF ContainersInit, RoomForElements
  <2> QED BY <2>2, <2>3, <2>4 DEF ContainersAreSound
<1>2. ContainersAreSound /\ [ContainersNext]_bvars => ContainersAreSound'
  <2> SUFFICES ASSUME ContainersAreSound, [ContainersNext]_bvars
               PROVE  ContainersAreSound'
    OBVIOUS
  <2>1. CASE UNCHANGED bvars
    BY <2>1 DEF bvars, ContainersAreSound, ContainersTypeOK, OwnedOnce, ValuesKept, RoomForElements, Inside
  <2>2. ASSUME NEW v \in Vectors, VectorStep(v)
        PROVE  ContainersAreSound'
    <3>1. ASSUME PopBack(v)
          PROVE  ContainersAreSound'
      <4>1. size_[v] - 1 \in Nat /\ size_[v] - 1 <= size_[v]
        BY <3>1, ObjectFacts DEF PopBack, Shortened, ContainersAreSound, ContainersTypeOK
      <4> QED BY <3>1, <4>1, ShortenedIsSound DEF PopBack
    <3>2. ASSUME ClearVector(v)
          PROVE  ContainersAreSound'
      <4>1. 0 \in Nat /\ 0 <= size_[v]
        BY ObjectFacts DEF ContainersAreSound, ContainersTypeOK
      <4> QED BY <3>2, <4>1, ShortenedIsSound DEF ClearVector
    <3> QED BY <2>2, <3>1, <3>2, ReserveIsSound, PushBackIsSound, DestroyVectorIsSound, MoveVectorIsSound
            DEF VectorStep
  <2>3. ASSUME NEW s \in Strings, StringStep(s)
        PROVE  ContainersAreSound'
    <3>1. ASSUME NEW value \in StringLiterals, MakeString(s, value)
          PROVE  ContainersAreSound'
      <4>1. value \in Seq(Elements) /\ Renewed(s, value, value)
        BY <3>1, ContainersAssumption DEF MakeString
      <4> QED BY <4>1, RenewedIsSound
    <3>2. ASSUME NEW other \in Strings, CopyString(s, other)
          PROVE  ContainersAreSound'
      BY <3>2, CopiedOther, ObjectFacts DEF CopyString
    <3>3. ASSUME DestroyString(s)
          PROVE  ContainersAreSound'
      BY <3>3, EmptiedOther DEF DestroyString
    <3> QED BY <2>3, <3>1, <3>2, <3>3, AddStringsIsSound DEF StringStep
  <2>4. ASSUME NEW f \in Functions, FunctionStep(f)
        PROVE  ContainersAreSound'
    <3>1. ASSUME NEW x \in Elements, MakeFunction(f, x)
          PROVE  ContainersAreSound'
      <4> DEFINE value == <<x>>
      <4>1. value \in Seq(Elements) /\ Renewed(f, value, value)
        BY <3>1 DEF MakeFunction
      <4> HIDE DEF value
      <4> QED BY <4>1, RenewedIsSound
    <3>2. ASSUME NEW other \in Functions, CopyFunction(f, other)
          PROVE  ContainersAreSound'
      BY <3>2, CopiedOther, ObjectFacts DEF CopyFunction
    <3>3. ASSUME DestroyFunction(f)
          PROVE  ContainersAreSound'
      BY <3>3, EmptiedOther DEF DestroyFunction
    <3> QED BY <2>4, <3>1, <3>2, <3>3, MoveFunctionIsSound DEF FunctionStep
  <2> QED BY <2>1, <2>2, <2>3, <2>4 DEF ContainersNext
<1> QED BY <1>1, <1>2, PTL DEF ContainersSpec
=============================================================================
