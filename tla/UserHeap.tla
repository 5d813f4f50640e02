------------------------------ MODULE UserHeap ------------------------------
(***************************************************************************)
(* The heap of a program: malloc, free, calloc and realloc of the SDK      *)
(* (compiler/sdk/malloc.c) on the memory that sys_sbrk hands out           *)
(* (src/src/proc/syscalls/syscalls.c).  The first call takes all that is   *)
(* reserved behind the image; the program may also move the break itself.  *)
(* The calls of a program's threads do not overlap here: nothing in        *)
(* malloc.c keeps them apart.                                              *)
(***************************************************************************)
EXTENDS Integers, SequencesExt

CONSTANTS WordSize,      \* values of a uint32_t
          ImageEnd,      \* heap_start, where the image ends
          ReservedSize,  \* USER_HEAP_RESERVED
          BlockHeader,   \* sizeof(t_malloc_block)
          ListHeader,    \* sizeof(t_heap_header)
          Align, MinSize,
          Asked,         \* sizes a program asks for
          Increments     \* by which a program moves the break

ASSUME UserHeapAssumption ==
  /\ {ImageEnd, ReservedSize, ListHeader, MinSize} \subseteq Nat
  /\ WordSize \in Nat /\ {BlockHeader, Align} \subseteq Nat \ {0} /\ MinSize + Align <= WordSize
  /\ Asked \subseteq 0..(WordSize - 1) /\ Increments \subseteq Int
  /\ ListHeader + BlockHeader <= ReservedSize /\ ImageEnd + ReservedSize < WordSize

VARIABLES heap_end,  \* the break
          g_heap,    \* whether malloc has set up its list
          list,      \* the blocks, each behind its header, as the list links them
          pointers,  \* what the program holds: the block's address and the size asked
          overrun    \* the size asked for a block that was filled behind its end; 0 if none

hvars == <<heap_end, g_heap, list, pointers, overrun>>

UserHeapInit ==
  heap_end = ImageEnd /\ g_heap = FALSE /\ list = <<>> /\ pointers = {} /\ overrun = 0

-----------------------------------------------------------------------------
(* sys_sbrk *)

HeapMax == ImageEnd + ReservedSize

MayMove(new_end) == new_end >= ImageEnd /\ new_end <= HeapMax

\* A program moves the break itself; the kernel knows nothing of malloc.
Sbrk(inc) ==
  /\ inc # 0
  /\ LET new_end == (heap_end + inc) % WordSize
     IN MayMove(new_end) /\ heap_end' = new_end
  /\ UNCHANGED <<g_heap, list, pointers, overrun>>

-----------------------------------------------------------------------------
(* malloc *)

AlignUp(n) == LET sum == (n + Align - 1) % WordSize IN sum - (sum % Align)

Aligned(size) == AlignUp(IF size < MinSize THEN MinSize ELSE size)

FirstBlock ==
  [addr |-> ImageEnd + ListHeader, size |-> ReservedSize - ListHeader - BlockHeader, free |-> TRUE]

\* What malloc works on: it sets the list up when the whole reserve can be had.
SetUp == ~g_heap /\ MayMove(heap_end + ReservedSize)
Blocks == IF SetUp THEN <<FirstBlock>> ELSE list

BigEnough(blocks_, n) == {i \in DOMAIN blocks_ : blocks_[i].free /\ blocks_[i].size >= n}

TakeBlock(blocks_, i, n) ==
  LET b == blocks_[i] IN
  IF b.size >= n + BlockHeader + MinSize
    THEN InsertAt([blocks_ EXCEPT ![i] = [b EXCEPT !.size = n, !.free = FALSE]], i + 1,
                  [addr |-> b.addr + BlockHeader + n,
                   size |-> b.size - n - BlockHeader, free |-> TRUE])
    ELSE [blocks_ EXCEPT ![i].free = FALSE]

Held(addr, size) == [addr |-> addr, size |-> size]

\* How large the block is that is made of b.
GrantedSize(b, n) == IF b.size >= n + BlockHeader + MinSize THEN n ELSE b.size

TakeFirstFit(size) ==
  LET fits == BigEnough(Blocks, Aligned(size)) IN
  /\ g_heap \/ SetUp
  /\ g_heap' = TRUE
  /\ heap_end' = IF SetUp THEN heap_end + ReservedSize ELSE heap_end
  /\ IF fits = {}
       THEN list' = Blocks /\ UNCHANGED pointers
       ELSE /\ list' = TakeBlock(Blocks, Min(fits), Aligned(size))
            /\ pointers' = pointers \cup {Held(Blocks[Min(fits)].addr, size)}

Malloc(size) == TakeFirstFit(size) /\ UNCHANGED overrun

\* calloc clears a product that is checked not to wrap around, where malloc may
\* have rounded it up to nothing.
Calloc(size) ==
  LET fits == BigEnough(Blocks, Aligned(size)) IN
  /\ TakeFirstFit(size)
  /\ overrun' = IF fits # {} /\ GrantedSize(Blocks[Min(fits)], Aligned(size)) < size THEN size ELSE 0

-----------------------------------------------------------------------------
(* free: the block before takes it over, then the blocks behind are joined. *)

IndexOf(blocks_, addr) == CHOOSE i \in DOMAIN blocks_ : blocks_[i].addr = addr

Touching(b, c) == b.addr + BlockHeader + b.size = c.addr

TakeOver(blocks_, i) ==
  RemoveAt([blocks_ EXCEPT ![i].size = @ + BlockHeader + blocks_[i + 1].size], i + 1)

\* coalesce_blocks
Coalesce(blocks_, i) ==
  LET after[k \in 0..(Len(blocks_) - i)] ==
        IF k = 0 THEN blocks_
        ELSE LET last == after[k - 1] IN
             IF i < Len(last) /\ last[i + 1].free /\ Touching(last[i], last[i + 1])
               THEN TakeOver(last, i) ELSE last
  IN after[Len(blocks_) - i]

ReleaseForward(blocks_, addr) ==
  LET i == IndexOf(blocks_, addr)
  IN Coalesce([blocks_ EXCEPT ![i].free = TRUE], i)

ReleaseBlock(blocks_, addr) ==
  LET i == IndexOf(blocks_, addr)
      freed_ == [blocks_ EXCEPT ![i].free = TRUE]
  IN IF i > 1 /\ freed_[i - 1].free /\ Touching(freed_[i - 1], freed_[i])
       THEN Coalesce(TakeOver(freed_, i - 1), i - 1)
       ELSE Coalesce(freed_, i)

\* The program frees what it holds.
FreePointer(p) ==
  /\ p \in pointers /\ pointers' = pointers \ {p}
  /\ list' = ReleaseBlock(list, p.addr)
  /\ UNCHANGED <<heap_end, g_heap, overrun>>

-----------------------------------------------------------------------------
\* A block that is large enough stays, otherwise a new one is taken and all of
\* the old one copied there before it is freed; when there is none the program
\* keeps the old one.
Realloc(p, size) ==
  LET old == list[IndexOf(list, p.addr)]
      n == Aligned(size)
      fits == BigEnough(list, n) IN
  /\ p \in pointers /\ size # 0
  /\ IF old.size >= size
       THEN /\ pointers' = (pointers \ {p}) \cup {Held(p.addr, size)}
            /\ UNCHANGED <<list, overrun>>
       ELSE /\ fits # {}
            /\ list' = ReleaseBlock(TakeBlock(list, Min(fits), n), p.addr)
            /\ pointers' = (pointers \ {p}) \cup {Held(list[Min(fits)].addr, size)}
            /\ overrun' = IF GrantedSize(list[Min(fits)], n) < old.size THEN size ELSE 0
  /\ UNCHANGED <<heap_end, g_heap>>

\* What is written behind a block is the header of the next: nothing is known
\* of the heap from then on.
UserHeapNext ==
  /\ overrun = 0
  /\ \/ \E inc \in Increments : Sbrk(inc)
     \/ \E size \in Asked : Malloc(size) \/ Calloc(size) \/ \E p \in pointers : Realloc(p, size)
     \/ \E p \in pointers : FreePointer(p)

UserHeapSpec == UserHeapInit /\ [][UserHeapNext]_hvars

-----------------------------------------------------------------------------
\* From the list header to the end of the reserve the blocks follow each
\* other without a gap and no two free ones touch: whatever the order of the
\* calls nothing is lost, and a program that has freed all it held has the
\* whole heap again.
NothingLeaks ==
  g_heap =>
    /\ list[1].addr = ImageEnd + ListHeader
    /\ LET last == list[Len(list)] IN last.addr + BlockHeader + last.size = HeapMax
    /\ \A i \in 1..(Len(list) - 1) :
         /\ Touching(list[i], list[i + 1])
         /\ ~(list[i].free /\ list[i + 1].free)
    /\ pointers = {} => Len(list) = 1

\* What the program holds is a block of its own, at least as large as it asked
\* for and, unless it lowered the break itself, memory that system calls accept
\* from it.  A size so large that rounding it up wraps around to zero gets a
\* block of nothing (malloc.c:31).
HoldsWhatItAsked ==
  \A p \in pointers :
    /\ \E i \in DOMAIN list :
         /\ list[i].addr = p.addr /\ ~list[i].free
         /\ p.size + Align <= WordSize => list[i].size >= p.size
         /\ heap_end = HeapMax => list[i].addr + BlockHeader + list[i].size <= heap_end
    /\ \A q \in pointers : q.addr = p.addr => q = p
    /\ Cardinality({i \in DOMAIN list : ~list[i].free}) = Cardinality(pointers)

\* Blocks are whole, disjoint and none is lost, and malloc.c writes behind none
\* of them, unless realloc or calloc is asked for a size that wraps around to
\* nothing when it is rounded up: the block is then filled behind its end.
MallocIsSound ==
  IF overrun = 0 THEN HoldsWhatItAsked /\ NothingLeaks ELSE overrun + Align > WordSize
=============================================================================
