-------------------------------- MODULE Heap --------------------------------
(***************************************************************************)
(* The kernel heap, src/src/memory/memory.c: a first-fit allocator over    *)
(* one region, whose blocks are kept in a list in address order, and the   *)
(* page allocator of proc.c on top of it.  One list serves t_processes,    *)
(* stacks, images, surfaces and files.                                     *)
(*                                                                         *)
(* The list is a sequence of block headers.  kmalloc and kfree are one     *)
(* action each, as they are in a system call and at boot, where interrupts *)
(* are masked; the code has no lock for the callers that leave them        *)
(* enabled.                                                                *)
(***************************************************************************)
EXTENDS Integers, SequencesExt

CONSTANTS
    HeapStart,  \* HEAP_START
    HeapSize,   \* HEAP_SIZE, in bytes
    Header,     \* sizeof(block_t)
    PageSize,   \* PAGE_SIZE
    Word,       \* sizeof(void *)
    Request,    \* the sizes that callers ask for
    Pages       \* the numbers of pages that callers ask for

ASSUME HeapAssumption == HeapStart \in Nat /\ HeapSize \in Nat
ASSUME HeaderAssumption == Header \in Nat \ {0} /\ Header < HeapSize
ASSUME PageAssumption == PageSize \in Nat \ {0} /\ Word \in Nat
ASSUME RequestAssumption == Request \subseteq Nat /\ Pages \subseteq Nat

HeapEnd == HeapStart + HeapSize

VARIABLES
    blocks,     \* the list that starts at `heap`
    given       \* the memory that callers hold

vars == <<blocks, given>>

(***************************************************************************)
(* A caller may use `size` bytes from `at` on, and gives `raw` to kfree.   *)
(***************************************************************************)
Grant == [at : Nat, size : Nat, raw : Nat]

Block == [addr : Nat, size : Nat, free : BOOLEAN]

(***************************************************************************)
(* heap_init                                                               *)
(***************************************************************************)
Init ==
    /\ blocks = <<[addr |-> HeapStart, size |-> HeapSize - Header,
                   free |-> TRUE]>>
    /\ given = {}

----------------------------------------------------------------------------
(* kmalloc *)

RoundUp(n, unit) == ((n + unit - 1) \div unit) * unit

Fits(b, n) == {i \in 1..Len(b) : b[i].free /\ b[i].size >= n}

(***************************************************************************)
(* A block is split when that leaves a block of at least 8 bytes.          *)
(***************************************************************************)

WorthSplitting(b, i, n) == b[i].size >= n + Header + 8

RestOf(b, i, n) ==
    [addr |-> b[i].addr + Header + n, size |-> b[i].size - n - Header,
     free |-> TRUE]

InUse(b, i, n) == [addr |-> b[i].addr, size |-> n, free |-> FALSE]

Taken(b, i, n) ==
    IF WorthSplitting(b, i, n)
    THEN InsertAt([b EXCEPT ![i] = InUse(b, i, n)], i + 1, RestOf(b, i, n))
    ELSE [b EXCEPT ![i] = InUse(b, i, b[i].size)]

Pointer(block) == block.addr + Header

(***************************************************************************)
(* kmalloc(n) for a caller that uses `size` bytes of it from the first     *)
(* multiple of `unit` on; it returns null when no block fits.              *)
(***************************************************************************)
Allocate(n, size, unit) ==
    LET fits == Fits(blocks, RoundUp(n, 8))
        i == Min(fits)
        raw == Pointer(blocks[i])
    IN  /\ fits # {}
        /\ blocks' = Taken(blocks, i, RoundUp(n, 8))
        /\ given' = given \cup
                {[at |-> RoundUp(raw, unit), size |-> size, raw |-> raw]}

Kmalloc(n) == Allocate(n, n, 1)

(***************************************************************************)
(* alloc_pages: a page of slack to align in, and a word behind the pages   *)
(* that holds the pointer to free.                                         *)
(***************************************************************************)

RoomForPages(pages) == pages * PageSize + PageSize + Word

AllocPages(pages) ==
    Allocate(RoomForPages(pages), pages * PageSize + Word, PageSize)

----------------------------------------------------------------------------
(* kfree *)

(***************************************************************************)
(* Absorb the following block, then be absorbed by the preceding one, each *)
(* if it is free.                                                          *)
(***************************************************************************)
JoinedWithoutHeader(b, i) ==
    [addr |-> b[i].addr, size |-> b[i].size + b[i + 1].size, free |-> b[i].free]

Joined(b, i) ==
    [addr |-> b[i].addr, size |-> b[i].size + Header + b[i + 1].size,
     free |-> b[i].free]

Absorb(b, i) == RemoveAt([b EXCEPT ![i] = Joined(b, i)], i + 1)

MergeNextUnchecked(b, i) == IF i < Len(b) THEN Absorb(b, i) ELSE b

MergeNext(b, i) == IF i < Len(b) /\ b[i + 1].free THEN Absorb(b, i) ELSE b

MergePrev(b, i) == IF i > 1 /\ b[i - 1].free THEN Absorb(b, i - 1) ELSE b

Freed(b, i) ==
    MergePrev(MergeNext([b EXCEPT ![i] = [@ EXCEPT !.free = TRUE]], i), i)

(***************************************************************************)
(* kfree refuses a pointer outside [HEAP_START, HEAP_END).                 *)
(***************************************************************************)
Kfree(g) ==
    /\ given' = given \ {g}
    /\ \E i \in 1..Len(blocks) :
          /\ Pointer(blocks[i]) = g.raw
          /\ blocks' = IF g.raw < HeapEnd THEN Freed(blocks, i) ELSE blocks

Next ==
    \/ \E n \in Request : Kmalloc(n)
    \/ \E n \in Pages : AllocPages(n)
    \/ \E g \in given : Kfree(g)

Spec == Init /\ [][Next]_vars
----------------------------------------------------------------------------
(* Properties *)

TypeOK ==
    /\ blocks \in Seq(Block)
    /\ given \subseteq Grant

(***************************************************************************)
(* The blocks tile the heap: no byte is lost or in two blocks, whatever    *)
(* was split and merged in whatever order.                                 *)
(***************************************************************************)
End(block) == block.addr + Header + block.size

Tiles(b) ==
    /\ b # <<>>
    /\ b[1].addr = HeapStart
    /\ \A i \in 1..(Len(b) - 1) : b[i + 1].addr = End(b[i])
    /\ End(b[Len(b)]) = HeapEnd

Tiled == Tiles(blocks)

(***************************************************************************)
(* Free memory is never in two pieces side by side, so kmalloc fails only  *)
(* if no free stretch is long enough; when all has been given back the     *)
(* heap is one block again.                                                *)
(***************************************************************************)
Merged(b) == \A i \in 1..(Len(b) - 1) : ~(b[i].free /\ b[i + 1].free)

FullyMerged == Merged(blocks)

(***************************************************************************)
(* What a caller holds lies in a block that is in use, and that block is   *)
(* nobody else's; a block in use is somebody's.                            *)
(***************************************************************************)
Used(b) == {block \in ToSet(b) : ~block.free}

Backs(block, g) ==
    /\ Pointer(block) = g.raw
    /\ g.raw <= g.at
    /\ g.at + g.size <= End(block)

GrantsBacked ==
    /\ \A g \in given : \E block \in Used(blocks) : Backs(block, g)
    /\ \A block \in Used(blocks) : \E g \in given : Backs(block, g)
    /\ \A g, h \in given : g # h => g.raw # h.raw

(***************************************************************************)
(* After any calls the blocks tile the heap, free ones are merged, and     *)
(* every caller's memory is its own (memory.c, alloc_pages in proc.c).     *)
(***************************************************************************)
HeapIsSound == TypeOK /\ Tiled /\ FullyMerged /\ GrantsBacked

(***************************************************************************)
(* A block that stays in use is left alone: no kmalloc or kfree of         *)
(* somebody else's moves it or changes its size.                           *)
(***************************************************************************)
OthersUntouched ==
    [][\A g \in given \cap given', block \in Used(blocks) :
          Backs(block, g) => block \in Used(blocks')]_vars

(***************************************************************************)
(* The inductive invariant.  The last block is never empty: kfree would    *)
(* refuse a pointer to the end of the heap.                                *)
(***************************************************************************)
HeapInv ==
    /\ TypeOK
    /\ Tiled
    /\ FullyMerged
    /\ GrantsBacked
    /\ blocks[Len(blocks)].size > 0
=============================================================================
