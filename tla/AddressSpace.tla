---------------------------- MODULE AddressSpace ----------------------------
(***************************************************************************)
(* Address spaces: the page tables of src/src/memory/MMU.c and the         *)
(* processes, threads and surfaces that fill them (proc.c, elf.c,          *)
(* syscalls.c).  A program and its threads share one table: the image at   *)
(* its virtual addresses, and stacks and surfaces at the address the       *)
(* kernel heap gave them.  A stack has whole pages (proc.c:8-21).  A        *)
(* surface is a block of the heap as kmalloc gives it: it begins and ends   *)
(* within a page, whose other half may be a block of the kernel's or        *)
(* another surface, and map_range maps its pages whole.  The heap gives     *)
(* the first place that is free.                                            *)
(* Nothing keeps these apart: programs are linked at addresses that the    *)
(* heap has too (compiler/linker.ld:5), and a stack there takes the place  *)
(* of a page of the image in the table.                                    *)
(*                                                                         *)
(* A call maps its pages one by one and may run out of memory for a second *)
(* level table at any of them.  All of it happens with interrupts masked.  *)
(***************************************************************************)
EXTENDS Integers, SequencesExt

CONSTANTS Tasks,       \* t_process objects
          HeapPages,   \* page numbers of the kernel heap
          ImagePages,  \* pages of a program's image
          KernelBlocks, \* bound: other blocks that the kernel has of the heap at once
          Layouts      \* of images: sequences of ranges [pages, write, exec], the
                   \* program's heap, behind the last section, at the end

NoTask   == "no task"

ASSUME AllPagesAssumption ==
  /\ HeapPages \subseteq Nat /\ NoTask \notin Tasks /\ KernelBlocks \in Nat
  /\ Layouts \subseteq Seq([pages : SUBSET ImagePages, write : BOOLEAN, exec : BOOLEAN])

AllPages    == HeapPages \cup ImagePages
NoPage   == -1
Unmapped == [ap |-> "none", xn |-> TRUE]

VARIABLES table,   \* of each program: page |-> descriptor
          direct,  \* of each program: the pages whose entry is for the page of that
                   \* number, as for stacks and surfaces; other entries are for
                   \* memory of the image
          asked,   \* of each program: the ranges mapped and not unmapped since
          owner,   \* of each live task: the program whose table it uses
          kernel_stack, user_stack, \* pages of each task
          surface, \* of each task: the page in which its surface begins
          taken,   \* heap pages that stacks have
          lent,    \* halves of pages that surfaces have
          kept,    \* halves of pages that other blocks of the kernel have
          shown    \* of each program: pages its table has because a surface lies or
                   \* lay there

avars == <<table, direct, asked, owner, kernel_stack, user_stack, surface, taken, lent,
           kept, shown>>

Empty == [p \in AllPages |-> Unmapped]

AddressSpaceInit ==
  /\ table = [t \in Tasks |-> Empty]
  /\ direct = [t \in Tasks |-> {}] /\ asked = direct
  /\ owner = [t \in Tasks |-> NoTask]
  /\ kernel_stack = [t \in Tasks |-> NoPage] /\ user_stack = kernel_stack
  /\ surface = kernel_stack /\ taken = {} /\ lent = {} /\ kept = {} /\ shown = direct

Halves(p) == {<<p, "front">>, <<p, "back">>}
FreeHalves(p)   == IF p \in taken THEN {} ELSE Halves(p) \ (lent \cup kept)

\* Pages that are free as a whole.
Free == {p \in HeapPages : FreeHalves(p) = Halves(p)}

\* Two pages for the stacks of a task: the first two that are free.
Stacks(k, u) == k = Min(Free) /\ u = Min(Free \ {k})

Live    == {t \in Tasks : owner[t] # NoTask}
Sharing(t) == {u \in Live : owner[u] = t}

-----------------------------------------------------------------------------
(* map_range and mmu_unmap_range *)

KernelOnly == [ap |-> "kernel", xn |-> TRUE]
UserData   == [ap |-> "rw", xn |-> TRUE]
Section(s) == [ap |-> IF s.write THEN "rw" ELSE "ro", xn |-> ~s.exec]

\* "A page shared with a kernel-only range must stay kernel-only": otherwise
\* write access wins, and execute access.
CombinedByLast(old, new) == new

Combined(old, new) ==
  IF old = Unmapped THEN new
  ELSE IF "kernel" \in {old.ap, new.ap} THEN KernelOnly
  ELSE [ap |-> IF "rw" \in {old.ap, new.ap} THEN "rw" ELSE "ro",
        xn |-> old.xn /\ new.xn]

MapRange(tab, pages, d) ==
  [p \in AllPages |-> IF p \in pages THEN Combined(tab[p], d) ELSE tab[p]]

Unmap(tab, pages) == [p \in AllPages |-> IF p \in pages THEN Unmapped ELSE tab[p]]

\* What is asked of a table: pages and the access to them.
Ask(pages, d) == {<<p, d>> : p \in pages}
Forget(asks, pages) == {a \in asks : a[1] \notin pages}

-----------------------------------------------------------------------------
(* elf_to_proc: address_space_create, then the stacks.  When it fails the  *)
(* process is unlisted; its stacks stay allocated.                         *)

ImageTable(layout) ==
  LET upto[i \in 0..Len(layout)] ==
        IF i = 0 THEN Empty
        ELSE MapRange(upto[i - 1], layout[i].pages, Section(layout[i]))
  IN upto[Len(layout)]

ImageAsked(layout) == UNION {Ask(s.pages, Section(s)) : s \in ToSet(layout)}

Exec(t) ==
  /\ t \notin Live /\ Sharing(t) = {}
  /\ \E k, u \in Free, layout \in Layouts :
       /\ Cardinality(Free) > 1 /\ Stacks(k, u)
       /\ taken' = taken \cup {k, u}
       /\ \/ /\ table' = [table EXCEPT ![t] =
                   MapRange(MapRange(ImageTable(layout), {u}, UserData), {k}, KernelOnly)]
             /\ direct' = [direct EXCEPT ![t] = {u, k}]
             /\ asked' = [asked EXCEPT ![t] =
                   ImageAsked(layout)
                     \cup Ask({u}, UserData) \cup Ask({k}, KernelOnly)]
             /\ owner' = [owner EXCEPT ![t] = t]
             /\ kernel_stack' = [kernel_stack EXCEPT ![t] = k]
             /\ user_stack' = [user_stack EXCEPT ![t] = u]
             /\ shown' = [shown EXCEPT ![t] = {}]
          \/ UNCHANGED <<table, direct, asked, owner, kernel_stack, user_stack, shown>>
  /\ UNCHANGED <<surface, lent, kept>>

Gone(t) ==
  /\ owner' = [owner EXCEPT ![t] = NoTask]
  /\ kernel_stack' = [kernel_stack EXCEPT ![t] = NoPage]
  /\ user_stack' = [user_stack EXCEPT ![t] = NoPage]
  /\ surface' = [surface EXCEPT ![t] = NoPage]

-----------------------------------------------------------------------------
(* thread_create_current and thread_destroy_current *)

ThreadCreate(caller, t) ==
  LET space == owner[caller] IN
  /\ caller \in Live /\ t \notin Live /\ Sharing(t) = {} /\ t # space
  /\ \E k, u \in Free :
       /\ Cardinality(Free) > 1 /\ Stacks(k, u)
       /\ \/ /\ table' = [table EXCEPT ![space] =
                   MapRange(MapRange(@, {u}, UserData), {k}, KernelOnly)]
             /\ direct' = [direct EXCEPT ![space] = @ \cup {u, k}]
             /\ asked' = [asked EXCEPT ![space] =
                   @ \cup Ask({u}, UserData) \cup Ask({k}, KernelOnly)]
             /\ owner' = [owner EXCEPT ![t] = space]
             /\ kernel_stack' = [kernel_stack EXCEPT ![t] = k]
             /\ user_stack' = [user_stack EXCEPT ![t] = u]
             /\ taken' = taken \cup {k, u} /\ UNCHANGED shown
          \/ \* out of memory on the way: both are unmapped and freed
             /\ table' = [table EXCEPT ![space] = Unmap(@, {k, u})]
             /\ direct' = [direct EXCEPT ![space] = @ \ {k, u}]
             /\ asked' = [asked EXCEPT ![space] = Forget(@, {k, u})]
             /\ shown' = [shown EXCEPT ![space] = @ \ {k, u}]
             /\ UNCHANGED <<owner, kernel_stack, user_stack, taken>>
  /\ UNCHANGED <<surface, lent, kept>>

\* The thread has exited: it is unlisted, its stacks are unmapped and freed.
\* A surface of its own is forgotten, still allocated and still mapped.
ThreadDestroy(t) ==
  /\ t \in Live /\ owner[t] # t
  /\ LET stacks == {kernel_stack[t], user_stack[t]} IN
       /\ table' = [table EXCEPT ![owner[t]] = Unmap(@, stacks)]
       /\ direct' = [direct EXCEPT ![owner[t]] = @ \ stacks]
       /\ asked' = [asked EXCEPT ![owner[t]] = Forget(@, stacks)]
       /\ shown' = [shown EXCEPT ![owner[t]] = @ \ stacks]
       /\ taken' = taken \ stacks
  /\ Gone(t) /\ UNCHANGED <<lent, kept>>

-----------------------------------------------------------------------------
(* sys_surface_create and process_exit_current.  The copy of the surface    *)
(* that is kept beside it is one of the kernel's own blocks.               *)

SurfacePages(s)  == {s, s + 1}
SurfaceBlock(s)  == {<<s, "back">>, <<s + 1, "front">>}
Places    == {s \in HeapPages : s + 1 \in HeapPages /\ SurfaceBlock(s) \subseteq FreeHalves(s) \cup FreeHalves(s + 1)}

Show(t, pages) ==
  /\ table' = [table EXCEPT ![owner[t]] = MapRange(@, pages, UserData)]
  /\ direct' = [direct EXCEPT ![owner[t]] = @ \cup pages]
  /\ asked' = [asked EXCEPT ![owner[t]] = @ \cup Ask(pages, UserData)]
  /\ shown' = [shown EXCEPT ![owner[t]] = @ \cup pages]

SurfaceCreate(t) ==
  /\ t \in Live /\ surface[t] = NoPage
  /\ \E s \in Places :
       /\ s = Min(Places)
       /\ \/ /\ Show(t, SurfacePages(s))
             /\ surface' = [surface EXCEPT ![t] = s] /\ lent' = lent \cup SurfaceBlock(s)
          \/ \* the last page could not be mapped: the surface is freed and
             \* its first page stays mapped
             Show(t, {s}) /\ UNCHANGED <<surface, lent>>
  /\ UNCHANGED <<owner, kernel_stack, user_stack, taken, kept>>

\* The surface is freed, and stays in the table, which the threads of the
\* program go on using; the stacks of the task stay allocated.
Exit(t) ==
  /\ t \in Live
  /\ Gone(t)
  /\ lent' = IF surface[t] = NoPage THEN lent ELSE lent \ SurfaceBlock(surface[t])
  /\ UNCHANGED <<table, direct, asked, taken, kept, shown>>

\* The kernel allocates and frees other blocks in between.
KernelAlloc ==
  /\ Cardinality(kept) < KernelBlocks
  /\ \E p \in {q \in HeapPages : FreeHalves(q) # {}} :
       /\ p = Min({q \in HeapPages : FreeHalves(q) # {}})
       /\ \E half \in FreeHalves(p) : kept' = kept \cup {half}
  /\ UNCHANGED <<table, direct, asked, owner, kernel_stack, user_stack, surface, taken,
                 lent, shown>>

KernelFree ==
  /\ \E half \in kept : kept' = kept \ {half}
  /\ UNCHANGED <<table, direct, asked, owner, kernel_stack, user_stack, surface, taken,
                 lent, shown>>

AddressSpaceNext ==
  \/ \E t \in Tasks : Exec(t) \/ ThreadDestroy(t) \/ SurfaceCreate(t) \/ Exit(t)
  \/ \E caller, t \in Tasks : ThreadCreate(caller, t)
  \/ KernelAlloc \/ KernelFree

AddressSpaceSpec == AddressSpaceInit /\ [][AddressSpaceNext]_avars

-----------------------------------------------------------------------------
InUseSpaces == {owner[t] : t \in Live}

\* The access to a page is the strictest for the kernel and the widest for
\* the program of all that was asked for it, in whatever order the ranges
\* were mapped (MMU.c:303).
AccessIsMerged ==
  \A t \in InUseSpaces, p \in AllPages :
    LET over == {a[2] : a \in {b \in asked[t] : b[1] = p}} IN
    IF over = {} THEN table[t][p] = Unmapped
    ELSE IF KernelOnly \in over THEN table[t][p] = KernelOnly
    ELSE table[t][p] = [ap |-> IF \E d \in over : d.ap = "rw" THEN "rw" ELSE "ro",
                        xn |-> \A d \in over : d.xn]

\* Of the kernel heap a program reaches its own stacks only, and the pages in
\* which a surface of its own lies or lay: what a failed or ended thread had
\* is out of its table before the heap gives it to others (proc.c:229-262).
\* About the pages of surfaces nothing can be said: what else lies in the
\* first and the last of them the program reaches too (syscalls.c:419,
\* MMU.c:300), and they stay mapped when the surface is freed (proc.c:304).
OnlyItsOwn ==
  \A t \in InUseSpaces : \A p \in direct[t] \ shown[t] :
    table[t][p] # Unmapped /\ table[t][p].ap # "kernel" =>
      /\ p \in taken /\ Halves(p) \cap (lent \cup kept) = {}
      /\ \A u \in Live : p # kernel_stack[u] /\ (p = user_stack[u] => owner[u] = t)

\* Whatever is mapped and unmapped by a program, its threads and surfaces, a
\* page has the rights of all that share it, and beyond the pages of surfaces
\* a program reaches no memory of the heap that is not its own.
SpacesAreSound == AccessIsMerged /\ OnlyItsOwn
=============================================================================
