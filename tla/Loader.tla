------------------------------- MODULE Loader -------------------------------
(***************************************************************************)
(* Starting a program: sys_exec (src/src/proc/syscalls/syscalls.c) and     *)
(* elf_to_proc with its helpers (src/src/proc/elf/elf.c, app_info.c).      *)
(*                                                                         *)
(* One call is followed from the path to the new process.  Each step may   *)
(* fail, out of memory or because of what the file holds, and gives back   *)
(* what the code gives back there.  Addresses and sizes are words of 32    *)
(* bits; memory is counted in the units the program headers use.           *)
(*                                                                         *)
(* The program headers are checked before they are used.  The section       *)
(* headers are not: parse_app_info reads one before it knows where the      *)
(* table is, and copies as many bytes of the metadata as the file says into *)
(* a structure on the stack of the kernel.  `outside` records it, and the   *)
(* call is not followed further once something was written there.           *)
(***************************************************************************)
EXTENDS Integers, SequencesExt

CONSTANTS WordValues, \* values of a word (2^32 in the code)
          Reserved,   \* USER_HEAP_RESERVED + 8 + 0x1FFF
          Files,      \* what files may hold, see FileType
          HeaderSize, \* sizes of a header, and
          MetadataSize, \* of an AppMetadata
          StackSize,  \* USER_STACK_PAGES * PAGE_SIZE
          Arguments   \* the lengths of path and arguments

\* PT_LOAD headers, section headers with SHF_ALLOC, a table of headers.
SegmentHeader == [vaddr : Nat, offset : Nat, filesz : Nat, memsz : Nat]
SectionHeader == [start : Nat, size : Nat]
Headers == [offset : Nat, entry : Nat, count : Nat]

\* With the program and section headers the file has: the number of the
\* section of names, whether the names and the strings of the metadata lie in
\* the file, and the sections called .appmeta.
FileType == [segments : SUBSET SegmentHeader, sections : SUBSET SectionHeader, entry : Nat, size : Nat,
             program : Headers, table : Headers, names : Nat, named : BOOLEAN,
             metadata : SUBSET [offset : Nat, size : Nat]]

ASSUME ImageAssumption ==
  /\ WordValues \in Nat \ {0} /\ Reserved \in 0..WordValues /\ StackSize \in Nat
  /\ Files \subseteq FileType /\ HeaderSize \in Nat /\ MetadataSize \in Nat
  /\ Arguments \subseteq Seq(Nat) \ {<<>>}

VARIABLES file,   \* what the file holds
          args,   \* sequence of argument lengths, the path first
          at,     \* the step of the call
          held,   \* what was allocated and not freed
          freed,  \* what was freed
          image,  \* units allocated for the image
          bounds, \* <<min_vaddr, max_vaddr>>
          misused, \* something was used or freed after it was freed
          outside \* what was read or written outside the file or a structure

lvars == <<file, args, at, held, freed, image, bounds, misused, outside>>

LoaderInit ==
  /\ file \in Files /\ args \in Arguments
  /\ at = "exec" /\ held = {} /\ freed = {} /\ image = 0 /\ bounds = <<0, 0>>
  /\ misused = FALSE /\ outside = {}

Obtain(what) == held' = held \cup {what} /\ UNCHANGED <<freed, misused>>

GiveBack(what) == /\ held' = held \ what /\ freed' = freed \cup what
              /\ misused' = (misused \/ what \cap freed # {})

Use(what) == misused' = (misused \/ what \cap freed # {}) /\ UNCHANGED <<held, freed>>

Reaches(from, to) == at = from /\ at' = to /\ UNCHANGED <<file, args>>

\* elf_to_proc returns null after it freed `what`; sys_exec keeps its copy of
\* the argument pointers then.
FailsAt(from, what) ==
  Reaches(from, "failed") /\ GiveBack(what) /\ UNCHANGED <<image, bounds, outside>>

-----------------------------------------------------------------------------
\* sys_exec copies the argument pointers.
ResolveArguments ==
  /\ Reaches("exec", "open") /\ Obtain("argv") /\ UNCHANGED <<image, bounds, outside>>

Open == Reaches("open", "read") /\ Obtain("fd") /\ UNCHANGED <<image, bounds, outside>>

\* read_entire_file closes nothing: the caller closes the descriptor on both
\* ways out.
ReadEntireFile ==
  /\ Reaches("read", "check") /\ file.size > 0
  /\ held' = (held \cup {"file"}) \ {"fd"} /\ freed' = freed \cup {"fd"}
  /\ UNCHANGED <<misused, image, bounds, outside>>

TableInside(table) ==
  /\ table.entry >= HeaderSize /\ table.offset < file.size
  /\ table.offset + table.count * table.entry <= file.size

\* load_image_bounds
Loaded == file.segments
Lowest == Min({s.vaddr : s \in Loaded})
Highest == Max({s.vaddr + s.memsz : s \in Loaded})

SoundSegment(s) ==
  /\ s.memsz > 0 /\ s.filesz <= s.memsz
  /\ s.offset + s.filesz <= file.size
  /\ s.vaddr + s.memsz < WordValues

CheckBounds ==
  /\ Reaches("check", "image")
  /\ file.program.count # 0 /\ TableInside(file.program)
  /\ Loaded # {} /\ \A s \in Loaded : SoundSegment(s)
  /\ bounds' = <<Lowest, Highest>>
  /\ Use({"file"}) /\ UNCHANGED <<image, outside>>

\* The sum is a size_t: it wraps around.
AllocateImage ==
  /\ Reaches("image", "copy")
  /\ image' = (bounds[2] - bounds[1] + Reserved) % WordValues
  /\ Obtain("image") /\ UNCHANGED <<bounds, outside>>

\* load_pt_segments
Copy ==
  Reaches("copy", "sections") /\ Use({"file", "image"}) /\ UNCHANGED <<image, bounds, outside>>

\* parse_app_info reads the header of the names, and swaps its bytes when the
\* file is of the other byte order, before the table is checked; then it lists
\* the sections.  Neither where the names and the metadata lie nor how long
\* the metadata is is checked.
Within(s) == s.start >= bounds[1] /\ s.start + s.size <= bounds[2]

HeaderOutside ==
  IF file.table.offset + file.table.entry * file.names + HeaderSize > file.size
    THEN {"header"} ELSE {}
Lists == TableInside(file.table) /\ file.names < file.table.count
ListsOutside ==
  {w \in {"names", "metadata"} :
     \/ w = "names" /\ ~file.named
     \/ w = "metadata" /\ \E m \in file.metadata : m.offset + m.size > file.size}
Overrun == \E m \in file.metadata : m.size > MetadataSize

NoList ==
  /\ Reaches("sections", "entry")
  /\ outside' = outside \cup HeaderOutside
  /\ UNCHANGED <<held, freed, misused, image, bounds>>

ParseSections ==
  /\ Reaches("sections", "listed") /\ Lists /\ ~Overrun
  /\ outside' = outside \cup HeaderOutside \cup ListsOutside
  /\ Obtain("sections") /\ UNCHANGED <<image, bounds>>

\* The stack of the call, or what the header lies in, is written over.
Written ==
  /\ Reaches("sections", "astray")
  /\ \/ HeaderOutside # {} /\ outside' = outside \cup HeaderOutside
     \/ Lists /\ Overrun /\ outside' = outside \cup {"stack"}
  /\ UNCHANGED <<held, freed, misused, image, bounds>>

\* The sections with SHF_ALLOC must lie within the image.
CheckSections ==
  /\ Reaches("listed", "entry") /\ \A s \in file.sections : Within(s)
  /\ UNCHANGED <<held, freed, misused, image, bounds, outside>>

CheckEntry ==
  /\ Reaches("entry", "process") /\ file.entry \in bounds[1]..(bounds[2] - 1)
  /\ UNCHANGED <<held, freed, misused, image, bounds, outside>>

\* process_create, then the arguments are copied to its stack.
CreateProcess ==
  /\ Reaches("process", "space")
  /\ held' = held \cup {"process", "kernel_stack", "user_stack"}
  /\ UNCHANGED <<freed, misused, image, bounds, outside>>

CreateSpace ==
  /\ Reaches("space", "done")
  /\ held' = (held \cup {"table"}) \ {"file", "argv"}
  /\ freed' = freed \cup {"file", "argv"}
  /\ UNCHANGED <<misused, image, bounds, outside>>

Listed == held \cap {"sections"}

FailureKeepingImage ==
  \/ FailsAt("exec", {})
  \/ FailsAt("open", {})
  \/ FailsAt("read", {"fd"})
  \/ FailsAt("check", {"file"})
  \/ FailsAt("image", {"file"})
  \/ FailsAt("entry", {"file"})
  \/ FailsAt("process", {"file", "image"})
  \/ FailsAt("space", Listed \cup {"file", "image"})

Failure ==
  \/ FailsAt("exec", {})
  \/ FailsAt("open", {})
  \/ FailsAt("read", {"fd"})
  \/ FailsAt("check", {"file"})
  \/ FailsAt("image", {"file"})
  \/ FailsAt("entry", {"file", "image"})
  \/ FailsAt("process", {"file", "image"})
  \/ FailsAt("space", Listed \cup {"file", "image"})

\* A section outside the image.
SectionOutside ==
  /\ \E s \in file.sections : ~Within(s)
  /\ FailsAt("listed", {"sections", "file", "image"})

Returned == at \in {"done", "failed", "astray"} /\ UNCHANGED lvars

LoaderNext ==
  \/ ResolveArguments \/ Open \/ ReadEntireFile \/ CheckBounds \/ AllocateImage \/ Copy
  \/ NoList \/ ParseSections \/ Written \/ CheckSections \/ SectionOutside \/ CheckEntry \/ CreateProcess \/ CreateSpace
  \/ Failure \/ Returned

LoaderSpec == LoaderInit /\ [][LoaderNext]_lvars

-----------------------------------------------------------------------------
(* set_initial_user_args: addresses from the bottom of the user stack *)

Down(n, unit) == n - (n % unit)
Total(lens) ==
  LET upto[i \in 0..Len(lens)] == IF i = 0 THEN 0 ELSE upto[i - 1] + lens[i]
  IN upto[Len(lens)]

\* The pointers are at the top, the strings below them, each aligned down.
Pointers(lens) == Down(StackSize - 4 * (Len(lens) + 2), 8) + 4

Strings(lens) ==
  LET start[i \in 0..Len(lens)] ==
        IF i = 0 THEN Pointers(lens) ELSE Down(start[i - 1] - lens[i], 4)
  IN [i \in 1..Len(lens) |-> start[i]]

Accepted(lens) == Total(lens) + 4 * (Len(lens) + 2) <= StackSize

StackPointer(lens) == Down(Strings(lens)[Len(lens)] - 4, 8)

-----------------------------------------------------------------------------
\* A call that fails leaves neither the file, nor its descriptor, nor the
\* image behind, one that succeeds leaves the image and not the file, and
\* nothing is used or freed after it was freed, whichever step fails (the
\* list of sections, the argument pointers, and the process whose address
\* space could not be made are kept: syscalls.c:567, elf.c:501, elf.c:523).
EndsClean ==
  /\ ~misused
  /\ at = "failed" => held \cap {"fd", "file", "image"} = {}
  /\ at = "done" => held \cap {"fd", "file", "image"} = {"image"}

\* The program headers that are read lie in the file, every segment is copied
\* from within the file to within the image, and the section mapped lies there
\* too, unless the size of the image wraps around (elf.c:467).
CopiesInside ==
  at \in {"sections", "listed", "entry", "process", "space", "done"}
    /\ bounds[2] - bounds[1] + Reserved < WordValues =>
    /\ file.program.offset + file.program.count * file.program.entry <= file.size
    /\ \A s \in Loaded : /\ s.offset + s.filesz <= file.size
                         /\ s.vaddr >= bounds[1]
                         /\ s.vaddr - bounds[1] + s.filesz <= image
                         /\ s.vaddr + s.filesz <= bounds[2]
    /\ at # "sections" /\ at # "listed" /\ "sections" \in held =>
         \A s \in file.sections : s.start + s.size - bounds[1] <= image

\* That the section headers are read inside the file, and the metadata copied
\* inside its structure, is up to the file: it holds when the table, the names
\* and the metadata lie in the file and the metadata is no longer than an
\* AppMetadata, and then whatever the program headers say
\* (app_info.c:57-65, 84-117).
WellDescribed ==
  /\ Lists /\ file.named
  /\ \A m \in file.metadata : m.offset + m.size <= file.size /\ m.size <= MetadataSize

SectionsInside == WellDescribed => outside = {} /\ at # "astray"

\* The pointers and the strings that main() gets lie in the user stack, none
\* over another, and the stack pointer below them is one the context check
\* accepts, when what the alignment of each string adds still fits: it is not
\* part of the size that is compared (elf.c:360).
ArgumentsFit ==
  Total(args) + 4 * (Len(args) + 2) + 3 * Len(args) + 22 <= StackSize =>
    /\ Accepted(args) /\ StackPointer(args) >= 4
    /\ Pointers(args) + 4 * (Len(args) + 1) <= StackSize
    /\ \A i \in 1..Len(args) :
         /\ Strings(args)[i] % 4 = 0
         /\ Strings(args)[i] + args[i] <= IF i = 1 THEN Pointers(args) ELSE Strings(args)[i - 1]

\* However loading ends, nothing is lost or freed twice, and the segments and
\* arguments that were copied lie inside the image and the stack (elf.c); the
\* metadata only if the file describes it well (app_info.c).
LoadsSoundly == EndsClean /\ CopiesInside /\ SectionsInside /\ ArgumentsFit
=============================================================================
