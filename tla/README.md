# d3m0n_os: verification beside the code

d3m0n_os is a small operating system for a Raspberry Pi class ARM board: one
core, a preemptive round-robin scheduler, user programs in their own address
spaces, a FAT32 file system on an SD card, USB mouse and keyboard, and an SDK
in which the launcher and the applications are written. This directory holds
TLA+ models of the kernel, of its drivers and of the SDK's library, TLC
configurations that check them on small instances, and theorems that TLAPS
proves for every value of the constants.

`PROJECT.json` names the source lines behind every definition (`map`), the
runs, the mutations that show that each property can fail (`mutants`), the
hazards that the properties are for, and the theorems.

Paths below are relative to the repository's root (`src/` is the kernel,
`includes/` its headers, `compiler/sdk/` the SDK, `applications/` the programs).

## 1. The system and its parts

| component | source | state | operations |
| --- | --- | --- | --- |
| process table and scheduler | `src/proc/proc.c`, `scheduler.c`, `boot.s`, `start_first_process.s` | `scheduled_processes` list and tail, `current_process`, `current_pid`, each `t_process` (state, slice, mode, owner) | `process_create`, `thread_create_current`, `thread_destroy_current`, `process_exit_current`, `thread_exit_current`, `scheduler_add/remove/next`, `schedule`, `timer_handler` |
| system calls | `src/proc/syscalls/syscalls.c`, `swi_handler.s` | the standard input ring, file descriptors, `heap_end` of each process | about thirty calls, all with interrupts masked |
| init process | `src/proc/processes/init_proc.c`, `main.c` | the loader's `t_process`, `last_updated_proc` | boot, icon loading, launching, polling of input devices, `click_dispatcher`, `key_dispatcher` |
| exceptions | `src/exceptions.c`, `boot.s` | none | end the faulting user process, or stop the machine |
| event queues, event loop | `src/proc/fifo.c`, `compiler/sdk/lib/app.hpp`, `compiler/sdk/app/app.cpp` | one ring per process; `event_pending` and `pending_event` in each program | push, pop, event thread, main loop |
| waiting | `compiler/sdk/lib/sys.h`, the launcher's windows | what is polled for | `exec`, `pstate`, `thread_join` |
| mutex and log | `src/proc/mutex.c`, `src/serial/log.c` | `locked`, `irq_state` | lock, unlock, log |
| heap | `src/memory/memory.c`, `alloc_pages` in `proc.c` | the block list | `kmalloc`, `kfree`, `calloc`, `alloc_pages`, `free_pages` |
| MMU | `src/memory/MMU.c` | two-level page tables per process | map, unmap, switch |
| FAT32, descriptors, directories | `src/filesystem/*.c` | FAT cache, cluster cache, open files | create, read, write, grow, delete, rename, list, sync, close |
| SD card | `src/filesystem/block_interface.c` | card address, card kind | initialisation, block commands with timeouts |
| USB | `src/usb/usb.c` | hub and device tables, last keyboard report | enumeration, mouse and keyboard polling |
| screen | `src/display/`, `sys_surface_update` | the frame buffer, a snapshot per process, the pixels under the cursor | update, cursor, shapes |
| ELF loader | `src/proc/elf/` | none of its own | builds a process out of a file |
| pictures and icon packs | `src/image/` | the icon library | load BMP, ICO, SVG; load a pack; look an icon up |
| settings, line reader | `src/settings.c`, `src/gnl/` | one buffer per descriptor | read lines and key-value pairs |
| SDK library | `compiler/sdk/malloc.c`, `runtime/stdio.c`, `lib/time.h` | the heap's block list, the streams | `malloc`, `realloc`, `free`; `fopen` to `fclose`; calendar |
| SDK containers | `compiler/sdk/lib/vector.hpp`, `string.hpp`, `functional.hpp` | what each object owns | construct, copy, move, grow, destroy |
| SDK controls | `compiler/sdk/app/app.cpp`, `lib/app/` | the window, its controls, the focus | lay out, draw, click, key |
| SDK markup and drawing | `compiler/sdk/lib/app/parsing/` | parser positions and tables | XML, SVG, TrueType, PNG |
| cryptography | `compiler/algorithm/` | none | RSA keys, encryption, key files |
| studio | `studio/app.js`, `app.py` | open files, drafts, requests under way | open, edit, save |
| device input and output | `src/serial/uart.c`, `spi.c`, `gpio.c`, `ir/`, `dtb/`, `stats/` | registers | |
| library code of the kernel | `src/printf/`, `random.c`, `time.c`, hash functions | the microsecond counter | sleeps, formatting |

**Interaction.** There is no blocking primitive in the kernel. A system call,
an exception and a timer interrupt run to completion with interrupts masked
(`swi_handler.s:15`, `boot.s:170`), so with respect to each other they are
atomic. Concurrency comes from three places: user threads are preempted
between any two of their instructions; the kernel processes (init and the icon
loader) run kernel code with interrupts *enabled*, so whatever they call is
preempted too; and waiting is polling (`pstate`, `thread_join`, the event
loop), so every wait depends on what all others do in the meantime. The studio
is a web page: its handlers run one at a time, but every `await` lets others in.

**What is hard**, and what correctness means here:

- *Process table*: exits, faults, kills (of oneself, of another, of a thread,
  of something already dead), thread destruction and failed creations arrive
  in any order. The core must always have a current process, which is listed
  and the only running one (`boot.s:180` panics otherwise); the list must
  have no freed or repeated entry; pids must name one process; nobody is
  revived, starved, or freed while in use.
- *Event path*: a ring that may be full, a producer that decides for whom an
  event is before it queues it, and two threads of a program that hand events
  over through an unlocked mailbox. No event may be lost, doubled or overtaken.
- *Waits*: they must end however their target ends.
- *Log mutex*: test and set in two steps, and a saved interrupt state shared
  by all holders.
- *Heaps*, of the kernel and of programs: splitting, merging and alignment must
  never overlap or lose memory.
- *Address spaces and loading*: segments, stacks and surfaces share pages and
  tables; every step of loading may fail, with what the steps before it took.
- *File system*: every operation is a sequence of block transfers that may
  fail, disks fill up, caches hide what is on the disk, power is lost.
- *Devices*: the card, the USB bus and the keyboard answer late, not at all, or
  vanish; the cursor is drawn over what others draw.
- *Parsers and decoders*: text in pieces, numbers from files that wrap.

The complete list of hazards, each at its line, is in `PROJECT.json`.

## 2. Modules

    A <- B: B EXTENDS A

    Scheduler   <- Process <- ExecWait          Process implements Lifecycle
    EventPath                                   EventPath implements EventQueue
    Fat32                                       Fat32 implements FileStore
    LogMutex, Heap, RunList, AddressSpace, Loader, Images   <- MCKernel
    FatCache, SdCard, Usb, Screen, Panel                    <- MCHardware
    UserHeap, Stdio, Containers, Controls, Settings, Time,
    Display, Rsa, Xml, Svg, Ttf, Png                        <- MCLibrary
    Studio

    Process, SequenceLemmas                <- ProcessProofs
    EventPath                              <- EventPathProofs
    Fat32, SequenceLemmas                  <- Fat32Proofs
    LogMutex, Heap, RunList, AddressSpace, Loader, SequenceLemmas <- KernelProofs
    FatCache, SequenceLemmas               <- CacheProofs
    SdCard, Usb, Screen, SequenceLemmas    <- DriverProofs
    UserHeap, Stdio, Containers, SequenceLemmas <- LibraryProofs

`MCProcess`, `MCEventPath` and `MCFat32` give the constants of one
model their values. `MCKernel`, `MCHardware` and `MCLibrary` hold parts that share
no state: the variable `part` chooses, at the start, the one that a behaviour is
about, and the others stay as they were. Names follow the code: `SysKill` is
`sys_kill`, `ProcessExitCurrent` is `process_exit_current`.

### Scheduler, Process: the process table

`Scheduler` has the run list as a sequence of `t_process` objects and
`scheduler_add`, `scheduler_remove` and `scheduler_next` as operators on it.
`Process` is the life cycle. Its variables are `runq` (the list), `current`,
`state` and `slice` (fields of `t_process`; `"FREE"` means not allocated),
`info` (what creation fixes: pid, mode, thread or not, owner), `nextPid`
(`current_pid`), `initPc` and `loader` (init's progress and its pointer to the
icon loader) and `masked` (why no interrupt is taken at the moment).

One action is one entry into the kernel with everything it does:

- `TimerHandler` counts the slice down and calls `Schedule`, which demotes the
  running process only if another one is ready.
- `SysExec`, `SysThreadCreate`: success, and each kind of failure with its
  trace. Running out of stack costs a pid; running out of address space leaves
  an allocated `t_process` that is not on the list.
- `SysExit`, `UserFault`, `SysThreadExit`: processes leave the list and are
  never freed, threads stay on it until destroyed. The state recorded is that
  of the code: statuses -6..-1 are crashes, so an undefined instruction, which
  exits with status 0, is not.
- `SysKill`, `SysThreadKill`, `SysThreadDestroy`: with the checks of the code
  in the code's order; a kill of oneself is an exit.
- `SysReadBegin`/`SysReadEnd`: `sys_read(0)` polls the keyboard with
  interrupts masked until a line is there; nothing else runs meanwhile.
- `StartLoader`, `LoaderDone`, `StartLauncher`, `LoaderExit`: the boot
  sequence of `init_proc`.
- `LogLosesInterrupts`: what the log mutex may do to init (see LogMutex).

The register frames, address spaces and stacks are left out; what allocation
failures do to the table is kept as a choice.

### Lifecycle: what the process table promises

Pids only: each is unborn, then ready or running, then dead for good; pids are
issued in order; there is exactly one running pid at every moment. `Process`
implements it through `PidStatus`, which reads a pid's status off the list.

### RunList: the list pointer by pointer

`Scheduler`'s operators are atomic. `RunList` has the `next` pointers, the tail
and the pointer to the current process of `scheduler.c`, and lets the timer
interrupt the two callers that run with interrupts enabled (`kernel_main` and
init) between any two of their accesses. `torn` records that another process
changed the list between the two stores of an insertion; the list is followed
up to that, and until then what the pointers reach is the sequence of
`Scheduler`.

### ExecWait: waiting for others

`Process` plus a launcher that does `exec` and polls `pstate`, as
`applications/system/launcher/src/windows/folder_view_popup.hpp:89` does, or
polls `thread_join` (`compiler/sdk/lib/sys.h:219`). `Others` lets every other
process, and the timer, do anything `Process` allows in the meantime.

### EventPath: from the devices to the handlers

A queue is the ring of `fifo.c` with its array, head, tail and count. The
module is the whole path: init's dispatchers decide for whom an event is
(`DispatchEvent`) and queue it later (`QueueEvent`), since they are preempted
in between; `SysEvtpop` hands it out; the event thread tests `event_pending`,
pops, stores and publishes (four actions); the main thread copies, clears,
dispatches and redraws, and polls by itself when the thread could not be
created; an application may end at any moment. Event contents are their
numbers in order of arrival. Handlers are taken to do nothing to this state.

### EventQueue: what the event path promises

One queue per application; each input event goes at most once into the queue
of at most one running application and comes out in order.

### LogMutex

`mutex_lock` and `mutex_unlock` one access at a time, with a timer tick
possible between any two while interrupts are enabled. Kernel processes call
`log()` with interrupts enabled, user processes inside system calls.

### Heap

The block list as a sequence of `[addr, size, free]`, and `kmalloc` (first
fit, split when the rest is worth it), `kfree` (merge with the next block,
then with the previous one) and `alloc_pages` (over-allocate, align, keep the
original pointer in the word behind the pages). `given` is what callers hold:
where, how many bytes, and the pointer that goes back to `kfree`. `calloc`,
`malloc` and `free` are these with another name. Sizes are exact integers: the
code's round-up to a word would wrap only for requests within 7 bytes of 2^32,
and no caller makes one.

### AddressSpace, Loader

`AddressSpace` has the rights of each page in each program's tables, who owns
each page, and the stacks and surfaces that threads and windows add and give
back: `create_address_space`, the mapping of segments that share a page (where
the rights are combined), stacks, surfaces and the end of a program. Programs
are linked at addresses that lie in the kernel heap's range too
(`compiler/linker.ld:5`), and stacks and surfaces are mapped at the heap's own
addresses: one of them may take the place of a page of the program's image or
heap, which the program then no longer reaches. Nothing in the code keeps them
apart, so the model does not either; `direct` says which pages lead to the heap.
A stack has whole pages. A surface is a block as `kmalloc` gives it
(`syscalls.c:419`): it begins and ends inside a page, and `map_range` maps those
pages whole (`MMU.c:300`). A page therefore has two halves here, and what else
lies in the other half of a surface's first or last page, another surface or one
of the kernel's own blocks (`kept`), the program reaches too. `OnlyItsOwn` says
so and speaks of the other pages only (`shown` names those of surfaces).

`Loader` is `elf.c` and `app_info.c` step by step: the headers and their checks
in 32-bit words, segments and sections, the metadata, the arguments page, and,
for every step that may fail, what is given back. Reading and copying are
modelled by which bytes of the file and of memory they touch. The program
headers are checked before they are used. The section headers are not: one is
read before the table is compared with the file (`app_info.c:57-65`), and as
many bytes of the metadata as the file says are copied into a structure on the
kernel's stack (`app_info.c:112`). `outside` records both, and a call that has
written there is not followed further; `SectionsInside` is about files that
describe their sections well, and says nothing of others.

### Images

`bmp.c`, `ico.c`, `DIB.c`, `svg.c` of `src/image` and `icons.c`: each function
is a sequence of calls that may fail, each allocation is counted, and pictures
are compared pixel by pixel with what their files were made from.

### Fat32, FatCache, SdCard: the file system

`Fat32` is `fat32.c` and the descriptor layer `fd.c`. The variables are `fat`
(a cluster, 0 or the end mark per cluster, as the FAT cache shows it), `data`
(the cells of each cluster: a unit of file contents or a directory entry; directories as the cluster cache shows
them), `fds` (the open files, with the place of their directory entry, as in
`FAT32_File`), `leaked` (clusters that a failed creation kept), `unsaved` (the
path whose entry only the cache has) and `torn` (the file whose removal or
truncation was interrupted, or whose entry went from view). A behaviour ends
when `torn` is set.

A creation whose entry cannot be written fails, but `fat32_write_cluster` has
put the entry into the cluster cache before the transfer (`fat32.c:287-298`): it
is seen, can be opened and written, and is gone when its line of the cache is
taken, unless the cluster is written again before that. `CreateUnsaved`,
`SavedOrNot` and `GoesFromView` are these three; `HandlesFindEntries` is about
entries as long as they have not gone.

One action is one call: `Popen` with its cases, `Pwrite` (complete; stopped by
a full disk or a failing transfer after any cluster; or complete but for the
directory entry), `MovePosition` (`pread`, `plseek`), `Pclose`, `FileDelete`,
`DirCreate`, `DirDelete`, `FileRename` (a new file, a copy, a deletion). What a
freed cluster holds is not distinguished (`Stale`), only that it is neither
zero nor a file's contents; new clusters are zeroed by the code (`Zeroed`).

Assumed, because the code does not see to it: a file that is open is not
deleted, truncated, renamed, or written through one of several handles, nor
opened again after a write whose directory entry could not be updated. Without
these a stale handle may, for example, write its size into another entry
(hazard `fat32.c:1344`). Failing transfers transfer nothing, hit one transfer
of a call and no lookup, and reach both copies of the FAT or none; one entry at
a time is only in the cache. Names are
8.3 names, directories one cluster long and two deep.

`FatCache` is the layer below, without those last assumptions: the write-back
cache of FAT sectors, the cache of clusters, both copies of the FAT, and each
file operation as the sequence of their calls. Any transfer may fail, or all
from one on, also in the middle of a cluster, and power may be lost between
calls. An operation is computed on a record (`Machine`) that each function of
the code takes and gives back. `SdCard` is what a transfer is: the
initialisation of the card with its retries, and each command with its
time-outs, against a card that answers late or not at all. An answer may also be lost after
the card has taken the command; when that is the answer in which the card says
that it is ready, the driver goes on without knowing whether addresses count
blocks or bytes (`block_interface.c:383-404`), and the property says nothing of
such a card of high capacity (`KnowsTheCard`).

### FileStore: what the file system promises

A map from paths to contents. Every call concerns its own path: it creates
something empty, removes something (a directory only when empty), makes a file
longer or overwrites parts of it, empties or renames it. `Fat32` implements it
through `Shown`, which reads a path's contents off the disk as `fat32_read`
would.

### Usb, Screen, Panel

`Usb` has two halves. One numbers devices while it walks the hub, where every
transfer may fail, also after the device took the request, and every device may
be pulled out at any moment (`Unplug`), a hub with all that is behind it. A
device that did not take its address goes on listening at zero, and takes the
address meant for the next port too; `shared` names such devices. The other half
is the keyboard: what the user holds down, modifiers among it, the reports, the
press and release events and characters derived from them, and the ring of
standard input with its two readers. A release is translated with the modifiers
of the last report (`usb.c:716`), so a key that was pressed under others is
released as another character; `apart` has the keys of which the program may
believe anything for that. `Screen` is the frame buffer, what each program last drew, the
cursor with what was under it, and the top bar. `Panel` is the display behind
it and the bus it hangs on (`lcd.c`, `spi.c`), a byte at a time: commands that
set a window and data that fill it. init draws the cursor pixel by pixel with
interrupts enabled, and a system call's box may come between any two bytes of
a pixel; the box ends the transfer, and init waits for the end of one for ever.

### UserHeap, Stdio, Settings, Time, Display, Rsa

`UserHeap` is `malloc.c` of the SDK on top of `sbrk`, with sizes that wrap at
the word. A size that rounds up to nothing gets a block of nothing
(`malloc.c:31`), and `calloc`, which clears it, or `realloc`, which copies the old
block there, then writes over the next header (`overrun`); nothing is known of
the heap after that and the behaviour ends. `Stdio` is who owns which descriptor
and buffer through `fopen`, `freopen`, `tmpfile`, `setvbuf`, reads, writes, seeks
and `fclose`, with every allocation and call that may fail. `tmpfile` sets three
fields of a `FILE` that `malloc` has not cleared (`stdio.c:219-236`), so its
buffer is any address; `astray` names what went wrong because of that
(`"buffer"`), because of a `freopen` that failed (`"file"`), or when something else
than a buffer was freed (`"heap"`, where a behaviour ends).

`Settings` is `get_next_line` with the buffer it keeps between calls, and
reading and replacing settings on top of it. Lines are joined where a buffer
ends at a newline (`get_next_line.c:45-53`): the property says that what is read is
the file's lines, or those joined there (`Seams`). Values that do not fit are
cut, in memory and not in the file (`settings.c:266-269`). Either pass over the
file may end early (`settings.c:195`). Nothing in the repository calls `set_setting`
yet, so the keys and values are those of the file it is written for.

`Time` is the microsecond counter that wraps with the sleeps on it, and calendar
time both ways. A `time_t` has 32 bits (`types.h:102`): the dates it has no room
for, the last moment being in January 2038, wrap around in `Mktime` and are left
out of the property. `Display` computes the pixels of lines, circles and
rounded boxes as `display.c` does and compares them with their definitions.
Then it makes the same drawings twice: by the SDK's library, which stores into
the program's surface by address, and by the kernel, pixel by pixel into its
target; the surfaces must be equal until something is drawn that the two do
differently (`apart`): the library does not clip lines, boxes, discs and
pictures, and looks glyphs up once for all fonts. What it stores outside its
surface is not followed. A box's outline lacks its last corner, a bitmap may show the pixel
before the exact one, and text of the kernel ignores transparency. One channel
stands for three, surfaces begin at an even address, bitmaps are narrower than
128 pixels (up to which the scale is exact in a float), and texts have a font.
`Rsa` is key generation, primality, Montgomery multiplication, padding and the
key file; `big_int` is external and exact. Nobody looks at what writing the key
file returns (`DER_ASN1.c:193-205`), and `der_append` drops what it has no memory
for (`DER_ASN1.c:22-24`): the file may lack lines or bytes although success was
reported, and the property says that the numbers read back are those that were
written when nothing was lost. Decoding a block without padding stores one byte
past its end (`base64.c:81`), which is recorded.

### Containers, Controls

`Containers` is `Vector`, `string` and `std::function`: each object owns at most
one block of the program's heap, and every operation (construction, copy, move,
growth, assignment also to itself, destruction) is one action that may run out
of memory where the code asks for it. `meant` is the value that each object was
given. Left out: pushing an element of the vector itself when it must grow
(`vector.hpp:97` comes before `:101`), a function that is replaced while it is
being called (`app.cpp:159`); and a `new` that fails is written through by the
code, which ends the model's behaviour.

`Controls` is a window with its controls: sizes and places (`auto`, percent,
children, padding, scrolling), drawing in the order of the code, a click that
looks for the control under it, the focus, and the key that goes there.
Handlers change any field of any control. What an image or a web view shows is
left out, and so are controls that are deleted while they are listed.

### Xml, Svg, Ttf, Png

The SDK's parsers. `Xml` gets documents in pieces of several sizes into tables
of several sizes, and must give what it gives when all comes at once. The size of
an element is stored in the table also when the element had no room there
(`xml.h:355-358`), which is a write behind it on the heap; a document that does
this is not compared further. `Svg`
draws trees of groups, paths and shapes in fixed point; curves, contours and
nested transforms are compared with their definition. `Ttf` reads a font's
tables, character map and glyphs, each with its place and length, within a file
of a size that wraps. The ends of a glyph's contours are not compared with each
other (`ttf.h:400`, `499-513`): where they go back, points are taken that were
not read, and the properties of outlines are about ends in order. `Png` inflates and unfilters pictures that the instance packs. Their functions
call themselves or each other and are RECURSIVE operators here.

### Studio

The page `studio/app.js` and its server: open tabs, drafts, saves, and the
requests under way, of which any may be answered next.

## 3. What the runs check

| run | instance | result |
| --- | --- | --- |
| `process_safety` | 5 `t_process`, slice 2, pids up to 5 | all safety and step properties of `Process` hold; `Process` implements `Lifecycle` |
| `exec_wait` | 4 `t_process`, slice 2, pids up to 4 | nobody starves; boot completes; waits for a started program or a thread end |
| `exec_failed` | 4 `t_process`, slice 1, pids up to 5 | a wait after a failed `exec` does not end |
| `events` | 2 applications, ring of 2, 4 events | rings and mailboxes are sound; `EventPath` implements `EventQueue`; queued events arrive |
| `kernel` | see `MCKernel_safety.cfg` | log mutex, heap, run list, address spaces, loader, images |
| `log_ticks` | 2 kernel and 2 user processes | the timer may stop interrupting a kernel process |
| `fat32_files` | 2 files, 1 descriptor, 4 clusters of 2 cells, 2 values, writes of 1 or 2 cells, files up to 3 cells | sizes, writes in place, `Fat32` implements `FileStore` |
| `fat32_tree` | 2 files and a subdirectory's file, 2 descriptors, 1 value, files up to 3 cells | chains apart, no cluster lost, handles find their entries |
| `fat32_modes` | as `fat32_files`, with read-only descriptors | a file opened for reading can be written |
| `hardware` | see `MCHardware_safety.cfg` | disk caches, card, bus, keyboard, screen, panel |
| `library` | see `MCLibrary_safety.cfg` | each library against its reference |
| `studio_save` | a window and another file, 2 requests under way | unsaved changes are saved as another file's text |

**Bounds.** `MaxPid` is the code's limit of 2^32-1 pids, so the small value
also reaches the exhausted pid counter. Five `t_process` objects are init, the
loader, a program, a thread of it and one more that interferes; memory of
destroyed threads is reused within the pid bound. A slice of two ticks
separates counting down from switching. `MaxEvents` 2 makes the ring wrap and
overflow with events also under way in the thread and the mailbox. Two kernel
and two user processes give every pair that can meet in the mutex. The heap
has room for three blocks with their headers, so that a block may have free or
used neighbours on both sides, and for a page in every alignment; its sizes
keep the proportions of the code's constants (header larger than a word,
smaller than a page). Four clusters, one of which is the root directory, are
enough for two files that compete for the last one, for a full disk in the
middle of a write, a creation or a rename, and for a full directory; two cells
per cluster make writes start, end and cross at cluster boundaries. `Failing`, the
paths whose entry a transfer may fail to write, is one of the two files in
`fat32_files` and `fat32_modes` and all in `fat32_tree`. Pages of surfaces have
two halves and the kernel one more block (`KernelBlocks`), which is enough for a
surface to have a neighbour that stays, comes and goes. Four lines
of FAT sectors hold the two copies of two entries, so that every third entry
evicts; one line of clusters makes every other read evict. The loader's words
have 16 values and the user heap's 512, so that sums wrap. Three tries stand
for the card's counters. Three hub ports hold a hub and two devices. A panel of a few
pixels, boxes that overlap the cursor and three drawings let every byte be
interrupted. A timer
of 8 values in counts of 64 wraps several times. The keys of `Rsa` are all
products of the candidate primes, and of a key file one line or byte is lost; the
calendar's days are those around leap days, the year 2000 and January 2038, at
the first and the last second of a day and around the one in which 32 bits end. The documents, drawings, fonts
and pictures are made so that every branch of their parsers is taken, by a
right and by a damaged file. Four windows hold overlapping, nested, hidden and
disabled controls of several kinds, and are clicked inside, beside and between
them. Two vectors, strings and functions over three blocks copy, move and
assign to each other and to themselves, and run out of memory.

**Symmetry** is used in runs without liveness only; the objects other
than init's are interchangeable there, as are the descriptors and the values in
`Fat32`.

**Deadlock** is checked in `log_ticks`. It is not in the `Process` runs
(`masked = "lost"` and a `sys_read` are stops of the model that the machine has
too), in `events` (the bounded input runs out and applications end), in the
`Fat32` runs (a behaviour ends with an interrupted removal), nor in `kernel`,
`hardware`, `library` and `studio_save` (computations end, and bounds on
operations are reached).

**Fairness.** Each tick programs the next one, and a tick that became due
while interrupts were masked is taken when they are not: strong fairness of
`TimerHandler`, and of init's and the loader's own steps, which never block
but need the core. In `EventPath` the threads are taken to get the core again
and again, which is what `NoStarvation` establishes, and handlers to return.
Liveness of the process table and of the waits has the premise
`[]<>(masked = "no")`: no program stays in `sys_read(0)` for good and init has
not lost its interrupts. Both can happen (hazards `syscalls.c:154`,
`mutex.c:33`) and then nothing else runs.

**Four disagreements** came out of the modelling:

- `exec_failed`: `folder_view_popup.hpp:95` says "wait for proc exit". When
  `exec` fails it returns 0 (`syscalls.c:565`), and the loop polls the state of
  pid 0, init, for ever. `main_window.hpp:191` does the same.
- `log_ticks`: `mutex_lock` writes `irq_state` (`mutex.c:19`) before it masks
  interrupts. A kernel process preempted in between resumes after a system
  call has logged and left `irq_state` 0; its unlock then does not unmask, and
  the timer never interrupts it again, against `includes/proc/proc.h:26`,
  "delta t before each scheduler call".
- `fat32_modes`: `fd.c:231` calls its test "not in write mode", but tests the
  address of the descriptor table. A file opened with `O_READ` is written.
- `studio_save`: `app.js:162` asks "... has unsaved changes. Save them now?" of
  a file. `openWindowFile` makes a window the active file (`app.js:954`) before
  `activateFile` keeps the code editor's text as the draft of the active file
  (`app.js:223`); the question's answer prefers that draft (`app.js:164`) and
  saves it in the window's name. `closeFile` asks and saves in the same way
  (`app.js:276-277`).

Modelling also showed things the properties leave out, because nothing in the
repository says otherwise: an XML document that is only `<a/>` never counts as
complete, and an unfinished entity before `<` waits for ever; an SVG contour
that follows `Z` without `M` lacks its first point, transforms of nested `svg`
elements are not kept, a smooth `T` may have fewer points than it was counted
for, and polygons are filled one column past the view; a pack's library is
freed with the address of a pointer (`icons.c:56`), its default icon has no
format, is never found and keeps its pixels, icon names are cut at 31
characters, an empty line in `icons.lst` refuses the pack, and its second pass
may go past the counted room when memory failed during the first; the smaller
pictures of an ICO file are not given back (`ico.c:70`); a BMP file with three
masks takes its first pixel for the fourth (`bmp.c:100`).

Where the code can break what a property says, the model breaks it too, and the
property names the case. A reader of a run or a theorem should know these cases:

| property | says nothing of |
| --- | --- |
| `SpacesAreSound` | the pages in which a surface lies or lay: what else is in them the program reaches (`syscalls.c:419`, `MMU.c:300`) |
| `LoadsSoundly` | section headers, names and metadata that do not lie in the file or are longer than an `AppMetadata` (`app_info.c:57-65`, `112`); images whose size wraps; arguments that fit only without their alignment |
| `HandlesFindEntries` | behaviours after an entry that was only in the cache went from view (`fat32.c:287-298`) |
| `CacheIsKept` | the data of clusters of which a transfer failed (its `DataIsKept`) |
| `CardIsServed` | a card of high capacity whose answer to ACMD41 was lost (`block_interface.c:383-404`) |
| `BusIsKnown` | devices that did not take an address and so take that of the next port (`usb.c:859-860`) |
| `KeysArrive` | keys held while the modifiers change (`usb.c:716`), polls in the middle of a poll |
| `ShowsWhatWasDrawn` | updates in the middle of a cursor poll, and what that or a reused `t_process` spoils |
| `MallocIsSound` | the heap after `calloc` or `realloc` got a size that rounds up to nothing (`malloc.c:31`) |
| `StreamsAreSound` | streams after a `freopen` that failed (`stdio.c:120`) or a `tmpfile` in uncleared memory (`stdio.c:235`) |
| `SettingsAreSound` | settings on joined lines, values that do not fit, files cut by a pass that ended early |
| `TimeIsRight` | sleeps during which the counter wraps (`time.c:47`), dates after January 2038 |
| `KeysAreSound` | key files of which a line or bytes were lost |
| `ParsedAsAtOnce` | documents that made the parser write behind its table |
| `GlyphsAreRight` | outlines whose contours end out of order |

## 4. What is proved

| theorem | says |
| --- | --- |
| `ProcessProofs`: `TableSound` and its parts `TypeCorrect`, `CoreNeverIdle`, `ListSound`, `PidsName`, `ThreadsHaveOwners` | the process table is sound, for any set of `t_process`, slice and pid limit |
| `ProcessProofs`: `DeadStayDead`, `ReclaimIsSafe`, `KernelKept` | nobody is revived, only a terminated thread is freed, by its group, and user processes end no kernel process |
| `ProcessProofs`: `LifecycleImplemented` | `Process` implements `Lifecycle` |
| `EventPathProofs`: `PathSound`, `PathTypeCorrect`, `MailboxSafe`, `QueueImplemented` | rings and mailboxes are sound, and the path implements `EventQueue`, for any applications, ring size and number of events |
| `KernelProofs`: `HeapSound` and its parts, `BlocksStay` | the heap is tiled, merged and every grant backed, for any sizes |
| `KernelProofs`: `LockSound` and its parts | the log mutex, for any processes |
| `KernelProofs`: `RunListSound`, `RunListTypeCorrect` | the pointers of the run list, for any processes |
| `KernelProofs`: `SpacesSound`, `SpaceTypeCorrect` | rights, and that of the heap a program reaches its own stacks only, but for the pages of surfaces, for any programs, threads, pages, kernel blocks and layouts |
| `KernelProofs`: `LoadingSound` | checks of program headers, arguments and cleaning up of the loader, for all files and arguments; reads and copies of section headers and metadata only for files that describe them well |
| `CacheProofs`: `FatKept`, `CacheInvariant` | the FAT through its cache, failing transfers and losses of power, for any number of clusters, sectors, cache lines, files and operations |
| `CacheProofs`: `DataKept`, `CacheKept` | clusters through their cache, for the same, except those of which a transfer failed; and both together |
| `Fat32Proofs`: `Invariance`, `TreeStaysSound`, `SizesCovered`, `HandlesKeepEntries` | chains stay apart, no cluster is lost, sizes are covered and handles stay on their entries, also those that are only in the cache until they go from view, for any number of clusters, cells, paths, handles and sizes |
| `Fat32Proofs`: `WritesStayInPlace`, `FileStoreImplemented` | a write changes a file only in the stretch that it writes, and by path the volume implements `FileStore`, for the same |
| `DriverProofs`: `CardServed`, `CardTypeCorrect` | initialisation and transfers, for any number of tries, blocks and sizes, of a card whose kind the driver was told |
| `DriverProofs`: `BusKnown` | addresses and polling, for any number of ports, whatever is pulled out, of all devices but those that missed their address |
| `DriverProofs`: `KeyboardArrives` | events and characters follow the reports, for any keyboard, modifiers and report size, but for keys held while the modifiers change |
| `DriverProofs`: `ScreenShows` | the frame under the cursor, for any programs, width, cursor and colours, until an update comes in the middle of a cursor poll or a `t_process` is reused |
| `LibraryProofs`: `MallocSound` | the programs' heap, for any sizes, until a block of nothing is filled |
| `LibraryProofs`: `StreamsSound` | owners of descriptors and buffers, for any streams, as long as nothing is `astray` |
| `LibraryProofs`: `ContainersSound` | owners of blocks, values and room, for any vectors, strings, functions, elements and sizes |

Assumptions are those on the constants only: init is a `t_process`, slices and
pid limits are positive, the ring has a positive size, kernel and user
processes are disjoint, the heap has room for more than one header, the
standard input ring is larger than what one report can bring, the FAT cache has
at least four lines (the code's has 64; see below), the volume has more than
one cluster and paths are of one name, or of two of which the first is a path. See the `ASSUME`s, which
TLC evaluates in the runs.

**Process.** The invariant is `IInv`. The interesting conjunct is
`AlwaysCurrent`; it is not inductive by itself, because after an exit
`scheduler_next` has to find a ready process. That is init: `InitSurvives`
says that init is listed, alive and a kernel process. It is preserved because
`sys_kill` refuses kernel processes to users (`MayKill`), because init never
exits, and because an init that is not running is ready. `SchedulerNext` is
shown to return a listed ready process whenever there is one
(`NextLemma`), from facts about removal, insertion and circular walks in
sequences (`SequenceLemmas`). `PidsUnique` needs that used pids are below `nextPid`.
Each kind of step (tick, creation, exit, thread exit, kill, destruction) has a
lemma of its own.

For the refinement of `Lifecycle`, `Alive` is the processes of the list that
have not ended. Their pids differ and are below `nextPid`, so what a pid is
seen as depends on `Alive`, the current process and `nextPid` alone.
`StepIsSeen` shows that every step is one of four kinds, told apart by what it
does to these: nothing; the core goes on to another one, with or without the
old one ending; another one ends; a pid is used. Each kind is then one action
of `Lifecycle`. `KernelKept` follows from the same four kinds.

**EventPath.** `MailboxHandedOver` is `AppInv`'s first conjunct; the
refinement also needs that the event a thread holds is a real one and that,
while it is being published, the mailbox already has it. Push and pop of the
ring are shown to append to and take from its contents. Each action then either
leaves `InFlight` alone or is one step of `EventQueue`.

**Heap, UserHeap.** `HeapInv` adds to the checked properties that the last
block is never empty: `kfree` would otherwise refuse the pointer to it, which
is the end of the heap. Splitting inserts, merging removes one element of the
sequence; one lemma for each shows tiling, merging and what becomes of the
grants. `UserHeapInv` is the same over `sbrk`, with the end of the last block
being the end of the reserve, for a list that only knows its successors, until a
block of nothing is filled: `overrun` is set by sizes within `Align` of the end of
the word only.

**LogMutex.** From `DisableIrq` to `EnableIrq` a process is masked and
therefore keeps the core (`MutexInv`): that makes the two-step test and set
safe. A system call restores what it has saved itself, since nothing else runs
in between.

**RunList.** `RunListInv` says that until the list is torn there is a sequence
of processes such that the head is its first element, each `next` is the
element behind it, the tail is its last one or the one before the process that
is being linked, and its members are those that can run. What a walk along the
pointers reaches is a recursive function of the number of steps; that it equals
the sequence is shown for each number by induction on an interval
(`IntervalInduction` in `SequenceLemmas`, an induction over the naturals for a
set, which needs no operator as a parameter).

**AddressSpace.** `SpaceInv`: the rights in a table are those of all that asked
for the page, merged (`TablesAreMerged`); of every page of the heap it is known
that a stack's is shared with nothing else and has one task (`StackIsKnown`);
and a page that a table leads to, and that is no surface's, is a stack's of a
task of that table, and for the kernel alone if it is a kernel stack
(`PageIsKnown`). Pages of surfaces are what the last part cannot be about: they
stay in the table when the surface is freed and other blocks lie in them.

**Loader.** `LoaderInv` says, for each step, what has been taken and not yet
given back, so that each failure gives all of it back and nothing is used or
freed after that; that the bounds of the image cover the segments that have
been passed; and that nothing was read or written outside if the file describes
its sections well. For that, the header of the names has to be shown to lie in a
table that lies in the file (`NamesInside`). The argument page is a fold over the arguments, bounded by what
each one adds.

**Fat32.** What `TreeIsSound`, `SizeCovered` and `HandlesFindEntries` say of the
chains is said through `Chain`, a recursive function of the allocation table.
The invariant `IInv` avoids it: as long as the volume is intact there is a
function `ch` from clusters to sequences of clusters (`Sound`) such that

- `Layout`: `ch[a]` is empty or the chain that starts at `a`; no cluster is in
  two places of them; and every cluster in use is in one;
- `SoundTree`: each directory's slots have different names and different first
  clusters, none is behind a slot that is zero, subdirectories are below the
  root only, and the names on the way to a slot are a path;
- `Filled`: the chains that are not empty are the root's, those of the entries
  and the leaked ones, of one cluster each; an entry's size does not exceed
  what its chain holds;
- `Hands`: the slot of an open handle is a file's entry with its first cluster,
  the handle's size is covered by the chain, not less than the entry's and the
  same for all handles of that slot.

That the walk along the table equals `ch[a]` is shown once (`ChainFacts`), by
induction on an interval; a chain has no cluster twice, so it is shorter than
the table and the walk's bound is not reached (`ShortEnough`). Every operation
is then made of few changes to the four parts, each with its lemma: one chain
rewired over its own and free clusters (`RewiredLayout`: creation, truncation,
growth, release), and an entry added, removed or resized (`AddTree`,
`RemoveTree`, `ResizeTree`). `SoundAdd`, `SoundRemove`, `SoundResize` and
`SoundRewire` put both together. `Missing` is why sizes stay covered: a write
takes the clusters that it is short of before the entry gets the new size. The
search of a directory stops at the first zero slot (`SearchIs`), so no entry
may be behind one: removals mark slots deleted, creations take the first slot
that is vacant. That a handle's slot stays its own needs that removals refuse
open files. An entry that only the cache has is an entry like any other here
(`VInv` does not look at `unsaved`): the volume is the one that the cache shows. `IInv` implies the three properties; `IInv` claims only types after
an interrupted removal or truncation, or once an entry went from view, where the
model's behaviour ends.

`WritesInPlace` and the refinement of `FileStore` need `WInv`: `IInv`, and that
every cell of a file, up to the size in its entry and in each handle on it,
holds a unit of contents that was written there (`Inked`). The part about
handles is needed because a close writes the handle's size into the entry: a
write whose entry could not be updated is seen only then. TLC has checked
`WInv` on the instances of `fat32_files` and `fat32_tree`. The argument
has three levels. `FileCellsIs`, an induction on the bytes that are left, says
that the recursive loop of `fat32_read` returns what is at the places of the
chain, in order. `OthersAsBefore` turns a step that leaves alone the entries
outside a set of slots, and their chains, into one that the other paths do not
notice: all that a step may touch besides are free clusters, directories and
the chain of the file it is about. Then one lemma for each operation
(`...Seen`) gives its `Outcome`: no path changes, or one is made, removed,
emptied, grown or lost, or one is moved. Both theorems are read off `Outcome`.

**FatCache.** An operation is one action, but a long computation: some twenty
functions, each of which may stop at any transfer. `CacheProofs` has one lemma
per function, from the transfer of a block upwards. Each says that from a
machine of which `Inv` holds the function gives one of which `Inv` holds, with
no fewer faults (`Later`); loops are inductions on an interval over a recursive
function. `Inv` has four parts. `FatInv`: every cached entry is what it was told
last, an entry that is not cached is so on the disk, and a clean line is equal
to its sector; only a sync that failed may break this, since it marks lines
clean that were not written. `DataInv`: the same for clusters. `ChainInv`: the
copies were told the same, and no cluster follows two others or is free, as
long as no second copy was out of reach, no sync failed and no dirty line was
lost. And the types. The hard step is `fat32_allocate_cluster_after`, which
takes back a link that it made when a later step fails, and ignores whether
*that* fails: it cannot, because the two sectors of the link are among the four
youngest lines, so that taking it back needs no transfer (`Near`, `Aged`,
`EntryTriedLemma`). This is where four lines are needed. `fat32_truncate` does
the same, but after a chain of any length has been freed, when the sectors may
have gone; there the entry is the end mark already, so that trying is harmless.
A loss of power then keeps the chains if no line was dirty, because clean lines
are on the disk. TLC has checked `CacheIInv` on the instance of `hardware`.

**Drivers.** `CardInv`: the driver's belief about the card follows from the
commands that it took, and a transfer under way has moved blocks in order.
`UsbInv`: ports are visited in order, addresses given out are below the next
one, which nobody listens at (`AddressIsFree`), and no two devices have the same
one but those that took it together (`shared`); what is polled is of its kind or
was pulled out. `KeyboardInv`: what the program believes of each key follows from
the last report, this one, their modifiers and how far the comparison has come,
but for keys that were down while the modifiers changed (`apart`), unless a reader
polled in the middle of init's poll (`raced`). `ScreenInv`: the cursor is on the screen, and what was saved
under it is what was last drawn there, unless an update came in the middle of a
poll (`cut`) or a new program got the `t_process` of the one that drew last
(`reused`). These conditions are variables that the models set where it
happens; the properties name them too.

**Stdio.** `StdioInv` is the property with the types: each live stream has a
descriptor and a buffer that are its own, and is at its end only when its file
is, up to the two ways in which the code loses track (`astray`): a `freopen`
that fails and a `tmpfile` whose `FILE` has an address of a buffer in it. That
anything else than a buffer is freed presupposes one of them (`HeapWarned`).

**Containers.** `ContainersAreSound` is inductive. Every operation is made of a
few changes: an object gets a fresh block, empties its own, takes another's, or
changes what its block holds; one lemma each shows that blocks stay unshared
and unleaked (`OwnedOnce`) and that the other objects keep their values. That
the size of a growing vector does not wrap is `SizesFit`: the code's test
before the multiplication (`vector.hpp:61`) is what it needs.

**Only model-checked.** Everything about liveness (`NoStarvation`,
`BootCompletes`, `WaitsEnd`, `EventsArrive`) is out of the
prover's reach. `Xml`, `Svg`, `Ttf` and `Png` use RECURSIVE operators, which
the prover does not take; what they and `Images`, `Display`, `Panel`, `Rsa`, `Time` and
`Settings` say compares the result of a computation over data with its
definition, over inputs that are data: to prove it for every input would take an
induction over them. The same is true of `Controls`, whose tree is laid out by
recursion.
`StaysDead` is not a property of a run: `ImplementsLifecycle` implies it, and
`DeadStayDead` proves it.

## 5. What is not modelled

Heap calls are atomic in `Heap` and kernel processes' creations are atomic in
`Process`. That is right inside system calls; in init and in the loader the
same code runs with interrupts enabled. Two threads of a program in `malloc`
at a time, file operations of kernel processes in steps (`g_cluster_buf` is
shared, hazard `fat32.c:1172`), copies of descriptors in threads and a drawing
process that has ended (`init_proc.c:84`) are not modelled.

Not modelled either: register-level drivers (serial, GPIO, infrared and the
GPU), formatted output, the hash functions, image and web view controls and the
host-side tools. They are sequential computations or device accesses without
shared state between processes.
