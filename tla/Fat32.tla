------------------------------- MODULE Fat32 -------------------------------
(***************************************************************************)
(* The FAT32 file system, src/src/filesystem/fat32.c, and the descriptor   *)
(* layer on top of it, fd.c: cluster allocation, chains, directory         *)
(* entries, open files, and what an operation leaves behind when the disk  *)
(* is full or one block transfer fails half way.                           *)
(*                                                                         *)
(* A file operation is a system call, with interrupts masked: one action.  *)
(* A cluster is CellsPerCluster cells; a cell is a unit of file contents   *)
(* or a directory entry.  The FAT is the one that the FAT cache shows.     *)
(*                                                                         *)
(* Directories are what the cluster cache shows: a directory is refreshed  *)
(* there before it is written to the disk, so that an entry that could not *)
(* be written is seen until its line of the cache is taken.                *)
(*                                                                         *)
(* Bounds and assumptions: directories are one cluster long (the code      *)
(* never extends one) and at most two deep.  Of the transfers of one call  *)
(* at most one fails; it transfers nothing, is not part of a lookup, and a *)
(* FAT entry is set in all copies of the FAT or in none.  One entry at a   *)
(* time is only in the cache.  A file that is open is not deleted, renamed *)
(* or truncated, nor written through one of several handles, which the     *)
(* code leaves to the programs; nor is it opened again after a write whose *)
(* directory entry could not be read to be updated.  A behaviour ends when *)
(* a removal or truncation is interrupted, or an entry goes from view that *)
(* was not written.                                                        *)
(***************************************************************************)
EXTENDS Integers, SequencesExt

CONSTANTS
    Entries,            \* entries of the FAT; clusters are 2..Entries - 1
    CellsPerCluster,
    Path,               \* paths of files and directories, sequences of names
    Value,              \* units of file contents
    Handle,             \* descriptors, of all processes
    Flags,              \* the combinations of flags given to open
    Failing,            \* paths whose entry a transfer may fail to write (a bound)
    MaxWrite,           \* longest write
    MaxSize             \* longest file (a bound)

ASSUME EntriesAssumption == Entries \in Nat /\ Entries > 3
ASSUME PathAssumption ==
    \A p \in Path : p = <<p[1]>> \/ (p = <<p[1], p[2]>> /\ <<p[1]>> \in Path)
ASSUME CellsAssumption == CellsPerCluster \in Nat \ {0}
ASSUME FlagsAssumption ==
    Flags \subseteq SUBSET {"read", "write", "create", "append", "trunc"}
ASSUME WriteAssumption == MaxWrite \in Nat /\ MaxSize \in Nat

VARIABLES
    fat,        \* the FAT: 0, a cluster or Eoc for each cluster
    data,       \* the cells of each cluster
    fds,        \* open files
    leaked,     \* clusters that are in use but belong to no file
    unsaved,    \* the path whose entry the disk does not have as it shows
    torn        \* the path whose removal or truncation was interrupted, or
                \* whose entry went from view

vars == <<fat, data, fds, leaked, unsaved, torn>>

Cluster == 2..(Entries - 1)
Root == 2
Eoc == Entries
MaxClusters == Entries - 1      \* fat32_max_clusters(): the last cluster

NoPath == <<>>

Zero == [kind |-> "zero"]
Deleted == [kind |-> "deleted"]
Stale == [kind |-> "stale"]     \* whatever a free cluster holds, it is not told apart
Unit(v) == [kind |-> "data", value |-> v]
Entry(n, first, size, dir) ==
    [kind |-> "entry", name |-> n, first |-> first, size |-> size, dir |-> dir]

Offset == 1..CellsPerCluster
ZeroCluster == [i \in Offset |-> Zero]
StaleCluster == [i \in Offset |-> Stale]

Closed == [open |-> FALSE]

Init ==
    /\ fat = [c \in Cluster |-> IF c = Root THEN Eoc ELSE 0]
    /\ data = [c \in Cluster |-> IF c = Root THEN ZeroCluster ELSE StaleCluster]
    /\ fds = [h \in Handle |-> Closed]
    /\ leaked = {}
    /\ unsaved = NoPath
    /\ torn = NoPath

----------------------------------------------------------------------------
(* Clusters *)

Capacity(n) == n * CellsPerCluster

ClustersForFloor(size) == size \div CellsPerCluster

ClustersFor(size) == (size + CellsPerCluster - 1) \div CellsPerCluster

(***************************************************************************)
(* The chain from a first cluster, following fat32_get_next_cluster.       *)
(***************************************************************************)
Chain(f, first) ==
    LET walk[hops \in 0..Entries] ==
            [c \in Cluster |-> IF f[c] \in Cluster /\ hops > 0
                              THEN <<c>> \o walk[hops - 1][f[c]] ELSE <<c>>]
    IN  walk[Entries][first]

(***************************************************************************)
(* The clusters that fat32_find_free_cluster would find, one after the     *)
(* other.                                                                  *)
(***************************************************************************)
FreeInOrder(f) ==
    LET upTo[c \in 0..MaxClusters] ==
            IF c = 0 THEN <<>>
            ELSE IF c \in Cluster /\ f[c] = 0 THEN Append(upTo[c - 1], c)
            ELSE upTo[c - 1]
    IN  upTo[MaxClusters]

(***************************************************************************)
(* fat32_allocate_cluster_after, once for each cluster of `more`: they are *)
(* zeroed and linked behind the chain.                                     *)
(***************************************************************************)
LinkedWithoutEnd(f, chain, more) ==
    LET whole == chain \o more
    IN  [c \in Cluster |->
            IF \E i \in Len(chain)..(Len(whole) - 1) : whole[i] = c
            THEN whole[1 + CHOOSE i \in Len(chain)..(Len(whole) - 1) : whole[i] = c]
            ELSE f[c]]

Linked(f, chain, more) ==
    LET whole == chain \o more
        Next(i) == IF i < Len(whole) THEN whole[i + 1] ELSE Eoc
    IN  [c \in Cluster |->
            IF \E i \in Len(chain)..Len(whole) : i > 0 /\ whole[i] = c
            THEN Next(CHOOSE i \in Len(chain)..Len(whole) : i > 0 /\ whole[i] = c)
            ELSE f[c]]

Zeroed(d, clusters) ==
    [c \in Cluster |-> IF c \in ToSet(clusters) THEN ZeroCluster ELSE d[c]]

(***************************************************************************)
(* Setting to 0 the FAT entries of some clusters (fat32_free_cluster_chain)*)
(* leaves their cells as they are; the model forgets what they were.       *)
(***************************************************************************)
Released(f, clusters) ==
    [c \in Cluster |-> IF c \in ToSet(clusters) THEN 0 ELSE f[c]]

Forgotten(d, clusters) ==
    [c \in Cluster |-> IF c \in ToSet(clusters) THEN StaleCluster ELSE d[c]]

PutCell(d, c, i, cell) == [d EXCEPT ![c] = [@ EXCEPT ![i] = cell]]

(***************************************************************************)
(* The cells of a chain with `new` written over them from `pos` on.        *)
(***************************************************************************)
PutCellsFromStart(d, chain, pos, new) ==
    [c \in Cluster |-> [i \in Offset |->
        LET js == {j \in 1..Len(chain) : chain[j] = c}
            at == Capacity((CHOOSE j \in js : TRUE) - 1) + i - 1
        IN  IF js # {} /\ new # <<>> /\ at < pos + Len(new)
            THEN new[IF at < pos THEN 1 ELSE at - pos + 1]
            ELSE d[c][i]]]

PutCells(d, chain, pos, new) ==
    [c \in Cluster |-> [i \in Offset |->
        LET js == {j \in 1..Len(chain) : chain[j] = c}
            at == Capacity((CHOOSE j \in js : TRUE) - 1) + i - 1
        IN  IF js # {} /\ at >= pos /\ at < pos + Len(new)
            THEN new[at - pos + 1]
            ELSE d[c][i]]]

----------------------------------------------------------------------------
(* Directories *)

(***************************************************************************)
(* The slot of directory cluster d in which fat32_search_dir finds name n: *)
(* it stops at the first zero slot and skips the others; 0 if there is     *)
(* none.                                                                   *)
(***************************************************************************)
SlotIn(d, n) ==
    LET search[i \in 1..(CellsPerCluster + 1)] ==
            IF i > CellsPerCluster \/ data[d][i].kind = "zero" THEN 0
            ELSE IF data[d][i].kind = "entry" /\ data[d][i].name = n THEN i
            ELSE search[i + 1]
    IN  search[1]

(***************************************************************************)
(* The cluster of the directory that holds path p, 0 if there is none.     *)
(***************************************************************************)
DirOf(p) ==
    IF Len(p) = 1 THEN Root
    ELSE IF SlotIn(Root, Head(p)) # 0 /\ data[Root][SlotIn(Root, Head(p))].dir
         THEN data[Root][SlotIn(Root, Head(p))].first
         ELSE 0

Exists(p) == DirOf(p) # 0 /\ SlotIn(DirOf(p), Last(p)) # 0
SlotOf(p) == SlotIn(DirOf(p), Last(p))
EntryOf(p) == data[DirOf(p)][SlotOf(p)]
IsFile(p) == Exists(p) /\ ~EntryOf(p).dir
IsDir(p) == Exists(p) /\ EntryOf(p).dir

(***************************************************************************)
(* Where fat32_create_dir_entry puts a new entry.                          *)
(***************************************************************************)
Vacant(d) == {i \in Offset : data[d][i].kind \in {"zero", "deleted"}}

MayCreate(p) ==
    /\ DirOf(p) # 0
    /\ ~Exists(p)
    /\ FreeInOrder(fat) # <<>>
    /\ Head(FreeInOrder(fat)) < MaxClusters

NewCluster == Head(FreeInOrder(fat))

FatWithNew == [fat EXCEPT ![NewCluster] = Eoc]

DataWithNew(p, dir) ==
    PutCell(Zeroed(data, <<NewCluster>>), DirOf(p), Min(Vacant(DirOf(p))),
            Entry(Last(p), NewCluster, 0, dir))

(***************************************************************************)
(* fat32_write_cluster of directories: what the cache shows of them is on  *)
(* the disk; or it could not be written, and is in the cache only.         *)
(***************************************************************************)
Saved(dirs) ==
    unsaved' = IF unsaved # NoPath /\ DirOf(unsaved) \in dirs THEN NoPath ELSE unsaved

NotSaved(p) ==
    /\ p \in Failing
    /\ unsaved \in {NoPath, p}
    /\ unsaved' = p

(***************************************************************************)
(* The line of the cache is taken for another cluster, and the entry is as *)
(* it is on the disk, if it is there at all.  What becomes of the path,    *)
(* what is below it and its handles is not followed.                       *)
(***************************************************************************)
GoesFromView(p) ==
    /\ unsaved = p /\ Exists(p)
    /\ torn' = p
    /\ UNCHANGED <<fat, data, fds, leaked, unsaved>>

(***************************************************************************)
(* fat32_create, fat32_mkdir.  A call that cannot write the entry fails,   *)
(* and the entry is seen all the same; in a full directory it fails and    *)
(* leaves the new cluster allocated.                                       *)
(***************************************************************************)
CreateEntry(p, dir) ==
    /\ MayCreate(p)
    /\ Vacant(DirOf(p)) # {}
    /\ fat' = FatWithNew
    /\ data' = DataWithNew(p, dir)
    /\ UNCHANGED <<leaked, torn>>

CreateSucceeds(p, dir) == CreateEntry(p, dir) /\ Saved({DirOf(p)})

CreateUnsaved(p, dir) == CreateEntry(p, dir) /\ NotSaved(p) /\ UNCHANGED fds

CreateFails(p) ==
    /\ MayCreate(p)
    /\ Vacant(DirOf(p)) = {}
    /\ fat' = FatWithNew
    /\ data' = Zeroed(data, <<NewCluster>>)
    /\ leaked' = leaked \cup {NewCluster}
    /\ UNCHANGED <<fds, unsaved, torn>>

DirCreate(p) ==
    \/ Len(p) = 1 /\ CreateSucceeds(p, TRUE) /\ UNCHANGED fds
    \/ Len(p) = 1 /\ CreateUnsaved(p, TRUE)
    \/ CreateFails(p)

----------------------------------------------------------------------------
(* Removal *)

(***************************************************************************)
(* A chain is given back first cluster first, the directory entry last, so *)
(* an interruption leaves an entry without its clusters.                   *)
(***************************************************************************)
DeletedEntryZeroed(d, p) == PutCell(d, DirOf(p), SlotOf(p), Zero)

DeletedEntry(d, p) == PutCell(d, DirOf(p), SlotOf(p), Deleted)

RemovalInterrupted(p, chain) ==
    /\ \E k \in 1..Len(chain) : fat' = Released(fat, SubSeq(chain, 1, k))
    /\ torn' = p
    /\ UNCHANGED <<data, fds, leaked, unsaved>>

Removal(p) ==
    LET chain == Chain(fat, EntryOf(p).first)
    IN  \/ /\ fat' = Released(fat, chain)
           /\ data' = DeletedEntry(Forgotten(data, chain), p)
           /\ Saved({DirOf(p)})
           /\ UNCHANGED <<fds, leaked, torn>>
        \/ RemovalInterrupted(p, chain)

(***************************************************************************)
(* Open files keep the place of their directory entry, not its path.       *)
(***************************************************************************)
Uses(h, p) ==
    /\ fds[h].open
    /\ Exists(p)
    /\ fds[h].dirCluster = DirOf(p)
    /\ fds[h].dirIndex = SlotOf(p)

InUse(p) == \E h \in Handle : Uses(h, p)

FileDelete(p) ==
    /\ IsFile(p)
    /\ ~InUse(p)
    /\ Removal(p)

(***************************************************************************)
(* fat32_is_directory_empty: no entry before the first zero slot.          *)
(***************************************************************************)
IsEmpty(d) ==
    \A i \in Offset : data[d][i].kind = "entry" =>
        \E j \in 1..(i - 1) : data[d][j].kind = "zero"

DirDelete(p) ==
    /\ IsDir(p)
    /\ IsEmpty(EntryOf(p).first)
    /\ Removal(p)

----------------------------------------------------------------------------
(* Open, read, seek, close *)

HandleOn(dirc, slot, entry, flags) ==
    [open |-> TRUE, flags |-> flags, first |-> entry.first, size |-> entry.size,
     pos |-> IF "append" \in flags THEN entry.size ELSE 0,
     dirCluster |-> dirc, dirIndex |-> slot]

(***************************************************************************)
(* popen of an existing file, without truncation                           *)
(***************************************************************************)
OpenExisting(h, p, flags) ==
    /\ ~fds[h].open
    /\ IsFile(p)
    /\ \A g \in Handle : Uses(g, p) => fds[g].size = EntryOf(p).size
    /\ "trunc" \notin flags
    /\ fds' = [fds EXCEPT ![h] = HandleOn(DirOf(p), SlotOf(p), EntryOf(p), flags)]
    /\ UNCHANGED <<fat, data, leaked, unsaved, torn>>

(***************************************************************************)
(* fat32_truncate ends the chain after its first cluster, then gives the   *)
(* rest back, zeroes the first (a failure goes unnoticed) and updates the  *)
(* directory entry.                                                        *)
(***************************************************************************)

Truncated(first) ==
    [Released(fat, Tail(Chain(fat, first))) EXCEPT ![first] = Eoc]

OpenTruncated(h, p, flags) ==
    LET entry == [EntryOf(p) EXCEPT !.size = 0]
    IN  /\ ~fds[h].open
        /\ IsFile(p)
        /\ ~InUse(p)
        /\ "trunc" \in flags
        /\ fat' = Truncated(entry.first)
        /\ \E zeroed \in {<<>>, <<entry.first>>} :
              data' = PutCell(Zeroed(Forgotten(data, Chain(fat, entry.first)), zeroed),
                              DirOf(p), SlotOf(p), entry)
        /\ fds' = [fds EXCEPT ![h] = HandleOn(DirOf(p), SlotOf(p), entry, flags)]
        /\ Saved({DirOf(p)})
        /\ UNCHANGED <<leaked, torn>>

(***************************************************************************)
(* A failing transfer on the way: popen fails, and the tail is partly free *)
(* or the directory entry still has the old size.                          *)
(***************************************************************************)
TruncationInterrupted(p) ==
    LET chain == Chain(fat, EntryOf(p).first)
    IN  /\ IsFile(p)
        /\ ~InUse(p)
        /\ \/ /\ \E k \in 1..(Len(chain) - 1) :
                    fat' = [Released(fat, SubSeq(chain, 2, k)) EXCEPT ![chain[1]] = Eoc]
              /\ UNCHANGED data
           \/ /\ fat' = Truncated(chain[1])
              /\ data' = Zeroed(data, <<chain[1]>>)
        /\ torn' = p
        /\ UNCHANGED <<fds, leaked, unsaved>>

(***************************************************************************)
(* popen of a file that it creates: even if a later step of popen fails,   *)
(* or the entry could not be written, the file is there.                   *)
(***************************************************************************)
OpenCreatedInFirstSlot(h, p, flags) ==
    /\ ~fds[h].open
    /\ "create" \in flags
    /\ CreateSucceeds(p, FALSE)
    /\ fds' \in {fds, [fds EXCEPT ![h] =
            HandleOn(DirOf(p), 1,
                     Entry(Last(p), NewCluster, 0, FALSE), flags)]}

OpenCreated(h, p, flags) ==
    /\ ~fds[h].open
    /\ "create" \in flags
    /\ CreateSucceeds(p, FALSE)
    /\ fds' \in {fds, [fds EXCEPT ![h] =
            HandleOn(DirOf(p), Min(Vacant(DirOf(p))),
                     Entry(Last(p), NewCluster, 0, FALSE), flags)]}

Popen(h, p, flags) ==
    \/ OpenExisting(h, p, flags)
    \/ OpenTruncated(h, p, flags)
    \/ OpenCreated(h, p, flags)
    \/ "create" \in flags /\ ~fds[h].open /\ (CreateUnsaved(p, FALSE) \/ CreateFails(p))
    \/ "trunc" \in flags /\ ~fds[h].open /\ TruncationInterrupted(p)

(***************************************************************************)
(* pread moves the position, plseek sets it anywhere in the file.          *)
(***************************************************************************)

MovePosition(h) ==
    /\ fds[h].open
    /\ \E pos \in 0..fds[h].size : fds' = [fds EXCEPT ![h].pos = pos]
    /\ UNCHANGED <<fat, data, leaked, unsaved, torn>>

(***************************************************************************)
(* fat32_update_dir_entry, and its write of the directory                  *)
(***************************************************************************)
UpdatedEntry(d, file) ==
    PutCell(d, file.dirCluster, file.dirIndex,
            [d[file.dirCluster][file.dirIndex] EXCEPT !.first = file.first,
                                                      !.size = file.size])

SavedOrNot(h) ==
    \/ Saved({fds[h].dirCluster})
    \/ data' # data /\ \E p \in Path : Uses(h, p) /\ NotSaved(p)

(***************************************************************************)
(* pclose, and the end of a process for each of its open files.  The       *)
(* directory may be out of reach.                                          *)
(***************************************************************************)
Pclose(h) ==
    /\ fds[h].open
    /\ \/ UNCHANGED <<data, unsaved>>
       \/ data' = UpdatedEntry(data, fds[h]) /\ SavedOrNot(h)
    /\ fds' = [fds EXCEPT ![h] = Closed]
    /\ UNCHANGED <<fat, leaked, torn>>

----------------------------------------------------------------------------
(* Write *)

Alone(h) ==
    \A g \in Handle \ {h} : fds[g].open =>
        \/ fds[g].dirCluster # fds[h].dirCluster
        \/ fds[g].dirIndex # fds[h].dirIndex

(***************************************************************************)
(* What a write of `new` has done when it has gained `gained` clusters and *)
(* written the first `done` cells.                                         *)
(***************************************************************************)
AppendPosition(file) == IF "append" \in file.flags THEN file.size ELSE file.pos

Stored(h, gained, done, new) ==
    LET chain == Chain(fat, fds[h].first)
        more == SubSeq(FreeInOrder(fat), 1, gained)
    IN  /\ fat' = Linked(fat, chain, more)
        /\ data' = PutCells(Zeroed(data, more), chain \o more,
                            AppendPosition(fds[h]), SubSeq(new, 1, done))

(***************************************************************************)
(* The position and the size that the handle has after the whole write     *)
(***************************************************************************)
Advanced(file, n) ==
    LET end == AppendPosition(file) + n
    IN  [file EXCEPT !.pos = end, !.size = IF end > file.size THEN end ELSE file.size]

Missing(h, n) ==
    LET need == ClustersFor(AppendPosition(fds[h]) + n)
        have == Len(Chain(fat, fds[h].first))
    IN  IF need > have THEN need - have ELSE 0

(***************************************************************************)
(* pwrite.  It does not look at O_WRITE.  If the directory entry could not *)
(* be written the call fails, and the cache shows the file as it is now.   *)
(***************************************************************************)
WriteSucceeds(h, new) ==
    LET gained == Missing(h, Len(new))
        after == Advanced(fds[h], Len(new))
        chain == Chain(fat, fds[h].first)
        more == SubSeq(FreeInOrder(fat), 1, gained)
        written == PutCells(Zeroed(data, more), chain \o more,
                            AppendPosition(fds[h]), new)
    IN  /\ gained <= Len(FreeInOrder(fat))
        /\ fat' = Linked(fat, chain, more)
        /\ data' = IF after.size > fds[h].size
                   THEN UpdatedEntry(written, after) ELSE written
        /\ IF after.size > fds[h].size THEN SavedOrNot(h) ELSE UNCHANGED unsaved
        /\ fds' = [fds EXCEPT ![h] = after]

(***************************************************************************)
(* The disk is full, or a transfer fails: what was written so far and the  *)
(* clusters gained stay, the handle does not move.                         *)
(***************************************************************************)
WriteFails(h, new) ==
    \E gained \in 0..Missing(h, Len(new)), done \in 0..(Len(new) - 1) :
        LET end == AppendPosition(fds[h]) + done
            have == Len(Chain(fat, fds[h].first))
        IN  /\ gained <= Len(FreeInOrder(fat))
            /\ done = 0 \/ end % CellsPerCluster = 0
            /\ end <= Capacity(have + gained)
            /\ gained = 0 \/ Capacity(have + gained - 1) <= end
            /\ Stored(h, gained, done, new)
            /\ fds' = [fds EXCEPT ![h].pos = AppendPosition(fds[h])]
            /\ UNCHANGED unsaved

(***************************************************************************)
(* Only the directory could not be read to update the entry.               *)
(***************************************************************************)
WriteUnrecorded(h, new) ==
    LET gained == Missing(h, Len(new))
        after == Advanced(fds[h], Len(new))
    IN  /\ gained <= Len(FreeInOrder(fat))
        /\ after.size > fds[h].size
        /\ Stored(h, gained, Len(new), new)
        /\ fds' = [fds EXCEPT ![h] = after]
        /\ UNCHANGED unsaved

Pwrite(h, new) ==
    /\ fds[h].open
    /\ Alone(h)
    /\ AppendPosition(fds[h]) + Len(new) <= MaxSize
    /\ WriteSucceeds(h, new) \/ WriteFails(h, new) \/ WriteUnrecorded(h, new)
    /\ UNCHANGED <<leaked, torn>>

----------------------------------------------------------------------------
(* Rename *)

(***************************************************************************)
(* What reading the whole file returns (fat32_read)                        *)
(***************************************************************************)
FileCells(p) ==
    LET read[at \in Cluster \X (0..MaxSize)] ==
            LET c == at[1]
                left == at[2]
            IN  IF left <= CellsPerCluster \/ fat[c] \notin Cluster
                THEN [i \in 1..Min({left, CellsPerCluster}) |-> data[c][i]]
                ELSE data[c] \o read[<<fat[c], left - CellsPerCluster>>]
    IN  read[<<EntryOf(p).first, EntryOf(p).size>>]

(***************************************************************************)
(* file_rename makes a new file, copies, and deletes the old one; or, when *)
(* the disk is full, the new one.  Transfers do not fail here (a bound).   *)
(***************************************************************************)
FileRename(p, q) ==
    LET cells == FileCells(p)
        oldChain == Chain(fat, EntryOf(p).first)
        free == Tail(FreeInOrder(fat))
        need == IF cells = <<>> THEN 0 ELSE ClustersFor(Len(cells)) - 1
        enough == need <= Len(free)
        chain == <<NewCluster>> \o (IF enough THEN SubSeq(free, 1, need) ELSE free)
        fits == IF enough THEN cells ELSE SubSeq(cells, 1, Capacity(Len(chain)))
        copied == PutCells(Zeroed(DataWithNew(q, FALSE), Tail(chain)), chain, 0, fits)
        linked == Linked(FatWithNew, <<NewCluster>>, Tail(chain))
        slot == Min(Vacant(DirOf(q)))
        new == Entry(Last(q), NewCluster, Len(cells), FALSE)
    IN  /\ IsFile(p)
        /\ ~InUse(p)
        /\ MayCreate(q)
        /\ Vacant(DirOf(q)) # {}
        /\ IF enough
           THEN /\ fat' = Released(linked, oldChain)
                /\ data' = DeletedEntry(PutCell(Forgotten(copied, oldChain),
                                                DirOf(q), slot, new), p)
                /\ Saved({DirOf(p), DirOf(q)})
           ELSE /\ fat' = Released(linked, chain)
                /\ data' = PutCell(Forgotten(copied, chain), DirOf(q), slot, Deleted)
                /\ Saved({DirOf(q)})
        /\ UNCHANGED <<fds, leaked, torn>>

RenameFails(p, q) == IsFile(p) /\ (CreateUnsaved(q, FALSE) \/ CreateFails(q))

----------------------------------------------------------------------------
Next ==
    /\ torn = NoPath
    /\ \/ \E p \in Path : DirCreate(p) \/ DirDelete(p) \/ FileDelete(p) \/ GoesFromView(p)
       \/ \E p, q \in Path : FileRename(p, q) \/ RenameFails(p, q)
       \/ \E h \in Handle, p \in Path, flags \in Flags : Popen(h, p, flags)
       \/ \E h \in Handle : MovePosition(h) \/ Pclose(h)
       \/ \E h \in Handle, v \in Value, n \in 1..MaxWrite :
             Pwrite(h, [i \in 1..n |-> Unit(v)])

Spec == Init /\ [][Next]_vars
----------------------------------------------------------------------------
(* Properties *)

Cell ==
    {Zero, Deleted, Stale} \cup {Unit(v) : v \in Value}
    \cup {Entry(n, c, k, b) : n \in {Last(p) : p \in Path}, c \in Cluster,
                              k \in 0..MaxSize, b \in BOOLEAN}

File ==
    [open : {TRUE}, flags : Flags, first : Cluster, size : 0..MaxSize,
     pos : 0..MaxSize, dirCluster : Cluster, dirIndex : Offset]

(***************************************************************************)
(* FAT, cells and open files hold what fat32.c and fd.c put there.         *)
(***************************************************************************)
TypeOK ==
    /\ fat \in [Cluster -> {0} \cup Cluster \cup {Eoc}]
    /\ data \in [Cluster -> [Offset -> Cell]]
    /\ fds \in [Handle -> {Closed} \cup File]
    /\ leaked \subseteq Cluster
    /\ unsaved \in Path \cup {NoPath}
    /\ torn \in Path \cup {NoPath}

Intact == torn = NoPath

Named == {p \in Path : Exists(p)}

(***************************************************************************)
(* No cluster is in two chains, none is shared by two files, and no chain  *)
(* runs into a free cluster, whatever was created, grown, cut, removed,    *)
(* renamed or refused in whatever order.                                   *)
(***************************************************************************)
ChainsApart ==
    Intact =>
        /\ \A c \in Cluster : fat[c] \in Cluster => fat[fat[c]] # 0
        /\ \A c, d \in Cluster : fat[c] \in Cluster /\ fat[c] = fat[d] => c = d
        /\ \A p \in Named : /\ fat[EntryOf(p).first] # 0
                            /\ \A c \in Cluster : fat[c] # EntryOf(p).first
                            /\ EntryOf(p).first # Root
        /\ \A p, q \in Named : EntryOf(p).first = EntryOf(q).first => p = q

(***************************************************************************)
(* Every cluster that is not free belongs to a file or directory, but for  *)
(* the one that a failed creation leaves behind: failed writes, cuts,      *)
(* removals and renames lose no space.                                     *)
(***************************************************************************)
Accounted ==
    Intact => {c \in Cluster : fat[c] # 0} =
        {Root} \cup leaked
        \cup UNION {ToSet(Chain(fat, EntryOf(p).first)) : p \in Named}

(***************************************************************************)
(* Chains stay apart and every cluster is accounted for.                   *)
(***************************************************************************)
TreeIsSound == TypeOK /\ ChainsApart /\ Accounted

(***************************************************************************)
(* A file has the clusters that its size promises, so reading it does not  *)
(* run off the end of its chain.                                           *)
(***************************************************************************)
SizeCovered ==
    Intact => \A p \in Named :
        EntryOf(p).size <= Capacity(Len(Chain(fat, EntryOf(p).first)))

(***************************************************************************)
(* An open file's directory entry stays where the handle says, and is that *)
(* file's; closing the file updates its own entry.  It is not so of a file *)
(* that a failed creation left in the cache only: it can be opened, and    *)
(* when its entry goes from view, before a write of the directory puts it  *)
(* on the disk, the handle is left with a slot that another file may take  *)
(* (fat32_write_cluster refreshes the cache before it writes).             *)
(***************************************************************************)
HandlesFindEntries ==
    \A h \in Handle : fds[h].open /\ Intact =>
        \E p \in Named : /\ Uses(h, p)
                         /\ ~EntryOf(p).dir
                         /\ EntryOf(p).first = fds[h].first
                         /\ EntryOf(p).size <= fds[h].size
                         /\ fds[h].pos <= fds[h].size

(***************************************************************************)
(* The contents of a file that is neither created nor removed change only  *)
(* in the stretch that one write through one of its handles covers.        *)
(***************************************************************************)
WritesInPlace ==
    [][\A p \in Named \cap Named' :
          LET old == FileCells(p)
              new == FileCells(p)'
          IN  Intact' /\ ~EntryOf(p).dir /\ new # old /\ new # <<>> =>
                 \E h \in Handle :
                    /\ Uses(h, p)
                    /\ \A i \in 1..Len(old) : new[i] # old[i] =>
                          /\ i > AppendPosition(fds[h])
                          /\ i <= AppendPosition(fds[h]) + MaxWrite]_vars

(***************************************************************************)
(* What is at path p, as open and read (fat32_open, fat32_read) show it    *)
(***************************************************************************)
Under(p, q) == q # NoPath /\ Len(p) >= Len(q) /\ SubSeq(p, 1, Len(q)) = q

Shown(p) ==
    IF Under(p, torn) THEN [kind |-> "lost"]
    ELSE IF ~Exists(p) THEN [kind |-> "none"]
    ELSE IF EntryOf(p).dir THEN [kind |-> "dir"]
    ELSE [kind |-> "file", cells |-> FileCells(p)]

S == INSTANCE FileStore
        WITH Cells <- {Unit(v) : v \in Value},
             files <- [p \in Path |-> Shown(p)]

(***************************************************************************)
(* Seen by path, the file system implements FileStore: each operation      *)
(* touches its own file only, and a file never shows what another one, or  *)
(* an earlier one, left in its clusters.                                   *)
(***************************************************************************)
ImplementsFileStore == S!Spec

(***************************************************************************)
(* "not in write mode" (fd.c:231): what a file holds changes only through  *)
(* a handle that was opened with O_WRITE.                                  *)
(***************************************************************************)
OnlyWritersWrite ==
    [][\A p \in Named \cap Named' :
          ~EntryOf(p).dir /\ Intact' /\ FileCells(p)' # FileCells(p) =>
              \E h \in Handle :
                 \/ Uses(h, p) /\ "write" \in fds[h].flags
                 \/ Uses(h, p)' /\ "write" \in fds'[h].flags]_vars
=============================================================================
