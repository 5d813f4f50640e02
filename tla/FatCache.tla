------------------------------ MODULE FatCache ------------------------------
(***************************************************************************)
(* The two caches of src/src/filesystem/fat32.c: sectors of the FAT, whose *)
(* changes reach the disk late, and clusters, whose writes go through.     *)
(* Every block transfer of an operation may fail, alone or with all that   *)
(* come after it, and power may be lost between two operations.            *)
(*                                                                         *)
(* An operation is a system call, with interrupts masked: one action.  It  *)
(* is computed on a "machine", a record of the caches, the disk and the    *)
(* transfers done so far, that each function of the code takes and gives   *)
(* back; ok says whether it returned 0.                                    *)
(*                                                                         *)
(* The contents of a cluster are one token: what a file was last given,    *)
(* "junk" once a failed transfer has left part of something else in it.    *)
(* A write replaces a part of the cluster, so it does not clear junk.      *)
(***************************************************************************)
EXTENDS FiniteSets, SequencesExt

CONSTANTS
    Entries,        \* entries of the FAT; clusters are 2..Entries - 1
    PerSector,      \* entries in a sector of the FAT
    FatLines,       \* FAT_CACHE_ENTRIES
    ClusterLines,   \* CLUSTER_CACHE_ENTRIES
    Tokens,         \* what programs write
    Files,          \* first clusters of the files
    MaxChain,       \* longest file that is written, in clusters (a bound)
    MaxOperations   \* operations on files (a bound)

ASSUME CacheAssumption ==
    /\ Entries \in Nat /\ Entries >= 3 /\ PerSector \in Nat \ {0}
    /\ FatLines \in Nat /\ FatLines >= 4      \* taking an allocation back
    /\ ClusterLines \in Nat \ {0}
    /\ Files \subseteq 3..(Entries - 1)
    /\ MaxChain \in Nat
    /\ "text" \in Tokens /\ "junk" \notin Tokens

VARIABLES
    disk,       \* [fat |-> sectors of both copies, data |-> clusters]
    fcache,     \* cached FAT sectors, oldest first
    ccache,     \* cached clusters, oldest first
    latest,     \* what each cluster was last given by a write that went well
    told,       \* what each entry of each copy of the FAT was last set to
    faults,     \* the kinds of mishap that happened
    operations  \* how many operations there were

cvars == <<disk, fcache, ccache, latest, told, faults, operations>>

Clusters == 2..(Entries - 1)
Dir == 2                        \* the directory that holds the files
Eoc == Entries
Copies == {1, 2}
SectorOf(copy, c) == <<copy, c \div PerSector>>
FatSectors == {SectorOf(k, c) : k \in Copies, c \in Clusters}
In(s) == {c \in Clusters : c \div PerSector = s[2]}

Upd(f, x, v) == [f EXCEPT ![x] = v]

----------------------------------------------------------------------------
(* Machines: a call, then another on what the first one returned *)

Then(m, F(_)) == LET x == m IN IF x.ok THEN F(x) ELSE x

(* F(m, 1), F(m, 2), ..., until one fails. *)
Repeat(m, F(_, _), n) ==
    LET done[i \in 0..n] ==
            IF i = 0 THEN m ELSE Then(done[i - 1], LAMBDA x : F(x, i))
    IN  done[n]

(* A call whose result is ignored: a clean-up after an error. *)
Regardless(m, F(_)) ==
    LET x == m IN [F([x EXCEPT !.ok = TRUE]) EXCEPT !.ok = x.ok]

Failed(m) == [m EXCEPT !.ok = FALSE]
Hurt(m, kind) == [m EXCEPT !.faults = @ \cup {kind}]

Fails(m) == IF m.sticky THEN m.n + 1 >= m.bad ELSE m.n + 1 = m.bad

(* A block transfer, of which `Good` is the effect and `Bad` what is left  *)
(* when it fails.                                                          *)
Transfer(m, Good(_), Bad(_)) ==
    IF Fails(m) THEN Failed(Bad([m EXCEPT !.n = @ + 1]))
    ELSE Good([m EXCEPT !.n = @ + 1])

(* What is left of a cache when its oldest line goes, if it must.          *)
Rest(cache, lines) == IF Len(cache) = lines THEN Tail(cache) ELSE cache

----------------------------------------------------------------------------
(* The FAT, through its cache *)

StoreSector(m, line) ==
    Transfer(m, LAMBDA x : [x EXCEPT !.disk.fat = Upd(@, line.lba, line.val)],
                LAMBDA x : x)

FatLine(s, val) == [lba |-> s, val |-> val, dirty |-> FALSE]

Cached(m, s) == \E i \in DOMAIN m.fcache : m.fcache[i].lba = s

Touch(cache, i) == Append(RemoveAt(cache, i), cache[i])

TouchSector(m, s) ==
    [m EXCEPT !.fcache = Touch(@, CHOOSE i \in DOMAIN @ : @[i].lba = s)]

LoadSectorBeside(m, s) ==
    Transfer(m,
        LAMBDA x : [x EXCEPT !.fcache = Append(@, FatLine(s, x.disk.fat[s]))],
        LAMBDA x : x)

LoadSector(m, s) ==
    Transfer(m,
        LAMBDA x : [x EXCEPT !.fcache =
                        Append(Rest(@, FatLines), FatLine(s, x.disk.fat[s]))],
        LAMBDA x : [x EXCEPT !.fcache = Rest(@, FatLines)])

(* Only the victim is flushed; if it cannot be, it stays.  If the new      *)
(* sector cannot be loaded, the line of the victim is no longer valid.     *)
FatGetSector(m, s) ==
    IF Cached(m, s) THEN TouchSector(m, s)
    ELSE LET full == Len(m.fcache) = FatLines
         IN  Then(IF full /\ m.fcache[1].dirty THEN StoreSector(m, m.fcache[1]) ELSE m,
                  LAMBDA x : LoadSector(x, s))

(* The entry of cluster c in a copy of the FAT, of which the sector has    *)
(* just been fetched and so is the youngest.                               *)
Fetched(m, c) == Last(m.fcache).val[c]

(* The youngest line, after its entry of cluster c is set.                 *)
Entered(line, c, v, dirty) == [line EXCEPT !.val = Upd(@, c, v), !.dirty = dirty]

SetCopy(m, k, c, v) ==
    Then(FatGetSector(m, SectorOf(k, c)), LAMBDA x :
        [x EXCEPT !.fcache = Upd(@, Len(@), Entered(Last(@), c, v, TRUE)),
                  !.told = Upd(@, k, Upd(@[k], c, v))])

Midway(m) == IF m.ok THEN m ELSE Hurt(m, "midway")

(* If the second copy is out of reach, the first one is not taken back.    *)
SetFatEntry(m, c, v) ==
    Then(SetCopy(m, 1, c, v), LAMBDA x : Midway(SetCopy(x, 2, c, v)))

(* The next cluster of a chain in m.out, 0 at its end.                     *)
GetNext(m, c) ==
    Then(FatGetSector(m, SectorOf(1, c)), LAMBDA x :
        IF Fetched(x, c) = Eoc THEN [x EXCEPT !.out = 0]
        ELSE IF Fetched(x, c) \in Clusters THEN [x EXCEPT !.out = Fetched(x, c)]
        ELSE Failed(x))

FindFreeCluster(m) ==
    LET Try(x, c) ==
            IF x.out # 0 THEN x
            ELSE Then(FatGetSector(x, SectorOf(1, c)), LAMBDA y :
                    IF Fetched(y, c) = 0 THEN [y EXCEPT !.out = c] ELSE y)
    IN  Then(Repeat([m EXCEPT !.out = 0], LAMBDA x, i : Try(x, i + 1), Entries - 2),
              LAMBDA x : IF x.out = 0 THEN Failed(x) ELSE x)

(* A sector counts as written whether or not the transfer went well.       *)
SyncLine(m, i) ==
    IF ~m.fcache[i].dirty THEN m
    ELSE LET stored == StoreSector(m, m.fcache[i])
             marked == IF stored.ok THEN stored ELSE Hurt(stored, "sync")
         IN  [marked EXCEPT !.fcache[i].dirty = FALSE, !.ok = TRUE]

Sync(m) == Repeat(m, SyncLine, Len(m.fcache))

----------------------------------------------------------------------------
(* Clusters, through their cache *)

LineOf(m, c) == {i \in DOMAIN m.ccache : m.ccache[i].cluster = c}

(* The line of cluster c, if there is one, takes what is written.          *)
Refresh(m, c, v, dirty) ==
    IF LineOf(m, c) = {} THEN m
    ELSE LET i == CHOOSE j \in LineOf(m, c) : TRUE
         IN  [m EXCEPT !.ccache =
                 Append(RemoveAt(@, i), [cluster |-> c, val |-> v, dirty |-> dirty])]

(* A transfer that fails may have moved a part of the cluster.             *)
StoreCluster(m, c, v) ==
    Transfer(m,
        LAMBDA x : [x EXCEPT !.disk.data = Upd(@, c, v)],
        LAMBDA x : Hurt([x EXCEPT !.disk.data =
                             IF x.partial THEN Upd(@, c, "junk") ELSE @], "write"))

(* The cache is refreshed before the block is written.                     *)
WriteCluster(m, c, v) == StoreCluster(Refresh(m, c, v, FALSE), c, v)

(* Reading cluster c into line i of the cache, a new line if i is 0.  If   *)
(* the transfer fails the line stays, under its old number.                *)
LoadCluster(m, c, i) ==
    Transfer(m,
        LAMBDA x : [x EXCEPT
            !.ccache = Append(IF i = 0 THEN @ ELSE RemoveAt(@, i),
                              [cluster |-> c, val |-> x.disk.data[c], dirty |-> FALSE]),
            !.got = x.disk.data[c]],
        LAMBDA x : IF x.partial /\ i # 0
                   THEN Hurt([x EXCEPT !.ccache[i].val = "junk"], "read") ELSE x)

(* What a cluster holds, in m.got.  The oldest line is read into; it is    *)
(* written back first when it is dirty, which makes it the youngest.  A    *)
(* hit does not make a line younger.                                       *)
ReadCluster(m, c) ==
    IF LineOf(m, c) # {}
    THEN [m EXCEPT !.got = m.ccache[CHOOSE i \in LineOf(m, c) : TRUE].val]
    ELSE IF Len(m.ccache) < ClusterLines THEN LoadCluster(m, c, 0)
    ELSE IF ~m.ccache[1].dirty THEN LoadCluster(m, c, 1)
    ELSE Then(WriteCluster(m, m.ccache[1].cluster, m.ccache[1].val),
              LAMBDA x : LoadCluster(x, c, Len(x.ccache)))

----------------------------------------------------------------------------
(* What the file operations do to the disk *)

Given(m, c, v) == [m EXCEPT !.latest = Upd(@, c, v)]

(* fat32_allocate_cluster_after: the chain is linked first, the clean-up   *)
(* depends on the step that failed, and its own failures are ignored.      *)
AllocateAfter(m, prev) ==
    LET Unlink(x) == SetFatEntry(x, prev, Eoc)
        Ended(a) ==
            LET x == SetFatEntry(a, a.out, Eoc)
            IN  IF x.ok THEN x ELSE Regardless(x, Unlink)
        Cleared(a, x) ==
            Regardless(Regardless(x, Unlink), LAMBDA y : SetFatEntry(y, a.out, 0))
        Blank(a, d) ==
            LET x == WriteCluster(d, a.out, "zero")
            IN  IF x.ok THEN Given(x, a.out, "zero") ELSE Cleared(a, x)
    IN  Then(FindFreeCluster(m), LAMBDA a :
            Then(SetFatEntry(a, prev, a.out), LAMBDA b :
                Then(Then(Ended(b), LAMBDA d : Blank(b, d)),
                     LAMBDA e : [e EXCEPT !.out = a.out])))

NextOrNew(m) ==
    LET c == m.out
    IN  Then(GetNext(m, c), LAMBDA x : IF x.out = 0 THEN AllocateAfter(x, c) ELSE x)

UpdateDirEntry(m) ==
    Then(ReadCluster(m, Dir), LAMBDA x :
        Then(WriteCluster(x, Dir, IF x.got = "junk" THEN "junk" ELSE "dir"),
             LAMBDA y : Given(y, Dir, "dir")))

(* fat32_write, of a part of the k-th cluster of a file.  The cluster is   *)
(* written through, and its line marked dirty all the same.                *)
WriteFile(m, f, k, v) ==
    LET walked == Repeat([m EXCEPT !.out = f], LAMBDA x, i : NextOrNew(x), k - 1)
        Put(x) == IF x.got = "junk" THEN "junk" ELSE v
        Write(x) == Then(StoreCluster(x, x.out, Put(x)), LAMBDA y :
                        Given(Refresh(y, y.out, Put(y), TRUE), y.out, v))
        Grown(x) == IF x.got # v THEN Then(Write(x), UpdateDirEntry)
                    ELSE Write(x)
    IN  Then(Then(walked, LAMBDA x : ReadCluster(x, x.out)), Grown)

ReadFile(m, f, k) ==
    LET Step(x) == Then(GetNext(x, x.out), LAMBDA y : IF y.out = 0 THEN Failed(y) ELSE y)
        walked == Repeat([m EXCEPT !.out = f], LAMBDA x, i : Step(x), k - 1)
    IN  Then(walked, LAMBDA x : ReadCluster(x, x.out))

FreeClusterChain(m, first) ==
    LET Free(x) ==
            LET c == x.out
            IN  IF c = 0 THEN x
                ELSE Then(GetNext(x, c), LAMBDA y : SetFatEntry(y, c, 0))
        freed == Repeat([m EXCEPT !.out = first], LAMBDA x, i : Free(x), Entries - 1)
    IN  Then(freed, LAMBDA x : IF x.out = 0 THEN x ELSE Failed(x))

(* fat32_truncate: the file keeps its first cluster, blank.  That this     *)
(* could not be written is ignored.                                        *)
Truncate(m, f) ==
    LET End(x) == SetFatEntry(x, f, Eoc)
        Cut(x) ==
            LET old == x.out
            IN  Then(End(x), LAMBDA y :
                    IF old = 0 THEN y
                    ELSE LET z == FreeClusterChain(y, old)
                         IN  IF z.ok THEN z ELSE Regardless(z, End))
        Blank(x) ==
            LET z == WriteCluster(x, f, "zero")
            IN  IF z.ok THEN Given(z, f, "zero") ELSE [z EXCEPT !.ok = TRUE]
    IN  Then(Then(Then(GetNext(m, f), Cut), Blank), UpdateDirEntry)

CloseFile(m) == Sync(Regardless(Sync(m), UpdateDirEntry))

(* fat32_mount: the MBR and the boot sector go through the FAT cache.      *)
Mounted == <<FatLine(<<0, 0>>, <<>>), FatLine(<<0, 1>>, <<>>)>>

----------------------------------------------------------------------------
(* The specification *)

CacheInit ==
    /\ disk = [fat |-> [s \in FatSectors |->
                            [c \in In(s) |-> IF c \in Files \cup {Dir} THEN Eoc ELSE 0]],
               data |-> [c \in Clusters |-> IF c = Dir THEN "dir" ELSE "text"]]
    /\ fcache = Mounted
    /\ ccache = <<>>
    /\ latest = disk.data
    /\ told = [k \in Copies |-> [c \in Clusters |-> disk.fat[SectorOf(k, c)][c]]]
    /\ faults = {}
    /\ operations = 0

(* Transfer `bad` fails, or all from it on; none if it is 0.               *)
Machine(bad, sticky, partial) ==
    [disk |-> disk, fcache |-> fcache, ccache |-> ccache, latest |-> latest,
     told |-> told, faults |-> faults, bad |-> bad, sticky |-> sticky,
     partial |-> partial, n |-> 0, ok |-> TRUE, out |-> 0, got |-> "zero"]

BecomesMachine(m) ==
    /\ disk' = m.disk
    /\ fcache' = m.fcache
    /\ ccache' = m.ccache
    /\ latest' = m.latest
    /\ told' = m.told
    /\ faults' = m.faults

(* An operation in which all transfers go well, or some do not.  After a   *)
(* mishap there are no more (a bound).                                     *)
Run(Op(_)) ==
    /\ faults = {} /\ operations < MaxOperations
    /\ operations' = operations + 1
    /\ \E well \in {Op(Machine(0, FALSE, FALSE))} :
          \/ BecomesMachine(well)
          \/ \E bad \in 1..well.n, sticky, partial \in BOOLEAN :
                /\ ~(sticky /\ partial)
                /\ \E m \in {Op(Machine(bad, sticky, partial))} : BecomesMachine(m)

Write == \E f \in Files, k \in 1..MaxChain, v \in Tokens :
            Run(LAMBDA m : WriteFile(m, f, k, v))
Read == \E f \in Files, k \in 1..MaxChain : Run(LAMBDA m : ReadFile(m, f, k))
Cut == \E f \in Files : Run(LAMBDA m : Truncate(m, f))
Close == Run(CloseFile)

(* Power is lost and comes back: what only the FAT cache knew is gone.     *)
PowerLoss ==
    /\ fcache' = Mounted
    /\ ccache' = <<>>
    /\ told' = [k \in Copies |-> [c \in Clusters |-> disk.fat[SectorOf(k, c)][c]]]
    /\ faults' = IF \E i \in DOMAIN fcache : fcache[i].dirty
                 THEN faults \cup {"power"} ELSE faults
    /\ UNCHANGED <<disk, latest, operations>>

CacheNext == Write \/ Read \/ Cut \/ Close \/ PowerLoss

CacheSpec == CacheInit /\ [][CacheNext]_cvars

----------------------------------------------------------------------------
(* Properties *)

(* What fat32_get_sector would give for an entry of a copy of the FAT.     *)
View(k, c) ==
    LET s == SectorOf(k, c)
        lines == {i \in DOMAIN fcache : fcache[i].lba = s}
    IN  IF lines = {} THEN disk.fat[s][c] ELSE fcache[CHOOSE i \in lines : TRUE].val[c]

Shown(c) ==
    LET lines == {i \in DOMAIN ccache : ccache[i].cluster = c}
    IN  IF lines = {} THEN disk.data[c] ELSE ccache[CHOOSE i \in lines : TRUE].val

CacheTypeOK ==
    /\ \A s \in FatSectors, c \in Clusters :
            c \in In(s) => disk.fat[s][c] \in {0, Eoc} \cup Clusters
    /\ Len(fcache) <= FatLines /\ Len(ccache) <= ClusterLines
    /\ \A i, j \in DOMAIN fcache : fcache[i].lba = fcache[j].lba => i = j
    /\ \A i, j \in DOMAIN ccache : ccache[i].cluster = ccache[j].cluster => i = j
    /\ \A c \in Clusters : {disk.data[c], latest[c], Shown(c)}
                                \subseteq Tokens \cup {"zero", "dir", "junk"}

(* The cache of the FAT is transparent: through evictions, loads that fail *)
(* and operations that give up, the FAT reads as it was last set, unless a *)
(* sector could not be written when it was synced.                         *)
FatIsTransparent ==
    "sync" \notin faults => \A k \in Copies, c \in Clusters : View(k, c) = told[k][c]

(* A sector that does not count as dirty is on the disk as it is in the    *)
(* cache, so a file that was closed is found again after a loss of power.  *)
CleanMeansSaved ==
    "sync" \notin faults =>
        \A i \in DOMAIN fcache :
            fcache[i].lba \in FatSectors /\ ~fcache[i].dirty =>
                disk.fat[fcache[i].lba] = fcache[i].val

(* Whatever fails, no cluster comes to follow two others, a file or the    *)
(* directory, and no chain runs into a free cluster: only a second copy of *)
(* the FAT out of reach, a failed sync or a loss of power can do that.     *)
ChainsSurvive ==
    faults \cap {"midway", "sync", "power"} = {} =>
        /\ \A c \in Clusters : View(1, c) \in Clusters =>
              /\ View(1, c) \notin Files \cup {Dir}
              /\ View(1, View(1, c)) # 0
              /\ \A d \in Clusters : View(1, d) = View(1, c) => c = d
        /\ \A f \in Files \cup {Dir} : View(1, f) # 0

(* The copies of the FAT agree, but for those same mishaps.                *)
CopiesAgree ==
    faults \cap {"midway", "sync", "power"} = {} =>
        \A c \in Clusters : View(1, c) = View(2, c)

(* A cluster reads as it was last written, and is so on the disk, unless a *)
(* transfer of cluster data failed: no eviction, write-back of a line that *)
(* was dirty for no reason, or reuse of a cluster brings old data back.    *)
DataIsKept ==
    faults \cap {"read", "write"} = {} =>
        \A c \in Clusters : disk.data[c] = latest[c] /\ Shown(c) = latest[c]

(* Through the cache, failing transfers and losses of power, the FAT keeps *)
(* what it was told, in both copies, and no chain is lost (fat32.c).       *)
FatIsKept ==
    CacheTypeOK /\ FatIsTransparent /\ CleanMeansSaved /\ ChainsSurvive /\ CopiesAgree

(* What goes through the caches comes back, be it FAT or data.              *)
CacheIsKept == FatIsKept /\ DataIsKept
=============================================================================
