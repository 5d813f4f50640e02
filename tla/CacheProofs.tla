---------------------------- MODULE CacheProofs ----------------------------
(***************************************************************************)
(* The two caches of fat32.c keep what they were given, for any number of  *)
(* clusters, cache lines, files and operations, whichever transfers fail.  *)
(*                                                                         *)
(* Each function of the model takes a machine and gives one back.  A lemma *)
(* for each says what it keeps, from the transfer of a block up to the     *)
(* operations on files; the last part lifts them to the specification.     *)
(***************************************************************************)
EXTENDS FatCache, FiniteSetTheorems, SequenceLemmas

(***************************************************************************)
(* The machines that the functions of fat32.c work on.                     *)
(***************************************************************************)
Writes == Tokens \cup {"zero", "dir"}
Contents == Writes \cup {"junk"}
Links == {0, Eoc} \cup Clusters
Mishaps == {"midway", "sync", "write", "read", "power"}

Sectors == FatSectors \cup {<<0, 0>>, <<0, 1>>}
Vals == {<<>>} \cup UNION {[In(s) -> Links] : s \in FatSectors}
Lines == [lba : Sectors, val : Vals, dirty : BOOLEAN]
Fats == {f \in [FatSectors -> Vals] : \A s \in FatSectors : f[s] \in [In(s) -> Links]}
Disks == [fat : Fats, data : [Clusters -> Contents]]
Blocks == [cluster : Clusters, val : Contents, dirty : BOOLEAN]

Machines ==
  [disk : Disks, fcache : Seq(Lines), ccache : Seq(Blocks),
   latest : [Clusters -> Writes], told : [Copies -> [Clusters -> Links]],
   faults : SUBSET Mishaps, bad : Nat, sticky : BOOLEAN, partial : BOOLEAN,
   n : Nat, ok : BOOLEAN, out : {0} \cup Clusters, got : Contents]

(* Clusters are numbers other than the marks 0 and Eoc.                    *)
LEMMA ClusterFacts ==
    /\ Clusters \subseteq Nat /\ 0 \notin Clusters /\ Eoc \notin Clusters /\ Eoc # 0
    /\ Dir \in Clusters /\ Files \subseteq Clusters /\ Dir \notin Files
  BY CacheAssumption DEF Clusters, Eoc, Dir

(* The entry of a cluster is in its sector of each copy of the FAT.        *)
LEMMA SectorFacts ==
    ASSUME NEW k \in Copies, NEW c \in Clusters
    PROVE  SectorOf(k, c) \in FatSectors /\ c \in In(SectorOf(k, c))
<1>1. SectorOf(k, c) \in FatSectors
  BY DEF FatSectors
<1>2. c \in In(SectorOf(k, c))
  BY DEF In, SectorOf
<1> QED BY <1>1, <1>2

(***************************************************************************)
(* A machine that only differs in how many transfers there were.           *)
(***************************************************************************)
LEMMA Bumped ==
    ASSUME NEW m \in Machines
    PROVE  /\ [m EXCEPT !.n = @ + 1] \in Machines
           /\ Failed([m EXCEPT !.n = @ + 1]) \in Machines
<1> DEFINE x == m.n + 1
<1>0. x \in Nat
  BY DEF Machines
<1> HIDE DEF x
<1>a. [m EXCEPT !.n = x] \in Machines
  BY <1>0 DEF Machines
<1>1. [m EXCEPT !.n = @ + 1] \in Machines
  BY <1>a DEF x
<1>2. PICK b : b = [m EXCEPT !.n = @ + 1]
  OBVIOUS
<1>3. Failed(b) \in Machines
  BY <1>1, <1>2 DEF Machines, Failed
<1> QED BY <1>1, <1>2, <1>3

(* A sector that is written changes nothing but the disk, and not if it    *)
(* fails.                                                                  *)
LEMMA StoreSectorLemma ==
    ASSUME NEW m \in Machines, NEW line \in Lines, line.lba \in FatSectors,
           line.val \in [In(line.lba) -> Links], m.ok
    PROVE  LET r == StoreSector(m, line) IN
           /\ r \in Machines
           /\ r.fcache = m.fcache /\ r.ccache = m.ccache /\ r.latest = m.latest
           /\ r.told = m.told /\ r.faults = m.faults /\ r.out = m.out /\ r.got = m.got
           /\ r.disk.data = m.disk.data
           /\ r.disk.fat = IF r.ok THEN [m.disk.fat EXCEPT ![line.lba] = line.val] ELSE m.disk.fat
<1> DEFINE b == [m EXCEPT !.n = @ + 1]
           g == [b EXCEPT !.disk.fat = Upd(@, line.lba, line.val)]
<1>1. b \in Machines /\ Failed(b) \in Machines
  BY Bumped
<1>2. StoreSector(m, line) = IF Fails(m) THEN Failed(b) ELSE g
  BY DEF StoreSector, Transfer
<1>3. [b.disk EXCEPT !.fat = Upd(@, line.lba, line.val)] \in Disks
  <2>1. Upd(b.disk.fat, line.lba, line.val) \in Fats
    BY <1>1 DEF Machines, Disks, Fats, Upd, Lines
  <2> QED BY <1>1, <2>1 DEF Machines, Disks
<1>4. g \in Machines
  BY <1>1, <1>3 DEF Machines
<1> QED BY <1>1, <1>2, <1>3, <1>4 DEF Machines, Disks, Failed, Upd

(***************************************************************************)
(* The FAT reads as it was told, through its cache, and what is not dirty  *)
(* is on the disk, unless a sync went wrong.                               *)
(***************************************************************************)
Reads(fat, cache, told_) ==
  \A k \in Copies, c \in Clusters :
    /\ \A i \in DOMAIN cache :
         cache[i].lba = SectorOf(k, c) => cache[i].val[c] = told_[k][c]
    /\ (\A i \in DOMAIN cache : cache[i].lba # SectorOf(k, c))
         => fat[SectorOf(k, c)][c] = told_[k][c]

Saved(fat, cache) ==
  \A i \in DOMAIN cache :
    cache[i].lba \in FatSectors /\ ~cache[i].dirty => fat[cache[i].lba] = cache[i].val

Held(cache) ==
  /\ Len(cache) <= FatLines
  /\ \A i, j \in DOMAIN cache : cache[i].lba = cache[j].lba => i = j
  /\ \A i \in DOMAIN cache :
       /\ cache[i].lba \in FatSectors => cache[i].val \in [In(cache[i].lba) -> Links]
       /\ cache[i].dirty => cache[i].lba \in FatSectors

FatInv(m) ==
  /\ Held(m.fcache)
  /\ "sync" \notin m.faults =>
       Reads(m.disk.fat, m.fcache, m.told) /\ Saved(m.disk.fat, m.fcache)

(* The functions on the FAT leave the clusters alone.                      *)
Beside(m, r) ==
  /\ r \in Machines
  /\ r.ccache = m.ccache /\ r.latest = m.latest /\ r.got = m.got
  /\ r.disk.data = m.disk.data
  /\ r.faults \cap {"read", "write"} = m.faults \cap {"read", "write"}

(* Sector s is among the d youngest lines of a cache; a fetch makes it      *)
(* older by one.                                                           *)
Near(cache, s, d) == \E i \in DOMAIN cache : cache[i].lba = s /\ i + d > Len(cache)

Aged(cache, t) ==
  \A s \in FatSectors, d \in 1..(FatLines - 1) : Near(cache, s, d) => Near(t, s, d + 1)

(* A line taken out and a line put at the end: where each line is then.    *)
LEMMA RenewLemma ==
    ASSUME NEW S, NEW q \in Seq(S), NEW i \in DOMAIN q, NEW e \in S
    PROVE  LET t == Append(RemoveAt(q, i), e) IN
           /\ t \in Seq(S) /\ Len(t) = Len(q)
           /\ \A j \in 1..Len(q) :
                t[j] = IF j < i THEN q[j] ELSE IF j < Len(q) THEN q[j + 1] ELSE e
<1>1. i \in 1..Len(q) /\ Len(q) \in Nat
  OBVIOUS
<1> DEFINE t == RemoveAt(q, i)
<1>2. /\ t \in Seq(S) /\ Len(t) = Len(q) - 1
      /\ \A k \in 1..(Len(q) - 1) : t[k] = IF k < i THEN q[k] ELSE q[k + 1]
  BY <1>1, RemoveAtLemma
<1> HIDE DEF t
<1>3. /\ Append(t, e) \in Seq(S) /\ Len(Append(t, e)) = Len(t) + 1
      /\ \A k \in 1..Len(t) : Append(t, e)[k] = t[k]
      /\ Append(t, e)[Len(t) + 1] = e
  BY <1>2
<1>4. /\ Append(t, e) \in Seq(S) /\ Len(Append(t, e)) = Len(q)
      /\ \A j \in 1..Len(q) :
           Append(t, e)[j] = IF j < i THEN q[j] ELSE IF j < Len(q) THEN q[j + 1] ELSE e
  BY <1>1, <1>2, <1>3
<1> QED BY <1>4 DEF t

(* The same when the line is put back as the youngest.                     *)
LEMMA TouchLemma ==
    ASSUME NEW S, NEW q \in Seq(S), NEW i \in DOMAIN q
    PROVE  /\ Touch(q, i) \in Seq(S) /\ Len(Touch(q, i)) = Len(q)
           /\ \A j \in 1..Len(q) :
                Touch(q, i)[j] = IF j < i THEN q[j] ELSE IF j < Len(q) THEN q[j + 1] ELSE q[i]
  BY RenewLemma DEF Touch

(* A hit keeps every sector cached and ages the others by at most one      *)
(* line.                                                                   *)
LEMMA TouchSectorLemma ==
    ASSUME NEW m \in Machines, FatInv(m), NEW s \in FatSectors, Cached(m, s)
    PROVE  LET r == TouchSector(m, s) IN
           /\ Beside(m, r) /\ FatInv(r)
           /\ r.told = m.told /\ r.faults = m.faults /\ r.out = m.out /\ r.ok = m.ok
           /\ Len(r.fcache) > 0 /\ r.fcache[Len(r.fcache)].lba = s
           /\ Aged(m.fcache, r.fcache)
           /\ \A x \in FatSectors : Cached(m, x) => Cached(r, x)
<1> DEFINE i == CHOOSE j \in DOMAIN m.fcache : m.fcache[j].lba = s
           t == Touch(m.fcache, i)
           r == TouchSector(m, s)
           q == m.fcache
<1>1. i \in DOMAIN q /\ q[i].lba = s
  BY DEF Cached
<1>2. q \in Seq(Lines)
  BY DEF Machines
<1> HIDE DEF i
<1>3. /\ t \in Seq(Lines) /\ Len(t) = Len(q)
      /\ \A j \in 1..Len(q) :
           t[j] = IF j < i THEN q[j] ELSE IF j < Len(q) THEN q[j + 1] ELSE q[i]
  BY <1>1, <1>2, TouchLemma
<1>4. r = [m EXCEPT !.fcache = t]
  BY DEF TouchSector, i
<1> HIDE DEF t, r
<1>5. r \in Machines
  BY <1>3, <1>4 DEF Machines
<1>6. r.fcache = t
  BY <1>4 DEF Machines
<1>7. /\ \A j \in DOMAIN t : \E k \in DOMAIN q : t[j] = q[k]
      /\ \A k \in DOMAIN q : \E j \in DOMAIN t : t[j] = q[k]
      /\ \A j, k \in DOMAIN t : t[j].lba = t[k].lba => j = k
  <2>1. \A j \in DOMAIN t : \E k \in DOMAIN q : t[j] = q[k]
    BY <1>1, <1>2, <1>3
  <2>2. ASSUME NEW k \in DOMAIN q
        PROVE  \E j \in DOMAIN t : t[j] = q[k]
    <3>1. CASE k < i
      BY <1>1, <1>2, <1>3, <3>1
    <3>2. CASE k = i
      <4>1. t[Len(q)] = q[k] /\ Len(q) \in DOMAIN t
        BY <1>1, <1>2, <1>3, <3>2
      <4> QED BY <4>1
    <3>3. CASE k > i
      <4>1. t[k - 1] = q[k] /\ k - 1 \in DOMAIN t
        BY <1>1, <1>2, <1>3, <3>3
      <4> QED BY <4>1
    <3> QED BY <1>1, <1>2, <3>1, <3>2, <3>3
  <2>3. \A j, k \in DOMAIN t : t[j].lba = t[k].lba => j = k
    BY <1>1, <1>2, <1>3 DEF FatInv, Held
  <2> QED BY <2>1, <2>2, <2>3
<1>8. Held(t)
  BY <1>2, <1>3, <1>7 DEF FatInv, Held
<1>9. FatInv(r)
  <2>1. r.disk = m.disk /\ r.told = m.told /\ r.faults = m.faults
    BY <1>4 DEF Machines
  <2>2. Reads(m.disk.fat, q, m.told) => Reads(m.disk.fat, t, m.told)
    BY <1>7 DEF Reads
  <2>3. Saved(m.disk.fat, q) => Saved(m.disk.fat, t)
    BY <1>7 DEF Saved
  <2> QED BY <1>6, <1>8, <2>1, <2>2, <2>3 DEF FatInv
<1>10. Beside(m, r) /\ r.told = m.told /\ r.faults = m.faults /\ r.out = m.out /\ r.ok = m.ok
  BY <1>4, <1>5 DEF Machines, Beside
<1>11. Len(t) > 0 /\ t[Len(t)].lba = s
  BY <1>1, <1>2, <1>3
<1>12. Aged(q, t)
  <2>1. ASSUME NEW x \in FatSectors, NEW d \in 1..(FatLines - 1), NEW k \in DOMAIN q,
               q[k].lba = x, k + d > Len(q)
        PROVE  Near(t, x, d + 1)
    <3>1. d \in Nat /\ k \in 1..Len(q) /\ Len(q) \in Nat
      BY <1>2, CacheAssumption
    <3>2. CASE k < i
      <4>1. t[k] = q[k] /\ k \in DOMAIN t /\ k + (d + 1) > Len(t)
        BY <1>1, <1>3, <2>1, <3>1, <3>2
      <4> QED BY <2>1, <4>1 DEF Near
    <3>3. CASE k = i
      <4>1. t[Len(q)] = q[k] /\ Len(q) \in DOMAIN t /\ Len(q) + (d + 1) > Len(t)
        BY <1>1, <1>3, <3>1, <3>3
      <4> QED BY <2>1, <4>1 DEF Near
    <3>4. CASE k > i
      <4>1. t[k - 1] = q[k] /\ k - 1 \in DOMAIN t /\ (k - 1) + (d + 1) > Len(t)
        BY <1>1, <1>2, <1>3, <2>1, <3>1, <3>4
      <4> QED BY <2>1, <4>1 DEF Near
    <3> QED BY <1>1, <1>2, <3>1, <3>2, <3>3, <3>4
  <2> QED BY <2>1 DEF Aged, Near
<1>13. \A x \in FatSectors : Cached(m, x) => Cached(r, x)
  BY <1>6, <1>7 DEF Cached
<1> QED BY <1>6, <1>9, <1>10, <1>11, <1>12, <1>13 DEF r

(***************************************************************************)
(* The sectors that may be cached are those of the two copies.             *)
(***************************************************************************)
VictimIsSaved(m) ==
  Len(m.fcache) = FatLines /\ m.fcache[1].lba \in FatSectors /\ "sync" \notin m.faults
    => m.disk.fat[m.fcache[1].lba] = m.fcache[1].val

(* A miss whose victim is on the disk: loaded or not, the FAT reads as     *)
(* before.                                                                 *)
LEMMA LoadSectorLemma ==
    ASSUME NEW m \in Machines, FatInv(m), NEW s \in FatSectors, ~Cached(m, s), m.ok,
           VictimIsSaved(m)
    PROVE  LET r == LoadSector(m, s) IN
           /\ Beside(m, r) /\ FatInv(r)
           /\ r.told = m.told /\ r.faults = m.faults /\ r.out = m.out
           /\ r.ok => Len(r.fcache) > 0 /\ r.fcache[Len(r.fcache)].lba = s
           /\ Aged(m.fcache, r.fcache)
<1> DEFINE b == [m EXCEPT !.n = @ + 1]
           q == m.fcache
           t == Rest(q, FatLines)
           l == FatLine(s, m.disk.fat[s])
           r == LoadSector(m, s)
<1>1. b \in Machines /\ b.fcache = q /\ b.disk = m.disk
  BY Bumped DEF Machines
<1>2. r = IF Fails(m) THEN Failed([b EXCEPT !.fcache = t])
          ELSE [b EXCEPT !.fcache = Append(t, l)]
  BY <1>1 DEF LoadSector, Transfer
<1>3. q \in Seq(Lines) /\ Len(q) \in Nat /\ Len(q) <= FatLines
  BY DEF Machines, FatInv, Held
<1>4. /\ t \in Seq(Lines) /\ Len(t) < FatLines /\ Len(t) <= Len(q)
      /\ Len(q) = FatLines => Len(t) = Len(q) - 1 /\ \A i \in 1..Len(t) : t[i] = q[i + 1]
      /\ Len(q) # FatLines => t = q
  <2>1. CASE Len(q) = FatLines
    <3>1. t = Tail(q) /\ q # <<>>
      BY <1>3, <2>1, CacheAssumption DEF Rest
    <3>2. Tail(q) \in Seq(Lines) /\ Len(Tail(q)) = Len(q) - 1
          /\ \A i \in 1..(Len(q) - 1) : Tail(q)[i] = q[i + 1]
      BY <1>3, <3>1
    <3> QED BY <1>3, <2>1, <3>1, <3>2
  <2>2. CASE Len(q) # FatLines
    BY <1>3, <2>2, CacheAssumption DEF Rest
  <2> QED BY <2>1, <2>2
<1>5. l \in Lines /\ l.lba = s /\ l.val = m.disk.fat[s] /\ ~l.dirty
      /\ l.val \in [In(s) -> Links]
  BY DEF FatLine, Lines, Machines, Disks, Fats, Sectors
<1> HIDE DEF l, r, t
<1>6. /\ Append(t, l) \in Seq(Lines) /\ Len(Append(t, l)) = Len(t) + 1
      /\ \A i \in 1..Len(t) : Append(t, l)[i] = t[i]
      /\ Append(t, l)[Len(t) + 1] = l
  BY <1>4, <1>5
<1>7. \A i \in DOMAIN q : q[i].lba # s
  BY DEF Cached
<1>8. /\ \A j \in DOMAIN t : \E k \in DOMAIN q : t[j] = q[k]
      /\ \A j, k \in DOMAIN t : t[j].lba = t[k].lba => j = k
      /\ \A k \in DOMAIN q : (\E j \in DOMAIN t : t[j] = q[k]) \/ (k = 1 /\ Len(q) = FatLines)
  <2>1. CASE Len(q) # FatLines
    BY <1>4, <2>1, <1>3 DEF FatInv, Held
  <2>2. CASE Len(q) = FatLines
    <3>1. \A j \in DOMAIN t : j + 1 \in DOMAIN q /\ t[j] = q[j + 1]
      BY <1>3, <1>4, <2>2
    <3>2. ASSUME NEW k \in DOMAIN q, k # 1
          PROVE  k - 1 \in DOMAIN t /\ t[k - 1] = q[k]
      BY <1>3, <1>4, <2>2, <3>2
    <3>3. ASSUME NEW j \in DOMAIN t, NEW k \in DOMAIN t, t[j].lba = t[k].lba
          PROVE  j = k
      <4>1. q[j + 1].lba = q[k + 1].lba /\ j + 1 \in DOMAIN q /\ k + 1 \in DOMAIN q
        BY <3>1, <3>3
      <4>2. j + 1 = k + 1
        BY <4>1 DEF FatInv, Held
      <4>3. j \in Nat /\ k \in Nat
        BY <1>4
      <4> QED BY <4>2, <4>3
    <3> QED BY <2>2, <3>1, <3>2, <3>3
  <2> QED BY <2>1, <2>2
<1>9. Len(q) = FatLines => 1 \in DOMAIN q
  BY <1>3, CacheAssumption
<1>10. Held(t) /\ Held(Append(t, l))
  <2>1. Held(t)
    BY <1>3, <1>4, <1>8 DEF FatInv, Held
  <2>2. \A j \in DOMAIN t : t[j].lba # s
    BY <1>7, <1>8
  <2>3. Held(Append(t, l))
    BY <1>4, <1>5, <1>6, <2>1, <2>2, CacheAssumption DEF Held
  <2> QED BY <2>1, <2>3
<1>11. ASSUME "sync" \notin m.faults
       PROVE  /\ Reads(m.disk.fat, t, m.told) /\ Saved(m.disk.fat, t)
              /\ Reads(m.disk.fat, Append(t, l), m.told) /\ Saved(m.disk.fat, Append(t, l))
  <2>1. Reads(m.disk.fat, q, m.told) /\ Saved(m.disk.fat, q)
    BY <1>11 DEF FatInv
  <2>2. Saved(m.disk.fat, t)
    BY <1>8, <2>1 DEF Saved
  <2>3. Reads(m.disk.fat, t, m.told)
    <3>1. ASSUME NEW k \in Copies, NEW c \in Clusters
          PROVE  /\ \A i \in DOMAIN t :
                      t[i].lba = SectorOf(k, c) => t[i].val[c] = m.told[k][c]
                 /\ (\A i \in DOMAIN t : t[i].lba # SectorOf(k, c))
                      => m.disk.fat[SectorOf(k, c)][c] = m.told[k][c]
      <4>1. \A i \in DOMAIN t : t[i].lba = SectorOf(k, c) => t[i].val[c] = m.told[k][c]
        BY <1>8, <2>1 DEF Reads
      <4>2. ASSUME \A i \in DOMAIN t : t[i].lba # SectorOf(k, c)
            PROVE  m.disk.fat[SectorOf(k, c)][c] = m.told[k][c]
        <5>1. CASE \A i \in DOMAIN q : q[i].lba # SectorOf(k, c)
          BY <2>1, <5>1 DEF Reads
        <5>2. CASE \E i \in DOMAIN q : q[i].lba = SectorOf(k, c)
          <6>1. q[1].lba = SectorOf(k, c) /\ Len(q) = FatLines
            BY <1>8, <4>2, <5>2
          <6>2. 1 \in DOMAIN q /\ SectorOf(k, c) \in FatSectors
            BY <1>9, <6>1, SectorFacts
          <6>3. m.disk.fat[SectorOf(k, c)] = q[1].val
            BY <1>11, <6>1, <6>2 DEF VictimIsSaved
          <6>4. q[1].val[c] = m.told[k][c]
            BY <2>1, <6>1, <6>2 DEF Reads
          <6> QED BY <6>3, <6>4
        <5> QED BY <5>1, <5>2
      <4> QED BY <4>1, <4>2
    <3> QED BY <3>1 DEF Reads
  <2>4. Saved(m.disk.fat, Append(t, l))
    BY <1>4, <1>5, <1>6, <2>2 DEF Saved
  <2>5. Reads(m.disk.fat, Append(t, l), m.told)
    <3>1. ASSUME NEW k \in Copies, NEW c \in Clusters
          PROVE  /\ \A i \in DOMAIN Append(t, l) :
                      Append(t, l)[i].lba = SectorOf(k, c) => Append(t, l)[i].val[c] = m.told[k][c]
                 /\ (\A i \in DOMAIN Append(t, l) : Append(t, l)[i].lba # SectorOf(k, c))
                      => m.disk.fat[SectorOf(k, c)][c] = m.told[k][c]
      <4>1. s = SectorOf(k, c) => l.val[c] = m.told[k][c]
        BY <1>5, <1>7, <2>1 DEF Reads
      <4> QED BY <1>4, <1>5, <1>6, <2>3, <4>1 DEF Reads
    <3> QED BY <3>1 DEF Reads
  <2> QED BY <2>2, <2>3, <2>4, <2>5
<1>11a. Aged(q, t) /\ Aged(q, Append(t, l))
  <2>1. ASSUME NEW x \in FatSectors, NEW d \in 1..(FatLines - 1), NEW k \in DOMAIN q,
               q[k].lba = x, k + d > Len(q)
        PROVE  Near(t, x, d + 1) /\ Near(Append(t, l), x, d + 1)
    <3>1. d \in Nat /\ d < FatLines /\ k \in 1..Len(q) /\ Len(q) \in Nat
      BY <1>3, CacheAssumption
    <3>2. PICK j \in DOMAIN t : t[j] = q[k] /\ j + (d + 1) > Len(t) + 1
      <4>1. CASE Len(q) # FatLines
        BY <1>4, <2>1, <3>1, <4>1
      <4>2. CASE Len(q) = FatLines
        <5>1. k > 1
          BY <2>1, <3>1, <4>2, CacheAssumption
        <5>2. t[k - 1] = q[k] /\ k - 1 \in DOMAIN t /\ (k - 1) + (d + 1) > Len(t) + 1
          BY <1>4, <2>1, <3>1, <4>2, <5>1
        <5> QED BY <5>2
      <4> QED BY <4>1, <4>2
    <3>3. j \in 1..Len(t) /\ Len(t) \in Nat
      BY <1>4
    <3>4. /\ t[j].lba = x /\ j + (d + 1) > Len(t)
          /\ Append(t, l)[j].lba = x /\ j + (d + 1) > Len(Append(t, l)) /\ j \in DOMAIN Append(t, l)
      BY <1>6, <2>1, <3>1, <3>2, <3>3
    <3> QED BY <3>4 DEF Near
  <2> QED BY <2>1 DEF Aged, Near
<1>12. CASE Fails(m)
  <2>1. PICK d : d = [b EXCEPT !.fcache = t]
    OBVIOUS
  <2>2. d \in Machines /\ d.fcache = t
    BY <1>1, <1>4, <2>1 DEF Machines
  <2>3. r = Failed(d) /\ r \in Machines
    BY <1>2, <1>12, <2>1, <2>2 DEF Failed, Machines
  <2>4. /\ r.fcache = t /\ r.disk = m.disk /\ r.told = m.told /\ r.faults = m.faults
        /\ r.out = m.out /\ ~r.ok /\ r.ccache = m.ccache /\ r.latest = m.latest /\ r.got = m.got
    BY <1>1, <2>1, <2>2, <2>3 DEF Failed, Machines
  <2> QED BY <1>10, <1>11, <1>11a, <2>3, <2>4 DEF FatInv, Beside, r
<1>13. CASE ~Fails(m)
  <2>1. r = [b EXCEPT !.fcache = Append(t, l)]
    BY <1>2, <1>13
  <2>2. r \in Machines /\ r.fcache = Append(t, l)
    BY <1>1, <1>6, <2>1 DEF Machines
  <2>4. /\ r.disk = m.disk /\ r.told = m.told /\ r.faults = m.faults
        /\ r.out = m.out /\ r.ccache = m.ccache /\ r.latest = m.latest /\ r.got = m.got
    BY <1>1, <2>1 DEF Machines
  <2>5. Len(r.fcache) > 0 /\ r.fcache[Len(r.fcache)].lba = s
    BY <1>4, <1>5, <1>6, <2>2
  <2> QED BY <1>10, <1>11, <1>11a, <2>2, <2>4, <2>5 DEF FatInv, Beside, r
<1> QED BY <1>12, <1>13

(***************************************************************************)
(* A sector that is fetched: the FAT reads as before, and the sector is in *)
(* the youngest line.                                                      *)
(***************************************************************************)
Fetch(m, s, r) ==
  /\ Beside(m, r) /\ FatInv(r)
  /\ r.told = m.told /\ r.faults = m.faults /\ r.out = m.out
  /\ r.ok => Len(r.fcache) > 0 /\ r.fcache[Len(r.fcache)].lba = s
  /\ Aged(m.fcache, r.fcache)
  /\ Cached(m, s) => r.ok /\ \A x \in FatSectors : Cached(m, x) => Cached(r, x)

(* fat32_get_sector: hit or miss, flushed or not, loaded or not.           *)
LEMMA FatGetSectorLemma ==
    ASSUME NEW m \in Machines, FatInv(m), m.ok, NEW s \in FatSectors
    PROVE  Fetch(m, s, FatGetSector(m, s))
<1>1. CASE Cached(m, s)
  BY <1>1, TouchSectorLemma DEF FatGetSector, Fetch
<1>2. CASE ~Cached(m, s)
  <2> DEFINE q == m.fcache
             dirty == Len(q) = FatLines /\ q[1].dirty
             a == IF dirty THEN StoreSector(m, q[1]) ELSE m
  <2>1. q \in Seq(Lines) /\ Len(q) \in Nat
    BY DEF Machines
  <2>3. FatGetSector(m, s) = IF a.ok THEN LoadSector(a, s) ELSE a
    BY <1>2 DEF FatGetSector, Then
  <2>4. CASE ~dirty
    <3>1. VictimIsSaved(m)
      <4>1. ASSUME Len(q) = FatLines, q[1].lba \in FatSectors, "sync" \notin m.faults
            PROVE  m.disk.fat[q[1].lba] = q[1].val
        <5>1. ~q[1].dirty /\ 1 \in DOMAIN q
          BY <2>1, <2>4, <4>1, CacheAssumption
        <5> QED BY <4>1, <5>1 DEF FatInv, Saved
      <4> QED BY <4>1 DEF VictimIsSaved
    <3>2. a = m
      BY <2>4
    <3> QED BY <1>2, <2>3, <3>1, <3>2, LoadSectorLemma DEF Fetch
  <2>5. CASE dirty
    <3>1. Len(q) = FatLines /\ q[1].dirty /\ 1 \in DOMAIN q
      BY <2>1, <2>5, CacheAssumption
    <3>2. q[1] \in Lines /\ q[1].lba \in FatSectors /\ q[1].val \in [In(q[1].lba) -> Links]
      BY <2>1, <3>1 DEF FatInv, Held
    <3>3. a = StoreSector(m, q[1])
      BY <2>5
    <3> HIDE DEF a
    <3>4. /\ a \in Machines
          /\ a.fcache = m.fcache /\ a.ccache = m.ccache /\ a.latest = m.latest
          /\ a.told = m.told /\ a.faults = m.faults /\ a.out = m.out /\ a.got = m.got
          /\ a.disk.data = m.disk.data
          /\ a.disk.fat = IF a.ok THEN [m.disk.fat EXCEPT ![q[1].lba] = q[1].val] ELSE m.disk.fat
      BY <3>2, <3>3, StoreSectorLemma
    <3>5. m.disk.fat \in Fats
      BY DEF Machines, Disks
    <3>6. FatInv(a)
      <4>1. CASE ~a.ok
        BY <3>4, <4>1 DEF FatInv
      <4>2. CASE a.ok
        <5> DEFINE g == [m.disk.fat EXCEPT ![q[1].lba] = q[1].val]
        <5>1. g[q[1].lba] = q[1].val /\ \A x \in FatSectors : x # q[1].lba => g[x] = m.disk.fat[x]
          BY <3>2, <3>5 DEF Fats
        <5> HIDE DEF g
        <5>2. Reads(m.disk.fat, q, m.told) => Reads(g, q, m.told)
          BY <3>1, <5>1, SectorFacts DEF Reads
        <5>3. Saved(m.disk.fat, q) => Saved(g, q)
          BY <3>1, <5>1 DEF Saved, FatInv, Held
        <5> QED BY <3>4, <4>2, <5>2, <5>3 DEF FatInv, g
      <4> QED BY <4>1, <4>2
    <3>7. CASE ~a.ok
      <4>1. Aged(q, q)
        <5>1. ASSUME NEW x \in FatSectors, NEW d \in 1..(FatLines - 1), NEW k \in DOMAIN q,
                     q[k].lba = x, k + d > Len(q)
              PROVE  k + (d + 1) > Len(q)
          BY <2>1, <5>1, CacheAssumption
        <5> QED BY <5>1 DEF Aged, Near
      <4> QED BY <1>2, <2>3, <3>4, <3>6, <3>7, <4>1 DEF Fetch, Beside
    <3>8. CASE a.ok
      <4>1. VictimIsSaved(a)
        BY <3>2, <3>4, <3>5, <3>8 DEF VictimIsSaved, Fats
      <4>2. ~Cached(a, s)
        BY <1>2, <3>4 DEF Cached
      <4>3. Fetch(a, s, LoadSector(a, s))
        BY <3>4, <3>6, <3>8, <4>1, <4>2, LoadSectorLemma DEF Fetch
      <4> QED BY <1>2, <2>3, <3>4, <3>8, <4>3 DEF Fetch, Beside
    <3> QED BY <3>7, <3>8
  <2> QED BY <2>4, <2>5
<1> QED BY <1>1, <1>2

(***************************************************************************)
(* An entry that is set in one copy.                                       *)
(***************************************************************************)
CopySet(m, k, c, v, r) ==
  /\ Beside(m, r) /\ FatInv(r)
  /\ r.faults = m.faults /\ r.out = m.out
  /\ r.told = IF r.ok THEN [m.told EXCEPT ![k] = [m.told[k] EXCEPT ![c] = v]] ELSE m.told
  /\ r.ok => Near(r.fcache, SectorOf(k, c), 1)
  /\ Aged(m.fcache, r.fcache)
  /\ Cached(m, SectorOf(k, c))
       => r.ok /\ \A x \in FatSectors : Cached(m, x) => Cached(r, x)

(* One copy of the FAT takes a new entry, or the cache could not give its  *)
(* sector.                                                                 *)
LEMMA SetCopyLemma ==
    ASSUME NEW m \in Machines, FatInv(m), m.ok,
           NEW k \in Copies, NEW c \in Clusters, NEW v \in Links
    PROVE  CopySet(m, k, c, v, SetCopy(m, k, c, v))
<1> DEFINE s == SectorOf(k, c)
           x == FatGetSector(m, s)
<1>1. s \in FatSectors /\ c \in In(s)
  BY SectorFacts
<1>2. Fetch(m, s, x)
  BY <1>1, FatGetSectorLemma
<1>3. CASE ~x.ok
  <2>1. SetCopy(m, k, c, v) = x
    BY <1>3 DEF SetCopy, Then
  <2> QED BY <1>2, <1>3, <2>1 DEF Fetch, CopySet
<1>4. CASE x.ok
  <2> DEFINE q == x.fcache
             n == Len(q)
             line == [q[n] EXCEPT !.val = Upd(@, c, v), !.dirty = TRUE]
             t == [q EXCEPT ![n] = line]
             set == [m.told EXCEPT ![k] = [m.told[k] EXCEPT ![c] = v]]
             r == SetCopy(m, k, c, v)
  <2>1. x \in Machines /\ q \in Seq(Lines) /\ n \in Nat /\ n > 0 /\ q[n].lba = s /\ n \in DOMAIN q
        /\ q[n] \in Lines /\ Held(q) /\ x.told = m.told
    BY <1>2, <1>4 DEF Fetch, Beside, Machines, FatInv
  <2>2. q[n].val \in [In(s) -> Links]
    BY <1>1, <2>1 DEF Held
  <2> HIDE DEF x
  <2>3. r = [x EXCEPT !.fcache = t, !.told = set]
    <3>1. r = [x EXCEPT !.fcache = Upd(@, Len(@), Entered(Last(@), c, v, TRUE)),
                        !.told = Upd(@, k, Upd(@[k], c, v))]
      BY <1>4 DEF SetCopy, Then, x
    <3>2. set = Upd(x.told, k, Upd(x.told[k], c, v))
      BY <2>1 DEF Upd
    <3>3. t = Upd(x.fcache, Len(x.fcache), Entered(Last(x.fcache), c, v, TRUE))
      BY DEF Upd, Entered, Last
    <3>4. x.told = [x EXCEPT !.fcache = t].told
      BY <2>1 DEF Machines
    <3> QED BY <3>1, <3>2, <3>3, <3>4
  <2>4. PICK line1 : line1 = [q[n] EXCEPT !.val = Upd(@, c, v)]
    OBVIOUS
  <2>5. Upd(q[n].val, c, v) \in [In(s) -> Links] /\ Upd(q[n].val, c, v) \in Vals
    BY <1>1, <2>2 DEF Upd, Vals
  <2>6. line1 \in Lines /\ line1.val = Upd(q[n].val, c, v) /\ line1.lba = s
    BY <2>1, <2>4, <2>5 DEF Lines
  <2>7. line = [line1 EXCEPT !.dirty = TRUE]
    BY <2>1, <2>4 DEF Lines
  <2> HIDE DEF line
  <2>8. line \in Lines /\ line.lba = s /\ line.val = Upd(q[n].val, c, v) /\ line.dirty
    BY <2>6, <2>7 DEF Lines
  <2>9. /\ t \in Seq(Lines) /\ Len(t) = n /\ t[n] = line
        /\ \A i \in DOMAIN q : i # n => t[i] = q[i]
        /\ DOMAIN t = DOMAIN q
    BY <2>1, <2>8
  <2> HIDE DEF t, r, set, n, s
  <2>10. set \in [Copies -> [Clusters -> Links]]
         /\ \A k2 \in Copies, c2 \in Clusters :
              set[k2][c2] = IF k2 = k /\ c2 = c THEN v ELSE m.told[k2][c2]
    BY DEF set, Machines
  <2>11. PICK d : d = [x EXCEPT !.fcache = t]
    OBVIOUS
  <2>12. d \in Machines
    BY <2>1, <2>9, <2>11 DEF Machines
  <2>13. r = [d EXCEPT !.told = set]
    BY <2>1, <2>3, <2>11 DEF Machines
  <2>14. r \in Machines
    BY <2>10, <2>12, <2>13 DEF Machines
  <2>15. /\ r.fcache = t /\ r.told = set /\ r.faults = x.faults /\ r.out = x.out /\ r.ok
         /\ r.disk = x.disk /\ r.ccache = x.ccache /\ r.latest = x.latest /\ r.got = x.got
    BY <1>4, <2>1, <2>3 DEF Machines
  <2>16. Held(t)
    BY <1>1, <2>1, <2>5, <2>8, <2>9 DEF Held
  <2>17. ASSUME "sync" \notin x.faults
         PROVE  Reads(x.disk.fat, t, set) /\ Saved(x.disk.fat, t)
    <3>1. Reads(x.disk.fat, q, m.told) /\ Saved(x.disk.fat, q)
      BY <1>2, <2>17 DEF Fetch, FatInv
    <3>2. Saved(x.disk.fat, t)
      BY <2>8, <2>9, <3>1 DEF Saved
    <3>3. ASSUME NEW k2 \in Copies, NEW c2 \in Clusters
          PROVE  /\ \A i \in DOMAIN t :
                      t[i].lba = SectorOf(k2, c2) => t[i].val[c2] = set[k2][c2]
                 /\ (\A i \in DOMAIN t : t[i].lba # SectorOf(k2, c2))
                      => x.disk.fat[SectorOf(k2, c2)][c2] = set[k2][c2]
      <4>1. c2 \in In(SectorOf(k2, c2))
        BY SectorFacts
      <4>2. SectorOf(k2, c2) = s => k2 = k
        BY DEF SectorOf, s
      <4>3. ASSUME NEW i \in DOMAIN t, t[i].lba = SectorOf(k2, c2)
            PROVE  t[i].val[c2] = set[k2][c2]
        <5>1. CASE i # n
          <6>1. t[i] = q[i] /\ q[i].lba = SectorOf(k2, c2) /\ q[i].lba # s
            BY <2>1, <2>9, <4>3, <5>1 DEF Held
          <6>2. t[i].val[c2] = m.told[k2][c2]
            BY <3>1, <6>1, <2>9 DEF Reads
          <6> QED BY <2>10, <6>1, <6>2 DEF s
        <5>2. CASE i = n
          <6>1. SectorOf(k2, c2) = s /\ k2 = k /\ t[i].val = Upd(q[n].val, c, v)
            BY <2>8, <2>9, <4>2, <4>3, <5>2
          <6>2. q[n].val[c2] = m.told[k][c2]
            BY <2>1, <3>1, <6>1 DEF Reads
          <6>3. Upd(q[n].val, c, v)[c2] = IF c2 = c THEN v ELSE q[n].val[c2]
            BY <1>1, <2>2, <4>1, <6>1 DEF Upd
          <6> QED BY <2>10, <6>1, <6>2, <6>3
        <5> QED BY <5>1, <5>2
      <4>4. ASSUME \A i \in DOMAIN t : t[i].lba # SectorOf(k2, c2)
            PROVE  x.disk.fat[SectorOf(k2, c2)][c2] = set[k2][c2]
        <5>1. SectorOf(k2, c2) # s
          BY <2>1, <2>8, <2>9, <4>4
        <5>2. \A i \in DOMAIN q : q[i].lba # SectorOf(k2, c2)
          BY <2>1, <2>9, <4>4, <5>1
        <5>3. x.disk.fat[SectorOf(k2, c2)][c2] = m.told[k2][c2]
          BY <3>1, <5>2 DEF Reads
        <5> QED BY <2>10, <5>1, <5>3 DEF s
      <4> QED BY <4>3, <4>4
    <3> QED BY <3>2, <3>3 DEF Reads
  <2>18. FatInv(r)
    BY <2>15, <2>16, <2>17 DEF FatInv
  <2>19. Near(t, s, 1)
    BY <2>1, <2>8, <2>9 DEF Near, n
  <2>20. \A y, e : Near(q, y, e) => Near(t, y, e)
    BY <2>1, <2>8, <2>9 DEF Near, n
  <2>21. \A y : Cached(x, y) => Cached(r, y)
    BY <2>1, <2>8, <2>9, <2>15 DEF Cached
  <2>22. Aged(m.fcache, t)
    BY <1>2, <2>20 DEF Fetch, Aged
  <2> QED BY <1>2, <2>14, <2>15, <2>18, <2>19, <2>21, <2>22 DEF Fetch, Beside, CopySet, r, set, s
<1> QED BY <1>3, <1>4

(***************************************************************************)
(* An entry that is set in both copies: all of it, nothing, or a mishap.   *)
(***************************************************************************)
Told(told_, c, v) == [k \in Copies |-> Upd(told_[k], c, v)]

EntrySet(m, c, v, r) ==
  /\ Beside(m, r) /\ FatInv(r) /\ r.out = m.out
  /\ \/ r.faults = m.faults /\ r.told = IF r.ok THEN Told(m.told, c, v) ELSE m.told
     \/ ~r.ok /\ r.faults = m.faults \cup {"midway"}
  /\ r.ok => Near(r.fcache, SectorOf(1, c), 2) /\ Near(r.fcache, SectorOf(2, c), 1)
  /\ \A s \in FatSectors, d \in 1..(FatLines - 2) :
       Near(m.fcache, s, d) => Near(r.fcache, s, d + 2)
  /\ Cached(m, SectorOf(1, c)) /\ Cached(m, SectorOf(2, c)) => r.ok

(* fat32_set_fat_entry: both copies take the entry, or a mishap is noted.  *)
LEMMA SetFatEntryLemma ==
    ASSUME NEW m \in Machines, FatInv(m), m.ok, NEW c \in Clusters, NEW v \in Links
    PROVE  EntrySet(m, c, v, SetFatEntry(m, c, v))
<1> DEFINE x == SetCopy(m, 1, c, v)
           y == SetCopy(x, 2, c, v)
           r == SetFatEntry(m, c, v)
<1>1. r = IF x.ok THEN Midway(y) ELSE x
  BY DEF SetFatEntry, Then
<1>2. CopySet(m, 1, c, v, x)
  BY SetCopyLemma DEF Copies
<1> HIDE DEF x, r
<1>3. \A s \in FatSectors, d \in 1..(FatLines - 2) :
        Near(x.fcache, s, d) => Near(x.fcache, s, d + 1)
  <2>1. ASSUME NEW d \in 1..(FatLines - 2), NEW i \in DOMAIN x.fcache, i + d > Len(x.fcache)
        PROVE  i + (d + 1) > Len(x.fcache)
    <3>1. i \in Nat /\ d \in Nat /\ Len(x.fcache) \in Nat
      BY <1>2, CacheAssumption DEF CopySet, Beside, Machines
    <3> QED BY <2>1, <3>1
  <2> QED BY <2>1 DEF Near
<1>4. \A d \in 1..(FatLines - 2) : d \in 1..(FatLines - 1) /\ d + 1 \in 1..(FatLines - 1) /\ (d + 1) + 1 = d + 2
  BY CacheAssumption
<1>5. CASE ~x.ok
  <2>1. ASSUME NEW s \in FatSectors, NEW d \in 1..(FatLines - 2), Near(m.fcache, s, d)
        PROVE  Near(x.fcache, s, d + 2)
    <3>1. Near(x.fcache, s, d + 1)
      BY <1>2, <1>4, <2>1 DEF CopySet, Aged
    <3>2. ASSUME NEW i \in DOMAIN x.fcache, i + (d + 1) > Len(x.fcache)
          PROVE  i + (d + 2) > Len(x.fcache)
      <4>1. i \in Nat /\ d \in Nat /\ Len(x.fcache) \in Nat
        BY <1>2, CacheAssumption DEF CopySet, Beside, Machines
      <4> QED BY <3>2, <4>1
    <3> QED BY <3>1, <3>2 DEF Near
  <2> QED BY <1>1, <1>2, <1>5, <2>1 DEF CopySet, EntrySet, r
<1>6. CASE x.ok
  <2>1. x \in Machines /\ FatInv(x)
    BY <1>2 DEF CopySet, Beside
  <2>2. CopySet(x, 2, c, v, y)
    BY <1>6, <2>1, SetCopyLemma DEF Copies
  <2>3. r = Midway(y)
    BY <1>1, <1>6
  <2> HIDE DEF y
  <2>4. ASSUME NEW s \in FatSectors, NEW d \in 1..(FatLines - 2), Near(m.fcache, s, d)
        PROVE  Near(y.fcache, s, d + 2)
    BY <1>2, <1>4, <2>2, <2>4 DEF CopySet, Aged
  <2>5. Near(y.fcache, SectorOf(1, c), 2)
    <3>1. Near(x.fcache, SectorOf(1, c), 1) /\ SectorOf(1, c) \in FatSectors
      BY <1>2, <1>6, SectorFacts DEF CopySet, Copies
    <3>2. 1 \in 1..(FatLines - 1) /\ 1 + 1 = 2
      BY CacheAssumption
    <3> QED BY <2>2, <3>1, <3>2 DEF CopySet, Aged
  <2>6. y.ok => y.told = Told(m.told, c, v)
    <3>1. ASSUME y.ok
          PROVE  y.told = Told(m.told, c, v)
      <4>1. y.told = [x.told EXCEPT ![2] = [x.told[2] EXCEPT ![c] = v]]
        BY <2>2, <3>1 DEF CopySet
      <4>2. x.told = [m.told EXCEPT ![1] = [m.told[1] EXCEPT ![c] = v]]
        BY <1>2, <1>6 DEF CopySet
      <4>3. m.told \in [Copies -> [Clusters -> Links]]
        BY DEF Machines
      <4> QED BY <4>1, <4>2, <4>3 DEF Told, Copies, Upd
    <3> QED BY <3>1
  <2>7. Cached(m, SectorOf(1, c)) /\ Cached(m, SectorOf(2, c)) => y.ok
    BY <1>2, <2>2, SectorFacts DEF CopySet, Copies
  <2>8. CASE y.ok
    <3>1. r = y
      BY <2>3, <2>8 DEF Midway
    <3> QED BY <1>2, <2>2, <2>4, <2>5, <2>6, <2>8, <3>1 DEF CopySet, EntrySet, Beside, r
  <2>9. CASE ~y.ok
    <3>1. r = [y EXCEPT !.faults = @ \cup {"midway"}]
      BY <2>3, <2>9 DEF Midway, Hurt
    <3>2. y \in Machines
      BY <2>2 DEF CopySet, Beside
    <3>3. r \in Machines
      BY <3>1, <3>2 DEF Machines, Mishaps
    <3>4. /\ r.faults = y.faults \cup {"midway"} /\ r.fcache = y.fcache /\ r.disk = y.disk
          /\ r.told = y.told /\ r.out = y.out /\ ~r.ok /\ r.ccache = y.ccache
          /\ r.latest = y.latest /\ r.got = y.got
      BY <2>9, <3>1, <3>2 DEF Machines
    <3>5. FatInv(r)
      BY <2>2, <3>4 DEF CopySet, FatInv
    <3>6. Beside(m, r)
      BY <1>2, <2>2, <3>3, <3>4 DEF CopySet, Beside
    <3>7. r.faults = m.faults \cup {"midway"}
      BY <1>2, <2>2, <3>4 DEF CopySet
    <3> QED BY <1>2, <2>2, <2>4, <2>7, <2>9, <3>4, <3>5, <3>6, <3>7 DEF CopySet, EntrySet, r
  <2> QED BY <2>8, <2>9
<1> QED BY <1>5, <1>6 DEF r

(***************************************************************************)
(* The entry that is read is the one that was told, unless a sync failed.  *)
(***************************************************************************)
LEMMA FetchedLemma ==
    ASSUME NEW m \in Machines, NEW c \in Clusters, NEW x, Fetch(m, SectorOf(1, c), x), x.ok
    PROVE  /\ Fetched(x, c) \in Links
           /\ "sync" \notin m.faults => Fetched(x, c) = m.told[1][c]
<1> DEFINE q == x.fcache
           n == Len(q)
<1>1. n \in DOMAIN q /\ q[n].lba = SectorOf(1, c) /\ x.told = m.told /\ x.faults = m.faults
  BY DEF Fetch, Beside, Machines
<1>2. SectorOf(1, c) \in FatSectors /\ c \in In(SectorOf(1, c))
  BY SectorFacts DEF Copies
<1>3. Fetched(x, c) = q[n].val[c]
  BY DEF Fetched, Last
<1>4. q[n].val \in [In(SectorOf(1, c)) -> Links]
  BY <1>1, <1>2 DEF Fetch, FatInv, Held
<1>5. "sync" \notin m.faults => q[n].val[c] = m.told[1][c]
  BY <1>1 DEF Fetch, FatInv, Reads, Copies
<1> QED BY <1>2, <1>3, <1>4, <1>5

(***************************************************************************)
(* The next cluster of a chain.                                            *)
(***************************************************************************)
FatOnly(m, r) ==
  Beside(m, r) /\ FatInv(r) /\ r.told = m.told /\ r.faults = m.faults

(* fat32_get_next_cluster gives what the FAT was told.                     *)
LEMMA GetNextLemma ==
    ASSUME NEW m \in Machines, FatInv(m), m.ok, NEW c \in Clusters
    PROVE  LET r == GetNext(m, c) IN
           /\ FatOnly(m, r)
           /\ r.ok /\ "sync" \notin m.faults =>
                \/ r.out = 0 /\ m.told[1][c] = Eoc
                \/ r.out \in Clusters /\ m.told[1][c] = r.out
<1> DEFINE x == FatGetSector(m, SectorOf(1, c))
           r == GetNext(m, c)
<1>1. Fetch(m, SectorOf(1, c), x)
  BY FatGetSectorLemma, SectorFacts DEF Copies
<1>2. r = IF ~x.ok THEN x
          ELSE IF Fetched(x, c) = Eoc THEN [x EXCEPT !.out = 0]
          ELSE IF Fetched(x, c) \in Clusters THEN [x EXCEPT !.out = Fetched(x, c)]
          ELSE Failed(x)
  BY DEF GetNext, Then
<1> HIDE DEF x, r
<1>3. x \in Machines
  BY <1>1 DEF Fetch, Beside
<1>4. x.ok => /\ Fetched(x, c) \in Links
              /\ "sync" \notin m.faults => Fetched(x, c) = m.told[1][c]
  BY <1>1, FetchedLemma
<1>5. FatOnly(m, x)
  BY <1>1 DEF Fetch, FatOnly
<1>6. \A v \in {0} \cup Clusters :
        /\ FatOnly(m, [x EXCEPT !.out = v])
        /\ [x EXCEPT !.out = v].out = v
  <2> TAKE v \in {0} \cup Clusters
  <2>1. PICK e : e = [x EXCEPT !.out = v]
    OBVIOUS
  <2>2. e \in Machines /\ e.out = v /\ e.fcache = x.fcache /\ e.disk = x.disk /\ e.told = x.told
        /\ e.faults = x.faults /\ e.ccache = x.ccache /\ e.latest = x.latest /\ e.got = x.got
    BY <1>3, <2>1 DEF Machines
  <2>3. FatOnly(m, e)
    BY <1>5, <2>2 DEF FatOnly, Beside, FatInv
  <2> QED BY <2>1, <2>2, <2>3
<1>7. FatOnly(m, Failed(x)) /\ ~Failed(x).ok
  <2>1. PICK e : e = Failed(x)
    OBVIOUS
  <2>2. e \in Machines /\ ~e.ok /\ e.fcache = x.fcache /\ e.disk = x.disk /\ e.told = x.told
        /\ e.faults = x.faults /\ e.ccache = x.ccache /\ e.latest = x.latest /\ e.got = x.got
    BY <1>3, <2>1 DEF Machines, Failed
  <2>3. FatOnly(m, e)
    BY <1>5, <2>2 DEF FatOnly, Beside, FatInv
  <2> QED BY <2>1, <2>2, <2>3
<1>8. CASE ~x.ok
  BY <1>2, <1>5, <1>8 DEF r
<1>9. CASE x.ok /\ Fetched(x, c) = Eoc
  BY <1>2, <1>4, <1>6, <1>9 DEF r
<1>10. CASE x.ok /\ Fetched(x, c) # Eoc /\ Fetched(x, c) \in Clusters
  BY <1>2, <1>4, <1>6, <1>10 DEF r
<1>11. CASE x.ok /\ Fetched(x, c) # Eoc /\ Fetched(x, c) \notin Clusters
  BY <1>2, <1>7, <1>11 DEF r
<1> QED BY <1>8, <1>9, <1>10, <1>11

(***************************************************************************)
(* A free cluster that was found is one that the FAT was told is free.     *)
(***************************************************************************)
Found(m, r) ==
  /\ FatOnly(m, r)
  /\ r.ok /\ "sync" \notin m.faults /\ r.out # 0 => m.told[1][r.out] = 0

(* fat32_find_free_cluster gives a cluster that is free in the FAT as      *)
(* told.                                                                   *)
LEMMA FindFreeClusterLemma ==
    ASSUME NEW m \in Machines, FatInv(m), m.ok
    PROVE  LET r == FindFreeCluster(m) IN
           Found(m, r) /\ (r.ok => r.out \in Clusters)
<1> DEFINE Try(x, c) ==
              IF x.out # 0 THEN x
              ELSE Then(FatGetSector(x, SectorOf(1, c)), LAMBDA y :
                      IF Fetched(y, c) = 0 THEN [y EXCEPT !.out = c] ELSE y)
           base == [m EXCEPT !.out = 0]
           n == Entries - 2
           S == {x \in Machines : Found(m, x)}
           Step(x, i) == IF x.ok THEN Try(x, i + 1) ELSE x
<1>1. n \in Nat /\ \A i \in 1..n : i + 1 \in Clusters
  BY CacheAssumption DEF Clusters
<1>2. base \in S
  <2>1. base \in Machines /\ base.fcache = m.fcache /\ base.disk = m.disk /\ base.told = m.told
        /\ base.faults = m.faults /\ base.ccache = m.ccache /\ base.latest = m.latest
        /\ base.got = m.got /\ base.out = 0
    BY DEF Machines
  <2> QED BY <2>1 DEF Found, FatOnly, Beside, FatInv
<1>3. ASSUME NEW x \in S, NEW c \in Clusters, x.ok
      PROVE  Try(x, c) \in S
  <2> DEFINE y == FatGetSector(x, SectorOf(1, c))
  <2>1. x \in Machines /\ FatInv(x) /\ x.told = m.told /\ x.faults = m.faults
    BY DEF Found, FatOnly
  <2>2. Fetch(x, SectorOf(1, c), y)
    BY <1>3, <2>1, FatGetSectorLemma, SectorFacts DEF Copies
  <2>3. Try(x, c) = IF x.out # 0 THEN x
                    ELSE IF y.ok /\ Fetched(y, c) = 0 THEN [y EXCEPT !.out = c] ELSE y
    BY DEF Then
  <2> HIDE DEF y, Try
  <2>4. y \in Machines
    BY <2>2 DEF Fetch, Beside
  <2>5. y.ok => ("sync" \notin m.faults => Fetched(y, c) = m.told[1][c])
    BY <2>1, <2>2, FetchedLemma
  <2>6. FatOnly(m, y)
    BY <2>1, <2>2 DEF Fetch, FatOnly, Found, Beside
  <2>7. CASE x.out # 0
    BY <2>3, <2>7
  <2>8. CASE x.out = 0 /\ ~(y.ok /\ Fetched(y, c) = 0)
    <3>1. y.out = 0
      BY <2>2, <2>8 DEF Fetch
    <3> QED BY <2>3, <2>4, <2>6, <2>8, <3>1 DEF Found
  <2>9. CASE x.out = 0 /\ y.ok /\ Fetched(y, c) = 0
    <3>1. PICK e : e = [y EXCEPT !.out = c]
      OBVIOUS
    <3>2. e \in Machines /\ e.out = c /\ e.fcache = y.fcache /\ e.disk = y.disk /\ e.told = y.told
          /\ e.faults = y.faults /\ e.ccache = y.ccache /\ e.latest = y.latest /\ e.got = y.got
      BY <2>4, <3>1 DEF Machines
    <3>3. FatOnly(m, e)
      BY <2>6, <3>2 DEF FatOnly, Beside, FatInv
    <3>4. e \in S
      BY <2>5, <2>9, <3>2, <3>3 DEF Found
    <3> QED BY <2>3, <2>9, <3>1, <3>4
  <2> QED BY <2>7, <2>8, <2>9
<1>4. \A x \in S, i \in 1..n : Step(x, i) \in S
  BY <1>1, <1>3
<1> DEFINE done == CHOOSE g : g = [i \in 0..n |-> IF i = 0 THEN base ELSE Step(g[i - 1], i)]
<1>5. FindFreeCluster(m) = IF done[n].ok
                           THEN IF done[n].out = 0 THEN Failed(done[n]) ELSE done[n]
                           ELSE done[n]
  BY DEF FindFreeCluster, Repeat, Then
<1> HIDE DEF S, base, Step, Try, n
<1>6. done[n] \in S
  <2> DEFINE next_ == [i \in 1..n |-> [x \in S |-> Step(x, i)]]
  <2>1. next_ \in [1..n -> [S -> S]]
    BY <1>4
  <2>2. PICK f : StepsFrom(f, base, n, S, next_)
    <3> HIDE DEF next_
    <3> QED BY <1>1, <1>2, <2>1, RecursionExists
  <2>3. f = [i \in 0..n |-> IF i = 0 THEN base ELSE Step(f[i - 1], i)]
    <3>1. f \in [0..n -> S] /\ f[0] = base /\ \A i \in 1..n : f[i] = Step(f[i - 1], i)
      <4>1. \A i \in 1..n : f[i - 1] \in S
        BY <1>1, <2>2 DEF StepsFrom
      <4> QED BY <2>2, <4>1 DEF StepsFrom
    <3>2. \A i \in 0..n : f[i] = IF i = 0 THEN base ELSE Step(f[i - 1], i)
      BY <1>1, <3>1
    <3> QED BY <3>1, <3>2
  <2>4. done = [i \in 0..n |-> IF i = 0 THEN base ELSE Step(done[i - 1], i)]
    BY <2>3
  <2> HIDE DEF done
  <2> DEFINE Good == {i \in 0..n : done[i] \in S}
  <2>5. 0 \in Good
    BY <1>1, <1>2, <2>4
  <2>6. ASSUME NEW k \in 0..(n - 1), k \in Good
        PROVE  k + 1 \in Good
    <3>1. k + 1 \in 1..n /\ k + 1 \in 0..n /\ (k + 1) - 1 = k /\ k + 1 # 0
      BY <1>1
    <3>2. done[k + 1] = Step(done[k], k + 1)
      BY <2>4, <3>1
    <3> QED BY <1>4, <2>6, <3>1, <3>2
  <2>7. \A k \in 0..n : k \in Good
    <3> HIDE DEF Good
    <3> QED BY <1>1, <2>5, <2>6, IntervalInduction
  <2> QED BY <1>1, <2>7
<1> HIDE DEF done
<1>7. done[n] \in Machines /\ Found(m, done[n])
  BY <1>6 DEF S
<1>8. CASE done[n].ok /\ done[n].out = 0
  <2>1. PICK e : e = Failed(done[n])
    OBVIOUS
  <2>2. e \in Machines /\ ~e.ok /\ e.fcache = done[n].fcache /\ e.disk = done[n].disk
        /\ e.told = done[n].told /\ e.faults = done[n].faults /\ e.ccache = done[n].ccache
        /\ e.latest = done[n].latest /\ e.got = done[n].got
    BY <1>7, <2>1 DEF Machines, Failed
  <2>3. Found(m, e)
    BY <1>7, <2>2 DEF Found, FatOnly, Beside, FatInv
  <2> QED BY <1>5, <1>8, <2>1, <2>2, <2>3
<1>9. CASE ~(done[n].ok /\ done[n].out = 0)
  BY <1>5, <1>7, <1>9 DEF Machines
<1> QED BY <1>8, <1>9

(***************************************************************************)
(* The cache of clusters.  The functions on it leave the FAT alone.        *)
(***************************************************************************)
Apart(m, r) ==
  /\ r \in Machines
  /\ r.disk.fat = m.disk.fat /\ r.fcache = m.fcache /\ r.told = m.told
  /\ r.faults \ {"read", "write"} = m.faults \ {"read", "write"}
  /\ m.faults \subseteq r.faults

CacheHeld(cache) ==
  /\ Len(cache) <= ClusterLines
  /\ \A i, j \in DOMAIN cache : cache[i].cluster = cache[j].cluster => i = j

Kept(data, cache, latest_) ==
  /\ \A c \in Clusters : data[c] = latest_[c]
  /\ \A i \in DOMAIN cache : cache[i].val = latest_[cache[i].cluster]

Unhurt(m) == m.faults \cap {"read", "write"} = {}

DataInv(m) ==
  CacheHeld(m.ccache) /\ (Unhurt(m) => Kept(m.disk.data, m.ccache, m.latest))

(* What is left when a cluster is given something else.                    *)
Written(m, c, v, r) ==
  /\ Apart(m, r) /\ CacheHeld(r.ccache)
  /\ r.latest = m.latest /\ r.out = m.out /\ r.got = m.got
  /\ ~r.ok => "write" \in r.faults
  /\ Unhurt(r) => Kept(r.disk.data, r.ccache, [m.latest EXCEPT ![c] = v])
  /\ Len(r.ccache) = Len(m.ccache)
  /\ \A x \in Clusters : x # c /\ LineOf(m, x) = {} => LineOf(r, x) = {}

Refreshed(m, c, v, r) ==
  /\ Apart(m, r) /\ CacheHeld(r.ccache) /\ r.faults = m.faults
  /\ r.latest = m.latest /\ r.out = m.out /\ r.got = m.got /\ r.ok = m.ok
  /\ r.disk = m.disk
  /\ Len(r.ccache) = Len(m.ccache)
  /\ \A i \in DOMAIN r.ccache :
       IF r.ccache[i].cluster = c THEN r.ccache[i].val = v
       ELSE \E j \in DOMAIN m.ccache : r.ccache[i] = m.ccache[j]
  /\ LineOf(m, c) # {} =>
       Len(r.ccache) \in DOMAIN r.ccache /\ r.ccache[Len(r.ccache)].cluster = c

(* The line of a cluster is replaced, no other line changes.               *)
LEMMA RefreshLemma ==
    ASSUME NEW m \in Machines, CacheHeld(m.ccache), NEW c \in Clusters, NEW v \in Contents,
           NEW dirty \in BOOLEAN
    PROVE  Refreshed(m, c, v, Refresh(m, c, v, dirty))
<1> DEFINE q == m.ccache
           r == Refresh(m, c, v, dirty)
<1>1. q \in Seq(Blocks) /\ CacheHeld(q)
  BY DEF Machines, DataInv
<1>2. CASE LineOf(m, c) = {}
  <2>1. r = m
    BY <1>2 DEF Refresh
  <2> QED BY <1>1, <1>2, <2>1 DEF LineOf, Apart, Refreshed
<1>3. CASE LineOf(m, c) # {}
  <2> DEFINE i == CHOOSE j \in LineOf(m, c) : TRUE
             e == [cluster |-> c, val |-> v, dirty |-> dirty]
             t == Append(RemoveAt(q, i), e)
  <2>1. i \in DOMAIN q /\ q[i].cluster = c /\ i \in 1..Len(q) /\ Len(q) \in Nat
    BY <1>1, <1>3 DEF LineOf
  <2>2. e \in Blocks /\ e.cluster = c /\ e.val = v
    BY DEF Blocks
  <2>3. r = [m EXCEPT !.ccache = t]
    BY <1>3 DEF Refresh
  <2> HIDE DEF i, e
  <2>4. /\ t \in Seq(Blocks) /\ Len(t) = Len(q)
        /\ \A j \in 1..Len(q) :
             t[j] = IF j < i THEN q[j] ELSE IF j < Len(q) THEN q[j + 1] ELSE e
    <3> HIDE DEF q
    <3>1. i \in DOMAIN q /\ q \in Seq(Blocks) /\ e \in Blocks
      BY <1>1, <2>1, <2>2
    <3> QED BY <3>1, RenewLemma
  <2> HIDE DEF t, r
  <2>5. r \in Machines /\ r.ccache = t /\ r.disk = m.disk /\ r.fcache = m.fcache /\ r.told = m.told
        /\ r.faults = m.faults /\ r.latest = m.latest /\ r.out = m.out /\ r.got = m.got /\ r.ok = m.ok
    BY <2>3, <2>4 DEF Machines
  <2>6. ASSUME NEW j \in DOMAIN t, j < Len(q)
        PROVE  \E k \in DOMAIN q : t[j] = q[k] /\ k # i /\ k = IF j < i THEN j ELSE j + 1
    BY <2>1, <2>4, <2>6
  <2>7. t[Len(q)] = e /\ Len(q) \in DOMAIN t
    BY <2>1, <2>4
  <2>8. \A j \in DOMAIN t : j < Len(q) => t[j].cluster # c
    BY <1>1, <2>1, <2>6 DEF CacheHeld
  <2>9. CacheHeld(t)
    <3>1. ASSUME NEW j \in DOMAIN t, NEW k \in DOMAIN t, t[j].cluster = t[k].cluster
          PROVE  j = k
      <4>1. j \in 1..Len(q) /\ k \in 1..Len(q) /\ Len(q) \in Nat /\ i \in 1..Len(q)
        BY <2>1, <2>4
      <4>2. CASE j < Len(q) /\ k < Len(q)
        <5>1. PICK j2 \in DOMAIN q : t[j] = q[j2] /\ j2 = IF j < i THEN j ELSE j + 1
          BY <2>6, <4>2
        <5>2. PICK k2 \in DOMAIN q : t[k] = q[k2] /\ k2 = IF k < i THEN k ELSE k + 1
          BY <2>6, <4>2
        <5>3. j2 = k2
          BY <1>1, <3>1, <5>1, <5>2 DEF CacheHeld
        <5> QED BY <4>1, <5>1, <5>2, <5>3
      <4>3. CASE j = Len(q) \/ k = Len(q)
        BY <2>2, <2>7, <2>8, <3>1, <4>1, <4>3
      <4> QED BY <4>1, <4>2, <4>3
    <3> QED BY <1>1, <2>4, <3>1 DEF CacheHeld
  <2>10. \A j \in DOMAIN t : IF t[j].cluster = c THEN t[j].val = v ELSE \E k \in DOMAIN q : t[j] = q[k]
    <3>1. ASSUME NEW j \in DOMAIN t
          PROVE  IF t[j].cluster = c THEN t[j].val = v ELSE \E k \in DOMAIN q : t[j] = q[k]
      <4>1. j \in 1..Len(q) /\ Len(q) \in Nat
        BY <2>1, <2>4
      <4>2. CASE j = Len(q)
        BY <2>2, <2>7, <4>2
      <4>3. CASE j < Len(q)
        BY <2>6, <2>8, <4>3
      <4> QED BY <4>1, <4>2, <4>3
    <3> QED BY <3>1
  <2> QED BY <2>2, <2>4, <2>5, <2>7, <2>9, <2>10 DEF Apart, r, Refreshed
<1> QED BY <1>2, <1>3

(* A cluster is written: if that fails, a mishap is noted.                 *)
LEMMA StoreClusterLemma ==
    ASSUME NEW m \in Machines, NEW c \in Clusters, NEW v \in Contents, m.ok
    PROVE  LET r == StoreCluster(m, c, v) IN
           /\ Apart(m, r) /\ r.ccache = m.ccache
           /\ r.latest = m.latest /\ r.out = m.out /\ r.got = m.got
           /\ ~r.ok => "write" \in r.faults
           /\ r.ok => r.disk.data = [m.disk.data EXCEPT ![c] = v] /\ r.faults = m.faults
<1> DEFINE b == [m EXCEPT !.n = @ + 1]
           r == StoreCluster(m, c, v)
           bad == IF m.partial THEN Upd(m.disk.data, c, "junk") ELSE m.disk.data
<1>1. /\ b \in Machines /\ b.disk = m.disk /\ b.partial = m.partial /\ b.fcache = m.fcache
      /\ b.told = m.told /\ b.faults = m.faults /\ b.ccache = m.ccache /\ b.latest = m.latest
      /\ b.out = m.out /\ b.got = m.got /\ b.ok
  BY Bumped DEF Machines
<1> HIDE DEF b
<1>2. r = IF Fails(m) THEN Failed(Hurt([b EXCEPT !.disk.data = IF b.partial THEN Upd(@, c, "junk") ELSE @], "write"))
          ELSE [b EXCEPT !.disk.data = Upd(@, c, v)]
  BY DEF StoreCluster, Transfer, b
<1> HIDE DEF r
<1>3. \A d \in [Clusters -> Contents] : \A g :
        g = [b EXCEPT !.disk.data = d]
          => /\ g \in Machines /\ g.disk.data = d /\ g.disk.fat = m.disk.fat
             /\ g.fcache = m.fcache
             /\ g.told = m.told /\ g.faults = m.faults /\ g.ccache = m.ccache
             /\ g.latest = m.latest /\ g.out = m.out /\ g.got = m.got /\ g.ok
  <2> TAKE d \in [Clusters -> Contents]
  <2> TAKE g
  <2> HAVE g = [b EXCEPT !.disk.data = d]
  <2>1. [b.disk EXCEPT !.data = d] \in Disks
    BY <1>1 DEF Machines, Disks
  <2> QED BY <1>1, <2>1 DEF Machines, Disks
<1>4. bad \in [Clusters -> Contents] /\ Upd(m.disk.data, c, v) \in [Clusters -> Contents]
  BY DEF Upd, Machines, Disks, Contents
<1> HIDE DEF bad
<1>5. CASE Fails(m)
  <2>1. PICK g : g = [b EXCEPT !.disk.data = bad]
    OBVIOUS
  <2>2. r = Failed(Hurt(g, "write"))
    BY <1>1, <1>2, <1>5, <2>1 DEF bad
  <2>3. /\ g \in Machines /\ g.disk.fat = m.disk.fat /\ g.fcache = m.fcache
        /\ g.told = m.told /\ g.faults = m.faults /\ g.ccache = m.ccache
        /\ g.latest = m.latest /\ g.out = m.out /\ g.got = m.got
    BY <1>3, <1>4, <2>1
  <2>4. PICK h : h = Hurt(g, "write")
    OBVIOUS
  <2>5. h \in Machines
    BY <2>3, <2>4 DEF Hurt, Machines, Mishaps
  <2>6. /\ h.disk.fat = m.disk.fat /\ h.fcache = m.fcache
        /\ h.told = m.told /\ h.faults = m.faults \cup {"write"} /\ h.ccache = m.ccache
        /\ h.latest = m.latest /\ h.out = m.out /\ h.got = m.got
    BY <2>3, <2>4 DEF Hurt, Machines
  <2>7. r \in Machines
    BY <2>2, <2>4, <2>5 DEF Failed, Machines
  <2>8. /\ r.disk.fat = m.disk.fat /\ r.fcache = m.fcache
        /\ r.told = m.told /\ r.faults = m.faults \cup {"write"} /\ r.ccache = m.ccache
        /\ r.latest = m.latest /\ r.out = m.out /\ r.got = m.got /\ ~r.ok
    BY <2>2, <2>4, <2>5, <2>6 DEF Failed, Machines
  <2> QED BY <2>7, <2>8 DEF Apart, r
<1>6. CASE ~Fails(m)
  <2>1. PICK g : g = [b EXCEPT !.disk.data = Upd(m.disk.data, c, v)]
    OBVIOUS
  <2>2. r = g
    BY <1>1, <1>2, <1>6, <2>1
  <2>3. /\ g \in Machines /\ g.disk.fat = m.disk.fat /\ g.fcache = m.fcache
        /\ g.told = m.told /\ g.faults = m.faults /\ g.ccache = m.ccache
        /\ g.latest = m.latest /\ g.out = m.out /\ g.got = m.got /\ g.ok
        /\ g.disk.data = Upd(m.disk.data, c, v)
    BY <1>3, <1>4, <2>1
  <2> QED BY <2>2, <2>3 DEF Apart, r, Upd
<1> QED BY <1>5, <1>6

(* fat32_write_cluster: cache and disk take the contents, or a mishap is   *)
(* noted.                                                                  *)
LEMMA WriteClusterLemma ==
    ASSUME NEW m \in Machines, DataInv(m), NEW c \in Clusters, NEW v \in Contents, m.ok
    PROVE  Written(m, c, v, WriteCluster(m, c, v))
<1> DEFINE no == FALSE
           x == Refresh(m, c, v, no)
           r == StoreCluster(x, c, v)
<1>1. WriteCluster(m, c, v) = r
  BY DEF WriteCluster
<1> HIDE DEF no
<1>1a. no \in BOOLEAN
  BY DEF no
<1>2. Refreshed(m, c, v, x)
  BY <1>1a, RefreshLemma DEF DataInv
<1> HIDE DEF x
<1>3. /\ Apart(x, r) /\ r.ccache = x.ccache
      /\ r.latest = x.latest /\ r.out = x.out /\ r.got = x.got
      /\ ~r.ok => "write" \in r.faults
      /\ r.ok => r.disk.data = [x.disk.data EXCEPT ![c] = v] /\ r.faults = x.faults
  BY <1>2, StoreClusterLemma DEF Apart, Refreshed
<1> HIDE DEF r
<1>4. Apart(m, r)
  BY <1>2, <1>3 DEF Apart, Refreshed
<1>5. ASSUME Unhurt(r)
      PROVE  Kept(r.disk.data, r.ccache, [m.latest EXCEPT ![c] = v])
  <2>1. r.ok /\ Unhurt(m) /\ r.disk.data = [m.disk.data EXCEPT ![c] = v]
    BY <1>2, <1>3, <1>4, <1>5 DEF Unhurt, Apart, Machines, Refreshed
  <2>2. Kept(m.disk.data, m.ccache, m.latest)
    BY <2>1 DEF DataInv
  <2>3. /\ m.disk.data \in [Clusters -> Contents] /\ m.latest \in [Clusters -> Writes]
        /\ m.ccache \in Seq(Blocks) /\ x.ccache \in Seq(Blocks)
    BY <1>2 DEF Machines, Disks, Apart, Refreshed
  <2>4. ASSUME NEW i \in DOMAIN x.ccache
        PROVE  x.ccache[i].cluster \in Clusters
    <3>1. x.ccache[i] \in Blocks
      BY <2>3
    <3> QED BY <3>1 DEF Blocks
  <2> QED BY <1>2, <1>3, <2>1, <2>2, <2>3, <2>4 DEF Kept, Refreshed
<1>6. ASSUME NEW y \in Clusters, y # c, LineOf(m, y) = {}
      PROVE  LineOf(r, y) = {}
  BY <1>2, <1>3, <1>6 DEF LineOf, Refreshed
<1> QED BY <1>1, <1>2, <1>3, <1>4, <1>5, <1>6 DEF Written, Refreshed

(***************************************************************************)
(* A cluster that is read is as it was last given.                         *)
(***************************************************************************)
ReadOf(m, c, r) ==
  /\ Apart(m, r) /\ DataInv(r)
  /\ r.latest = m.latest /\ r.out = m.out
  /\ r.ok /\ Unhurt(r) => r.got = m.latest[c]

(* A cluster is read into a line, its own or the one of the victim.        *)
LEMMA LoadClusterLemma ==
    ASSUME NEW m \in Machines, DataInv(m), m.ok, NEW c \in Clusters, LineOf(m, c) = {},
           NEW i \in Nat, IF i = 0 THEN Len(m.ccache) < ClusterLines ELSE i \in DOMAIN m.ccache
    PROVE  ReadOf(m, c, LoadCluster(m, c, i))
<1> DEFINE b == [m EXCEPT !.n = @ + 1]
           q == m.ccache
           r == LoadCluster(m, c, i)
           e == [cluster |-> c, val |-> m.disk.data[c], dirty |-> FALSE]
           t == Append(IF i = 0 THEN q ELSE RemoveAt(q, i), e)
<1>1. /\ b \in Machines /\ b.disk = m.disk /\ b.partial = m.partial /\ b.fcache = m.fcache
      /\ b.told = m.told /\ b.faults = m.faults /\ b.ccache = m.ccache /\ b.latest = m.latest
      /\ b.out = m.out /\ b.got = m.got /\ b.ok
  BY Bumped DEF Machines
<1> HIDE DEF b
<1>2. r = IF Fails(m) THEN Failed(IF b.partial /\ i # 0
                                  THEN Hurt([b EXCEPT !.ccache[i].val = "junk"], "read") ELSE b)
          ELSE [b EXCEPT !.ccache = Append(IF i = 0 THEN @ ELSE RemoveAt(@, i),
                                     [cluster |-> c, val |-> b.disk.data[c], dirty |-> FALSE]),
                         !.got = b.disk.data[c]]
  BY DEF LoadCluster, Transfer, b
<1>3. q \in Seq(Blocks) /\ Len(q) \in Nat /\ CacheHeld(q) /\ \A j \in DOMAIN q : q[j].cluster # c
  BY DEF Machines, DataInv, LineOf
<1>4. e \in Blocks /\ e.cluster = c /\ e.val = m.disk.data[c] /\ m.disk.data[c] \in Contents
  BY DEF Blocks, Machines, Disks
<1> HIDE DEF e
<1>5. CASE Fails(m) /\ b.partial /\ i # 0
  <2>1. PICK g : g = [b EXCEPT !.ccache = [q EXCEPT ![i] = [q[i] EXCEPT !.val = "junk"]]]
    OBVIOUS
  <2>2. r = Failed(Hurt(g, "read"))
    BY <1>1, <1>2, <1>5, <2>1
  <2> HIDE DEF r
  <2>3. PICK l : l = [q[i] EXCEPT !.val = "junk"]
    OBVIOUS
  <2>4. i \in DOMAIN q /\ q[i] \in Blocks
    BY <1>3, <1>5
  <2>5. l \in Blocks /\ l.cluster = q[i].cluster
    BY <2>3, <2>4 DEF Blocks, Contents
  <2>6. PICK u : u = [q EXCEPT ![i] = l]
    OBVIOUS
  <2>7. u \in Seq(Blocks) /\ Len(u) = Len(q) /\ DOMAIN u = DOMAIN q
        /\ \A j \in DOMAIN q : u[j].cluster = q[j].cluster
    BY <1>3, <2>4, <2>5, <2>6
  <2>8. CacheHeld(u)
    BY <1>3, <2>7 DEF CacheHeld
  <2>9. g = [b EXCEPT !.ccache = u]
    BY <2>1, <2>3, <2>6
  <2>10. /\ g \in Machines /\ g.disk = m.disk /\ g.fcache = m.fcache
         /\ g.told = m.told /\ g.faults = m.faults /\ g.ccache = u
         /\ g.latest = m.latest /\ g.out = m.out
    BY <1>1, <2>7, <2>9 DEF Machines
  <2>11. PICK h : h = Hurt(g, "read")
    OBVIOUS
  <2>12. h \in Machines
    BY <2>10, <2>11 DEF Hurt, Machines, Mishaps
  <2>13. /\ h.disk = m.disk /\ h.fcache = m.fcache /\ h.told = m.told
         /\ h.faults = m.faults \cup {"read"} /\ h.ccache = u /\ h.latest = m.latest /\ h.out = m.out
    BY <2>10, <2>11 DEF Hurt, Machines
  <2>14. r \in Machines
    BY <2>2, <2>11, <2>12 DEF Failed, Machines
  <2>15. /\ r.disk = m.disk /\ r.fcache = m.fcache /\ r.told = m.told
         /\ r.faults = m.faults \cup {"read"} /\ r.ccache = u /\ r.latest = m.latest /\ r.out = m.out
         /\ ~r.ok
    BY <2>2, <2>11, <2>12, <2>13 DEF Failed, Machines
  <2> QED BY <2>8, <2>14, <2>15 DEF ReadOf, Apart, DataInv, Unhurt, r
<1>6. CASE Fails(m) /\ ~(b.partial /\ i # 0)
  <2>1. r = Failed(b)
    BY <1>2, <1>6
  <2> HIDE DEF r
  <2>2. r \in Machines
    BY <1>1, <2>1 DEF Failed, Machines
  <2>3. /\ r.disk = m.disk /\ r.fcache = m.fcache /\ r.told = m.told
        /\ r.faults = m.faults /\ r.ccache = q /\ r.latest = m.latest /\ r.out = m.out /\ ~r.ok
    BY <1>1, <2>1 DEF Failed, Machines
  <2> QED BY <1>3, <2>2, <2>3 DEF ReadOf, Apart, DataInv, Unhurt, r
<1>7. CASE ~Fails(m)
  <2>1. r = [b EXCEPT !.ccache = t, !.got = m.disk.data[c]]
    BY <1>1, <1>2, <1>7 DEF e
  <2> HIDE DEF r
  <2>2. /\ t \in Seq(Blocks) /\ CacheHeld(t)
        /\ \A j \in DOMAIN t : t[j] = e \/ \E k \in DOMAIN q : t[j] = q[k]
    <3>1. CASE i = 0
      <4>1. t = Append(q, e)
        BY <3>1
      <4>2. /\ Append(q, e) \in Seq(Blocks) /\ Len(Append(q, e)) = Len(q) + 1
            /\ \A j \in 1..Len(q) : Append(q, e)[j] = q[j]
            /\ Append(q, e)[Len(q) + 1] = e
        BY <1>3, <1>4
      <4>3. Len(q) + 1 <= ClusterLines
        BY <1>3, <3>1, CacheAssumption
      <4> HIDE DEF t
      <4>4. \A j \in DOMAIN t : IF j = Len(q) + 1 THEN t[j] = e ELSE j \in DOMAIN q /\ t[j] = q[j]
        BY <1>3, <4>1, <4>2
      <4>5. \A j, k \in DOMAIN t : t[j].cluster = t[k].cluster => j = k
        BY <1>3, <1>4, <4>4 DEF CacheHeld
      <4> QED BY <4>1, <4>2, <4>3, <4>4, <4>5 DEF CacheHeld
    <3>2. CASE i # 0
      <4>1. i \in DOMAIN q /\ i \in 1..Len(q)
        BY <1>3, <3>2
      <4>2. t = Append(RemoveAt(q, i), e)
        BY <3>2
      <4> HIDE DEF t
      <4>3. /\ t \in Seq(Blocks) /\ Len(t) = Len(q)
            /\ \A j \in 1..Len(q) :
                 t[j] = IF j < i THEN q[j] ELSE IF j < Len(q) THEN q[j + 1] ELSE e
        <5>1. i \in DOMAIN q /\ q \in Seq(Blocks) /\ e \in Blocks
          BY <1>3, <1>4, <4>1
        <5> HIDE DEF q
        <5> QED BY <4>2, <5>1, RenewLemma
      <4>4. ASSUME NEW j \in DOMAIN t, NEW k \in DOMAIN t, t[j].cluster = t[k].cluster
            PROVE  j = k
        <5>1. j \in 1..Len(q) /\ k \in 1..Len(q)
          BY <1>3, <4>3
        <5>2. CASE j < Len(q) /\ k < Len(q)
          <6> DEFINE from(x) == IF x < i THEN x ELSE x + 1
          <6>1. t[j] = q[from(j)] /\ t[k] = q[from(k)] /\ from(j) \in DOMAIN q /\ from(k) \in DOMAIN q
            BY <1>3, <4>1, <4>3, <5>1, <5>2
          <6>2. from(j) = from(k)
            BY <1>3, <4>4, <6>1 DEF CacheHeld
          <6> QED BY <1>3, <4>1, <5>1, <6>2
        <5>3. CASE j = Len(q) /\ k < Len(q)
          <6>1. t[j] = e /\ \E x \in DOMAIN q : t[k] = q[x]
            BY <1>3, <4>1, <4>3, <5>1, <5>3
          <6> QED BY <1>3, <1>4, <4>4, <6>1
        <5>4. CASE k = Len(q) /\ j < Len(q)
          <6>1. t[k] = e /\ \E x \in DOMAIN q : t[j] = q[x]
            BY <1>3, <4>1, <4>3, <5>1, <5>4
          <6> QED BY <1>3, <1>4, <4>4, <6>1
        <5>5. CASE j = Len(q) /\ k = Len(q)
          BY <5>5
        <5> QED BY <1>3, <5>1, <5>2, <5>3, <5>4, <5>5
      <4>5. \A j \in DOMAIN t : t[j] = e \/ \E k \in DOMAIN q : t[j] = q[k]
        BY <1>3, <4>1, <4>3
      <4> QED BY <1>3, <4>3, <4>4, <4>5 DEF CacheHeld
    <3> QED BY <3>1, <3>2
  <2> HIDE DEF t
  <2>3. PICK g : g = [b EXCEPT !.ccache = t]
    OBVIOUS
  <2>4. g \in Machines
    BY <1>1, <2>2, <2>3 DEF Machines
  <2>5. r = [g EXCEPT !.got = m.disk.data[c]]
    BY <1>1, <2>1, <2>3 DEF Machines
  <2>6. r \in Machines
    BY <1>4, <2>4, <2>5 DEF Machines
  <2>7. /\ r.disk = m.disk /\ r.fcache = m.fcache /\ r.told = m.told
        /\ r.faults = m.faults /\ r.ccache = t /\ r.latest = m.latest /\ r.out = m.out
        /\ r.got = m.disk.data[c]
    BY <1>1, <2>1 DEF Machines
  <2>8. Unhurt(r) => Kept(r.disk.data, r.ccache, r.latest) /\ r.got = m.latest[c]
    BY <1>4, <2>2, <2>7 DEF Unhurt, DataInv, Kept
  <2> QED BY <2>2, <2>6, <2>7, <2>8 DEF ReadOf, Apart, DataInv, r
<1> QED BY <1>5, <1>6, <1>7

(* fat32_read_cluster gives what the cluster was last given.               *)
LEMMA ReadClusterLemma ==
    ASSUME NEW m \in Machines, DataInv(m), m.ok, NEW c \in Clusters
    PROVE  ReadOf(m, c, ReadCluster(m, c))
<1> DEFINE q == m.ccache
           r == ReadCluster(m, c)
<1>1. q \in Seq(Blocks) /\ Len(q) \in Nat /\ CacheHeld(q)
  BY DEF Machines, DataInv
<1>2. CASE LineOf(m, c) # {}
  <2> DEFINE i == CHOOSE j \in LineOf(m, c) : TRUE
  <2>1. i \in DOMAIN q /\ q[i].cluster = c
    BY <1>2 DEF LineOf
  <2>2. r = [m EXCEPT !.got = q[i].val]
    BY <1>2 DEF ReadCluster
  <2> HIDE DEF i, r
  <2>3. q[i] \in Blocks /\ q[i].val \in Contents
    <3>1. q[i] \in Blocks
      BY <1>1, <2>1
    <3> QED BY <3>1 DEF Blocks
  <2>4. r \in Machines
    BY <2>2, <2>3 DEF Machines
  <2>5. /\ r.disk = m.disk /\ r.fcache = m.fcache /\ r.told = m.told /\ r.faults = m.faults
        /\ r.ccache = q /\ r.latest = m.latest /\ r.out = m.out /\ r.got = q[i].val
    BY <2>2 DEF Machines
  <2>6. Unhurt(m) => q[i].val = m.latest[c]
    BY <2>1 DEF DataInv, Kept
  <2> QED BY <2>4, <2>5, <2>6 DEF ReadOf, Apart, DataInv, Unhurt, r
<1>3. CASE LineOf(m, c) = {} /\ Len(q) < ClusterLines
  <2>1. r = LoadCluster(m, c, 0)
    BY <1>3 DEF ReadCluster
  <2> QED BY <1>3, <2>1, LoadClusterLemma
<1>4. CASE LineOf(m, c) = {} /\ ~(Len(q) < ClusterLines)
  <2>1. 1 \in DOMAIN q /\ Len(q) \in DOMAIN q /\ Len(q) # 0 /\ q[1] \in Blocks
    BY <1>1, <1>4, CacheAssumption
  <2>2. CASE ~q[1].dirty
    <3>1. r = LoadCluster(m, c, 1)
      BY <1>4, <2>2 DEF ReadCluster
    <3> QED BY <1>4, <2>1, <3>1, LoadClusterLemma
  <2>3. CASE q[1].dirty
    <3> DEFINE y == q[1].cluster
               v == q[1].val
               x == WriteCluster(m, y, v)
    <3>1. r = IF x.ok THEN LoadCluster(x, c, Len(x.ccache)) ELSE x
      BY <1>4, <2>3 DEF ReadCluster, Then
    <3>2. y \in Clusters /\ v \in Contents /\ y # c
      BY <1>4, <2>1 DEF Blocks, LineOf
    <3>3. Written(m, y, v, x)
      BY <3>2, WriteClusterLemma
    <3> HIDE DEF x, r
    <3>4. x \in Machines /\ x.latest = m.latest /\ Len(x.ccache) = Len(q) /\ LineOf(x, c) = {}
      BY <1>4, <3>2, <3>3 DEF Written, Apart
    <3>5. DataInv(x)
      <4>1. ASSUME Unhurt(x)
            PROVE  Kept(x.disk.data, x.ccache, x.latest)
        <5>1. Unhurt(m)
          BY <3>3, <4>1 DEF Unhurt, Written, Apart
        <5>2. v = m.latest[y]
          BY <2>1, <5>1 DEF DataInv, Kept
        <5>3. [m.latest EXCEPT ![y] = v] = m.latest
          BY <3>2, <5>2 DEF Machines
        <5> QED BY <3>3, <4>1, <5>3 DEF Written
      <4> QED BY <3>3, <4>1 DEF DataInv, Written
    <3>6. CASE ~x.ok
      BY <3>1, <3>3, <3>5, <3>6 DEF ReadOf, Written, r
    <3>7. CASE x.ok
      <4>1. Len(x.ccache) \in Nat /\ Len(x.ccache) # 0 /\ Len(x.ccache) \in DOMAIN x.ccache
        BY <2>1, <3>4 DEF Machines
      <4>2. ReadOf(x, c, LoadCluster(x, c, Len(x.ccache)))
        BY <3>4, <3>5, <3>7, <4>1, LoadClusterLemma
      <4> QED BY <3>1, <3>3, <3>7, <4>2 DEF ReadOf, Written, Apart, r
    <3> QED BY <3>6, <3>7
  <2> QED BY <2>2, <2>3
<1> QED BY <1>1, <1>2, <1>3, <1>4

(***************************************************************************)
(* What holds of a machine at the beginning and at the end of a function.  *)
(***************************************************************************)
Chained(link) ==
  /\ \A c \in Clusters : link[c] \in Clusters =>
       /\ link[c] \notin Files \cup {Dir}
       /\ link[link[c]] # 0
       /\ \A d \in Clusters : link[d] = link[c] => c = d
  /\ \A f \in Files \cup {Dir} : link[f] # 0

Sane(m) == m.faults \cap {"midway", "sync", "power"} = {}

ChainInv(m) == Sane(m) => m.told[1] = m.told[2] /\ Chained(m.told[1])

Inv(m) == m \in Machines /\ FatInv(m) /\ DataInv(m) /\ ChainInv(m)

Later(m, r) == Inv(r) /\ m.faults \subseteq r.faults

(***************************************************************************)
(* Chains: one that is made longer, one that ends, one that is given back. *)
(***************************************************************************)
LEMMA LongerChain ==
    ASSUME NEW link \in [Clusters -> Links], Chained(link),
           NEW prev \in Clusters, NEW c \in Clusters, link[prev] = Eoc, link[c] = 0
    PROVE  /\ Chained(Upd(Upd(link, prev, c), c, Eoc))
           /\ Chained(Upd(link, c, Eoc))
           /\ c # prev
<1>1. c # prev /\ c \notin Files \cup {Dir} /\ \A d \in Clusters : link[d] # c
  BY ClusterFacts DEF Chained
<1> DEFINE a == [link EXCEPT ![c] = Eoc]
           b == [[link EXCEPT ![prev] = c] EXCEPT ![c] = Eoc]
<1>2. /\ \A d \in Clusters : a[d] = IF d = c THEN Eoc ELSE link[d]
      /\ \A d \in Clusters : b[d] = IF d = c THEN Eoc ELSE IF d = prev THEN c ELSE link[d]
  OBVIOUS
<1> HIDE DEF a, b
<1>3. Chained(a)
  BY <1>1, <1>2, ClusterFacts DEF Chained
<1>4. Chained(b)
  <2>1. ASSUME NEW d \in Clusters, b[d] \in Clusters
        PROVE  /\ b[d] \notin Files \cup {Dir} /\ b[b[d]] # 0
               /\ \A e \in Clusters : b[e] = b[d] => d = e
    <3>1. d # c
      BY <1>2, <2>1, ClusterFacts
    <3>2. CASE d = prev
      BY <1>1, <1>2, <2>1, <3>1, <3>2, ClusterFacts
    <3>3. CASE d # prev
      <4>1. b[d] = link[d] /\ link[d] \in Clusters /\ link[d] # c
        BY <1>1, <1>2, <2>1, <3>1, <3>3
      <4>2. /\ link[d] \notin Files \cup {Dir} /\ link[link[d]] # 0
            /\ \A e \in Clusters : link[e] = link[d] => d = e
        BY <4>1 DEF Chained
      <4>3. b[b[d]] # 0
        BY <1>2, <4>1, <4>2, ClusterFacts
      <4>4. \A e \in Clusters : b[e] = b[d] => d = e
        BY <1>1, <1>2, <4>1, <4>2, ClusterFacts
      <4> QED BY <4>1, <4>2, <4>3, <4>4
    <3> QED BY <3>2, <3>3
  <2>2. \A f \in Files \cup {Dir} : b[f] # 0
    BY <1>1, <1>2, ClusterFacts DEF Chained
  <2> QED BY <2>1, <2>2 DEF Chained
<1> QED BY <1>1, <1>3, <1>4 DEF a, b, Upd

(* Chains after one of them is cut.                                        *)
LEMMA EndedChain ==
    ASSUME NEW link \in [Clusters -> Links], Chained(link), NEW c \in Clusters
    PROVE  Chained(Upd(link, c, Eoc))
<1> DEFINE a == [link EXCEPT ![c] = Eoc]
<1>1. \A d \in Clusters : a[d] = IF d = c THEN Eoc ELSE link[d]
  OBVIOUS
<1> HIDE DEF a
<1>2. Chained(a)
  BY <1>1, ClusterFacts DEF Chained
<1> QED BY <1>2 DEF a, Upd

(* Chains after a cluster nothing leads to is freed.                       *)
LEMMA FreedCluster ==
    ASSUME NEW link \in [Clusters -> Links], Chained(link), NEW c \in Clusters,
           c \notin Files \cup {Dir}, \A d \in Clusters : link[d] # c
    PROVE  Chained(Upd(link, c, 0))
<1> DEFINE a == [link EXCEPT ![c] = 0]
<1>1. \A d \in Clusters : a[d] = IF d = c THEN 0 ELSE link[d]
  OBVIOUS
<1> HIDE DEF a
<1>2. Chained(a)
  BY <1>1, ClusterFacts DEF Chained
<1> QED BY <1>2 DEF a, Upd

(***************************************************************************)
(* Each side of the invariant only depends on its side of the machine.     *)
(***************************************************************************)
LEMMA BesideKeepsData ==
    ASSUME NEW m, NEW r, Beside(m, r), DataInv(m)
    PROVE  DataInv(r)
<1>1. Unhurt(r) <=> Unhurt(m)
  BY DEF Beside, Unhurt
<1> QED BY <1>1 DEF Beside, DataInv

(* The functions on clusters keep the FAT.                                 *)
LEMMA ApartKeepsFat ==
    ASSUME NEW m, NEW r, Apart(m, r), FatInv(m)
    PROVE  /\ FatInv(r)
           /\ Sane(r) <=> Sane(m)
           /\ ChainInv(m) => ChainInv(r)
<1>1. "sync" \in r.faults <=> "sync" \in m.faults
  BY DEF Apart
<1>2. Sane(r) <=> Sane(m)
  BY DEF Apart, Sane
<1> QED BY <1>1, <1>2 DEF Apart, FatInv, ChainInv

(***************************************************************************)
(* An entry that is set whatever failed before.                            *)
(***************************************************************************)
EntryTried(m, c, v, r) ==
  /\ Beside(m, r) /\ FatInv(r) /\ r.out = m.out /\ r.ok = m.ok
  /\ m.faults \subseteq r.faults
  /\ Sane(r) => Sane(m) /\ r.told \in {m.told, Told(m.told, c, v)}
  /\ Cached(m, SectorOf(1, c)) /\ Cached(m, SectorOf(2, c)) => r.told = Told(m.told, c, v)

(* Setting an entry whose sectors are cached cannot fail: a clean-up that  *)
(* was begun ends.                                                         *)
LEMMA EntryTriedLemma ==
    ASSUME NEW m \in Machines, FatInv(m), NEW c \in Clusters, NEW v \in Links
    PROVE  EntryTried(m, c, v, Regardless(m, LAMBDA y : SetFatEntry(y, c, v)))
<1> DEFINE x == [m EXCEPT !.ok = TRUE]
           y == SetFatEntry(x, c, v)
           r == [y EXCEPT !.ok = m.ok]
<1>1. Regardless(m, LAMBDA z : SetFatEntry(z, c, v)) = r
  BY DEF Regardless
<1>2. /\ x \in Machines /\ x.ok /\ x.disk = m.disk /\ x.fcache = m.fcache /\ x.told = m.told
      /\ x.faults = m.faults /\ x.ccache = m.ccache /\ x.latest = m.latest /\ x.got = m.got
      /\ x.out = m.out
  BY DEF Machines
<1> HIDE DEF x
<1>3. FatInv(x)
  BY <1>2 DEF FatInv
<1>4. EntrySet(x, c, v, y)
  BY <1>2, <1>3, SetFatEntryLemma
<1> HIDE DEF y
<1>5. y \in Machines
  BY <1>4 DEF EntrySet, Beside
<1>6. /\ r \in Machines /\ r.ok = m.ok /\ r.disk = y.disk /\ r.fcache = y.fcache /\ r.told = y.told
      /\ r.faults = y.faults /\ r.ccache = y.ccache /\ r.latest = y.latest /\ r.got = y.got
      /\ r.out = y.out
  BY <1>5 DEF Machines
<1> HIDE DEF r
<1>7. FatInv(r)
  BY <1>4, <1>6 DEF FatInv, EntrySet
<1>8. Beside(m, r)
  BY <1>2, <1>4, <1>6 DEF EntrySet, Beside
<1>9. m.faults \subseteq r.faults
  BY <1>2, <1>4, <1>6 DEF EntrySet
<1>10. ASSUME Sane(r)
       PROVE  Sane(m) /\ r.told \in {m.told, Told(m.told, c, v)}
  BY <1>2, <1>4, <1>6, <1>10 DEF EntrySet, Sane
<1>11. ASSUME Cached(m, SectorOf(1, c)), Cached(m, SectorOf(2, c))
       PROVE  r.told = Told(m.told, c, v)
  <2>1. y.ok
    BY <1>2, <1>4, <1>11 DEF EntrySet, Cached
  <2> QED BY <1>2, <1>4, <1>6, <2>1 DEF EntrySet
<1> QED BY <1>1, <1>2, <1>4, <1>6, <1>7, <1>8, <1>9, <1>10, <1>11 DEF EntryTried, EntrySet

(* What both copies were told, entry by entry.                             *)
LEMMA ToldLemma ==
    ASSUME NEW told_ \in [Copies -> [Clusters -> Links]], NEW c \in Clusters, NEW v \in Links
    PROVE  /\ Told(told_, c, v) \in [Copies -> [Clusters -> Links]]
           /\ \A k \in {1, 2} : Told(told_, c, v)[k] = Upd(told_[k], c, v)
  BY DEF Told, Copies, Upd

(* Taking back the steps of an allocation restores the FAT.                *)
LEMMA UpdLemma ==
    ASSUME NEW link \in [Clusters -> Links], NEW prev \in Clusters, NEW c \in Clusters,
           c # prev, NEW v \in Links
    PROVE  /\ link[prev] = Eoc => Upd(Upd(link, prev, v), prev, Eoc) = link
           /\ link[prev] = Eoc =>
                Upd(Upd(Upd(link, prev, v), c, Eoc), prev, Eoc) = Upd(link, c, Eoc)
           /\ link[c] = 0 => Upd(Upd(link, c, Eoc), c, 0) = link
  BY DEF Upd

(***************************************************************************)
(* Entries that come into the caches do not push out what was just there.  *)
(***************************************************************************)
LEMMA NearIsCached ==
    ASSUME NEW m, NEW s, NEW d, Near(m.fcache, s, d)
    PROVE  Cached(m, s)
  BY DEF Near, Cached

(* A write that went well and is noted as such keeps the clusters.         *)
LEMMA GivenLemma ==
    ASSUME NEW m \in Machines, NEW c \in Clusters, NEW v \in Contents, NEW x,
           Written(m, c, v, x), x.ok, NEW v2 \in Writes, Unhurt(x) => v = v2
    PROVE  LET r == Given(x, c, v2) IN
           Apart(m, r) /\ DataInv(r) /\ r.out = x.out /\ r.ok
<1> DEFINE r == Given(x, c, v2)
<1>1. x \in Machines /\ x.latest = m.latest
  BY DEF Written, Apart
<1>2. r = [x EXCEPT !.latest = [m.latest EXCEPT ![c] = v2]]
  BY <1>1 DEF Given, Upd
<1> HIDE DEF r
<1>3. [m.latest EXCEPT ![c] = v2] \in [Clusters -> Writes]
  BY DEF Machines
<1>4. r \in Machines
  BY <1>1, <1>2, <1>3 DEF Machines
<1>5. /\ r.disk = x.disk /\ r.fcache = x.fcache /\ r.told = x.told /\ r.faults = x.faults
      /\ r.ccache = x.ccache /\ r.latest = [m.latest EXCEPT ![c] = v2] /\ r.out = x.out /\ r.ok
  BY <1>1, <1>2 DEF Machines
<1>6. DataInv(r)
  BY <1>5 DEF Written, DataInv, Unhurt
<1> QED BY <1>4, <1>5, <1>6 DEF Written, Apart, r

(***************************************************************************)
(* A cluster that is added to a chain, or not: if one step fails, what was *)
(* done is taken back, and taking back the link cannot fail, since the     *)
(* sectors of the entry are still in the cache.                            *)
(***************************************************************************)
LEMMA AllocateAfterLemma ==
    ASSUME NEW m \in Machines, Inv(m), m.ok, NEW prev \in Clusters,
           "sync" \notin m.faults => m.told[1][prev] = Eoc
    PROVE  LET r == AllocateAfter(m, prev) IN
           Later(m, r) /\ (r.ok => r.out \in Clusters)
<1> DEFINE a == FindFreeCluster(m)
           c == a.out
           b == SetFatEntry(a, prev, c)
           x == SetFatEntry(b, b.out, Eoc)
           d == IF x.ok THEN x ELSE Regardless(x, LAMBDA y : SetFatEntry(y, prev, Eoc))
           w == WriteCluster(d, b.out, "zero")
           u == Regardless(w, LAMBDA y : SetFatEntry(y, prev, Eoc))
           z == IF w.ok THEN Given(w, b.out, "zero")
                ELSE Regardless(u, LAMBDA y : SetFatEntry(y, b.out, 0))
           e == IF d.ok THEN z ELSE d
           r == AllocateAfter(m, prev)
<1>1. r = IF ~a.ok THEN a ELSE IF ~b.ok THEN b ELSE IF e.ok THEN [e EXCEPT !.out = c] ELSE e
  BY DEF AllocateAfter, Then
<1>2. Found(m, a) /\ (a.ok => c \in Clusters)
  BY FindFreeClusterLemma DEF Inv
<1> HIDE DEF a
<1>3. Later(m, a)
  BY <1>2, BesideKeepsData DEF Found, FatOnly, Later, Inv, Beside, ChainInv, Sane
<1>4. CASE ~a.ok
  BY <1>1, <1>3, <1>4
<1>5. CASE a.ok
  <2>1. c \in Clusters /\ c \in Links /\ a \in Machines /\ FatInv(a) /\ DataInv(a)
        /\ a.told = m.told /\ a.faults = m.faults
    BY <1>2, <1>3, <1>5 DEF Links, Later, Inv, Found, FatOnly
  <2>2. EntrySet(a, prev, c, b)
    BY <1>5, <2>1, SetFatEntryLemma
  <2> HIDE DEF b
  <2>3. m.told \in [Copies -> [Clusters -> Links]] /\ m.told[1] \in [Clusters -> Links]
    BY DEF Machines, Copies
  <2>4. b \in Machines /\ FatInv(b) /\ DataInv(b) /\ m.faults \subseteq b.faults /\ b.out = c
    BY <2>1, <2>2, BesideKeepsData DEF EntrySet, Beside
  <2>5. CASE ~b.ok
    <3>1. Sane(b) => b.told = m.told /\ Sane(m)
      BY <2>1, <2>2, <2>5 DEF EntrySet, Sane
    <3>2. Later(m, b)
      BY <2>4, <3>1 DEF Later, Inv, ChainInv
    <3> QED BY <1>1, <1>5, <2>5, <3>2
  <2>6. CASE b.ok
    <3>1. b.faults = m.faults /\ b.told = Told(m.told, prev, c)
      BY <2>1, <2>2, <2>6 DEF EntrySet
    <3>2. Eoc \in Links /\ 0 \in Links
      BY DEF Links
    <3>3. EntrySet(b, c, Eoc, x)
      BY <2>1, <2>4, <2>6, <3>2, SetFatEntryLemma
    <3> HIDE DEF x
    <3>4. x \in Machines /\ FatInv(x) /\ DataInv(x) /\ m.faults \subseteq x.faults
      BY <2>4, <3>1, <3>3, BesideKeepsData DEF EntrySet, Beside
    <3>5. Cached(x, SectorOf(1, prev)) /\ Cached(x, SectorOf(2, prev))
      <4>1. Near(b.fcache, SectorOf(1, prev), 2) /\ Near(b.fcache, SectorOf(2, prev), 1)
        BY <2>2, <2>6 DEF EntrySet
      <4>2. 2 \in 1..(FatLines - 2) /\ 1 \in 1..(FatLines - 2)
        BY CacheAssumption
      <4>3. SectorOf(1, prev) \in FatSectors /\ SectorOf(2, prev) \in FatSectors
        BY SectorFacts DEF Copies
      <4>4. Near(x.fcache, SectorOf(1, prev), 2 + 2) /\ Near(x.fcache, SectorOf(2, prev), 1 + 2)
        BY <3>3, <4>1, <4>2, <4>3 DEF EntrySet
      <4> QED BY <4>4, NearIsCached
    (* What was told before and after, when nothing worse happened.        *)
    <3> DEFINE link == m.told[1]
               linked == Told(Told(m.told, prev, c), c, Eoc)
               taken == Told(m.told, c, Eoc)
    <3>6. ASSUME Sane(m)
          PROVE  /\ m.told[1] = m.told[2] /\ Chained(link) /\ link[prev] = Eoc /\ link[c] = 0
                 /\ Chained(Upd(Upd(link, prev, c), c, Eoc))
                 /\ Chained(Upd(link, c, Eoc))
                 /\ c # prev
      <4>1. "sync" \notin m.faults /\ m.told[1] = m.told[2] /\ Chained(link)
        BY <3>6 DEF Inv, ChainInv, Sane
      <4>2. link[prev] = Eoc /\ link[c] = 0
        BY <1>2, <1>5, <2>1, <4>1, ClusterFacts DEF Found
      <4> QED BY <2>1, <2>3, <4>1, <4>2, LongerChain
    <3>7. ASSUME Sane(m)
          PROVE  linked[1] = linked[2] /\ Chained(linked[1])
      <4>1. Told(m.told, prev, c) \in [Copies -> [Clusters -> Links]]
            /\ Told(m.told, prev, c)[1] = Upd(link, prev, c)
            /\ Told(m.told, prev, c)[2] = Upd(link, prev, c)
        BY <2>1, <2>3, <3>6, <3>7, ToldLemma
      <4>2. /\ linked[1] = Upd(Upd(link, prev, c), c, Eoc)
            /\ linked[2] = Upd(Upd(link, prev, c), c, Eoc)
        <5> DEFINE first == Told(m.told, prev, c)
        <5>1. first \in [Copies -> [Clusters -> Links]] /\ c \in Clusters /\ Eoc \in Links
          BY <2>1, <3>2, <4>1
        <5>2. first[1] = Upd(link, prev, c) /\ first[2] = Upd(link, prev, c)
          BY <4>1
        <5> HIDE DEF first
        <5>3. \A k \in {1, 2} : Told(first, c, Eoc)[k] = Upd(first[k], c, Eoc)
          BY <5>1, ToldLemma
        <5>4. linked = Told(first, c, Eoc)
          BY DEF first, linked
        <5> HIDE DEF linked
        <5> QED BY <5>2, <5>3, <5>4
      <4> QED BY <3>6, <3>7, <4>2
    <3>8. CASE ~x.ok
      <4>1. EntryTried(x, prev, Eoc, d)
        BY <3>2, <3>4, <3>8, EntryTriedLemma
      <4>2. d.ok = x.ok /\ e = d
        BY <3>8, <4>1 DEF EntryTried
      <4> HIDE DEF d
      <4>3. d \in Machines /\ FatInv(d) /\ DataInv(d) /\ m.faults \subseteq d.faults
        BY <3>4, <4>1, BesideKeepsData DEF EntryTried, Beside
      <4>4. ASSUME Sane(d)
            PROVE  d.told[1] = d.told[2] /\ Chained(d.told[1])
        <5>1. Sane(x) /\ d.told = Told(x.told, prev, Eoc)
          BY <3>5, <4>1, <4>4 DEF EntryTried
        <5>2. x.told = b.told /\ Sane(m)
          BY <3>1, <3>3, <3>4, <3>8, <5>1 DEF EntrySet, Sane
        <5>3. Told(m.told, prev, c) \in [Copies -> [Clusters -> Links]]
              /\ \A k \in {1, 2} : Told(m.told, prev, c)[k] = Upd(m.told[k], prev, c)
          BY <2>1, <2>3, ToldLemma
        <5>4. \A k \in {1, 2} : d.told[k] = Upd(Upd(m.told[k], prev, c), prev, Eoc)
          BY <3>1, <3>2, <5>1, <5>2, <5>3, ToldLemma
        <5>5. Upd(Upd(link, prev, c), prev, Eoc) = link
          BY <2>1, <2>3, <3>6, <5>2, UpdLemma
        <5> QED BY <3>6, <5>2, <5>4, <5>5
      <4>5. Later(m, d)
        BY <4>3, <4>4 DEF Later, Inv, ChainInv
      <4> QED BY <1>1, <1>5, <2>6, <3>8, <4>2, <4>5
    <3>9. CASE x.ok
      <4>1. d = x /\ e = z
        BY <3>9
      <4>2. x.faults = m.faults /\ x.told = linked
        BY <3>1, <3>3, <3>9 DEF EntrySet
      <4>3. Inv(x)
        BY <3>4, <3>7, <4>2 DEF Inv, ChainInv, Sane
      <4>4. "zero" \in Writes /\ "zero" \in Contents
        BY DEF Writes, Contents
      <4>5. Written(x, c, "zero", w)
        BY <2>1, <2>4, <3>4, <3>9, <4>1, <4>4, WriteClusterLemma
      <4> HIDE DEF w
      <4>6. w \in Machines /\ FatInv(w) /\ (Sane(w) <=> Sane(x)) /\ ChainInv(w) /\ w.told = linked
            /\ w.fcache = x.fcache /\ m.faults \subseteq w.faults
        BY <3>4, <4>2, <4>3, <4>5, ApartKeepsFat DEF Written, Inv, Apart
      <4>7. CASE w.ok
        <5> DEFINE g == Given(w, c, "zero")
        <5>1. Apart(x, g) /\ DataInv(g) /\ g.ok
          BY <2>1, <3>4, <4>4, <4>5, <4>7, GivenLemma
        <5>2. e = g
          BY <2>4, <4>1, <4>7
        <5> HIDE DEF g, e
        <5>3. g \in Machines /\ FatInv(g) /\ ChainInv(g) /\ m.faults \subseteq g.faults
          BY <3>4, <4>2, <4>3, <5>1, ApartKeepsFat DEF Inv, Apart
        <5>4. r = [g EXCEPT !.out = c]
          BY <1>1, <1>5, <2>6, <5>1, <5>2
        <5> HIDE DEF r
        <5>5. /\ r \in Machines /\ r.disk = g.disk /\ r.fcache = g.fcache /\ r.told = g.told
              /\ r.faults = g.faults /\ r.ccache = g.ccache /\ r.latest = g.latest /\ r.out = c
          BY <2>1, <5>3, <5>4 DEF Machines
        <5>6. FatInv(r) /\ DataInv(r) /\ ChainInv(r)
          BY <5>1, <5>3, <5>5 DEF FatInv, DataInv, ChainInv, Sane, Unhurt
        <5>7. Later(m, r)
          BY <5>3, <5>5, <5>6 DEF Later, Inv
        <5> QED BY <2>1, <5>5, <5>7 DEF r
      <4>8. CASE ~w.ok
        <5>1. EntryTried(w, prev, Eoc, u)
          BY <3>2, <4>6, EntryTriedLemma
        <5>2. z = Regardless(u, LAMBDA y : SetFatEntry(y, c, 0))
          BY <2>4, <4>8
        <5> HIDE DEF u
        <5>3. u \in Machines /\ FatInv(u) /\ ~u.ok /\ m.faults \subseteq u.faults
          BY <4>6, <4>8, <5>1 DEF EntryTried, Beside
        <5>4. EntryTried(u, c, 0, z)
          BY <2>1, <3>2, <5>2, <5>3, EntryTriedLemma
        <5> HIDE DEF z
        <5>5. z \in Machines /\ FatInv(z) /\ ~z.ok /\ m.faults \subseteq z.faults
          BY <5>3, <5>4 DEF EntryTried, Beside
        <5>6. DataInv(w)
          BY <4>5, <4>8 DEF Written, DataInv, Unhurt
        <5>7. DataInv(z)
          BY <5>1, <5>4, <5>6, BesideKeepsData DEF EntryTried
        <5>8. Cached(w, SectorOf(1, prev)) /\ Cached(w, SectorOf(2, prev))
          BY <3>5, <4>6 DEF Cached
        <5>9. ASSUME Sane(z)
              PROVE  z.told[1] = z.told[2] /\ Chained(z.told[1])
          <6>1. Sane(u) /\ z.told \in {u.told, Told(u.told, c, 0)}
            BY <5>4, <5>9 DEF EntryTried
          <6>2. u.told = Told(linked, prev, Eoc) /\ Sane(m)
            BY <4>2, <4>6, <5>1, <5>8, <6>1 DEF EntryTried, Sane
          <6>3. linked \in [Copies -> [Clusters -> Links]] /\ u.told \in [Copies -> [Clusters -> Links]]
                /\ \A k \in {1, 2} : u.told[k] =
                     Upd(Upd(Upd(m.told[k], prev, c), c, Eoc), prev, Eoc)
            <7>1. Told(m.told, prev, c) \in [Copies -> [Clusters -> Links]]
                  /\ \A k \in {1, 2} : Told(m.told, prev, c)[k] = Upd(m.told[k], prev, c)
              BY <2>1, <2>3, ToldLemma
            <7>2. linked \in [Copies -> [Clusters -> Links]]
                  /\ \A k \in {1, 2} : linked[k] = Upd(Upd(m.told[k], prev, c), c, Eoc)
              <8> DEFINE first == Told(m.told, prev, c)
              <8>1. first \in [Copies -> [Clusters -> Links]] /\ c \in Clusters /\ Eoc \in Links
                BY <2>1, <3>2, <7>1
              <8>2. \A k \in {1, 2} : first[k] = Upd(m.told[k], prev, c)
                BY <7>1
              <8> HIDE DEF first
              <8>3. /\ Told(first, c, Eoc) \in [Copies -> [Clusters -> Links]]
                    /\ \A k \in {1, 2} : Told(first, c, Eoc)[k] = Upd(first[k], c, Eoc)
                BY <8>1, ToldLemma
              <8>4. linked = Told(first, c, Eoc)
                BY DEF first, linked
              <8> HIDE DEF linked
              <8> QED BY <8>2, <8>3, <8>4
            <7> HIDE DEF linked
            <7>3. u.told \in [Copies -> [Clusters -> Links]]
                  /\ \A k \in {1, 2} : u.told[k] = Upd(linked[k], prev, Eoc)
              BY <3>2, <6>2, <7>2, ToldLemma
            <7> QED BY <7>2, <7>3
          <6>4. \A k \in {1, 2} : u.told[k] = Upd(link, c, Eoc)
            <7>1. Upd(Upd(Upd(link, prev, c), c, Eoc), prev, Eoc) = Upd(link, c, Eoc)
              BY <2>1, <2>3, <3>6, <6>2, UpdLemma
            <7> QED BY <3>6, <6>2, <6>3, <7>1
          <6>5. CASE z.told = u.told
            BY <3>6, <6>2, <6>4, <6>5
          <6>6. CASE z.told = Told(u.told, c, 0)
            <7>1. \A k \in {1, 2} : z.told[k] = Upd(Upd(link, c, Eoc), c, 0)
              <8>1. u.told \in [Copies -> [Clusters -> Links]]
                BY <6>3
              <8>2. \A k \in {1, 2} : z.told[k] = Upd(u.told[k], c, 0)
                BY <2>1, <3>2, <6>6, <8>1, ToldLemma
              <8> QED BY <6>4, <8>2
            <7>2. Upd(Upd(link, c, Eoc), c, 0) = link
              BY <2>1, <2>3, <3>2, <3>6, <6>2, UpdLemma
            <7> QED BY <3>6, <6>2, <7>1, <7>2
          <6> QED BY <6>1, <6>5, <6>6
        <5>10. Later(m, z)
          BY <5>5, <5>7, <5>9 DEF Later, Inv, ChainInv
        <5> QED BY <1>1, <1>5, <2>6, <4>1, <5>5, <5>10
      <4> QED BY <4>7, <4>8
    <3> QED BY <3>8, <3>9
  <2> QED BY <2>5, <2>6
<1> QED BY <1>4, <1>5

(***************************************************************************)
(* fat32_sync of the cached sectors: one that could not be written counts  *)
(* as clean, which is a mishap of its own.                                 *)
(***************************************************************************)
LEMMA SyncLineLemma ==
    ASSUME NEW m \in Machines, Inv(m), m.ok, NEW i \in DOMAIN m.fcache
    PROVE  LET r == SyncLine(m, i) IN
           Later(m, r) /\ r.ok /\ Len(r.fcache) = Len(m.fcache)
<1> DEFINE q == m.fcache
           a == StoreSector(m, q[i])
           b == IF a.ok THEN a ELSE Hurt(a, "sync")
           t == [q EXCEPT ![i] = [q[i] EXCEPT !.dirty = FALSE]]
           r == SyncLine(m, i)
<1>1. CASE ~q[i].dirty
  BY <1>1 DEF SyncLine, Later
<1>2. CASE q[i].dirty
  <2>1. q \in Seq(Lines) /\ q[i] \in Lines /\ Held(q)
    BY DEF Machines, Inv, FatInv
  <2>2. q[i].lba \in FatSectors /\ q[i].val \in [In(q[i].lba) -> Links]
    BY <1>2, <2>1 DEF Held
  <2>3. /\ a \in Machines
        /\ a.fcache = q /\ a.ccache = m.ccache /\ a.latest = m.latest
        /\ a.told = m.told /\ a.faults = m.faults /\ a.out = m.out /\ a.got = m.got
        /\ a.disk.data = m.disk.data
        /\ a.disk.fat = IF a.ok THEN [m.disk.fat EXCEPT ![q[i].lba] = q[i].val] ELSE m.disk.fat
    BY <2>1, <2>2, StoreSectorLemma
  <2>4. r = [b EXCEPT !.fcache[i].dirty = FALSE, !.ok = TRUE]
    BY <1>2 DEF SyncLine
  <2> HIDE DEF a
  <2>5. /\ b \in Machines /\ b.disk = a.disk /\ b.fcache = q /\ b.told = m.told /\ b.ccache = m.ccache
        /\ b.latest = m.latest
        /\ b.faults = IF a.ok THEN m.faults ELSE m.faults \cup {"sync"}
    <3>1. CASE a.ok
      BY <2>3, <3>1
    <3>2. CASE ~a.ok
      <4>1. b = [a EXCEPT !.faults = @ \cup {"sync"}]
        BY <3>2 DEF Hurt
      <4>2. b \in Machines
        BY <2>3, <4>1 DEF Machines, Mishaps
      <4> QED BY <2>3, <3>2, <4>1, <4>2 DEF Machines
    <3> QED BY <3>1, <3>2
  <2> HIDE DEF b
  <2>6. PICK l : l = [q[i] EXCEPT !.dirty = FALSE]
    OBVIOUS
  <2>7. l \in Lines /\ l.lba = q[i].lba /\ l.val = q[i].val /\ ~l.dirty
    BY <2>1, <2>6 DEF Lines
  <2>8. PICK u : u = [q EXCEPT ![i] = l]
    OBVIOUS
  <2>9. u \in Seq(Lines) /\ Len(u) = Len(q) /\ DOMAIN u = DOMAIN q /\ u[i] = l
        /\ \A j \in DOMAIN q : j # i => u[j] = q[j]
    BY <2>1, <2>7, <2>8
  <2>10. PICK g : g = [b EXCEPT !.fcache = u]
    OBVIOUS
  <2>11. g \in Machines
    BY <2>5, <2>9, <2>10 DEF Machines
  <2>12. r = [g EXCEPT !.ok = TRUE]
    <3>1. [b EXCEPT !.fcache[i].dirty = FALSE] = g
      BY <2>5, <2>6, <2>8, <2>10
    <3> QED BY <2>4, <3>1
  <2> HIDE DEF r
  <2>13. r \in Machines
    BY <2>11, <2>12 DEF Machines
  <2>14. /\ r.disk = b.disk /\ r.fcache = u /\ r.told = m.told /\ r.faults = b.faults
         /\ r.ccache = m.ccache /\ r.latest = m.latest /\ r.ok
    BY <2>5, <2>9, <2>10, <2>11, <2>12 DEF Machines
  <2>15. Held(u)
    BY <2>1, <2>7, <2>9 DEF Held
  <2>16. ASSUME "sync" \notin r.faults
         PROVE  Reads(r.disk.fat, u, m.told) /\ Saved(r.disk.fat, u)
    <3>1. a.ok /\ "sync" \notin m.faults
      BY <2>5, <2>14, <2>16
    <3>2. r.disk.fat = [m.disk.fat EXCEPT ![q[i].lba] = q[i].val]
      BY <2>3, <2>5, <2>14, <3>1
    <3>3. m.disk.fat \in [FatSectors -> Vals]
      BY DEF Machines, Disks, Fats
    <3>4. r.disk.fat[q[i].lba] = q[i].val
          /\ \A s \in FatSectors : s # q[i].lba => r.disk.fat[s] = m.disk.fat[s]
      BY <2>2, <3>2, <3>3
    <3>5. Reads(m.disk.fat, q, m.told) /\ Saved(m.disk.fat, q)
      BY <3>1 DEF Inv, FatInv
    <3>6. \A j \in DOMAIN u : u[j].lba = q[j].lba /\ u[j].val = q[j].val
      BY <2>7, <2>9
    <3>7. Saved(r.disk.fat, u)
      BY <2>1, <2>7, <2>9, <3>4, <3>5 DEF Saved, Held
    <3>8. Reads(r.disk.fat, u, m.told)
      <4>1. ASSUME NEW k \in Copies, NEW c \in Clusters
            PROVE  /\ \A j \in DOMAIN u :
                        u[j].lba = SectorOf(k, c) => u[j].val[c] = m.told[k][c]
                   /\ (\A j \in DOMAIN u : u[j].lba # SectorOf(k, c))
                        => r.disk.fat[SectorOf(k, c)][c] = m.told[k][c]
        <5>1. \A j \in DOMAIN u : u[j].lba = SectorOf(k, c) => u[j].val[c] = m.told[k][c]
          BY <2>9, <3>5, <3>6 DEF Reads
        <5>2. ASSUME \A j \in DOMAIN u : u[j].lba # SectorOf(k, c)
              PROVE  r.disk.fat[SectorOf(k, c)][c] = m.told[k][c]
          <6>1. \A j \in DOMAIN q : q[j].lba # SectorOf(k, c)
            BY <2>9, <3>6, <5>2
          <6>2. m.disk.fat[SectorOf(k, c)][c] = m.told[k][c]
            BY <3>5, <6>1 DEF Reads
          <6> QED BY <3>4, <6>1, <6>2, SectorFacts
        <5> QED BY <5>1, <5>2
      <4> QED BY <4>1 DEF Reads
    <3> QED BY <3>7, <3>8
  <2>17. FatInv(r)
    BY <2>14, <2>15, <2>16 DEF FatInv
  <2>18. DataInv(r)
    BY <2>3, <2>5, <2>14 DEF Inv, DataInv, Unhurt
  <2>19. ChainInv(r)
    BY <2>5, <2>14 DEF Inv, ChainInv, Sane
  <2>20. m.faults \subseteq r.faults
    BY <2>5, <2>14
  <2> QED BY <2>9, <2>13, <2>14, <2>17, <2>18, <2>19, <2>20 DEF Later, Inv, r
<1> QED BY <1>1, <1>2

(***************************************************************************)
(* What a machine gives back, or whether it failed, is no matter.          *)
(***************************************************************************)
Recast(m, r) ==
  /\ r \in Machines
  /\ r.disk = m.disk /\ r.fcache = m.fcache /\ r.told = m.told /\ r.faults = m.faults
  /\ r.ccache = m.ccache /\ r.latest = m.latest /\ r.got = m.got

(* So what holds of a machine holds after its results are set aside.       *)
LEMMA RecastLemma ==
    ASSUME NEW m, NEW r, Inv(m), Recast(m, r)
    PROVE  Later(m, r)
<1>1. FatInv(r) /\ DataInv(r) /\ ChainInv(r)
  BY DEF Inv, Recast, FatInv, DataInv, ChainInv, Unhurt, Sane
<1> QED BY <1>1 DEF Later, Inv, Recast

(* One function after another.                                             *)
LEMMA LaterIsTransitive ==
    ASSUME NEW m, NEW x, NEW r, Later(m, x), Later(x, r)
    PROVE  Later(m, r)
  BY DEF Later

Returning(m, v) == [m EXCEPT !.out = v]
Succeeding(m) == [m EXCEPT !.ok = TRUE]

(* The three ways in which the code sets results aside.                    *)
LEMMA RecastCases ==
    ASSUME NEW m \in Machines
    PROVE  /\ \A v \in {0} \cup Clusters :
                Recast(m, Returning(m, v)) /\ Returning(m, v).out = v
                /\ Returning(m, v).ok = m.ok
           /\ Recast(m, Failed(m)) /\ ~Failed(m).ok
           /\ Recast(m, Succeeding(m)) /\ Succeeding(m).ok /\ Succeeding(m).out = m.out
<1>1. ASSUME NEW v \in {0} \cup Clusters
      PROVE  Recast(m, Returning(m, v)) /\ Returning(m, v).out = v
             /\ Returning(m, v).ok = m.ok
  <2>1. [m EXCEPT !.out = v] \in Machines
    BY DEF Machines
  <2> QED BY <2>1 DEF Machines, Recast, Returning
<1>2. Recast(m, Failed(m)) /\ ~Failed(m).ok
  <2>1. [m EXCEPT !.ok = FALSE] \in Machines
    BY DEF Machines
  <2> QED BY <2>1 DEF Machines, Recast, Failed
<1>3. Recast(m, Succeeding(m)) /\ Succeeding(m).ok /\ Succeeding(m).out = m.out
  <2>1. [m EXCEPT !.ok = TRUE] \in Machines
    BY DEF Machines
  <2> QED BY <2>1 DEF Machines, Recast, Succeeding
<1> QED BY <1>1, <1>2, <1>3

(* fat32_sync keeps everything; what it could not write is noted.          *)
LEMMA SyncLemma ==
    ASSUME NEW m \in Machines, Inv(m), m.ok
    PROVE  LET r == Sync(m) IN Later(m, r) /\ r.ok
<1> DEFINE n == Len(m.fcache)
           S == {x \in Machines : Later(m, x) /\ x.ok /\ Len(x.fcache) = n}
           Step(x, i) == IF x.ok THEN SyncLine(x, i) ELSE x
           done == CHOOSE g : g = [i \in 0..n |-> IF i = 0 THEN m ELSE Step(g[i - 1], i)]
<1>1. n \in Nat
  BY DEF Machines
<1>2. m \in S
  BY DEF Later
<1>3. ASSUME NEW x \in S, NEW i \in 1..n
      PROVE  Step(x, i) \in S
  <2>1. x \in Machines /\ Inv(x) /\ x.ok /\ i \in DOMAIN x.fcache /\ Len(x.fcache) = n
    BY DEF Later, Machines
  <2>2. Later(x, SyncLine(x, i)) /\ SyncLine(x, i).ok /\ Len(SyncLine(x, i).fcache) = n
    BY <2>1, SyncLineLemma
  <2>3. Later(m, SyncLine(x, i)) /\ SyncLine(x, i) \in Machines
    BY <2>2, LaterIsTransitive DEF Later, Inv
  <2> QED BY <2>1, <2>2, <2>3
<1>4. Sync(m) = done[n]
  BY DEF Sync, Repeat, Then
<1> HIDE DEF S, Step, n
<1>5. done[n] \in S
  <2> DEFINE next_ == [i \in 1..n |-> [x \in S |-> Step(x, i)]]
  <2>1. next_ \in [1..n -> [S -> S]]
    BY <1>3
  <2>2. PICK f : StepsFrom(f, m, n, S, next_)
    <3> HIDE DEF next_
    <3> QED BY <1>1, <1>2, <2>1, RecursionExists
  <2>3. f = [i \in 0..n |-> IF i = 0 THEN m ELSE Step(f[i - 1], i)]
    <3>1. f \in [0..n -> S] /\ f[0] = m /\ \A i \in 1..n : f[i] = Step(f[i - 1], i)
      <4>1. \A i \in 1..n : f[i - 1] \in S
        BY <1>1, <2>2 DEF StepsFrom
      <4> QED BY <2>2, <4>1 DEF StepsFrom
    <3>2. \A i \in 0..n : f[i] = IF i = 0 THEN m ELSE Step(f[i - 1], i)
      BY <1>1, <3>1
    <3> QED BY <3>1, <3>2
  <2>4. done = [i \in 0..n |-> IF i = 0 THEN m ELSE Step(done[i - 1], i)]
    BY <2>3
  <2> HIDE DEF done
  <2> DEFINE Good == {i \in 0..n : done[i] \in S}
  <2>5. 0 \in Good
    BY <1>1, <1>2, <2>4
  <2>6. ASSUME NEW k \in 0..(n - 1), k \in Good
        PROVE  k + 1 \in Good
    <3>1. k + 1 \in 1..n /\ k + 1 \in 0..n /\ (k + 1) - 1 = k /\ k + 1 # 0
      BY <1>1
    <3>2. done[k + 1] = Step(done[k], k + 1)
      BY <2>4, <3>1
    <3> QED BY <1>3, <2>6, <3>1, <3>2
  <2>7. \A k \in 0..n : k \in Good
    <3> HIDE DEF Good
    <3> QED BY <1>1, <2>5, <2>6, IntervalInduction
  <2> QED BY <1>1, <2>7
<1> QED BY <1>4, <1>5 DEF S

(***************************************************************************)
(* One step along a chain, which is made longer at its end.                *)
(***************************************************************************)
LEMMA KeptIsLater ==
    ASSUME NEW m, NEW r, Inv(m), FatOnly(m, r)
    PROVE  Later(m, r)
<1>1. DataInv(r)
  BY BesideKeepsData DEF FatOnly, Inv
<1> QED BY <1>1 DEF FatOnly, Later, Inv, Beside, ChainInv, Sane

(* A step along the chain of a file that is written, which may grow.       *)
LEMMA NextOrNewLemma ==
    ASSUME NEW m \in Machines, Inv(m), m.ok, m.out \in Clusters
    PROVE  LET r == NextOrNew(m) IN Later(m, r) /\ (r.ok => r.out \in Clusters)
<1> DEFINE c == m.out
           x == GetNext(m, c)
           r == NextOrNew(m)
<1>1. r = IF ~x.ok THEN x ELSE IF x.out = 0 THEN AllocateAfter(x, c) ELSE x
  BY DEF NextOrNew, Then
<1>2. /\ FatOnly(m, x)
      /\ x.ok /\ "sync" \notin m.faults =>
           \/ x.out = 0 /\ m.told[1][c] = Eoc
           \/ x.out \in Clusters /\ m.told[1][c] = x.out
  BY GetNextLemma DEF Inv
<1> HIDE DEF x, r
<1>3. Later(m, x) /\ x \in Machines /\ x.told = m.told /\ x.faults = m.faults
      /\ x.out \in {0} \cup Clusters
  BY <1>2, KeptIsLater DEF FatOnly, Beside, Machines
<1>4. CASE ~x.ok \/ x.out # 0
  BY <1>1, <1>3, <1>4 DEF r
<1>5. CASE x.ok /\ x.out = 0
  <2>1. "sync" \notin x.faults => x.told[1][c] = Eoc
    BY <1>2, <1>3, <1>5, ClusterFacts
  <2>2. Later(x, AllocateAfter(x, c))
        /\ (AllocateAfter(x, c).ok => AllocateAfter(x, c).out \in Clusters)
    BY <1>3, <1>5, <2>1, AllocateAfterLemma DEF Later
  <2> QED BY <1>1, <1>3, <1>5, <2>2, LaterIsTransitive DEF r
<1> QED BY <1>4, <1>5

(***************************************************************************)
(* The k-th cluster of a file, to write to or to read.                     *)
(***************************************************************************)
LEMMA WalkToWriteLemma ==
    ASSUME NEW m \in Machines, Inv(m), m.ok, NEW f0 \in Files, NEW n \in Nat
    PROVE  LET r == Repeat([m EXCEPT !.out = f0], LAMBDA x, i : NextOrNew(x), n) IN
           Later(m, r) /\ (r.ok => r.out \in Clusters)
<1> DEFINE base == [m EXCEPT !.out = f0]
           S == {x \in Machines : Later(m, x) /\ (x.ok => x.out \in Clusters)}
           Step(x, i) == IF x.ok THEN NextOrNew(x) ELSE x
           done == CHOOSE g : g = [i \in 0..n |-> IF i = 0 THEN base ELSE Step(g[i - 1], i)]
<1>1. n \in Nat
  OBVIOUS
<1>2. base \in S
  <2>1. f0 \in Clusters
    BY ClusterFacts
  <2>2. Recast(m, base) /\ base.out = f0
    BY <2>1, RecastCases DEF Returning
  <2> HIDE DEF base
  <2>3. Later(m, base)
    BY <2>2, RecastLemma
  <2> QED BY <2>1, <2>2, <2>3 DEF Recast
<1>3. \A x \in S, i \in 1..n : Step(x, i) \in S
  <2> TAKE x \in S, i \in 1..n
  <2>1. CASE ~x.ok
    BY <2>1
  <2>2. CASE x.ok
    <3>1. Inv(x) /\ x \in Machines /\ x.out \in Clusters
      BY <2>2 DEF Later
    <3>2. Later(x, NextOrNew(x)) /\ (NextOrNew(x).ok => NextOrNew(x).out \in Clusters)
      BY <2>2, <3>1, NextOrNewLemma
    <3>3. Later(m, NextOrNew(x)) /\ NextOrNew(x) \in Machines
      BY <3>2, LaterIsTransitive DEF Later, Inv
    <3> QED BY <2>2, <3>2, <3>3
  <2> QED BY <2>1, <2>2
<1>4. Repeat([m EXCEPT !.out = f0], LAMBDA x, i : NextOrNew(x), n) = done[n]
  BY DEF Repeat, Then
<1> HIDE DEF S, Step, base
<1>5. done[n] \in S
  <2> DEFINE next_ == [i \in 1..n |-> [x \in S |-> Step(x, i)]]
  <2>1. next_ \in [1..n -> [S -> S]]
    BY <1>3
  <2>2. PICK f : StepsFrom(f, base, n, S, next_)
    <3> HIDE DEF next_
    <3> QED BY <1>1, <1>2, <2>1, RecursionExists
  <2>3. f = [i \in 0..n |-> IF i = 0 THEN base ELSE Step(f[i - 1], i)]
    <3>1. f \in [0..n -> S] /\ f[0] = base /\ \A i \in 1..n : f[i] = Step(f[i - 1], i)
      <4>1. \A i \in 1..n : f[i - 1] \in S
        BY <1>1, <2>2 DEF StepsFrom
      <4> QED BY <2>2, <4>1 DEF StepsFrom
    <3>2. \A i \in 0..n : f[i] = IF i = 0 THEN base ELSE Step(f[i - 1], i)
      BY <1>1, <3>1
    <3> QED BY <3>1, <3>2
  <2>4. done = [i \in 0..n |-> IF i = 0 THEN base ELSE Step(done[i - 1], i)]
    BY <2>3
  <2> HIDE DEF done
  <2> DEFINE Good == {i \in 0..n : done[i] \in S}
  <2>5. 0 \in Good
    BY <1>1, <1>2, <2>4
  <2>6. ASSUME NEW j \in 0..(n - 1), j \in Good
        PROVE  j + 1 \in Good
    <3>1. j + 1 \in 1..n /\ j + 1 \in 0..n /\ (j + 1) - 1 = j /\ j + 1 # 0
      BY <1>1
    <3>2. done[j + 1] = Step(done[j], j + 1)
      BY <2>4, <3>1
    <3> QED BY <1>3, <2>6, <3>1, <3>2
  <2>7. \A j \in 0..n : j \in Good
    <3> HIDE DEF Good
    <3> QED BY <1>1, <2>5, <2>6, IntervalInduction
  <2> QED BY <1>1, <2>7
<1> QED BY <1>4, <1>5 DEF S

ReadStep(x) == Then(GetNext(x, x.out), LAMBDA y : IF y.out = 0 THEN Failed(y) ELSE y)

(* A step along the chain of a file that is read.                          *)
LEMMA ReadStepLemma ==
    ASSUME NEW x \in Machines, Inv(x), x.ok, x.out \in Clusters
    PROVE  LET r == ReadStep(x) IN Later(x, r) /\ (r.ok => r.out \in Clusters)
<1> DEFINE y == GetNext(x, x.out)
           r == ReadStep(x)
<1>1. r = IF ~y.ok THEN y ELSE IF y.out = 0 THEN Failed(y) ELSE y
  BY DEF ReadStep, Then
<1>2. FatOnly(x, y)
  BY GetNextLemma DEF Inv
<1> HIDE DEF y, r
<1>3. Later(x, y) /\ y \in Machines /\ Inv(y) /\ y.out \in {0} \cup Clusters
  BY <1>2, KeptIsLater DEF FatOnly, Beside, Machines, Later
<1>4. Later(x, Failed(y)) /\ ~Failed(y).ok
  BY <1>3, RecastCases, RecastLemma, LaterIsTransitive
<1> QED BY <1>1, <1>3, <1>4 DEF r

(* All the steps to the cluster that is read.                              *)
LEMMA WalkToReadLemma ==
    ASSUME NEW m \in Machines, Inv(m), m.ok, NEW f0 \in Files, NEW n \in Nat
    PROVE  LET r == Repeat([m EXCEPT !.out = f0], LAMBDA x, i : ReadStep(x), n) IN
           Later(m, r) /\ (r.ok => r.out \in Clusters)
<1> DEFINE base == [m EXCEPT !.out = f0]
           S == {x \in Machines : Later(m, x) /\ (x.ok => x.out \in Clusters)}
           Step(x, i) == IF x.ok THEN ReadStep(x) ELSE x
           done == CHOOSE g : g = [i \in 0..n |-> IF i = 0 THEN base ELSE Step(g[i - 1], i)]
<1>1. n \in Nat
  OBVIOUS
<1>2. base \in S
  <2>1. f0 \in Clusters
    BY ClusterFacts
  <2>2. Recast(m, base) /\ base.out = f0
    BY <2>1, RecastCases DEF Returning
  <2> HIDE DEF base
  <2>3. Later(m, base)
    BY <2>2, RecastLemma
  <2> QED BY <2>1, <2>2, <2>3 DEF Recast
<1>3. \A x \in S, i \in 1..n : Step(x, i) \in S
  <2> TAKE x \in S, i \in 1..n
  <2>1. CASE ~x.ok
    BY <2>1
  <2>2. CASE x.ok
    <3>1. Inv(x) /\ x \in Machines /\ x.out \in Clusters
      BY <2>2 DEF Later
    <3>2. Later(x, ReadStep(x)) /\ (ReadStep(x).ok => ReadStep(x).out \in Clusters)
      BY <2>2, <3>1, ReadStepLemma
    <3>3. Later(m, ReadStep(x)) /\ ReadStep(x) \in Machines
      BY <3>2, LaterIsTransitive DEF Later, Inv
    <3> QED BY <2>2, <3>2, <3>3
  <2> QED BY <2>1, <2>2
<1>4. Repeat([m EXCEPT !.out = f0], LAMBDA x, i : ReadStep(x), n) = done[n]
  BY DEF Repeat, Then
<1> HIDE DEF S, Step, base
<1>5. done[n] \in S
  <2> DEFINE next_ == [i \in 1..n |-> [x \in S |-> Step(x, i)]]
  <2>1. next_ \in [1..n -> [S -> S]]
    BY <1>3
  <2>2. PICK f : StepsFrom(f, base, n, S, next_)
    <3> HIDE DEF next_
    <3> QED BY <1>1, <1>2, <2>1, RecursionExists
  <2>3. f = [i \in 0..n |-> IF i = 0 THEN base ELSE Step(f[i - 1], i)]
    <3>1. f \in [0..n -> S] /\ f[0] = base /\ \A i \in 1..n : f[i] = Step(f[i - 1], i)
      <4>1. \A i \in 1..n : f[i - 1] \in S
        BY <1>1, <2>2 DEF StepsFrom
      <4> QED BY <2>2, <4>1 DEF StepsFrom
    <3>2. \A i \in 0..n : f[i] = IF i = 0 THEN base ELSE Step(f[i - 1], i)
      BY <1>1, <3>1
    <3> QED BY <3>1, <3>2
  <2>4. done = [i \in 0..n |-> IF i = 0 THEN base ELSE Step(done[i - 1], i)]
    BY <2>3
  <2> HIDE DEF done
  <2> DEFINE Good == {i \in 0..n : done[i] \in S}
  <2>5. 0 \in Good
    BY <1>1, <1>2, <2>4
  <2>6. ASSUME NEW j \in 0..(n - 1), j \in Good
        PROVE  j + 1 \in Good
    <3>1. j + 1 \in 1..n /\ j + 1 \in 0..n /\ (j + 1) - 1 = j /\ j + 1 # 0
      BY <1>1
    <3>2. done[j + 1] = Step(done[j], j + 1)
      BY <2>4, <3>1
    <3> QED BY <1>3, <2>6, <3>1, <3>2
  <2>7. \A j \in 0..n : j \in Good
    <3> HIDE DEF Good
    <3> QED BY <1>1, <2>5, <2>6, IntervalInduction
  <2> QED BY <1>1, <2>7
<1> QED BY <1>4, <1>5 DEF S

(***************************************************************************)
(* The invariant, over the operations on clusters.                         *)
(***************************************************************************)
LEMMA ReadIsLater ==
    ASSUME NEW m, NEW c, NEW r, Inv(m), ReadOf(m, c, r)
    PROVE  Later(m, r)
<1>1. FatInv(r) /\ ChainInv(r)
  BY ApartKeepsFat DEF Inv, ReadOf
<1> QED BY <1>1 DEF Later, Inv, ReadOf, Apart

(* A write that failed leaves a sound machine.                             *)
LEMMA WrittenIsLater ==
    ASSUME NEW m, NEW c, NEW v, NEW r, Inv(m), Written(m, c, v, r), ~r.ok
    PROVE  Later(m, r)
<1>1. FatInv(r) /\ ChainInv(r)
  BY ApartKeepsFat DEF Inv, Written
<1>2. DataInv(r)
  BY DEF Written, DataInv, Unhurt
<1> QED BY <1>1, <1>2 DEF Later, Inv, Written, Apart

(* A write that went well and is noted leaves a sound machine.             *)
LEMMA GivenIsLater ==
    ASSUME NEW m, Inv(m), NEW c \in Clusters, NEW v \in Contents, NEW x,
           Written(m, c, v, x), x.ok, NEW v2 \in Writes, Unhurt(x) => v = v2
    PROVE  Later(m, Given(x, c, v2)) /\ Given(x, c, v2).ok /\ Given(x, c, v2).out = x.out
<1> DEFINE r == Given(x, c, v2)
<1>1. Apart(m, r) /\ DataInv(r) /\ r.out = x.out /\ r.ok
  BY GivenLemma DEF Inv
<1> HIDE DEF r
<1>2. FatInv(r) /\ ChainInv(r)
  BY <1>1, ApartKeepsFat DEF Inv
<1>3. Later(m, r)
  BY <1>1, <1>2 DEF Later, Inv, Apart
<1> QED BY <1>1, <1>3 DEF r

(* The entry of a file in its directory is rewritten.                      *)
LEMMA UpdateDirEntryLemma ==
    ASSUME NEW m \in Machines, Inv(m), m.ok
    PROVE  Later(m, UpdateDirEntry(m))
<1> DEFINE x == ReadCluster(m, Dir)
           v == IF x.got = "junk" THEN "junk" ELSE "dir"
           y == WriteCluster(x, Dir, v)
           g == Given(y, Dir, "dir")
           r == UpdateDirEntry(m)
<1>1. r = IF ~x.ok THEN x ELSE IF ~y.ok THEN y ELSE g
  BY DEF UpdateDirEntry, Then
<1>2. ReadOf(m, Dir, x)
  BY ReadClusterLemma, ClusterFacts DEF Inv
<1> HIDE DEF x
<1>3. Later(m, x) /\ x \in Machines /\ Inv(x)
  BY <1>2, ReadIsLater DEF Later, Inv
<1>4. CASE ~x.ok
  BY <1>1, <1>3, <1>4
<1>5. CASE x.ok
  <2>1. v \in Contents /\ "dir" \in Writes
    BY DEF Contents, Writes
  <2>2. Unhurt(x) => v = "dir"
    <3>1. "junk" \notin Writes
      BY CacheAssumption DEF Writes
    <3>2. m.latest[Dir] \in Writes
      BY ClusterFacts DEF Machines
    <3> QED BY <1>2, <1>5, <3>1, <3>2 DEF ReadOf
  <2> HIDE DEF v
  <2>3. Written(x, Dir, v, y)
    BY <1>3, <1>5, <2>1, ClusterFacts, WriteClusterLemma DEF Inv
  <2> HIDE DEF y
  <2>4. CASE ~y.ok
    BY <1>1, <1>3, <1>5, <2>3, <2>4, WrittenIsLater, LaterIsTransitive
  <2>5. CASE y.ok
    <3>1. Unhurt(y) => v = "dir"
      BY <2>2, <2>3 DEF Written, Apart, Unhurt
    <3>2. Later(x, g)
      BY <1>3, <2>1, <2>3, <2>5, <3>1, ClusterFacts, GivenIsLater
    <3> QED BY <1>1, <1>3, <1>5, <2>5, <3>2, LaterIsTransitive
  <2> QED BY <2>4, <2>5
<1> QED BY <1>4, <1>5

(***************************************************************************)
(* A cluster that is written, then refreshed in the cache.                 *)
(***************************************************************************)
WriteThrough(x, v) ==
  LET put == IF x.got = "junk" THEN "junk" ELSE v IN
  Then(StoreCluster(x, x.out, put), LAMBDA y :
      Given(Refresh(y, y.out, IF y.got = "junk" THEN "junk" ELSE v, TRUE), y.out, v))

(* The disk first, then the cache.                                         *)
LEMMA WriteThroughLemma ==
    ASSUME NEW x \in Machines, Inv(x), x.ok, x.out \in Clusters, NEW v \in Tokens,
           Unhurt(x) => x.got = x.latest[x.out]
    PROVE  Later(x, WriteThrough(x, v))
<1> DEFINE c == x.out
           put == IF x.got = "junk" THEN "junk" ELSE v
           y == StoreCluster(x, c, put)
           yes == TRUE
           z == Refresh(y, c, put, yes)
           r == WriteThrough(x, v)
<1>1. put \in Contents /\ v \in Writes /\ (Unhurt(x) => put = v)
  <2>1. "junk" \notin Writes /\ v \in Writes /\ x.latest[c] \in Writes
    BY CacheAssumption DEF Writes, Machines
  <2> QED BY <2>1 DEF Contents
<1>2. /\ Apart(x, y) /\ y.ccache = x.ccache
      /\ y.latest = x.latest /\ y.out = x.out /\ y.got = x.got
      /\ ~y.ok => "write" \in y.faults
      /\ y.ok => y.disk.data = [x.disk.data EXCEPT ![c] = put] /\ y.faults = x.faults
  BY <1>1, StoreClusterLemma
<1>3. r = IF y.ok THEN Given(z, c, v) ELSE y
  <2>1. r = IF y.ok THEN Given(Refresh(y, y.out, IF y.got = "junk" THEN "junk" ELSE v, TRUE), y.out, v)
            ELSE y
    BY DEF WriteThrough, Then
  <2> HIDE DEF y, r
  <2> QED BY <1>2, <2>1
<1> HIDE DEF y, r, put, yes
<1>4. FatInv(y) /\ ChainInv(y) /\ y \in Machines /\ CacheHeld(y.ccache)
  BY <1>2, ApartKeepsFat DEF Inv, Apart, DataInv
<1>5. CASE ~y.ok
  <2>1. DataInv(y)
    BY <1>2, <1>4, <1>5 DEF DataInv, Unhurt
  <2> QED BY <1>2, <1>3, <1>4, <1>5, <2>1 DEF Later, Inv, Apart, r
<1>6. CASE y.ok
  <2>2. yes \in BOOLEAN
    BY DEF yes
  <2>3. /\ Apart(y, z) /\ CacheHeld(z.ccache) /\ z.faults = y.faults
        /\ z.latest = y.latest /\ z.out = y.out /\ z.got = y.got /\ z.ok = y.ok
        /\ z.disk = y.disk /\ Len(z.ccache) = Len(y.ccache)
        /\ \A i \in DOMAIN z.ccache :
             IF z.ccache[i].cluster = c THEN z.ccache[i].val = put
             ELSE \E j \in DOMAIN y.ccache : z.ccache[i] = y.ccache[j]
    <3>1. Refreshed(y, c, put, z)
      BY <1>1, <1>4, <2>2, RefreshLemma
    <3> QED BY <3>1 DEF Refreshed
  <2> HIDE DEF z
  <2>4. Written(x, c, put, z)
    <3>1. ASSUME Unhurt(z)
          PROVE  Kept(z.disk.data, z.ccache, [x.latest EXCEPT ![c] = put])
      <4>1. Unhurt(x)
        BY <1>2, <1>6, <2>3, <3>1 DEF Unhurt
      <4>2. Kept(x.disk.data, x.ccache, x.latest)
        BY <4>1 DEF Inv, DataInv
      <4>3. ASSUME NEW i \in DOMAIN z.ccache
            PROVE  z.ccache[i].cluster \in Clusters
        <5>1. z.ccache \in Seq(Blocks)
          BY <2>3 DEF Apart, Machines
        <5>2. z.ccache[i] \in Blocks
          BY <5>1
        <5> QED BY <5>2 DEF Blocks
      <4>4. x.disk.data \in [Clusters -> Contents] /\ x.latest \in [Clusters -> Writes]
        BY DEF Machines, Disks
      <4>5. \A d \in Clusters : z.disk.data[d] = [x.latest EXCEPT ![c] = put][d]
        BY <1>2, <1>6, <2>3, <4>2, <4>4 DEF Kept
      <4>6. \A i \in DOMAIN z.ccache :
              z.ccache[i].val = [x.latest EXCEPT ![c] = put][z.ccache[i].cluster]
        BY <1>2, <2>3, <4>2, <4>3, <4>4 DEF Kept
      <4> QED BY <4>5, <4>6 DEF Kept
    <3>2. Apart(x, z)
      BY <1>2, <2>3 DEF Apart
    <3>3. \A d \in Clusters : d # c /\ LineOf(x, d) = {} => LineOf(z, d) = {}
      BY <1>2, <2>3 DEF LineOf
    <3> QED BY <1>2, <1>6, <2>3, <3>1, <3>2, <3>3 DEF Written
  <2>5. Unhurt(z) => put = v
    BY <1>1, <1>2, <1>6, <2>3 DEF Unhurt
  <2>6. Later(x, Given(z, c, v))
    BY <1>1, <1>6, <2>3, <2>4, <2>5, GivenIsLater
  <2> QED BY <1>3, <1>6, <2>6 DEF r
<1> QED BY <1>5, <1>6

(* fat32_write.                                                            *)
LEMMA WriteFileLemma ==
    ASSUME NEW m \in Machines, Inv(m), m.ok, NEW f \in Files, NEW k \in 1..MaxChain, NEW v \in Tokens
    PROVE  Later(m, WriteFile(m, f, k, v))
<1> DEFINE walked == Repeat([m EXCEPT !.out = f], LAMBDA x, i : NextOrNew(x), k - 1)
           x == ReadCluster(walked, walked.out)
           y == WriteThrough(x, v)
           r == WriteFile(m, f, k, v)
<1>1. r = IF ~walked.ok THEN walked ELSE IF ~x.ok THEN x
          ELSE IF x.got # v THEN (IF y.ok THEN UpdateDirEntry(y) ELSE y) ELSE y
  BY DEF WriteFile, Then, WriteThrough
<1>2. k - 1 \in Nat
  BY CacheAssumption
<1>3. Later(m, walked) /\ (walked.ok => walked.out \in Clusters)
  BY <1>2, WalkToWriteLemma
<1> HIDE DEF walked
<1>4. CASE ~walked.ok
  BY <1>1, <1>3, <1>4
<1>5. CASE walked.ok
  <2>1. walked \in Machines /\ Inv(walked) /\ walked.out \in Clusters
    BY <1>3, <1>5 DEF Later, Inv
  <2>2. ReadOf(walked, walked.out, x)
    BY <1>5, <2>1, ReadClusterLemma DEF Inv
  <2> HIDE DEF x
  <2>3. Later(walked, x) /\ Later(m, x) /\ Inv(x) /\ x \in Machines
    BY <1>3, <2>1, <2>2, ReadIsLater, LaterIsTransitive DEF Later, Inv
  <2>4. CASE ~x.ok
    BY <1>1, <1>5, <2>3, <2>4
  <2>5. CASE x.ok
    <3>1. x.out \in Clusters /\ (Unhurt(x) => x.got = x.latest[x.out])
      BY <2>1, <2>2, <2>5 DEF ReadOf
    <3>2. Later(x, y)
      BY <2>3, <2>5, <3>1, WriteThroughLemma
    <3> HIDE DEF y
    <3>3. Later(m, y) /\ Inv(y) /\ y \in Machines
      BY <2>3, <3>2, LaterIsTransitive DEF Later, Inv
    <3>4. y.ok => Later(m, UpdateDirEntry(y))
      BY <3>3, UpdateDirEntryLemma, LaterIsTransitive
    <3> QED BY <1>1, <1>5, <2>5, <3>3, <3>4
  <2> QED BY <2>4, <2>5
<1> QED BY <1>4, <1>5

(* fat32_read.                                                             *)
LEMMA ReadFileLemma ==
    ASSUME NEW m \in Machines, Inv(m), m.ok, NEW f \in Files, NEW k \in 1..MaxChain
    PROVE  Later(m, ReadFile(m, f, k))
<1> DEFINE walked == Repeat([m EXCEPT !.out = f], LAMBDA x, i : ReadStep(x), k - 1)
           x == ReadCluster(walked, walked.out)
<1>1. ReadFile(m, f, k) = IF walked.ok THEN x ELSE walked
  BY DEF ReadFile, Then, ReadStep
<1>2. k - 1 \in Nat
  BY CacheAssumption
<1>3. Later(m, walked) /\ (walked.ok => walked.out \in Clusters)
  BY <1>2, WalkToReadLemma
<1> HIDE DEF walked
<1>4. CASE ~walked.ok
  BY <1>1, <1>3, <1>4
<1>5. CASE walked.ok
  <2>1. walked \in Machines /\ Inv(walked) /\ walked.out \in Clusters
    BY <1>3, <1>5 DEF Later, Inv
  <2>2. ReadOf(walked, walked.out, x)
    BY <1>5, <2>1, ReadClusterLemma DEF Inv
  <2> QED BY <1>1, <1>3, <1>5, <2>1, <2>2, ReadIsLater, LaterIsTransitive
<1> QED BY <1>4, <1>5

(* fat32_close.                                                            *)
LEMMA CloseFileLemma ==
    ASSUME NEW m \in Machines, Inv(m), m.ok
    PROVE  Later(m, CloseFile(m))
<1> DEFINE a == Sync(m)
           b == UpdateDirEntry(Succeeding(a))
           d == [b EXCEPT !.ok = a.ok]
<1>1. Later(m, a) /\ a.ok /\ a \in Machines /\ Inv(a)
  BY SyncLemma DEF Later, Inv
<1>2. CloseFile(m) = Sync(d)
  BY DEF CloseFile, Regardless, Succeeding
<1> HIDE DEF a
<1>3. Later(a, Succeeding(a)) /\ Succeeding(a).ok
  BY <1>1, RecastCases, RecastLemma
<1>4. Later(a, b)
  BY <1>3, UpdateDirEntryLemma, LaterIsTransitive DEF Later, Inv
<1> HIDE DEF b
<1>5. d = Succeeding(b)
  BY <1>1 DEF Succeeding
<1>6. b \in Machines /\ Inv(b)
  BY <1>4 DEF Later, Inv
<1> HIDE DEF d
<1>7. Later(b, d) /\ d.ok
  BY <1>5, <1>6, RecastCases, RecastLemma
<1>8. Later(d, Sync(d))
  BY <1>7, SyncLemma DEF Later, Inv
<1> QED BY <1>1, <1>2, <1>4, <1>7, <1>8, LaterIsTransitive

(***************************************************************************)
(* A chain that is given back, cluster by cluster: nothing leads to the    *)
(* next one any more.                                                      *)
(***************************************************************************)
Unlinked(m) ==
  Sane(m) /\ m.out # 0 =>
    m.out \notin Files \cup {Dir} /\ \A d \in Clusters : m.told[1][d] # m.out

FreeStep(x) ==
  LET c == x.out
  IN  IF c = 0 THEN x
      ELSE Then(GetNext(x, c), LAMBDA y : SetFatEntry(y, c, 0))

(* One cluster of a chain nothing leads to any more is freed.              *)
LEMMA FreeStepLemma ==
    ASSUME NEW x \in Machines, Inv(x), x.ok, Unlinked(x)
    PROVE  LET r == FreeStep(x) IN Later(x, r) /\ (r.ok => Unlinked(r))
<1> DEFINE c == x.out
           y == GetNext(x, c)
           z == SetFatEntry(y, c, 0)
           r == FreeStep(x)
<1>1. r = IF c = 0 THEN x ELSE IF y.ok THEN z ELSE y
  BY DEF FreeStep, Then
<1>2. CASE c = 0
  BY <1>1, <1>2 DEF Later
<1>3. CASE c # 0
  <2>1. c \in Clusters
    BY <1>3 DEF Machines
  <2>2. /\ FatOnly(x, y)
        /\ y.ok /\ "sync" \notin x.faults =>
             \/ y.out = 0 /\ x.told[1][c] = Eoc
             \/ y.out \in Clusters /\ x.told[1][c] = y.out
    BY <2>1, GetNextLemma DEF Inv
  <2> HIDE DEF y
  <2>3. Later(x, y) /\ Inv(y) /\ y \in Machines /\ y.told = x.told /\ y.faults = x.faults
    BY <2>2, KeptIsLater DEF FatOnly, Later, Inv
  <2>4. CASE ~y.ok
    BY <1>1, <1>3, <2>3, <2>4
  <2>5. CASE y.ok
    <3>1. 0 \in Links
      BY DEF Links
    <3>2. EntrySet(y, c, 0, z)
      BY <2>1, <2>3, <2>5, <3>1, SetFatEntryLemma DEF Inv
    <3>3. r = z
      BY <1>1, <1>3, <2>5
    <3> HIDE DEF z, r
    <3>4. z \in Machines /\ FatInv(z) /\ DataInv(z) /\ x.faults \subseteq z.faults /\ z.out = y.out
      BY <2>3, <3>2, BesideKeepsData DEF EntrySet, Beside, Inv
    <3> DEFINE link == x.told[1]
    <3>5. x.told \in [Copies -> [Clusters -> Links]] /\ link \in [Clusters -> Links]
      BY DEF Machines, Copies
    <3>6. ASSUME Sane(z)
          PROVE  /\ Sane(x) /\ x.told[1] = x.told[2] /\ Chained(link)
                 /\ c \notin Files \cup {Dir} /\ \A d \in Clusters : link[d] # c
                 /\ z.told = IF z.ok THEN Told(x.told, c, 0) ELSE x.told
                 /\ (y.out = 0 /\ link[c] = Eoc) \/ (y.out \in Clusters /\ link[c] = y.out)
      <4>1. z.faults = x.faults /\ Sane(x) /\ "sync" \notin x.faults
        BY <2>3, <3>2, <3>6 DEF EntrySet, Sane
      <4>2. z.told = IF z.ok THEN Told(x.told, c, 0) ELSE x.told
        BY <2>3, <3>2, <3>6 DEF EntrySet, Sane
      <4>3. x.told[1] = x.told[2] /\ Chained(link)
        BY <4>1 DEF Inv, ChainInv
      <4> QED BY <1>3, <2>2, <2>5, <4>1, <4>2, <4>3 DEF Unlinked
    <3>7. ASSUME Sane(z), z.ok
          PROVE  /\ z.told[1] = Upd(link, c, 0) /\ z.told[1] = z.told[2] /\ Chained(z.told[1])
                 /\ Unlinked(z)
      <4>1. z.told = Told(x.told, c, 0) /\ x.told[1] = x.told[2] /\ Chained(link)
            /\ c \notin Files \cup {Dir} /\ \A d \in Clusters : link[d] # c
        BY <3>6, <3>7
      <4>2. z.told[1] = Upd(link, c, 0) /\ z.told[2] = Upd(link, c, 0)
        BY <2>1, <3>1, <3>5, <4>1, ToldLemma
      <4>3. Chained(Upd(link, c, 0))
        BY <2>1, <3>5, <4>1, FreedCluster
      <4>4. ASSUME y.out # 0
            PROVE  y.out \notin Files \cup {Dir} /\ \A d \in Clusters : z.told[1][d] # y.out
        <5>1. y.out \in Clusters /\ link[c] = y.out
          BY <3>6, <3>7, <4>4
        <5>2. y.out \notin Files \cup {Dir} /\ \A d \in Clusters : link[d] = y.out => c = d
          BY <2>1, <4>1, <5>1 DEF Chained
        <5>3. \A d \in Clusters : z.told[1][d] = IF d = c THEN 0 ELSE link[d]
          BY <3>5, <4>2 DEF Upd
        <5> QED BY <4>4, <5>2, <5>3
      <4> QED BY <3>4, <4>2, <4>3, <4>4 DEF Unlinked
    <3>8. ASSUME Sane(z)
          PROVE  z.told[1] = z.told[2] /\ Chained(z.told[1])
      BY <3>6, <3>7, <3>8
    <3>9. Later(x, z)
      BY <3>4, <3>8 DEF Later, Inv, ChainInv
    <3>10. z.ok => Unlinked(z)
      BY <3>7 DEF Unlinked
    <3> QED BY <3>3, <3>9, <3>10 DEF r
  <2> QED BY <2>4, <2>5
<1> QED BY <1>2, <1>3

(* fat32_free_cluster_chain, of a chain nothing leads to.                  *)
LEMMA FreeClusterChainLemma ==
    ASSUME NEW m \in Machines, Inv(m), m.ok, NEW first \in Clusters, Unlinked(Returning(m, first))
    PROVE  Later(m, FreeClusterChain(m, first))
<1> DEFINE n == Entries - 1
           base == Returning(m, first)
           S == {x \in Machines : Later(m, x) /\ (x.ok => Unlinked(x))}
           Step(x, i) == IF x.ok THEN FreeStep(x) ELSE x
           done == CHOOSE g : g = [i \in 0..n |-> IF i = 0 THEN base ELSE Step(g[i - 1], i)]
<1>1. n \in Nat
  BY CacheAssumption
<1>2. base \in S
  <2>1. Recast(m, base)
    BY RecastCases
  <2>2. Later(m, base)
    BY <2>1, RecastLemma
  <2> QED BY <2>1, <2>2 DEF Recast
<1>3. \A x \in S, i \in 1..n : Step(x, i) \in S
  <2> TAKE x \in S, i \in 1..n
  <2>1. CASE ~x.ok
    BY <2>1
  <2>2. CASE x.ok
    <3>1. Inv(x) /\ x \in Machines /\ Unlinked(x)
      BY <2>2 DEF Later
    <3>2. Later(x, FreeStep(x)) /\ (FreeStep(x).ok => Unlinked(FreeStep(x)))
      BY <2>2, <3>1, FreeStepLemma
    <3>3. Later(m, FreeStep(x)) /\ FreeStep(x) \in Machines
      BY <3>2, LaterIsTransitive DEF Later, Inv
    <3> QED BY <2>2, <3>2, <3>3
  <2> QED BY <2>1, <2>2
<1>4. FreeClusterChain(m, first) = IF done[n].ok
                                   THEN IF done[n].out = 0 THEN done[n] ELSE Failed(done[n])
                                   ELSE done[n]
  BY DEF FreeClusterChain, Repeat, Then, FreeStep, Returning
<1> HIDE DEF S, Step, base, n
<1>5. done[n] \in S
  <2> DEFINE next_ == [i \in 1..n |-> [x \in S |-> Step(x, i)]]
  <2>1. next_ \in [1..n -> [S -> S]]
    BY <1>3
  <2>2. PICK f : StepsFrom(f, base, n, S, next_)
    <3> HIDE DEF next_
    <3> QED BY <1>1, <1>2, <2>1, RecursionExists
  <2>3. f = [i \in 0..n |-> IF i = 0 THEN base ELSE Step(f[i - 1], i)]
    <3>1. f \in [0..n -> S] /\ f[0] = base /\ \A i \in 1..n : f[i] = Step(f[i - 1], i)
      <4>1. \A i \in 1..n : f[i - 1] \in S
        BY <1>1, <2>2 DEF StepsFrom
      <4> QED BY <2>2, <4>1 DEF StepsFrom
    <3>2. \A i \in 0..n : f[i] = IF i = 0 THEN base ELSE Step(f[i - 1], i)
      BY <1>1, <3>1
    <3> QED BY <3>1, <3>2
  <2>4. done = [i \in 0..n |-> IF i = 0 THEN base ELSE Step(done[i - 1], i)]
    BY <2>3
  <2> HIDE DEF done
  <2> DEFINE Good == {i \in 0..n : done[i] \in S}
  <2>5. 0 \in Good
    BY <1>1, <1>2, <2>4
  <2>6. ASSUME NEW j \in 0..(n - 1), j \in Good
        PROVE  j + 1 \in Good
    <3>1. j + 1 \in 1..n /\ j + 1 \in 0..n /\ (j + 1) - 1 = j /\ j + 1 # 0
      BY <1>1
    <3>2. done[j + 1] = Step(done[j], j + 1)
      BY <2>4, <3>1
    <3> QED BY <1>3, <2>6, <3>1, <3>2
  <2>7. \A j \in 0..n : j \in Good
    <3> HIDE DEF Good
    <3> QED BY <1>1, <2>5, <2>6, IntervalInduction
  <2> QED BY <1>1, <2>7
<1> HIDE DEF done
<1>6. done[n] \in Machines /\ Later(m, done[n]) /\ Inv(done[n])
  BY <1>5 DEF S, Later
<1>7. Later(m, Failed(done[n]))
  BY <1>6, RecastCases, RecastLemma, LaterIsTransitive
<1> QED BY <1>4, <1>6, <1>7

(***************************************************************************)
(* A file that is cut to its first cluster.                                *)
(***************************************************************************)
LEMMA TruncateLemma ==
    ASSUME NEW m \in Machines, Inv(m), m.ok, NEW f \in Files
    PROVE  Later(m, Truncate(m, f))
<1> DEFINE a == GetNext(m, f)
           old == a.out
           b == SetFatEntry(a, f, Eoc)
           z == FreeClusterChain(b, old)
           undone == Regardless(z, LAMBDA x : SetFatEntry(x, f, Eoc))
           cut == IF ~b.ok THEN b ELSE IF old = 0 THEN b ELSE IF z.ok THEN z ELSE undone
           w == WriteCluster(cut, f, "zero")
           blank == IF w.ok THEN Given(w, f, "zero") ELSE Succeeding(w)
           r == Truncate(m, f)
<1>1. r = IF ~a.ok THEN a ELSE IF ~cut.ok THEN cut
          ELSE IF ~blank.ok THEN blank ELSE UpdateDirEntry(blank)
  BY DEF Truncate, Then, Succeeding
<1>2. f \in Clusters /\ f \in Files \cup {Dir}
  BY ClusterFacts
<1>3. /\ FatOnly(m, a)
      /\ a.ok /\ "sync" \notin m.faults =>
           \/ old = 0 /\ m.told[1][f] = Eoc
           \/ old \in Clusters /\ m.told[1][f] = old
  BY <1>2, GetNextLemma DEF Inv
<1> HIDE DEF a
<1>4. Later(m, a) /\ Inv(a) /\ a \in Machines /\ a.told = m.told /\ a.faults = m.faults
      /\ old \in {0} \cup Clusters
  BY <1>3, KeptIsLater DEF FatOnly, Later, Inv, Machines
<1>5. CASE ~a.ok
  BY <1>1, <1>4, <1>5
<1>6. CASE a.ok
  <2>1. Eoc \in Links
    BY DEF Links
  <2>2. EntrySet(a, f, Eoc, b)
    BY <1>2, <1>4, <1>6, <2>1, SetFatEntryLemma DEF Inv
  <2> HIDE DEF b
  <2> DEFINE link == m.told[1]
  <2>3. b \in Machines /\ FatInv(b) /\ DataInv(b) /\ a.faults \subseteq b.faults /\ b.out = old
    BY <1>4, <2>2, BesideKeepsData DEF EntrySet, Beside, Inv
  <2>4. m.told \in [Copies -> [Clusters -> Links]] /\ link \in [Clusters -> Links]
    BY DEF Machines, Copies
  <2>5. ASSUME Sane(b)
        PROVE  /\ b.told = IF b.ok THEN Told(m.told, f, Eoc) ELSE m.told
               /\ m.told[1] = m.told[2] /\ Chained(link) /\ "sync" \notin m.faults
    <3>1. Sane(m) /\ "sync" \notin m.faults /\ b.told = IF b.ok THEN Told(m.told, f, Eoc) ELSE m.told
      BY <1>4, <2>2, <2>5 DEF EntrySet, Sane
    <3> QED BY <3>1 DEF Inv, ChainInv
  <2>6. ASSUME Sane(b), b.ok
        PROVE  b.told[1] = Upd(link, f, Eoc) /\ b.told[2] = b.told[1] /\ Chained(b.told[1])
    <3>1. b.told[1] = Upd(link, f, Eoc) /\ b.told[2] = Upd(link, f, Eoc)
      BY <1>2, <2>1, <2>4, <2>5, <2>6, ToldLemma
    <3>2. Chained(Upd(link, f, Eoc))
      BY <1>2, <2>4, <2>5, <2>6, EndedChain
    <3> QED BY <3>1, <3>2
  <2>7. ASSUME Sane(b)
        PROVE  b.told[1] = b.told[2] /\ Chained(b.told[1])
    BY <2>5, <2>6, <2>7
  <2>8. Later(a, b) /\ Inv(b)
    BY <2>3, <2>7 DEF Later, Inv, ChainInv
  <2>9. Later(b, cut) /\ cut \in Machines
    <3>1. CASE ~b.ok \/ old = 0
      <4>1. cut = b
        BY <3>1
      <4> QED BY <2>8, <4>1 DEF Later, Inv
    <3>2. CASE b.ok /\ old # 0
      <4>1. old \in Clusters
        BY <1>4, <3>2
      <4>2. Returning(b, old).out = old /\ Recast(b, Returning(b, old))
        <5>1. b \in Machines /\ old \in {0} \cup Clusters
          BY <2>3, <4>1
        <5> HIDE DEF b, old
        <5> QED BY <5>1, RecastCases
      <4>3. ASSUME Sane(b)
            PROVE  old \notin Files \cup {Dir} /\ \A d \in Clusters : b.told[1][d] # old
        <5>1. link[f] = old /\ Chained(link)
          BY <1>3, <1>6, <2>5, <3>2, <4>3
        <5>2. old \notin Files \cup {Dir} /\ \A d \in Clusters : link[d] = old => d = f
          BY <1>2, <4>1, <5>1 DEF Chained
        <5>3. \A d \in Clusters : b.told[1][d] = IF d = f THEN Eoc ELSE link[d]
          BY <2>4, <2>6, <3>2, <4>3 DEF Upd
        <5> QED BY <4>1, <5>2, <5>3, ClusterFacts
      <4>4. Unlinked(Returning(b, old))
        BY <4>2, <4>3 DEF Unlinked, Recast, Sane
      <4>5. Later(b, z)
        BY <2>3, <2>8, <3>2, <4>1, <4>4, FreeClusterChainLemma
      <4> HIDE DEF z
      <4>6. z \in Machines /\ Inv(z)
        BY <4>5 DEF Later, Inv
      <4>7. CASE z.ok
        <5>1. cut = z
          BY <3>2, <4>7
        <5> QED BY <4>5, <4>6, <5>1
      <4>8. CASE ~z.ok
        <5>1. cut = undone
          BY <3>2, <4>8
        <5>2. EntryTried(z, f, Eoc, undone)
          BY <1>2, <2>1, <4>6, EntryTriedLemma DEF Inv
        <5> HIDE DEF undone
        <5>3. undone \in Machines /\ FatInv(undone) /\ DataInv(undone) /\ z.faults \subseteq undone.faults
          BY <4>6, <5>2, BesideKeepsData DEF EntryTried, Beside, Inv
        <5>4. z.told \in [Copies -> [Clusters -> Links]] /\ z.told[1] \in [Clusters -> Links]
          BY <4>6 DEF Machines, Copies
        <5>5. ASSUME Sane(undone)
              PROVE  undone.told[1] = undone.told[2] /\ Chained(undone.told[1])
          <6>1. Sane(z) /\ undone.told \in {z.told, Told(z.told, f, Eoc)}
            BY <5>2, <5>5 DEF EntryTried
          <6>2. z.told[1] = z.told[2] /\ Chained(z.told[1])
            BY <4>6, <6>1 DEF Inv, ChainInv
          <6>3. CASE undone.told = Told(z.told, f, Eoc)
            <7>0. \A k \in {1, 2} : undone.told[k] = Upd(z.told[k], f, Eoc)
              <8>1. z.told \in [Copies -> [Clusters -> Links]] /\ f \in Clusters /\ Eoc \in Links
                BY <1>2, <2>1, <5>4
              <8> QED BY <6>3, <8>1, ToldLemma
            <7>1. undone.told[1] = Upd(z.told[1], f, Eoc) /\ undone.told[2] = Upd(z.told[2], f, Eoc)
              BY <7>0
            <7>2. Chained(Upd(z.told[1], f, Eoc))
              BY <1>2, <5>4, <6>2, EndedChain
            <7> QED BY <6>2, <7>1, <7>2
          <6> QED BY <6>1, <6>2, <6>3
        <5>6. Later(z, undone)
          BY <5>3, <5>5 DEF Later, Inv, ChainInv
        <5> QED BY <4>5, <5>1, <5>3, <5>6, LaterIsTransitive
      <4> QED BY <4>7, <4>8
    <3> QED BY <3>1, <3>2
  <2> HIDE DEF cut
  <2>10. Later(m, cut) /\ Inv(cut)
    BY <1>4, <2>8, <2>9, LaterIsTransitive DEF Later
  <2>11. CASE ~cut.ok
    BY <1>1, <1>6, <2>10, <2>11
  <2>12. CASE cut.ok
    <3>1. "zero" \in Contents /\ "zero" \in Writes
      BY DEF Contents, Writes
    <3>2. Written(cut, f, "zero", w)
      BY <1>2, <2>9, <2>10, <2>12, <3>1, WriteClusterLemma DEF Inv
    <3> HIDE DEF w
    <3>3. Later(cut, blank) /\ blank.ok /\ blank \in Machines
      <4>1. CASE w.ok
        <5>1. blank = Given(w, f, "zero")
          BY <4>1
        <5> QED BY <1>2, <2>10, <3>1, <3>2, <4>1, <5>1, GivenIsLater DEF Later, Inv
      <4>2. CASE ~w.ok
        <5>1. blank = Succeeding(w)
          BY <4>2
        <5>2. Later(cut, w) /\ w \in Machines /\ Inv(w)
          BY <2>10, <3>2, <4>2, WrittenIsLater DEF Later, Inv
        <5>3. Later(w, Succeeding(w)) /\ Succeeding(w).ok
          BY <5>2, RecastCases, RecastLemma
        <5> QED BY <5>1, <5>2, <5>3, LaterIsTransitive DEF Later, Inv
      <4> QED BY <4>1, <4>2
    <3> HIDE DEF blank
    <3>4. Later(m, blank) /\ Inv(blank)
      BY <2>10, <3>3, LaterIsTransitive DEF Later
    <3>5. Later(m, UpdateDirEntry(blank))
      BY <3>3, <3>4, UpdateDirEntryLemma, LaterIsTransitive
    <3> QED BY <1>1, <1>6, <2>12, <3>3, <3>5
  <2> QED BY <2>11, <2>12
<1> QED BY <1>5, <1>6

(***************************************************************************)
(* The invariant of the specification: its variables are those of a        *)
(* machine between two operations.                                         *)
(***************************************************************************)
CacheIInv ==
  /\ disk \in Disks /\ fcache \in Seq(Lines) /\ ccache \in Seq(Blocks)
  /\ latest \in [Clusters -> Writes] /\ told \in [Copies -> [Clusters -> Links]]
  /\ faults \in SUBSET Mishaps
  /\ Held(fcache) /\ CacheHeld(ccache)
  /\ "sync" \notin faults => Reads(disk.fat, fcache, told) /\ Saved(disk.fat, fcache)
  /\ faults \cap {"read", "write"} = {} => Kept(disk.data, ccache, latest)
  /\ faults \cap {"midway", "sync", "power"} = {} => told[1] = told[2] /\ Chained(told[1])

(* An operation starts on a machine of which everything holds that holds   *)
(* between two functions.                                                  *)
LEMMA MachineLemma ==
    ASSUME CacheIInv, NEW bad \in Nat, NEW sticky \in BOOLEAN, NEW partial \in BOOLEAN
    PROVE  LET m == Machine(bad, sticky, partial) IN m \in Machines /\ Inv(m) /\ m.ok
<1> DEFINE m == Machine(bad, sticky, partial)
<1>1. m \in Machines
  BY DEF CacheIInv, Machine, Machines, Contents, Writes
<1>2. /\ m.disk = disk /\ m.fcache = fcache /\ m.ccache = ccache
      /\ m.latest = latest /\ m.told = told /\ m.faults = faults /\ m.ok
  BY DEF Machine
<1> HIDE DEF m
<1>3. FatInv(m) /\ DataInv(m) /\ ChainInv(m)
  BY <1>2 DEF CacheIInv, FatInv, DataInv, ChainInv, Unhurt, Sane
<1> QED BY <1>1, <1>2, <1>3 DEF Inv, m

(* The machine an operation leaves is the state after it.                  *)
LEMMA BecomesLemma ==
    ASSUME NEW m, Inv(m), BecomesMachine(m)
    PROVE  CacheIInv'
<1>1. m \in Machines /\ FatInv(m) /\ DataInv(m) /\ ChainInv(m)
  BY DEF Inv
<1>2. /\ disk' \in Disks /\ fcache' \in Seq(Lines) /\ ccache' \in Seq(Blocks)
      /\ latest' \in [Clusters -> Writes] /\ told' \in [Copies -> [Clusters -> Links]]
      /\ faults' \in SUBSET Mishaps
  BY <1>1 DEF BecomesMachine, Machines
<1>3. /\ Held(fcache') /\ CacheHeld(ccache')
      /\ "sync" \notin faults' => Reads(disk'.fat, fcache', told') /\ Saved(disk'.fat, fcache')
      /\ faults' \cap {"read", "write"} = {} => Kept(disk'.data, ccache', latest')
      /\ faults' \cap {"midway", "sync", "power"} = {} => told'[1] = told'[2] /\ Chained(told'[1])
  BY <1>1 DEF BecomesMachine, FatInv, DataInv, ChainInv, Unhurt, Sane
<1> QED BY <1>2, <1>3 DEF CacheIInv

(* The two lines of fat32_mount are not of the FAT.                        *)
LEMMA MountedLemma ==
    /\ Mounted \in Seq(Lines) /\ Held(Mounted)
    /\ \A i \in DOMAIN Mounted : Mounted[i].lba \notin FatSectors /\ ~Mounted[i].dirty
<1>1. FatLine(<<0, 0>>, <<>>) \in Lines /\ FatLine(<<0, 1>>, <<>>) \in Lines
  BY DEF FatLine, Lines, Sectors, Vals
<1>2. <<0, 0>> \notin FatSectors /\ <<0, 1>> \notin FatSectors
  BY DEF FatSectors, SectorOf, Copies
<1>3. Mounted \in Seq(Lines) /\ Len(Mounted) = 2 /\ DOMAIN Mounted = 1..2
      /\ Mounted[1] = FatLine(<<0, 0>>, <<>>) /\ Mounted[2] = FatLine(<<0, 1>>, <<>>)
  BY <1>1 DEF Mounted
<1>4. \A i \in 1..2 : i = 1 \/ i = 2
  OBVIOUS
<1>4a. /\ FatLine(<<0, 0>>, <<>>).lba = <<0, 0>> /\ ~FatLine(<<0, 0>>, <<>>).dirty
       /\ FatLine(<<0, 1>>, <<>>).lba = <<0, 1>> /\ ~FatLine(<<0, 1>>, <<>>).dirty
  BY DEF FatLine
<1>5. \A i \in DOMAIN Mounted : Mounted[i].lba \notin FatSectors /\ ~Mounted[i].dirty
  BY <1>2, <1>3, <1>4, <1>4a
<1>6. \A i, j \in DOMAIN Mounted : Mounted[i].lba = Mounted[j].lba => i = j
  BY <1>3, <1>4 DEF FatLine
<1>7. Held(Mounted)
  BY <1>3, <1>5, <1>6, CacheAssumption DEF Held
<1> QED BY <1>3, <1>5, <1>7

(* A FAT read from the disk alone.                                         *)
OnDisk(fat) == [k \in Copies |-> [c \in Clusters |-> fat[SectorOf(k, c)][c]]]

(* After a mount, the FAT reads as it is on the disk.                      *)
LEMMA MountLemma ==
    ASSUME NEW fat \in Fats
    PROVE  /\ OnDisk(fat) \in [Copies -> [Clusters -> Links]]
           /\ Reads(fat, Mounted, OnDisk(fat)) /\ Saved(fat, Mounted)
<1>1. \A k \in Copies, c \in Clusters : fat[SectorOf(k, c)][c] \in Links
  BY SectorFacts DEF Fats
<1>2. OnDisk(fat) \in [Copies -> [Clusters -> Links]]
  BY <1>1 DEF OnDisk
<1>3. \A k \in Copies, c \in Clusters : OnDisk(fat)[k][c] = fat[SectorOf(k, c)][c]
  BY DEF OnDisk
<1>4. Reads(fat, Mounted, OnDisk(fat))
  BY <1>3, SectorFacts, MountedLemma DEF Reads
<1>5. Saved(fat, Mounted)
  BY MountedLemma DEF Saved
<1> QED BY <1>2, <1>4, <1>5

(* The disk of an empty file system, mounted.                              *)
LEMMA CacheInitLemma == CacheInit => CacheIInv
<1> SUFFICES ASSUME CacheInit
             PROVE  CacheIInv
  OBVIOUS
<1> DEFINE full(c) == IF c \in Files \cup {Dir} THEN Eoc ELSE 0
           fat == [s \in FatSectors |-> [c \in In(s) |-> full(c)]]
           data == [c \in Clusters |-> IF c = Dir THEN "dir" ELSE "text"]
<1>1. disk = [fat |-> fat, data |-> data] /\ disk.fat = fat /\ disk.data = data
  BY DEF CacheInit
<1>2. fat \in Fats
  <2>1. \A s \in FatSectors : [c \in In(s) |-> full(c)] \in [In(s) -> Links]
    BY DEF Links
  <2>2. \A s \in FatSectors : [c \in In(s) |-> full(c)] \in Vals
    BY <2>1 DEF Vals
  <2> QED BY <2>1, <2>2 DEF Fats
<1>3. data \in [Clusters -> Writes] /\ data \in [Clusters -> Contents]
  BY CacheAssumption DEF Writes, Contents
<1>4. \A c \in Clusters, k \in Copies : OnDisk(fat)[k][c] = full(c)
  <2>1. ASSUME NEW c \in Clusters, NEW k \in Copies
        PROVE  fat[SectorOf(k, c)][c] = full(c)
    BY SectorFacts
  <2> QED BY <2>1 DEF OnDisk
<1> HIDE DEF fat, data
<1>5. /\ disk \in Disks /\ fcache = Mounted /\ ccache = <<>> /\ latest = data
      /\ told = OnDisk(fat) /\ faults = {}
  BY <1>1, <1>2, <1>3 DEF CacheInit, Disks, OnDisk
<1>6. told \in [Copies -> [Clusters -> Links]] /\ Reads(disk.fat, fcache, told)
      /\ Saved(disk.fat, fcache)
  BY <1>1, <1>2, <1>5, MountLemma
<1>7. ccache \in Seq(Blocks) /\ CacheHeld(ccache) /\ Kept(disk.data, ccache, latest)
  BY <1>1, <1>5, CacheAssumption DEF CacheHeld, Kept
<1>8. \A c \in Clusters : told[1][c] = full(c) /\ told[2][c] = full(c)
  BY <1>4, <1>5 DEF Copies
<1>9. told[1] = told[2]
  BY <1>6, <1>8 DEF Copies
<1>10. Chained(told[1])
  BY <1>8, ClusterFacts DEF Chained
<1> QED BY <1>3, <1>5, <1>6, <1>7, <1>9, <1>10, MountedLemma DEF CacheIInv

(* Power is lost: what the FAT said is what the disk says, but for a line  *)
(* that was dirty.                                                         *)
LEMMA PowerLossLemma ==
    ASSUME CacheIInv, PowerLoss
    PROVE  CacheIInv'
<1>1. /\ fcache' = Mounted /\ ccache' = <<>> /\ told' = OnDisk(disk.fat)
      /\ disk' = disk /\ latest' = latest
      /\ faults' = IF \E i \in DOMAIN fcache : fcache[i].dirty THEN faults \cup {"power"} ELSE faults
  BY DEF PowerLoss, OnDisk
<1>2. disk.fat \in Fats
  BY DEF CacheIInv, Disks
<1>3. told' \in [Copies -> [Clusters -> Links]] /\ Reads(disk'.fat, fcache', told')
      /\ Saved(disk'.fat, fcache') /\ Held(fcache') /\ fcache' \in Seq(Lines)
  BY <1>1, <1>2, MountLemma, MountedLemma
<1>4. faults' \in SUBSET Mishaps
  BY <1>1 DEF CacheIInv, Mishaps
<1>5. ccache' \in Seq(Blocks) /\ CacheHeld(ccache')
  BY <1>1, CacheAssumption DEF CacheHeld
<1>6. faults' \cap {"read", "write"} = {} => Kept(disk'.data, ccache', latest')
  BY <1>1 DEF CacheIInv, Kept
<1>7. ASSUME faults' \cap {"midway", "sync", "power"} = {}
      PROVE  told'[1] = told'[2] /\ Chained(told'[1])
  <2>1. faults' = faults /\ \A i \in DOMAIN fcache : ~fcache[i].dirty
    BY <1>1, <1>7
  <2>2. Reads(disk.fat, fcache, told) /\ Saved(disk.fat, fcache)
        /\ told[1] = told[2] /\ Chained(told[1])
    BY <1>7, <2>1 DEF CacheIInv
  <2>3. ASSUME NEW k \in Copies, NEW c \in Clusters
        PROVE  disk.fat[SectorOf(k, c)][c] = told[k][c]
    <3>1. CASE \E i \in DOMAIN fcache : fcache[i].lba = SectorOf(k, c)
      <4>1. PICK i \in DOMAIN fcache : fcache[i].lba = SectorOf(k, c)
        BY <3>1
      <4>2. disk.fat[SectorOf(k, c)] = fcache[i].val
        BY <2>1, <2>2, <4>1, SectorFacts DEF Saved
      <4> QED BY <2>2, <4>1, <4>2 DEF Reads
    <3>2. CASE ~\E i \in DOMAIN fcache : fcache[i].lba = SectorOf(k, c)
      BY <2>2, <3>2 DEF Reads
    <3> QED BY <3>1, <3>2
  <2>4. told \in [Copies -> [Clusters -> Links]]
    BY DEF CacheIInv
  <2>5. \A k \in Copies : told[k] = [c \in Clusters |-> told[k][c]]
    BY <2>4
  <2>6. told' = told
    <3>1. \A k \in Copies : OnDisk(disk.fat)[k] = [c \in Clusters |-> told[k][c]]
      BY <2>3 DEF OnDisk
    <3>2. OnDisk(disk.fat) = [k \in Copies |-> OnDisk(disk.fat)[k]]
      BY DEF OnDisk
    <3>3. told = [k \in Copies |-> told[k]]
      BY <2>4
    <3> QED BY <1>1, <2>5, <3>1, <3>2, <3>3
  <2> QED BY <2>2, <2>6
<1> QED BY <1>1, <1>3, <1>4, <1>5, <1>6, <1>7 DEF CacheIInv

(* Every operation and a loss of power keep the invariant.                 *)
LEMMA CacheStepLemma ==
    ASSUME CacheIInv, [CacheNext]_cvars
    PROVE  CacheIInv'
<1>1. CASE Write
  <2>1. PICK f \in Files, k \in 1..MaxChain, v \in Tokens : Run(LAMBDA m : WriteFile(m, f, k, v))
    BY <1>1 DEF Write
  <2>2. \A bad \in Nat, sticky \in BOOLEAN, partial \in BOOLEAN :
          Inv(WriteFile(Machine(bad, sticky, partial), f, k, v))
    BY MachineLemma, WriteFileLemma DEF Later
  <2>3. WriteFile(Machine(0, FALSE, FALSE), f, k, v).n \in Nat
    BY <2>2 DEF Inv, Machines
  <2>4. \E bad \in Nat, sticky \in BOOLEAN, partial \in BOOLEAN :
          BecomesMachine(WriteFile(Machine(bad, sticky, partial), f, k, v))
    <3> DEFINE well == WriteFile(Machine(0, FALSE, FALSE), f, k, v)
    <3>1. \/ BecomesMachine(well)
          \/ \E bad \in 1..well.n, sticky \in BOOLEAN, partial \in BOOLEAN :
               BecomesMachine(WriteFile(Machine(bad, sticky, partial), f, k, v))
      BY <2>1, Zenon DEF Run
    <3>2. well.n \in Nat /\ FALSE \in BOOLEAN /\ 0 \in Nat
      BY <2>3
    <3>3. CASE BecomesMachine(well)
      BY <3>2, <3>3, Zenon
    <3> HIDE DEF well
    <3>4. \A bad \in 1..well.n : bad \in Nat
      BY <3>2
    <3> QED BY <3>1, <3>3, <3>4
  <2> QED BY <2>2, <2>4, BecomesLemma
<1>2. CASE Read
  <2>1. PICK f \in Files, k \in 1..MaxChain : Run(LAMBDA m : ReadFile(m, f, k))
    BY <1>2 DEF Read
  <2>2. \A bad \in Nat, sticky \in BOOLEAN, partial \in BOOLEAN :
          Inv(ReadFile(Machine(bad, sticky, partial), f, k))
    BY MachineLemma, ReadFileLemma DEF Later
  <2>3. ReadFile(Machine(0, FALSE, FALSE), f, k).n \in Nat
    BY <2>2 DEF Inv, Machines
  <2>4. \E bad \in Nat, sticky \in BOOLEAN, partial \in BOOLEAN :
          BecomesMachine(ReadFile(Machine(bad, sticky, partial), f, k))
    <3> DEFINE well == ReadFile(Machine(0, FALSE, FALSE), f, k)
    <3>1. \/ BecomesMachine(well)
          \/ \E bad \in 1..well.n, sticky \in BOOLEAN, partial \in BOOLEAN :
               BecomesMachine(ReadFile(Machine(bad, sticky, partial), f, k))
      BY <2>1, Zenon DEF Run
    <3>2. well.n \in Nat /\ FALSE \in BOOLEAN /\ 0 \in Nat
      BY <2>3
    <3>3. CASE BecomesMachine(well)
      BY <3>2, <3>3, Zenon
    <3> HIDE DEF well
    <3>4. \A bad \in 1..well.n : bad \in Nat
      BY <3>2
    <3> QED BY <3>1, <3>3, <3>4
  <2> QED BY <2>2, <2>4, BecomesLemma
<1>3. CASE Cut
  <2>1. PICK f \in Files : Run(LAMBDA m : Truncate(m, f))
    BY <1>3 DEF Cut
  <2>2. \A bad \in Nat, sticky \in BOOLEAN, partial \in BOOLEAN :
          Inv(Truncate(Machine(bad, sticky, partial), f))
    BY MachineLemma, TruncateLemma DEF Later
  <2>3. Truncate(Machine(0, FALSE, FALSE), f).n \in Nat
    BY <2>2 DEF Inv, Machines
  <2>4. \E bad \in Nat, sticky \in BOOLEAN, partial \in BOOLEAN :
          BecomesMachine(Truncate(Machine(bad, sticky, partial), f))
    <3> DEFINE well == Truncate(Machine(0, FALSE, FALSE), f)
    <3>1. \/ BecomesMachine(well)
          \/ \E bad \in 1..well.n, sticky \in BOOLEAN, partial \in BOOLEAN :
               BecomesMachine(Truncate(Machine(bad, sticky, partial), f))
      BY <2>1, Zenon DEF Run
    <3>2. well.n \in Nat /\ FALSE \in BOOLEAN /\ 0 \in Nat
      BY <2>3
    <3>3. CASE BecomesMachine(well)
      BY <3>2, <3>3, Zenon
    <3> HIDE DEF well
    <3>4. \A bad \in 1..well.n : bad \in Nat
      BY <3>2
    <3> QED BY <3>1, <3>3, <3>4
  <2> QED BY <2>2, <2>4, BecomesLemma
<1>4. CASE Close
  <2>1. Run(CloseFile)
    BY <1>4 DEF Close
  <2>2. \A bad \in Nat, sticky \in BOOLEAN, partial \in BOOLEAN :
          Inv(CloseFile(Machine(bad, sticky, partial)))
    BY MachineLemma, CloseFileLemma DEF Later
  <2>3. CloseFile(Machine(0, FALSE, FALSE)).n \in Nat
    BY <2>2 DEF Inv, Machines
  <2>4. \E bad \in Nat, sticky \in BOOLEAN, partial \in BOOLEAN :
          BecomesMachine(CloseFile(Machine(bad, sticky, partial)))
    <3> DEFINE well == CloseFile(Machine(0, FALSE, FALSE))
    <3>1. \/ BecomesMachine(well)
          \/ \E bad \in 1..well.n, sticky \in BOOLEAN, partial \in BOOLEAN :
               BecomesMachine(CloseFile(Machine(bad, sticky, partial)))
      BY <2>1, Zenon DEF Run
    <3>2. well.n \in Nat /\ FALSE \in BOOLEAN /\ 0 \in Nat
      BY <2>3
    <3>3. CASE BecomesMachine(well)
      BY <3>2, <3>3, Zenon
    <3> HIDE DEF well
    <3>4. \A bad \in 1..well.n : bad \in Nat
      BY <3>2
    <3> QED BY <3>1, <3>3, <3>4
  <2> QED BY <2>2, <2>4, BecomesLemma
<1>5. CASE PowerLoss
  BY <1>5, PowerLossLemma
<1>6. CASE UNCHANGED cvars
  BY <1>6 DEF cvars, CacheIInv
<1> QED BY <1>1, <1>2, <1>3, <1>4, <1>5, <1>6 DEF CacheNext

(* The invariant holds in every state that fat32.c can reach.              *)
THEOREM CacheInvariant == CacheSpec => []CacheIInv
<1> QED BY CacheInitLemma, CacheStepLemma, PTL DEF CacheSpec

(* What fat32_get_sector gives is what the FAT was told.                   *)
LEMMA ViewLemma ==
    ASSUME CacheIInv, "sync" \notin faults, NEW k \in Copies, NEW c \in Clusters
    PROVE  View(k, c) = told[k][c]
<1> DEFINE lines == {i \in DOMAIN fcache : fcache[i].lba = SectorOf(k, c)}
<1>1. Reads(disk.fat, fcache, told)
  BY DEF CacheIInv
<1>2. CASE lines = {}
  <2>1. View(k, c) = disk.fat[SectorOf(k, c)][c]
    BY <1>2 DEF View
  <2> QED BY <1>1, <1>2, <2>1 DEF Reads
<1>3. CASE lines # {}
  <2> DEFINE i == CHOOSE j \in lines : TRUE
  <2>1. i \in lines
    BY <1>3
  <2>2. View(k, c) = fcache[i].val[c]
    BY <1>3 DEF View
  <2> HIDE DEF i
  <2> QED BY <1>1, <2>1, <2>2 DEF Reads
<1> QED BY <1>2, <1>3

(* What fat32_read_cluster would give is what the cluster was last given.  *)
LEMMA ShownLemma ==
    ASSUME CacheIInv, NEW c \in Clusters
    PROVE  /\ Shown(c) \in Contents
           /\ faults \cap {"read", "write"} = {} => Shown(c) = latest[c]
<1> DEFINE lines == {i \in DOMAIN ccache : ccache[i].cluster = c}
<1>1. ccache \in Seq(Blocks) /\ disk.data \in [Clusters -> Contents]
  BY DEF CacheIInv, Disks
<1>2. CASE lines = {}
  <2>1. Shown(c) = disk.data[c]
    BY <1>2 DEF Shown
  <2> QED BY <1>1, <2>1 DEF CacheIInv, Kept
<1>3. CASE lines # {}
  <2> DEFINE i == CHOOSE j \in lines : TRUE
  <2>1. i \in lines
    BY <1>3
  <2>2. Shown(c) = ccache[i].val
    BY <1>3 DEF Shown
  <2> HIDE DEF i
  <2>3. ccache[i] \in Blocks
    BY <1>1, <2>1
  <2>4. ccache[i].val \in Contents
    BY <2>3 DEF Blocks
  <2> QED BY <2>1, <2>2, <2>4 DEF CacheIInv, Kept
<1> QED BY <1>2, <1>3

(* What the run checks of the FAT holds for any number of entries, lines,  *)
(* files and operations.                                                   *)
THEOREM FatKept == CacheSpec => []FatIsKept
<1>1. CacheIInv => FatIsKept
  <2> SUFFICES ASSUME CacheIInv
               PROVE  FatIsKept
    OBVIOUS
  <2>1. CacheTypeOK
    <3>1. \A s \in FatSectors, c \in Clusters :
             c \in In(s) => disk.fat[s][c] \in {0, Eoc} \cup Clusters
      BY DEF CacheIInv, Disks, Fats, Links
    <3>2. /\ Len(fcache) <= FatLines /\ Len(ccache) <= ClusterLines
          /\ \A i, j \in DOMAIN fcache : fcache[i].lba = fcache[j].lba => i = j
          /\ \A i, j \in DOMAIN ccache : ccache[i].cluster = ccache[j].cluster => i = j
      BY DEF CacheIInv, Held, CacheHeld
    <3>3. ASSUME NEW c \in Clusters
          PROVE  disk.data[c] \in Contents /\ latest[c] \in Contents /\ Shown(c) \in Contents
      BY ShownLemma DEF CacheIInv, Disks, Contents
    <3> QED BY <3>1, <3>2, <3>3 DEF CacheTypeOK, Contents, Writes
  <2>2. FatIsTransparent
    BY ViewLemma DEF FatIsTransparent
  <2>3. CleanMeansSaved
    BY DEF CleanMeansSaved, CacheIInv, Saved
  <2>4. ASSUME faults \cap {"midway", "sync", "power"} = {}
        PROVE  /\ \A c \in Clusters : View(1, c) = told[1][c] /\ View(2, c) = told[1][c]
               /\ Chained(told[1])
    BY <2>4, ViewLemma DEF CacheIInv, Copies
  <2>5. ChainsSurvive
    BY <2>4, ClusterFacts DEF ChainsSurvive, Chained
  <2>6. CopiesAgree
    BY <2>4 DEF CopiesAgree
  <2> QED BY <2>1, <2>2, <2>3, <2>5, <2>6 DEF FatIsKept
<1> QED BY <1>1, CacheInvariant, PTL

(* So does what it checks of the clusters.                                 *)
THEOREM DataKept == CacheSpec => []DataIsKept
<1>1. CacheIInv => DataIsKept
  BY ShownLemma DEF DataIsKept, CacheIInv, Kept
<1> QED BY <1>1, CacheInvariant, PTL

(* Both together are what the run checks.                                  *)
THEOREM CacheKept == CacheSpec => []CacheIsKept
BY FatKept, DataKept, PTL DEF CacheIsKept
=============================================================================
