---------------------------- MODULE KernelProofs ----------------------------
(***************************************************************************)
(* What the kernel gives to programs, for every number of them: their      *)
(* address spaces, the list the scheduler takes turns by, the loader, the  *)
(* mutex of the log, and the heap, whatever its size and the requests.     *)
(***************************************************************************)
EXTENDS AddressSpace, RunList, Loader, LogMutex, Heap, SequenceLemmas, FiniteSetTheorems

(***************************************************************************)
(* Page tables: a descriptor is what was asked for its page, merged.       *)
(***************************************************************************)
Access  == [ap : {"none", "ro", "rw", "kernel"}, xn : BOOLEAN]
Askable == {KernelOnly} \cup [ap : {"ro", "rw"}, xn : BOOLEAN]

PageHalves == HeapPages \X {"front", "back"}

Over(asks, p) == {a[2] : a \in {b \in asks : b[1] = p}}

AccessFor(over) ==
  IF over = {} THEN Unmapped
  ELSE IF KernelOnly \in over THEN KernelOnly
  ELSE [ap |-> IF \E d \in over : d.ap = "rw" THEN "rw" ELSE "ro",
        xn |-> \A d \in over : d.xn]

IsMerged(tab, asks) == \A p \in AllPages : tab[p] = AccessFor(Over(asks, p))

SpaceTypeOK ==
  /\ table \in [Tasks -> [AllPages -> Access]]
  /\ direct \in [Tasks -> SUBSET HeapPages]
  /\ asked \in [Tasks -> SUBSET (AllPages \X Askable)]
  /\ owner \in [Tasks -> Tasks \cup {NoTask}]
  /\ kernel_stack \in [Tasks -> HeapPages \cup {NoPage}]
  /\ user_stack \in [Tasks -> HeapPages \cup {NoPage}]
  /\ surface \in [Tasks -> HeapPages \cup {NoPage}]
  /\ taken \subseteq HeapPages /\ lent \subseteq PageHalves /\ kept \subseteq PageHalves
  /\ shown \in [Tasks -> SUBSET HeapPages]
  /\ \A t \in Tasks \ Live : surface[t] = NoPage

TablesAreMerged == \A t \in Tasks : IsMerged(table[t], asked[t])

(***************************************************************************)
(* A page of a stack holds nothing else and is one stack of one task.  A    *)
(* page that a table has for another reason than a surface is such a page,  *)
(* and belongs to a task of that table's program.                           *)
(***************************************************************************)
StackPages(v) == {kernel_stack[v], user_stack[v]}

StackIsKnown(p) ==
  /\ p \in taken => Halves(p) \cap (lent \cup kept) = {}
  /\ \A v \in Live : p \in StackPages(v) => p \in taken
  /\ \A v, w \in Live : p \in StackPages(v) \cap StackPages(w) => v = w
  /\ \A v \in Live : p = kernel_stack[v] => p # user_stack[v]

PageIsKnown(t, p) ==
  /\ p \in taken
  /\ \A v \in Live : p \in StackPages(v) => owner[v] = t
  /\ \A v \in Live : p = kernel_stack[v] => table[t][p] = KernelOnly

SpaceInv ==
  /\ SpaceTypeOK /\ TablesAreMerged
  /\ \A p \in HeapPages : StackIsKnown(p)
  /\ \A t \in InUseSpaces : \A p \in direct[t] \ shown[t] : PageIsKnown(t, p)

LEMMA OverAsk ==
    ASSUME NEW asks, NEW pages, NEW d, NEW p
    PROVE  /\ p \in pages => Over(asks \cup Ask(pages, d), p) = Over(asks, p) \cup {d}
           /\ p \notin pages => Over(asks \cup Ask(pages, d), p) = Over(asks, p)
<1>1. \A e : e \in Over(asks \cup Ask(pages, d), p) <=>
             \E a \in asks \cup Ask(pages, d) : a[1] = p /\ a[2] = e
  BY DEF Over
<1>2. \A e : e \in Over(asks, p) <=> \E a \in asks : a[1] = p /\ a[2] = e
  BY DEF Over
<1>3. \A e : (\E a \in Ask(pages, d) : a[1] = p /\ a[2] = e) <=> p \in pages /\ e = d
  <2>1. \A a : a \in Ask(pages, d) <=> \E q \in pages : a = <<q, d>>
    BY DEF Ask
  <2>2. ASSUME NEW a \in Ask(pages, d) PROVE a[1] \in pages /\ a[2] = d
    BY <2>1
  <2>3. ASSUME p \in pages PROVE \E a \in Ask(pages, d) : a[1] = p /\ a[2] = d
    <3>1. <<p, d>> \in Ask(pages, d) /\ <<p, d>>[1] = p /\ <<p, d>>[2] = d
      BY <2>1, <2>3
    <3> QED BY <3>1
  <2> QED BY <2>2, <2>3, Zenon
<1>4. \A e : e \in Over(asks \cup Ask(pages, d), p) <=>
             e \in Over(asks, p) \/ (p \in pages /\ e = d)
  BY <1>1, <1>2, <1>3
<1> QED BY <1>4

LEMMA OverForget ==
    ASSUME NEW asks, NEW pages, NEW p
    PROVE  Over(Forget(asks, pages), p) = IF p \in pages THEN {} ELSE Over(asks, p)
BY DEF Over, Forget

LEMMA OverAskable ==
    ASSUME NEW asks \in SUBSET (AllPages \X Askable), NEW p
    PROVE  Over(asks, p) \subseteq Askable
BY DEF Over

LEMMA AccessForLemma ==
    ASSUME NEW over \in SUBSET Askable
    PROVE  /\ AccessFor(over) \in Access
           /\ AccessFor(over) = Unmapped <=> over = {}
           /\ AccessFor(over).ap = "kernel" <=> AccessFor(over) = KernelOnly
BY DEF AccessFor, Access, Unmapped, KernelOnly, Askable

(* One range more is merged into what is there, in whatever order.          *)
LEMMA CombinedMerges ==
    ASSUME NEW over \in SUBSET Askable, NEW d \in Askable
    PROVE  Combined(AccessFor(over), d) = AccessFor(over \cup {d})
<1>1. CASE over = {}
  <2>1. AccessFor({d}) = d
    BY DEF AccessFor, Askable
  <2> QED BY <1>1, <2>1 DEF Combined, AccessFor
<1>2. CASE over # {} /\ (KernelOnly \in over \/ d = KernelOnly)
  <2>1. AccessFor(over \cup {d}) = KernelOnly
    BY <1>2 DEF AccessFor
  <2>2. AccessFor(over).ap = "kernel" \/ d.ap = "kernel"
    BY <1>2 DEF AccessFor, KernelOnly
  <2>3. AccessFor(over) # Unmapped
    BY <1>2, AccessForLemma
  <2> QED BY <2>1, <2>2, <2>3 DEF Combined
<1>3. CASE over # {} /\ KernelOnly \notin over /\ d # KernelOnly
  <2>1. over \subseteq [ap : {"ro", "rw"}, xn : BOOLEAN] /\ d \in [ap : {"ro", "rw"}, xn : BOOLEAN]
    BY <1>3 DEF Askable
  <2>2. AccessFor(over) = [ap |-> IF \E e \in over : e.ap = "rw" THEN "rw" ELSE "ro",
                        xn |-> \A e \in over : e.xn]
    BY <1>3 DEF AccessFor
  <2>3. AccessFor(over) # Unmapped /\ AccessFor(over).ap # "kernel" /\ d.ap # "kernel"
    <3>1. AccessFor(over) # Unmapped
      BY <1>3, AccessForLemma
    <3>2. AccessFor(over).ap \in {"ro", "rw"} /\ d.ap \in {"ro", "rw"}
      BY <2>1, <2>2
    <3> QED BY <3>1, <3>2
  <2> DEFINE one == Combined(AccessFor(over), d)
             two == AccessFor(over \cup {d})
             ap1 == IF "rw" \in {AccessFor(over).ap, d.ap} THEN "rw" ELSE "ro"
             xn1 == AccessFor(over).xn /\ d.xn
             ap2 == IF \E e \in over \cup {d} : e.ap = "rw" THEN "rw" ELSE "ro"
             xn2 == \A e \in over \cup {d} : e.xn
  <2>4. one = [ap |-> ap1, xn |-> xn1]
    BY <2>3 DEF Combined
  <2>5. two = [ap |-> ap2, xn |-> xn2]
    BY <1>3 DEF AccessFor
  <2>6. ap1 = ap2
    <3>1. ("rw" \in {AccessFor(over).ap, d.ap}) <=> \E e \in over \cup {d} : e.ap = "rw"
      BY <2>2
    <3> QED BY <3>1
  <2>7. xn1 = xn2
    <3>1. (AccessFor(over).xn /\ d.xn) <=> \A e \in over \cup {d} : e.xn
      BY <2>2
    <3> QED BY <3>1
  <2> HIDE DEF one, two, ap1, ap2, xn1, xn2
  <2>8. one = two
    BY <2>4, <2>5, <2>6, <2>7
  <2> QED BY <2>8 DEF one, two
<1> QED BY <1>1, <1>2, <1>3

LEMMA MapRangeMerges ==
    ASSUME NEW tab, NEW asks \in SUBSET (AllPages \X Askable), IsMerged(tab, asks),
           NEW pages \in SUBSET AllPages, NEW d \in Askable
    PROVE  /\ IsMerged(MapRange(tab, pages, d), asks \cup Ask(pages, d))
           /\ MapRange(tab, pages, d) \in [AllPages -> Access]
           /\ asks \cup Ask(pages, d) \in SUBSET (AllPages \X Askable)
<1>1. asks \cup Ask(pages, d) \in SUBSET (AllPages \X Askable)
  BY DEF Ask
<1>2. ASSUME NEW p \in AllPages
      PROVE  MapRange(tab, pages, d)[p] = AccessFor(Over(asks \cup Ask(pages, d), p))
  <2>1. Over(asks, p) \in SUBSET Askable
    BY OverAskable
  <2>2. MapRange(tab, pages, d)[p] = IF p \in pages THEN Combined(tab[p], d) ELSE tab[p]
    BY DEF MapRange
  <2>3. tab[p] = AccessFor(Over(asks, p))
    BY DEF IsMerged
  <2>4. CASE p \in pages
    <3>1. Over(asks \cup Ask(pages, d), p) = Over(asks, p) \cup {d}
      BY <2>4, OverAsk
    <3>2. Combined(AccessFor(Over(asks, p)), d) = AccessFor(Over(asks, p) \cup {d})
      BY <2>1, CombinedMerges
    <3> QED BY <2>2, <2>3, <2>4, <3>1, <3>2, Zenon
  <2>5. CASE p \notin pages
    <3>1. Over(asks \cup Ask(pages, d), p) = Over(asks, p)
      BY <2>5, OverAsk
    <3> QED BY <2>2, <2>3, <2>5, <3>1, Zenon
  <2> QED BY <2>4, <2>5
<1>3. \A p \in AllPages : MapRange(tab, pages, d)[p] \in Access
  <2>1. \A p : Over(asks \cup Ask(pages, d), p) \in SUBSET Askable
    BY <1>1, OverAskable
  <2> QED BY <1>2, <2>1, AccessForLemma
<1>4. MapRange(tab, pages, d) = [p \in AllPages |-> MapRange(tab, pages, d)[p]]
  BY DEF MapRange
<1>5. MapRange(tab, pages, d) \in [AllPages -> Access]
  BY <1>3, <1>4
<1> QED BY <1>1, <1>2, <1>5 DEF IsMerged

LEMMA UnmapMerges ==
    ASSUME NEW tab \in [AllPages -> Access], NEW asks \in SUBSET (AllPages \X Askable),
           IsMerged(tab, asks), NEW pages
    PROVE  /\ IsMerged(Unmap(tab, pages), Forget(asks, pages))
           /\ Unmap(tab, pages) \in [AllPages -> Access]
           /\ Forget(asks, pages) \in SUBSET (AllPages \X Askable)
<1>1. Unmapped \in Access
  BY DEF Access, Unmapped
<1>2. ASSUME NEW p \in AllPages
      PROVE  Unmap(tab, pages)[p] = AccessFor(Over(Forget(asks, pages), p))
  <2>1. Unmap(tab, pages)[p] = IF p \in pages THEN Unmapped ELSE tab[p]
    BY DEF Unmap
  <2>2. CASE p \in pages
    <3>1. Over(Forget(asks, pages), p) = {}
      BY <2>2, OverForget
    <3> QED BY <2>1, <2>2, <3>1 DEF AccessFor
  <2>3. CASE p \notin pages
    <3>1. Over(Forget(asks, pages), p) = Over(asks, p)
      BY <2>3, OverForget
    <3> QED BY <2>1, <2>3, <3>1 DEF IsMerged
  <2> QED BY <2>2, <2>3
<1> QED BY <1>1, <1>2 DEF Unmap, Forget, IsMerged

LEMMA AskableAccess == Askable \subseteq Access
<1>1. KernelOnly \in Access
  BY DEF KernelOnly, Access
<1>2. ASSUME NEW d \in [ap : {"ro", "rw"}, xn : BOOLEAN] PROVE d \in Access
  BY DEF Access
<1> QED BY <1>1, <1>2 DEF Askable

(* The table of an image is what its ranges ask for.                       *)
LEMMA ImageMerges ==
    ASSUME NEW layout \in Layouts
    PROVE  /\ ImageTable(layout) \in [AllPages -> Access]
           /\ IsMerged(ImageTable(layout), ImageAsked(layout))
           /\ ImageAsked(layout) \in SUBSET (ImagePages \X Askable)
<1> DEFINE n == Len(layout)
           Tabs == [AllPages -> Access]
           Turn(i, tab) == MapRange(tab, layout[i].pages, Section(layout[i]))
           next_ == [i \in 1..n |-> [tab \in Tabs |-> Turn(i, tab)]]
           IsUpto(f) == f = [i \in 0..n |-> IF i = 0 THEN Empty ELSE Turn(i, f[i - 1])]
           Upto == CHOOSE f : IsUpto(f)
           AskedUpto(i) == UNION {Ask(layout[j].pages, Section(layout[j])) : j \in 1..i}
<1>1. n \in Nat /\ ImageTable(layout) = Upto[n]
  BY AllPagesAssumption DEF ImageTable
<1>2. ASSUME NEW i \in 1..n
      PROVE  /\ layout[i].pages \in SUBSET ImagePages /\ layout[i].pages \in SUBSET AllPages
             /\ Section(layout[i]) \in Askable
  <2> DEFINE Range_ == [pages : SUBSET ImagePages, write : BOOLEAN, exec : BOOLEAN]
  <2>1. layout[i] \in Range_
    <3>1. layout \in Seq(Range_)
      BY AllPagesAssumption
    <3> HIDE DEF Range_
    <3> QED BY <1>2, <3>1
  <2>2. Section(layout[i]) \in Askable
    BY <2>1 DEF Section, Askable
  <2> QED BY <2>1, <2>2 DEF AllPages
<1>3. Empty \in Tabs
  BY DEF Empty, Unmapped, Access
<1>4. ASSUME NEW i \in 1..n, NEW tab \in Tabs PROVE Turn(i, tab) \in Tabs
  <2>1. \A p \in AllPages : Combined(tab[p], Section(layout[i])) \in Access
    <3>1. Askable \subseteq Access
      BY AskableAccess
    <3>2. \A p \in AllPages : tab[p] \in Access /\ Section(layout[i]) \in Access
      BY <1>2, <3>1
    <3> QED BY <3>2 DEF Combined, Access, KernelOnly
  <2> QED BY <2>1 DEF MapRange
<1> HIDE DEF Turn, Tabs, n
<1>5. next_ \in [1..n -> [Tabs -> Tabs]]
  BY <1>4
<1>6. PICK f : StepsFrom(f, Empty, n, Tabs, next_)
  <2> HIDE DEF next_
  <2> QED BY <1>1, <1>3, <1>5, RecursionExists
<1>7. ASSUME NEW i \in 1..n PROVE f[i] = Turn(i, f[i - 1])
  <2>1. f[i] = next_[i][f[i - 1]] /\ f[i - 1] \in Tabs
    <3>1. i - 1 \in 0..n
      BY <1>1
    <3> HIDE DEF next_
    <3> QED BY <1>6, <3>1 DEF StepsFrom
  <2>2. \A tab \in Tabs : next_[i][tab] = Turn(i, tab)
    OBVIOUS
  <2> QED BY <2>1, <2>2
<1>8. IsUpto(f)
  <2>1. f \in [0..n -> Tabs] /\ f[0] = Empty
    BY <1>6 DEF StepsFrom
  <2>2. ASSUME NEW i \in 0..n
        PROVE  f[i] = IF i = 0 THEN Empty ELSE Turn(i, f[i - 1])
    <3>1. i = 0 \/ i \in 1..n
      BY <1>1
    <3> QED BY <1>7, <2>1, <3>1
  <2> QED BY <2>1, <2>2
<1>9. IsUpto(Upto)
  BY <1>8
<1> HIDE DEF Upto
<1>10. /\ Upto[0] = Empty
       /\ \A i \in 1..n : Upto[i] = Turn(i, Upto[i - 1])
  BY <1>1, <1>9
<1> HIDE DEF IsUpto, next_
<1>11. ASSUME NEW i \in 0..n
       PROVE  AskedUpto(i) \in SUBSET (AllPages \X Askable)
  <2>1. \A j \in 1..i : j \in 1..n
    BY <1>1
  <2> QED BY <1>2, <2>1 DEF Ask
<1> DEFINE Good == {i \in 0..n : Upto[i] \in Tabs /\ IsMerged(Upto[i], AskedUpto(i))}
<1>12. \A i \in 0..n : i \in Good
  <2>1. 0 \in Good
    <3>1. AskedUpto(0) = {}
      OBVIOUS
    <3>2. IsMerged(Empty, {})
      BY DEF IsMerged, Empty, Over, AccessFor
    <3> QED BY <1>1, <1>3, <1>10, <3>1, <3>2
  <2>2. ASSUME NEW k \in 0..(n - 1), k \in Good PROVE k + 1 \in Good
    <3>1. k + 1 \in 1..n /\ k \in 0..n /\ Upto[k] \in Tabs /\ IsMerged(Upto[k], AskedUpto(k))
      BY <1>1, <2>2
    <3>2. Upto[k + 1] = Turn(k + 1, Upto[k])
      BY <1>10, <3>1
    <3>3. AskedUpto(k + 1)
            = AskedUpto(k) \cup Ask(layout[k + 1].pages, Section(layout[k + 1]))
      <4>1. 1..(k + 1) = (1..k) \cup {k + 1}
        BY <3>1
      <4> QED BY <4>1
    <3>4. IsMerged(Turn(k + 1, Upto[k]), AskedUpto(k + 1))
      <4>1. AskedUpto(k) \in SUBSET (AllPages \X Askable)
        BY <1>11, <3>1
      <4> DEFINE pages == layout[k + 1].pages
                 d == Section(layout[k + 1])
      <4>2. pages \in SUBSET AllPages /\ d \in Askable
        BY <1>2, <3>1
      <4> HIDE DEF AskedUpto, pages, d
      <4>3. IsMerged(MapRange(Upto[k], pages, d), AskedUpto(k) \cup Ask(pages, d))
        BY <3>1, <4>1, <4>2, MapRangeMerges
      <4> QED BY <3>3, <4>3 DEF Turn, pages, d
    <3>5. Turn(k + 1, Upto[k]) \in Tabs
      BY <1>4, <3>1
    <3> HIDE DEF AskedUpto
    <3> QED BY <1>1, <3>1, <3>2, <3>4, <3>5
  <2> HIDE DEF Good
  <2> QED BY <1>1, <2>1, <2>2, IntervalInduction
<1>13. ImageAsked(layout) = AskedUpto(n)
  <2>1. ToSet(layout) = {layout[j] : j \in 1..n}
    BY AllPagesAssumption DEF ToSet, n
  <2> QED BY <2>1 DEF ImageAsked
<1>14. ImageAsked(layout) \in SUBSET (ImagePages \X Askable)
  <2>1. \A j \in 1..n : Ask(layout[j].pages, Section(layout[j])) \in SUBSET (ImagePages \X Askable)
    BY <1>2 DEF Ask
  <2> QED BY <1>13, <2>1
<1>15. n \in Good
  BY <1>1, <1>12
<1> QED BY <1>1, <1>13, <1>14, <1>15 DEF Tabs

-----------------------------------------------------------------------------
(* Steps.  First what they do to one table: pages are mapped into it, which *)
(* adds to what it is asked for, or unmapped, which forgets it.             *)

LEMMA KernelAndUserAskable == KernelOnly \in Askable /\ UserData \in Askable
BY DEF Askable, UserData

(* The stacks of a new task are two pages nothing else has.                 *)
LEMMA StacksAreTwo ==
    ASSUME NEW k \in Free, NEW u \in Free, Cardinality(Free) > 1, Stacks(k, u)
    PROVE  u # k
<1>1. Free \ {k} # {}
  <2> SUFFICES ASSUME Free = {k} PROVE FALSE
    OBVIOUS
  <2>1. Cardinality({k}) = 1
    BY FS_Singleton
  <2> QED BY <2>1
<1>2. Free \ {k} \in SUBSET Nat
  BY AllPagesAssumption DEF Free
<1>3. PICK m \in Free \ {k} : \A x \in Free \ {k} : m <= x
  BY <1>1, <1>2, MinExists
<1>4. u = CHOOSE x \in Free \ {k} : \A y \in Free \ {k} : x <= y
  BY DEF Stacks, Min
<1> HIDE DEF Free
<1>5. u \in Free \ {k}
  BY <1>3, <1>4
<1> QED BY <1>5

LEMMA FreePage ==
    ASSUME NEW p \in Free
    PROVE  p \in HeapPages /\ p \notin taken /\ Halves(p) \cap (lent \cup kept) = {}
BY DEF Free, FreeHalves, Halves

LEMMA NewStacksMerge ==
    ASSUME NEW tab, NEW asks \in SUBSET (AllPages \X Askable), IsMerged(tab, asks),
           NEW k \in HeapPages, NEW u \in HeapPages
    PROVE  LET mapped == MapRange(MapRange(tab, {u}, UserData), {k}, KernelOnly)
               wanted == asks \cup Ask({u}, UserData) \cup Ask({k}, KernelOnly)
           IN /\ IsMerged(mapped, wanted)
              /\ mapped \in [AllPages -> Access]
              /\ wanted \in SUBSET (AllPages \X Askable)
<1>1. {u} \in SUBSET AllPages /\ {k} \in SUBSET AllPages
  BY DEF AllPages
<1>2. /\ IsMerged(MapRange(tab, {u}, UserData), asks \cup Ask({u}, UserData))
      /\ asks \cup Ask({u}, UserData) \in SUBSET (AllPages \X Askable)
  BY <1>1, KernelAndUserAskable, MapRangeMerges
<1> DEFINE once == MapRange(tab, {u}, UserData)
           askedOnce == asks \cup Ask({u}, UserData)
<1> HIDE DEF once, askedOnce
<1>3. /\ IsMerged(MapRange(once, {k}, KernelOnly), askedOnce \cup Ask({k}, KernelOnly))
      /\ MapRange(once, {k}, KernelOnly) \in [AllPages -> Access]
      /\ askedOnce \cup Ask({k}, KernelOnly) \in SUBSET (AllPages \X Askable)
  BY <1>1, <1>2, KernelAndUserAskable, MapRangeMerges DEF once, askedOnce
<1> QED BY <1>3 DEF once, askedOnce

(* A new task, of the program o: its stacks are mapped in one table.        *)
NewTask(t, o, k, u) ==
  /\ u # k /\ taken' = taken \cup {k, u} /\ lent' = lent /\ kept' = kept
  /\ owner' = [owner EXCEPT ![t] = o]
  /\ kernel_stack' = [kernel_stack EXCEPT ![t] = k]
  /\ user_stack' = [user_stack EXCEPT ![t] = u]
  /\ \A q \in InUseSpaces \cup {o} : \A p \in direct'[q] \ shown'[q] :
       \/ q = o /\ p \in {k, u}
       \/ q \in InUseSpaces /\ p \in direct[q] \ shown[q]
          /\ (p \notin {k, u} => table'[q][p] = table[q][p])
  /\ table'[o][k] = KernelOnly

LEMMA NewTaskIsKnown ==
    ASSUME SpaceInv, NEW t \in Tasks, t \notin Live, NEW o \in Tasks,
           NEW k \in Free, NEW u \in Free, NewTask(t, o, k, u)
    PROVE  /\ \A p \in HeapPages : StackIsKnown(p)'
           /\ \A q \in InUseSpaces' : \A p \in direct'[q] \ shown'[q] : PageIsKnown(q, p)'
<1> USE DEF NewTask
<1>1. /\ Live' = Live \cup {t} /\ owner'[t] = o
      /\ \A v \in Live : v # t /\ owner'[v] = owner[v]
  BY AllPagesAssumption DEF SpaceInv, SpaceTypeOK, Live
<1>2. InUseSpaces' = InUseSpaces \cup {o} /\ InUseSpaces \subseteq Tasks
  BY <1>1 DEF InUseSpaces, Live, SpaceInv, SpaceTypeOK
<1>3. /\ \A v \in Live : /\ kernel_stack'[v] = kernel_stack[v] /\ user_stack'[v] = user_stack[v]
                         /\ StackPages(v)' = StackPages(v)
      /\ kernel_stack'[t] = k /\ user_stack'[t] = u /\ StackPages(t)' = {k, u}
  BY <1>1 DEF SpaceInv, SpaceTypeOK, Live, StackPages
<1>4. /\ {k, u} \subseteq HeapPages
      /\ \A p \in {k, u} : p \notin taken /\ Halves(p) \cap (lent \cup kept) = {}
  BY FreePage
<1>5. \A v \in Live : StackPages(v) \cap {k, u} = {}
  BY <1>4 DEF SpaceInv, StackIsKnown
<1>6. ASSUME NEW p \in HeapPages PROVE StackIsKnown(p)'
  <2>1. StackIsKnown(p)
    BY DEF SpaceInv
  <2>2. p \in taken' => Halves(p) \cap (lent' \cup kept') = {}
    BY <1>4, <2>1 DEF StackIsKnown
  <2>3. ASSUME NEW v \in Live' PROVE p \in StackPages(v)' => p \in taken'
    BY <1>1, <1>3, <2>1 DEF StackIsKnown
  <2>4. ASSUME NEW v \in Live', NEW w \in Live', p \in StackPages(v)' \cap StackPages(w)'
        PROVE  v = w
    BY <1>1, <1>3, <1>5, <2>1, <2>4 DEF StackIsKnown
  <2>5. ASSUME NEW v \in Live' PROVE p = kernel_stack'[v] => p # user_stack'[v]
    BY <1>1, <1>3, <2>1 DEF StackIsKnown
  <2>6. Halves(p)' = Halves(p)
    BY DEF Halves
  <2> QED BY <2>2, <2>3, <2>4, <2>5, <2>6 DEF StackIsKnown
<1>7. ASSUME NEW q \in InUseSpaces', NEW p \in direct'[q] \ shown'[q]
      PROVE  PageIsKnown(q, p)'
  <2>1. CASE q = o /\ p \in {k, u}
    <3>1. \A v \in Live' : p \in StackPages(v)' => v = t
      BY <1>1, <1>3, <1>5, <2>1
    <3>2. \A v \in Live' : p = kernel_stack'[v] => p = k
      BY <1>3, <3>1 DEF StackPages
    <3> QED BY <1>1, <2>1, <3>1, <3>2 DEF PageIsKnown
  <2>2. CASE /\ q \in InUseSpaces /\ p \in direct[q] \ shown[q]
             /\ p \notin {k, u} => table'[q][p] = table[q][p]
    <3>1. PageIsKnown(q, p)
      BY <2>2 DEF SpaceInv
    <3>2. p \notin {k, u}
      BY <1>4, <3>1 DEF PageIsKnown
    <3> QED BY <1>1, <1>3, <2>2, <3>1, <3>2 DEF PageIsKnown
  <2> QED BY <1>2, <2>1, <2>2
<1> QED BY <1>6, <1>7

(* Any other step: no stack is new, and what is mapped is for a surface.    *)
LEMMA OldTasksAreKnown ==
    ASSUME SpaceInv, Live' \subseteq Live,
           \A v \in Live' : /\ owner'[v] = owner[v] /\ kernel_stack'[v] = kernel_stack[v]
                            /\ user_stack'[v] = user_stack[v]
                            /\ StackPages(v) \cap taken \subseteq taken',
           \A p \in taken' : Halves(p) \cap (lent' \cup kept') = {},
           \A q \in InUseSpaces : \A p \in direct'[q] \ shown'[q] :
              /\ p \in direct[q] \ shown[q] /\ (p \in taken => p \in taken')
              /\ table'[q][p] = table[q][p]
    PROVE  /\ \A p \in HeapPages : StackIsKnown(p)'
           /\ \A q \in InUseSpaces' : \A p \in direct'[q] \ shown'[q] : PageIsKnown(q, p)'
<1>1. /\ InUseSpaces' \subseteq InUseSpaces
      /\ \A v \in Live' : v \in Live /\ StackPages(v)' = StackPages(v)
  BY DEF InUseSpaces, StackPages
<1>2. ASSUME NEW p \in HeapPages PROVE StackIsKnown(p)'
  <2>1. StackIsKnown(p)
    BY DEF SpaceInv
  <2>2. \A v \in Live' : p \in StackPages(v)' => p \in taken'
    BY <1>1, <2>1 DEF StackIsKnown
  <2>3. p \in taken' => Halves(p)' \cap (lent' \cup kept') = {}
    BY DEF Halves
  <2> QED BY <1>1, <2>1, <2>2, <2>3 DEF StackIsKnown
<1>3. ASSUME NEW q \in InUseSpaces', NEW p \in direct'[q] \ shown'[q]
      PROVE  PageIsKnown(q, p)'
  <2>1. PageIsKnown(q, p) /\ p \in taken' /\ table'[q][p] = table[q][p]
    BY <1>1 DEF SpaceInv, PageIsKnown
  <2> QED BY <1>1, <2>1 DEF PageIsKnown
<1> QED BY <1>2, <1>3

LEMMA InitSpaceInv == AddressSpaceInit => SpaceInv
<1> SUFFICES ASSUME AddressSpaceInit PROVE SpaceInv
  OBVIOUS
<1>1. Live = {} /\ InUseSpaces = {}
  BY DEF AddressSpaceInit, Live, InUseSpaces
<1>2. Empty \in [AllPages -> Access]
  BY DEF Empty, Unmapped, Access
<1>3. SpaceTypeOK
  BY <1>2 DEF AddressSpaceInit, SpaceTypeOK
<1>4. IsMerged(Empty, {})
  BY DEF IsMerged, Empty, Over, AccessFor
<1>5. TablesAreMerged
  BY <1>4 DEF AddressSpaceInit, TablesAreMerged
<1>6. \A p \in HeapPages : StackIsKnown(p)
  BY <1>1 DEF AddressSpaceInit, StackIsKnown
<1> QED BY <1>1, <1>3, <1>5, <1>6 DEF SpaceInv

(* A table and what it is asked for change together.                        *)
LEMMA OneTableMerges ==
    ASSUME SpaceTypeOK, TablesAreMerged, NEW o \in Tasks, NEW tab, NEW asks,
           table' = [table EXCEPT ![o] = tab], asked' = [asked EXCEPT ![o] = asks],
           IsMerged(tab, asks), tab \in [AllPages -> Access],
           asks \in SUBSET (AllPages \X Askable)
    PROVE  /\ table' \in [Tasks -> [AllPages -> Access]]
           /\ asked' \in [Tasks -> SUBSET (AllPages \X Askable)]
           /\ TablesAreMerged'
<1>1. /\ table' \in [Tasks -> [AllPages -> Access]]
      /\ asked' \in [Tasks -> SUBSET (AllPages \X Askable)]
  BY DEF SpaceTypeOK
<1>2. \A q \in Tasks : IF q = o THEN table'[q] = tab /\ asked'[q] = asks
                               ELSE table'[q] = table[q] /\ asked'[q] = asked[q]
  BY DEF SpaceTypeOK
<1>3. \A q \in Tasks : IsMerged(table'[q], asked'[q])
  BY <1>2 DEF TablesAreMerged
<1>4. TablesAreMerged' = \A q \in Tasks : IsMerged(table'[q], asked'[q])
  BY DEF TablesAreMerged, IsMerged
<1> QED BY <1>1, <1>3, <1>4

LEMMA SpaceTypeNext ==
    ASSUME SpaceTypeOK, direct' \in [Tasks -> SUBSET HeapPages],
           shown' \in [Tasks -> SUBSET HeapPages],
           NEW t \in Tasks, NEW o \in Tasks \cup {NoTask},
           NEW k \in HeapPages \cup {NoPage}, NEW u \in HeapPages \cup {NoPage},
           NEW s \in HeapPages \cup {NoPage}, o = NoTask => s = NoPage,
           owner' = [owner EXCEPT ![t] = o],
           kernel_stack' = [kernel_stack EXCEPT ![t] = k],
           user_stack' = [user_stack EXCEPT ![t] = u],
           surface' = [surface EXCEPT ![t] = s],
           taken' \subseteq HeapPages, lent' \subseteq PageHalves, kept' \subseteq PageHalves,
           table' \in [Tasks -> [AllPages -> Access]],
           asked' \in [Tasks -> SUBSET (AllPages \X Askable)]
    PROVE  SpaceTypeOK'
BY DEF SpaceTypeOK, Live

LEMMA ExecKeepsSpaceInv ==
    ASSUME SpaceInv, NEW t \in Tasks, Exec(t)
    PROVE  SpaceInv'
<1>1. PICK k \in Free, u \in Free, layout \in Layouts :
        /\ Cardinality(Free) > 1 /\ Stacks(k, u)
        /\ taken' = taken \cup {k, u}
        /\ \/ /\ table' = [table EXCEPT ![t] =
                    MapRange(MapRange(ImageTable(layout), {u}, UserData), {k}, KernelOnly)]
              /\ direct' = [direct EXCEPT ![t] = {u, k}]
              /\ asked' = [asked EXCEPT ![t] =
                    ImageAsked(layout) \cup Ask({u}, UserData) \cup Ask({k}, KernelOnly)]
              /\ owner' = [owner EXCEPT ![t] = t]
              /\ kernel_stack' = [kernel_stack EXCEPT ![t] = k]
              /\ user_stack' = [user_stack EXCEPT ![t] = u]
              /\ shown' = [shown EXCEPT ![t] = {}]
           \/ UNCHANGED <<table, direct, asked, owner, kernel_stack, user_stack, shown>>
  BY DEF Exec
<1>2. /\ t \notin Live /\ UNCHANGED <<surface, lent, kept>>
      /\ \A v \in Live : owner[v] # t
  BY DEF Exec, Sharing
<1>3. /\ k \in HeapPages /\ u \in HeapPages /\ u # k /\ k \notin taken /\ u \notin taken
      /\ \A p \in {k, u} : Halves(p) \cap (lent \cup kept) = {}
      /\ taken' \subseteq HeapPages /\ lent' \subseteq PageHalves /\ kept' \subseteq PageHalves
  BY <1>1, <1>2, StacksAreTwo, FreePage DEF SpaceInv, SpaceTypeOK
<1>4. CASE UNCHANGED <<table, direct, asked, owner, kernel_stack, user_stack, shown>>
  <2>1. SpaceTypeOK' /\ TablesAreMerged'
    BY <1>2, <1>3, <1>4 DEF SpaceInv, SpaceTypeOK, TablesAreMerged, IsMerged, Live
  <2>2. Live' = Live
    BY <1>4 DEF Live
  <2>3. \A p \in taken' : Halves(p) \cap (lent' \cup kept') = {}
    BY <1>1, <1>2, <1>3 DEF SpaceInv, SpaceTypeOK, StackIsKnown
  <2>4. taken \subseteq taken'
    BY <1>1
  <2> QED BY <1>4, <2>1, <2>2, <2>3, <2>4, OldTasksAreKnown DEF SpaceInv
<1>5. CASE /\ table' = [table EXCEPT ![t] =
                    MapRange(MapRange(ImageTable(layout), {u}, UserData), {k}, KernelOnly)]
           /\ direct' = [direct EXCEPT ![t] = {u, k}]
           /\ asked' = [asked EXCEPT ![t] =
                    ImageAsked(layout) \cup Ask({u}, UserData) \cup Ask({k}, KernelOnly)]
           /\ owner' = [owner EXCEPT ![t] = t]
           /\ kernel_stack' = [kernel_stack EXCEPT ![t] = k]
           /\ user_stack' = [user_stack EXCEPT ![t] = u]
           /\ shown' = [shown EXCEPT ![t] = {}]
  <2> DEFINE tab == ImageTable(layout)
             asks == ImageAsked(layout)
             new == MapRange(MapRange(tab, {u}, UserData), {k}, KernelOnly)
             wanted == asks \cup Ask({u}, UserData) \cup Ask({k}, KernelOnly)
  <2>1. /\ IsMerged(tab, asks) /\ asks \in SUBSET (ImagePages \X Askable)
        /\ asks \in SUBSET (AllPages \X Askable)
    BY ImageMerges DEF AllPages
  <2> HIDE DEF tab, asks
  <2>3. /\ IsMerged(new, wanted) /\ new \in [AllPages -> Access]
        /\ wanted \in SUBSET (AllPages \X Askable)
    BY <1>3, <2>1, NewStacksMerge
  <2>4. new[k] = KernelOnly
    <3>1. \A d : Combined(d, KernelOnly) = KernelOnly
      BY DEF Combined, KernelOnly
    <3>2. new[k] = Combined(MapRange(tab, {u}, UserData)[k], KernelOnly)
      BY <1>3 DEF MapRange, AllPages
    <3> QED BY <3>1, <3>2
  <2>5. table' = [table EXCEPT ![t] = new] /\ asked' = [asked EXCEPT ![t] = wanted]
    BY <1>5 DEF tab, asks
  <2> HIDE DEF new, wanted
  <2>6. /\ table' \in [Tasks -> [AllPages -> Access]]
        /\ asked' \in [Tasks -> SUBSET (AllPages \X Askable)] /\ TablesAreMerged'
    BY <2>3, <2>5, OneTableMerges DEF SpaceInv
  <2>7. SpaceTypeOK'
    <3>1. surface' = [surface EXCEPT ![t] = NoPage]
      BY <1>2 DEF SpaceInv, SpaceTypeOK
    <3>2. /\ direct' \in [Tasks -> SUBSET HeapPages]
          /\ shown' \in [Tasks -> SUBSET HeapPages]
      BY <1>3, <1>5 DEF SpaceInv, SpaceTypeOK
    <3> QED BY <1>3, <1>5, <2>6, <3>1, <3>2, SpaceTypeNext DEF SpaceInv
  <2>8. \A q \in InUseSpaces \cup {t} : \A p \in direct'[q] \ shown'[q] :
           \/ q = t /\ p \in {k, u}
           \/ q \in InUseSpaces /\ p \in direct[q] \ shown[q]
              /\ (p \notin {k, u} => table'[q][p] = table[q][p])
    <3>1. t \notin InUseSpaces /\ InUseSpaces \subseteq Tasks
      BY <1>2 DEF InUseSpaces, Live, SpaceInv, SpaceTypeOK
    <3>2. \A q \in InUseSpaces : /\ table'[q] = table[q] /\ direct'[q] = direct[q]
                                 /\ shown'[q] = shown[q]
      BY <1>5, <2>5, <3>1 DEF SpaceInv, SpaceTypeOK
    <3>3. direct'[t] = {u, k}
      BY <1>5 DEF SpaceInv, SpaceTypeOK
    <3> QED BY <3>2, <3>3
  <2>9. table'[t][k] = KernelOnly
    BY <2>4, <2>5 DEF SpaceInv, SpaceTypeOK
  <2>10. NewTask(t, t, k, u)
    BY <1>1, <1>2, <1>3, <1>5, <2>8, <2>9 DEF NewTask
  <2> QED BY <1>2, <2>6, <2>7, <2>10, NewTaskIsKnown DEF SpaceInv
<1> QED BY <1>1, <1>4, <1>5

LEMMA ThreadCreateKeepsSpaceInv ==
    ASSUME SpaceInv, NEW caller \in Tasks, NEW t \in Tasks, ThreadCreate(caller, t)
    PROVE  SpaceInv'
<1> DEFINE o == owner[caller]
<1>1. PICK k \in Free, u \in Free :
        /\ Cardinality(Free) > 1 /\ Stacks(k, u)
        /\ \/ /\ table' = [table EXCEPT ![o] =
                    MapRange(MapRange(@, {u}, UserData), {k}, KernelOnly)]
              /\ direct' = [direct EXCEPT ![o] = @ \cup {u, k}]
              /\ asked' = [asked EXCEPT ![o] =
                    @ \cup Ask({u}, UserData) \cup Ask({k}, KernelOnly)]
              /\ owner' = [owner EXCEPT ![t] = o]
              /\ kernel_stack' = [kernel_stack EXCEPT ![t] = k]
              /\ user_stack' = [user_stack EXCEPT ![t] = u]
              /\ taken' = taken \cup {k, u} /\ UNCHANGED shown
           \/ /\ table' = [table EXCEPT ![o] = Unmap(@, {k, u})]
              /\ direct' = [direct EXCEPT ![o] = @ \ {k, u}]
              /\ asked' = [asked EXCEPT ![o] = Forget(@, {k, u})]
              /\ shown' = [shown EXCEPT ![o] = @ \ {k, u}]
              /\ UNCHANGED <<owner, kernel_stack, user_stack, taken>>
  BY DEF ThreadCreate
<1>2. /\ caller \in Live /\ t \notin Live /\ UNCHANGED <<surface, lent, kept>>
      /\ o \in Tasks /\ o \in InUseSpaces
  BY DEF ThreadCreate, Live, InUseSpaces, SpaceInv, SpaceTypeOK
<1>3. /\ k \in HeapPages /\ u \in HeapPages /\ u # k
      /\ taken' \subseteq HeapPages /\ lent' \subseteq PageHalves /\ kept' \subseteq PageHalves
  BY <1>1, <1>2, StacksAreTwo, FreePage DEF SpaceInv, SpaceTypeOK
<1> HIDE DEF o
<1>4. /\ IsMerged(table[o], asked[o]) /\ table[o] \in [AllPages -> Access]
      /\ asked[o] \in SUBSET (AllPages \X Askable)
  BY <1>2 DEF SpaceInv, SpaceTypeOK, TablesAreMerged
<1>7. InUseSpaces \subseteq Tasks /\ HeapPages \subseteq AllPages
  BY DEF InUseSpaces, Live, SpaceInv, SpaceTypeOK, AllPages
<1>5. CASE /\ table' = [table EXCEPT ![o] = Unmap(@, {k, u})]
           /\ direct' = [direct EXCEPT ![o] = @ \ {k, u}]
           /\ asked' = [asked EXCEPT ![o] = Forget(@, {k, u})]
           /\ shown' = [shown EXCEPT ![o] = @ \ {k, u}]
           /\ UNCHANGED <<owner, kernel_stack, user_stack, taken>>
  <2>1. /\ table' \in [Tasks -> [AllPages -> Access]]
        /\ asked' \in [Tasks -> SUBSET (AllPages \X Askable)] /\ TablesAreMerged'
    <3>1. /\ IsMerged(Unmap(table[o], {k, u}), Forget(asked[o], {k, u}))
          /\ Unmap(table[o], {k, u}) \in [AllPages -> Access]
          /\ Forget(asked[o], {k, u}) \in SUBSET (AllPages \X Askable)
      BY <1>4, UnmapMerges
    <3> QED BY <1>2, <1>5, <3>1, OneTableMerges DEF SpaceInv
  <2>2. SpaceTypeOK'
    BY <1>2, <1>5, <2>1 DEF SpaceInv, SpaceTypeOK, Live
  <2>3. Live' = Live
    BY <1>5 DEF Live
  <2>4. \A p \in taken' : Halves(p) \cap (lent' \cup kept') = {}
    BY <1>2, <1>5 DEF SpaceInv, SpaceTypeOK, StackIsKnown
  <2>5. ASSUME NEW q \in InUseSpaces, NEW p \in direct'[q] \ shown'[q]
        PROVE  p \in direct[q] \ shown[q] /\ table'[q][p] = table[q][p]
    <3>1. CASE q = o
      <4>1. p \in direct[o] \ {k, u} /\ p \notin shown[o] \ {k, u} /\ p \in AllPages
        BY <1>2, <1>5, <1>7, <3>1 DEF SpaceInv, SpaceTypeOK
      <4>2. table'[o][p] = table[o][p]
        BY <1>2, <1>5, <4>1 DEF SpaceInv, SpaceTypeOK, Unmap
      <4> QED BY <3>1, <4>1, <4>2
    <3>2. CASE q # o
      BY <1>5, <1>7, <3>2 DEF SpaceInv, SpaceTypeOK
    <3> QED BY <3>1, <3>2
  <2> QED BY <1>5, <2>1, <2>2, <2>3, <2>4, <2>5, OldTasksAreKnown DEF SpaceInv
<1>6. CASE /\ table' = [table EXCEPT ![o] =
                    MapRange(MapRange(@, {u}, UserData), {k}, KernelOnly)]
           /\ direct' = [direct EXCEPT ![o] = @ \cup {u, k}]
           /\ asked' = [asked EXCEPT ![o] =
                    @ \cup Ask({u}, UserData) \cup Ask({k}, KernelOnly)]
           /\ owner' = [owner EXCEPT ![t] = o]
           /\ kernel_stack' = [kernel_stack EXCEPT ![t] = k]
           /\ user_stack' = [user_stack EXCEPT ![t] = u]
           /\ taken' = taken \cup {k, u} /\ UNCHANGED shown
  <2> DEFINE new == MapRange(MapRange(table[o], {u}, UserData), {k}, KernelOnly)
             wanted == asked[o] \cup Ask({u}, UserData) \cup Ask({k}, KernelOnly)
  <2>1. /\ IsMerged(new, wanted) /\ new \in [AllPages -> Access]
        /\ wanted \in SUBSET (AllPages \X Askable)
    BY <1>3, <1>4, NewStacksMerge
  <2>2. ASSUME NEW p \in AllPages
        PROVE  /\ p \notin {k, u} => new[p] = table[o][p]
               /\ p = k => new[p] = KernelOnly
    <3>1. \A d : Combined(d, KernelOnly) = KernelOnly
      BY DEF Combined, KernelOnly
    <3>2. /\ p \notin {k, u} => new[p] = table[o][p]
          /\ p = k => new[p] = Combined(MapRange(table[o], {u}, UserData)[p], KernelOnly)
      BY <1>3 DEF MapRange
    <3> QED BY <3>1, <3>2
  <2>3. table' = [table EXCEPT ![o] = new] /\ asked' = [asked EXCEPT ![o] = wanted]
    BY <1>2, <1>6
  <2> HIDE DEF new, wanted
  <2>4. /\ table' \in [Tasks -> [AllPages -> Access]]
        /\ asked' \in [Tasks -> SUBSET (AllPages \X Askable)] /\ TablesAreMerged'
    BY <1>2, <2>1, <2>3, OneTableMerges DEF SpaceInv
  <2>5. SpaceTypeOK'
    <3>1. surface' = [surface EXCEPT ![t] = NoPage] /\ shown' \in [Tasks -> SUBSET HeapPages]
      BY <1>2, <1>6 DEF SpaceInv, SpaceTypeOK
    <3>2. direct' \in [Tasks -> SUBSET HeapPages]
      BY <1>2, <1>3, <1>6 DEF SpaceInv, SpaceTypeOK
    <3> QED BY <1>2, <1>3, <1>6, <2>4, <3>1, <3>2, SpaceTypeNext DEF SpaceInv
  <2>6. ASSUME NEW q \in InUseSpaces \cup {o}, NEW p \in direct'[q] \ shown'[q]
        PROVE  \/ q = o /\ p \in {k, u}
               \/ q \in InUseSpaces /\ p \in direct[q] \ shown[q]
                  /\ (p \notin {k, u} => table'[q][p] = table[q][p])
    <3>1. CASE q = o
      <4>1. p \in direct[o] \cup {u, k} /\ p \notin shown[o] /\ p \in AllPages
        BY <1>2, <1>3, <1>6, <1>7, <3>1 DEF SpaceInv, SpaceTypeOK
      <4>2. table'[o] = new
        BY <1>2, <2>3 DEF SpaceInv, SpaceTypeOK
      <4> QED BY <1>2, <2>2, <3>1, <4>1, <4>2
    <3>2. CASE q # o
      BY <1>6, <1>7, <2>3, <3>2 DEF SpaceInv, SpaceTypeOK
    <3> QED BY <3>1, <3>2
  <2>7. table'[o][k] = KernelOnly
    <3>1. table'[o] = new
      BY <1>2, <2>3 DEF SpaceInv, SpaceTypeOK
    <3> QED BY <1>3, <1>7, <2>2, <3>1
  <2>8. /\ \A p \in HeapPages : StackIsKnown(p)'
        /\ \A q \in InUseSpaces' : \A p \in direct'[q] \ shown'[q] : PageIsKnown(q, p)'
    <3>1. NewTask(t, o, k, u)
      BY <1>2, <1>3, <1>6, <2>6, <2>7 DEF NewTask
    <3> QED BY <1>1, <1>2, <3>1, NewTaskIsKnown
  <2> QED BY <2>4, <2>5, <2>8 DEF SpaceInv
<1> QED BY <1>1, <1>5, <1>6 DEF o

LEMMA ThreadDestroyKeepsSpaceInv ==
    ASSUME SpaceInv, NEW t \in Tasks, ThreadDestroy(t)
    PROVE  SpaceInv'
<1> DEFINE o == owner[t]
           stacks == {kernel_stack[t], user_stack[t]}
<1>1. /\ t \in Live /\ UNCHANGED <<lent, kept>>
      /\ table' = [table EXCEPT ![o] = Unmap(@, stacks)]
      /\ direct' = [direct EXCEPT ![o] = @ \ stacks]
      /\ asked' = [asked EXCEPT ![o] = Forget(@, stacks)]
      /\ shown' = [shown EXCEPT ![o] = @ \ stacks]
      /\ taken' = taken \ stacks
      /\ owner' = [owner EXCEPT ![t] = NoTask]
      /\ kernel_stack' = [kernel_stack EXCEPT ![t] = NoPage]
      /\ user_stack' = [user_stack EXCEPT ![t] = NoPage]
      /\ surface' = [surface EXCEPT ![t] = NoPage]
  BY DEF ThreadDestroy, Gone
<1>2. o \in Tasks /\ o \in InUseSpaces
  BY <1>1 DEF Live, InUseSpaces, SpaceInv, SpaceTypeOK
<1>3. /\ Live' = Live \ {t} /\ InUseSpaces \subseteq Tasks
      /\ \A v \in Live' : /\ v \in Live /\ v # t /\ owner'[v] = owner[v]
                          /\ kernel_stack'[v] = kernel_stack[v] /\ user_stack'[v] = user_stack[v]
  BY <1>1 DEF Live, InUseSpaces, SpaceInv, SpaceTypeOK
<1>4. /\ table' \in [Tasks -> [AllPages -> Access]]
      /\ asked' \in [Tasks -> SUBSET (AllPages \X Askable)] /\ TablesAreMerged'
  <2>1. /\ IsMerged(table[o], asked[o]) /\ table[o] \in [AllPages -> Access]
        /\ asked[o] \in SUBSET (AllPages \X Askable)
    BY <1>2 DEF SpaceInv, SpaceTypeOK, TablesAreMerged
  <2> HIDE DEF stacks, o
  <2>2. /\ IsMerged(Unmap(table[o], stacks), Forget(asked[o], stacks))
        /\ Unmap(table[o], stacks) \in [AllPages -> Access]
        /\ Forget(asked[o], stacks) \in SUBSET (AllPages \X Askable)
    BY <2>1, UnmapMerges
  <2> QED BY <1>1, <1>2, <2>2, OneTableMerges DEF SpaceInv
<1>5. SpaceTypeOK'
  <2>1. taken' \subseteq HeapPages /\ lent' \subseteq PageHalves /\ kept' \subseteq PageHalves
    BY <1>1 DEF SpaceInv, SpaceTypeOK
  <2>2. direct' \in [Tasks -> SUBSET HeapPages] /\ shown' \in [Tasks -> SUBSET HeapPages]
    <3> HIDE DEF o, stacks
    <3> QED BY <1>1, <1>2 DEF SpaceInv, SpaceTypeOK
  <2> QED BY <1>1, <1>4, <2>1, <2>2, SpaceTypeNext DEF SpaceInv
<1>6. ASSUME NEW p \in HeapPages, p \in stacks
      PROVE  /\ \A v \in Live' : p \notin StackPages(v)
             /\ \A q \in InUseSpaces : p \in direct[q] \ shown[q] => q = o
  <2>1. StackIsKnown(p) /\ p \in StackPages(t)
    BY <1>6 DEF SpaceInv, StackPages
  <2> QED BY <1>1, <1>3, <2>1 DEF SpaceInv, StackIsKnown, PageIsKnown
<1>7. \A v \in Live' : StackPages(v) \cap taken \subseteq taken'
  BY <1>1, <1>6 DEF SpaceInv, SpaceTypeOK
<1>8. \A p \in taken' : Halves(p) \cap (lent' \cup kept') = {}
  BY <1>1 DEF SpaceInv, SpaceTypeOK, StackIsKnown
<1>9. ASSUME NEW q \in InUseSpaces, NEW p \in direct'[q] \ shown'[q]
      PROVE  p \in direct[q] \ shown[q] /\ (p \in taken => p \in taken') /\ table'[q][p] = table[q][p]
  <2>1. CASE q = o
    <3> HIDE DEF o, stacks
    <3>1. p \in direct[o] \ stacks /\ p \notin shown[o] \ stacks /\ p \in AllPages
      BY <1>1, <1>2, <2>1 DEF SpaceInv, SpaceTypeOK, AllPages
    <3>2. table'[o][p] = table[o][p]
      BY <1>1, <1>2, <3>1 DEF SpaceInv, SpaceTypeOK, Unmap
    <3> QED BY <1>1, <2>1, <3>1, <3>2
  <2>2. CASE q # o
    <3>1. p \in direct[q] \ shown[q] /\ p \in HeapPages /\ table'[q] = table[q]
      BY <1>1, <1>3, <2>2 DEF SpaceInv, SpaceTypeOK
    <3>2. p \notin stacks
      BY <1>6, <2>2, <3>1
    <3> QED BY <1>1, <3>1, <3>2
  <2> QED BY <2>1, <2>2
<1>10. Live' \subseteq Live
  BY <1>3
<1> HIDE DEF o, stacks
<1> QED BY <1>3, <1>4, <1>5, <1>7, <1>8, <1>9, <1>10, OldTasksAreKnown DEF SpaceInv

LEMMA SurfaceCreateKeepsSpaceInv ==
    ASSUME SpaceInv, NEW t \in Tasks, SurfaceCreate(t)
    PROVE  SpaceInv'
<1> DEFINE o == owner[t]
<1>1. PICK s \in Places :
        \/ /\ Show(t, SurfacePages(s))
           /\ surface' = [surface EXCEPT ![t] = s] /\ lent' = lent \cup SurfaceBlock(s)
        \/ Show(t, {s}) /\ UNCHANGED <<surface, lent>>
  BY DEF SurfaceCreate
<1>2. t \in Live /\ UNCHANGED <<owner, kernel_stack, user_stack, taken, kept>>
  BY DEF SurfaceCreate
<1>3. /\ s \in HeapPages /\ SurfacePages(s) \subseteq HeapPages
      /\ SurfaceBlock(s) \subseteq PageHalves
      /\ o \in Tasks /\ o \in InUseSpaces
      /\ Live' = Live /\ InUseSpaces \subseteq Tasks
  BY <1>2 DEF Places, SurfacePages, SurfaceBlock, PageHalves, Live, InUseSpaces, SpaceInv, SpaceTypeOK
<1>4. PICK pages \in SUBSET HeapPages : Show(t, pages)
  BY <1>1, <1>3
<1>5. /\ table' = [table EXCEPT ![o] = MapRange(@, pages, UserData)]
      /\ direct' = [direct EXCEPT ![o] = @ \cup pages]
      /\ asked' = [asked EXCEPT ![o] = @ \cup Ask(pages, UserData)]
      /\ shown' = [shown EXCEPT ![o] = @ \cup pages]
  BY <1>4 DEF Show
<1>6. /\ surface' \in [Tasks -> HeapPages \cup {NoPage}] /\ lent' \subseteq PageHalves
      /\ \A v \in Tasks : v # t => surface'[v] = surface[v]
  BY <1>1, <1>3 DEF SpaceInv, SpaceTypeOK
<1> HIDE DEF o
<1>7. /\ table' \in [Tasks -> [AllPages -> Access]]
      /\ asked' \in [Tasks -> SUBSET (AllPages \X Askable)] /\ TablesAreMerged'
  <2>1. /\ IsMerged(table[o], asked[o]) /\ asked[o] \in SUBSET (AllPages \X Askable)
        /\ pages \in SUBSET AllPages /\ UserData \in Askable
    BY <1>3, KernelAndUserAskable DEF SpaceInv, SpaceTypeOK, TablesAreMerged, AllPages
  <2>2. /\ IsMerged(MapRange(table[o], pages, UserData), asked[o] \cup Ask(pages, UserData))
        /\ MapRange(table[o], pages, UserData) \in [AllPages -> Access]
        /\ asked[o] \cup Ask(pages, UserData) \in SUBSET (AllPages \X Askable)
    BY <2>1, MapRangeMerges
  <2> QED BY <1>3, <1>5, <2>2, OneTableMerges DEF SpaceInv
<1>8. SpaceTypeOK'
  <2>1. direct' \in [Tasks -> SUBSET HeapPages] /\ shown' \in [Tasks -> SUBSET HeapPages]
    BY <1>3, <1>5 DEF SpaceInv, SpaceTypeOK
  <2> QED BY <1>2, <1>3, <1>6, <1>7, <2>1 DEF SpaceInv, SpaceTypeOK
<1>9. \A p \in taken' : Halves(p) \cap (lent' \cup kept') = {}
  <2>1. \A p \in taken : Halves(p) \cap (lent \cup kept) = {}
    BY DEF SpaceInv, SpaceTypeOK, StackIsKnown
  <2>2. \A p \in taken : Halves(p) \cap SurfaceBlock(s) = {}
    BY DEF Places, FreeHalves, Halves, SurfaceBlock
  <2> QED BY <1>1, <1>2, <2>1, <2>2
<1>10. ASSUME NEW q \in InUseSpaces, NEW p \in direct'[q] \ shown'[q]
       PROVE  p \in direct[q] \ shown[q] /\ table'[q][p] = table[q][p]
  <2>1. CASE q = o
    <3>1. p \in direct[o] /\ p \notin shown[o] /\ p \notin pages /\ p \in AllPages
      BY <1>3, <1>5, <2>1 DEF SpaceInv, SpaceTypeOK, AllPages
    <3> QED BY <1>3, <1>5, <2>1, <3>1 DEF SpaceInv, SpaceTypeOK, MapRange
  <2>2. CASE q # o
    BY <1>3, <1>5, <2>2 DEF SpaceInv, SpaceTypeOK
  <2> QED BY <2>1, <2>2
<1> QED BY <1>2, <1>3, <1>7, <1>8, <1>9, <1>10, OldTasksAreKnown DEF SpaceInv

LEMMA ExitKeepsSpaceInv ==
    ASSUME SpaceInv, NEW t \in Tasks, Exit(t)
    PROVE  SpaceInv'
<1>1. /\ t \in Live /\ lent' \subseteq lent
      /\ UNCHANGED <<table, direct, asked, taken, kept, shown>>
      /\ owner' = [owner EXCEPT ![t] = NoTask]
      /\ kernel_stack' = [kernel_stack EXCEPT ![t] = NoPage]
      /\ user_stack' = [user_stack EXCEPT ![t] = NoPage]
      /\ surface' = [surface EXCEPT ![t] = NoPage]
  BY DEF Exit, Gone
<1>2. /\ Live' = Live \ {t}
      /\ \A v \in Live' : /\ v \in Live /\ owner'[v] = owner[v]
                          /\ kernel_stack'[v] = kernel_stack[v] /\ user_stack'[v] = user_stack[v]
  BY <1>1 DEF Live, SpaceInv, SpaceTypeOK
<1>3. TablesAreMerged'
  BY <1>1 DEF SpaceInv, TablesAreMerged, IsMerged
<1>4. SpaceTypeOK'
  <2>1. taken' \subseteq HeapPages /\ lent' \subseteq PageHalves /\ kept' \subseteq PageHalves
    BY <1>1 DEF SpaceInv, SpaceTypeOK
  <2>2. /\ table' \in [Tasks -> [AllPages -> Access]]
        /\ asked' \in [Tasks -> SUBSET (AllPages \X Askable)]
        /\ direct' \in [Tasks -> SUBSET HeapPages] /\ shown' \in [Tasks -> SUBSET HeapPages]
    BY <1>1 DEF SpaceInv, SpaceTypeOK
  <2> QED BY <1>1, <2>1, <2>2, SpaceTypeNext DEF SpaceInv
<1>5. \A p \in taken' : Halves(p) \cap (lent' \cup kept') = {}
  BY <1>1 DEF SpaceInv, SpaceTypeOK, StackIsKnown
<1> QED BY <1>1, <1>2, <1>3, <1>4, <1>5, OldTasksAreKnown DEF SpaceInv

LEMMA KernelBlocksKeepSpaceInv ==
    ASSUME SpaceInv, KernelAlloc \/ KernelFree
    PROVE  SpaceInv'
<1>1. UNCHANGED <<table, direct, asked, owner, kernel_stack, user_stack, surface, taken, lent, shown>>
  BY DEF KernelAlloc, KernelFree
<1>2. Live' = Live
  BY <1>1 DEF Live
<1>3. kept' \subseteq PageHalves /\ \A p \in taken' : Halves(p) \cap (lent' \cup kept') = {}
  <2>1. kept \subseteq PageHalves /\ \A p \in taken : Halves(p) \cap (lent \cup kept) = {}
    BY DEF SpaceInv, SpaceTypeOK, StackIsKnown
  <2>2. CASE KernelAlloc
    <3>1. PICK p \in HeapPages : \E half \in FreeHalves(p) : kept' = kept \cup {half}
      BY <2>2 DEF KernelAlloc
    <3>2. PICK half \in FreeHalves(p) : kept' = kept \cup {half}
      BY <3>1
    <3>3. half \in PageHalves /\ \A q \in taken : half \notin Halves(q)
      BY <3>1 DEF FreeHalves, Halves, PageHalves
    <3> QED BY <1>1, <2>1, <3>2, <3>3
  <2>3. CASE KernelFree
    BY <1>1, <2>1, <2>3 DEF KernelFree
  <2> QED BY <2>2, <2>3
<1>4. SpaceTypeOK' /\ TablesAreMerged'
  BY <1>1, <1>2, <1>3 DEF SpaceInv, SpaceTypeOK, TablesAreMerged, IsMerged
<1> QED BY <1>1, <1>2, <1>3, <1>4, OldTasksAreKnown DEF SpaceInv

LEMMA NextSpaceInv == SpaceInv /\ [AddressSpaceNext]_avars => SpaceInv'
<1>1. SpaceInv /\ UNCHANGED avars => SpaceInv'
  <2> SUFFICES ASSUME SpaceInv, UNCHANGED avars PROVE SpaceInv'
    OBVIOUS
  <2>1. Live' = Live /\ InUseSpaces' = InUseSpaces
    BY DEF avars, Live, InUseSpaces
  <2>2. SpaceTypeOK' /\ TablesAreMerged'
    BY <2>1 DEF avars, SpaceInv, SpaceTypeOK, TablesAreMerged, IsMerged
  <2>3. \A p \in taken' : Halves(p) \cap (lent' \cup kept') = {}
    BY DEF avars, SpaceInv, SpaceTypeOK, StackIsKnown
  <2> QED BY <2>1, <2>2, <2>3, OldTasksAreKnown DEF avars, SpaceInv
<1>2. SpaceInv /\ AddressSpaceNext => SpaceInv'
  BY ExecKeepsSpaceInv, ThreadCreateKeepsSpaceInv, ThreadDestroyKeepsSpaceInv,
     SurfaceCreateKeepsSpaceInv, ExitKeepsSpaceInv, KernelBlocksKeepSpaceInv DEF AddressSpaceNext
<1> QED BY <1>1, <1>2

(* Types of the page tables, and what is kept about them.                   *)
THEOREM SpaceTypeCorrect == AddressSpaceSpec => []SpaceTypeOK
<1>1. AddressSpaceSpec => []SpaceInv
  BY InitSpaceInv, NextSpaceInv, PTL DEF AddressSpaceSpec
<1>2. SpaceInv => SpaceTypeOK
  BY DEF SpaceInv
<1> QED BY <1>1, <1>2, PTL

(* A page has the rights of all that share it, and beyond the pages in      *)
(* which its surfaces lie or lay a program reaches no page of the heap that *)
(* was freed, has a block of the kernel's or a surface, or is a stack of    *)
(* another program or of the kernel, for any number of programs, threads,   *)
(* pages and layouts of images.                                             *)
THEOREM SpacesSound == AddressSpaceSpec => []SpacesAreSound
<1>1. AddressSpaceSpec => []SpaceInv
  BY InitSpaceInv, NextSpaceInv, PTL DEF AddressSpaceSpec
<1>2. SpaceInv => SpacesAreSound
  <2> SUFFICES ASSUME SpaceInv PROVE SpacesAreSound
    OBVIOUS
  <2>1. InUseSpaces \subseteq Tasks
    BY DEF SpaceInv, SpaceTypeOK, InUseSpaces, Live
  <2>2. AccessIsMerged
    BY <2>1 DEF SpaceInv, TablesAreMerged, IsMerged, AccessFor, Over, AccessIsMerged
  <2>3. ASSUME NEW t \in InUseSpaces, NEW p \in direct[t] \ shown[t],
               table[t][p] # Unmapped, table[t][p].ap # "kernel"
        PROVE  /\ p \in taken /\ Halves(p) \cap (lent \cup kept) = {}
               /\ \A u \in Live : p # kernel_stack[u] /\ (p = user_stack[u] => owner[u] = t)
    <3>1. p \in HeapPages /\ PageIsKnown(t, p) /\ StackIsKnown(p)
      BY <2>1 DEF SpaceInv, SpaceTypeOK
    <3> QED BY <2>3, <3>1 DEF PageIsKnown, StackIsKnown, StackPages, KernelOnly
  <2> QED BY <2>2, <2>3 DEF SpacesAreSound, OnlyItsOwn
<1> QED BY <1>1, <1>2, PTL

-----------------------------------------------------------------------------
(***************************************************************************)
(* The list of processes: the pointers are always those of some sequence,  *)
(* which insertions and removals change at its ends and in its middle.     *)
(***************************************************************************)

(***************************************************************************)
(* The pointers n, from the head h, are the list w.                        *)
(***************************************************************************)
Chain(n, h, w) ==
  /\ w \in Seq(Proc) /\ Injective(w)
  /\ n \in [Proc -> Proc \cup {None}]
  /\ h = IF w = <<>> THEN None ELSE w[1]
  /\ \A i \in 1..Len(w) : n[w[i]] = IF i = Len(w) THEN None ELSE w[i + 1]
  /\ \A p \in Proc \ ToSet(w) : n[p] = None

LEMMA UpToLength ==
    ASSUME NEW n \in Nat
    PROVE  Cardinality(1..n) = n /\ Cardinality(0..(n - 1)) = n
<1>1. Cardinality(1..n) = IF 1 > n THEN 0 ELSE n - 1 + 1
  <2>1. 1 \in Int /\ n \in Int
    OBVIOUS
  <2> QED BY <2>1, FS_Interval
<1>2. Cardinality(0..(n - 1)) = IF 0 > n - 1 THEN 0 ELSE n - 1 - 0 + 1
  <2>1. 0 \in Int /\ n - 1 \in Int
    OBVIOUS
  <2> QED BY <2>1, FS_Interval
<1> QED BY <1>1, <1>2

(***************************************************************************)
(* No more processes are on the list than there are.                       *)
(***************************************************************************)
LEMMA ListIsShort ==
    ASSUME NEW w \in Seq(Proc), Injective(w)
    PROVE  Cardinality(Proc) \in Nat /\ Len(w) \in Nat /\ Len(w) <= Cardinality(Proc)
<1>1. IsFiniteSet(Proc) /\ Cardinality(Proc) \in Nat
  BY InitAssumption, FS_CardinalityType
<1>2. w \in [1..Len(w) -> Proc] /\ Len(w) \in Nat
  OBVIOUS
<1>3. w \in Injection(1..Len(w), Proc)
  BY <1>2 DEF Injective, Injection, IsInjective
<1>4. Cardinality(1..Len(w)) <= Cardinality(Proc)
  BY <1>1, <1>3, FS_Injection
<1>5. Cardinality(1..Len(w)) = Len(w)
  BY <1>2, UpToLength
<1> QED BY <1>1, <1>2, <1>4, <1>5

(***************************************************************************)
(* A walk along the pointers is the list.                                  *)
(***************************************************************************)
LEMMA WalkIsList ==
    ASSUME NEW w, Chain(next, head, w)
    PROVE  Walk = w
<1> DEFINE m == Cardinality(Proc)
           S == Proc \cup {None}
           Turn(p) == IF p = None THEN None ELSE next[p]
           next_ == [i \in 1..m |-> [p \in S |-> Turn(p)]]
           IsAt(f) == f = [i \in 0..m |-> IF i = 0 THEN head ELSE Turn(f[i - 1])]
           At == CHOOSE f : IsAt(f)
<1>9. Walk = [i \in 1..Cardinality({k \in DOMAIN At : At[k] # None}) |-> At[i - 1]]
  BY DEF Walk
<1>1. /\ m \in Nat /\ Len(w) \in Nat /\ Len(w) <= m
      /\ w \in Seq(Proc) /\ head \in S
      /\ \A p \in S : Turn(p) \in S
  BY ListIsShort, NoneAssumption DEF Chain
<1>2. /\ \A i \in 1..Len(w) : Turn(w[i]) = IF i = Len(w) THEN None ELSE w[i + 1]
      /\ Turn(None) = None
  BY NoneAssumption DEF Chain
<1> HIDE DEF Turn
<1>3. next_ \in [1..m -> [S -> S]]
  BY <1>1
<1>4. PICK f : StepsFrom(f, head, m, S, next_)
  <2> HIDE DEF next_, S, m
  <2> QED BY <1>1, <1>3, RecursionExists
<1>5. IsAt(f)
  <2>1. f \in [0..m -> S] /\ f[0] = head
    BY <1>4 DEF StepsFrom
  <2>2. ASSUME NEW i \in 0..m PROVE f[i] = IF i = 0 THEN head ELSE Turn(f[i - 1])
    <3>1. CASE i = 0
      BY <2>1, <3>1
    <3>2. CASE i # 0
      <4>1. i \in 1..m /\ i - 1 \in 0..m
        BY <1>1, <3>2
      <4>2. f[i] = next_[i][f[i - 1]] /\ f[i - 1] \in S
        BY <1>4, <2>1, <4>1 DEF StepsFrom
      <4>3. \A p \in S : next_[i][p] = Turn(p)
        BY <4>1
      <4> QED BY <3>2, <4>2, <4>3
    <3> QED BY <3>1, <3>2
  <2> QED BY <2>1, <2>2
<1>6. IsAt(At)
  BY <1>5
<1> HIDE DEF At
<1>7. /\ DOMAIN At = 0..m /\ At[0] = head
      /\ \A i \in 1..m : At[i] = Turn(At[i - 1])
  BY <1>1, <1>6
<1> HIDE DEF IsAt, next_, m
<1> DEFINE Good == {i \in 0..m : At[i] = IF i < Len(w) THEN w[i + 1] ELSE None}
<1>8. \A i \in 0..m : i \in Good
  <2>1. 0 \in Good
    BY <1>1, <1>7 DEF Chain
  <2>2. ASSUME NEW k \in 0..(m - 1), k \in Good PROVE k + 1 \in Good
    <3>1. k + 1 \in 1..m /\ k + 1 \in 0..m /\ At[k + 1] = Turn(At[k])
      BY <1>1, <1>7
    <3>2. CASE k < Len(w)
      <4>1. At[k] = w[k + 1] /\ k + 1 \in 1..Len(w)
        BY <1>1, <2>2, <3>2
      <4>2. At[k + 1] = IF k + 1 = Len(w) THEN None ELSE w[k + 1 + 1]
        BY <1>2, <3>1, <4>1
      <4> QED BY <1>1, <3>1, <4>1, <4>2
    <3>3. CASE ~(k < Len(w))
      <4>1. At[k + 1] = None /\ ~(k + 1 < Len(w))
        BY <1>1, <1>2, <2>2, <3>1, <3>3
      <4> QED BY <3>1, <4>1
    <3> QED BY <3>2, <3>3
  <2> HIDE DEF Good
  <2> QED BY <1>1, <2>1, <2>2, IntervalInduction
<1>10. {k \in DOMAIN At : At[k] # None} = 0..(Len(w) - 1)
  <2>1. \A k \in 0..m : At[k] # None <=> k < Len(w)
    <3>1. ASSUME NEW k \in 0..m PROVE At[k] # None <=> k < Len(w)
      <4>1. k < Len(w) => w[k + 1] \in Proc
        BY <1>1
      <4> QED BY <1>8, <4>1, NoneAssumption
    <3> QED BY <3>1
  <2> HIDE DEF Good
  <2> QED BY <1>1, <1>7, <2>1
<1>11. Cardinality(0..(Len(w) - 1)) = Len(w)
  BY <1>1, UpToLength
<1>12. \A i \in 1..Len(w) : At[i - 1] = w[i]
  <2>1. ASSUME NEW i \in 1..Len(w) PROVE At[i - 1] = w[i]
    <3>1. i - 1 \in 0..m /\ i - 1 < Len(w) /\ i - 1 + 1 = i
      BY <1>1
    <3> QED BY <1>8, <3>1
  <2> QED BY <2>1
<1>13. Walk = [i \in 1..Len(w) |-> At[i - 1]]
  BY <1>9, <1>10, <1>11
<1>14. w = [i \in 1..Len(w) |-> w[i]]
  BY <1>1
<1> QED BY <1>12, <1>13, <1>14

(***************************************************************************)
(* scheduler_remove takes p, and nothing else, off a list on which no      *)
(* process is twice.                                                       *)
(***************************************************************************)
LEMMA RemoveLemma ==
    ASSUME NEW q \in Seq(Proc), NEW p, Injective(q)
    PROVE  /\ SchedulerRemove(q, p) \in Seq(Proc)
           /\ ToSet(SchedulerRemove(q, p)) = ToSet(q) \ {p}
           /\ Injective(SchedulerRemove(q, p))
<1>1. CASE ~ \E i \in 1..Len(q) : q[i] = p
  BY <1>1 DEF SchedulerRemove, ToSet, Injective
<1>2. CASE \E i \in 1..Len(q) : q[i] = p
  <2> DEFINE i == CHOOSE i \in 1..Len(q) : q[i] = p
  <2>1. i \in 1..Len(q) /\ q[i] = p
    BY <1>2
  <2>2. SchedulerRemove(q, p) = RemoveAt(q, i)
    BY <1>2 DEF SchedulerRemove
  <2> HIDE DEF i
  <2> QED BY <2>1, <2>2, RemoveOnce
<1> QED BY <1>1, <1>2

(***************************************************************************)
(* scheduler_add puts p on the list, once if it was not there before.      *)
(***************************************************************************)
LEMMA AddLemma ==
    ASSUME NEW q \in Seq(Proc), NEW p \in Proc, Injective(q), p \notin ToSet(q)
    PROVE  /\ SchedulerAdd(q, p) \in Seq(Proc)
           /\ ToSet(SchedulerAdd(q, p)) = ToSet(q) \cup {p}
           /\ Injective(SchedulerAdd(q, p))
BY AppendOnce DEF SchedulerAdd

(***************************************************************************)
(* The circular walk starts on the list, stays on it and misses no one.    *)
(***************************************************************************)
LEMMA CircularLemma ==
    ASSUME NEW q \in Seq(Proc), NEW cur
    PROVE  LET s == StartIndex(q, cur)
           IN  /\ Len(q) # 0 => s \in 1..Len(q)
               /\ \A k \in 0..(Len(q) - 1) : Circular(q, s, k) \in ToSet(q)
               /\ \A p \in ToSet(q) :
                     \E k \in 0..(Len(q) - 1) : Circular(q, s, k) = p
<1>1. Len(q) # 0 => StartIndex(q, cur) \in 1..Len(q)
  BY DEF StartIndex
<1>2. \A k \in 0..(Len(q) - 1) :
         Circular(q, StartIndex(q, cur), k) = OnCircle(q, StartIndex(q, cur), k)
  BY DEF Circular, OnCircle
<1> QED BY <1>1, <1>2, CircleLemma

(***************************************************************************)
(* scheduler_next returns a ready process of the list, and null only if    *)
(* there is none.                                                          *)
(***************************************************************************)
LEMMA NextLemma ==
    ASSUME NEW q \in Seq(Proc), NEW cur, NEW st
    PROVE  /\ SchedulerNext(q, cur, st) # None =>
                 /\ SchedulerNext(q, cur, st) \in ToSet(q)
                 /\ st[SchedulerNext(q, cur, st)] = "READY"
           /\ (\E p \in ToSet(q) : st[p] = "READY") =>
                 SchedulerNext(q, cur, st) # None
<1> DEFINE s == StartIndex(q, cur)
           ready == {k \in 0..(Len(q) - 1) : st[Circular(q, s, k)] = "READY"}
<1>1. SchedulerNext(q, cur, st) =
         IF ready = {} THEN None ELSE Circular(q, s, Min(ready))
  BY DEF SchedulerNext
<1>2. ready # {} => Min(ready) \in ready
  <2>1. ready \in SUBSET Nat
    OBVIOUS
  <2> HIDE DEF ready
  <2> QED BY <2>1, MinExists
<1>3. /\ \A k \in 0..(Len(q) - 1) : Circular(q, s, k) \in ToSet(q)
      /\ \A p \in ToSet(q) : \E k \in 0..(Len(q) - 1) : Circular(q, s, k) = p
  BY CircularLemma
<1>4. ToSet(q) \subseteq Proc
  BY DEF ToSet
<1> HIDE DEF s
<1> QED BY <1>1, <1>2, <1>3, <1>4, NoneAssumption

(***************************************************************************)
(* A turn along the pointers is a turn of the list.                        *)
(***************************************************************************)
LEMMA TurnStarts ==
    ASSUME NEW n, NEW w, Chain(n, head, w), w # <<>>, NEW cur \in ToSet(w) \cup {None}
    PROVE  StartOfTurn(n, cur) = Circular(w, StartIndex(w, cur), 0)
<1>1. /\ w \in Seq(Proc) /\ Len(w) \in Nat /\ Len(w) > 0 /\ Injective(w) /\ head = w[1]
      /\ \A i \in 1..Len(w) : n[w[i]] = IF i = Len(w) THEN None ELSE w[i + 1]
  BY DEF Chain
<1>2. StartIndex(w, cur) \in 1..Len(w)
  BY <1>1, CircularLemma
<1>3. Circular(w, StartIndex(w, cur), 0) = w[StartIndex(w, cur)]
  BY <1>1, <1>2 DEF Circular
<1>4. CASE \E j \in 1..(Len(w) - 1) : w[j] = cur
  <2>1. PICK j \in 1..(Len(w) - 1) : w[j] = cur
    BY <1>4
  <2>2. \A i \in 1..(Len(w) - 1) : w[i] = cur => i = j
    BY <1>1, <2>1 DEF Injective
  <2>3. (CHOOSE i \in 1..(Len(w) - 1) : w[i] = cur) = j
    BY <2>1, <2>2
  <2>6. StartIndex(w, cur) = 1 + (CHOOSE i \in 1..(Len(w) - 1) : w[i] = cur)
    BY <1>4 DEF StartIndex
  <2>4. StartIndex(w, cur) = j + 1
    <3>1. Len(w) \in Nat /\ StartIndex(w, cur) = 1 + j
      BY <1>1, <2>3, <2>6
    <3>2. 1 + j = j + 1
      BY <3>1
    <3> QED BY <3>1, <3>2
  <2>5. cur \in Proc /\ n[cur] = w[j + 1] /\ w[j + 1] \in Proc
    BY <1>1, <2>1
  <2> QED BY <1>3, <2>4, <2>5, NoneAssumption DEF StartOfTurn
<1>5. CASE ~ \E j \in 1..(Len(w) - 1) : w[j] = cur
  <2>1. StartIndex(w, cur) = 1
    BY <1>5 DEF StartIndex
  <2>2. cur = None \/ cur = w[Len(w)]
    <3>1. cur \in ToSet(w) => \E i \in 1..Len(w) : w[i] = cur
      BY <1>1 DEF ToSet
    <3> QED BY <1>1, <1>5, <3>1
  <2>3. cur # None => n[cur] = None
    BY <1>1, <2>2
  <2> QED BY <1>1, <1>3, <2>1, <2>3 DEF StartOfTurn
<1> QED BY <1>4, <1>5

LEMMA TurnGoesOn ==
    ASSUME NEW n, NEW w, Chain(n, head, w), NEW s \in 1..Len(w), NEW k \in 0..(Len(w) - 2)
    PROVE  Following(n, Circular(w, s, k)) = Circular(w, s, k + 1)
<1>1. /\ w \in Seq(Proc) /\ Len(w) \in Nat /\ head = IF w = <<>> THEN None ELSE w[1]
      /\ \A i \in 1..Len(w) : n[w[i]] = IF i = Len(w) THEN None ELSE w[i + 1]
      /\ \A i \in 1..Len(w) : w[i] \in Proc
  BY DEF Chain
<1>2. Len(w) >= 2 /\ head = w[1]
  BY <1>1
<1> DEFINE m == Len(w)
<1>3. m \in Nat /\ m >= 2 /\ s \in 1..m /\ k \in 0..(m - 2)
  BY <1>1, <1>2
<1>4. CASE s + k < m
  <2>1. s + k \in 1..m /\ s + k + 1 \in 1..m /\ s + k # m /\ s + (k + 1) <= m /\ s + k <= m
    BY <1>3, <1>4
  <2>2. Circular(w, s, k) = w[s + k] /\ Circular(w, s, k + 1) = w[s + k + 1]
    BY <1>3, <2>1 DEF Circular
  <2>3. n[w[s + k]] = w[s + k + 1] /\ w[s + k + 1] # None
    BY <1>1, <2>1, NoneAssumption
  <2> QED BY <2>2, <2>3 DEF Following
<1>5. CASE s + k = m
  <2>1. s + k <= m /\ ~(s + (k + 1) <= m) /\ s + (k + 1) - m = 1
    BY <1>3, <1>5
  <2>2. Circular(w, s, k) = w[m] /\ Circular(w, s, k + 1) = w[1]
    BY <1>5, <2>1 DEF Circular
  <2>3. n[w[m]] = None
    BY <1>1, <1>2
  <2> QED BY <1>2, <2>2, <2>3 DEF Following
<1>6. CASE s + k > m
  <2> DEFINE j == s + k - m
  <2>1. /\ j \in 1..m /\ j + 1 \in 1..m /\ j # m
        /\ ~(s + k <= m) /\ ~(s + (k + 1) <= m) /\ s + (k + 1) - m = j + 1
    BY <1>3, <1>6
  <2>2. Circular(w, s, k) = w[j] /\ Circular(w, s, k + 1) = w[j + 1]
    BY <2>1 DEF Circular
  <2> HIDE DEF j
  <2>3. n[w[j]] = w[j + 1] /\ w[j + 1] # None
    BY <1>1, <2>1, NoneAssumption
  <2> QED BY <2>2, <2>3 DEF Following
<1> QED BY <1>3, <1>4, <1>5, <1>6

LEMMA NextIsNextOfList ==
    ASSUME NEW n, NEW w, Chain(n, head, w), w # <<>>,
           NEW cur \in ToSet(w) \cup {None}, NEW states
    PROVE  NextToRun(n, cur, states) = SchedulerNext(w, cur, states)
<1> DEFINE m == Cardinality(Proc)
           S == ToSet(w)
           start == StartOfTurn(n, cur)
           s == StartIndex(w, cur)
           next_ == [i \in 1..m |-> [p \in S |-> Following(n, p)]]
           IsAt(f) == f = [i \in 0..m |-> IF i = 0 THEN start ELSE Following(n, f[i - 1])]
           At == CHOOSE f : IsAt(f)
           ready == {i \in DOMAIN At : states[At[i]] = "READY"}
           turn == {k \in 0..(Len(w) - 1) : states[Circular(w, s, k)] = "READY"}
<1>1. NextToRun(n, cur, states) = IF head = None \/ ready = {} THEN None ELSE At[Min(ready)]
  BY DEF NextToRun
<1>2. SchedulerNext(w, cur, states) = IF turn = {} THEN None ELSE Circular(w, s, Min(turn))
  BY DEF SchedulerNext
<1>3. /\ m \in Nat /\ Len(w) \in Nat /\ Len(w) > 0 /\ Len(w) <= m
      /\ w \in Seq(Proc) /\ head = w[1] /\ head # None
  BY ListIsShort, NoneAssumption DEF Chain
<1>4. /\ s \in 1..Len(w) /\ start = Circular(w, s, 0)
      /\ \A k \in 0..(Len(w) - 1) : Circular(w, s, k) \in S
      /\ \A p \in S : \E k \in 0..(Len(w) - 1) : Circular(w, s, k) = p
  BY <1>3, CircularLemma, TurnStarts
<1>5. \A k \in 0..(Len(w) - 2) : Following(n, Circular(w, s, k)) = Circular(w, s, k + 1)
  BY <1>4, TurnGoesOn
<1>6. \A p \in S : Following(n, p) \in S
  <2>1. ASSUME NEW p \in S PROVE Following(n, p) \in S
    <3>1. PICK i \in 1..Len(w) : w[i] = p
      BY <1>3 DEF ToSet
    <3>2. n[p] = IF i = Len(w) THEN None ELSE w[i + 1]
      BY <3>1 DEF Chain
    <3>3. head \in S /\ (i # Len(w) => w[i + 1] \in S)
      BY <1>3 DEF ToSet
    <3> QED BY <3>2, <3>3 DEF Following
  <2> QED BY <2>1
<1> HIDE DEF s, start, m, S
<1>7. start \in S /\ next_ \in [1..m -> [S -> S]]
  <2>1. 0 \in 0..(Len(w) - 1)
    BY <1>3
  <2> QED BY <1>4, <1>6, <2>1
<1>8. PICK f : StepsFrom(f, start, m, S, next_)
  <2> HIDE DEF next_
  <2> QED BY <1>3, <1>7, RecursionExists
<1>9. IsAt(f)
  <2>1. f \in [0..m -> S] /\ f[0] = start
    BY <1>8 DEF StepsFrom
  <2>2. ASSUME NEW i \in 0..m PROVE f[i] = IF i = 0 THEN start ELSE Following(n, f[i - 1])
    <3>1. CASE i = 0
      BY <2>1, <3>1
    <3>2. CASE i # 0
      <4>1. i \in 1..m /\ i - 1 \in 0..m
        BY <1>3, <3>2
      <4>2. f[i] = next_[i][f[i - 1]] /\ f[i - 1] \in S
        BY <1>8, <2>1, <4>1 DEF StepsFrom
      <4>3. \A p \in S : next_[i][p] = Following(n, p)
        BY <4>1
      <4> QED BY <3>2, <4>2, <4>3
    <3> QED BY <3>1, <3>2
  <2> QED BY <2>1, <2>2
<1>10. IsAt(At)
  BY <1>9
<1> HIDE DEF At
<1>11. /\ DOMAIN At = 0..m /\ At[0] = start
       /\ \A i \in 1..m : At[i] = Following(n, At[i - 1])
  BY <1>3, <1>10
<1> HIDE DEF IsAt, next_
<1> DEFINE Good == {i \in 0..m : At[i] \in S /\ (i < Len(w) => At[i] = Circular(w, s, i))}
<1>12. \A i \in 0..m : i \in Good
  <2>1. 0 \in Good
    BY <1>3, <1>4, <1>7, <1>11
  <2>2. ASSUME NEW k \in 0..(m - 1), k \in Good PROVE k + 1 \in Good
    <3>1. k + 1 \in 1..m /\ k + 1 \in 0..m /\ At[k + 1] = Following(n, At[k])
      BY <1>3, <1>11
    <3>2. At[k + 1] \in S
      BY <1>6, <2>2, <3>1
    <3>3. ASSUME k + 1 < Len(w) PROVE At[k + 1] = Circular(w, s, k + 1)
      <4>1. k \in 0..(Len(w) - 2) /\ k < Len(w)
        BY <1>3, <3>3
      <4> QED BY <1>5, <2>2, <3>1, <4>1
    <3> QED BY <3>1, <3>2, <3>3
  <2> HIDE DEF Good
  <2> QED BY <1>3, <2>1, <2>2, IntervalInduction
<1>13. /\ \A i \in 0..m : At[i] \in S
       /\ \A i \in 0..(Len(w) - 1) : At[i] = Circular(w, s, i)
  BY <1>3, <1>12
<1> HIDE DEF Good
<1>14. turn \subseteq ready /\ turn \in SUBSET Nat /\ ready \in SUBSET Nat
       /\ ready = {i \in 0..m : states[At[i]] = "READY"}
  BY <1>3, <1>11, <1>13
<1>15. \A i \in ready : i \in turn \/ \E k \in turn : k < i
  <2>1. ASSUME NEW i \in ready PROVE i \in turn \/ \E k \in turn : k < i
    <3>1. i \in 0..m /\ states[At[i]] = "READY"
      BY <1>11, <2>1
    <3>2. CASE i < Len(w)
      BY <1>3, <1>13, <3>1, <3>2
    <3>3. CASE ~(i < Len(w))
      <4>1. PICK k \in 0..(Len(w) - 1) : Circular(w, s, k) = At[i]
        BY <1>4, <1>13, <3>1
      <4>2. k \in turn /\ k < i
        BY <1>3, <3>1, <3>3, <4>1
      <4> QED BY <4>2
    <3> QED BY <3>2, <3>3
  <2> QED BY <2>1
<1>16. \A k \in turn : At[k] = Circular(w, s, k)
  BY <1>13
<1> HIDE DEF ready, turn
<1>17. CASE turn = {}
  BY <1>1, <1>2, <1>15, <1>17
<1>18. CASE turn # {}
  <2>1. Min(turn) \in turn /\ \A k \in turn : Min(turn) <= k
    BY <1>14, <1>18, MinExists
  <2>2. ready # {} /\ Min(ready) \in ready /\ \A k \in ready : Min(ready) <= k
    BY <1>14, <1>18, MinExists
  <2> DEFINE a == Min(turn)
             b == Min(ready)
  <2>5. a \in Nat /\ b \in Nat /\ a \in turn /\ b \in ready /\ b <= a
    BY <1>14, <2>1, <2>2
  <2>6. \A k \in turn : a <= k
    BY <2>1
  <2> HIDE DEF a, b
  <2>3. a <= b
    <3>1. CASE b \in turn
      BY <2>6, <3>1
    <3>2. CASE \E k \in turn : k < b
      <4>1. PICK k \in turn : k < b
        BY <3>2
      <4>2. k \in Nat /\ a <= k
        BY <1>14, <2>6, <4>1
      <4> QED BY <2>5, <4>1, <4>2
    <3> QED BY <1>15, <2>5, <3>1, <3>2
  <2>7. a = b
    BY <2>3, <2>5
  <2>4. Min(turn) = Min(ready)
    BY <2>7 DEF a, b
  <2> QED BY <1>1, <1>2, <1>3, <1>16, <1>18, <2>1, <2>2, <2>4
<1> QED BY <1>17, <1>18

(***************************************************************************)
(* The stores of scheduler_add and scheduler_remove.                       *)
(***************************************************************************)
LEMMA ChainGrows ==
    ASSUME NEW n, NEW h, NEW w, Chain(n, h, w), w # <<>>, NEW p \in Proc \ ToSet(w)
    PROVE  /\ Chain([n EXCEPT ![w[Len(w)]] = p], h, Append(w, p))
           /\ ToSet(Append(w, p)) = ToSet(w) \cup {p}
           /\ Len(Append(w, p)) = Len(w) + 1 /\ Append(w, p)[Len(w) + 1] = p
           /\ Append(w, p)[Len(w)] = w[Len(w)] /\ Append(w, p)[1] = w[1] /\ Append(w, p) # <<>>
<1> DEFINE l == Len(w)
           r == Append(w, p)
           last == w[l]
           n2 == [n EXCEPT ![last] = p]
<1>1. /\ w \in Seq(Proc) /\ Injective(w) /\ n \in [Proc -> Proc \cup {None}]
      /\ l \in Nat /\ l > 0 /\ h = w[1] /\ \A i \in 1..l : w[i] \in Proc /\ w[i] # p /\ w[i] \in ToSet(w)
      /\ \A i \in 1..l : n[w[i]] = IF i = l THEN None ELSE w[i + 1]
      /\ \A q \in Proc \ ToSet(w) : n[q] = None
  BY DEF Chain, ToSet
<1>2. /\ r \in Seq(Proc) /\ Injective(r) /\ ToSet(r) = ToSet(w) \cup {p}
  BY <1>1, AddLemma DEF SchedulerAdd
<1>3. Len(r) = l + 1 /\ r[l + 1] = p /\ \A i \in 1..l : r[i] = w[i]
  BY <1>1
<1> HIDE DEF r, l
<1>4. last \in Proc /\ last \in ToSet(w) /\ last # p /\ n[p] = None
  BY <1>1
<1>5. n2 \in [Proc -> Proc \cup {None}] /\ \A q \in Proc : n2[q] = IF q = last THEN p ELSE n[q]
  BY <1>1, <1>4
<1>7. ASSUME NEW i \in 1..(l + 1) PROVE n2[r[i]] = IF i = l + 1 THEN None ELSE r[i + 1]
  <2>1. CASE i = l + 1
    BY <1>3, <1>4, <1>5, <2>1
  <2>2. CASE i = l
    BY <1>1, <1>3, <1>4, <1>5, <2>2
  <2>3. CASE i < l
    <3>1. i \in 1..l /\ i + 1 \in 1..l /\ i # l /\ i # l + 1
      BY <1>1, <2>3
    <3>2. w[i] # last /\ w[i] \in Proc
      BY <1>1, <3>1 DEF Injective, l
    <3> QED BY <1>1, <1>3, <1>5, <3>1, <3>2
  <2> QED BY <1>1, <2>1, <2>2, <2>3
<1>8. \A q \in Proc \ ToSet(r) : n2[q] = None
  BY <1>1, <1>2, <1>4, <1>5
<1>9. h = r[1] /\ r # <<>>
  BY <1>1, <1>2, <1>3
<1>10. Chain(n2, h, r)
  <2> HIDE DEF n2
  <2> QED BY <1>2, <1>3, <1>5, <1>7, <1>8, <1>9 DEF Chain
<1> QED BY <1>1, <1>2, <1>3, <1>9, <1>10 DEF l, r

(***************************************************************************)
(* Taking the process at i, which is not the head, out of the list.        *)
(***************************************************************************)
Skipping(n, p) == [q \in Proc |-> IF q = p THEN None ELSE IF n[q] = p THEN n[p] ELSE n[q]]

LEMMA ChainShrinks ==
    ASSUME NEW n, NEW h, NEW w, Chain(n, h, w), NEW i \in 2..Len(w)
    PROVE  /\ Chain(Skipping(n, w[i]), h, RemoveAt(w, i))
           /\ ToSet(RemoveAt(w, i)) = ToSet(w) \ {w[i]}
           /\ Len(RemoveAt(w, i)) = Len(w) - 1
           /\ RemoveAt(w, i)[1] = w[1] /\ RemoveAt(w, i) # <<>>
           /\ i < Len(w) => RemoveAt(w, i)[Len(w) - 1] = w[Len(w)]
           /\ i = Len(w) => RemoveAt(w, i)[Len(w) - 1] = w[i - 1]
           /\ \A q \in Proc : n[q] = w[i] <=> q = w[i - 1]
<1> DEFINE l == Len(w)
           p == w[i]
           r == RemoveAt(w, i)
           n2 == Skipping(n, p)
<1>1. /\ w \in Seq(Proc) /\ Injective(w) /\ n \in [Proc -> Proc \cup {None}]
      /\ l \in Nat /\ l >= 2 /\ h = w[1] /\ i \in 2..l
      /\ \A k \in 1..l : w[k] \in Proc /\ w[k] \in ToSet(w)
      /\ \A k \in 1..l : n[w[k]] = IF k = l THEN None ELSE w[k + 1]
      /\ \A q \in Proc \ ToSet(w) : n[q] = None
      /\ \A q \in ToSet(w) : \E k \in 1..l : w[k] = q
  BY DEF Chain, ToSet
<1>2. /\ r \in Seq(Proc) /\ Len(r) = l - 1
      /\ \A k \in 1..(l - 1) : r[k] = IF k < i THEN w[k] ELSE w[k + 1]
  <2>1. w \in Seq(Proc) /\ i \in 1..Len(w)
    <3>1. l \in Nat /\ i \in 2..l /\ w \in Seq(Proc)
      BY <1>1
    <3> QED BY <3>1
  <2> QED BY <2>1, RemoveAtLemma
<1>3. /\ \A j, k \in 1..l : w[j] = w[k] => j = k
      /\ p \in Proc /\ w[i - 1] \in Proc /\ n[w[i - 1]] = p
  <2>1. i \in 1..l /\ i - 1 \in 1..l /\ i - 1 # l /\ i - 1 + 1 = i
    BY <1>1
  <2>2. n[w[i - 1]] = w[i - 1 + 1]
    BY <1>1, <2>1
  <2>3. \A j, k \in 1..l : w[j] = w[k] => j = k
    BY <1>1 DEF Injective
  <2> QED BY <1>1, <2>1, <2>2, <2>3
<1>4. ToSet(r) = ToSet(w) \ {p} /\ Injective(r)
  <2>1. SchedulerRemove(w, p) = r
    <3>1. (CHOOSE k \in 1..Len(w) : w[k] = p) = i
      BY <1>1, <1>3
    <3>2. \E k \in 1..Len(w) : w[k] = p
      BY <1>1
    <3> QED BY <3>1, <3>2 DEF SchedulerRemove
  <2> QED BY <1>1, <2>1, RemoveLemma
<1>5. \A q \in Proc : n[q] = p <=> q = w[i - 1]
  <2>1. ASSUME NEW q \in Proc, n[q] = p PROVE q = w[i - 1]
    <3>1. p # None
      BY <1>3, NoneAssumption
    <3>2. PICK k \in 1..l : w[k] = q
      BY <1>1, <2>1, <3>1
    <3>3. k # l /\ w[k + 1] = w[i]
      BY <1>1, <2>1, <3>1, <3>2
    <3>4. k + 1 = i
      BY <1>1, <1>3, <3>2, <3>3
    <3>5. k = i - 1
      BY <1>1, <3>2, <3>4
    <3> QED BY <3>2, <3>5
  <2> QED BY <1>3, <2>1
<1>6. n2 \in [Proc -> Proc \cup {None}]
  BY <1>1, <1>3 DEF Skipping
<1>7. \A q \in Proc : n2[q] = IF q = p THEN None ELSE IF q = w[i - 1] THEN n[p] ELSE n[q]
  BY <1>5 DEF Skipping
<1> HIDE DEF n2, r, l, p
<1>8. ASSUME NEW k \in 1..(l - 1) PROVE n2[r[k]] = IF k = l - 1 THEN None ELSE r[k + 1]
  <2>1. CASE k < i - 1
    <3>1. /\ k \in 1..l /\ k + 1 \in 1..(l - 1) /\ k < i /\ k + 1 < i /\ k # l /\ k # l - 1 /\ i - 1 \in 1..l
          /\ k # i /\ k # i - 1
      BY <1>1, <2>1
    <3>2. r[k] = w[k] /\ r[k + 1] = w[k + 1]
      BY <1>2, <3>1
    <3>3. w[k] \in Proc /\ w[k] # p /\ w[k] # w[i - 1]
      BY <1>1, <1>3, <3>1 DEF p
    <3>4. n[w[k]] = w[k + 1]
      BY <1>1, <3>1
    <3> QED BY <1>7, <3>1, <3>2, <3>3, <3>4
  <2>2. CASE k = i - 1
    <3>1. k \in 1..l /\ k < i /\ k # i /\ (k # l - 1 => k + 1 \in 1..(l - 1) /\ i # l /\ ~(k + 1 < i)) /\ (k = l - 1 => i = l)
      BY <1>1, <2>2
    <3>2. r[k] = w[i - 1] /\ w[i - 1] # p
      BY <1>1, <1>2, <1>3, <2>2, <3>1 DEF p
    <3>3. n2[r[k]] = n[p] /\ n[p] = IF i = l THEN None ELSE w[i + 1]
      BY <1>1, <1>3, <1>7, <3>2 DEF p
    <3>4. k # l - 1 => r[k + 1] = w[k + 1 + 1]
      BY <1>2, <3>1
    <3>5. k + 1 + 1 = i + 1
      BY <1>1, <2>2
    <3> QED BY <3>1, <3>3, <3>4, <3>5
  <2>3. CASE k >= i
    <3>1. /\ k + 1 \in 1..l /\ ~(k < i) /\ i \in 1..l /\ i - 1 \in 1..l /\ k + 1 # i /\ k + 1 # i - 1
          /\ (k # l - 1 => k + 1 \in 1..(l - 1) /\ ~(k + 1 < i) /\ k + 1 # l) /\ (k = l - 1 => k + 1 = l)
      BY <1>1, <2>3
    <3>2. r[k] = w[k + 1] /\ (k # l - 1 => r[k + 1] = w[k + 1 + 1])
      BY <1>2, <3>1
    <3>3. w[k + 1] \in Proc /\ w[k + 1] # p /\ w[k + 1] # w[i - 1]
      BY <1>1, <1>3, <3>1 DEF p
    <3>4. n[w[k + 1]] = IF k + 1 = l THEN None ELSE w[k + 1 + 1]
      BY <1>1, <3>1
    <3> QED BY <1>7, <3>1, <3>2, <3>3, <3>4
  <2> QED BY <1>1, <2>1, <2>2, <2>3
<1>9. \A q \in Proc \ ToSet(r) : n2[q] = None
  <2>1. w[i - 1] \in ToSet(w) /\ w[i - 1] # p
    BY <1>1, <1>3 DEF p
  <2> QED BY <1>1, <1>4, <1>7, <2>1
<1>10. r[1] = w[1] /\ r # <<>>
  BY <1>1, <1>2
<1>11. Chain(n2, h, r)
  BY <1>1, <1>2, <1>4, <1>6, <1>8, <1>9, <1>10 DEF Chain
<1>12. /\ i < l => r[l - 1] = w[l]
       /\ i = l => r[l - 1] = w[i - 1]
  <2>1. l - 1 \in 1..(l - 1) /\ l - 1 + 1 = l /\ (i < l => ~(l - 1 < i)) /\ (i = l => l - 1 < i)
    <3>1. l \in Nat /\ l >= 2 /\ i \in 2..l
      BY <1>1
    <3> HIDE DEF l
    <3> QED BY <3>1
  <2>2. r[l - 1] = IF l - 1 < i THEN w[l - 1] ELSE w[l - 1 + 1]
    BY <1>2, <2>1
  <2> QED BY <2>1, <2>2
<1> QED BY <1>2, <1>4, <1>5, <1>10, <1>11, <1>12 DEF n2, r, l, p

(***************************************************************************)
(* The inductive invariant.  As long as no insertion was torn, some list w *)
(* is what the pointers are, with init at its head.                        *)
(***************************************************************************)
Steps == {"boot", "prepared", "linked", "start", "init", "nothing", "panic"}

RunTypeOK ==
  /\ next \in [Proc -> Proc \cup {None}] /\ head \in Proc \cup {None}
  /\ tail \in Proc \cup {None} /\ running \in Proc \cup {None}
  /\ state \in [Proc -> ProcState]
  /\ kernel \in Steps \X (Proc \cup {None}) /\ torn \in BOOLEAN

\* Who is on the list, and who runs.
MembersAreKnown(w) ==
  /\ \A p \in Proc : state[p] \in {"READY", "RUNNING", "CRASHED"} <=>
                       p \in ToSet(w) \/ kernel = <<"prepared", p>>
  /\ \A p \in Proc : state[p] = "RUNNING" <=> p = running
  /\ running # None => running \in ToSet(w)
  /\ w # <<>> => w[1] = InitProc /\ state[InitProc] \in {"READY", "RUNNING"}

\* How far main or init is, and the tail.
InsertionIsKnown(w) ==
  /\ kernel[1] = "boot" => w = <<>> /\ running = None
  /\ kernel[1] = "prepared" =>
       /\ kernel[2] \in Proc \ ToSet(w) /\ state[kernel[2]] = "READY"
       /\ (running = None) <=> (w = <<>>)
       /\ w = <<>> => kernel[2] = InitProc
  /\ kernel[1] = "linked" =>
       /\ w # <<>> /\ kernel[2] = w[Len(w)]
       /\ running # None => Len(w) > 1 /\ tail = w[Len(w) - 1]
  /\ kernel[1] # "linked" /\ w # <<>> => tail = w[Len(w)]
  /\ kernel[1] = "start" => w # <<>> /\ running = None
  /\ kernel[1] \in {"init", "nothing"} => w # <<>> /\ running # None

IsTheList(w) == Chain(next, head, w) /\ MembersAreKnown(w) /\ InsertionIsKnown(w)

RunListInv ==
  /\ RunTypeOK
  /\ torn => kernel[1] = "linked"
  /\ kernel[1] = "panic" => running = None /\ kernel = Panic
  /\ ~torn /\ kernel[1] # "panic" => \E w \in Seq(Proc) : IsTheList(w)

LEMMA PicksReady ==
    ASSUME NEW n, NEW w, Chain(n, head, w), w # <<>>,
           NEW cur \in ToSet(w) \cup {None}, NEW states
    PROVE  LET q == NextToRun(n, cur, states) IN
           /\ q # None => q \in ToSet(w) /\ q \in Proc /\ states[q] = "READY"
           /\ (\E p \in ToSet(w) : states[p] = "READY") => q # None
<1>1. w \in Seq(Proc) /\ ToSet(w) \subseteq Proc
  BY DEF Chain, ToSet
<1>2. NextToRun(n, cur, states) = SchedulerNext(w, cur, states)
  BY NextIsNextOfList
<1>3. /\ SchedulerNext(w, cur, states) # None =>
            /\ SchedulerNext(w, cur, states) \in ToSet(w)
            /\ states[SchedulerNext(w, cur, states)] = "READY"
      /\ (\E p \in ToSet(w) : states[p] = "READY") => SchedulerNext(w, cur, states) # None
  BY <1>1, NextLemma
<1> QED BY <1>1, <1>2, <1>3

LEMMA InitRunListInv == RunListInit => RunListInv
<1> SUFFICES ASSUME RunListInit PROVE RunListInv
  OBVIOUS
<1>1. RunTypeOK
  BY DEF RunListInit, RunTypeOK, ProcState, Booting, Steps
<1>2. Chain(next, head, <<>>)
  BY DEF RunListInit, Chain, Injective, ToSet
<1>3. kernel[1] = "boot" /\ running = None /\ ToSet(<<>>) = {} /\ \A p \in Proc : state[p] = "FREE"
  BY DEF RunListInit, Booting, ToSet
<1>4. \A p \in Proc : kernel # <<"prepared", p>>
  BY DEF RunListInit, Booting
<1>5. MembersAreKnown(<<>>)
  BY <1>3, <1>4, NoneAssumption DEF MembersAreKnown
<1>6. InsertionIsKnown(<<>>)
  BY <1>3 DEF InsertionIsKnown
<1>7. <<>> \in Seq(Proc) /\ IsTheList(<<>>)
  BY <1>2, <1>5, <1>6 DEF IsTheList
<1>8. torn = FALSE
  BY DEF RunListInit
<1> QED BY <1>1, <1>3, <1>7, <1>8 DEF RunListInv

\* What every step begins with.
LEMMA ListSeen ==
    ASSUME RunTypeOK, NEW w \in Seq(Proc), IsTheList(w)
    PROVE  /\ Len(w) \in Nat /\ ToSet(w) \subseteq Proc /\ Injective(w)
           /\ \A i \in 1..Len(w) : w[i] \in ToSet(w)
           /\ \A p \in ToSet(w) : \E i \in 1..Len(w) : w[i] = p
           /\ (head = None) <=> (w = <<>>)
           /\ w # <<>> => Len(w) > 0 /\ InitProc \in ToSet(w)
           /\ running \in Proc => w # <<>> /\ running \in ToSet(w)
           /\ kernel = <<kernel[1], kernel[2]>>
<1>1. /\ Len(w) \in Nat /\ ToSet(w) \subseteq Proc /\ Injective(w)
      /\ \A i \in 1..Len(w) : w[i] \in ToSet(w)
      /\ \A p \in ToSet(w) : \E i \in 1..Len(w) : w[i] = p
  BY DEF IsTheList, Chain, ToSet
<1>2. w # <<>> => Len(w) > 0
  OBVIOUS
<1>3. head = IF w = <<>> THEN None ELSE w[1]
  BY DEF IsTheList, Chain
<1>4. (head = None) <=> (w = <<>>)
  BY <1>1, <1>2, <1>3, NoneAssumption
<1>5. w # <<>> => InitProc \in ToSet(w)
  BY <1>1, <1>2 DEF IsTheList, MembersAreKnown
<1>6. running \in Proc => w # <<>> /\ running \in ToSet(w)
  BY <1>1, NoneAssumption DEF IsTheList, MembersAreKnown
<1>7. kernel = <<kernel[1], kernel[2]>>
  BY DEF RunTypeOK
<1> QED BY <1>1, <1>2, <1>4, <1>5, <1>6, <1>7

LEMMA PrepareKeepsRunListInv ==
    ASSUME RunTypeOK, ~torn, NEW w \in Seq(Proc), IsTheList(w), NEW p \in Proc, Prepare(p)
    PROVE  RunListInv'
<1>1. /\ next' = [next EXCEPT ![p] = None] /\ state' = [state EXCEPT ![p] = "READY"]
      /\ kernel' = <<"prepared", p>> /\ UNCHANGED <<head, tail, running, torn>>
  BY DEF Prepare
<1>2. /\ ToSet(w) \subseteq Proc /\ (w # <<>> => InitProc \in ToSet(w))
      /\ \A q \in Proc : state[q] \in {"READY", "RUNNING", "CRASHED"} <=>
                           q \in ToSet(w) \/ kernel = <<"prepared", q>>
  BY ListSeen DEF IsTheList, MembersAreKnown
<1>3. /\ p \notin ToSet(w) /\ kernel[1] \in {"boot", "init"}
      /\ (running = None) <=> (w = <<>>)
      /\ w = <<>> => p = InitProc
  <2>1. CASE kernel = Booting /\ p = InitProc
    <3>1. kernel[1] = "boot" /\ w = <<>> /\ running = None /\ ToSet(<<>>) = {}
      BY <2>1 DEF Booting, IsTheList, InsertionIsKnown, ToSet
    <3> QED BY <2>1, <3>1
  <2>2. CASE kernel = Starting /\ running = InitProc /\ state[p] = "FREE"
    <3>1. kernel[1] = "init" /\ w # <<>> /\ running # None
      BY <2>2 DEF Starting, IsTheList, InsertionIsKnown
    <3>2. p \notin ToSet(w)
      BY <1>2, <2>2
    <3> QED BY <3>1, <3>2
  <2> QED BY <2>1, <2>2 DEF Prepare
<1>4. next' = next
  <2>1. next \in [Proc -> Proc \cup {None}] /\ next[p] = None
    BY <1>3 DEF IsTheList, Chain
  <2> QED BY <1>1, <2>1
<1>5. Chain(next, head, w)'
  BY <1>1, <1>4 DEF IsTheList, Chain
<1>6. RunTypeOK'
  BY <1>1, <1>4 DEF RunTypeOK, ProcState, Steps
<1>7. \A q \in Proc : state'[q] = IF q = p THEN "READY" ELSE state[q]
  BY <1>1 DEF RunTypeOK
<1>8. \A q \in Proc : (kernel' = <<"prepared", q>>) <=> (q = p)
  BY <1>1
<1>9. \A q \in Proc : kernel # <<"prepared", q>>
  BY <1>3
<1>10. p # running
  BY <1>3 DEF IsTheList, MembersAreKnown
<1>11. MembersAreKnown(w)'
  <2>1. \A q \in Proc : state'[q] \in {"READY", "RUNNING", "CRASHED"} <=>
                           q \in ToSet(w) \/ kernel' = <<"prepared", q>>
    BY <1>2, <1>7, <1>8, <1>9
  <2>2. \A q \in Proc : state'[q] = "RUNNING" <=> q = running'
    BY <1>1, <1>7, <1>10 DEF IsTheList, MembersAreKnown
  <2>3. w # <<>> => w[1] = InitProc /\ state'[InitProc] \in {"READY", "RUNNING"}
    BY <1>7, InitAssumption DEF IsTheList, MembersAreKnown
  <2>4. running' # None => running' \in ToSet(w)
    BY <1>1 DEF IsTheList, MembersAreKnown
  <2> QED BY <2>1, <2>2, <2>3, <2>4 DEF MembersAreKnown
<1>12. InsertionIsKnown(w)'
  <2>1. kernel'[1] = "prepared" /\ kernel'[2] = p /\ state'[p] = "READY"
    BY <1>1, <1>7
  <2>2. w # <<>> => tail = w[Len(w)]
    BY <1>3 DEF IsTheList, InsertionIsKnown
  <2> QED BY <1>1, <1>3, <2>1, <2>2 DEF InsertionIsKnown
<1> QED BY <1>1, <1>5, <1>6, <1>11, <1>12 DEF RunListInv, IsTheList

LEMMA LinkKeepsRunListInv ==
    ASSUME RunTypeOK, ~torn, NEW w \in Seq(Proc), IsTheList(w), Link
    PROVE  RunListInv'
<1>0. PICK p \in Proc \cup {None} : p = kernel[2]
  BY DEF RunTypeOK
<1> DEFINE r == Append(w, p)
<1>1. /\ kernel[1] = "prepared" /\ running \in {None, InitProc}
      /\ kernel' = <<"linked", p>> /\ UNCHANGED <<tail, running, state, torn>>
  BY <1>0 DEF Link, Mine
<1>2. /\ p \in Proc \ ToSet(w) /\ state[p] = "READY"
      /\ (running = None) <=> (w = <<>>)
      /\ w = <<>> => p = InitProc
      /\ w # <<>> => tail = w[Len(w)]
  BY <1>0, <1>1 DEF IsTheList, InsertionIsKnown
<1>3. (head = None) <=> (w = <<>>)
  BY ListSeen
<1>4. /\ Chain(next, head, r)' /\ r \in Seq(Proc) /\ ToSet(r) = ToSet(w) \cup {p}
      /\ r # <<>> /\ r[Len(r)] = p
      /\ (w = <<>> => r[1] = p) /\ (w # <<>> => r[1] = w[1] /\ Len(r) > 1 /\ r[Len(r) - 1] = w[Len(w)])
      /\ next' \in [Proc -> Proc \cup {None}] /\ head' \in Proc \cup {None}
  <2>1. CASE w = <<>>
    <3>1. /\ r = <<p>> /\ head' = p /\ next' = next
      BY <1>0, <1>2, <1>3, <2>1 DEF Link
    <3>2. ToSet(r) = {p} /\ ToSet(w) = {} /\ Injective(r)
      BY <2>1, <3>1 DEF ToSet, Injective
    <3>3. \A q \in Proc : next[q] = None
      BY <3>2 DEF IsTheList, Chain
    <3>4. Len(r) = 1 /\ r[1] = p /\ r \in Seq(Proc) /\ r # <<>>
      BY <1>2, <3>1
    <3>5. \A i \in 1..Len(r) : next[r[i]] = IF i = Len(r) THEN None ELSE r[i + 1]
      BY <1>2, <3>3, <3>4
    <3>6. next \in [Proc -> Proc \cup {None}]
      BY DEF RunTypeOK
    <3>7. Chain(next, head, r)'
      BY <3>1, <3>2, <3>3, <3>4, <3>5, <3>6 DEF Chain
    <3> QED BY <1>2, <2>1, <3>1, <3>2, <3>4, <3>6, <3>7
  <2>2. CASE w # <<>>
    <3>1. next' = [next EXCEPT ![w[Len(w)]] = p] /\ head' = head
      BY <1>0, <1>2, <1>3, <2>2 DEF Link
    <3>2. /\ Chain([next EXCEPT ![w[Len(w)]] = p], head, r)
          /\ ToSet(r) = ToSet(w) \cup {p}
          /\ Len(r) = Len(w) + 1 /\ r[Len(w) + 1] = p
          /\ r[Len(w)] = w[Len(w)] /\ r[1] = w[1] /\ r # <<>>
      <4>1. Chain(next, head, w) /\ w # <<>> /\ p \in Proc \ ToSet(w)
        BY <1>2, <2>2 DEF IsTheList
      <4>2. /\ Chain([next EXCEPT ![w[Len(w)]] = p], head, Append(w, p))
            /\ ToSet(Append(w, p)) = ToSet(w) \cup {p}
            /\ Len(Append(w, p)) = Len(w) + 1 /\ Append(w, p)[Len(w) + 1] = p
            /\ Append(w, p)[Len(w)] = w[Len(w)] /\ Append(w, p)[1] = w[1] /\ Append(w, p) # <<>>
        BY <4>1, ChainGrows
      <4> QED BY <4>2
    <3>3. Len(w) \in Nat /\ Len(w) > 0 /\ Len(r) > 1 /\ Len(r) - 1 = Len(w)
      BY <2>2, <3>2
    <3> HIDE DEF r
    <3>4. Chain(next, head, r)' /\ r \in Seq(Proc) /\ next' \in [Proc -> Proc \cup {None}]
      BY <3>1, <3>2 DEF Chain
    <3>5. head' \in Proc \cup {None}
      BY <3>1 DEF RunTypeOK
    <3> QED BY <2>2, <3>2, <3>3, <3>4, <3>5
  <2> QED BY <2>1, <2>2
<1> HIDE DEF r
<1>5. RunTypeOK'
  BY <1>1, <1>2, <1>4 DEF RunTypeOK, Steps
<1>6. MembersAreKnown(r)'
  <2>1. \A q \in Proc : kernel = <<"prepared", q>> <=> q = p
    BY <1>0, <1>1, ListSeen
  <2>2. \A q \in Proc : kernel' # <<"prepared", q>>
    BY <1>1
  <2>3. \A q \in Proc : state'[q] \in {"READY", "RUNNING", "CRASHED"} <=> q \in ToSet(r)
    BY <1>1, <1>4, <2>1 DEF IsTheList, MembersAreKnown
  <2>4. \A q \in Proc : state'[q] = "RUNNING" <=> q = running'
    BY <1>1 DEF IsTheList, MembersAreKnown
  <2>5. r[1] = InitProc /\ state'[InitProc] \in {"READY", "RUNNING"}
    BY <1>1, <1>2, <1>4 DEF IsTheList, MembersAreKnown
  <2>6. running' # None => running' \in ToSet(r)
    BY <1>1, <1>4 DEF IsTheList, MembersAreKnown
  <2> QED BY <2>2, <2>3, <2>4, <2>5, <2>6 DEF MembersAreKnown
<1>7. InsertionIsKnown(r)'
  <2>1. kernel'[1] = "linked" /\ kernel'[2] = p
    BY <1>1
  <2> QED BY <1>1, <1>2, <1>4, <2>1 DEF InsertionIsKnown
<1> QED BY <1>1, <1>4, <1>5, <1>6, <1>7 DEF RunListInv, IsTheList

LEMMA EndOfListKeepsRunListInv ==
    ASSUME RunTypeOK, ~torn, NEW w \in Seq(Proc), IsTheList(w), EndOfList
    PROVE  RunListInv'
<1>1. /\ kernel[1] = "linked" /\ tail' = kernel[2]
      /\ kernel' = IF running = None THEN <<"start", None>> ELSE Nothing
      /\ UNCHANGED <<next, head, running, state, torn>>
  BY DEF EndOfList
<1>2. w # <<>> /\ kernel[2] = w[Len(w)] /\ kernel[2] \in Proc
  <2>1. w # <<>> /\ kernel[2] = w[Len(w)]
    BY <1>1 DEF IsTheList, InsertionIsKnown
  <2>2. Len(w) \in 1..Len(w) /\ ToSet(w) \subseteq Proc
    BY <2>1, ListSeen
  <2> QED BY <2>1, <2>2, ListSeen
<1>3. kernel' \in Steps \X (Proc \cup {None}) /\ \A q \in Proc : kernel' # <<"prepared", q>>
  BY <1>1 DEF Nothing, Steps
<1>4. RunTypeOK'
  BY <1>1, <1>2, <1>3 DEF RunTypeOK
<1>5. Chain(next, head, w)'
  BY <1>1 DEF IsTheList, Chain
<1>6. \A q \in Proc : kernel # <<"prepared", q>>
  BY <1>1
<1>7. MembersAreKnown(w)'
  BY <1>1, <1>3, <1>6 DEF IsTheList, MembersAreKnown
<1>8. InsertionIsKnown(w)'
  BY <1>1, <1>2 DEF InsertionIsKnown, Nothing
<1>9. kernel'[1] # "panic"
  BY <1>1 DEF Nothing
<1> QED BY <1>1, <1>4, <1>5, <1>7, <1>8, <1>9 DEF RunListInv, IsTheList

LEMMA StartKeepsRunListInv ==
    ASSUME RunTypeOK, ~torn, NEW w \in Seq(Proc), IsTheList(w), Start
    PROVE  RunListInv'
<1>0. PICK q : q = NextToRun(next, running, state)
  OBVIOUS
<1>1. /\ kernel[1] = "start" /\ kernel' = Starting
      /\ running' = q /\ state' = [state EXCEPT ![q] = "RUNNING"]
      /\ UNCHANGED <<next, head, tail, torn>>
  BY <1>0 DEF Start, Dispatch
<1>2. w # <<>> /\ running = None /\ tail = w[Len(w)]
  BY <1>1 DEF IsTheList, InsertionIsKnown
<1>3. InitProc \in ToSet(w) /\ state[InitProc] = "READY"
  <2>1. state[InitProc] # "RUNNING"
    BY <1>2, InitAssumption, NoneAssumption DEF IsTheList, MembersAreKnown
  <2> QED BY <1>2, <2>1, ListSeen DEF IsTheList, MembersAreKnown
<1>4. q \in ToSet(w) /\ q \in Proc /\ state[q] = "READY" /\ q # None
  <2>1. Chain(next, head, w) /\ running \in ToSet(w) \cup {None}
    BY <1>2 DEF IsTheList
  <2> QED BY <1>0, <1>2, <1>3, <2>1, PicksReady
<1>5. RunTypeOK'
  BY <1>1, <1>4 DEF RunTypeOK, Starting, Steps, ProcState
<1>6. Chain(next, head, w)'
  BY <1>1 DEF IsTheList, Chain
<1>7. MembersAreKnown(w)'
  <2>1. \A p \in Proc : state'[p] = IF p = q THEN "RUNNING" ELSE state[p]
    BY <1>1 DEF RunTypeOK
  <2>2. \A p \in Proc : kernel # <<"prepared", p>> /\ kernel' # <<"prepared", p>>
    BY <1>1 DEF Starting
  <2>3. \A p \in Proc : state[p] # "RUNNING"
    BY <1>2, NoneAssumption DEF IsTheList, MembersAreKnown
  <2>4. \A p \in Proc : state'[p] \in {"READY", "RUNNING", "CRASHED"} <=> p \in ToSet(w)
    BY <1>4, <2>1, <2>2 DEF IsTheList, MembersAreKnown
  <2>5. w[1] = InitProc /\ state'[InitProc] \in {"READY", "RUNNING"}
    BY <1>2, <1>3, <2>1, InitAssumption DEF IsTheList, MembersAreKnown
  <2> QED BY <1>1, <1>4, <2>1, <2>2, <2>3, <2>4, <2>5 DEF MembersAreKnown
<1>8. InsertionIsKnown(w)'
  BY <1>1, <1>2, <1>4 DEF InsertionIsKnown, Starting
<1> QED BY <1>1, <1>5, <1>6, <1>7, <1>8 DEF RunListInv, IsTheList, Starting

LEMMA TimerKeepsRunListInv ==
    ASSUME RunTypeOK, ~torn, kernel[1] # "panic", NEW w \in Seq(Proc), IsTheList(w), Timer
    PROVE  RunListInv'
<1>1. CASE running = None
  <2>1. kernel' = Panic /\ UNCHANGED <<next, head, tail, running, state, torn>>
    BY <1>1 DEF Timer
  <2>2. RunTypeOK'
    BY <2>1 DEF RunTypeOK, Panic, Steps
  <2> QED BY <1>1, <2>1, <2>2 DEF RunListInv, Panic
<1>2. CASE running # None
  <2>1. PICK q : /\ q = NextToRun(next, running, state) /\ q # None
                 /\ running' = q
                 /\ state' = [[state EXCEPT ![running] = "READY"] EXCEPT ![q] = "RUNNING"]
                 /\ UNCHANGED <<next, head, tail, kernel, torn>>
    BY <1>2 DEF Timer, Dispatch
  <2>2. running \in Proc /\ running \in ToSet(w) /\ w # <<>> /\ state[running] = "RUNNING"
    BY <1>2, ListSeen DEF RunTypeOK, IsTheList, MembersAreKnown
  <2>3. q \in ToSet(w) /\ q \in Proc /\ state[q] = "READY"
    <3>1. Chain(next, head, w)
      BY DEF IsTheList
    <3> QED BY <2>1, <2>2, <3>1, PicksReady
  <2>4. \A p \in Proc : state'[p] = IF p = q THEN "RUNNING" ELSE IF p = running THEN "READY" ELSE state[p]
    BY <2>1, <2>2 DEF RunTypeOK
  <2>5. RunTypeOK'
    BY <2>1, <2>2, <2>3 DEF RunTypeOK, ProcState
  <2>6. Chain(next, head, w)'
    BY <2>1 DEF IsTheList, Chain
  <2>7. MembersAreKnown(w)'
    <3>1. \A p \in Proc : state'[p] \in {"READY", "RUNNING", "CRASHED"} <=>
                            p \in ToSet(w) \/ kernel' = <<"prepared", p>>
      BY <2>1, <2>2, <2>3, <2>4 DEF IsTheList, MembersAreKnown
    <3>4. \A p \in Proc : state[p] = "RUNNING" <=> p = running
      BY DEF IsTheList, MembersAreKnown
    <3>5. running' = q /\ q # running
      BY <2>1, <2>2, <2>3
    <3>2. \A p \in Proc : state'[p] = "RUNNING" <=> p = running'
      BY <2>4, <3>4, <3>5
    <3>3. w[1] = InitProc /\ state'[InitProc] \in {"READY", "RUNNING"}
      BY <2>2, <2>4, InitAssumption DEF IsTheList, MembersAreKnown
    <3> QED BY <2>1, <2>3, <3>1, <3>2, <3>3 DEF MembersAreKnown
  <2>8. InsertionIsKnown(w)'
    <3>1. kernel[1] = "prepared" => state'[kernel[2]] = "READY"
      <4>1. kernel[1] = "prepared" => kernel[2] \in Proc \ ToSet(w) /\ state[kernel[2]] = "READY"
        BY DEF IsTheList, InsertionIsKnown
      <4> QED BY <2>3, <2>4, <4>1
    <3> QED BY <1>2, <2>1, <3>1 DEF IsTheList, InsertionIsKnown
  <2>9. kernel'[1] # "panic" => \E v \in Seq(Proc) : IsTheList(v)'
    BY <2>6, <2>7, <2>8 DEF IsTheList
  <2> QED BY <2>1, <2>5, <2>9 DEF RunListInv
<1> QED BY <1>1, <1>2

LEMMA LaunchKeepsRunListInv ==
    ASSUME RunTypeOK, ~torn, kernel[1] # "panic", NEW w \in Seq(Proc), IsTheList(w),
           NEW p \in Proc, Launch(p)
    PROVE  RunListInv'
<1>1. /\ next' = [next EXCEPT ![p] = None, ![tail] = p] /\ tail' = p
      /\ state' = [state EXCEPT ![p] = "READY"] /\ state[p] = "FREE"
      /\ torn' = (torn \/ kernel[1] = "linked") /\ UNCHANGED <<head, running, kernel>>
      /\ running \in Proc
  BY InitAssumption DEF Launch, Add, Torn, Program
<1>2. w # <<>> /\ running \in ToSet(w) /\ InitProc \in ToSet(w) /\ Len(w) \in Nat /\ Len(w) > 0
  BY <1>1, ListSeen
<1>3. p \notin ToSet(w) /\ kernel # <<"prepared", p>>
  BY <1>1 DEF IsTheList, MembersAreKnown
<1>4. \A q \in Proc : state'[q] = IF q = p THEN "READY" ELSE state[q]
  BY <1>1 DEF RunTypeOK
<1>5. next' \in [Proc -> Proc \cup {None}] /\ state' \in [Proc -> ProcState]
  BY <1>1 DEF RunTypeOK, ProcState
<1>6. RunTypeOK'
  BY <1>1, <1>5 DEF RunTypeOK
<1>7. CASE kernel[1] = "linked"
  BY <1>1, <1>6, <1>7 DEF RunListInv
<1>8. CASE kernel[1] # "linked"
  <2> DEFINE v == Append(w, p)
  <2>1. tail = w[Len(w)]
    BY <1>2, <1>8 DEF IsTheList, InsertionIsKnown
  <2>2. next' = [next EXCEPT ![w[Len(w)]] = p]
    <3>1. next \in [Proc -> Proc \cup {None}] /\ next[p] = None
      BY <1>3 DEF IsTheList, Chain
    <3>2. [next EXCEPT ![p] = None] = next
      BY <3>1
    <3>3. [[next EXCEPT ![p] = None] EXCEPT ![tail] = p] = [next EXCEPT ![tail] = p]
      BY <3>2
    <3> QED BY <1>1, <2>1, <3>3
  <2>3. /\ Chain([next EXCEPT ![w[Len(w)]] = p], head, v)
        /\ ToSet(v) = ToSet(w) \cup {p}
        /\ Len(v) = Len(w) + 1 /\ v[Len(w) + 1] = p
        /\ v[1] = w[1] /\ v # <<>> /\ v \in Seq(Proc)
    <3>1. Chain(next, head, w) /\ p \in Proc \ ToSet(w) /\ w # <<>> /\ v \in Seq(Proc)
      BY <1>2, <1>3 DEF IsTheList
    <3> QED BY <3>1, ChainGrows
  <2> HIDE DEF v
  <2>4. Chain(next, head, v)'
    BY <1>1, <2>2, <2>3 DEF Chain
  <2>5. MembersAreKnown(v)'
    <3>1. \A q \in Proc : state[q] = "RUNNING" <=> q = running
      BY DEF IsTheList, MembersAreKnown
    <3>2. \A q \in Proc : state'[q] = "RUNNING" <=> q = running'
      BY <1>1, <1>4, <3>1
    <3>3. \A q \in Proc : state'[q] \in {"READY", "RUNNING", "CRASHED"} <=>
                            q \in ToSet(v) \/ kernel' = <<"prepared", q>>
      BY <1>1, <1>4, <2>3 DEF IsTheList, MembersAreKnown
    <3>4. v[1] = InitProc /\ state'[InitProc] \in {"READY", "RUNNING"}
      BY <1>2, <1>4, <2>3, InitAssumption DEF IsTheList, MembersAreKnown
    <3> QED BY <1>1, <1>2, <2>3, <3>2, <3>3, <3>4 DEF MembersAreKnown
  <2>6. InsertionIsKnown(v)'
    <3>1. running # None
      BY <1>1, NoneAssumption
    <3>2. kernel[1] # "boot"
      BY <1>2 DEF IsTheList, InsertionIsKnown
    <3>3. kernel[1] = "prepared" => kernel[2] \in Proc \ ToSet(v) /\ state'[kernel[2]] = "READY"
      <4>1. kernel[1] = "prepared" => kernel[2] \in Proc \ ToSet(w) /\ state[kernel[2]] = "READY"
        BY DEF IsTheList, InsertionIsKnown
      <4> QED BY <1>1, <1>4, <2>3, <4>1
    <3>4. kernel[1] # "start"
      BY <3>1 DEF IsTheList, InsertionIsKnown
    <3>5. tail' = v[Len(v)]
      BY <1>1, <2>3
    <3> QED BY <1>1, <1>8, <2>3, <3>1, <3>2, <3>3, <3>4, <3>5 DEF InsertionIsKnown
  <2> QED BY <1>1, <1>6, <1>8, <2>3, <2>4, <2>5, <2>6 DEF RunListInv, IsTheList
<1> QED BY <1>7, <1>8

LEMMA UnlinkShrinks ==
    ASSUME RunTypeOK, NEW w \in Seq(Proc), IsTheList(w), NEW r \in ToSet(w), r # InitProc
    PROVE  /\ Unlink(r).next \in [Proc -> Proc \cup {None}] /\ Unlink(r).tail \in Proc \cup {None}
           /\ \E v \in Seq(Proc) :
                /\ Chain(Unlink(r).next, head, v) /\ ToSet(v) = ToSet(w) \ {r}
                /\ v # <<>> /\ v[1] = InitProc
                /\ tail = w[Len(w)] => Unlink(r).tail = v[Len(v)]
<1>1. PICK i \in 1..Len(w) : w[i] = r
  BY ListSeen
<1>2. w # <<>> /\ w[1] = InitProc /\ Len(w) \in Nat
  <2>1. w # <<>>
    BY DEF ToSet
  <2> QED BY <2>1 DEF IsTheList, MembersAreKnown
<1>3. i \in 2..Len(w) /\ Len(w) >= 2 /\ i - 1 \in 1..Len(w)
  BY <1>1, <1>2
<1> DEFINE v == RemoveAt(w, i)
<1>4. /\ Chain(Skipping(next, w[i]), head, v)
      /\ ToSet(v) = ToSet(w) \ {w[i]} /\ Len(v) = Len(w) - 1
      /\ v[1] = w[1] /\ v # <<>>
      /\ i < Len(w) => v[Len(w) - 1] = w[Len(w)]
      /\ i = Len(w) => v[Len(w) - 1] = w[i - 1]
      /\ \A q \in Proc : next[q] = w[i] <=> q = w[i - 1]
  <2>1. Chain(next, head, w) /\ i \in 2..Len(w)
    BY <1>3 DEF IsTheList
  <2>2. /\ Chain(Skipping(next, w[i]), head, v)
        /\ ToSet(v) = ToSet(w) \ {w[i]} /\ v # <<>>
    BY <2>1, ChainShrinks
  <2>3. /\ Len(v) = Len(w) - 1 /\ v[1] = w[1]
        /\ i < Len(w) => v[Len(w) - 1] = w[Len(w)]
        /\ i = Len(w) => v[Len(w) - 1] = w[i - 1]
    BY <2>1, ChainShrinks
  <2>4. \A q \in Proc : next[q] = w[i] <=> q = w[i - 1]
    BY <2>1, ChainShrinks
  <2> QED BY <2>2, <2>3, <2>4
<1> HIDE DEF v
<1>5. Unlink(r).next = Skipping(next, w[i])
  BY <1>1 DEF Unlink, Skipping
<1>6. w[i - 1] \in Proc /\ (CHOOSE q \in Proc : next[q] = r) = w[i - 1]
  <2>1. w[i - 1] \in Proc
    BY <1>3
  <2> QED BY <1>1, <1>4, <2>1
<1>7. Unlink(r).tail = IF tail = r THEN w[i - 1] ELSE tail
  BY <1>6 DEF Unlink
<1>8. v \in Seq(Proc) /\ Unlink(r).next \in [Proc -> Proc \cup {None}]
  BY <1>4, <1>5 DEF Chain
<1>9. Unlink(r).tail \in Proc \cup {None}
  BY <1>6, <1>7 DEF RunTypeOK
<1>10. ASSUME tail = w[Len(w)] PROVE Unlink(r).tail = v[Len(v)]
  <2>1. tail = r <=> i = Len(w)
    <3>1. Len(w) \in 1..Len(w)
      BY <1>3
    <3> QED BY <1>1, <1>10, <3>1, ListSeen DEF Injective
  <2>2. CASE i = Len(w)
    BY <1>4, <1>7, <2>1, <2>2
  <2>3. CASE i < Len(w)
    BY <1>2, <1>3, <1>4, <1>7, <1>10, <2>1, <2>3
  <2> QED BY <1>2, <1>3, <2>2, <2>3
<1> QED BY <1>1, <1>2, <1>4, <1>5, <1>8, <1>9, <1>10

LEMMA ProcessExitKeepsRunListInv ==
    ASSUME RunTypeOK, ~torn, kernel[1] # "panic", NEW w \in Seq(Proc), IsTheList(w), ProcessExit
    PROVE  RunListInv'
<1>1. PICK r \in Proc : r = running /\ r # InitProc
  BY DEF ProcessExit, Program
<1> DEFINE ended == [state EXCEPT ![r] = "ZOMBIE"]
<1>2. PICK q : /\ q = NextToRun(next', None, ended)
               /\ running' = q /\ state' = [ended EXCEPT ![q] = "RUNNING"]
               /\ next' = Unlink(r).next /\ tail' = Unlink(r).tail
               /\ torn' = (torn \/ kernel[1] = "linked") /\ UNCHANGED <<head, kernel>>
  BY <1>1 DEF ProcessExit, Dispatch, Torn
<1>3. r \in ToSet(w) /\ w # <<>> /\ InitProc \in ToSet(w) /\ state[r] = "RUNNING"
  BY <1>1, ListSeen DEF IsTheList, MembersAreKnown
<1>4. PICK v \in Seq(Proc) :
        /\ Chain(next', head, v) /\ ToSet(v) = ToSet(w) \ {r}
        /\ v # <<>> /\ v[1] = InitProc
        /\ tail = w[Len(w)] => tail' = v[Len(v)]
  BY <1>1, <1>2, <1>3, UnlinkShrinks
<1>5. next' \in [Proc -> Proc \cup {None}] /\ tail' \in Proc \cup {None}
  BY <1>1, <1>2, <1>3, UnlinkShrinks
<1>6. /\ \A p \in Proc : ended[p] = IF p = r THEN "ZOMBIE" ELSE state[p]
      /\ ended \in [Proc -> ProcState]
  BY DEF RunTypeOK, ProcState
<1> HIDE DEF ended
<1>7. ended[InitProc] = "READY" /\ InitProc \in ToSet(v)
  <2>1. state[InitProc] = "READY"
    <3>1. state[InitProc] # "RUNNING"
      BY <1>1, InitAssumption DEF IsTheList, MembersAreKnown
    <3> QED BY <1>3, <3>1 DEF IsTheList, MembersAreKnown
  <2> QED BY <1>1, <1>3, <1>4, <1>6, <2>1, InitAssumption
<1>8. q \in ToSet(v) /\ q \in Proc /\ ended[q] = "READY" /\ q # None /\ q # r
  <2>1. q \in ToSet(v) /\ q \in Proc /\ ended[q] = "READY" /\ q # None
    BY <1>2, <1>4, <1>7, PicksReady
  <2> QED BY <1>4, <2>1
<1>9. \A p \in Proc : state'[p] = IF p = q THEN "RUNNING" ELSE IF p = r THEN "ZOMBIE" ELSE state[p]
  BY <1>2, <1>6, <1>8
<1>10. RunTypeOK'
  <2>1. state' \in [Proc -> ProcState]
    BY <1>2, <1>6 DEF ProcState
  <2> QED BY <1>2, <1>5, <1>8, <2>1 DEF RunTypeOK
<1>11. CASE kernel[1] = "linked"
  BY <1>2, <1>10, <1>11 DEF RunListInv
<1>12. CASE kernel[1] # "linked"
  <2>1. tail = w[Len(w)]
    BY <1>3, <1>12 DEF IsTheList, InsertionIsKnown
  <2>2. Chain(next, head, v)'
    BY <1>2, <1>4 DEF Chain
  <2>3. MembersAreKnown(v)'
    <3>1. \A p \in Proc : state[p] = "RUNNING" <=> p = r
      BY <1>1 DEF IsTheList, MembersAreKnown
    <3>2. \A p \in Proc : state'[p] = "RUNNING" <=> p = running'
      <4>1. running' = q
        BY <1>2
      <4> QED BY <1>9, <3>1, <4>1
    <3>3. \A p \in Proc : state'[p] \in {"READY", "RUNNING", "CRASHED"} <=>
                            p \in ToSet(v) \/ kernel' = <<"prepared", p>>
      <4>1. kernel # <<"prepared", r>> /\ kernel' = kernel
        <5>1. kernel[1] = "prepared" => kernel[2] \notin ToSet(w)
          BY DEF IsTheList, InsertionIsKnown
        <5> QED BY <1>2, <1>3, <5>1
      <4> QED BY <1>4, <1>8, <1>9, <4>1 DEF IsTheList, MembersAreKnown
    <3>4. state'[InitProc] \in {"READY", "RUNNING"}
      BY <1>1, <1>3, <1>9, InitAssumption DEF IsTheList, MembersAreKnown
    <3> QED BY <1>2, <1>4, <1>8, <3>2, <3>3, <3>4 DEF MembersAreKnown
  <2>4. InsertionIsKnown(v)'
    <3>1. running # None /\ running' # None
      BY <1>1, <1>2, <1>8, NoneAssumption
    <3>2. kernel[1] # "boot" /\ kernel[1] # "start"
      BY <1>3, <3>1 DEF IsTheList, InsertionIsKnown
    <3>3. kernel[1] = "prepared" => kernel[2] \in Proc \ ToSet(v) /\ state'[kernel[2]] = "READY"
      <4>1. kernel[1] = "prepared" => kernel[2] \in Proc \ ToSet(w) /\ state[kernel[2]] = "READY"
        BY DEF IsTheList, InsertionIsKnown
      <4> QED BY <1>3, <1>4, <1>8, <1>9, <4>1
    <3> QED BY <1>2, <1>4, <1>12, <2>1, <3>1, <3>2, <3>3 DEF InsertionIsKnown
  <2> QED BY <1>2, <1>10, <1>12, <2>2, <2>3, <2>4 DEF RunListInv, IsTheList
<1> QED BY <1>11, <1>12

LEMMA ThreadExitKeepsRunListInv ==
    ASSUME RunTypeOK, ~torn, kernel[1] # "panic", NEW w \in Seq(Proc), IsTheList(w), ThreadExit
    PROVE  RunListInv'
<1>1. PICK r \in Proc : r = running /\ r # InitProc
  BY DEF ThreadExit, Program
<1> DEFINE ended == [state EXCEPT ![r] = "CRASHED"]
<1>2. PICK q : /\ q = NextToRun(next, r, ended)
               /\ running' = q /\ state' = [ended EXCEPT ![q] = "RUNNING"]
               /\ UNCHANGED <<next, head, tail, kernel, torn>>
  BY <1>1 DEF ThreadExit, Dispatch
<1>3. r \in ToSet(w) /\ w # <<>> /\ InitProc \in ToSet(w) /\ state[r] = "RUNNING"
  BY <1>1, ListSeen DEF IsTheList, MembersAreKnown
<1>6. /\ \A p \in Proc : ended[p] = IF p = r THEN "CRASHED" ELSE state[p]
      /\ ended \in [Proc -> ProcState]
  BY DEF RunTypeOK, ProcState
<1> HIDE DEF ended
<1>7. ended[InitProc] = "READY"
  <2>1. state[InitProc] = "READY"
    <3>1. state[InitProc] # "RUNNING"
      BY <1>1, InitAssumption DEF IsTheList, MembersAreKnown
    <3> QED BY <1>3, <3>1 DEF IsTheList, MembersAreKnown
  <2> QED BY <1>1, <1>6, <2>1, InitAssumption
<1>8. q \in ToSet(w) /\ q \in Proc /\ ended[q] = "READY" /\ q # None /\ q # r
  <2>1. Chain(next, head, w)
    BY DEF IsTheList
  <2>2. q \in ToSet(w) /\ q \in Proc /\ ended[q] = "READY" /\ q # None
    BY <1>2, <1>3, <1>7, <2>1, PicksReady
  <2> QED BY <1>6, <2>2
<1>9. \A p \in Proc : state'[p] = IF p = q THEN "RUNNING" ELSE IF p = r THEN "CRASHED" ELSE state[p]
  BY <1>2, <1>6, <1>8
<1>10. RunTypeOK'
  <2>1. state' \in [Proc -> ProcState]
    BY <1>2, <1>6 DEF ProcState
  <2> QED BY <1>2, <1>8, <2>1 DEF RunTypeOK
<1>11. Chain(next, head, w)'
  BY <1>2 DEF IsTheList, Chain
<1>12. MembersAreKnown(w)'
  <2>1. \A p \in Proc : state[p] = "RUNNING" <=> p = r
    BY <1>1 DEF IsTheList, MembersAreKnown
  <2>2. \A p \in Proc : state'[p] = "RUNNING" <=> p = running'
    <3>1. running' = q
      BY <1>2
    <3> QED BY <1>9, <2>1, <3>1
  <2>3. \A p \in Proc : state'[p] \in {"READY", "RUNNING", "CRASHED"} <=>
                          p \in ToSet(w) \/ kernel' = <<"prepared", p>>
    <3>1. kernel' = kernel
      BY <1>2
    <3> QED BY <1>3, <1>8, <1>9, <3>1 DEF IsTheList, MembersAreKnown
  <2>4. w[1] = InitProc /\ state'[InitProc] \in {"READY", "RUNNING"}
    BY <1>1, <1>3, <1>9, InitAssumption DEF IsTheList, MembersAreKnown
  <2> QED BY <1>2, <1>8, <2>2, <2>3, <2>4 DEF MembersAreKnown
<1>13. InsertionIsKnown(w)'
  <2>1. running # None /\ running' # None
    BY <1>1, <1>2, <1>8, NoneAssumption
  <2>2. kernel[1] = "prepared" => state'[kernel[2]] = "READY"
    <3>1. kernel[1] = "prepared" => kernel[2] \in Proc \ ToSet(w) /\ state[kernel[2]] = "READY"
      BY DEF IsTheList, InsertionIsKnown
    <3> QED BY <1>3, <1>8, <1>9, <3>1
  <2> QED BY <1>2, <2>1, <2>2 DEF IsTheList, InsertionIsKnown
<1> QED BY <1>2, <1>10, <1>11, <1>12, <1>13 DEF RunListInv, IsTheList

LEMMA JoinKeepsRunListInv ==
    ASSUME RunTypeOK, ~torn, kernel[1] # "panic", NEW w \in Seq(Proc), IsTheList(w),
           NEW r \in Proc, Join(r)
    PROVE  RunListInv'
<1>1. /\ next' = Unlink(r).next /\ tail' = Unlink(r).tail
      /\ state[r] = "CRASHED" /\ state' = [state EXCEPT ![r] = "FREE"]
      /\ torn' = (torn \/ kernel[1] = "linked") /\ UNCHANGED <<head, running, kernel>>
      /\ running \in Proc
  BY DEF Join, Torn, Program
<1>2. w # <<>> /\ running \in ToSet(w) /\ InitProc \in ToSet(w)
  BY <1>1, ListSeen
<1>3. r \in ToSet(w) /\ r # InitProc /\ r # running /\ kernel # <<"prepared", r>>
  <2>1. kernel[1] = "prepared" => state[kernel[2]] = "READY"
    BY DEF IsTheList, InsertionIsKnown
  <2>2. kernel # <<"prepared", r>>
    BY <1>1, <2>1
  <2>3. r # running /\ r # InitProc
    <3>1. \A p \in Proc : state[p] = "RUNNING" <=> p = running
      BY DEF IsTheList, MembersAreKnown
    <3>2. state[InitProc] \in {"READY", "RUNNING"}
      BY <1>2 DEF IsTheList, MembersAreKnown
    <3> QED BY <1>1, <3>1, <3>2
  <2> QED BY <1>1, <2>2, <2>3 DEF IsTheList, MembersAreKnown
<1>4. PICK v \in Seq(Proc) :
        /\ Chain(next', head, v) /\ ToSet(v) = ToSet(w) \ {r}
        /\ v # <<>> /\ v[1] = InitProc
        /\ tail = w[Len(w)] => tail' = v[Len(v)]
  BY <1>1, <1>3, UnlinkShrinks
<1>5. next' \in [Proc -> Proc \cup {None}] /\ tail' \in Proc \cup {None}
  BY <1>1, <1>3, UnlinkShrinks
<1>9. \A p \in Proc : state'[p] = IF p = r THEN "FREE" ELSE state[p]
  BY <1>1 DEF RunTypeOK
<1>10. RunTypeOK'
  <2>1. state' \in [Proc -> ProcState]
    BY <1>1 DEF ProcState, RunTypeOK
  <2> QED BY <1>1, <1>5, <2>1 DEF RunTypeOK
<1>11. CASE kernel[1] = "linked"
  BY <1>1, <1>10, <1>11 DEF RunListInv
<1>12. CASE kernel[1] # "linked"
  <2>1. tail = w[Len(w)]
    BY <1>2, <1>12 DEF IsTheList, InsertionIsKnown
  <2>2. Chain(next, head, v)'
    BY <1>1, <1>4 DEF Chain
  <2>3. MembersAreKnown(v)'
    <3>1. \A p \in Proc : state[p] = "RUNNING" <=> p = running
      BY DEF IsTheList, MembersAreKnown
    <3>2. \A p \in Proc : state'[p] = "RUNNING" <=> p = running'
      BY <1>1, <1>3, <1>9, <3>1
    <3>3. \A p \in Proc : state'[p] \in {"READY", "RUNNING", "CRASHED"} <=>
                            p \in ToSet(v) \/ kernel' = <<"prepared", p>>
      BY <1>1, <1>3, <1>4, <1>9 DEF IsTheList, MembersAreKnown
    <3>4. state'[InitProc] \in {"READY", "RUNNING"}
      BY <1>2, <1>3, <1>9, InitAssumption DEF IsTheList, MembersAreKnown
    <3>5. running' \in ToSet(v)
      BY <1>1, <1>2, <1>3, <1>4
    <3> QED BY <1>4, <3>2, <3>3, <3>4, <3>5 DEF MembersAreKnown
  <2>4. InsertionIsKnown(v)'
    <3>1. running # None
      BY <1>1, NoneAssumption
    <3>2. kernel[1] # "boot" /\ kernel[1] # "start"
      BY <1>2, <3>1 DEF IsTheList, InsertionIsKnown
    <3>3. kernel[1] = "prepared" => kernel[2] \in Proc \ ToSet(v) /\ state'[kernel[2]] = "READY"
      <4>1. kernel[1] = "prepared" => kernel[2] \in Proc \ ToSet(w) /\ state[kernel[2]] = "READY"
        BY DEF IsTheList, InsertionIsKnown
      <4> QED BY <1>3, <1>4, <1>9, <4>1
    <3> QED BY <1>1, <1>4, <1>12, <2>1, <3>1, <3>2, <3>3 DEF InsertionIsKnown
  <2> QED BY <1>1, <1>10, <1>12, <2>2, <2>3, <2>4 DEF RunListInv, IsTheList
<1> QED BY <1>11, <1>12

LEMMA NextRunListInv == RunListInv /\ [RunListNext]_rvars => RunListInv'
<1>1. RunListInv /\ UNCHANGED rvars => RunListInv'
  <2> SUFFICES ASSUME RunListInv, UNCHANGED rvars PROVE RunListInv'
    OBVIOUS
  <2>1. RunTypeOK'
    BY DEF RunListInv, RunTypeOK, rvars
  <2>2. \A w \in Seq(Proc) : IsTheList(w)' = IsTheList(w)
    BY DEF IsTheList, Chain, MembersAreKnown, InsertionIsKnown, rvars
  <2> QED BY <2>1, <2>2 DEF RunListInv, rvars
<1>2. ASSUME RunListInv, RunListNext PROVE RunListInv'
  <2>1. ~torn /\ kernel[1] # "panic"
    <3>1. ~torn
      BY <1>2 DEF RunListInv, RunListNext, Prepare, Launch, Join, Link, EndOfList, Start, Timer,
                  ProcessExit, ThreadExit, Program, Mine, Booting
    <3>2. kernel[1] # "panic"
      <4> SUFFICES ASSUME kernel[1] = "panic" PROVE FALSE
        OBVIOUS
      <4>1. running = None /\ running \notin Proc
        BY <1>2, NoneAssumption DEF RunListInv
      <4>2. kernel = Panic
        BY <1>2 DEF RunListInv
      <4>3. ~ Timer /\ ~ Start /\ ~ Link /\ ~ EndOfList /\ \A p \in Proc : ~ Prepare(p)
        BY <4>2 DEF Timer, Start, Link, EndOfList, Prepare, Booting, Starting, Panic
      <4>4. running \notin Proc \ {InitProc} /\ running # InitProc
        BY <4>1, InitAssumption
      <4>5. ~ ProcessExit /\ ~ ThreadExit /\ \A p \in Proc : ~ Launch(p) /\ ~ Join(p)
        BY <4>4 DEF ProcessExit, ThreadExit, Launch, Join, Program
      <4> QED BY <1>2, <4>3, <4>5 DEF RunListNext
    <3> QED BY <3>1, <3>2
  <2>2. PICK w \in Seq(Proc) : IsTheList(w)
    BY <1>2, <2>1 DEF RunListInv
  <2>3. RunTypeOK
    BY <1>2 DEF RunListInv
  <2>4. ASSUME NEW p \in Proc, Prepare(p) \/ Launch(p) \/ Join(p) PROVE RunListInv'
    BY <2>1, <2>2, <2>3, <2>4, PrepareKeepsRunListInv, LaunchKeepsRunListInv, JoinKeepsRunListInv
  <2>5. CASE Link
    BY <2>1, <2>2, <2>3, <2>5, LinkKeepsRunListInv
  <2>6. CASE EndOfList
    BY <2>1, <2>2, <2>3, <2>6, EndOfListKeepsRunListInv
  <2>7. CASE Start
    BY <2>1, <2>2, <2>3, <2>7, StartKeepsRunListInv
  <2>8. CASE Timer
    BY <2>1, <2>2, <2>3, <2>8, TimerKeepsRunListInv
  <2>9. CASE ProcessExit
    BY <2>1, <2>2, <2>3, <2>9, ProcessExitKeepsRunListInv
  <2>10. CASE ThreadExit
    BY <2>1, <2>2, <2>3, <2>10, ThreadExitKeepsRunListInv
  <2> QED BY <1>2, <2>4, <2>5, <2>6, <2>7, <2>8, <2>9, <2>10 DEF RunListNext
<1> QED BY <1>1, <1>2

LEMMA ListFollows == RunListInv => ListIsSound
<1> SUFFICES ASSUME RunListInv, ~torn, kernel # Panic PROVE ListIsSound
  BY DEF ListIsSound, NoneIsLost, PicksAsSequence
<1>1. RunTypeOK /\ kernel = <<kernel[1], kernel[2]>>
  <2>1. RunTypeOK
    BY DEF RunListInv
  <2> QED BY <2>1 DEF RunTypeOK
<1>2. PICK w \in Seq(Proc) : IsTheList(w)
  BY DEF RunListInv
<1>3. Walk = w /\ Chain(next, head, w) /\ DOMAIN w = 1..Len(w) /\ Len(w) \in Nat
  BY <1>2, WalkIsList DEF IsTheList
<1>4. NoneIsLost
  <2> SUFFICES ASSUME kernel # Booting PROVE
        /\ {p \in Proc : state[p] \in {"READY", "RUNNING", "CRASHED"}}
             = {w[i] : i \in DOMAIN w} \cup (IF kernel[1] = "prepared" THEN {kernel[2]} ELSE {})
        /\ \A i, j \in DOMAIN w : w[i] = w[j] => i = j
        /\ w # <<>> /\ kernel[1] # "linked" => tail = w[Len(w)]
    BY <1>3 DEF NoneIsLost
  <2>1. /\ \A p \in Proc : state[p] \in {"READY", "RUNNING", "CRASHED"} <=>
                             p \in ToSet(w) \/ kernel = <<"prepared", p>>
        /\ kernel[1] = "prepared" => kernel[2] \in Proc
        /\ kernel[1] # "linked" /\ w # <<>> => tail = w[Len(w)]
    BY <1>2 DEF IsTheList, MembersAreKnown, InsertionIsKnown
  <2>2. {w[i] : i \in DOMAIN w} = ToSet(w) /\ ToSet(w) \subseteq Proc
    BY <1>3 DEF ToSet
  <2>3. \A p \in Proc : kernel = <<"prepared", p>> <=> kernel[1] = "prepared" /\ kernel[2] = p
    BY <1>1
  <2>4. {p \in Proc : state[p] \in {"READY", "RUNNING", "CRASHED"}}
          = ToSet(w) \cup (IF kernel[1] = "prepared" THEN {kernel[2]} ELSE {})
    BY <2>1, <2>2, <2>3
  <2>5. \A i, j \in DOMAIN w : w[i] = w[j] => i = j
    BY <1>3 DEF Chain, Injective
  <2> QED BY <2>1, <2>2, <2>4, <2>5
<1>5. PicksAsSequence
  <2> SUFFICES ASSUME w # <<>> PROVE NextToRun(next, running, state) = SchedulerNext(w, running, state)
    BY <1>3 DEF PicksAsSequence
  <2>1. running \in ToSet(w) \cup {None}
    BY <1>2 DEF IsTheList, MembersAreKnown
  <2> QED BY <1>3, <2>1, NextIsNextOfList
<1> QED BY <1>4, <1>5 DEF ListIsSound

(* Types of the list's pointers, of the states and of where main is.        *)
THEOREM RunListTypeCorrect == RunListSpec => []RunTypeOK
<1>1. RunListInv => RunTypeOK
  BY DEF RunListInv
<1> QED BY <1>1, InitRunListInv, NextRunListInv, PTL DEF RunListSpec

(* From the head, the pointers reach every process that can be run, once,   *)
(* init first, to the tail and no further, as long as no timer interrupt    *)
(* came in the middle of an insertion: for any number of processes, and     *)
(* whichever of them exit, crash or are started.                            *)
THEOREM RunListSound == RunListSpec => []ListIsSound
BY ListFollows, InitRunListInv, NextRunListInv, PTL DEF RunListSpec

-----------------------------------------------------------------------------
(***************************************************************************)
(* The loader: the bounds cover what is copied, and what each failure      *)
(* frees is what is held then.                                             *)
(***************************************************************************)

(***************************************************************************)
(* A bounded set of natural numbers has a greatest element.                *)
(***************************************************************************)
LEMMA MaxExists ==
    ASSUME NEW b \in Nat, NEW S \in SUBSET (0..b), S # {}
    PROVE  Max(S) \in S /\ \A y \in S : y <= Max(S)
<1> DEFINE T == {b - x : x \in S}
<1>1. T \in SUBSET Nat /\ T # {}
  <2>1. \A x \in S : b - x \in Nat
    OBVIOUS
  <2> QED BY <2>1
<1>2. Min(T) \in T /\ \A y \in T : Min(T) <= y
  <2> HIDE DEF T
  <2> QED BY <1>1, MinExists
<1>3. PICK x \in S : Min(T) = b - x
  BY <1>2
<1>4. \A y \in S : b - x <= b - y
  BY <1>2, <1>3
<1>5. \A y \in S : x >= y
  <2>1. ASSUME NEW y \in S PROVE x >= y
    <3>1. b - x <= b - y /\ x \in Nat /\ y \in Nat
      BY <1>4
    <3> QED BY <3>1
  <2> QED BY <2>1
<1>6. \E z \in S : \A y \in S : z >= y
  BY <1>5
<1>7. Max(S) \in S /\ \A y \in S : Max(S) >= y
  BY <1>6 DEF Max
<1> QED BY <1>7

(***************************************************************************)
(* The arguments of a program.                                             *)
(***************************************************************************)
LEMMA Aligned ==
    ASSUME NEW n \in Int
    PROVE  /\ Down(n, 4) \in Int /\ Down(n, 4) <= n /\ n - 3 <= Down(n, 4) /\ Down(n, 4) % 4 = 0
           /\ Down(n, 8) \in Int /\ Down(n, 8) <= n /\ n - 7 <= Down(n, 8) /\ Down(n, 8) % 8 = 0
BY DEF Down

LEMMA TotalIs ==
    ASSUME NEW lens \in Seq(Nat)
    PROVE  \E sum \in [0..Len(lens) -> Nat] :
             /\ sum[0] = 0 /\ \A i \in 1..Len(lens) : sum[i] = sum[i - 1] + lens[i]
             /\ Total(lens) = sum[Len(lens)]
<1> DEFINE l == Len(lens)
           next_ == [i \in 1..l |-> [n \in Nat |-> n + lens[i]]]
           IsUpto(f) == f = [i \in 0..l |-> IF i = 0 THEN 0 ELSE f[i - 1] + lens[i]]
           Upto == CHOOSE f : IsUpto(f)
<1>1. Total(lens) = Upto[l]
  BY DEF Total
<1>2. l \in Nat /\ 0 \in Nat /\ next_ \in [1..l -> [Nat -> Nat]]
  OBVIOUS
<1> HIDE DEF l
<1>3. PICK f : StepsFrom(f, 0, l, Nat, next_)
  <2> HIDE DEF next_
  <2> QED BY <1>2, RecursionExists
<1>4. f \in [0..l -> Nat] /\ f[0] = 0
  BY <1>3 DEF StepsFrom
<1>5. ASSUME NEW i \in 1..l PROVE f[i] = f[i - 1] + lens[i]
  <2>1. f[i] = next_[i][f[i - 1]] /\ f[i - 1] \in Nat
    <3>1. i - 1 \in 0..l
      BY <1>2
    <3> HIDE DEF next_
    <3> QED BY <1>3, <1>4, <3>1 DEF StepsFrom
  <2>2. \A n \in Nat : next_[i][n] = n + lens[i]
    OBVIOUS
  <2> QED BY <2>1, <2>2
<1>6. IsUpto(f)
  <2>1. ASSUME NEW i \in 0..l PROVE f[i] = IF i = 0 THEN 0 ELSE f[i - 1] + lens[i]
    <3>1. i = 0 \/ i \in 1..l
      BY <1>2
    <3> QED BY <1>4, <1>5, <3>1
  <2> QED BY <1>4, <2>1
<1>7. IsUpto(Upto)
  BY <1>6
<1> HIDE DEF Upto
<1>8. Upto[0] = 0 /\ \A i \in 1..l : Upto[i] = Upto[i - 1] + lens[i]
  BY <1>2, <1>7
<1> HIDE DEF IsUpto, next_
<1> DEFINE Good == {i \in 0..l : Upto[i] = f[i]}
<1>9. \A i \in 0..l : i \in Good
  <2>1. 0 \in Good
    BY <1>2, <1>4, <1>8
  <2>2. ASSUME NEW k \in 0..(l - 1), k \in Good PROVE k + 1 \in Good
    <3>1. k + 1 \in 1..l /\ k + 1 \in 0..l /\ k + 1 - 1 = k
      BY <1>2
    <3>2. Upto[k] = f[k]
      BY <2>2
    <3> QED BY <1>5, <1>8, <3>1, <3>2
  <2> HIDE DEF Good
  <2> QED BY <1>2, <2>1, <2>2, IntervalInduction
<1>10. Upto[l] = f[l]
  <2>1. l \in 0..l
    BY <1>2
  <2> QED BY <1>9, <2>1
<1> QED BY <1>1, <1>4, <1>5, <1>10 DEF l

LEMMA StringsAre ==
    ASSUME NEW lens \in Seq(Nat)
    PROVE  \E start \in [0..Len(lens) -> Int] :
             /\ start[0] = Pointers(lens)
             /\ \A i \in 1..Len(lens) : start[i] = Down(start[i - 1] - lens[i], 4)
             /\ Strings(lens) = [i \in 1..Len(lens) |-> start[i]]
<1> DEFINE l == Len(lens)
           top == Pointers(lens)
           next_ == [i \in 1..l |-> [n \in Int |-> Down(n - lens[i], 4)]]
           IsStart(f) == f = [i \in 0..l |-> IF i = 0 THEN top ELSE Down(f[i - 1] - lens[i], 4)]
           Start_ == CHOOSE f : IsStart(f)
<1>1. Strings(lens) = [i \in 1..l |-> Start_[i]]
  BY DEF Strings
<1>2. l \in Nat /\ top \in Int /\ \A i \in 1..l, n \in Int : n - lens[i] \in Int
  <2>1. StackSize - 4 * (Len(lens) + 2) \in Int
    BY ImageAssumption
  <2>2. Down(StackSize - 4 * (Len(lens) + 2), 8) \in Int
    BY <2>1, Aligned
  <2> QED BY <2>2 DEF Pointers
<1> HIDE DEF l, top
<1>3. next_ \in [1..l -> [Int -> Int]]
  BY <1>2, Aligned
<1>4. PICK f : StepsFrom(f, top, l, Int, next_)
  <2> HIDE DEF next_
  <2> QED BY <1>2, <1>3, RecursionExists
<1>5. f \in [0..l -> Int] /\ f[0] = top
  BY <1>4 DEF StepsFrom
<1>6. ASSUME NEW i \in 1..l PROVE f[i] = Down(f[i - 1] - lens[i], 4)
  <2>1. f[i] = next_[i][f[i - 1]] /\ f[i - 1] \in Int
    <3>1. i - 1 \in 0..l
      BY <1>2
    <3> HIDE DEF next_
    <3> QED BY <1>4, <1>5, <3>1 DEF StepsFrom
  <2>2. \A n \in Int : next_[i][n] = Down(n - lens[i], 4)
    OBVIOUS
  <2> QED BY <2>1, <2>2
<1>7. IsStart(f)
  <2>1. ASSUME NEW i \in 0..l PROVE f[i] = IF i = 0 THEN top ELSE Down(f[i - 1] - lens[i], 4)
    <3>1. i = 0 \/ i \in 1..l
      BY <1>2
    <3> QED BY <1>5, <1>6, <3>1
  <2> QED BY <1>5, <2>1
<1>8. IsStart(Start_)
  BY <1>7
<1> HIDE DEF Start_
<1>9. DOMAIN Start_ = 0..l /\ Start_[0] = top /\ \A i \in 1..l : Start_[i] = Down(Start_[i - 1] - lens[i], 4)
  BY <1>2, <1>8
<1> HIDE DEF IsStart, next_
<1> DEFINE Good == {i \in 0..l : Start_[i] \in Int}
<1>10. \A i \in 0..l : i \in Good
  <2>1. 0 \in Good
    BY <1>2, <1>9
  <2>2. ASSUME NEW k \in 0..(l - 1), k \in Good PROVE k + 1 \in Good
    <3>1. k + 1 \in 1..l /\ k + 1 \in 0..l /\ k + 1 - 1 = k /\ Start_[k] \in Int
      BY <1>2, <2>2
    <3>2. Start_[k] - lens[k + 1] \in Int /\ Start_[k + 1] = Down(Start_[k] - lens[k + 1], 4)
      BY <1>2, <1>9, <3>1
    <3> QED BY <3>1, <3>2, Aligned
  <2> HIDE DEF Good
  <2> QED BY <1>2, <2>1, <2>2, IntervalInduction
<1>11. Start_ \in [0..l -> Int]
  <2>1. Start_ = [i \in 0..l |-> Start_[i]]
    BY <1>8 DEF IsStart
  <2> QED BY <1>10, <2>1
<1> QED BY <1>1, <1>9, <1>11 DEF l, top

LEMMA ArgumentsAlwaysFit == args \in Arguments => ArgumentsFit
<1> SUFFICES ASSUME args \in Arguments, Total(args) + 4 * (Len(args) + 2) + 3 * Len(args) + 22 <= StackSize
             PROVE  /\ Accepted(args) /\ StackPointer(args) >= 4
                    /\ Pointers(args) + 4 * (Len(args) + 1) <= StackSize
                    /\ \A i \in 1..Len(args) :
                         /\ Strings(args)[i] % 4 = 0
                         /\ Strings(args)[i] + args[i] <= IF i = 1 THEN Pointers(args) ELSE Strings(args)[i - 1]
  BY DEF ArgumentsFit
<1>1. PICK lens \in Seq(Nat) : lens = args /\ lens # <<>>
  BY ImageAssumption
<1> DEFINE l == Len(lens)
           top == Pointers(lens)
<1>2. PICK sum \in [0..l -> Nat] :
        /\ sum[0] = 0 /\ \A i \in 1..l : sum[i] = sum[i - 1] + lens[i]
        /\ Total(lens) = sum[l]
  BY TotalIs
<1>3. PICK start \in [0..l -> Int] :
        /\ start[0] = top /\ \A i \in 1..l : start[i] = Down(start[i - 1] - lens[i], 4)
        /\ Strings(lens) = [i \in 1..l |-> start[i]]
  BY StringsAre
<1>4. l \in Nat /\ l > 0 /\ StackSize \in Nat /\ \A i \in 1..l : lens[i] \in Nat
  BY <1>1, ImageAssumption
<1>5. sum[l] + 4 * (l + 2) + 3 * l + 22 <= StackSize
  BY <1>1, <1>2
<1>6. /\ top \in Int /\ top <= StackSize - 4 * (l + 2) + 4
      /\ top >= StackSize - 4 * (l + 2) - 3
  <2> DEFINE x == StackSize - 4 * (l + 2)
  <2>1. x \in Int
    BY <1>4
  <2>2. top = Down(x, 8) + 4
    BY DEF Pointers
  <2> HIDE DEF x, top
  <2>3. Down(x, 8) \in Int /\ Down(x, 8) <= x /\ x - 7 <= Down(x, 8)
    BY <2>1, Aligned
  <2>4. top \in Int /\ top <= x + 4 /\ top >= x - 3
    BY <2>1, <2>2, <2>3
  <2> QED BY <2>4 DEF x
<1> HIDE DEF l, top
<1>7. ASSUME NEW i \in 1..l
      PROVE  /\ i - 1 \in 0..l /\ start[i] \in Int /\ start[i - 1] \in Int /\ start[i] % 4 = 0
             /\ start[i] + lens[i] <= start[i - 1] /\ start[i - 1] - lens[i] - 3 <= start[i]
  <2>1. i - 1 \in 0..l /\ i \in 0..l
    BY <1>4
  <2>5. start[i - 1] \in Int /\ start[i] \in Int /\ lens[i] \in Nat
    BY <1>3, <1>4, <2>1
  <2>2. start[i - 1] \in Int /\ start[i] \in Int /\ lens[i] \in Nat /\ start[i - 1] - lens[i] \in Int
    BY <2>5
  <2>3. start[i] = Down(start[i - 1] - lens[i], 4)
    BY <1>3
  <2>4. /\ Down(start[i - 1] - lens[i], 4) <= start[i - 1] - lens[i]
        /\ start[i - 1] - lens[i] - 3 <= Down(start[i - 1] - lens[i], 4)
        /\ Down(start[i - 1] - lens[i], 4) % 4 = 0
    BY <2>2, Aligned
  <2>6. start[i] % 4 = 0
    BY <2>3, <2>4
  <2>7. /\ start[i] <= start[i - 1] - lens[i]
        /\ start[i - 1] - lens[i] - 3 <= start[i]
    BY <2>3, <2>4
  <2>8. start[i] + lens[i] <= start[i - 1]
    BY <2>5, <2>7
  <2> QED BY <2>1, <2>5, <2>6, <2>7, <2>8
<1> DEFINE Good == {i \in 0..l : start[i] >= top - sum[i] - 3 * i}
<1>8. \A i \in 0..l : i \in Good
  <2>1. 0 \in Good
    BY <1>2, <1>3, <1>4, <1>6
  <2>2. ASSUME NEW k \in 0..(l - 1), k \in Good PROVE k + 1 \in Good
    <3>1. k + 1 \in 1..l /\ k + 1 \in 0..l /\ k + 1 - 1 = k /\ start[k] >= top - sum[k] - 3 * k
      BY <1>4, <2>2
    <3>2. sum[k + 1] = sum[k] + lens[k + 1] /\ start[k] - lens[k + 1] - 3 <= start[k + 1]
      BY <1>2, <1>7, <3>1
    <3>3. sum[k] \in Nat /\ sum[k + 1] \in Nat /\ start[k] \in Int /\ start[k + 1] \in Int /\ lens[k + 1] \in Nat
      <4>1. k \in 0..l /\ k + 1 \in 0..l /\ k + 1 \in 1..l
        BY <1>4, <3>1
      <4> QED BY <1>2, <1>3, <1>4, <4>1
    <3>4. start[k + 1] >= top - sum[k + 1] - 3 * (k + 1)
      <4> DEFINE a == start[k]
                 b == start[k + 1]
                 c == sum[k]
                 d == sum[k + 1]
                 e == lens[k + 1]
      <4>1. /\ a \in Int /\ b \in Int /\ c \in Nat /\ d \in Nat /\ e \in Nat /\ top \in Int
            /\ a >= top - c - 3 * k /\ d = c + e /\ a - e - 3 <= b /\ k \in Nat
        BY <1>4, <1>6, <3>1, <3>2, <3>3
      <4> HIDE DEF a, b, c, d, e
      <4>2. b >= top - d - 3 * (k + 1)
        BY <4>1
      <4> QED BY <4>2 DEF b, d
    <3> QED BY <3>1, <3>4
  <2> HIDE DEF Good
  <2> QED BY <1>4, <2>1, <2>2, IntervalInduction
<1>9. l \in 0..l /\ l \in 1..l /\ start[l] >= top - sum[l] - 3 * l /\ sum[l] \in Nat /\ start[l] \in Int
  <2>1. l \in 0..l /\ l \in 1..l
    BY <1>4
  <2> QED BY <1>2, <1>3, <1>8, <2>1
<1> HIDE DEF Good
<1>10. Accepted(lens)
  BY <1>2, <1>4, <1>5, <1>9 DEF Accepted, l
<1>11. StackPointer(lens) >= 4
  <2> DEFINE x == start[l] - 4
  <2>1. x \in Int /\ x >= 11
    <3> DEFINE a == start[l]
               c == sum[l]
    <3>1. /\ a \in Int /\ c \in Nat /\ top \in Int /\ l \in Nat /\ StackSize \in Nat
          /\ a >= top - c - 3 * l /\ c + 4 * (l + 2) + 3 * l + 22 <= StackSize
          /\ top >= StackSize - 4 * (l + 2) - 3
      BY <1>4, <1>5, <1>6, <1>9
    <3> HIDE DEF a, c
    <3>2. a - 4 \in Int /\ a - 4 >= 11
      BY <3>1
    <3> QED BY <3>2 DEF a
  <2>2. StackPointer(lens) = Down(x, 8)
    BY <1>3, <1>9 DEF StackPointer, l
  <2> HIDE DEF x
  <2>3. Down(x, 8) \in Int /\ x - 7 <= Down(x, 8)
    BY <2>1, Aligned
  <2> QED BY <2>1, <2>2, <2>3
<1>12. top + 4 * (l + 1) <= StackSize
  BY <1>4, <1>6
<1>13. \A i \in 1..l : /\ Strings(lens)[i] % 4 = 0
                       /\ Strings(lens)[i] + lens[i] <= IF i = 1 THEN top ELSE Strings(lens)[i - 1]
  <2>1. ASSUME NEW i \in 1..l
        PROVE  /\ Strings(lens)[i] % 4 = 0
               /\ Strings(lens)[i] + lens[i] <= IF i = 1 THEN top ELSE Strings(lens)[i - 1]
    <3>1. Strings(lens)[i] = start[i] /\ (i # 1 => Strings(lens)[i - 1] = start[i - 1])
      BY <1>3, <1>4
    <3>2. i = 1 => start[i - 1] = top
      BY <1>3
    <3> QED BY <1>7, <3>1, <3>2
  <2> QED BY <2>1
<1> QED BY <1>1, <1>10, <1>11, <1>12, <1>13 DEF l, top

(***************************************************************************)
(* The inductive invariant: what is held and what was freed at each step   *)
(* of the call, and the bounds once they are known.                        *)
(***************************************************************************)
LoaderTypeOK == file \in Files /\ args \in Arguments /\ bounds \in Nat \X Nat

HeldIsKnown ==
  /\ at = "exec" => held = {} /\ freed = {}
  /\ at = "open" => held = {"argv"} /\ freed = {}
  /\ at = "read" => held = {"argv", "fd"} /\ freed = {}
  /\ at \in {"check", "image"} => held = {"argv", "file"} /\ freed = {"fd"}
  /\ at \in {"copy", "sections"} => held = {"argv", "file", "image"} /\ freed = {"fd"}
  /\ at = "listed" => held = {"argv", "file", "image", "sections"} /\ freed = {"fd"}
  /\ at \in {"entry", "process"} =>
       held \ {"sections"} = {"argv", "file", "image"} /\ freed = {"fd"}
  /\ at = "space" => {"file", "image"} \subseteq held /\ "fd" \notin held /\ freed = {"fd"}
  /\ at = "done" => held \cap {"fd", "file", "image"} = {"image"}
  /\ at = "failed" => held \cap {"fd", "file", "image"} = {}

PastSections == {"entry", "process", "space", "done"}
Past == {"copy", "sections", "listed"} \cup PastSections

BoundsAreKnown ==
  /\ at \in {"image"} \cup Past =>
       \A s \in Loaded : SoundSegment(s) /\ bounds[1] <= s.vaddr /\ s.vaddr + s.memsz <= bounds[2]
  /\ at \in {"image"} \cup Past => bounds[1] <= bounds[2] /\ TableInside(file.program)
  /\ at \in Past => image = (bounds[2] - bounds[1] + Reserved) % WordValues
  /\ at \in PastSections /\ "sections" \in held => \A s \in file.sections : Within(s)

LoaderInv == LoaderTypeOK /\ ~misused /\ HeldIsKnown /\ BoundsAreKnown /\ SectionsInside

LEMMA InitLoaderInv == LoaderInit => LoaderInv
BY DEF LoaderInit, LoaderInv, LoaderTypeOK, HeldIsKnown, BoundsAreKnown, Past, PastSections,
       SectionsInside

(* What the file holds has its type.                                        *)
LEMMA FileTyped ==
    ASSUME LoaderTypeOK
    PROVE  /\ file.segments \subseteq SegmentHeader /\ file.sections \subseteq SectionHeader
           /\ file.size \in Nat /\ file.names \in Nat
           /\ file.table \in Headers /\ file.program \in Headers
BY ImageAssumption DEF LoaderTypeOK, FileType

(* The header of the names is in a table that lies in the file.             *)
LEMMA NamesInside ==
    ASSUME LoaderTypeOK, WellDescribed
    PROVE  HeaderOutside = {} /\ ListsOutside = {} /\ ~Overrun
<1> DEFINE t == file.table.offset
           e == file.table.entry
           c == file.table.count
           n == file.names
           z == file.size
<1>1. /\ t \in Nat /\ e \in Nat /\ c \in Nat /\ n \in Nat /\ z \in Nat /\ HeaderSize \in Nat
  BY FileTyped, ImageAssumption DEF Headers
<1>2. e >= HeaderSize /\ t + c * e <= z /\ n < c
  BY DEF WellDescribed, Lists, TableInside
<1> HIDE DEF t, e, c, n, z
<1>3. t + e * n + HeaderSize <= z
  <2>1. PICK d \in Nat : c = n + 1 + d
    <3>1. c - n - 1 \in Nat /\ c = n + 1 + (c - n - 1)
      BY <1>1, <1>2
    <3> QED BY <3>1
  <2>2. c * e = e * n + e + d * e /\ d * e \in Nat /\ e * n \in Nat
    BY <1>1, <2>1
  <2> DEFINE en == e * n
             de == d * e
             ce == c * e
  <2>3. en \in Nat /\ de \in Nat /\ ce = en + e + de /\ t + ce <= z
    BY <1>2, <2>2
  <2> HIDE DEF en, de, ce
  <2>4. t + en + HeaderSize <= z
    BY <1>1, <1>2, <2>3
  <2> QED BY <2>4 DEF en
<1>4. HeaderOutside = {}
  <2>1. ~(t + e * n + HeaderSize > z)
    <3> DEFINE x == t + e * n + HeaderSize
    <3>1. x \in Nat
      BY <1>1
    <3>2. x <= z
      BY <1>3
    <3> HIDE DEF x
    <3>3. ~(x > z)
      BY <1>1, <3>1, <3>2
    <3> QED BY <3>3 DEF x
  <2> QED BY <2>1 DEF HeaderOutside, t, e, n, z
<1>5. ASSUME NEW m \in file.metadata PROVE ~(m.offset + m.size > z) /\ ~(m.size > MetadataSize)
  <2>1. PICK a \in Nat, b \in Nat : a = m.offset /\ b = m.size
    BY ImageAssumption DEF LoaderTypeOK, FileType
  <2>2. a + b <= z /\ b <= MetadataSize /\ MetadataSize \in Nat
    BY <2>1, ImageAssumption DEF WellDescribed, z
  <2>3. ~(a + b > z) /\ ~(b > MetadataSize)
    BY <1>1, <2>1, <2>2
  <2> QED BY <2>1, <2>3
<1>6. ~Overrun
  BY <1>5 DEF Overrun
<1>7. ListsOutside = {}
  BY <1>5 DEF ListsOutside, WellDescribed, z
<1> QED BY <1>4, <1>6, <1>7

LEMMA BoundsCover ==
    ASSUME LoaderTypeOK, Loaded # {}, \A s \in Loaded : SoundSegment(s)
    PROVE  /\ Lowest \in Nat /\ Highest \in Nat /\ Lowest <= Highest
           /\ \A s \in Loaded : Lowest <= s.vaddr /\ s.vaddr + s.memsz <= Highest
<1> DEFINE A == {s.vaddr : s \in Loaded}
           B == {s.vaddr + s.memsz : s \in Loaded}
<1>1. \A s \in Loaded : /\ s.vaddr \in Nat /\ s.memsz \in Nat
                        /\ s.vaddr + s.memsz \in 0..WordValues
  <2>1. ASSUME NEW s \in Loaded
        PROVE  /\ s.vaddr \in Nat /\ s.memsz \in Nat
               /\ s.vaddr + s.memsz \in 0..WordValues
    <3>1. s.vaddr \in Nat /\ s.memsz \in Nat
      BY FileTyped DEF Loaded, SegmentHeader
    <3>2. s.vaddr + s.memsz < WordValues /\ WordValues \in Nat
      BY ImageAssumption DEF SoundSegment
    <3> DEFINE v == s.vaddr
               m == s.memsz
    <3>3. v \in Nat /\ m \in Nat /\ v + m < WordValues /\ WordValues \in Nat
      BY <3>1, <3>2
    <3> HIDE DEF v, m
    <3>4. v \in Nat /\ m \in Nat /\ v + m \in 0..WordValues
      BY <3>3
    <3> QED BY <3>4 DEF v, m
  <2> QED BY <2>1
<1>2. /\ \A s \in Loaded : s.vaddr \in A /\ s.vaddr + s.memsz \in B
      /\ \A x \in A : \E s \in Loaded : x = s.vaddr
      /\ \A x \in B : \E s \in Loaded : x = s.vaddr + s.memsz
  OBVIOUS
<1>3. A \in SUBSET Nat /\ A # {} /\ B \in SUBSET (0..WordValues) /\ B # {}
  BY <1>1
<1> HIDE DEF A, B
<1>4. Min(A) \in A /\ \A y \in A : Min(A) <= y
  BY <1>3, MinExists
<1>5. Max(B) \in B /\ \A y \in B : y <= Max(B)
  BY <1>3, ImageAssumption, MaxExists
<1>6. Min(A) \in Nat /\ Max(B) \in Nat
  <2>1. Max(B) \in 0..WordValues /\ WordValues \in Nat
    BY <1>3, <1>5, ImageAssumption
  <2>2. Min(A) \in Nat
    BY <1>3, <1>4
  <2>3. Max(B) \in Nat
    BY <2>1
  <2> QED BY <2>2, <2>3
<1>7. \A s \in Loaded : Min(A) <= s.vaddr /\ s.vaddr + s.memsz <= Max(B)
  BY <1>2, <1>4, <1>5
<1>8. Min(A) <= Max(B)
  <2>1. PICK s \in Loaded : TRUE
    OBVIOUS
  <2>2. Min(A) <= s.vaddr /\ s.vaddr + s.memsz <= Max(B) /\ s.vaddr \in Nat /\ s.memsz \in Nat
    BY <1>1, <1>7, <2>1
  <2> DEFINE a == Min(A)
             b == Max(B)
             v == s.vaddr
             m == s.memsz
  <2>3. a \in Nat /\ b \in Nat /\ v \in Nat /\ m \in Nat /\ a <= v /\ v + m <= b
    BY <1>6, <2>2
  <2> HIDE DEF a, b, v, m
  <2>4. a <= b
    BY <2>3
  <2> QED BY <2>4 DEF a, b
<1>9. Lowest = Min(A) /\ Highest = Max(B)
  BY DEF Lowest, Highest, A, B
<1> QED BY <1>6, <1>7, <1>8, <1>9

LEMMA NextLoaderInv == LoaderInv /\ [LoaderNext]_lvars => LoaderInv'
<1> SUFFICES ASSUME LoaderInv, [LoaderNext]_lvars PROVE LoaderInv'
  OBVIOUS
<1> USE DEF LoaderInv
<1>1. CASE UNCHANGED lvars
  BY <1>1 DEF lvars, LoaderTypeOK, HeldIsKnown, BoundsAreKnown, Loaded, SoundSegment, Within,
              TableInside, SectionsInside, WellDescribed, Lists
<1> DEFINE Elsewhere == UNCHANGED <<file, outside>> /\ at' # "astray"
<1>a. Elsewhere => SectionsInside'
  BY DEF SectionsInside, WellDescribed, Lists, TableInside
<1> HIDE DEF Elsewhere
<1>2. CASE ResolveArguments \/ Open \/ ReadEntireFile
  <2>1. LoaderTypeOK'
    BY <1>2 DEF ResolveArguments, Open, ReadEntireFile, Reaches, Obtain, LoaderTypeOK
  <2>2. ~misused' /\ HeldIsKnown'
    <3>1. CASE ResolveArguments
      BY <3>1 DEF ResolveArguments, Reaches, Obtain, HeldIsKnown
    <3>2. CASE Open
      <4>1. /\ at = "open" /\ at' = "read" /\ misused' = misused
            /\ held' = held \cup {"fd"} /\ freed' = freed
        BY <3>2 DEF Open, Reaches, Obtain
      <4> QED BY <4>1 DEF HeldIsKnown
    <3>3. CASE ReadEntireFile
      <4>1. /\ at = "read" /\ at' = "check" /\ misused' = misused
            /\ held' = (held \cup {"file"}) \ {"fd"} /\ freed' = freed \cup {"fd"}
        BY <3>3 DEF ReadEntireFile, Reaches
      <4>2. held = {"argv", "fd"} /\ freed = {}
        BY <4>1 DEF HeldIsKnown
      <4>3. held' = {"argv", "file"} /\ freed' = {"fd"}
        BY <4>1, <4>2
      <4> QED BY <4>1, <4>3 DEF HeldIsKnown
    <3> QED BY <1>2, <3>1, <3>2, <3>3
  <2>3. at' \in {"open", "read", "check"}
    BY <1>2 DEF ResolveArguments, Open, ReadEntireFile, Reaches
  <2>4. BoundsAreKnown'
    BY <2>3 DEF BoundsAreKnown, Past, PastSections
  <2>5. Elsewhere
    BY <1>2 DEF ResolveArguments, Open, ReadEntireFile, Reaches, Elsewhere
  <2> QED BY <1>a, <2>1, <2>2, <2>4, <2>5
<1>3. CASE CheckBounds
  <2>1. /\ at = "check" /\ at' = "image" /\ bounds' = <<Lowest, Highest>>
        /\ TableInside(file.program) /\ outside' = outside
        /\ Loaded # {} /\ \A s \in Loaded : SoundSegment(s)
        /\ UNCHANGED <<file, args, held, freed, image>> /\ misused' = (misused \/ {"file"} \cap freed # {})
    BY <1>3 DEF CheckBounds, Reaches, Use
  <2>2. /\ Lowest \in Nat /\ Highest \in Nat /\ Lowest <= Highest
        /\ \A s \in Loaded : Lowest <= s.vaddr /\ s.vaddr + s.memsz <= Highest
    BY <2>1, BoundsCover
  <2>3. bounds'[1] = Lowest /\ bounds'[2] = Highest /\ bounds' \in Nat \X Nat
    BY <2>1, <2>2
  <2>4. LoaderTypeOK'
    BY <2>1, <2>3 DEF LoaderTypeOK
  <2>5. ~misused' /\ HeldIsKnown'
    BY <2>1 DEF HeldIsKnown
  <2>6. /\ Loaded' = Loaded /\ \A s : SoundSegment(s)' = SoundSegment(s)
        /\ TableInside(file.program)'
    BY <2>1 DEF Loaded, SoundSegment, TableInside
  <2>7. BoundsAreKnown'
    BY <2>1, <2>2, <2>3, <2>6 DEF BoundsAreKnown, Past, PastSections
  <2>8. Elsewhere
    BY <2>1 DEF Elsewhere
  <2> QED BY <1>a, <2>4, <2>5, <2>7, <2>8
<1>4. CASE AllocateImage \/ Copy \/ CheckEntry \/ CreateProcess \/ CreateSpace
  <2>1. LoaderTypeOK'
    BY <1>4 DEF AllocateImage, Copy, CheckEntry, CreateProcess, CreateSpace, Reaches, Obtain, Use, LoaderTypeOK
  <2>2. ~misused' /\ HeldIsKnown'
    <3>1. CASE AllocateImage
      BY <3>1 DEF AllocateImage, Reaches, Obtain, HeldIsKnown
    <3>2. CASE Copy
      BY <3>2 DEF Copy, Reaches, Use, HeldIsKnown
    <3>3. CASE CheckEntry
      BY <3>3 DEF CheckEntry, Reaches, HeldIsKnown
    <3>4. CASE CreateProcess
      <4>1. /\ at = "process" /\ at' = "space" /\ freed' = freed /\ misused' = misused
            /\ held' = held \cup {"process", "kernel_stack", "user_stack"}
        BY <3>4 DEF CreateProcess, Reaches
      <4>2. held \ {"sections"} = {"argv", "file", "image"} /\ freed = {"fd"}
        BY <4>1 DEF HeldIsKnown
      <4>3. "file" \in held' /\ "image" \in held' /\ "fd" \notin held'
        BY <4>1, <4>2
      <4> QED BY <4>1, <4>2, <4>3 DEF HeldIsKnown
    <3>5. CASE CreateSpace
      BY <3>5 DEF CreateSpace, Reaches, HeldIsKnown
    <3> QED BY <1>4, <3>1, <3>2, <3>3, <3>4, <3>5
  <2>3. /\ at \in {"image"} \cup Past /\ at' \in Past /\ UNCHANGED <<file, bounds>>
        /\ "sections" \in held' => "sections" \in held
        /\ at' \in PastSections => at \in PastSections
        /\ at = "image" => image' = (bounds[2] - bounds[1] + Reserved) % WordValues
        /\ at # "image" => image' = image
    BY <1>4 DEF AllocateImage, Copy, CheckEntry, CreateProcess, CreateSpace, Reaches, Obtain, Use,
                Past, PastSections, HeldIsKnown
  <2>4. /\ Loaded' = Loaded /\ (\A s : SoundSegment(s)' = SoundSegment(s)) /\ \A s : Within(s)' = Within(s)
        /\ TableInside(file.program)' = TableInside(file.program)
    BY <2>3 DEF Loaded, SoundSegment, Within, TableInside
  <2>5. BoundsAreKnown'
    BY <2>3, <2>4 DEF BoundsAreKnown, Past
  <2>6. Elsewhere
    BY <1>4 DEF AllocateImage, Copy, CheckEntry, CreateProcess, CreateSpace, Reaches, Elsewhere
  <2> QED BY <1>a, <2>1, <2>2, <2>5, <2>6
<1>5. CASE NoList \/ ParseSections \/ CheckSections \/ Written
  <2>1. /\ UNCHANGED <<file, args, freed, misused, image, bounds>>
        /\ \/ at = "sections" /\ at' = "entry" /\ held' = held
           \/ at = "sections" /\ at' = "listed" /\ held' = held \cup {"sections"}
           \/ at = "sections" /\ at' = "astray" /\ held' = held
           \/ at = "listed" /\ at' = "entry" /\ held' = held /\ \A s \in file.sections : Within(s)
    BY <1>5 DEF NoList, ParseSections, CheckSections, Written, Reaches, Obtain
  <2>2. LoaderTypeOK' /\ HeldIsKnown' /\ ~misused'
    BY <2>1 DEF LoaderTypeOK, HeldIsKnown
  <2>3. /\ Loaded' = Loaded /\ (\A s : SoundSegment(s)' = SoundSegment(s)) /\ \A s : Within(s)' = Within(s)
        /\ TableInside(file.program)' = TableInside(file.program)
        /\ WellDescribed' = WellDescribed
    BY <2>1 DEF Loaded, SoundSegment, Within, TableInside, WellDescribed, Lists
  <2>4. at = "sections" => "sections" \notin held
    BY DEF HeldIsKnown
  <2>5. BoundsAreKnown'
    BY <2>1, <2>3, <2>4 DEF BoundsAreKnown, Past, PastSections
  <2>6. WellDescribed => outside' = {} /\ at' # "astray"
    <3> SUFFICES ASSUME WellDescribed PROVE outside' = {} /\ at' # "astray"
      OBVIOUS
    <3>1. HeaderOutside = {} /\ ListsOutside = {} /\ ~Overrun /\ outside = {}
      BY NamesInside DEF SectionsInside
    <3>2. ~Written
      BY <3>1 DEF Written
    <3>3. outside' = {}
      BY <1>5, <3>1, <3>2 DEF NoList, ParseSections, CheckSections
    <3>4. at' # "astray"
      BY <1>5, <3>2 DEF NoList, ParseSections, CheckSections, Reaches
    <3> QED BY <3>3, <3>4
  <2> QED BY <2>2, <2>3, <2>5, <2>6 DEF SectionsInside
<1>6. CASE SectionOutside \/ Failure
  <2>1. /\ at' = "failed" /\ UNCHANGED <<file, args, bounds, outside>>
    BY <1>6 DEF SectionOutside, Failure, FailsAt, Reaches
  <2>2. LoaderTypeOK' /\ BoundsAreKnown'
    BY <2>1 DEF LoaderTypeOK, BoundsAreKnown, Past, PastSections
  <2>3. ~misused' /\ held' \cap {"fd", "file", "image"} = {}
    <3>1. CASE FailsAt("listed", {"sections", "file", "image"})
      BY <3>1 DEF FailsAt, Reaches, GiveBack, HeldIsKnown
    <3>2. CASE FailsAt("exec", {}) \/ FailsAt("open", {})
      BY <3>2 DEF FailsAt, Reaches, GiveBack, HeldIsKnown
    <3>3. CASE FailsAt("read", {"fd"}) \/ FailsAt("check", {"file"}) \/ FailsAt("image", {"file"})
      BY <3>3 DEF FailsAt, Reaches, GiveBack, HeldIsKnown
    <3>4. CASE FailsAt("entry", {"file", "image"}) \/ FailsAt("process", {"file", "image"})
      BY <3>4 DEF FailsAt, Reaches, GiveBack, HeldIsKnown
    <3>5. CASE FailsAt("space", Listed \cup {"file", "image"})
      BY <3>5 DEF FailsAt, Reaches, GiveBack, HeldIsKnown, Listed
    <3> QED BY <1>6, <3>1, <3>2, <3>3, <3>4, <3>5 DEF Failure, SectionOutside
  <2>4. HeldIsKnown'
    BY <2>1, <2>3 DEF HeldIsKnown
  <2>5. Elsewhere
    BY <2>1 DEF Elsewhere
  <2> QED BY <1>a, <2>2, <2>3, <2>4, <2>5
<1>7. CASE Returned
  BY <1>1, <1>7 DEF Returned
<1> QED BY <1>1, <1>2, <1>3, <1>4, <1>5, <1>6, <1>7 DEF LoaderNext

LEMMA LoadsFollow == LoaderInv => LoadsSoundly
<1> SUFFICES ASSUME LoaderInv PROVE LoadsSoundly
  OBVIOUS
<1>1. EndsClean /\ SectionsInside
  BY DEF LoaderInv, HeldIsKnown, EndsClean
<1>2. ArgumentsFit
  BY ArgumentsAlwaysFit DEF LoaderInv, LoaderTypeOK
<1>3. CopiesInside
  <2> SUFFICES ASSUME at \in Past \ {"copy"}, bounds[2] - bounds[1] + Reserved < WordValues
               PROVE  /\ \A s \in Loaded : /\ s.offset + s.filesz <= file.size
                                           /\ s.vaddr >= bounds[1]
                                           /\ s.vaddr - bounds[1] + s.filesz <= image
                                           /\ s.vaddr + s.filesz <= bounds[2]
                      /\ at \in PastSections /\ "sections" \in held =>
                           \A s \in file.sections : s.start + s.size - bounds[1] <= image
    BY DEF CopiesInside, Past, PastSections, LoaderInv, BoundsAreKnown, TableInside
  <2> DEFINE lo == bounds[1]
             hi == bounds[2]
  <2>1. lo \in Nat /\ hi \in Nat /\ lo <= hi /\ WordValues \in Nat \ {0} /\ Reserved \in Nat
    BY ImageAssumption DEF LoaderInv, LoaderTypeOK, BoundsAreKnown, Past
  <2>2. image = (hi - lo + Reserved) % WordValues /\ hi - lo + Reserved < WordValues
    BY DEF LoaderInv, BoundsAreKnown, Past
  <2> HIDE DEF lo, hi
  <2>3. image = hi - lo + Reserved
    BY <2>1, <2>2
  <2>4. ASSUME NEW s \in Loaded
        PROVE  /\ s.offset + s.filesz <= file.size /\ s.vaddr >= lo
               /\ s.vaddr - lo + s.filesz <= image /\ s.vaddr + s.filesz <= hi
    <3>1. s.vaddr \in Nat /\ s.memsz \in Nat /\ s.filesz \in Nat
      BY FileTyped DEF LoaderInv, Loaded, SegmentHeader
    <3>2. /\ s.offset + s.filesz <= file.size /\ s.filesz <= s.memsz
          /\ lo <= s.vaddr /\ s.vaddr + s.memsz <= hi
      BY DEF LoaderInv, BoundsAreKnown, Past, SoundSegment, lo, hi
    <3> DEFINE v == s.vaddr
               m == s.memsz
               f == s.filesz
    <3>3. v \in Nat /\ m \in Nat /\ f \in Nat /\ f <= m /\ lo <= v /\ v + m <= hi
      BY <3>1, <3>2
    <3> HIDE DEF v, m, f
    <3>4. v >= lo /\ v - lo + f <= image /\ v + f <= hi
      BY <2>1, <2>3, <3>3
    <3> QED BY <3>2, <3>4 DEF v, f
  <2>5. ASSUME at \in PastSections, "sections" \in held, NEW s \in file.sections
        PROVE  s.start + s.size - lo <= image
    <3>1. PICK a \in Nat, b \in Nat : a = s.start /\ b = s.size
      BY FileTyped DEF LoaderInv, SectionHeader
    <3>2. s.start + s.size <= hi
      BY <2>5 DEF LoaderInv, BoundsAreKnown, Within, hi
    <3>3. a + b <= hi
      BY <3>1, <3>2
    <3>4. a + b - lo <= image
      BY <2>1, <2>3, <3>3
    <3> QED BY <3>1, <3>4
  <2> QED BY <2>4, <2>5 DEF lo, hi
<1> QED BY <1>1, <1>2, <1>3 DEF LoadsSoundly

(* A program that starts has all its segments copied inside its image, and  *)
(* of a call that fails nothing is held: for all files and arguments.  The  *)
(* section headers and the metadata are read and copied inside when the     *)
(* file describes them well; the code checks neither.                       *)
THEOREM LoadingSound == LoaderSpec => []LoadsSoundly
BY InitLoaderInv, NextLoaderInv, LoadsFollow, PTL DEF LoaderSpec

-----------------------------------------------------------------------------
(***************************************************************************)
(* The mutex of the log: mutual exclusion and masked system calls.         *)
(***************************************************************************)

LEMMA InitMutexInv == LockInit => MutexInv
BY ThreadAssumption
   DEF LockInit, MutexInv, LockTypeOK, SysCallsStayMasked, Critical, Thread, Place

LEMMA NextMutexInv == MutexInv /\ [LockNext]_lockVars => MutexInv'
<1> SUFFICES ASSUME MutexInv, [LockNext]_lockVars
             PROVE  MutexInv'
  OBVIOUS
<1> USE DEF MutexInv, LockTypeOK, SysCallsStayMasked, Critical, Place
<1>1. CASE Tick
  <2>1. /\ ~masked[current] /\ current \in Thread /\ current' \in Thread
        /\ UNCHANGED <<pc, masked, wasMasked, locked, irqState>>
    BY <1>1 DEF Tick
  <2>2. \A t \in Thread : pc[t] \notin Critical
    BY <2>1
  <2>3. \A t \in User : pc[t] = "user"
    BY <2>1 DEF Thread
  <2>4. ~locked /\ pc[current'] # "held"
    BY <2>1, <2>2
  <2>5. /\ LockTypeOK' /\ SysCallsStayMasked'
    BY <2>1
  <2>6. \A t \in Thread : pc'[t] \in Critical => masked'[t] /\ current' = t
    BY <2>1, <2>2
  <2>7. /\ \A t \in User : pc'[t] # "user" => current' = t
        /\ \A t \in User : pc'[t] = "save" => wasMasked'[t]
        /\ \A t \in User : pc'[t] \in {"mask"} \cup Critical => ~irqState'
    BY <2>1, <2>3
  <2>8. locked' <=> pc'[current'] = "held"
    BY <2>1, <2>4
  <2> HIDE DEF LockTypeOK, SysCallsStayMasked, Critical
  <2> QED BY <2>5, <2>6, <2>7, <2>8
<1>2. ASSUME NEW t \in User, SysEnter(t) \/ SysReturn(t)
      PROVE  MutexInv'
  <2>1. /\ current = t /\ current' = t /\ t \in Thread
        /\ \/ /\ pc' = [pc EXCEPT ![t] = "kernel"]
              /\ masked' = [masked EXCEPT ![t] = TRUE]
           \/ /\ pc' = [pc EXCEPT ![t] = "user"]
              /\ masked' = [masked EXCEPT ![t] = FALSE]
        /\ pc[t] \in {"user", "kernel"}
        /\ UNCHANGED <<wasMasked, locked, irqState>>
    BY <1>2 DEF SysEnter, SysReturn, Goes, Thread
  <2>2. /\ LockTypeOK' /\ SysCallsStayMasked'
    BY <2>1 DEF Thread
  <2>3. \A u \in Thread : pc'[u] \in Critical => masked'[u] /\ current' = u
    BY <2>1
  <2>4. /\ \A u \in User : pc'[u] # "user" => current' = u
        /\ \A u \in User : pc'[u] = "save" => wasMasked'[u]
        /\ \A u \in User : pc'[u] \in {"mask"} \cup Critical => ~irqState'
    BY <2>1 DEF Thread
  <2>5. locked' <=> pc'[current'] = "held"
    BY <2>1
  <2> HIDE DEF LockTypeOK, SysCallsStayMasked, Critical
  <2> QED BY <2>2, <2>3, <2>4, <2>5
<1>3. ASSUME NEW t \in Thread, ReadCpsr(t)
      PROVE  MutexInv'
  BY <1>3 DEF ReadCpsr, Goes, Thread
<1>4. ASSUME NEW t \in Thread, SaveIrqState(t)
      PROVE  MutexInv'
  BY <1>4 DEF SaveIrqState, Goes, Thread
<1>5. ASSUME NEW t \in Thread, DisableIrq(t)
      PROVE  MutexInv'
  <2>1. /\ current = t /\ current' = t /\ pc[t] = "mask"
        /\ pc' = [pc EXCEPT ![t] = "spin"]
        /\ masked' = [masked EXCEPT ![t] = TRUE]
        /\ UNCHANGED <<wasMasked, locked, irqState>>
    BY <1>5 DEF DisableIrq, Goes
  <2>2. /\ LockTypeOK' /\ SysCallsStayMasked'
    BY <2>1 DEF Thread
  <2>3. \A u \in Thread : pc'[u] \in Critical => masked'[u] /\ current' = u
    BY <2>1
  <2>4. /\ \A u \in User : pc'[u] # "user" => current' = u
        /\ \A u \in User : pc'[u] = "save" => wasMasked'[u]
        /\ \A u \in User : pc'[u] \in {"mask"} \cup Critical => ~irqState'
    BY <2>1 DEF Thread
  <2>5. locked' <=> pc'[current'] = "held"
    BY <2>1
  <2> HIDE DEF LockTypeOK, SysCallsStayMasked, Critical
  <2> QED BY <2>2, <2>3, <2>4, <2>5
<1>6. ASSUME NEW t \in Thread, Spin(t) \/ Take(t)
      PROVE  MutexInv'
  <2>1. /\ current = t /\ current' = t /\ pc[t] \in {"spin", "take"}
        /\ \/ pc' = [pc EXCEPT ![t] = "take"] /\ locked' = locked
           \/ pc' = [pc EXCEPT ![t] = "held"] /\ locked' = TRUE
        /\ UNCHANGED <<masked, wasMasked, irqState>>
    BY <1>6 DEF Spin, Take, Goes
  <2>2. /\ LockTypeOK' /\ SysCallsStayMasked'
    BY <2>1 DEF Thread
  <2>3. \A u \in Thread : pc'[u] \in Critical => masked'[u] /\ current' = u
    BY <2>1
  <2>4. /\ \A u \in User : pc'[u] # "user" => current' = u
        /\ \A u \in User : pc'[u] = "save" => wasMasked'[u]
        /\ \A u \in User : pc'[u] \in {"mask"} \cup Critical => ~irqState'
    BY <2>1 DEF Thread
  <2>5. locked' <=> pc'[current'] = "held"
    <3>1. CASE pc' = [pc EXCEPT ![t] = "take"] /\ locked' = locked
      BY <2>1, <3>1
    <3>2. CASE pc' = [pc EXCEPT ![t] = "held"] /\ locked' = TRUE
      BY <2>1, <3>2
    <3> QED BY <2>1, <3>1, <3>2
  <2> HIDE DEF LockTypeOK, SysCallsStayMasked, Critical
  <2> QED BY <2>2, <2>3, <2>4, <2>5
<1>7. ASSUME NEW t \in Thread, Release(t)
      PROVE  MutexInv'
  BY <1>7 DEF Release, Goes, Thread
<1>8. ASSUME NEW t \in Thread, EnableIrq(t)
      PROVE  MutexInv'
  BY <1>8 DEF EnableIrq, Goes, Thread
<1>9. CASE UNCHANGED lockVars
  BY <1>9 DEF lockVars
<1> HIDE DEF MutexInv
<1>10. ASSUME NEW t \in Thread, Step(t)
       PROVE  MutexInv'
  BY <1>10, <1>2, <1>3, <1>4, <1>5, <1>6, <1>7, <1>8
     DEF Step, SysEnter, SysReturn
<1> QED BY <1>1, <1>9, <1>10 DEF LockNext

(* The inductive invariant of the mutex holds.                              *)
THEOREM MutexInvariant == LockSpec => []MutexInv
BY InitMutexInv, NextMutexInv, PTL DEF LockSpec

(* At most one process writes a log line at any time (log.c).               *)
THEOREM LogLinesExclusive == LockSpec => []MutualExclusion
<1>1. MutexInv => MutualExclusion
  BY DEF MutexInv, MutualExclusion, Critical
<1> QED BY <1>1, MutexInvariant, PTL

(* The spin loop of mutex_lock (mutex.c) never waits.                       *)
THEOREM SpinNeverWaits == LockSpec => []NeverSpins
<1>1. MutexInv => NeverSpins
  BY DEF MutexInv, NeverSpins
<1> QED BY <1>1, MutexInvariant, PTL

(* Logging inside a system call never unmasks interrupts.                   *)
THEOREM SysCallsMasked == LockSpec => []SysCallsStayMasked
BY MutexInvariant, PTL DEF MutexInv

(* The log's mutex is sound, for any processes: the three together.         *)
THEOREM LockSound == LockSpec => []LockIsSound
BY LogLinesExclusive, SpinNeverWaits, SysCallsMasked, PTL DEF LockIsSound

(***************************************************************************)
(* RoundUp reaches the unit, by less than one unit.                        *)
(***************************************************************************)
LEMMA RoundUpLemma ==
    ASSUME NEW n \in Nat, NEW u \in Nat \ {0}
    PROVE  RoundUp(n, u) \in Nat /\ n <= RoundUp(n, u) /\ RoundUp(n, u) < n + u
<1> DEFINE a == n + u - 1
           d == a \div u
<1>1. a \in Nat /\ d \in Nat
  OBVIOUS
<1>2. d * u \in Nat /\ d * u <= a /\ a < d * u + u
  BY <1>1
<1>3. RoundUp(n, u) = d * u
  BY DEF RoundUp
<1> HIDE DEF d
<1> QED BY <1>1, <1>2, <1>3

(***************************************************************************)
(* A record of the list with new fields.                                   *)
(***************************************************************************)
LEMMA BlockFields ==
    ASSUME NEW r \in Block, NEW n \in Nat, NEW f \in BOOLEAN
    PROVE  /\ r.addr \in Nat /\ r.size \in Nat /\ r.free \in BOOLEAN
           /\ [r EXCEPT !.free = f] =
                 [addr |-> r.addr, size |-> r.size, free |-> f]
           /\ [r EXCEPT !.size = n] =
                 [addr |-> r.addr, size |-> n, free |-> r.free]
           /\ End(r) \in Nat /\ End(r) = r.addr + Header + r.size
<1>1. r = [addr |-> r.addr, size |-> r.size, free |-> r.free]
  BY DEF Block
<1>2. r.addr \in Nat /\ r.size \in Nat /\ r.free \in BOOLEAN
  BY DEF Block
<1>3. [r EXCEPT !.free = f] = [addr |-> r.addr, size |-> r.size, free |-> f]
  BY <1>1
<1>4. [r EXCEPT !.size = n] = [addr |-> r.addr, size |-> n, free |-> r.free]
  BY <1>1
<1>5. End(r) \in Nat /\ End(r) = r.addr + Header + r.size
  BY <1>2, HeaderAssumption DEF End
<1> QED BY <1>2, <1>3, <1>4, <1>5

LEMMA ExceptLemma ==
    ASSUME NEW b \in Seq(Block), NEW i \in 1..Len(b), NEW r \in Block
    PROVE  LET c == [b EXCEPT ![i] = r]
           IN  /\ c \in Seq(Block)
               /\ Len(c) = Len(b)
               /\ \A k \in 1..Len(b) : c[k] = IF k = i THEN r ELSE b[k]
OBVIOUS

(***************************************************************************)
(* The list is in address order and its blocks do not overlap.             *)
(***************************************************************************)
LEMMA InOrder ==
    ASSUME NEW b \in Seq(Block), Tiles(b),
           NEW i \in 1..Len(b), NEW j \in 1..Len(b), i < j
    PROVE  End(b[i]) <= b[j].addr
<1> DEFINE Bad == {k \in (i + 1)..Len(b) : b[k].addr < End(b[i])}
<1>1. SUFFICES ASSUME Bad # {} PROVE FALSE
  <2>1. j \notin Bad
    BY <1>1
  <2>2. b[j] \in Block /\ b[i] \in Block
    OBVIOUS
  <2> QED BY <2>1, <2>2, HeaderAssumption, SMTT(20) DEF Block, End
<1>2. Bad \in SUBSET Nat
  OBVIOUS
<1> DEFINE k == Min(Bad)
<1>3. k \in Bad /\ \A m \in Bad : k <= m
  <2> HIDE DEF Bad
  <2> QED BY <1>1, <1>2, MinExists
<1> HIDE DEF k
<1>4. k \in (i + 1)..Len(b) /\ b[k].addr < End(b[i])
  BY <1>3
<1>5. k # i + 1
  <2>1. b[i + 1].addr = End(b[i])
    BY DEF Tiles
  <2>2. b[i] \in Block /\ b[i + 1] \in Block
    OBVIOUS
  <2> QED BY <1>4, <2>1, <2>2, HeaderAssumption, SMTT(20) DEF Block, End
<1>6. k - 1 \in (i + 1)..Len(b) /\ k - 1 \in 1..(Len(b) - 1)
  BY <1>4, <1>5
<1>7. b[k].addr = End(b[k - 1])
  <2>1. b[(k - 1) + 1].addr = End(b[k - 1])
    BY <1>6 DEF Tiles
  <2> QED BY <1>4, <2>1
<1>8. b[k - 1].addr < End(b[i])
  <2>1. b[k - 1] \in Block /\ b[i] \in Block
    BY <1>4, <1>6
  <2>2. /\ b[k - 1].addr \in Nat /\ b[k - 1].size \in Nat
        /\ End(b[i]) \in Nat
    BY <2>1, BlockFields
  <2>3. b[k - 1].addr + Header + b[k - 1].size < End(b[i])
    BY <1>4, <1>7 DEF End
  <2> HIDE DEF End
  <2> QED BY <2>2, <2>3, HeaderAssumption
<1>9. k - 1 \in Bad
  BY <1>6, <1>8
<1> QED BY <1>3, <1>4, <1>9

LEMMA AddrUnique ==
    ASSUME NEW b \in Seq(Block), Tiles(b),
           NEW i \in 1..Len(b), NEW j \in 1..Len(b), i # j
    PROVE  b[i].addr # b[j].addr
<1>1. b[i] \in Block /\ b[j] \in Block
  OBVIOUS
<1>2. CASE i < j
  BY <1>1, <1>2, InOrder, HeaderAssumption DEF Block, End
<1>3. CASE j < i
  BY <1>1, <1>3, InOrder, HeaderAssumption DEF Block, End
<1> QED BY <1>2, <1>3

----------------------------------------------------------------------------
(***************************************************************************)
(* A sound list, and what the two list operations make of one.             *)
(***************************************************************************)
Sound(b) ==
    /\ b \in Seq(Block)
    /\ Tiles(b)
    /\ Merged(b)
    /\ b[Len(b)].size > 0

(***************************************************************************)
(* kmalloc without a split: the block changes hands as it is.              *)
(***************************************************************************)
LEMMA WholeBlock ==
    ASSUME NEW b, Sound(b), NEW i \in 1..Len(b), b[i].free
    PROVE  LET u == InUse(b, i, b[i].size)
               c == [b EXCEPT ![i] = u]
           IN  Sound(c) /\ Used(c) = Used(b) \cup {u}
<1> DEFINE u == InUse(b, i, b[i].size)
           c == [b EXCEPT ![i] = u]
<1>1. b \in Seq(Block) /\ b[i] \in Block
  BY DEF Sound
<1>2. /\ u \in Block /\ u.addr = b[i].addr /\ u.size = b[i].size
      /\ u.free = FALSE /\ End(u) = End(b[i])
  BY <1>1, BlockFields DEF InUse, Block, End
<1>3. /\ c \in Seq(Block) /\ Len(c) = Len(b)
      /\ \A k \in 1..Len(b) : c[k] = IF k = i THEN u ELSE b[k]
  <2> HIDE DEF u
  <2> QED BY <1>1, <1>2, ExceptLemma
<1> HIDE DEF u, c
<1>4. Len(b) # 0 /\ Len(b) \in Nat
  BY <1>1
<1>5. Tiles(c)
  <2>1. c # <<>>
    BY <1>3, <1>4
  <2>2. c[1].addr = HeapStart
    BY <1>2, <1>3, <1>4 DEF Sound, Tiles
  <2>3. End(c[Len(c)]) = HeapEnd
    BY <1>2, <1>3, <1>4 DEF Sound, Tiles
  <2>4. ASSUME NEW k \in 1..(Len(c) - 1)
        PROVE  c[k + 1].addr = End(c[k])
    <3>1. b[k + 1].addr = End(b[k])
      BY <1>3 DEF Sound, Tiles
    <3>2. c[k + 1].addr = b[k + 1].addr
      BY <1>2, <1>3, <1>4
    <3>3. End(c[k]) = End(b[k])
      BY <1>2, <1>3, <1>4
    <3> QED BY <3>1, <3>2, <3>3
  <2> QED BY <2>1, <2>2, <2>3, <2>4 DEF Tiles
<1>6. Merged(c)
  <2> SUFFICES ASSUME NEW k \in 1..(Len(c) - 1)
               PROVE  ~(c[k].free /\ c[k + 1].free)
    BY DEF Merged
  <2>1. ~(b[k].free /\ b[k + 1].free)
    BY <1>3 DEF Sound, Merged
  <2>2. CASE k = i \/ k + 1 = i
    BY <1>2, <1>3, <1>4, <2>2
  <2>3. CASE k # i /\ k + 1 # i
    BY <1>3, <1>4, <2>1, <2>3
  <2> QED BY <2>2, <2>3
<1>7. c[Len(c)].size > 0
  BY <1>2, <1>3, <1>4 DEF Sound
<1>8. Used(c) = Used(b) \cup {u}
  <2>1. Used(c) \subseteq Used(b) \cup {u}
    BY <1>3 DEF Used, ToSet
  <2>2. u \in Used(c)
    <3>1. i \in DOMAIN c /\ c[i] = u
      BY <1>3
    <3> QED BY <1>2, <3>1 DEF Used, ToSet
  <2>3. ASSUME NEW x \in Used(b) PROVE x \in Used(c)
    <3>1. PICK k \in 1..Len(b) : b[k] = x
      BY <1>1 DEF Used, ToSet
    <3>2. ~x.free /\ k # i
      BY <3>1 DEF Used
    <3>3. k \in DOMAIN c /\ c[k] = x
      BY <1>3, <3>1, <3>2
    <3> QED BY <3>2, <3>3 DEF Used, ToSet
  <2> QED BY <2>1, <2>2, <2>3
<1> QED BY <1>3, <1>5, <1>6, <1>7, <1>8 DEF Sound, u, c

(***************************************************************************)
(* kmalloc with a split.                                                   *)
(***************************************************************************)
LEMMA SplitBlock ==
    ASSUME NEW b, Sound(b), NEW i \in 1..Len(b), b[i].free,
           NEW n \in Nat, WorthSplitting(b, i, n)
    PROVE  LET u == InUse(b, i, n)
               c == InsertAt([b EXCEPT ![i] = u], i + 1, RestOf(b, i, n))
           IN  Sound(c) /\ Used(c) = Used(b) \cup {u}
<1> DEFINE u == InUse(b, i, n)
           r == RestOf(b, i, n)
           d == [b EXCEPT ![i] = u]
           c == InsertAt(d, i + 1, r)
<1>1. b \in Seq(Block) /\ b[i] \in Block
  BY DEF Sound
<1>2. b[i].addr \in Nat /\ b[i].size \in Nat /\ End(b[i]) \in Nat
  BY <1>1, BlockFields
<1>3. /\ u \in Block /\ u.addr = b[i].addr /\ u.free = FALSE
      /\ End(u) = b[i].addr + Header + n
  BY <1>2 DEF InUse, Block, End
<1>4. /\ r \in Block /\ r.addr = End(u) /\ r.free = TRUE
      /\ End(r) = End(b[i]) /\ r.size > 0
  <2>1. /\ r.addr = b[i].addr + Header + n
        /\ r.size = b[i].size - n - Header
        /\ r.free = TRUE
        /\ r = [addr |-> r.addr, size |-> r.size, free |-> r.free]
    BY DEF RestOf
  <2>2. b[i].size >= n + Header + 8
    BY DEF WorthSplitting
  <2> HIDE DEF r
  <2>3. r.addr \in Nat /\ r.size \in Nat /\ r.size > 0
    <3> DEFINE s == b[i].size
               a == b[i].addr
    <3>1. /\ s \in Nat /\ a \in Nat /\ s >= n + Header + 8 /\ Header \in Nat
          /\ r.addr = a + Header + n /\ r.size = s - n - Header
      BY <1>2, <2>1, <2>2, HeaderAssumption
    <3> HIDE DEF s, a
    <3> QED BY <3>1
  <2>4. r \in Block
    BY <2>1, <2>3 DEF Block
  <2>5. End(r) = r.addr + Header + r.size /\ End(b[i]) = b[i].addr + Header + b[i].size
    BY DEF End
  <2>6. End(r) = End(b[i])
    BY <1>2, <2>1, <2>5, HeaderAssumption
  <2> QED BY <1>3, <2>1, <2>3, <2>4, <2>6
<1>5. /\ d \in Seq(Block) /\ Len(d) = Len(b)
      /\ \A k \in 1..Len(b) : d[k] = IF k = i THEN u ELSE b[k]
  <2> HIDE DEF u
  <2> QED BY <1>1, <1>3, ExceptLemma
<1> HIDE DEF u, r, d
<1>6. /\ c \in Seq(Block) /\ Len(c) = Len(b) + 1
      /\ \A k \in 1..(Len(b) + 1) : c[k] = IF k < i + 1 THEN d[k]
                                         ELSE IF k = i + 1 THEN r ELSE d[k - 1]
  <2>1. i + 1 \in 1..(Len(d) + 1)
    BY <1>5
  <2>2. /\ c \in Seq(Block) /\ Len(c) = Len(d) + 1
        /\ \A k \in 1..(Len(d) + 1) : c[k] = IF k < i + 1 THEN d[k]
                                           ELSE IF k = i + 1 THEN r ELSE d[k - 1]
    <3>1. r \in Block /\ d \in Seq(Block)
      BY <1>4, <1>5
    <3>2. PICK j \in 1..(Len(d) + 1) : j = i + 1
      BY <2>1
    <3>3. /\ InsertAt(d, j, r) \in Seq(Block)
          /\ Len(InsertAt(d, j, r)) = Len(d) + 1
          /\ \A k \in 1..(Len(d) + 1) :
                InsertAt(d, j, r)[k] = IF k < j THEN d[k]
                                       ELSE IF k = j THEN r ELSE d[k - 1]
      BY <3>1, InsertAtLemma
    <3> QED BY <3>2, <3>3
  <2> QED BY <1>5, <2>2
<1> HIDE DEF c
<1>7. Len(b) # 0 /\ Len(b) \in Nat
  BY <1>1
<1>8. /\ \A k \in 1..(i - 1) : c[k] = b[k]
      /\ c[i] = u /\ c[i + 1] = r
      /\ \A k \in (i + 1)..Len(b) : c[k + 1] = b[k]
  <2>1. \A k \in 1..(i - 1) : c[k] = b[k]
    BY <1>5, <1>6, <1>7
  <2>2. c[i] = u /\ c[i + 1] = r
    BY <1>5, <1>6, <1>7
  <2>3. ASSUME NEW k \in (i + 1)..Len(b) PROVE c[k + 1] = b[k]
    <3>1. c[k + 1] = d[(k + 1) - 1]
      BY <1>6, <1>7
    <3> QED BY <1>5, <1>7, <3>1
  <2> QED BY <2>1, <2>2, <2>3
<1>9. Tiles(c)
  <2>1. c # <<>>
    BY <1>6, <1>7
  <2>2. c[1].addr = HeapStart
    <3>1. b[1].addr = HeapStart
      BY DEF Sound, Tiles
    <3>2. CASE i = 1
      BY <1>3, <1>8, <3>1, <3>2
    <3>3. CASE i # 1
      BY <1>7, <1>8, <3>1, <3>3
    <3> QED BY <3>2, <3>3
  <2>3. End(c[Len(c)]) = HeapEnd
    <3>1. End(b[Len(b)]) = HeapEnd
      BY DEF Sound, Tiles
    <3>2. CASE i = Len(b)
      BY <1>4, <1>6, <1>8, <3>1, <3>2
    <3>3. CASE i # Len(b)
      BY <1>6, <1>7, <1>8, <3>1, <3>3
    <3> QED BY <3>2, <3>3
  <2>4. ASSUME NEW k \in 1..(Len(c) - 1)
        PROVE  c[k + 1].addr = End(c[k])
    <3>1. CASE k < i - 1
      <4>1. c[k] = b[k] /\ c[k + 1] = b[k + 1] /\ k \in 1..(Len(b) - 1)
        BY <1>7, <1>8, <3>1
      <4> QED BY <4>1 DEF Sound, Tiles
    <3>2. CASE k = i - 1
      <4>1. c[k] = b[k] /\ c[k + 1].addr = b[k + 1].addr /\ k \in 1..(Len(b) - 1)
        BY <1>3, <1>7, <1>8, <3>2
      <4> QED BY <4>1 DEF Sound, Tiles
    <3>3. CASE k = i
      BY <1>4, <1>8, <3>3
    <3>4. CASE k = i + 1
      <4>1. c[k] = r /\ c[k + 1] = b[i + 1] /\ i \in 1..(Len(b) - 1)
        BY <1>6, <1>7, <1>8, <3>4
      <4>2. b[i + 1].addr = End(b[i])
        BY <4>1 DEF Sound, Tiles
      <4> QED BY <1>4, <4>1, <4>2
    <3>5. CASE k > i + 1
      <4>1. /\ c[k] = b[k - 1] /\ c[k + 1] = b[k]
            /\ k - 1 \in 1..(Len(b) - 1) /\ (k - 1) + 1 = k
        BY <1>6, <1>7, <1>8, <3>5
      <4>2. b[(k - 1) + 1].addr = End(b[k - 1])
        BY <4>1 DEF Sound, Tiles
      <4> QED BY <4>1, <4>2
    <3> QED BY <1>6, <3>1, <3>2, <3>3, <3>4, <3>5
  <2> QED BY <2>1, <2>2, <2>3, <2>4 DEF Tiles
<1>10. Merged(c)
  <2> SUFFICES ASSUME NEW k \in 1..(Len(c) - 1)
               PROVE  ~(c[k].free /\ c[k + 1].free)
    BY DEF Merged
  <2>1. CASE k < i - 1
    <3>1. c[k] = b[k] /\ c[k + 1] = b[k + 1] /\ k \in 1..(Len(b) - 1)
      BY <1>7, <1>8, <2>1
    <3> QED BY <3>1 DEF Sound, Merged
  <2>2. CASE k = i - 1 \/ k = i
    BY <1>3, <1>8, <2>2
  <2>3. CASE k = i + 1
    <3>1. c[k + 1] = b[i + 1] /\ i \in 1..(Len(b) - 1)
      BY <1>6, <1>7, <1>8, <2>3
    <3>2. ~(b[i].free /\ b[i + 1].free)
      BY <3>1 DEF Sound, Merged
    <3> QED BY <3>1, <3>2
  <2>4. CASE k > i + 1
    <3>1. /\ c[k] = b[k - 1] /\ c[k + 1] = b[k]
          /\ k - 1 \in 1..(Len(b) - 1) /\ (k - 1) + 1 = k
      BY <1>6, <1>7, <1>8, <2>4
    <3>2. ~(b[k - 1].free /\ b[(k - 1) + 1].free)
      BY <3>1 DEF Sound, Merged
    <3> QED BY <3>1, <3>2
  <2> QED BY <1>6, <2>1, <2>2, <2>3, <2>4
<1>11. c[Len(c)].size > 0
  <2>1. CASE i = Len(b)
    BY <1>4, <1>6, <1>8, <2>1
  <2>2. CASE i # Len(b)
    BY <1>6, <1>7, <1>8, <2>2 DEF Sound
  <2> QED BY <2>1, <2>2
<1>12. Used(c) = Used(b) \cup {u}
  <2>1. ASSUME NEW k \in 1..Len(c), ~c[k].free
        PROVE  c[k] \in Used(b) \cup {u}
    <3>1. CASE k < i
      <4>1. c[k] = b[k] /\ k \in DOMAIN b
        BY <1>1, <1>7, <1>8, <3>1
      <4> QED BY <2>1, <4>1 DEF Used, ToSet
    <3>2. CASE k = i \/ k = i + 1
      BY <1>4, <1>8, <2>1, <3>2
    <3>3. CASE k > i + 1
      <4>1. k - 1 \in (i + 1)..Len(b) /\ (k - 1) + 1 = k
        BY <1>6, <1>7, <3>3
      <4>2. c[k] = b[k - 1] /\ k - 1 \in DOMAIN b
        BY <1>1, <1>8, <4>1
      <4> QED BY <2>1, <4>2 DEF Used, ToSet
    <3> QED BY <1>6, <3>1, <3>2, <3>3
  <2>2. u \in Used(c)
    <3>1. i \in DOMAIN c /\ c[i] = u
      BY <1>6, <1>8
    <3> QED BY <1>3, <3>1 DEF Used, ToSet
  <2>3. ASSUME NEW x \in Used(b) PROVE x \in Used(c)
    <3>1. PICK k \in 1..Len(b) : b[k] = x
      BY <1>1 DEF Used, ToSet
    <3>2. ~x.free /\ k # i
      BY <3>1 DEF Used
    <3>3. \E m \in DOMAIN c : c[m] = x
      <4>1. CASE k < i
        <5>1. k \in 1..Len(c) /\ c[k] = x
          BY <1>6, <1>7, <1>8, <3>1, <4>1
        <5>2. DOMAIN c = 1..Len(c)
          BY <1>6
        <5> QED BY <5>1, <5>2
      <4>2. CASE k > i
        <5>1. k + 1 \in 1..Len(c) /\ c[k + 1] = x
          BY <1>6, <1>7, <1>8, <3>1, <4>2
        <5>2. DOMAIN c = 1..Len(c)
          BY <1>6
        <5> QED BY <5>1, <5>2
      <4> QED BY <3>2, <4>1, <4>2
    <3> QED BY <3>2, <3>3 DEF Used, ToSet
  <2>4. \A x \in Used(c) : \E k \in 1..Len(c) : c[k] = x /\ ~c[k].free
    BY <1>6 DEF Used, ToSet
  <2> QED BY <2>1, <2>2, <2>3, <2>4
<1> QED BY <1>6, <1>9, <1>10, <1>11, <1>12 DEF Sound, u, r, d, c

(***************************************************************************)
(* A free block absorbs its free successor.                                *)
(***************************************************************************)
LEMMA AbsorbLemma ==
    ASSUME NEW b \in Seq(Block), Tiles(b), b[Len(b)].size > 0,
           NEW i \in 1..(Len(b) - 1), b[i].free, b[i + 1].free
    PROVE  LET c == Absorb(b, i)
           IN  /\ c \in Seq(Block) /\ Len(c) = Len(b) - 1
               /\ \A k \in 1..(i - 1) : c[k] = b[k]
               /\ c[i].free
               /\ \A k \in (i + 1)..Len(c) : c[k] = b[k + 1]
               /\ Tiles(c) /\ c[Len(c)].size > 0 /\ Used(c) = Used(b)
<1> DEFINE u == Joined(b, i)
           d == [b EXCEPT ![i] = u]
           c == Absorb(b, i)
<1>1. i \in 1..Len(b) /\ i + 1 \in 1..Len(b) /\ Len(b) \in Nat
  OBVIOUS
<1>2. b[i] \in Block /\ b[i + 1] \in Block
  BY <1>1
<1>3. /\ b[i].addr \in Nat /\ b[i].size \in Nat
      /\ b[i + 1].addr \in Nat /\ b[i + 1].size \in Nat
      /\ b[i + 1].addr = b[i].addr + Header + b[i].size
      /\ End(b[i + 1]) = b[i + 1].addr + Header + b[i + 1].size
  BY <1>2, BlockFields DEF Tiles, End
<1>4. /\ u.addr = b[i].addr /\ u.free
      /\ u.size = b[i].size + Header + b[i + 1].size
      /\ u = [addr |-> u.addr, size |-> u.size, free |-> TRUE]
      /\ End(u) = u.addr + Header + u.size
  <2>1. b[i].free = TRUE
    BY <1>2 DEF Block
  <2> QED BY <2>1 DEF Joined, End
<1> HIDE DEF u
<1>5. ASSUME NEW ai \in Nat, NEW si \in Nat, NEW an \in Nat, NEW sn \in Nat,
             an = ai + Header + si
      PROVE  /\ si + Header + sn \in Nat /\ si + Header + sn > 0
             /\ ai + Header + (si + Header + sn) = an + Header + sn
  BY <1>5, HeaderAssumption
<1>6. u.size \in Nat /\ u.size > 0 /\ End(u) = End(b[i + 1])
  BY <1>3, <1>4, <1>5
<1>7. u \in Block
  BY <1>3, <1>4, <1>6 DEF Block
<1>8. /\ d \in Seq(Block) /\ Len(d) = Len(b)
      /\ \A k \in 1..Len(b) : d[k] = IF k = i THEN u ELSE b[k]
  BY <1>1, <1>7, ExceptLemma
<1>9. c = RemoveAt(d, i + 1)
  BY DEF Absorb, u
<1> HIDE DEF d, c
<1>10. /\ c \in Seq(Block) /\ Len(c) = Len(b) - 1
       /\ \A k \in 1..(Len(b) - 1) : c[k] = IF k < i + 1 THEN d[k] ELSE d[k + 1]
  <2>1. i + 1 \in 1..Len(d)
    BY <1>1, <1>8
  <2>2. /\ RemoveAt(d, i + 1) \in Seq(Block)
        /\ Len(RemoveAt(d, i + 1)) = Len(d) - 1
        /\ \A k \in 1..(Len(d) - 1) :
             RemoveAt(d, i + 1)[k] = IF k < i + 1 THEN d[k] ELSE d[k + 1]
    BY <1>8, <2>1, RemoveAtLemma
  <2> QED BY <1>8, <1>9, <2>2
<1>11. /\ \A k \in 1..(i - 1) : c[k] = b[k]
       /\ c[i] = u
       /\ \A k \in (i + 1)..Len(c) : c[k] = b[k + 1]
  <2>1. ASSUME NEW k \in 1..(i - 1) PROVE c[k] = b[k]
    <3>1. k \in 1..(Len(b) - 1) /\ k < i + 1 /\ k \in 1..Len(b) /\ k # i
      BY <1>1
    <3>2. c[k] = d[k]
      BY <1>10, <3>1
    <3> QED BY <1>8, <3>1, <3>2
  <2>2. c[i] = u
    BY <1>1, <1>8, <1>10
  <2>3. ASSUME NEW k \in (i + 1)..Len(c) PROVE c[k] = b[k + 1]
    <3>1. c[k] = d[k + 1] /\ k + 1 \in 1..Len(b) /\ k + 1 # i
      BY <1>1, <1>10
    <3> QED BY <1>8, <3>1
  <2> QED BY <2>1, <2>2, <2>3
<1>12. Tiles(c)
  <2>1. c # <<>>
    BY <1>1, <1>10
  <2>2. c[1].addr = HeapStart
    <3>1. b[1].addr = HeapStart
      BY DEF Tiles
    <3>2. CASE i = 1
      BY <1>4, <1>11, <3>1, <3>2
    <3>3. CASE i # 1
      BY <1>1, <1>11, <3>1, <3>3
    <3> QED BY <3>2, <3>3
  <2>3. End(c[Len(c)]) = HeapEnd
    <3>1. End(b[Len(b)]) = HeapEnd
      BY DEF Tiles
    <3>2. CASE i = Len(b) - 1
      BY <1>1, <1>6, <1>10, <1>11, <3>1, <3>2
    <3>3. CASE i # Len(b) - 1
      BY <1>1, <1>10, <1>11, <3>1, <3>3
    <3> QED BY <3>2, <3>3
  <2>4. ASSUME NEW k \in 1..(Len(c) - 1)
        PROVE  c[k + 1].addr = End(c[k])
    <3>1. CASE k < i
      <4>1. c[k] = b[k] /\ k \in 1..(Len(b) - 1)
        BY <1>1, <1>11, <3>1
      <4>2. c[k + 1].addr = b[k + 1].addr
        <5>1. CASE k + 1 = i
          BY <1>4, <1>11, <5>1
        <5>2. CASE k + 1 < i
          <6>1. k + 1 \in 1..(i - 1)
            BY <1>1, <2>4, <5>2
          <6> QED BY <1>11, <6>1
        <5>3. k + 1 = i \/ k + 1 < i
          BY <1>1, <2>4, <3>1
        <5> QED BY <5>1, <5>2, <5>3
      <4> QED BY <4>1, <4>2 DEF Tiles
    <3>2. CASE k = i
      <4>1. c[k + 1] = b[(i + 1) + 1] /\ i + 1 \in 1..(Len(b) - 1)
        <5>1. Len(b) \in Nat /\ Len(c) = Len(b) - 1
          BY <1>1, <1>10
        <5>2. i + 1 \in (i + 1)..Len(c) /\ i + 1 \in 1..(Len(b) - 1)
          BY <3>2, <5>1
        <5>3. c[i + 1] = b[(i + 1) + 1]
          BY <1>11, <5>2
        <5> QED BY ONLY <3>2, <5>2, <5>3
      <4>2. b[(i + 1) + 1].addr = End(b[i + 1])
        BY <4>1 DEF Tiles
      <4> QED BY <1>6, <1>11, <3>2, <4>1, <4>2
    <3>3. CASE k > i
      <4>1. /\ c[k] = b[k + 1] /\ c[k + 1] = b[(k + 1) + 1]
            /\ k + 1 \in 1..(Len(b) - 1)
        <5>1. Len(b) \in Nat /\ Len(c) = Len(b) - 1
          BY <1>1, <1>10
        <5>2. /\ k \in (i + 1)..Len(c) /\ k + 1 \in (i + 1)..Len(c)
              /\ k + 1 \in 1..(Len(b) - 1)
          BY <3>3, <5>1
        <5> QED BY <1>11, <5>2
      <4> QED BY <4>1 DEF Tiles
    <3> QED BY <1>1, <1>10, <3>1, <3>2, <3>3
  <2> QED BY <2>1, <2>2, <2>3, <2>4 DEF Tiles
<1>13. c[Len(c)].size > 0
  <2>1. CASE i = Len(b) - 1
    BY <1>1, <1>6, <1>10, <1>11, <2>1
  <2>2. CASE i # Len(b) - 1
    BY <1>1, <1>10, <1>11, <2>2
  <2> QED BY <2>1, <2>2
<1>14. Used(c) = Used(b)
  <2>1. ASSUME NEW k \in 1..Len(c), ~c[k].free PROVE c[k] \in Used(b)
    <3>1. CASE k < i
      <4>1. c[k] = b[k] /\ k \in DOMAIN b
        BY <1>1, <1>11, <3>1
      <4> QED BY <2>1, <4>1 DEF Used, ToSet
    <3>2. CASE k = i
      BY <1>4, <1>11, <2>1, <3>2
    <3>3. CASE k > i
      <4>1. c[k] = b[k + 1] /\ k + 1 \in DOMAIN b
        BY <1>1, <1>10, <1>11, <3>3
      <4> QED BY <2>1, <4>1 DEF Used, ToSet
    <3> QED BY <1>1, <1>10, <3>1, <3>2, <3>3
  <2>2. ASSUME NEW k \in 1..Len(b), ~b[k].free PROVE b[k] \in Used(c)
    <3>1. DOMAIN c = 1..Len(c)
      BY <1>10
    <3>2. CASE k < i
      <4>1. c[k] = b[k] /\ k \in DOMAIN c
        BY <1>1, <1>10, <1>11, <3>1, <3>2
      <4> QED BY <2>2, <4>1 DEF Used, ToSet
    <3>3. CASE k > i + 1
      <4>1. k - 1 \in (i + 1)..Len(c) /\ (k - 1) + 1 = k /\ k - 1 \in 1..Len(c)
        BY <1>1, <1>10, <3>3
      <4>2. c[k - 1] = b[k] /\ k - 1 \in DOMAIN c
        BY <1>11, <3>1, <4>1
      <4> QED BY <2>2, <4>2 DEF Used, ToSet
    <3> QED BY <1>1, <2>2, <3>2, <3>3
  <2>3. /\ \A x \in Used(c) : \E k \in 1..Len(c) : c[k] = x /\ ~c[k].free
        /\ \A x \in Used(b) : \E k \in 1..Len(b) : b[k] = x /\ ~b[k].free
    BY <1>10 DEF Used, ToSet
  <2>4. Used(c) \subseteq Used(b)
    BY <2>1, <2>3
  <2>5. Used(b) \subseteq Used(c)
    BY <2>2, <2>3
  <2> QED BY <2>4, <2>5
<1> QED BY <1>4, <1>10, <1>11, <1>12, <1>13, <1>14 DEF c

(***************************************************************************)
(* kfree of a block in use.                                                *)
(***************************************************************************)
LEMMA FreedLemma ==
    ASSUME NEW b, Sound(b), NEW i \in 1..Len(b), ~b[i].free
    PROVE  Sound(Freed(b, i)) /\ Used(Freed(b, i)) = Used(b) \ {b[i]}
<1> DEFINE u == [b[i] EXCEPT !.free = TRUE]
           f == [b EXCEPT ![i] = u]
           m == MergeNext(f, i)
           c == MergePrev(m, i)
<1>1. /\ b \in Seq(Block) /\ b[i] \in Block /\ Len(b) \in Nat
      /\ Tiles(b) /\ Merged(b) /\ b[Len(b)].size > 0
  BY DEF Sound
<1>2. c = Freed(b, i)
  BY DEF Freed
<1>3. /\ u = [addr |-> b[i].addr, size |-> b[i].size, free |-> TRUE]
      /\ b[i].addr \in Nat /\ b[i].size \in Nat
  BY <1>1, BlockFields
<1>4. /\ u \in Block /\ u.addr = b[i].addr /\ u.size = b[i].size
      /\ u.free /\ End(u) = End(b[i])
  <2> HIDE DEF u
  <2> QED BY <1>3 DEF Block, End
<1> HIDE DEF u
<1>5. /\ f \in Seq(Block) /\ Len(f) = Len(b)
      /\ \A k \in 1..Len(b) : f[k] = IF k = i THEN u ELSE b[k]
  BY <1>1, <1>4, ExceptLemma
<1> HIDE DEF f
<1>6. Tiles(f) /\ f[Len(f)].size > 0
  <2>1. f # <<>>
    BY <1>1, <1>5
  <2>2. f[1].addr = HeapStart
    BY <1>1, <1>4, <1>5 DEF Tiles
  <2>3. End(f[Len(f)]) = HeapEnd
    BY <1>1, <1>4, <1>5 DEF Tiles
  <2>4. ASSUME NEW k \in 1..(Len(f) - 1)
        PROVE  f[k + 1].addr = End(f[k])
    <3>1. b[k + 1].addr = End(b[k])
      BY <1>1, <1>5 DEF Tiles
    <3>2. f[k + 1].addr = b[k + 1].addr
      BY <1>1, <1>4, <1>5
    <3>3. End(f[k]) = End(b[k])
      BY <1>1, <1>4, <1>5
    <3> QED BY <3>1, <3>2, <3>3
  <2>5. f[Len(f)].size > 0
    BY <1>1, <1>4, <1>5
  <2> QED BY <2>1, <2>2, <2>3, <2>4, <2>5 DEF Tiles
<1>7. Used(f) = Used(b) \ {b[i]}
  <2>1. ASSUME NEW k \in 1..Len(b), ~f[k].free PROVE f[k] \in Used(b) \ {b[i]}
    <3>1. k # i /\ f[k] = b[k] /\ k \in DOMAIN b
      BY <1>1, <1>4, <1>5, <2>1
    <3>2. b[k] # b[i]
      BY <1>1, <3>1, AddrUnique
    <3> QED BY <2>1, <3>1, <3>2 DEF Used, ToSet
  <2>2. ASSUME NEW k \in 1..Len(b), ~b[k].free, b[k] # b[i]
        PROVE  b[k] \in Used(f)
    <3>1. k # i /\ f[k] = b[k] /\ k \in DOMAIN f
      BY <1>1, <1>5, <2>2
    <3> QED BY <2>2, <3>1 DEF Used, ToSet
  <2>3. /\ \A x \in Used(f) : \E k \in 1..Len(b) : f[k] = x /\ ~f[k].free
        /\ \A x \in Used(b) : \E k \in 1..Len(b) : b[k] = x /\ ~b[k].free
    BY <1>1, <1>5 DEF Used, ToSet
  <2>4. Used(f) \subseteq Used(b) \ {b[i]}
    BY <2>1, <2>3
  <2>5. Used(b) \ {b[i]} \subseteq Used(f)
    BY <2>2, <2>3
  <2> QED BY <2>4, <2>5
<1>8. ASSUME NEW k \in 1..(Len(f) - 1), k # i, k + 1 # i
      PROVE  ~(f[k].free /\ f[k + 1].free)
  <2>1. f[k] = b[k] /\ f[k + 1] = b[k + 1] /\ k \in 1..(Len(b) - 1)
    BY <1>1, <1>5, <1>8
  <2> QED BY <1>1, <2>1 DEF Merged
<1>9. /\ m \in Seq(Block) /\ Tiles(m) /\ m[Len(m)].size > 0
      /\ Used(m) = Used(f) /\ i \in 1..Len(m) /\ m[i].free
      /\ \A k \in 1..(Len(m) - 1) :
            k + 1 # i => ~(m[k].free /\ m[k + 1].free)
  <2>1. CASE i < Len(f) /\ f[i + 1].free
    <3>1. m = Absorb(f, i)
      BY <2>1 DEF MergeNext
    <3>2. i \in 1..(Len(f) - 1) /\ f[i].free /\ Len(f) \in Nat
      BY <1>1, <1>4, <1>5, <2>1
    <3> HIDE DEF m
    <3>3. /\ m \in Seq(Block) /\ Len(m) = Len(f) - 1
          /\ \A k \in 1..(i - 1) : m[k] = f[k]
          /\ m[i].free
          /\ \A k \in (i + 1)..Len(m) : m[k] = f[k + 1]
          /\ Tiles(m) /\ m[Len(m)].size > 0 /\ Used(m) = Used(f)
      BY <1>5, <1>6, <2>1, <3>1, <3>2, AbsorbLemma
    <3>4. ASSUME NEW k \in 1..(Len(m) - 1), k + 1 # i
          PROVE  ~(m[k].free /\ m[k + 1].free)
      <4>1. CASE k < i
        <5>1. /\ m[k] = f[k] /\ m[k + 1] = f[k + 1]
              /\ k \in 1..(Len(f) - 1) /\ k # i
          BY <3>2, <3>3, <3>4, <4>1, SMTT(20)
        <5> QED BY <1>8, <3>4, <5>1
      <4>2. CASE k >= i
        <5>1. /\ k + 1 \in (i + 1)..Len(m) /\ k + 1 \in 1..(Len(f) - 1)
              /\ k + 1 # i /\ (k + 1) + 1 # i
          BY <3>2, <3>3, <4>2
        <5>2. m[k + 1] = f[(k + 1) + 1]
          BY <3>3, <5>1
        <5>3. ~(f[k + 1].free /\ f[(k + 1) + 1].free)
          BY <1>8, <5>1
        <5>4. CASE k = i
          BY <2>1, <5>2, <5>3, <5>4
        <5>5. CASE k > i
          <6>1. m[k] = f[k + 1]
            BY <3>2, <3>3, <5>5, SMTT(20)
          <6> QED BY <5>2, <5>3, <6>1
        <5> QED BY <4>2, <5>4, <5>5
      <4> QED BY <3>2, <4>1, <4>2
    <3>5. i \in 1..Len(m)
      BY <3>2, <3>3
    <3> QED BY <3>3, <3>4, <3>5
  <2>2. CASE ~(i < Len(f) /\ f[i + 1].free)
    <3>1. m = f
      BY <2>2 DEF MergeNext
    <3>2. i \in 1..Len(f) /\ f[i].free
      BY <1>1, <1>4, <1>5
    <3>3. ASSUME NEW k \in 1..(Len(f) - 1), k + 1 # i
          PROVE  ~(f[k].free /\ f[k + 1].free)
      <4>1. CASE k = i
        BY <1>1, <1>5, <2>2, <4>1
      <4>2. CASE k # i
        BY <1>8, <3>3, <4>2
      <4> QED BY <4>1, <4>2
    <3> QED BY <1>5, <1>6, <3>1, <3>2, <3>3
  <2> QED BY <2>1, <2>2
<1> HIDE DEF m
<1>10. Sound(c) /\ Used(c) = Used(m)
  <2>1. CASE i > 1 /\ m[i - 1].free
    <3>1. c = Absorb(m, i - 1)
      BY <2>1 DEF MergePrev
    <3>2. /\ i - 1 \in 1..(Len(m) - 1) /\ m[(i - 1) + 1].free
          /\ Len(m) \in Nat /\ i \in Nat
      BY <1>9, <2>1
    <3> HIDE DEF c
    <3>3. /\ c \in Seq(Block) /\ Len(c) = Len(m) - 1
          /\ \A k \in 1..((i - 1) - 1) : c[k] = m[k]
          /\ c[i - 1].free
          /\ \A k \in ((i - 1) + 1)..Len(c) : c[k] = m[k + 1]
          /\ Tiles(c) /\ c[Len(c)].size > 0 /\ Used(c) = Used(m)
      <4>1. PICK j \in 1..(Len(m) - 1) : j = i - 1
        BY <3>2
      <4>2. m[j].free /\ m[j + 1].free
        BY <1>9, <2>1, <3>2, <4>1
      <4>3. c = Absorb(m, j)
        BY <3>1, <4>1
      <4>4. /\ c \in Seq(Block) /\ Len(c) = Len(m) - 1
            /\ \A k \in 1..(j - 1) : c[k] = m[k]
            /\ c[j].free
            /\ \A k \in (j + 1)..Len(c) : c[k] = m[k + 1]
            /\ Tiles(c) /\ c[Len(c)].size > 0 /\ Used(c) = Used(m)
        BY <1>9, <4>2, <4>3, AbsorbLemma
      <4> QED BY <4>1, <4>4
    <3>4. ASSUME NEW k \in 1..(Len(c) - 1)
          PROVE  ~(c[k].free /\ c[k + 1].free)
      <4>1. CASE k < i - 2
        <5>1. /\ c[k] = m[k] /\ c[k + 1] = m[k + 1]
              /\ k \in 1..(Len(m) - 1) /\ k + 1 # i
          BY <3>2, <3>3, <4>1
        <5> QED BY <1>9, <5>1
      <4>2. CASE k = i - 2
        <5>1. /\ c[k] = m[k] /\ k + 1 = i - 1
              /\ k \in 1..(Len(m) - 1) /\ k + 1 # i
          BY <3>2, <3>3, <4>2
        <5>2. ~(m[k].free /\ m[k + 1].free)
          BY <1>9, <5>1
        <5> QED BY <2>1, <5>1, <5>2
      <4>3. CASE k >= i - 1
        <5>1. /\ k + 1 \in ((i - 1) + 1)..Len(c) /\ k + 1 \in 1..(Len(m) - 1)
              /\ (k + 1) + 1 # i
          BY <3>2, <3>3, <4>3
        <5>2. c[k + 1] = m[(k + 1) + 1]
          BY <3>3, <5>1
        <5>3. ~(m[k + 1].free /\ m[(k + 1) + 1].free)
          BY <1>9, <5>1
        <5>4. CASE k = i - 1
          <6>1. m[k + 1].free
            BY <3>2, <5>4
          <6> QED BY <5>2, <5>3, <6>1
        <5>5. CASE k > i - 1
          <6>1. c[k] = m[k + 1]
            BY <3>2, <3>3, <5>5, SMTT(20)
          <6> QED BY <5>2, <5>3, <6>1
        <5> QED BY <3>2, <4>3, <5>4, <5>5
      <4> QED BY <3>2, <4>1, <4>2, <4>3
    <3> QED BY <3>3, <3>4 DEF Sound, Merged
  <2>2. CASE ~(i > 1 /\ m[i - 1].free)
    <3>1. c = m
      BY <2>2 DEF MergePrev
    <3>2. ASSUME NEW k \in 1..(Len(m) - 1)
          PROVE  ~(m[k].free /\ m[k + 1].free)
      <4>1. CASE k + 1 = i
        <5>1. i > 1 /\ k = i - 1
          BY <1>9, <4>1
        <5> QED BY <2>2, <5>1
      <4>2. CASE k + 1 # i
        BY <1>9, <4>2
      <4> QED BY <4>1, <4>2
    <3> QED BY <1>9, <3>1, <3>2 DEF Sound, Merged
  <2> QED BY <2>1, <2>2
<1> QED BY <1>2, <1>7, <1>9, <1>10

----------------------------------------------------------------------------
(* The inductive invariant *)

LEMMA InvIsSound == HeapInv => Sound(blocks) /\ given \subseteq Grant
BY DEF HeapInv, TypeOK, Tiled, FullyMerged, Sound

LEMMA InitHeapInv == Init => HeapInv
<1> SUFFICES ASSUME Init PROVE HeapInv
  OBVIOUS
<1> DEFINE r == [addr |-> HeapStart, size |-> HeapSize - Header, free |-> TRUE]
<1>1. r \in Block /\ r.size > 0 /\ End(r) = HeapEnd
  BY HeapAssumption, HeaderAssumption DEF Block, End, HeapEnd
<1>2. r.addr = HeapStart /\ r.free
  OBVIOUS
<1>3. blocks = <<r>> /\ given = {}
  BY DEF Init
<1> HIDE DEF r
<1>4. /\ blocks \in Seq(Block) /\ Len(blocks) = 1 /\ blocks[1] = r
      /\ blocks # <<>> /\ DOMAIN blocks = 1..1
  BY <1>1, <1>3
<1>5. Tiled /\ FullyMerged
  BY <1>1, <1>2, <1>4 DEF Tiled, Tiles, FullyMerged, Merged
<1>6. Used(blocks) = {}
  BY <1>2, <1>4 DEF Used, ToSet
<1>7. GrantsBacked
  BY <1>3, <1>6 DEF GrantsBacked
<1> QED BY <1>1, <1>3, <1>4, <1>5, <1>7 DEF HeapInv, TypeOK

(***************************************************************************)
(* No two blocks in use start at the same address.                         *)
(***************************************************************************)
LEMMA UsedUnique ==
    ASSUME NEW b, Sound(b), NEW x \in Used(b), NEW y \in Used(b),
           Pointer(x) = Pointer(y)
    PROVE  x = y
<1>1. PICK i \in 1..Len(b), j \in 1..Len(b) : x = b[i] /\ y = b[j]
  BY DEF Used, ToSet, Sound
<1>2. b \in Seq(Block) /\ b[i] \in Block /\ b[j] \in Block /\ Tiles(b)
  BY DEF Sound
<1>3. b[i].addr = b[j].addr
  <2>1. b[i].addr \in Nat /\ b[j].addr \in Nat
    BY <1>2, BlockFields
  <2>2. b[i].addr + Header = b[j].addr + Header
    BY <1>1 DEF Pointer
  <2> QED BY <2>1, <2>2, HeaderAssumption
<1> QED BY <1>1, <1>2, <1>3, AddrUnique

(***************************************************************************)
(* A block in use does not end at the end of the heap if it is empty, so   *)
(* kfree accepts the pointer to it.                                        *)
(***************************************************************************)
LEMMA PointerInHeap ==
    ASSUME NEW b, Sound(b), NEW i \in 1..Len(b)
    PROVE  Pointer(b[i]) < HeapEnd
<1>1. b \in Seq(Block) /\ b[i] \in Block /\ Tiles(b) /\ Len(b) \in 1..Len(b)
  BY DEF Sound
<1>2. b[Len(b)] \in Block /\ b[Len(b)].size > 0 /\ End(b[Len(b)]) = HeapEnd
  BY <1>1 DEF Sound, Tiles
<1>3. CASE i = Len(b)
  <2>1. b[i].addr \in Nat /\ b[i].size \in Nat
    BY <1>1, BlockFields
  <2> QED BY <1>2, <1>3, <2>1, HeaderAssumption DEF Pointer, End
<1>4. CASE i # Len(b)
  <2>1. End(b[i]) <= b[Len(b)].addr
    BY <1>1, <1>4, InOrder
  <2>2. /\ b[i].addr \in Nat /\ b[i].size \in Nat
        /\ End(b[i]) = b[i].addr + Header + b[i].size
        /\ b[Len(b)].addr \in Nat /\ b[Len(b)].size \in Nat
        /\ End(b[Len(b)]) = b[Len(b)].addr + Header + b[Len(b)].size
    BY <1>1, <1>2, BlockFields
  <2>3. Pointer(b[i]) = b[i].addr + Header
    BY DEF Pointer
  <2> DEFINE ai == b[i].addr
             si == b[i].size
             al == b[Len(b)].addr
             sl == b[Len(b)].size
  <2>4. /\ ai \in Nat /\ si \in Nat /\ al \in Nat /\ sl \in Nat /\ sl > 0
        /\ ai + Header + si <= al /\ al + Header + sl = HeapEnd
        /\ Pointer(b[i]) = ai + Header
    BY <1>2, <2>1, <2>2, <2>3
  <2> HIDE DEF ai, si, al, sl
  <2> QED BY <2>4, HeaderAssumption
<1> QED BY <1>3, <1>4

(***************************************************************************)
(* kmalloc and alloc_pages, for any request that leaves room to align in.  *)
(***************************************************************************)
LEMMA AllocateStep ==
    ASSUME HeapInv, NEW n \in Nat, NEW size \in Nat, NEW unit \in Nat \ {0},
           size + unit <= n + 1, Allocate(n, size, unit)
    PROVE  HeapInv' /\ Used(blocks) \subseteq Used(blocks')
<1> DEFINE nn == RoundUp(n, 8)
           i == Min(Fits(blocks, nn))
           raw == Pointer(blocks[i])
           g == [at |-> RoundUp(raw, unit), size |-> size, raw |-> raw]
<1>1. Sound(blocks) /\ given \subseteq Grant /\ GrantsBacked
  BY InvIsSound DEF HeapInv
<1>2. /\ Fits(blocks, nn) # {}
      /\ blocks' = Taken(blocks, i, nn)
      /\ given' = given \cup {g}
  BY DEF Allocate
<1>3. nn \in Nat /\ n <= nn
  <2>1. 8 \in Nat \ {0}
    OBVIOUS
  <2> QED BY <2>1, RoundUpLemma
<1> HIDE DEF nn
<1>4. i \in 1..Len(blocks) /\ blocks[i].free /\ blocks[i].size >= nn
  <2>1. Fits(blocks, nn) \in SUBSET Nat
    BY DEF Fits
  <2>2. i \in Fits(blocks, nn)
    BY <1>2, <2>1, MinExists
  <2> HIDE DEF i
  <2> QED BY <2>2 DEF Fits
<1> HIDE DEF i
<1>5. /\ blocks \in Seq(Block) /\ blocks[i] \in Block
      /\ blocks[i].addr \in Nat /\ blocks[i].size \in Nat
  <2>1. blocks \in Seq(Block)
    BY <1>1 DEF Sound
  <2>2. blocks[i] \in Block
    BY <1>4, <2>1
  <2> QED BY <2>1, <2>2, BlockFields
<1>6. PICK m \in Nat :
         /\ nn <= m
         /\ Sound(blocks')
         /\ Used(blocks') = Used(blocks) \cup {InUse(blocks, i, m)}
  <2>1. CASE WorthSplitting(blocks, i, nn)
    <3>1. blocks' = InsertAt([blocks EXCEPT ![i] = InUse(blocks, i, nn)],
                             i + 1, RestOf(blocks, i, nn))
      BY <1>2, <2>1 DEF Taken
    <3>2. /\ Sound(blocks')
          /\ Used(blocks') = Used(blocks) \cup {InUse(blocks, i, nn)}
      BY <1>1, <1>3, <1>4, <2>1, <3>1, SplitBlock
    <3> QED BY <1>3, <3>2
  <2>2. CASE ~WorthSplitting(blocks, i, nn)
    <3>1. blocks' = [blocks EXCEPT ![i] = InUse(blocks, i, blocks[i].size)]
      BY <1>2, <2>2 DEF Taken
    <3>2. /\ Sound(blocks')
          /\ Used(blocks') = Used(blocks)
                \cup {InUse(blocks, i, blocks[i].size)}
      BY <1>1, <1>4, <3>1, WholeBlock
    <3>3. nn <= blocks[i].size
      BY <1>3, <1>4, <1>5
    <3> QED BY <1>5, <3>2, <3>3
  <2> QED BY <2>1, <2>2
<1> DEFINE u == InUse(blocks, i, m)
<1>7. raw \in Nat /\ raw = blocks[i].addr + Header
  BY <1>5, HeaderAssumption DEF Pointer
<1> HIDE DEF raw
<1>8. Pointer(u) = raw /\ End(u) = raw + m /\ ~u.free
  BY <1>7 DEF InUse, Pointer, End
<1>9. /\ RoundUp(raw, unit) \in Nat /\ raw <= RoundUp(raw, unit)
      /\ RoundUp(raw, unit) < raw + unit
  BY <1>7, RoundUpLemma
<1>10. /\ g \in Grant /\ g.raw = raw /\ g.at = RoundUp(raw, unit)
       /\ g.size = size
  BY <1>7, <1>9 DEF Grant
<1>11. Backs(u, g)
  <2>1. RoundUp(raw, unit) + size <= raw + m
    BY <1>3, <1>6, <1>7, <1>9
  <2> HIDE DEF u, g
  <2> QED BY <1>8, <1>9, <1>10, <2>1 DEF Backs
<1>12. ASSUME NEW x \in Used(blocks)
       PROVE  Pointer(x) # raw
  <2>1. PICK k \in 1..Len(blocks) : x = blocks[k] /\ ~blocks[k].free
    BY <1>5 DEF Used, ToSet
  <2>2. k # i
    BY <1>4, <2>1
  <2>3. blocks[k].addr # blocks[i].addr
    BY <1>1, <1>4, <2>2, AddrUnique DEF Sound
  <2>4. blocks[k].addr \in Nat
    <3>1. blocks[k] \in Block
      BY <1>5
    <3> QED BY <3>1, BlockFields
  <2>5. Pointer(x) = blocks[k].addr + Header
    BY <2>1 DEF Pointer
  <2> QED BY <1>5, <1>7, <2>3, <2>4, <2>5, HeaderAssumption, SMTT(20)
<1> HIDE DEF u, g
<1>13. GrantsBacked'
  <2>1. ASSUME NEW h \in given'
        PROVE  \E x \in Used(blocks') : Backs(x, h)
    <3>1. CASE h \in given
      BY <1>1, <1>6, <3>1 DEF GrantsBacked
    <3>2. CASE h = g
      BY <1>6, <1>11, <3>2 DEF u
    <3> QED BY <1>2, <3>1, <3>2 DEF g
  <2>2. ASSUME NEW x \in Used(blocks')
        PROVE  \E h \in given' : Backs(x, h)
    <3>1. CASE x \in Used(blocks)
      BY <1>1, <1>2, <3>1 DEF GrantsBacked
    <3>2. CASE x = u
      BY <1>2, <1>11, <3>2 DEF g
    <3> QED BY <1>6, <3>1, <3>2 DEF u
  <2>3. ASSUME NEW h \in given PROVE h.raw # g.raw
    <3>1. PICK x \in Used(blocks) : Backs(x, h)
      BY <1>1 DEF GrantsBacked
    <3> QED BY <1>10, <1>12, <3>1 DEF Backs
  <2>4. ASSUME NEW h \in given', NEW k \in given', h # k
        PROVE  h.raw # k.raw
    <3>1. CASE h \in given /\ k \in given
      BY <1>1, <2>4, <3>1 DEF GrantsBacked
    <3>2. CASE h = g \/ k = g
      BY <1>2, <2>3, <2>4, <3>2 DEF g
    <3> QED BY <1>2, <3>1, <3>2 DEF g
  <2> QED BY <2>1, <2>2, <2>4 DEF GrantsBacked
<1>14. given' \subseteq Grant
  BY <1>1, <1>2, <1>10 DEF g
<1> QED BY <1>6, <1>13, <1>14
        DEF HeapInv, TypeOK, Tiled, FullyMerged, Sound

LEMMA KmallocStep ==
    ASSUME HeapInv, NEW n \in Request, Kmalloc(n)
    PROVE  HeapInv' /\ Used(blocks) \subseteq Used(blocks')
<1>1. n \in Nat /\ 1 \in Nat \ {0} /\ n + 1 <= n + 1
  BY RequestAssumption
<1>2. Allocate(n, n, 1)
  BY DEF Kmalloc
<1> QED BY <1>1, <1>2, AllocateStep

LEMMA AllocPagesStep ==
    ASSUME HeapInv, NEW n \in Pages, AllocPages(n)
    PROVE  HeapInv' /\ Used(blocks) \subseteq Used(blocks')
<1> DEFINE room == RoomForPages(n)
           size == n * PageSize + Word
<1>1. n \in Nat /\ n * PageSize \in Nat
  BY RequestAssumption, PageAssumption
<1>2. room = n * PageSize + PageSize + Word
  BY DEF RoomForPages
<1>3. /\ room \in Nat /\ size \in Nat /\ PageSize \in Nat \ {0}
      /\ size + PageSize <= room + 1
  <2> DEFINE p == n * PageSize
  <2>1. p \in Nat /\ room = p + PageSize + Word /\ size = p + Word
    BY <1>1, <1>2
  <2> HIDE DEF p, room, size
  <2> QED BY <2>1, PageAssumption
<1>4. Allocate(room, size, PageSize)
  BY DEF AllocPages
<1> HIDE DEF room, size
<1> QED BY <1>3, <1>4, AllocateStep

(***************************************************************************)
(* kfree of memory that a caller holds.                                    *)
(***************************************************************************)
LEMMA KfreeStep ==
    ASSUME HeapInv, NEW g \in given, Kfree(g)
    PROVE  /\ HeapInv'
           /\ \A h \in given', x \in Used(blocks) :
                 Backs(x, h) => x \in Used(blocks')
<1>1. Sound(blocks) /\ given \subseteq Grant /\ GrantsBacked
  BY InvIsSound DEF HeapInv
<1>2. PICK i \in 1..Len(blocks) :
         /\ Pointer(blocks[i]) = g.raw
         /\ blocks' = IF g.raw < HeapEnd THEN Freed(blocks, i) ELSE blocks
  BY DEF Kfree
<1>3. given' = given \ {g}
  BY DEF Kfree
<1>4. blocks' = Freed(blocks, i)
  BY <1>1, <1>2, PointerInHeap
<1>5. PICK x \in Used(blocks) : Backs(x, g)
  BY <1>1 DEF GrantsBacked
<1>6. blocks[i] = x
  <2>1. PICK k \in 1..Len(blocks) : x = blocks[k]
    BY <1>1, <1>5 DEF Used, ToSet, Sound
  <2>2. Pointer(blocks[k]) = Pointer(blocks[i])
    BY <1>2, <1>5, <2>1 DEF Backs
  <2>3. blocks[k] \in Block /\ blocks[i] \in Block
    BY <1>1 DEF Sound
  <2>4. blocks[k].addr \in Nat /\ blocks[i].addr \in Nat
    BY <2>3, BlockFields
  <2>5. blocks[k].addr = blocks[i].addr
    BY <2>2, <2>4, HeaderAssumption DEF Pointer
  <2>6. k = i
    BY <1>1, <2>5, AddrUnique DEF Sound
  <2> QED BY <2>1, <2>6
<1>7. ~blocks[i].free
  BY <1>5, <1>6 DEF Used
<1>8. Sound(blocks') /\ Used(blocks') = Used(blocks) \ {x}
  BY <1>1, <1>4, <1>6, <1>7, FreedLemma
<1>9. ASSUME NEW h \in given', NEW y \in Used(blocks), Backs(y, h)
      PROVE  y \in Used(blocks')
  <2>1. h \in given /\ h # g
    BY <1>3
  <2>2. h.raw # g.raw
    BY <1>1, <2>1 DEF GrantsBacked
  <2>3. y # x
    BY <1>5, <1>9, <2>2 DEF Backs
  <2> QED BY <1>8, <2>3
<1>10. GrantsBacked'
  <2>1. ASSUME NEW h \in given'
        PROVE  \E y \in Used(blocks') : Backs(y, h)
    <3>1. h \in given
      BY <1>3
    <3>2. PICK y \in Used(blocks) : Backs(y, h)
      BY <1>1, <3>1 DEF GrantsBacked
    <3> QED BY <1>9, <3>2
  <2>2. ASSUME NEW y \in Used(blocks')
        PROVE  \E h \in given' : Backs(y, h)
    <3>1. y \in Used(blocks) /\ y # x
      BY <1>8
    <3>2. PICK h \in given : Backs(y, h)
      BY <1>1, <3>1 DEF GrantsBacked
    <3>3. h # g
      <4>1. SUFFICES ASSUME h = g PROVE FALSE
        OBVIOUS
      <4>2. Pointer(y) = Pointer(x)
        BY <1>5, <3>2, <4>1 DEF Backs
      <4> QED BY <1>1, <3>1, <4>2, UsedUnique
    <3> QED BY <1>3, <3>2, <3>3
  <2>3. \A h, k \in given' : h # k => h.raw # k.raw
    BY <1>1, <1>3 DEF GrantsBacked
  <2> QED BY <2>1, <2>2, <2>3 DEF GrantsBacked
<1>11. given' \subseteq Grant
  BY <1>1, <1>3
<1> QED BY <1>8, <1>9, <1>10, <1>11
        DEF HeapInv, TypeOK, Tiled, FullyMerged, Sound

LEMMA NextHeapInv == HeapInv /\ [Next]_vars => HeapInv'
<1> SUFFICES ASSUME HeapInv, [Next]_vars
             PROVE  HeapInv'
  OBVIOUS
<1>1. ASSUME NEW n \in Request, Kmalloc(n) PROVE HeapInv'
  BY <1>1, KmallocStep
<1>2. ASSUME NEW n \in Pages, AllocPages(n) PROVE HeapInv'
  BY <1>2, AllocPagesStep
<1>3. ASSUME NEW g \in given, Kfree(g) PROVE HeapInv'
  BY <1>3, KfreeStep
<1>4. CASE UNCHANGED vars
  BY <1>4 DEF vars, HeapInv, TypeOK, Tiled, FullyMerged, GrantsBacked
<1> QED BY <1>1, <1>2, <1>3, <1>4 DEF Next

(***************************************************************************)
(* The inductive invariant holds.                                          *)
(***************************************************************************)
THEOREM HeapInvariant == Spec => []HeapInv
BY InitHeapInv, NextHeapInv, PTL DEF Spec

(***************************************************************************)
(* The heap is well-typed: splitting never leaves a block of negative size. *)
(***************************************************************************)
THEOREM HeapTypeCorrect == Spec => []TypeOK
BY HeapInvariant, PTL DEF HeapInv

(***************************************************************************)
(* The blocks tile the heap at any time.                                   *)
(***************************************************************************)
THEOREM HeapTiled == Spec => []Tiled
BY HeapInvariant, PTL DEF HeapInv

(***************************************************************************)
(* No two free blocks are neighbours.                                      *)
(***************************************************************************)
THEOREM HeapMerged == Spec => []FullyMerged
BY HeapInvariant, PTL DEF HeapInv

(***************************************************************************)
(* Each caller has its memory to itself, pages and their trailing pointer  *)
(* included, and kfree never gives up a block that somebody else holds.    *)
(***************************************************************************)
THEOREM CallersApart == Spec => []GrantsBacked
BY HeapInvariant, PTL DEF HeapInv

(***************************************************************************)
(* No call moves or resizes a block that stays in use.                     *)
(***************************************************************************)
THEOREM BlocksStay == Spec => OthersUntouched
<1> DEFINE Stay == \A g \in given \cap given', block \in Used(blocks) :
                      Backs(block, g) => block \in Used(blocks')
<1>1. HeapInv /\ [Next]_vars => [Stay]_vars
  <2> SUFFICES ASSUME HeapInv, Next PROVE Stay
    OBVIOUS
  <2>1. ASSUME NEW n \in Request, Kmalloc(n) PROVE Stay
    BY <2>1, KmallocStep
  <2>2. ASSUME NEW n \in Pages, AllocPages(n) PROVE Stay
    BY <2>2, AllocPagesStep
  <2>3. ASSUME NEW g \in given, Kfree(g) PROVE Stay
    BY <2>3, KfreeStep
  <2> QED BY <2>1, <2>2, <2>3 DEF Next
<1> QED BY <1>1, HeapInvariant, PTL DEF Spec, OthersUntouched

(***************************************************************************)
(* The heap is sound, whatever its size and those of its headers.          *)
(***************************************************************************)
THEOREM HeapSound == Spec => []HeapIsSound
BY HeapInvariant, PTL DEF HeapInv, HeapIsSound
=============================================================================
